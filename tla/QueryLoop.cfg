CONSTANTS
  Percents <- MCPercents
  HasFallback = TRUE
  HasPlanModel = TRUE
SPECIFICATION LoopSpec
INVARIANTS RequestsBounded OutcomeReported CallsAnswered LoopInv
PROPERTIES CancelEndsQuery
CHECK_DEADLOCK FALSE
