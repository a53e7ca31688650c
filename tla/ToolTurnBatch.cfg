CONSTANTS
  MaxAttempts = 1
  MaxCalls = 3
  MaxConcurrent = 2
  Blocks <- AllBlocks
SPECIFICATION Spec
INVARIANTS NoOrphan MutatorAlone EnterGatesBatch FailedBashStopsWrites
PROPERTIES PlanModeGatesTurn
CHECK_DEADLOCK FALSE
