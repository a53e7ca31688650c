CONSTANTS
  Window = 14
  BigCost = 8
  MaxMessages = 5
  MaxIds = 2
  PromptCosts <- MCOnePromptCost
  SummaryCosts <- MCSummaryCosts
SPECIFICATION Spec
INVARIANTS TypeOK OnlyUndoOrphans TurnRangesTile
PROPERTIES CompactionSound MarkersHandledOnce
CHECK_DEADLOCK FALSE
