CONSTANTS
  MaxAttempts = 2
  MaxCalls = 2
  MaxConcurrent = 1
  Blocks <- FewBlocks
SPECIFICATION FairSpec
INVARIANTS RunsOnce TurnInv
PROPERTIES ImplementsContract CancelEndsTurn
CHECK_DEADLOCK FALSE
