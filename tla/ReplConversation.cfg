SPECIFICATION Spec
CONSTANTS
  MaxQueries = 2
  Teammates = {}
  Ephemeral = {}
  Tools = {Bash}
  ReadTools = {}
  MaxAsks = 1
INVARIANTS ConversationAwaited
CHECK_DEADLOCK FALSE
