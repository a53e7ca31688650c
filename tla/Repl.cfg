SPECIFICATION FairSpec
CONSTANTS
  MaxQueries = 2
  Teammates = {r, s}
  Ephemeral = {}
  Tools = {Read}
  ReadTools = {Read}
  MaxAsks = 2
INVARIANTS TypeOK AllowedByUser OnePrompt
PROPERTIES AskersReturn
CHECK_DEADLOCK FALSE
