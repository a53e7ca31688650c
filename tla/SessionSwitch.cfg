SPECIFICATION SpecShelved
CONSTANTS
  Ids = {s1, s2}
  None = None
  MaxMsgs = 3
INVARIANTS
  OutgoingKept
CHECK_DEADLOCK FALSE
