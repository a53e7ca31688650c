SPECIFICATION Spec
CONSTANTS
  Ids = {s1, s2}
  None = None
  MaxMsgs = 3
INVARIANTS
  StoreInv
  TurnSurvivesCrash
  ResumePaired
  LogHoldsTheTail
SYMMETRY IdSymmetry
CHECK_DEADLOCK FALSE
