SPECIFICATION Spec
CONSTANTS
  MaxId = 2
  MaxMarkers = 2
  InboxCap = 2
  ResultCap = 2
  MarkerCap = 1
  ExitCap = 2
  PeerToPeer = TRUE
INVARIANTS NoResultLost SupervisedWork
PROPERTIES CallsReturn
CHECK_DEADLOCK FALSE
