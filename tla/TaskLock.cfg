SPECIFICATION Spec
CONSTANTS
  Agents = {a1, a2}
  NoOne = NoOne
  MaxTasks = 2
  Changes <- MCChanges
INVARIANTS TypeOK OneWriter ClaimOnDisk ClaimsExclusive EdgesBacked
PROPERTIES IsTaskBoard
