SPECIFICATION Spec
CONSTANTS
  MaxJobs = 2
  MaxFires = 2
INVARIANTS
  CronInv
  OneShotGone
