SPECIFICATION Spec
CONSTANTS
  Callers = {a1, a2}
  Servers = {s1, s2}
  MaxAttempts = 2
  MaxMade = 3
INVARIANT McpInv
PROPERTY EveryCallReturns
\* A session may stop for good: no agent needs to make another call.
CHECK_DEADLOCK FALSE
