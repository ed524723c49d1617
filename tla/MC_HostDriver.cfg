CONSTANTS
  c1 = c1
  c2 = c2
  Callers <- MC_Callers
  MaxCalls = 2
SPECIFICATION Spec
\* Once Close has returned and every caller has made its calls the driver
\* has nothing left to do: that final state is not a deadlock.
CHECK_DEADLOCK FALSE
INVARIANT
  ClosedHostOnlyReachedByEarlyCallers
