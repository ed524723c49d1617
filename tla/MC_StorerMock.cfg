CONSTANTS
  c1 = c1
  c2 = c2
  k1 = k1
  k2 = k2
  v1 = v1
  v2 = v2
  Clients <- MC_Clients
  Keys <- MC_Keys
  Vals <- MC_Vals
  Missing = Missing
  NotFound = NotFound
  NoOwner = NoOwner
  MaxOps = 3
SPECIFICATION Spec
\* Once every goroutine has made its calls the storer has nothing left to
\* do: that final state is not a deadlock.
CHECK_DEADLOCK FALSE
PROPERTIES
  AtomicStorer
  CallsReturn
