SPECIFICATION Spec
CONSTANTS
  a = a
  b = b
  Sessions <- MCSessions
  Stores <- MCStores
  IndexStore = "state"
  Windows = FALSE
  Turns = 4
  Lines = 5
  HeadLimit = 2
  TailLimit = 5
  Hints <- MCHints
  Spawned <- MCSpawned
  MaxDepth = 2
  MaxLines = 4
  Polls = 2
  Batches = 2
  Exports = 2
  Tools = {"quick", "parity", "life", "observer", "discover", "router", "doctor", "port"}
INVARIANTS TypeOK HealthyTailIsClosed ParityIsTrue GraphIsTrue SweepIsTrue LostOnlyToDrift ListingIsTrue RouteIsTrue RepairsTheOnlyOne CacheIsFaithful CopiesAreClean
CHECK_DEADLOCK FALSE
