SPECIFICATION Spec
CONSTANTS
  Programs <- MCPrograms
  Limits = {0, 1}
  Lookups = {1, 2}
  MaxConnects = 3
  MaxEvents = 2
  MaxObjects = 2
  MaxReads = 2
  MaxChunks = 2
CHECK_DEADLOCK FALSE
INVARIANTS ClientsSafe ServerSafe LookupStateOutlivesThread
PROPERTIES ServicesProgress
