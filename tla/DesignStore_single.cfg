\* One request at a time, from a client that sends anything; statements fail
\* and the process dies.
SPECIFICATION Spec
CONSTANTS
  Names <- MCNames
  Systems <- MCSystems
  Attrs = {1, 2}
  IfNames <- MCIfNames
  Conductors <- MCConductors
  None = None
  Root = "root"
  Handlers = {h1}
  Updates <- AnyUpdates
  Deletes <- AnyDeletes
  ConsistentClient = FALSE
  MaxKey = 6
  MaxRequests = 3
  MaxFaults = 1
  MaxCrashes = 1
PROPERTIES UpdateTakesEffect
\* The bound on requests is reached.
CHECK_DEADLOCK FALSE
