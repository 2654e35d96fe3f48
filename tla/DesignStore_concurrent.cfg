\* Two requests at once, from clients that send anything; statements fail and
\* the process dies.
SPECIFICATION Spec
CONSTANTS
  Names <- MCNames
  Systems <- MCSystems
  Attrs = {1, 2}
  IfNames <- MCIfNames
  Conductors <- MCConductors
  None = None
  Root = "root"
  Handlers = {h1, h2}
  Updates <- AnyUpdates
  Deletes <- AnyDeletes
  ConsistentClient = FALSE
  MaxKey = 6
  MaxRequests = 3
  MaxFaults = 1
  MaxCrashes = 1
INVARIANTS TypeOK LinkEndsStored OneElementPerId
\* The bound on requests is reached.
CHECK_DEADLOCK FALSE
