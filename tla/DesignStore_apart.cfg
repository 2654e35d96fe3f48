\* Two requests at once, from consistent clients that keep apart; a statement
\* fails and the process dies.
SPECIFICATION Spec
CONSTANTS
  Names <- FourNames
  Systems <- MCSystems
  Attrs = {1, 2}
  IfNames <- MCIfNames
  Conductors <- MCConductors
  None = None
  Root = "root"
  Handlers = {h1, h2}
  Updates <- ApartUpdates
  Deletes <- ApartDeletes
  ConsistentClient = TRUE
  MaxKey = 7
  MaxRequests = 3
  MaxFaults = 1
  MaxCrashes = 1
INVARIANTS Durable
PROPERTIES AtomicSpec
\* The bound on requests is reached.
CHECK_DEADLOCK FALSE
