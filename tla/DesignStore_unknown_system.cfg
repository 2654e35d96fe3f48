\* spec/design.md: an element of a system that does not exist is rejected.
SPECIFICATION Spec
CONSTANTS
  Names <- MCNames
  Systems <- MCSystems
  Attrs = {1, 2}
  IfNames <- MCIfNames
  Conductors <- MCConductors
  None = None
  Root = "root"
  Handlers = {h1}
  Updates <- UnknownSystemUpdates
  Deletes <- NoDeletes
  ConsistentClient = FALSE
  MaxKey = 2
  MaxRequests = 1
  MaxFaults = 0
  MaxCrashes = 0
INVARIANTS ShownInKnownSystem
\* The bound on requests is reached.
CHECK_DEADLOCK FALSE
