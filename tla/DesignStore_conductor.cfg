\* The test of UpdateComputer: an update is read back as it was sent.
SPECIFICATION Spec
CONSTANTS
  Names <- MCNames
  Systems <- MCSystems
  Attrs = {1, 2}
  IfNames <- MCIfNames
  Conductors <- MCConductors
  None = None
  Root = "root"
  Handlers = {h1}
  Updates <- ConductorUpdates
  Deletes <- NoDeletes
  ConsistentClient = FALSE
  MaxKey = 4
  MaxRequests = 2
  MaxFaults = 0
  MaxCrashes = 0
PROPERTIES UpdateReadsBack
\* The bound on requests is reached.
CHECK_DEADLOCK FALSE
