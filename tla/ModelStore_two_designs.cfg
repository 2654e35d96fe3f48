CONSTANTS
  d1 = d1
  d2 = d2
  f1 = f1
  f2 = f2
  a = a
  b = b
  None = None
  Designs = {d1, d2}
  Phyos = {f1, f2}
  DesignOf <- Home
  Names = {a, b}
  Bodies = {1, 2}
  Icons = {"none", "given"}
  Settings = {0, 1, 10, 17, 20}
  SixDecimals <- Rounded
  FirstModel <- FirstOne
  FirstSettings = 10
  h1 = h1
  h2 = h2
  Handlers = {h1, h2}
  Messages <- TwoDesigns
  MaxKey = 3
  MaxRequests = 3
  MaxFaults = 1
  MaxCrashes = 1
SYMMETRY Anonymous
SPECIFICATION Spec
CHECK_DEADLOCK FALSE
INVARIANTS ModelsDurable PhyosDurable SettingsDurable
