\* Two requests configure the same two routers; files and scripts fail.
SPECIFICATION FairSpec
CONSTANTS
  Routers = {r1, r2}
  Runs = {c1, c2}
INVARIANTS SendersPass FailureKept
PROPERTIES BootstrapPrepared FailureHeard
\* Nobody closes the channel: a run ends waiting.
CHECK_DEADLOCK FALSE
