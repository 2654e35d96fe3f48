\* The answer of onRun: "ok", once the routers are configured.
SPECIFICATION FairSpec
CONSTANTS
  Routers = {r1}
  Runs = {c1}
PROPERTIES RunIsAnswered
\* Nobody closes the channel: a run ends waiting.
CHECK_DEADLOCK FALSE
