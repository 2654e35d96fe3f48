\* Three requests at once, another design on the testbed; calls fail, answers
\* are lost, the process dies.
SPECIFICATION FairSpec
CONSTANTS
  Handlers = {h1, h2, h3}
  Others = {xy}
  MaxFaults = 1
  MaxCrashes = 1
INVARIANTS NoOrphan RealizedHasExperiment
PROPERTIES DeMaterializeEnds
