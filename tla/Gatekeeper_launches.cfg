\* Two requests at once; the gatekeeper and the processes of addie die.
SPECIFICATION Spec
CONSTANTS
  Designs <- MCDesigns
  SeenAs <- MCSeenAs
  Handlers = {h1, h2}
  Procs = {p1, p2, p3}
  Edits = {1}
  None = None
INVARIANTS ServesComplete AnsweredComplete ServesStored
SYMMETRY Anonymous
