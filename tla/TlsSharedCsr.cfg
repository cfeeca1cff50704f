\* Two replicas, no secret yet, no fault at all.
SPECIFICATION Spec
CONSTANTS
  p1 = p1
  p2 = p2
  Pods = {p1, p2}
  ExtKey = ExtKey
  Blank = Blank
  None = None
  InitSecrets <- NoSecret
  MaxGen = 2
  MaxFaults = 0
SYMMETRY Symmetric
INVARIANTS PairMatches
\* Initialisation ends: all replicas done, or waiting forever, or at a bound.
CHECK_DEADLOCK FALSE
