\* Two replicas start together from every kind of secret, with two faults.
SPECIFICATION Spec
CONSTANTS
  p1 = p1
  p2 = p2
  Pods = {p1, p2}
  ExtKey = ExtKey
  Blank = Blank
  None = None
  InitSecrets <- AllSecrets
  MaxGen = 2
  MaxFaults = 2
SYMMETRY Symmetric
INVARIANTS TypeOK ReplicasAgree ByocRespected ServesUsablePair
PROPERTIES ApprovesWhatItRead ImplementsElection
\* Initialisation ends: all replicas done, or waiting forever, or at a bound.
CHECK_DEADLOCK FALSE
