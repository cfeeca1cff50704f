\* One replica, every kind of secret, three faults, each of which may cost a key.
SPECIFICATION FairSpec
CONSTANTS
  p1 = p1
  Pods = {p1}
  ExtKey = ExtKey
  Blank = Blank
  None = None
  InitSecrets <- AllSecrets
  MaxGen = 4
  MaxFaults = 3
INVARIANTS PairMatches
PROPERTIES Recovers
\* Initialisation ends: all replicas done, or waiting forever, or at a bound.
CHECK_DEADLOCK FALSE
