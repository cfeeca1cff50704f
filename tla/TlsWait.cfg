\* One replica, a secret with labels but not updated-by-pod among them.
SPECIFICATION FairSpec
CONSTANTS
  p1 = p1
  Pods = {p1}
  ExtKey = ExtKey
  Blank = Blank
  None = None
  InitSecrets <- AllSecrets
  MaxGen = 2
  MaxFaults = 0
PROPERTIES WaitEnds
\* Initialisation ends: all replicas done, or waiting forever, or at a bound.
CHECK_DEADLOCK FALSE
