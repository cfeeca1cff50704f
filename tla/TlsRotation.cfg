\* One replica starts when the stored certificate is due.
SPECIFICATION Spec
CONSTANTS
  p1 = p1
  Pods = {p1}
  ExtKey = ExtKey
  Blank = Blank
  None = None
  InitSecrets <- DueSecret
  MaxGen = 2
  MaxFaults = 0
INVARIANTS RotationPersisted
\* Initialisation ends: all replicas done, or waiting forever, or at a bound.
CHECK_DEADLOCK FALSE
