\* The operator's pair is in place when the replicas start.
SPECIFICATION Spec
CONSTANTS
  p1 = p1
  p2 = p2
  Pods = {p1, p2}
  ExtKey = ExtKey
  Blank = Blank
  None = None
  InitSecrets <- OperatorsSecret
  InitVwcs <- NoVwc
  Resources = {"pods"}
  Shipped <- OneTemplate
  EditedRules = {}
  MaxGen = 1
  MaxFaults = 0
  MaxEdits = 0
SYMMETRY Symmetric
INVARIANTS OperatorPairTrusted
\* Initialisation ends when all replicas are done or at a bound.
CHECK_DEADLOCK FALSE
