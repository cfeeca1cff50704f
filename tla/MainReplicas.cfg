\* Two replicas run the whole init container; one fault and one edit of the VWC.
SPECIFICATION Spec
CONSTANTS
  p1 = p1
  p2 = p2
  Pods = {p1, p2}
  ExtKey = ExtKey
  Blank = Blank
  None = None
  InitSecrets <- StartSecrets
  InitVwcs <- NoVwc
  Resources = {"pods"}
  Shipped <- OneTemplate
  EditedRules = {}
  MaxGen = 1
  MaxFaults = 1
  MaxEdits = 1
SYMMETRY Symmetric
INVARIANTS RegisteredWhenServable ServingAgree GeneratedPairTrusted
PROPERTIES ServersElect
\* Initialisation ends when all replicas are done or at a bound.
CHECK_DEADLOCK FALSE
