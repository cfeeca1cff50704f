\* Two replicas find a VWC to patch and start around a release that adds a resource.
SPECIFICATION Spec
CONSTANTS
  p1 = p1
  p2 = p2
  Pods = {p1, p2}
  None = None
  Resources = {"pods", "jobs"}
  Shipped <- Growing
  EditedRules <- OperatorsRules
  InitVwcs <- DriftedVwc
  MaxFaults = 0
  MaxEdits = 0
INVARIANT UpgradeSticks
\* Initialisation ends when all replicas are done.
CHECK_DEADLOCK FALSE
