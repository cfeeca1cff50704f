\* Two replicas start around a release whose template lists one resource less.
SPECIFICATION Spec
CONSTANTS
  p1 = p1
  p2 = p2
  Pods = {p1, p2}
  None = None
  Resources = {"pods", "jobs"}
  Shipped <- Shrinking
  EditedRules <- OperatorsRules
  InitVwcs <- NoVwc
  MaxFaults = 0
  MaxEdits = 0
INVARIANT TemplateApplied
\* Initialisation ends when all replicas are done.
CHECK_DEADLOCK FALSE
