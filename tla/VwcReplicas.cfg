\* Three replicas, every kind of VWC, a new version of the template, one fault and one edit.
SPECIFICATION FairSpec
CONSTANTS
  p1 = p1
  p2 = p2
  p3 = p3
  Pods = {p1, p2, p3}
  None = None
  Resources = {"pods", "jobs"}
  Shipped <- Growing
  EditedRules <- OperatorsRules
  InitVwcs <- FoundVwcs
  MaxFaults = 1
  MaxEdits = 1
INVARIANTS TypeOK DoneMeansInstalled
PROPERTIES KeepsOtherFields Finishes RepairsDrift
\* Initialisation ends when all replicas are done.
CHECK_DEADLOCK FALSE
