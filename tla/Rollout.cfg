\* Two replicas; one fault, one change, two applications of a workload of any kind.
\* The VWC has a rule for services.  A pod may say that a ReplicaSet owns it.
SPECIFICATION FairSpec
CONSTANTS
  m1 = m1
  m2 = m2
  Replicas = {m1, m2}
  None = None
  Specs <- SomeSpecs
  Owners <- SomeOwners
  Installed <- SomePolicies
  MoreRules = {"Service"}
  Offered = {"OFF", "HIGH"}
  MaxFaults = 1
  MaxChanges = 1
  MaxApplies = 2
INVARIANTS TypeOK PodsAsJudged
PROPERTIES WeakestReplica RefusedForCause RolloutCompletes BreakGlass MagTapeReturns
\* In the end nothing is left to do.
CHECK_DEADLOCK FALSE
