\* Two requests, two workers of one thread, one exception or death of a worker.
SPECIFICATION FairSpec
CONSTANTS
  r1 = r1
  r2 = r2
  w1 = w1
  w2 = w2
  Requests = {r1, r2}
  Workers = {w1, w2}
  Threads = 1
  None = None
  Policies = {"LOW", "MED", "HIGH"}
  Severity <- SeverityOf
  Configs <- SomeConfigs
  Loads <- SomeLoads
  MaxFaults = 1
INVARIANTS TypeOK FailsClosed DenialAlertTruthful DenialReported AlertWarranted OutcomesCounted
PROPERTIES ImplementsAdmission Decided
\* All requests are decided in the end.
CHECK_DEADLOCK FALSE
