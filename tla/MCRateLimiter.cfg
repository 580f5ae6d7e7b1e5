SPECIFICATION Spec
CONSTANTS
  Clients = {c1, c2}
  Requests = {r1, r2}
  Configured = 2
  Minute = 4
  SweepInterval = 5
  MaxDelay = 1
  Horizon = 10
INVARIANTS TypeOK AdmittedWithinBudget
PROPERTIES RefusedOnlyWhenSpent BucketsDoNotPileUp
