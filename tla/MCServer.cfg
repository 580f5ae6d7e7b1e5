SPECIFICATION FairServerSpec
CONSTANTS
  Sessions = {s1, s2}
  Workers = {w1, w2}
  Closers = {Main}
  Main = Main
  Served = {"readyz", "search"}
  AllowAnonymousSessions = FALSE
  StoreArtifacts = FALSE
  NoSession = NoSession
CHECK_DEADLOCK FALSE
INVARIANTS ServerTypeOK OneHolder NoUseAfterDestroy ResourcesUnwind ProbesTellTheTruth OrderlyStopAnswersAll
PROPERTIES EveryRequestIsAnswered StopFinishes
