SPECIFICATION Spec
CONSTANTS
  Users = {u1}
  Purposes = {static}
  Static = static
  Uuids = {k1}
  Http = {h1}
  Workers = {w1}
  Threads = {h1, w1}
  MainWorker = main
  NoThread = nobody
  Kinds = {"onboard", "deboard", "consent"}
  Faults = {"docker", "mongo", "disk", "openssl"}
  HalfRange = 1
  DistinctSerials = FALSE
  BareNames = TRUE
  MaxIssues = 2
  MaxBuilds = 2
CHECK_DEADLOCK FALSE
INVARIANTS TypeOK ConsentHasView
PROPERTIES EraseAfterRemoval SuccessIsComplete CreatedOverIdentity PoisonStopsWrites Lifecycle
