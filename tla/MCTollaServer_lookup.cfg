SPECIFICATION Spec
CONSTANTS
  Users = {u1}
  Purposes = {static}
  Static = static
  Uuids = {k1}
  Http = {h1, h2}
  Workers = {}
  Threads = {h1, h2}
  MainWorker = main
  NoThread = nobody
  Kinds = {"onboard", "deboard", "lease"}
  Faults = {}
  HalfRange = 2
  DistinctSerials = TRUE
  BareNames = TRUE
  MaxIssues = 2
  MaxBuilds = 1
CHECK_DEADLOCK FALSE
INVARIANT LookupFindsConsent
