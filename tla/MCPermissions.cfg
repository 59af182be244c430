SPECIFICATION PermissionsSpec
CONSTANTS
  Peers = {c1, c2, c3, str, bad}
  Untrusted = {str}
  NoIntent = {str}
  Malformed = {bad}
  Resting = str
  LeaseTime = 2
  MaxLatency = 1
  u1 = u1
  u2 = u2
  h1 = h1
  h2 = h2
  v1 = v1
  t1 = t1
  w1 = w1
  MainWorker = main
  NoThread = nobody
  Static = static
  Research = research
  k1 = k1
  k2 = k2
SYMMETRY Symmetry
CHECK_DEADLOCK FALSE
INVARIANTS TypeOK OneLeasePerCert NoSlicePanic IssuedIntentRecorded
PROPERTIES RevocationBounded LeaseIsOwnConsent
