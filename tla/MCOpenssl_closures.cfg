SPECIFICATION ServernameSpec
CONSTANTS
  Parts = {"callbacks"}
  Threads = {t1, t2, t3}
  Nobody = Nobody
  MaxHandles = 3
  Blocking = FALSE
  Contexts = {"c1", "c2"}
  Slots = {"verify", "tmp_dh", "sni", "protocols"}
  MaxBoxes = 2
  StoreFails = FALSE
  Sessions = {"s1", "s2"}
  Hosts <- MCHosts
  Chains <- MCChains
  IpOf <- MCIpOf
  NoHost = Nothing
  NoSan = Nothing
  NoIp = Nothing
  NoCert = Nothing
  MaxByte = 3
  MaxNames = 3
  Names <- MCNames
  Hashers = {"h1", "h2"}
  Chunks = {"a", "b"}
  MaxLen = 3
  FinalFails = FALSE
  Signers = {"s"}
  Verifiers = {"v"}
  Pieces = {"a", "b"}
  MaxPieces = 2
  MaxSize = 2
  BlockSizes = {1, 2, 3}
  MaxData = 5
  MaxOut = 8
  Nothing = Nothing
  CN = CN
  O = O
CHECK_DEADLOCK FALSE
INVARIANT ClosureFound
