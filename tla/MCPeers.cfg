SPECIFICATION FairPeers
CONSTANTS
  Names = {"ana:w", "bob", "bob:2"}
  Ips = {"h1"}
  Ports = {1, 2}
  MaxId = 1
  NoIp = "no_ip"
  NoUser = NoUser
  Me = "ana:w"
  MyAddr <- AnasAddr
  NoName = "nobody"
  NoAddr = NoAddr
  MaxUsers = 2
  Pieces <- Words
  HasFile = {"ana:w", "bob"}
  FileChunks = 2
  MaxMoves = 3
  MaxFaults = 1
INVARIANTS
  PeersTypeOK
  PeersInductive
  CacheWasTrue
  FileIsWhole
PROPERTIES
  ListsTheConnected
  CallsEnd
