SPECIFICATION FairClient
CONSTANTS
  Names = {"alice", "bob"}
  Ips = {"h1", "h2"}
  Ports = {1, 2}
  MaxId = 1
  NoIp = ""
  NoUser = NoUser
  NoName = "-"
  Here = "h1"
  OwnPorts = {1}
  Elsewhere <- Strangers
  MaxFaults = 1
INVARIANTS
  ClientTypeOK
  ClientInductive
  OneListener
  NoGhostSession
  SessionIsTrue
  DisconnectCleans
  NoStaleStop
  SenderIsKnown
PROPERTIES
  DisconnectReturns
