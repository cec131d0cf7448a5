SPECIFICATION Spec
CONSTANTS
  Names = {"alice"}
  Ips = {"h1"}
  Ports = {1}
  MaxId = 2
  NoIp = ""
  NoUser = NoUser
  NoName = "-"
  NoMsg = NoMsg
  Senders = {"alice"}
  Receivers = {"alice"}
  Threads = {t1, t2}
  Ops = {"REGISTER", "UNREGISTER", "CONNECT", "DISCONNECT", "SEND"}
  MaxSends = 2
  MaxFaults = 0
SYMMETRY Symmetry
INVARIANTS
  OnlyDeliveredAreDeleted
