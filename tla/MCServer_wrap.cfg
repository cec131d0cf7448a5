SPECIFICATION Spec
CONSTANTS
  Names = {"alice"}
  Ips = {"h1"}
  Ports = {1}
  MaxId = 2
  NoIp = ""
  NoUser = NoUser
  NoName = "-"
  NoMsg = NoMsg
  Senders = {"alice"}
  Receivers = {"alice"}
  Threads = {t1, t2}
  Ops = {"REGISTER", "UNREGISTER", "CONNECT", "SENDATTACH"}
  MaxSends = 3
  MaxFaults = 1
SYMMETRY Symmetry
INVARIANTS
  NoSilentLoss
  UniquePendingIds
PROPERTIES
  MailboxIsKept
