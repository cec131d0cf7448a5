SPECIFICATION StepsSpec
CONSTANTS
  Names = {"alice"}
  Ips = {"h1"}
  Ports = {1, 2}
  MaxId = 2
  NoIp = ""
  NoUser = NoUser
  Callers = {c1, c2}
  MaxErrors = 1
  MaxCrashes = 1
  MaxRows = 2
  NoCaller = NoCaller
INVARIANT
  NeverOrphans
