SPECIFICATION Spec
CONSTANTS
  d1 = d1
  d2 = d2
  Devices = {d1, d2}
  Updates = {u1, u2}
  Security = {u1}
  Home <- HomeDef
  Host <- HostDef
  Versions = {"1.0"}
  Terms = {"pc-1", "clients", "kim"}
  ExportLimit = 1
  Reports <- ReportsDef
  Endings = {"installed", "failed"}
  Null = Null
  MaxAge = 2
  StaleDays = 1
  CriticalDays = 1
  CheckinDays = 1
INVARIANTS
  NumbersMatchLists
  CountsAgree
