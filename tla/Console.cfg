SPECIFICATION Spec
CONSTANTS
  Views = {"dashboard", "jobs", "devices"}
  Null = Null
  MaxRefusals = 2
  Days = {7, 90}
  Default <- MCDefault
  Prefs <- MCPrefs
  Closed = Closed
  None = None
  MaxChanges = 2
  Ids = {i1}
  Away = Away
  Unread = Unread
  MaxLoads = 2
  MaxRows = 1
INVARIANT DashboardSettles
PROPERTIES ComesBack HeadsSettle
