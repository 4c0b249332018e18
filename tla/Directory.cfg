SPECIFICATION LiveSpec
CONSTANTS
  Rows = {r1, r2, r3, r4, r5}
  Accounts = {g1, g2}
  Requests = {e1, e2}
  Nothing = Nothing
  MaxUpsets = 2
PROPERTIES HistoryStays EnrollmentObeys Converges ComesToRest
CHECK_DEADLOCK FALSE
