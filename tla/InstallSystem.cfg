CONSTANTS
  Devices = {d1}
  Self = d1
  Installations = {i1}
  Updates = {u1}
  Admins = {a1}
  Requests = {r1}
  MaxCrashes = 1
  MaxRuns = 1
  MaxLate = 1
SPECIFICATION FairSpec
INVARIANTS
  RunningIsBacked
  InterruptedIsNotInstalling
PROPERTIES
  ResultsArrive
  JobsEnd
  ImplementsBackend
