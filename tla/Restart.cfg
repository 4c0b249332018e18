SPECIFICATION LiveSpec
CONSTANTS
  Jobs = {j1}
  NoJob = NoJob
  MaxBoots = 1
  MaxDeferrals = 1
  MaxReports = 1
  MaxLate = 1
INVARIANTS WithdrawnStaysWithdrawn RecordedRestartIsLast
PROPERTIES ImplementsSlot ClosedReachesAgent JobsEnd
CHECK_DEADLOCK FALSE
