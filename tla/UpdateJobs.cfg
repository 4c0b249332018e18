SPECIFICATION LiveSpec
CONSTANTS
  Jobs = {j1}
  Versions = {v1}
  Uploads = {u1, u2}
  Creators = {c1}
  Bundled = v1
  Image = image
  None = None
  MaxReports = 1
INVARIANT ReleaseMatches
PROPERTIES ClosedChangesOnlyByReport JobsEnd
CHECK_DEADLOCK FALSE
