\* Two reports of the same scene, the older one's photograph linked last.
CONSTANTS
  MaxReports = 2
  e1 = e1
  e2 = e2
  e3 = e3
  Evidence = {e1, e2}
  Held <- MCUploads
  Sha <- MCSha
  MaxCandidates = 1
  Redelivered = {}
  Area <- MCArea
  Officers <- MCOfficers
  NoReport = NoReport
SPECIFICATION ReportSpec
INVARIANTS
  DuplicatesAreFlagged
CHECK_DEADLOCK FALSE
