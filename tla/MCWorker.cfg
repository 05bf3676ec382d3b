\* Three reports of the same scene, one suggestion allowed for each.
\* One upload and two workers: enough for a worker to be overtaken.
CONSTANTS
  MaxReports = 3
  e1 = e1
  e2 = e2
  e3 = e3
  Evidence = {e1, e2, e3}
  Held <- MCUploads
  Sha <- MCSha
  MaxCandidates = 1
  Redelivered = {2}
  Area <- MCArea
  Officers <- MCOfficers
  NoReport = NoReport
  w1 = w1
  w2 = w2
  Uploads = {u1}
  Keys = {k1}
  Contents <- MCContents
  Requests <- MCRequests
  AllowedMimes <- MCAllowedMimes
  MaxBytes = 1
  Calls = {c1, c2}
  Workers = {w1, w2}
  Build <- MCBuild
  LongerThan <- MCLongerThan
  MaxFaults = 3
  NoUpload = NoUpload
  NoObject = NoObject
  NoKey = NoKey
  Idle = Idle
  Free = Free
SPECIFICATION WorkerSpec
INVARIANTS
  DuplicateNamesItsOriginal
  ReadyIsWhatWasScanned
  HonestUploadIsKept
PROPERTIES
  EveryReportIsQueued
  ResolutionIsFinal
  DecisionIsFinal
  EveryScanIsDecided
\* Reports and uploads end once they are decided.
CHECK_DEADLOCK FALSE
