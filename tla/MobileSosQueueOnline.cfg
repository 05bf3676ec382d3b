SPECIFICATION Spec
CONSTANTS
  Items = {i1, i2}
  None = None
  MaxFaults = 0
INVARIANTS
  OnlineSubmissionIsSent
