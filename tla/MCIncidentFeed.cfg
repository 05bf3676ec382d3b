\* Two incidents, two transactions, one console, pages of one row, and as many
\* status changes as it takes to verify an incident and still be overtaken.
CONSTANTS
  Incidents = {i1, i2}
  Transactions = {t1, t2}
  Consoles = {c1}
  None = None
  PageLimit = 1
  MaxSequence = 5
  MaxPages = 2
SYMMETRY Symmetry
SPECIFICATION Spec
INVARIANTS
  HistoryIsTheWalk
  DecidesOnWhatWasSeen
  MissesOnlyOvertaken
PROPERTIES
  StatusAdvances
  GoesBackOnlyByCrossing
\* The bound on status changes stops the system.
CHECK_DEADLOCK FALSE
