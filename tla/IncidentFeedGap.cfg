\* Two transactions that commit in the other order, one console.
CONSTANTS
  Incidents = {i1, i2}
  Transactions = {t1, t2}
  Consoles = {c1}
  None = None
  PageLimit = 2
  MaxSequence = 2
  MaxPages = 1
SPECIFICATION Spec
INVARIANTS
  NoGap
CHECK_DEADLOCK FALSE
