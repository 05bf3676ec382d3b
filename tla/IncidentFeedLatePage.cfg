\* One incident that changes once, and two pages under way.
CONSTANTS
  Incidents = {i1}
  Transactions = {t1}
  Consoles = {c1}
  None = None
  PageLimit = 1
  MaxSequence = 3
  MaxPages = 2
SPECIFICATION Spec
PROPERTIES
  NeverGoesBack
CHECK_DEADLOCK FALSE
