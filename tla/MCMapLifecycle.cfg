\* Two versions, two overlapping ticks, one officer at a time, a clock that
\* passes both ends of a window.
CONSTANTS
  MaxVersions = 2
  MaxTime = 1
  MaxFaults = 1
  Proposals <- MCProposals
  Area <- MCArea
  Sessions <- MCSessions
  Skews <- MCSkews
  Layer <- MCLayer
  Batches <- MCBatches
  Ticks = {t1, t2}
  Calls = {c1}
  None = None
SPECIFICATION Spec
INVARIANTS
  OneWalk
  ShownWasReviewed
PROPERTIES
  ClockIsKept
  CacheCatchesUp
