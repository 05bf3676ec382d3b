\* One version, two officers: one creates it, the other submits it.
CONSTANTS
  MaxVersions = 1
  MaxTime = 1
  MaxFaults = 0
  Proposals <- MCProposals
  Area <- MCArea
  Sessions <- MCTwoEditors
  Skews <- MCSkews
  Layer <- MCLayer
  Batches <- MCBatches
  Ticks = {t1}
  Calls = {c1}
  None = None
SPECIFICATION Spec
INVARIANTS
  AuthorDoesNotApprove
