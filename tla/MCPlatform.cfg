\* Two or three concurrent users of each component, enough failures to open
\* a circuit, outlive a claim, and orphan one.
CONSTANTS
  Callers = {r1, r2, r3}
  Inputs = {i1}
  CacheTtl = 1
  MaxStale = 1
  FailureThreshold = 2
  ResetTimeout = 1
  MaxAttempts = 2
  CallTimeout = 2
  MaxProviderFaults = 3
  NoCall = NoCall
  ClaimKeys = {k1}
  Hashes = {h1, h2}
  Executions = {e1, e2, e3}
  Lifetime = 1
  MaxClaimTime = 1
  NoClaim = NoClaim
  Notifications <- MCNotifications
  Dispatchers = {d1, d2}
  Request <- MCRequest
  Template <- MCTemplate
  OptedOut = {}
  Forbidden = {"phone"}
  CitizenSafe = {"public_code", "observed_at"}
  MaxRedeliveries = 1
  MaxDispatchFaults = 2
  Chains = {c1, c2}
  Sessions = {s1, s2, s3}
  Rotations = {x1, x2}
  SessionTtl = 1
  MaxSessionTime = 1
  NoSession = NoSession
  Requests = {q1}
  Tokens <- MCTokens
  Claims <- MCClaims
  SessionOf <- MCSessionOf
  Evidence <- MCEvidence
  AreaOf <- MCAreaOf
  ClassOf <- MCClassOf
  Cases <- MCCases
  MaxAccessFaults = 1
  Nobody = Nobody
  Deployments <- MCDeployments
  Edited <- MCEdited
  MaxEdits = 2
  Down = Down
  Copies <- MCCopies
  Queries <- MCQueries
SPECIFICATION Spec
INVARIANTS
  HalfOpenHasProbe
  NeverTooOld
  OverlapOnlyAfterOverrun
  HeldClaimHasOwner
  OneLivePerChain
  EveryGrantIsAccounted
  RunningIsWhole
  AnswersFromTheSetOfEvents
PROPERTIES
  CircuitRecovers
  EveryNotificationSettles
\* Sessions run out of identifiers, and executions end.
CHECK_DEADLOCK FALSE
