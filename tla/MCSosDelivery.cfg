\* Three requests, one key that can expire, two bodies the catalogue
\* accepts and one it does not.
\* Rows 1..3 with the oldest malformed: fewer malformed rows than BatchSize.
CONSTANTS
  Keys = {k1}
  Payloads = {p1, p2, p3}
  Unavailable = {p3}
  Requests = {q1, q2, q3}
  None = None
  Ttl = 1
  MaxTime = 2
  MaxFaults = 1
  Events = {1, 2, 3}
  Malformed = {1}
  Runs = {r1, r2}
  NoRun = NoRun
  BatchSize = 2
  Endpoints = 2
  MaxRefusals = 2
  MaxFailures = 2
SPECIFICATION DeliverySpec
INVARIANTS
  OneIncidentPerKeyLifetime
  AckIsDurable
  ConflictIsReal
  NeverInProgress
  PublishedWasDelivered
  OneLiveRun
  DuplicatesOnlyFromFaults
PROPERTIES
  EveryRequestAnswered
  DecidesAtomically
  AtLeastOnce
  DeliversEvents
