------------------------ MODULE NotificationDispatch ------------------------
(***************************************************************************)
(* NotificationDispatcher (apps/worker/src/notifications): notification    *)
(* requests are delivered at least once, by consumers that may handle      *)
(* copies of one request together and die at any point.  The claim store,  *)
(* the template registry, the provider, the audit log and the queue are    *)
(* ports: each is modelled by what dispatch relies on.                     *)
(***************************************************************************)
EXTENDS Naturals, FiniteSets

CONSTANTS
  Notifications,      \* requested notifications, one dedupe key each
  Dispatchers,        \* dispatch calls that can be under way together
  Request, Template,  \* Request[n], Template[n]: what n asks for, and the
                      \* definition the registry has for it
  OptedOut,           \* notifications whose recipient opted out
  Forbidden,          \* FORBIDDEN_DATA_KEYS
  CitizenSafe,        \* CITIZEN_SAFE_DATA_KEYS
  MaxRedeliveries,    \* bound: copies the queue delivers again
  MaxDispatchFaults   \* bound: ports that fail, and dispatchers that die

ASSUME DispatchAssumption ==
  Notifications # {} /\ MaxRedeliveries \in Nat /\ MaxDispatchFaults \in Nat

VARIABLES
  queued,             \* queued[n]: copies of the request to be handled
  hold,               \* hold[n]: "free", "held" or "complete" in the store
  work,               \* work[d]: what d handles and the port it calls next
  finals,             \* finals[n]: final outcomes audited for n
  orphans,            \* claims that were left held by a crash
  redeliveries, dispatchFaults

dispatchVars ==
  <<queued, hold, work, finals, orphans, redeliveries, dispatchFaults>>

-----------------------------------------------------------------------------
\* notification-policy.ts

\* validateDefinition, for a definition whose key and version are well formed.
SafeDefinition(definition) ==
  LET keys == definition.required \union definition.optional
  IN /\ Cardinality(keys) <= 12
     /\ definition.required \intersect definition.optional = {}
     /\ keys \intersect Forbidden = {}
     /\ definition.audience = "CITIZEN" => keys \subseteq CitizenSafe

\* validateRequestData
Matches(request, definition) ==
  /\ request.version = definition.version
  /\ request.audience = definition.audience
  /\ request.class = definition.class
  /\ definition.required \subseteq request.keys
  /\ request.keys \subseteq definition.required \union definition.optional

\* evaluateNotificationPolicy; a template that is not registered is rejected.
Decision(n) ==
  IF Template[n] = {} THEN "REJECTED"
  ELSE LET definition == CHOOSE t \in Template[n] : TRUE
       IN IF ~SafeDefinition(definition) \/ ~Matches(Request[n], definition)
          THEN "REJECTED"
          ELSE IF Request[n].class = "OPTIONAL" /\ n \in OptedOut
               THEN "SUPPRESSED" ELSE "DELIVERED"

-----------------------------------------------------------------------------
Idle == [at |-> "idle", of |-> CHOOSE n \in Notifications : TRUE,
         outcome |-> "DELIVERED"]
Doing(place, n, outcome) == [at |-> place, of |-> n, outcome |-> outcome]
Set(d, w) == work' = [work EXCEPT ![d] = w]
Fault == dispatchFaults < MaxDispatchFaults /\ dispatchFaults' = dispatchFaults + 1

DispatchInit ==
  /\ queued = [n \in Notifications |-> 0]
  /\ hold = [n \in Notifications |-> "free"]
  /\ work = [d \in Dispatchers |-> Idle]
  /\ finals = [n \in Notifications |-> {}]
  /\ orphans = {}
  /\ redeliveries = 0
  /\ dispatchFaults = 0

\* notification.requested reaches the queue: at first, or once more.
Enqueue(n) ==
  /\ \/ queued[n] = 0 /\ hold[n] = "free" /\ finals[n] = {}
          /\ (\A d \in Dispatchers : work[d].at # "idle" => work[d].of # n)
          /\ UNCHANGED redeliveries
     \/ redeliveries < MaxRedeliveries /\ redeliveries' = redeliveries + 1
  /\ queued' = [queued EXCEPT ![n] = @ + 1]
  /\ UNCHANGED <<hold, work, finals, orphans, dispatchFaults>>

\* claims.claim: the first step of dispatch.
Claim(d, n) ==
  /\ work[d].at = "idle"
  /\ queued[n] > 0
  /\ queued' = [queued EXCEPT ![n] = @ - 1]
  /\ IF hold[n] = "free"
     THEN /\ hold' = [hold EXCEPT ![n] = "held"]
          /\ Set(d, Doing("decide", n, "DELIVERED"))
     ELSE /\ UNCHANGED hold
          /\ Set(d, Doing("duplicate", n, "DUPLICATE"))
  /\ UNCHANGED <<finals, orphans, redeliveries, dispatchFaults>>

\* The copy is acknowledged once its DUPLICATE is audited.
AuditDuplicate(d) ==
  /\ work[d].at = "duplicate"
  /\ Set(d, Idle)
  /\ UNCHANGED <<queued, hold, finals, orphans, redeliveries, dispatchFaults>>

\* templates.get, preferences.isEnabled and the policy.
Decide(d) ==
  /\ work[d].at = "decide"
  /\ LET n == work[d].of
     IN Set(d, Doing(IF Decision(n) = "DELIVERED" THEN "deliver" ELSE "audit",
                     n, Decision(n)))
  /\ UNCHANGED <<queued, hold, finals, orphans, redeliveries, dispatchFaults>>

\* provider.deliver, which may refuse for good.
Deliver(d) ==
  /\ work[d].at = "deliver"
  /\ \/ Set(d, Doing("audit", work[d].of, "DELIVERED")) /\ UNCHANGED dispatchFaults
     \/ Set(d, Doing("audit", work[d].of, "PERMANENT_FAILURE")) /\ Fault
  /\ UNCHANGED <<queued, hold, finals, orphans, redeliveries>>

\* finalize: audits.record, then claims.complete.
AuditFinal(d) ==
  /\ work[d].at = "audit"
  /\ finals' = [finals EXCEPT ![work[d].of] = @ \union {work[d].outcome}]
  /\ Set(d, [work[d] EXCEPT !.at = "complete"])
  /\ UNCHANGED <<queued, hold, orphans, redeliveries, dispatchFaults>>

CompleteClaim(d) ==
  /\ work[d].at = "complete"
  /\ hold' = [hold EXCEPT ![work[d].of] = "complete"]
  /\ Set(d, Idle)
  /\ UNCHANGED <<queued, finals, orphans, redeliveries, dispatchFaults>>

\* A port fails: the claim is released and the error makes the queue deliver
\* the copy again.  A retryable provider failure takes the same way.
PortFails(d) ==
  /\ work[d].at \in {"decide", "deliver", "audit", "complete"}
  /\ Fault
  /\ Set(d, [work[d] EXCEPT !.at = "release"])
  /\ UNCHANGED <<queued, hold, finals, orphans, redeliveries>>

\* Deviation: the error is passed on without releasing the claim.
ThrowOnly(d) ==
  /\ work[d].at = "release"
  /\ queued' = [queued EXCEPT ![work[d].of] = @ + 1]
  /\ Set(d, Idle)
  /\ UNCHANGED <<hold, finals, orphans, redeliveries, dispatchFaults>>
ReleaseAndThrow(d) ==
  /\ work[d].at = "release"
  /\ hold' = [hold EXCEPT ![work[d].of] = "free"]
  /\ queued' = [queued EXCEPT ![work[d].of] = @ + 1]
  /\ Set(d, Idle)
  /\ UNCHANGED <<finals, orphans, redeliveries, dispatchFaults>>

\* The worker dies, or the release itself fails: the copy is delivered again
\* but the claim stays held.
Die(d) ==
  /\ work[d].at # "idle"
  /\ Fault
  /\ queued' = [queued EXCEPT ![work[d].of] = @ + 1]
  /\ orphans' = IF work[d].at = "duplicate" THEN orphans
                ELSE orphans \union {work[d].of}
  /\ Set(d, Idle)
  /\ UNCHANGED <<hold, finals, redeliveries>>

Dispatch(d) ==
  \/ \E n \in Notifications : Claim(d, n)
  \/ AuditDuplicate(d) \/ Decide(d) \/ Deliver(d) \/ AuditFinal(d)
  \/ CompleteClaim(d) \/ ReleaseAndThrow(d)

DispatchNext ==
  \/ \E n \in Notifications : Enqueue(n)
  \/ \E d \in Dispatchers : Dispatch(d) \/ PortFails(d) \/ Die(d)

DispatchSpec == DispatchInit /\ [][DispatchNext]_dispatchVars

-----------------------------------------------------------------------------
Outcomes ==
  {"DELIVERED", "SUPPRESSED", "REJECTED", "PERMANENT_FAILURE", "DUPLICATE"}
Steps ==
  {"idle", "duplicate", "decide", "deliver", "audit", "complete", "release"}

\* The stores behind the ports hold what their types say.
DispatchTypeOK ==
  /\ queued \in [Notifications -> Nat]
  /\ hold \in [Notifications -> {"free", "held", "complete"}]
  /\ work \in [Dispatchers -> [at : Steps, of : Notifications,
                               outcome : Outcomes]]
  /\ finals \in [Notifications -> SUBSET Outcomes]
  /\ orphans \subseteq Notifications
  /\ redeliveries \in 0..MaxRedeliveries
  /\ dispatchFaults \in 0..MaxDispatchFaults

Owns(d, n) == work[d].at \notin {"idle", "duplicate"} /\ work[d].of = n

\* A claim that is held has exactly one dispatcher at work under it, or none
\* if a crash left it behind.
HeldClaimHasOwner ==
  \A n \in Notifications :
    /\ \A c, d \in Dispatchers : Owns(c, n) /\ Owns(d, n) => c = d
    /\ (\E d \in Dispatchers : Owns(d, n)) => hold[n] = "held"
    /\ hold[n] = "held" /\ n \notin orphans => \E d \in Dispatchers : Owns(d, n)

\* A final outcome is in the audit log and no later copy is dispatched.
Settled(n) == hold[n] = "complete" /\ finals[n] # {}

\* Every requested notification is settled, with a final outcome in the audit
\* log: a copy answered DUPLICATE is never the last word on it, unless a
\* crash orphaned its claim.
EveryNotificationSettles ==
  \A n \in Notifications :
    (queued[n] > 0) ~> (n \in orphans \/ Settled(n))

\* Somebody still answers for n, or its claim was orphaned.
Tracked(n) ==
  \/ queued[n] > 0
  \/ \E d \in Dispatchers : Owns(d, n)
  \/ Settled(n)
  \/ n \in orphans

\* No step loses a requested notification: until it is settled a copy of it is
\* in the queue or a dispatcher works under its claim, although copies that
\* find the claim taken are acknowledged and ports fail at every step.
NoNotificationIsLost ==
  [][\A n \in Notifications : Tracked(n) => Tracked(n)']_dispatchVars

=============================================================================
