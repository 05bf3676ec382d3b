-------------------------- MODULE SosIntakeProofs --------------------------
(***************************************************************************)
(* SOS intake for any number of keys, bodies and concurrent requests, any  *)
(* time-to-live and any number of failures.  The argument: whoever is past *)
(* the claim holds the row lock of its key, and so finds at COMMIT the     *)
(* ledger it saw at the claim; no incident of that key outlives the row.   *)
(***************************************************************************)
EXTENDS SosIntake, TLAPS

\* A locked row belongs to a transaction that is between DELETE and COMMIT.
LockHasOwner ==
  \A k \in Keys : rowLock[k] # None =>
    /\ pc[rowLock[k]] \in {"claim", "work"}
    /\ req[rowLock[k]].key = k

\* A request that has claimed its key holds the lock of a free or expired row;
\* one that holds the lock before the claim has deleted an expired row.
ClaimHeld ==
  \A r \in Requests :
    /\ pc[r] = "work" => /\ rowLock[req[r].key] = r
                         /\ Row(r) # None => Row(r).expires <= req[r].now
    /\ pc[r] = "claim" /\ rowLock[req[r].key] = r => Expired(r)

\* A committed row is completed and names an accepted incident of its key.
RowBacked ==
  \A k \in Keys : keyRow[k] # None =>
    /\ keyRow[k].state = "COMPLETED"
    /\ \E i \in accepted : /\ i.id = keyRow[k].incident
                           /\ i.key = k
                           /\ i.payload = keyRow[k].hash

\* The row of a key outlasts every incident accepted for it so far.
RowOutlasts ==
  \A i \in accepted :
    keyRow[i.key] # None /\ i.until <= keyRow[i.key].expires

\* Who looks a row up finds one.
LookupFinds == \A r \in Requests : pc[r] = "lookup" => Row(r) # None

\* A request exists once it has begun, and is answered when it is done.
AnsweredWhenDone ==
  \A r \in Requests : /\ pc[r] = "idle" <=> req[r] = None
                      /\ pc[r] # "done" => answer[r] = None

IntakeInv ==
  /\ TypeOK
  /\ LockHasOwner
  /\ ClaimHeld
  /\ RowBacked
  /\ RowOutlasts
  /\ LookupFinds
  /\ AnsweredWhenDone

Answered ==
  /\ AckIsDurable
  /\ ConflictIsReal
  /\ NeverInProgress

-----------------------------------------------------------------------------
LEMMA InitIntakeInv == Init => IntakeInv /\ Answered /\ OneIncidentPerKeyLifetime
BY IntakeAssumption
DEF Init, IntakeInv, TypeOK, Locations, LockHasOwner, ClaimHeld, RowBacked,
    RowOutlasts, LookupFinds, AnsweredWhenDone, Answered, AckIsDurable,
    ConflictIsReal, NeverInProgress, OneIncidentPerKeyLifetime

\* What a commit does, and what it finds: the row it replaces is absent or has
\* expired, because its lock was held since the claim.
LEMMA CommitFinds ==
  ASSUME IntakeInv, NEW r \in Requests, CommitTables(r)
  PROVE  LET k == req[r].key IN
         /\ req[r] \in Request
         /\ rowLock[k] = r
         /\ keyRow[k] # None => keyRow[k].expires <= req[r].now
         /\ \A i \in accepted : i.key = k => i.until <= req[r].now
         /\ CompletedRow(r) \in KeyRow
         /\ keyRow' = [keyRow EXCEPT ![k] = CompletedRow(r)]
<1> USE IntakeAssumption
    DEF IntakeInv, TypeOK, CommitTables, Request, KeyRow, Incident
<1>1. req[r] \in Request /\ rowLock[req[r].key] = r
  BY DEF ClaimHeld, LockHasOwner
<1>2. keyRow[req[r].key] # None => keyRow[req[r].key].expires <= req[r].now
  BY DEF ClaimHeld, Row
<1>3. ASSUME NEW i \in accepted, i.key = req[r].key
      PROVE  i.until <= req[r].now
  BY <1>1, <1>2, <1>3 DEF RowOutlasts
<1>4. CompletedRow(r) \in KeyRow
  BY <1>1 DEF CompletedRow
<1>5. QED
  BY <1>1, <1>2, <1>3, <1>4

\* Types are preserved by every step.
LEMMA TypeStep == IntakeInv /\ [Next]_vars => TypeOK'
<1> SUFFICES ASSUME IntakeInv, [Next]_vars PROVE TypeOK'
  OBVIOUS
<1> USE IntakeAssumption DEF TypeOK, Locations
<1> TypeOK
  BY DEF IntakeInv
<1>1. CASE Tick
  BY <1>1 DEF Tick
<1>2. ASSUME NEW r \in Requests, NEW k \in Keys, NEW p \in Payloads,
             Begin(r, k, p)
      PROVE  TypeOK'
  BY <1>2 DEF Begin, Request
<1>3. ASSUME NEW r \in Requests, Purge(r) \/ Claim(r) PROVE TypeOK'
  <2>1. pc[r] # "idle"
    BY <1>3 DEF Purge, Claim
  <2>2. pc' \in [Requests -> Locations] /\ pc' = [pc EXCEPT ![r] = pc'[r]]
    BY <1>3 DEF Purge, Claim
  <2>3. rowLock' \in [Keys -> Requests \union {None}]
    BY <1>3 DEF Purge, Claim
  <2>4. UNCHANGED <<clock, req, keyRow, accepted, answer, faults>>
    BY <1>3 DEF Purge, Claim
  <2>5. QED
    BY <2>1, <2>2, <2>3, <2>4
<1>4. ASSUME NEW r \in Requests, NEW a \in Answers, pc[r] # "idle",
             Respond(r, a)
      PROVE  /\ pc' \in [Requests -> Locations]
             /\ rowLock' \in [Keys -> Requests \union {None}]
             /\ answer' \in [Requests -> Answers \union {None}]
             /\ \A q \in Requests : pc'[q] # "idle" => pc[q] # "idle"
  BY <1>4 DEF Respond, Unlock
<1>5. ASSUME NEW r \in Requests, NEW kind \in Kinds,
             NEW i \in Requests \union {None}
      PROVE  Reply(kind, i) \in Answers
  BY DEF Reply, Answers
<1>6. ASSUME NEW r \in Requests, Lookup(r) PROVE TypeOK'
  <2>1. Stored(r) \in Answers
    <3>1. Row(r) # None => Row(r).incident \in Requests
      BY <1>6 DEF Lookup, Row, Request, KeyRow
    <3>2. QED
      BY <1>5, <3>1 DEF Stored, Kinds
  <2>2. QED
    BY <1>4, <1>6, <2>1 DEF Lookup
<1>7. ASSUME NEW r \in Requests, RejectType(r) \/ Abort(r) PROVE TypeOK'
  BY <1>4, <1>5, <1>7 DEF RejectType, Abort, Kinds
<1>8. ASSUME NEW r \in Requests, Commit(r) \/ CommitUnacknowledged(r)
      PROVE  TypeOK'
  <2>1. CommitTables(r) /\ faults' \in 0..MaxFaults
    BY <1>8 DEF Commit, CommitUnacknowledged
  <2>2. /\ pc' \in [Requests -> Locations]
        /\ rowLock' \in [Keys -> Requests \union {None}]
        /\ answer' \in [Requests -> Answers \union {None}]
        /\ \A q \in Requests : pc'[q] # "idle" => pc[q] # "idle"
    BY <1>4, <1>5, <1>8
    DEF Commit, CommitUnacknowledged, CommitTables, Kinds
  <2>3. keyRow' \in [Keys -> KeyRow \union {None}]
    BY <2>1, CommitFinds
  <2>4. accepted' \subseteq Incident
    BY <2>1, CommitFinds DEF CommitTables, Request, Incident
  <2>5. clock' = clock /\ req' = req
    BY <2>1 DEF CommitTables
  <2>6. QED
    BY <2>1, <2>2, <2>3, <2>4, <2>5
<1>9. CASE UNCHANGED vars
  BY <1>9 DEF vars
<1>10. QED
  BY <1>1, <1>2, <1>3, <1>6, <1>7, <1>8, <1>9 DEF Next, Step, Finished

\* A lock is taken by Purge and Claim and given back when the transaction ends.
LEMMA LockStep == IntakeInv /\ [Next]_vars => LockHasOwner'
<1> SUFFICES ASSUME IntakeInv, [Next]_vars PROVE LockHasOwner'
  OBVIOUS
<1> USE IntakeAssumption DEF IntakeInv, TypeOK, LockHasOwner
<1>1. ASSUME NEW r \in Requests, Purge(r) \/ Claim(r) PROVE LockHasOwner'
  BY <1>1 DEF Purge, Claim, Request
<1>2. ASSUME NEW r \in Requests, NEW a, Respond(r, a), UNCHANGED req
      PROVE  LockHasOwner'
  BY <1>2 DEF Respond, Unlock
<1>3. ASSUME NEW r \in Requests, NEW k \in Keys, NEW p \in Payloads,
             Begin(r, k, p)
      PROVE  LockHasOwner'
  BY <1>3 DEF Begin
<1>4. CASE UNCHANGED <<rowLock, pc, req>>
  BY <1>4
<1>5. QED
  BY <1>1, <1>2, <1>3, <1>4
  DEF Next, Step, Tick, Finished, Lookup, RejectType, Commit,
      CommitUnacknowledged, CommitTables, Abort, vars

\* The lock shields the row a claim was decided on from every other request.
LEMMA ClaimStep == IntakeInv /\ [Next]_vars => ClaimHeld'
<1> SUFFICES ASSUME IntakeInv, [Next]_vars, NEW q \in Requests
             PROVE  /\ pc'[q] = "work" =>
                         /\ rowLock'[req'[q].key] = q
                         /\ keyRow'[req'[q].key] # None =>
                              keyRow'[req'[q].key].expires <= req'[q].now
                    /\ pc'[q] = "claim" /\ rowLock'[req'[q].key] = q =>
                         /\ keyRow'[req'[q].key] # None
                         /\ keyRow'[req'[q].key].expires <= req'[q].now
  BY DEF ClaimHeld, Row, Expired
<1> USE IntakeAssumption
    DEF IntakeInv, TypeOK, LockHasOwner, ClaimHeld, Row, Expired, Request
<1>1. ASSUME NEW r \in Requests, Purge(r) PROVE ClaimHeld'
  BY <1>1 DEF Purge, Unblocked
<1>2. ASSUME NEW r \in Requests, Claim(r) PROVE ClaimHeld'
  BY <1>2 DEF Claim, Unblocked
<1>3. ASSUME NEW r \in Requests, NEW a, Respond(r, a), UNCHANGED <<req, keyRow>>
      PROVE  ClaimHeld'
  BY <1>3 DEF Respond, Unlock
<1>4. ASSUME NEW r \in Requests, NEW a, Respond(r, a), CommitTables(r)
      PROVE  ClaimHeld'
  <2>1. /\ rowLock[req[r].key] = r
        /\ keyRow' = [keyRow EXCEPT ![req[r].key] = CompletedRow(r)]
    BY <1>4, CommitFinds
  <2>2. req' = req
    BY <1>4 DEF CommitTables
  <2>3. QED
    BY <1>4, <2>1, <2>2 DEF Respond, Unlock
<1>5. ASSUME NEW r \in Requests, NEW k \in Keys, NEW p \in Payloads,
             Begin(r, k, p)
      PROVE  ClaimHeld'
  BY <1>5 DEF Begin
<1>6. CASE UNCHANGED <<rowLock, pc, req, keyRow>>
  BY <1>6
<1>7. ClaimHeld'
  BY <1>1, <1>2, <1>3, <1>4, <1>5, <1>6
  DEF Next, Step, Tick, Finished, Lookup, RejectType, Commit,
      CommitUnacknowledged, Abort, vars
<1>8. QED
  BY <1>7

\* Only a commit writes the ledger, and it writes the row with the incident.
LEMMA LedgerStep == IntakeInv /\ [Next]_vars => RowBacked' /\ RowOutlasts'
<1> SUFFICES ASSUME IntakeInv, [Next]_vars PROVE RowBacked' /\ RowOutlasts'
  OBVIOUS
<1> USE IntakeAssumption DEF RowBacked, RowOutlasts
<1>1. ASSUME NEW r \in Requests, CommitTables(r)
      PROVE  RowBacked' /\ RowOutlasts'
  <2> DEFINE k == req[r].key
             new == [id |-> r, key |-> req[r].key, payload |-> req[r].payload,
                     since |-> req[r].now, until |-> req[r].now + Ttl]
  <2>1. req[r] \in Request /\ CompletedRow(r) \in KeyRow
    BY <1>1, CommitFinds
  <2>2. k \in Keys /\ req[r].now \in Nat /\ CompletedRow(r) # None
    BY <2>1, NoneAssumption DEF Request
  <2>3. keyRow' = [keyRow EXCEPT ![k] = CompletedRow(r)]
    BY <1>1, CommitFinds
  <2>4. \A i \in accepted : i.key = k => i.until <= req[r].now
    BY <1>1, CommitFinds
  <2>5. accepted' = accepted \union {new}
    BY <1>1 DEF CommitTables
  <2>6. ASSUME NEW h \in Keys, keyRow'[h] # None
        PROVE  /\ keyRow'[h].state = "COMPLETED"
               /\ \E i \in accepted' : /\ i.id = keyRow'[h].incident
                                       /\ i.key = h
                                       /\ i.payload = keyRow'[h].hash
    <3>1. CASE h = k
      <4>1. keyRow'[h] = CompletedRow(r)
        BY <2>2, <2>3, <3>1 DEF IntakeInv, TypeOK
      <4>2. /\ new \in accepted'
            /\ new.id = r /\ new.key = h /\ new.payload = req[r].payload
        BY <2>5, <3>1
      <4>3. QED
        BY <4>1, <4>2 DEF CompletedRow
    <3>2. CASE h # k
      <4>1. keyRow'[h] = keyRow[h]
        BY <2>3, <3>2 DEF IntakeInv, TypeOK
      <4>2. QED
        BY <2>5, <2>6, <4>1 DEF IntakeInv
    <3>3. QED
      BY <3>1, <3>2
  <2>7. ASSUME NEW i \in accepted
        PROVE  keyRow'[i.key] # None /\ i.until <= keyRow'[i.key].expires
    <3>1. i.key \in Keys /\ i.until \in Nat
      BY IntakeAssumption DEF IntakeInv, TypeOK, Incident
    <3>2. CASE i.key = k
      BY <2>2, <2>3, <2>4, <3>1, <3>2 DEF CompletedRow, IntakeInv, TypeOK
    <3>3. CASE i.key # k
      BY <2>3, <3>1, <3>3 DEF IntakeInv, TypeOK
    <3>4. QED
      BY <3>2, <3>3
  <2>8. keyRow'[k] # None /\ new.until <= keyRow'[k].expires
    BY <2>2, <2>3 DEF CompletedRow, IntakeInv, TypeOK
  <2>9. QED
    BY <2>5, <2>6, <2>7, <2>8
<1>2. CASE UNCHANGED <<keyRow, accepted>>
  BY <1>2 DEF IntakeInv
<1>3. QED
  BY <1>1, <1>2
  DEF Next, Step, Begin, Purge, Claim, Tick, Finished, Lookup, RejectType,
      Commit, CommitUnacknowledged, Abort, vars

\* Rows are never taken away for good.
LEMMA LookupStep == IntakeInv /\ [Next]_vars => LookupFinds'
<1> SUFFICES ASSUME IntakeInv, [Next]_vars PROVE LookupFinds'
  OBVIOUS
<1> USE IntakeAssumption DEF IntakeInv, TypeOK, LookupFinds, Row, Request
<1>1. ASSUME NEW r \in Requests, Purge(r) \/ Claim(r) PROVE LookupFinds'
  BY <1>1 DEF Purge, Claim
<1>2. ASSUME NEW r \in Requests, NEW a, Respond(r, a), CommitTables(r)
      PROVE  LookupFinds'
  <2>1. /\ keyRow' = [keyRow EXCEPT ![req[r].key] = CompletedRow(r)]
        /\ CompletedRow(r) # None
    BY <1>2, CommitFinds, NoneAssumption
  <2>2. req' = req
    BY <1>2 DEF CommitTables
  <2>3. QED
    BY <1>2, <2>1, <2>2 DEF Respond
<1>3. ASSUME NEW r \in Requests, NEW a, Respond(r, a), UNCHANGED <<req, keyRow>>
      PROVE  LookupFinds'
  BY <1>3 DEF Respond
<1>4. ASSUME NEW r \in Requests, NEW k \in Keys, NEW p \in Payloads,
             Begin(r, k, p)
      PROVE  LookupFinds'
  BY <1>4 DEF Begin
<1>5. CASE UNCHANGED <<pc, req, keyRow>>
  BY <1>5
<1>6. QED
  BY <1>1, <1>2, <1>3, <1>4, <1>5
  DEF Next, Step, Tick, Finished, Lookup, RejectType, Commit,
      CommitUnacknowledged, Abort, vars

\* A request is answered exactly once, by the step that ends its transaction.
LEMMA AnsweredStep == IntakeInv /\ [Next]_vars => AnsweredWhenDone'
<1> SUFFICES ASSUME IntakeInv, [Next]_vars PROVE AnsweredWhenDone'
  OBVIOUS
<1> USE IntakeAssumption DEF IntakeInv, TypeOK, AnsweredWhenDone
<1>1. ASSUME NEW r \in Requests, NEW k \in Keys, NEW p \in Payloads,
             Begin(r, k, p)
      PROVE  AnsweredWhenDone'
  <2>1. [key |-> k, payload |-> p, now |-> clock] # None
    BY NoneAssumption DEF Request
  <2>2. QED
    BY <1>1, <2>1 DEF Begin
<1>2. ASSUME NEW r \in Requests, Purge(r) \/ Claim(r) PROVE AnsweredWhenDone'
  BY <1>2 DEF Purge, Claim
<1>3. ASSUME NEW r \in Requests, NEW a, pc[r] # "idle", Respond(r, a),
             UNCHANGED req
      PROVE  AnsweredWhenDone'
  BY <1>3 DEF Respond
<1>4. CASE UNCHANGED <<pc, req, answer>>
  BY <1>4
<1>5. QED
  BY <1>1, <1>2, <1>3, <1>4
  DEF Next, Step, Tick, Finished, Lookup, RejectType, Commit,
      CommitUnacknowledged, CommitTables, Abort, vars

\* IntakeInv holds in every reachable state.
THEOREM Invariance == Spec => []IntakeInv
<1>1. IntakeInv /\ [Next]_vars => IntakeInv'
  BY TypeStep, LockStep, ClaimStep, LedgerStep, LookupStep, AnsweredStep
  DEF IntakeInv
<1>2. QED
  BY InitIntakeInv, <1>1, PTL DEF Spec

-----------------------------------------------------------------------------
LEMMA LifetimeStep ==
  IntakeInv /\ OneIncidentPerKeyLifetime /\ [Next]_vars
    => OneIncidentPerKeyLifetime'
<1> SUFFICES ASSUME IntakeInv, OneIncidentPerKeyLifetime, [Next]_vars
             PROVE  OneIncidentPerKeyLifetime'
  OBVIOUS
<1> USE DEF OneIncidentPerKeyLifetime
<1>1. ASSUME NEW r \in Requests, CommitTables(r)
      PROVE  OneIncidentPerKeyLifetime'
  <2> DEFINE new == [id |-> r, key |-> req[r].key, payload |-> req[r].payload,
                     since |-> req[r].now, until |-> req[r].now + Ttl]
  <2>1. accepted' = accepted \union {new}
    BY <1>1 DEF CommitTables
  <2>2. \A i \in accepted : i.key = new.key => i.until <= new.since
    BY <1>1, CommitFinds
  <2>3. QED
    BY <2>1, <2>2
<1>2. CASE UNCHANGED accepted
  BY <1>2
<1>3. QED
  BY <1>1, <1>2
  DEF Next, Step, Begin, Purge, Claim, Tick, Finished, Lookup, RejectType,
      Commit, CommitUnacknowledged, Abort, vars

\* Every answer is justified by the ledger at the moment it is given, and
\* incidents stay.
LEMMA AnswerStep == IntakeInv /\ Answered /\ [Next]_vars => Answered'
<1> SUFFICES ASSUME IntakeInv, Answered, [Next]_vars PROVE Answered'
  OBVIOUS
<1> USE IntakeAssumption
    DEF Answered, AckIsDurable, ConflictIsReal, NeverInProgress
<1>1. \A i \in accepted : i \in accepted'
  BY DEF Next, Step, Begin, Purge, Claim, Tick, Finished, Lookup, RejectType,
         Commit, CommitUnacknowledged, CommitTables, Abort, vars
<1>2. ASSUME NEW r \in Requests, NEW k \in Keys, NEW p \in Payloads,
             Begin(r, k, p)
      PROVE  Answered'
  <2>1. answer[r] = None
    BY <1>2 DEF Begin, IntakeInv, AnsweredWhenDone
  <2>2. QED
    BY <1>2, <2>1 DEF Begin, IntakeInv, TypeOK
<1>3. ASSUME NEW r \in Requests, NEW a, UNCHANGED req, Respond(r, a),
             a.kind = "ack" => \E i \in accepted' : /\ i.id = a.incident
                                                    /\ i.key = req[r].key
                                                    /\ i.payload = req[r].payload,
             a.kind = "conflict" => \E i \in accepted' :
                                      /\ i.key = req[r].key
                                      /\ i.payload # req[r].payload,
             a.kind # "inProgress"
      PROVE  Answered'
  <2>1. answer' = [answer EXCEPT ![r] = a] /\ req' = req
    BY <1>3 DEF Respond
  <2>2. answer'[r] = a /\ \A q \in Requests \ {r} : answer'[q] = answer[q]
    BY <2>1 DEF IntakeInv, TypeOK
  <2>3. AckIsDurable'
    BY <1>1, <1>3, <2>1, <2>2
  <2>4. ConflictIsReal'
    BY <1>1, <1>3, <2>1, <2>2
  <2>5. NeverInProgress'
    BY <1>3, <2>2
  <2>6. QED
    BY <2>3, <2>4, <2>5
<1>4. ASSUME NEW r \in Requests, Lookup(r) PROVE Answered'
  <2> DEFINE a == Stored(r)
  <2>1. pc[r] = "lookup" /\ req' = req /\ accepted' = accepted /\ Respond(r, a)
    BY <1>4 DEF Lookup
  <2>2. req[r].key \in Keys /\ Row(r) # None
    BY <2>1 DEF IntakeInv, TypeOK, Request, LookupFinds
  <2>3. /\ Row(r).state = "COMPLETED"
        /\ \E i \in accepted : /\ i.id = Row(r).incident
                               /\ i.key = req[r].key
                               /\ i.payload = Row(r).hash
    BY <2>2 DEF IntakeInv, RowBacked, Row
  <2>4. a = IF Row(r).hash = req[r].payload
            THEN [kind |-> "ack", incident |-> Row(r).incident]
            ELSE [kind |-> "conflict", incident |-> None]
    BY <2>2, <2>3 DEF Stored, SameRequest, Reply
  <2>5. QED
    BY <1>3, <2>1, <2>3, <2>4
<1>5. ASSUME NEW r \in Requests, Commit(r) PROVE Answered'
  <2> DEFINE new == [id |-> r, key |-> req[r].key, payload |-> req[r].payload,
                     since |-> req[r].now, until |-> req[r].now + Ttl]
  <2>1. new \in accepted' /\ req' = req
    BY <1>5 DEF Commit, CommitTables
  <2>2. Respond(r, [kind |-> "ack", incident |-> r])
    BY <1>5 DEF Commit, Reply
  <2>3. new.id = r /\ new.key = req[r].key /\ new.payload = req[r].payload
    OBVIOUS
  <2>4. QED
    BY <1>3, <2>1, <2>2, <2>3
<1>6. ASSUME NEW r \in Requests, NEW kind \in {"error", "unavailable"},
             Respond(r, Reply(kind, None)), UNCHANGED req
      PROVE  Answered'
  BY <1>3, <1>6 DEF Reply
<1>7. CASE UNCHANGED <<req, answer>>
  BY <1>1, <1>7
<1>8. QED
  BY <1>2, <1>4, <1>5, <1>6, <1>7
  DEF Next, Step, Purge, Claim, Tick, Finished, RejectType,
      CommitUnacknowledged, CommitTables, Abort, vars

-----------------------------------------------------------------------------
\* The variables keep their types for all values of the constants.
THEOREM TypeCorrect == Spec => []TypeOK
BY Invariance, PTL DEF IntakeInv

\* One SOS per Idempotency-Key and lifetime, however many retries run at once
\* and whichever of them fail (acceptSos).
THEOREM OneIncident == Spec => []OneIncidentPerKeyLifetime
<1>1. Init => OneIncidentPerKeyLifetime
  BY InitIntakeInv
<1>2. QED
  BY <1>1, LifetimeStep, Invariance, PTL DEF Spec

LEMMA AllAnswered == Spec => []Answered
<1>1. Init => Answered
  BY InitIntakeInv
<1>2. QED
  BY <1>1, AnswerStep, Invariance, PTL DEF Spec

\* An acknowledged SOS is a committed one.
THEOREM AcknowledgedIsDurable == Spec => []AckIsDurable
BY AllAnswered, PTL DEF Answered

\* A conflict is told only where the key has been used for something else.
THEOREM ConflictsAreReal == Spec => []ConflictIsReal
BY AllAnswered, PTL DEF Answered

\* The in-progress branch of acceptSos is unreachable.
THEOREM InProgressIsDead == Spec => []NeverInProgress
BY AllAnswered, PTL DEF Answered

\* The retries of acceptSos cannot deadlock on the rows of their keys.
THEOREM WaitsAreShort == Spec => []NoWaitChain
<1>1. IntakeInv => NoWaitChain
  BY IntakeAssumption
  DEF IntakeInv, TypeOK, LockHasOwner, NoWaitChain, Waits, Unblocked, Request
<1>2. QED
  BY <1>1, Invariance, PTL

-----------------------------------------------------------------------------
\* The entry of the promise's ledger is the row, field by field.
LEMMA LedgerEntry ==
  ASSUME IntakeInv, NEW k \in Keys
  PROVE  IF keyRow[k] = None THEN ledger[k] = None
         ELSE /\ ledger[k] # None
              /\ ledger[k].payload = keyRow[k].hash
              /\ ledger[k].incident = keyRow[k].incident
              /\ ledger[k].expires = keyRow[k].expires
<1>1. CASE keyRow[k] # None
  <2>1. keyRow[k] \in KeyRow
    BY <1>1 DEF IntakeInv, TypeOK
  <2>2. [payload |-> keyRow[k].hash, incident |-> keyRow[k].incident,
         expires |-> keyRow[k].expires] # None
    BY <2>1, NoneAssumption DEF KeyRow, Ledger
  <2>3. QED
    BY <1>1, <2>2 DEF ledger
<1>2. QED
  BY <1>1 DEF ledger

\* A request between its first statement and its end is undecided.
LEMMA StillUndecided ==
  ASSUME IntakeInv, NEW r \in Requests, pc[r] \notin {"idle", "done"}
  PROVE  Intake!Undecided(r)
BY DEF IntakeInv, AnsweredWhenDone, Intake!Undecided

\* A commit replaces a row the promise counts as free.
LEMMA CommitAccepts ==
  ASSUME IntakeInv, NEW r \in Requests, CommitTables(r),
         \/ answer' = [answer EXCEPT ![r] = Reply("ack", r)]
         \/ answer' = [answer EXCEPT ![r] = Reply("error", None)]
  PROVE  Intake!Accept(r)
<1> DEFINE k == req[r].key
<1>1. /\ k \in Keys
      /\ keyRow[k] # None => keyRow[k].expires <= req[r].now
      /\ keyRow' = [keyRow EXCEPT ![k] = CompletedRow(r)]
  BY CommitFinds DEF Request
<1>2. Intake!KeyIsFree(r)
  BY <1>1, LedgerEntry DEF Intake!KeyIsFree
<1>3. CompletedRow(r) # None
  BY CommitFinds, NoneAssumption
<1>4. ledger' = [ledger EXCEPT ![k] =
                   [payload |-> req[r].payload, incident |-> r,
                    expires |-> req[r].now + Ttl]]
  <2>1. ASSUME NEW h \in Keys
        PROVE  ledger'[h] = IF h = k
                            THEN [payload |-> req[r].payload, incident |-> r,
                                  expires |-> req[r].now + Ttl]
                            ELSE ledger[h]
    <3>1. keyRow'[h] = IF h = k THEN CompletedRow(r) ELSE keyRow[h]
      BY <1>1 DEF IntakeInv, TypeOK
    <3>2. QED
      BY <1>3, <3>1 DEF ledger, CompletedRow
  <2>2. ledger = [h \in Keys |-> ledger[h]] /\ ledger' = [h \in Keys |-> ledger'[h]]
    BY DEF ledger
  <2> HIDE DEF ledger, k
  <2>3. QED
    BY <2>1, <2>2
<1>5. Intake!Undecided(r)
  BY StillUndecided DEF CommitTables
<1>6. accepted' = accepted \union
        {[id |-> r, key |-> k, payload |-> req[r].payload,
          since |-> req[r].now, until |-> req[r].now + Ttl]}
      /\ req' = req
  BY DEF CommitTables
<1>7. QED
  BY <1>2, <1>4, <1>5, <1>6 DEF Intake!Accept, Intake!Answer, Reply

\* The statements of acceptSos amount to one atomic decision per request.
THEOREM Refinement == Spec => DecidesAtomically
<1>1. Init => Intake!Init
  BY DEF Init, Intake!Init, ledger
<1>2. IntakeInv /\ [Next]_vars => [Intake!Next]_Intake!vars
  <2> SUFFICES ASSUME IntakeInv, [Next]_vars
               PROVE  [Intake!Next]_Intake!vars
    OBVIOUS
  <2> USE IntakeAssumption
  <2>1. ASSUME NEW r \in Requests, NEW k \in Keys, NEW p \in Payloads,
               Begin(r, k, p)
        PROVE  Intake!Submit(r, k, p, clock) /\ clock \in 0..MaxTime
    BY <2>1
    DEF Begin, Intake!Submit, IntakeInv, TypeOK, AnsweredWhenDone, ledger
  <2>2. ASSUME NEW r \in Requests, Lookup(r)
        PROVE  Intake!Replay(r) \/ Intake!Refuse(r)
    <3> DEFINE k == req[r].key
    <3>1. k \in Keys /\ keyRow[k] # None /\ keyRow[k].state = "COMPLETED"
      BY <2>2
      DEF Lookup, IntakeInv, TypeOK, Request, LookupFinds, RowBacked, Row
    <3>2. Intake!Undecided(r)
      BY <2>2, StillUndecided DEF Lookup
    <3>3. /\ ledger[k] # None
          /\ ledger[k].payload = keyRow[k].hash
          /\ ledger[k].incident = keyRow[k].incident
      BY <3>1, LedgerEntry
    <3>4. /\ answer' = [answer EXCEPT ![r] = Stored(r)]
          /\ UNCHANGED <<req, ledger, accepted>>
      BY <2>2 DEF Lookup, Respond, ledger
    <3>5. Stored(r) = IF ledger[k].payload = req[r].payload
                      THEN Intake!Answer("ack", ledger[k].incident)
                      ELSE Intake!Answer("conflict", None)
      BY <3>1, <3>3 DEF Stored, SameRequest, Row, Reply, Intake!Answer
    <3>6. QED
      BY <3>2, <3>3, <3>4, <3>5 DEF Intake!Replay, Intake!Refuse
  <2>3. ASSUME NEW r \in Requests, RejectType(r) \/ Abort(r)
        PROVE  Intake!Fail(r)
    <3>1. Intake!Undecided(r)
      BY <2>3, StillUndecided DEF RejectType, Abort
    <3>2. UNCHANGED <<req, ledger, accepted>>
      BY <2>3 DEF RejectType, Abort, ledger
    <3>3. QED
      BY <2>3, <3>1, <3>2
      DEF RejectType, Abort, Respond, Reply, Intake!Fail, Intake!Answer
  <2>4. ASSUME NEW r \in Requests, Commit(r) \/ CommitUnacknowledged(r)
        PROVE  Intake!Accept(r)
    BY <2>4, CommitAccepts DEF Commit, CommitUnacknowledged, Respond
  <2>5. CASE UNCHANGED <<req, keyRow, accepted, answer>>
    BY <2>5 DEF ledger, Intake!vars
  <2>6. QED
    BY <2>1, <2>2, <2>3, <2>4, <2>5
    DEF Next, Step, Purge, Claim, Tick, Finished, Intake!Next, vars
<1>3. QED
  BY <1>1, <1>2, Invariance, PTL DEF Spec, DecidesAtomically, Intake!Spec

=============================================================================
