------------------------- MODULE OutboxRelayProofs -------------------------
(***************************************************************************)
(* The outbox relay for any set of rows, any number of overlapping runs    *)
(* and any bounds.  One inductive invariant, RelayInv, carries the safety  *)
(* results and the safety half of the refinement; a second one, DebtInv,   *)
(* charges every copy of a message beyond its first to a fault; and what a *)
(* run reads is determined by counting the pending rows that are older.    *)
(***************************************************************************)
EXTENDS OutboxRelay, FiniteSetTheorems, TLAPS

\* A live session holds the lock: this is why ending a session may free it.
LiveRunHoldsLock == \A r \in Runs : session[r] => advisory = r

\* A run only handles rows that were recorded, and is about to tick one off
\* only after the broker has accepted its message.
BatchRecorded == \A r \in Runs : \A e \in batch[r] : outbox[e] # "absent"

MarksDelivered ==
  \A r \in Runs : \A e \in Events :
    stage[r] = "mark" /\ IsNext(r, e) => copies[e] > 0 /\ e \notin Malformed

RelayInv ==
  /\ RelayTypeOK
  /\ PublishedWasDelivered
  /\ LiveRunHoldsLock
  /\ BatchRecorded
  /\ MarksDelivered

-----------------------------------------------------------------------------
LEMMA InitRelayInv == RelayInit => RelayInv
BY RelayAssumption
DEF RelayInit, RelayInv, RelayTypeOK, RowStates, Errors, RunStages,
    PublishedWasDelivered, LiveRunHoldsLock, BatchRecorded, MarksDelivered,
    IsNext

\* Types are preserved by every step.
LEMMA TypeStep == RelayTypeOK /\ [RelayNext]_relayVars => RelayTypeOK'
<1> SUFFICES ASSUME RelayTypeOK, [RelayNext]_relayVars PROVE RelayTypeOK'
  OBVIOUS
<1> USE RelayAssumption DEF RelayTypeOK, RowStates, Errors, RunStages, tables, run
<1>1. ASSUME NEW e \in Events, Append(e) PROVE RelayTypeOK'
  BY <1>1 DEF Append
<1>2. ASSUME NEW r \in Runs, Acquire(r) PROVE RelayTypeOK'
  BY <1>2 DEF Acquire
<1>3. ASSUME NEW r \in Runs, Select(r) PROVE RelayTypeOK'
  BY <1>3 DEF Select
<1>4. ASSUME NEW r \in Runs, EndRun(r),
             UNCHANGED <<tables, copies, refusals, failures>>
      PROVE  RelayTypeOK'
  BY <1>4 DEF EndRun
<1>5. ASSUME NEW r \in Runs, SessionLost(r) PROVE RelayTypeOK'
  BY <1>5 DEF SessionLost
<1>6. ASSUME NEW r \in Runs, Crash(r) PROVE RelayTypeOK'
  BY <1>6 DEF Crash, EndRun
<1>7. ASSUME NEW r \in Runs, NEW e \in Events, RejectRow(r, e) PROVE RelayTypeOK'
  BY <1>7 DEF RejectRow, RecordError, Advance
<1>8. ASSUME NEW r \in Runs, NEW e \in Events,
             Confirmed(r, e) \/ Refused(r, e) \/ Unconfirmed(r, e)
      PROVE  RelayTypeOK'
  BY <1>8 DEF Confirmed, Refused, Unconfirmed, Offering
<1>9. ASSUME NEW r \in Runs, NEW e \in Events, GiveUp(r, e) \/ MarkFails(r, e)
      PROVE  RelayTypeOK'
  BY <1>9 DEF GiveUp, MarkFails
<1>10. ASSUME NEW r \in Runs, NEW e \in Events, Mark(r, e) PROVE RelayTypeOK'
  BY <1>10 DEF Mark, Advance
<1>11. ASSUME NEW r \in Runs, NEW e \in Events, RecordFailure(r, e)
       PROVE  RelayTypeOK'
  BY <1>11 DEF RecordFailure, RecordError, Advance
<1>12. CASE UNCHANGED relayVars
  BY <1>12 DEF relayVars
<1>13. QED
  BY <1>1, <1>2, <1>3, <1>4, <1>5, <1>6, <1>7, <1>8, <1>9, <1>10, <1>11, <1>12
  DEF RelayNext, RunStep, Finish, AbortRun

\* The session of a run ends before, or together with, its hold on the lock.
LEMMA LockStep == RelayInv /\ [RelayNext]_relayVars => LiveRunHoldsLock'
<1> SUFFICES ASSUME RelayInv, [RelayNext]_relayVars PROVE LiveRunHoldsLock'
  OBVIOUS
<1> USE RelayAssumption DEF RelayInv, RelayTypeOK, LiveRunHoldsLock
<1>1. ASSUME NEW r \in Runs, Acquire(r) PROVE LiveRunHoldsLock'
  BY <1>1 DEF Acquire
<1>2. ASSUME NEW r \in Runs, EndRun(r) PROVE LiveRunHoldsLock'
  BY <1>2 DEF EndRun
<1>3. ASSUME NEW r \in Runs, SessionLost(r) PROVE LiveRunHoldsLock'
  BY <1>3 DEF SessionLost
<1>4. CASE UNCHANGED <<advisory, session>>
  BY <1>4
<1>5. QED
  BY <1>1, <1>2, <1>3, <1>4
  DEF RelayNext, RunStep, Append, Select, Finish, AbortRun, Crash, RejectRow, Confirmed,
      Refused, Unconfirmed, GiveUp, Mark, MarkFails, RecordFailure, relayVars

\* What a run has read stays recorded.
LEMMA BatchStep == RelayInv /\ [RelayNext]_relayVars => BatchRecorded'
<1> SUFFICES ASSUME RelayInv, [RelayNext]_relayVars PROVE BatchRecorded'
  OBVIOUS
<1> USE RelayAssumption DEF RelayInv, RelayTypeOK, BatchRecorded
<1>1. ASSUME NEW r \in Runs, Select(r) PROVE BatchRecorded'
  BY <1>1 DEF Select, IsOldest, Pending, tables
<1>2. ASSUME NEW r \in Runs, EndRun(r), UNCHANGED outbox PROVE BatchRecorded'
  BY <1>2 DEF EndRun
<1>3. ASSUME NEW r \in Runs, NEW e \in Events, Advance(r, e), UNCHANGED outbox
      PROVE  BatchRecorded'
  BY <1>3 DEF Advance
<1>4. ASSUME NEW r \in Runs, NEW e \in Events, Mark(r, e) PROVE BatchRecorded'
  BY <1>4 DEF Mark, Advance
<1>5. ASSUME NEW e \in Events, Append(e) PROVE BatchRecorded'
  BY <1>5 DEF Append
<1>6. CASE UNCHANGED <<outbox, batch>>
  BY <1>6
<1>7. QED
  BY <1>1, <1>2, <1>3, <1>4, <1>5, <1>6
  DEF RelayNext, RunStep, Acquire, Finish, AbortRun, Crash, SessionLost, RejectRow,
      Confirmed, Refused, Unconfirmed, GiveUp, MarkFails, RecordFailure, relayVars,
      tables, run

\* The broker never loses a message it confirmed, and the row a run marks is
\* the row it has just published.
LEMMA MarkStep == RelayInv /\ [RelayNext]_relayVars => MarksDelivered'
<1> SUFFICES ASSUME RelayInv, [RelayNext]_relayVars,
                    NEW q \in Runs, NEW f \in Events,
                    stage'[q] = "mark", IsNext(q, f)'
             PROVE  copies'[f] > 0 /\ f \notin Malformed
  BY DEF MarksDelivered
<1> USE RelayAssumption DEF RelayInv, RelayTypeOK, IsNext, tables, run
<1>1. \A e \in Events : copies'[e] \in Nat /\ copies'[e] >= copies[e]
  BY DEF RelayNext, RunStep, Append, Acquire, Select, Finish, AbortRun, Crash,
         SessionLost, RejectRow, Confirmed, Refused, Unconfirmed, GiveUp,
         Mark, MarkFails, RecordFailure, relayVars
<1>2. CASE stage[q] = "mark" /\ batch'[q] = batch[q]
  <2>1. IsNext(q, f)
    BY <1>2
  <2>2. copies[f] > 0 /\ f \notin Malformed
    BY <1>2, <2>1 DEF MarksDelivered
  <2>3. QED
    BY <1>1, <2>2
<1>3. ASSUME NEW e \in Events, Confirmed(q, e)
      PROVE  copies'[f] > 0 /\ f \notin Malformed
  <2>1. IsNext(q, e) /\ e \notin Malformed /\ copies'[e] = copies[e] + 1
    BY <1>3 DEF Confirmed, Offering
  <2>2. batch'[q] = batch[q]
    BY <1>3 DEF Confirmed
  <2>3. e \in batch[q] /\ f \in batch[q]
    BY <2>1, <2>2
  <2>4. e <= f /\ f <= e
    BY <2>1, <2>2, <2>3
  <2>5. e = f
    BY <2>4
  <2>6. copies'[e] > 0
    BY <2>1
  <2>7. QED
    BY <2>1, <2>5, <2>6
<1>4. ASSUME NEW r \in Runs, r # q,
             Acquire(r) \/ RunStep(r) \/ SessionLost(r) \/ Crash(r)
      PROVE  stage[q] = "mark" /\ batch'[q] = batch[q]
  BY <1>4 DEF RunStep, Acquire, Select, Finish, AbortRun, EndRun, Crash,
         SessionLost, RejectRow, Advance, Confirmed, Refused, Unconfirmed,
         GiveUp, Mark, MarkFails, RecordFailure
<1>5. CASE Acquire(q) \/ SessionLost(q) \/ Crash(q)
  BY <1>2, <1>5 DEF Acquire, SessionLost, Crash, EndRun
<1>6. CASE RunStep(q)
  BY <1>2, <1>3, <1>6
  DEF RunStep, Select, Finish, AbortRun, EndRun, RejectRow, Advance, Refused,
      Unconfirmed, Offering, GiveUp, Mark, MarkFails, RecordFailure
<1>7. CASE UNCHANGED relayVars \/ \E e \in Events : Append(e)
  BY <1>2, <1>7 DEF relayVars, Append
<1>8. QED
  BY <1>2, <1>4, <1>5, <1>6, <1>7 DEF RelayNext

LEMMA PublishedStep == RelayInv /\ [RelayNext]_relayVars => PublishedWasDelivered'
<1> SUFFICES ASSUME RelayInv, [RelayNext]_relayVars PROVE PublishedWasDelivered'
  OBVIOUS
<1> USE RelayAssumption DEF RelayInv, RelayTypeOK, PublishedWasDelivered
<1>1. ASSUME NEW r \in Runs, NEW e \in Events, Mark(r, e)
      PROVE  PublishedWasDelivered'
  <2>1. copies[e] > 0 /\ e \notin Malformed
    BY <1>1 DEF Mark, MarksDelivered
  <2>2. outbox[e] # "absent"
    BY <1>1 DEF Mark, IsNext, BatchRecorded
  <2>3. outbox[e] = "pending" \/ outbox[e] = "published"
    BY <2>2 DEF RowStates
  <2>4. QED
    BY <1>1, <2>1, <2>3 DEF Mark, Advance
<1>2. ASSUME NEW r \in Runs, NEW e \in Events,
             RejectRow(r, e) \/ RecordFailure(r, e)
      PROVE  PublishedWasDelivered'
  BY <1>2 DEF RejectRow, RecordFailure, RecordError
<1>3. ASSUME NEW r \in Runs, NEW e \in Events,
             Confirmed(r, e) \/ Unconfirmed(r, e)
      PROVE  PublishedWasDelivered'
  BY <1>3 DEF Confirmed, Unconfirmed, tables
<1>4. ASSUME NEW e \in Events, Append(e) PROVE PublishedWasDelivered'
  BY <1>4 DEF Append
<1>5. CASE UNCHANGED <<outbox, lastError, copies>>
  BY <1>5
<1>6. QED
  BY <1>1, <1>2, <1>3, <1>4, <1>5
  DEF RelayNext, RunStep, Acquire, Select, Finish, AbortRun, Crash, SessionLost, Refused,
      GiveUp, MarkFails, relayVars, tables

-----------------------------------------------------------------------------
\* RelayInv holds in every reachable state of the relay.
THEOREM Invariance == RelaySpec => []RelayInv
<1>1. RelayInv /\ [RelayNext]_relayVars => RelayInv'
  BY TypeStep, LockStep, BatchStep, MarkStep, PublishedStep DEF RelayInv
<1>2. QED
  BY InitRelayInv, <1>1, PTL DEF RelaySpec, RelaySafeSpec

\* The variables keep their types for all values of the constants.
THEOREM TypeCorrect == RelaySpec => []RelayTypeOK
BY Invariance, PTL DEF RelayInv

\* No event is lost between the state change and the broker: a row is ticked
\* off only after its message was accepted (OutboxRelayJob.runOnce).
THEOREM NothingLost == RelaySpec => []PublishedWasDelivered
BY Invariance, PTL DEF RelayInv

\* The advisory lock serialises any number of overlapping ticks.
THEOREM RunsSerialised == RelaySpec => []OneLiveRun
<1>1. RelayInv => OneLiveRun
  BY RelayAssumption DEF RelayInv, LiveRunHoldsLock, OneLiveRun
<1>2. QED
  BY Invariance, <1>1, PTL

\* Every step of the relay is a step of the outbox's promise or invisible to
\* it: the safety half of DeliversEvents.
THEOREM Refinement == RelaySpec => Delivery!SafeSpec
<1> USE RelayAssumption DEF Delivery!Init, Delivery!vars
<1>1. RelayInit => Delivery!Init
  BY DEF RelayInit
<1>2. RelayInv /\ [RelayNext]_relayVars => [Delivery!Next]_Delivery!vars
  <2> SUFFICES ASSUME RelayInv, [RelayNext]_relayVars
               PROVE  [Delivery!Next]_Delivery!vars
    OBVIOUS
  <2> USE DEF RelayInv, RelayTypeOK, tables
  <2>1. ASSUME NEW e \in Events, Append(e) PROVE Delivery!Record(e)
    BY <2>1 DEF Append, Delivery!Record
  <2>2. ASSUME NEW r \in Runs, NEW e \in Events,
               Confirmed(r, e) \/ Unconfirmed(r, e)
        PROVE  Delivery!Deliver(e) \/ UNCHANGED Delivery!vars
    <3>1. outbox[e] # "absent" /\ e \notin Malformed
      BY <2>2 DEF Confirmed, Unconfirmed, Offering, IsNext, BatchRecorded
    <3>2. outbox' = outbox /\ copies' = [copies EXCEPT ![e] = @ + 1]
      BY <2>2 DEF Confirmed, Unconfirmed
    <3>3. QED
      BY <3>1, <3>2 DEF Delivery!Deliver
  <2>3. ASSUME NEW r \in Runs, NEW e \in Events, Mark(r, e)
        PROVE  Delivery!Settle(e) \/ UNCHANGED Delivery!vars
    <3>1. copies[e] > 0
      BY <2>3 DEF Mark, MarksDelivered
    <3>2. outbox[e] # "absent"
      BY <2>3 DEF Mark, IsNext, BatchRecorded
    <3>3. copies' = copies /\ outbox' = [outbox EXCEPT ![e] = "published"]
      BY <2>3 DEF Mark
    <3>4. QED
      BY <3>1, <3>2, <3>3 DEF Delivery!Settle
  <2>4. CASE UNCHANGED <<outbox, copies>>
    BY <2>4
  <2>5. QED
    BY <2>1, <2>2, <2>3, <2>4
    DEF RelayNext, RunStep, Acquire, Select, Finish, AbortRun, Crash, SessionLost,
        Refused, RejectRow, GiveUp, MarkFails, RecordFailure, Delivery!Next,
        relayVars
<1>3. QED
  BY <1>1, <1>2, Invariance, PTL DEF RelaySpec, RelaySafeSpec, Delivery!SafeSpec

-----------------------------------------------------------------------------
(***************************************************************************)
(* Who pays for the copies.  A fault leaves a debt, and a debt is worth at *)
(* most one copy beyond the first: a row the broker has but nobody is      *)
(* about to tick off, or a run without a session that still publishes.     *)
(* Each debt is a pair, so that they can be counted as one set.            *)
(***************************************************************************)
AboutToMark(e) == \E r \in Runs : session[r] /\ stage[r] = "mark" /\ IsNext(r, e)

Exposed(e) == outbox[e] = "pending" /\ copies[e] > 0 /\ ~AboutToMark(e)

Stray(r) == stage[r] = "row" /\ ~session[r]

Debts == Duplicates \union {<<e, 1>> : e \in {f \in Events : Exposed(f)}}
                    \union {<<r, 0>> : r \in {q \in Runs : Stray(q)}}

\* A run that still has its session only holds rows nobody has ticked off, and
\* a run that has not read rows holds none.
BatchesPending ==
  /\ \A r \in Runs : session[r] => \A e \in batch[r] : outbox[e] = "pending"
  /\ \A r \in Runs : stage[r] \in {"idle", "select"} => batch[r] = {}
  /\ \A e \in Events : copies[e] > 0 => outbox[e] # "absent"

DebtsPaid == IsFiniteSet(Debts) /\ Cardinality(Debts) <= failures

DebtInv == BatchesPending /\ DebtsPaid

LEMMA InitDebtInv == RelayInit => DebtInv
<1> SUFFICES ASSUME RelayInit PROVE DebtInv
  OBVIOUS
<1>1. BatchesPending
  BY DEF RelayInit, BatchesPending
<1>2. Debts = {}
  <2>1. Duplicates = {}
    BY RelayAssumption DEF RelayInit, Duplicates
  <2>2. \A e \in Events : ~Exposed(e)
    BY DEF RelayInit, Exposed
  <2>3. \A r \in Runs : ~Stray(r)
    BY DEF RelayInit, Stray
  <2> QED BY <2>1, <2>2, <2>3 DEF Debts
<1>3. DebtsPaid
  BY <1>2, FS_EmptySet DEF DebtsPaid, RelayInit
<1> QED BY <1>1, <1>3 DEF DebtInv

LEMMA PendingStep == RelayInv /\ BatchesPending /\ [RelayNext]_relayVars => BatchesPending'
<1> SUFFICES ASSUME RelayInv, BatchesPending, [RelayNext]_relayVars PROVE BatchesPending'
  OBVIOUS
<1> USE RelayAssumption DEF RelayInv, RelayTypeOK, BatchesPending, tables, run
<1>1. ASSUME NEW e \in Events, Append(e) PROVE BatchesPending'
  BY <1>1 DEF Append
<1>2. ASSUME NEW r \in Runs, Acquire(r) PROVE BatchesPending'
  BY <1>2 DEF Acquire
<1>3. ASSUME NEW r \in Runs, Select(r) PROVE BatchesPending'
  BY <1>3 DEF Select, IsOldest, Pending
<1>4. ASSUME NEW r \in Runs, EndRun(r), UNCHANGED <<outbox, copies>>
      PROVE  BatchesPending'
  BY <1>4 DEF EndRun
<1>5. ASSUME NEW r \in Runs, SessionLost(r) PROVE BatchesPending'
  BY <1>5 DEF SessionLost
<1>6. ASSUME NEW r \in Runs, NEW e \in Events, Advance(r, e),
             UNCHANGED <<outbox, copies, session>>
      PROVE  BatchesPending'
  BY <1>6 DEF Advance
<1>7. ASSUME NEW r \in Runs, NEW e \in Events,
             Confirmed(r, e) \/ Refused(r, e) \/ Unconfirmed(r, e)
      PROVE  BatchesPending'
  <2>1. outbox[e] # "absent"
    BY <1>7 DEF Confirmed, Refused, Unconfirmed, Offering, IsNext, BatchRecorded
  <2> QED BY <1>7, <2>1 DEF Confirmed, Refused, Unconfirmed, Offering
<1>8. ASSUME NEW r \in Runs, NEW e \in Events, GiveUp(r, e) \/ MarkFails(r, e)
      PROVE  BatchesPending'
  BY <1>8 DEF GiveUp, MarkFails
<1>9. ASSUME NEW r \in Runs, NEW e \in Events, Mark(r, e) PROVE BatchesPending'
  <2>1. \A q \in Runs : session[q] => q = r
    BY <1>9 DEF Mark, LiveRunHoldsLock
  <2>2. outbox' = [outbox EXCEPT ![e] = "published"]
        /\ batch' = [batch EXCEPT ![r] = @ \ {e}]
        /\ UNCHANGED <<session, copies>>
    BY <1>9 DEF Mark, Advance
  <2>3. \A q \in Runs : session'[q] => \A f \in batch'[q] : outbox'[f] = "pending"
    BY <2>1, <2>2
  <2>4. \A q \in Runs : stage'[q] \in {"idle", "select"} => batch'[q] = {}
    BY <1>9 DEF Mark, Advance
  <2> QED BY <2>2, <2>3, <2>4
<1>10. CASE UNCHANGED relayVars
  BY <1>10 DEF relayVars
<1> QED
  BY <1>1, <1>2, <1>3, <1>4, <1>5, <1>6, <1>7, <1>8, <1>9, <1>10
  DEF RelayNext, RunStep, Finish, AbortRun, Crash, RejectRow, RecordFailure

\* A set of debts that grows by one, or swaps one for another.
LEMMA DebtsGrow ==
  ASSUME NEW D, IsFiniteSet(D), NEW x, NEW n \in Nat, Cardinality(D) <= n,
         NEW E, E \subseteq D \union {x}
  PROVE  IsFiniteSet(E) /\ Cardinality(E) <= n + 1
<1>1. /\ IsFiniteSet(D \union {x}) /\ Cardinality(D) \in Nat
      /\ Cardinality(D \union {x}) <= Cardinality(D) + 1
      /\ Cardinality(D \union {x}) \in Nat
  BY FS_AddElement, FS_CardinalityType
<1>2. IsFiniteSet(E) /\ Cardinality(E) <= Cardinality(D \union {x})
  BY <1>1, FS_Subset
<1>3. Cardinality(E) \in Nat
  BY <1>2, FS_CardinalityType
<1> QED BY <1>1, <1>2, <1>3

LEMMA DebtsSwap ==
  ASSUME NEW D, IsFiniteSet(D), NEW y \in D, NEW x, NEW n \in Nat,
         Cardinality(D) <= n, NEW E, E \subseteq (D \ {y}) \union {x}
  PROVE  IsFiniteSet(E) /\ Cardinality(E) <= n
<1>1. /\ IsFiniteSet(D \ {y}) /\ Cardinality(D) \in Nat
      /\ Cardinality(D \ {y}) = Cardinality(D) - 1
      /\ Cardinality(D \ {y}) \in Nat
  BY FS_RemoveElement, FS_CardinalityType
<1>2. n - 1 \in Nat /\ Cardinality(D \ {y}) <= n - 1
  BY <1>1
<1>3. IsFiniteSet(E) /\ Cardinality(E) <= (n - 1) + 1
  BY <1>1, <1>2, DebtsGrow
<1> QED BY <1>3

LEMMA DebtsShrink ==
  ASSUME NEW D, IsFiniteSet(D), NEW n \in Nat, Cardinality(D) <= n,
         NEW E, E \subseteq D
  PROVE  IsFiniteSet(E) /\ Cardinality(E) <= n
<1>1. IsFiniteSet(E) /\ Cardinality(E) <= Cardinality(D)
  BY FS_Subset
<1>2. Cardinality(E) \in Nat /\ Cardinality(D) \in Nat
  BY <1>1, FS_CardinalityType
<1> QED BY <1>1, <1>2

\* Debts that a step does not add to.
LEMMA SameDebts ==
  ASSUME Duplicates' \subseteq Duplicates,
         \A e \in Events : Exposed(e)' => Exposed(e),
         \A r \in Runs : Stray(r)' => Stray(r)
  PROVE  Debts' \subseteq Debts
BY DEF Debts

\* A step adds the debt of one row, or of one run.
LEMMA OneMoreExposed ==
  ASSUME Duplicates' \subseteq Duplicates,
         NEW f \in Events, \A e \in Events \ {f} : Exposed(e)' => Exposed(e),
         \A r \in Runs : Stray(r)' => Stray(r)
  PROVE  Debts' \subseteq Debts \union {<<f, 1>>}
BY DEF Debts

LEMMA OneMoreStray ==
  ASSUME Duplicates' \subseteq Duplicates,
         \A e \in Events : Exposed(e)' => Exposed(e),
         NEW q \in Runs, \A r \in Runs \ {q} : Stray(r)' => Stray(r)
  PROVE  Debts' \subseteq Debts \union {<<q, 0>>}
BY DEF Debts

\* The broker takes one more copy.
LEMMA OneMoreCopy ==
  ASSUME RelayTypeOK, NEW e \in Events, copies' = [copies EXCEPT ![e] = @ + 1]
  PROVE  /\ Duplicates' \subseteq Duplicates \union {<<e, copies[e] + 1>>}
         /\ copies[e] = 0 => Duplicates' \subseteq Duplicates
<1> SUFFICES ASSUME NEW d \in Duplicates'
             PROVE  d \in Duplicates \/ (d = <<e, copies[e] + 1>> /\ copies[e] # 0)
  OBVIOUS
<1>1. PICK f \in Events, n \in 2..MaxFailures + 2 : d = <<f, n>> /\ n <= copies'[f]
  BY DEF Duplicates
<1>2. copies \in [Events -> Nat] /\ n \in Nat /\ n >= 2
  BY RelayAssumption DEF RelayTypeOK
<1>3. CASE n <= copies[f]
  BY <1>1, <1>3 DEF Duplicates
<1>4. CASE ~(n <= copies[f])
  <2>1. f = e /\ n = copies[e] + 1 /\ copies[e] # 0
    BY <1>1, <1>2, <1>4
  <2> QED BY <1>1, <2>1
<1> QED BY <1>3, <1>4

\* Only the row a run is at can be the one it is about to mark.
LEMMA OneNext ==
  ASSUME NEW r \in Runs, NEW e \in Events, NEW f \in Events, IsNext(r, e), IsNext(r, f)
  PROVE  e = f
BY RelayAssumption DEF IsNext

LEMMA ConfirmedSwaps ==
  ASSUME RelayInv, BatchesPending, NEW r \in Runs, NEW e \in Events, Confirmed(r, e)
  PROVE  \/ Debts' \subseteq Debts
         \/ \E y \in Debts : \E x : Debts' \subseteq (Debts \ {y}) \union {x}
<1> USE DEF RelayInv, RelayTypeOK
<1>1. /\ stage[r] = "row" /\ IsNext(r, e) /\ stage' = [stage EXCEPT ![r] = "mark"]
      /\ copies' = [copies EXCEPT ![e] = @ + 1]
      /\ UNCHANGED <<outbox, session, batch>>
  BY DEF Confirmed, Offering, tables
<1>2. \A q \in Runs : Stray(q)' => Stray(q) /\ q # r
  BY <1>1 DEF Stray
<1>3. \A f \in Events \ {e} : Exposed(f)' => Exposed(f)
  BY <1>1 DEF Exposed, AboutToMark, IsNext
<1>4. CASE session[r]
  <2>1. AboutToMark(e)'
    BY <1>1, <1>4 DEF AboutToMark, IsNext
  <2>2. \A f \in Events : Exposed(f)' => Exposed(f) /\ f # e
    BY <1>3, <2>1 DEF Exposed
  <2>3. CASE copies[e] = 0
    BY <1>1, <1>2, <2>2, <2>3, OneMoreCopy, SameDebts
  <2>4. CASE copies[e] # 0
    <3>1. ~AboutToMark(e)
      BY <1>1, <1>4, RelayAssumption DEF AboutToMark, LiveRunHoldsLock
    <3>2. outbox[e] = "pending"
      BY <1>1, <1>4 DEF BatchesPending, IsNext
    <3>3. Exposed(e)
      BY <2>4, <3>1, <3>2 DEF Exposed
    <3>4. <<e, 1>> \in Debts
      BY <3>3 DEF Debts
    <3>5. Duplicates' \subseteq Duplicates \union {<<e, copies[e] + 1>>}
      BY <1>1, OneMoreCopy
    <3>6. <<e, 1>> \notin Duplicates
      BY RelayAssumption DEF Duplicates
    <3>7. Debts' \subseteq (Debts \ {<<e, 1>>}) \union {<<e, copies[e] + 1>>}
      BY <1>2, <2>2, <3>5, <3>6 DEF Debts
    <3> QED BY <3>4, <3>7
  <2> QED BY <2>3, <2>4
<1>5. CASE ~session[r]
  <2>1. Stray(r)
    BY <1>1, <1>5 DEF Stray
  <2>2. <<r, 0>> \in Debts
    BY <2>1 DEF Debts
  <2>3. <<r, 0>> \notin Duplicates
    BY RelayAssumption DEF Duplicates
  <2>4. CASE copies[e] = 0
    <3>1. Duplicates' \subseteq Duplicates
      BY <1>1, <2>4, OneMoreCopy
    <3>2. Debts' \subseteq (Debts \ {<<r, 0>>}) \union {<<e, 1>>}
      BY <1>2, <1>3, <2>3, <3>1 DEF Debts
    <3> QED BY <2>2, <3>2
  <2>5. CASE copies[e] # 0
    <3>1. \A f \in Events : Exposed(f)' => Exposed(f)
      BY <1>1, <1>3, <1>5, <2>5 DEF Exposed, AboutToMark, IsNext
    <3>2. Duplicates' \subseteq Duplicates \union {<<e, copies[e] + 1>>}
      BY <1>1, OneMoreCopy
    <3>3. Debts' \subseteq (Debts \ {<<r, 0>>}) \union {<<e, copies[e] + 1>>}
      BY <1>2, <2>3, <3>1, <3>2 DEF Debts
    <3> QED BY <2>2, <3>3
  <2> QED BY <2>4, <2>5
<1> QED BY <1>4, <1>5

LEMMA UnconfirmedOwes ==
  ASSUME RelayInv, NEW r \in Runs, NEW e \in Events, Unconfirmed(r, e)
  PROVE  \E x : Debts' \subseteq Debts \union {x}
<1> USE DEF RelayInv, RelayTypeOK
<1>1. /\ copies' = [copies EXCEPT ![e] = @ + 1]
      /\ UNCHANGED <<outbox, stage, session, batch>>
  BY DEF Unconfirmed, tables
<1>2. \A q \in Runs : Stray(q)' => Stray(q)
  BY <1>1 DEF Stray
<1>3. \A f \in Events \ {e} : Exposed(f)' => Exposed(f)
  BY <1>1 DEF Exposed, AboutToMark, IsNext
<1>4. CASE copies[e] = 0
  <2>1. Debts' \subseteq Debts \union {<<e, 1>>}
    BY <1>1, <1>2, <1>3, <1>4, OneMoreCopy, OneMoreExposed
  <2> QED BY <2>1
<1>5. CASE copies[e] # 0
  <2>1. \A f \in Events : Exposed(f)' => Exposed(f)
    BY <1>1, <1>3, <1>5 DEF Exposed, AboutToMark, IsNext
  <2>2. Duplicates' \subseteq Duplicates \union {<<e, copies[e] + 1>>}
    BY <1>1, OneMoreCopy
  <2>3. Debts' \subseteq Debts \union {<<e, copies[e] + 1>>}
    BY <1>2, <2>1, <2>2 DEF Debts
  <2> QED BY <2>3
<1> QED BY <1>4, <1>5

\* A run that was about to tick off a row does not come to it.
LEMMA UnmarkedOwes ==
  ASSUME RelayInv, NEW r \in Runs, UNCHANGED <<outbox, copies>>,
         \A q \in Runs \ {r} : stage'[q] = stage[q] /\ session'[q] = session[q]
                                 /\ batch'[q] = batch[q],
         ~Stray(r)' \/ stage[r] = "row"
  PROVE  \E x : Debts' \subseteq Debts \union {x}
<1> USE DEF RelayInv, RelayTypeOK
<1>1. Duplicates' \subseteq Duplicates
  BY DEF Duplicates
<1>2. \A f \in Events : AboutToMark(f) =>
        AboutToMark(f)' \/ (stage[r] = "mark" /\ IsNext(r, f))
  BY DEF AboutToMark, IsNext
<1>3. \A q \in Runs \ {r} : Stray(q)' => Stray(q)
  BY DEF Stray
<1>4. CASE stage[r] = "row"
  <2>1. \A f \in Events : Exposed(f)' => Exposed(f)
    BY <1>2, <1>4 DEF Exposed
  <2>2. Debts' \subseteq Debts \union {<<r, 0>>}
    BY <1>1, <1>3, <2>1, OneMoreStray
  <2> QED BY <2>2
<1>5. CASE ~Stray(r)' /\ \E f \in Events : IsNext(r, f)
  <2>1. PICK f \in Events : IsNext(r, f)
    BY <1>5
  <2>2. \A e \in Events \ {f} : Exposed(e)' => Exposed(e)
    BY <1>2, <2>1, OneNext DEF Exposed
  <2>3. Debts' \subseteq Debts \union {<<f, 1>>}
    BY <1>1, <1>3, <1>5, <2>2, OneMoreExposed
  <2> QED BY <2>3
<1>6. CASE ~Stray(r)' /\ ~\E f \in Events : IsNext(r, f)
  <2>1. \A e \in Events : Exposed(e)' => Exposed(e)
    BY <1>2, <1>6 DEF Exposed
  <2>2. Debts' \subseteq Debts
    BY <1>1, <1>3, <1>6, <2>1, SameDebts
  <2> QED BY <2>2
<1> QED BY <1>4, <1>5, <1>6

\* The steps of a run at a statement, that are no faults.
LEMMA StatementsOweNothing ==
  ASSUME RelayInv, BatchesPending, [RelayNext]_relayVars, failures' = failures,
         \A r \in Runs, e \in Events : ~Confirmed(r, e)
  PROVE  Debts' \subseteq Debts
<1> USE DEF RelayInv, RelayTypeOK, tables, run
<1>1. ASSUME NEW e \in Events, Append(e) PROVE Debts' \subseteq Debts
  BY <1>1, SameDebts DEF Append, Duplicates, Exposed, AboutToMark, IsNext, Stray,
     BatchesPending
<1>2. ASSUME NEW r \in Runs, Acquire(r) \/ Select(r) PROVE Debts' \subseteq Debts
  <2>1. /\ stage[r] \in {"idle", "select"} /\ session'[r]
        /\ \A q \in Runs \ {r} : /\ stage'[q] = stage[q] /\ session'[q] = session[q]
                                 /\ batch'[q] = batch[q]
        /\ UNCHANGED <<outbox, copies>>
    BY <1>2 DEF Acquire, Select
  <2> QED BY <2>1, SameDebts DEF Duplicates, Exposed, AboutToMark, IsNext, Stray
<1>3. ASSUME NEW r \in Runs, EndRun(r), UNCHANGED <<outbox, copies>>,
             stage[r] # "mark" \/ ~session[r]
      PROVE  Debts' \subseteq Debts
  BY <1>3, SameDebts DEF EndRun, Duplicates, Exposed, AboutToMark, IsNext, Stray
<1>4. ASSUME NEW r \in Runs, NEW e \in Events, RejectRow(r, e) \/ RecordFailure(r, e)
      PROVE  Debts' \subseteq Debts
  <2>1. /\ stage[r] \in {"row", "failed"} /\ session'[r]
        /\ \A q \in Runs \ {r} : /\ stage'[q] = stage[q] /\ session'[q] = session[q]
                                 /\ batch'[q] = batch[q]
        /\ UNCHANGED <<outbox, copies>>
    BY <1>4 DEF RejectRow, RecordFailure, Advance
  <2> QED BY <2>1, SameDebts DEF Duplicates, Exposed, AboutToMark, IsNext, Stray
<1>5. ASSUME NEW r \in Runs, NEW e \in Events, Refused(r, e)
      PROVE  Debts' \subseteq Debts
  BY <1>5, SameDebts DEF Refused, Duplicates, Exposed, AboutToMark, IsNext, Stray
<1>6. ASSUME NEW r \in Runs, NEW e \in Events, GiveUp(r, e)
      PROVE  Debts' \subseteq Debts
  BY <1>6, SameDebts DEF GiveUp, Duplicates, Exposed, AboutToMark, IsNext, Stray
<1>7. ASSUME NEW r \in Runs, NEW e \in Events, Mark(r, e)
      PROVE  Debts' \subseteq Debts
  <2>1. /\ IsNext(r, e) /\ session'[r]
        /\ outbox' = [outbox EXCEPT ![e] = "published"] /\ UNCHANGED copies
        /\ \A q \in Runs \ {r} : /\ stage'[q] = stage[q] /\ session'[q] = session[q]
                                 /\ batch'[q] = batch[q]
    BY <1>7 DEF Mark, Advance
  <2>2. \A f \in Events : Exposed(f)' => Exposed(f)
    <3> SUFFICES ASSUME NEW f \in Events, Exposed(f)' PROVE Exposed(f)
      OBVIOUS
    <3>1. f # e /\ outbox[f] = "pending" /\ copies[f] > 0
      BY <2>1 DEF Exposed
    <3>2. ~IsNext(r, f)
      BY <2>1, <3>1, OneNext
    <3>3. AboutToMark(f) => AboutToMark(f)'
      BY <2>1, <3>2 DEF AboutToMark, IsNext
    <3> QED BY <3>1, <3>3 DEF Exposed
  <2> QED BY <2>1, <2>2, SameDebts DEF Duplicates, Stray
<1>8. CASE UNCHANGED relayVars
  BY <1>8, SameDebts DEF relayVars, Duplicates, Exposed, AboutToMark, IsNext, Stray
<1>9. \A r \in Runs, e \in Events :
        ~SessionLost(r) /\ ~Crash(r) /\ ~MarkFails(r, e) /\ ~Unconfirmed(r, e)
  <2>1. failures \in Nat /\ failures + 1 # failures
    BY RelayAssumption
  <2> QED BY <2>1 DEF SessionLost, Crash, MarkFails, Unconfirmed
<1>10. \A r \in Runs : ~SessionLost(r) /\ ~Crash(r)
  <2>1. failures \in Nat /\ failures + 1 # failures
    BY RelayAssumption
  <2> QED BY <2>1 DEF SessionLost, Crash
<1>11. ASSUME NEW r \in Runs, Finish(r) \/ AbortRun(r) PROVE Debts' \subseteq Debts
  BY <1>3, <1>11 DEF Finish, AbortRun
<1> QED
  BY <1>1, <1>2, <1>4, <1>5, <1>6, <1>7, <1>8, <1>9, <1>10, <1>11 DEF RelayNext, RunStep

LEMMA FaultsOweOne ==
  ASSUME RelayInv, [RelayNext]_relayVars, failures' # failures
  PROVE  failures' = failures + 1 /\ \E x : Debts' \subseteq Debts \union {x}
<1> USE DEF RelayInv, RelayTypeOK, tables, run
<1>1. ASSUME NEW r \in Runs, SessionLost(r) \/ Crash(r)
      PROVE  failures' = failures + 1 /\ \E x : Debts' \subseteq Debts \union {x}
  <2>1. /\ UNCHANGED <<outbox, copies>> /\ failures' = failures + 1
        /\ \A q \in Runs \ {r} : /\ stage'[q] = stage[q] /\ session'[q] = session[q]
                                 /\ batch'[q] = batch[q]
        /\ ~Stray(r)' \/ stage[r] = "row"
    BY <1>1 DEF SessionLost, Crash, EndRun, Stray
  <2> QED BY <2>1, UnmarkedOwes
<1>2. ASSUME NEW r \in Runs, NEW e \in Events, MarkFails(r, e)
      PROVE  failures' = failures + 1 /\ \E x : Debts' \subseteq Debts \union {x}
  <2>1. /\ UNCHANGED <<outbox, copies>> /\ failures' = failures + 1
        /\ \A q \in Runs \ {r} : /\ stage'[q] = stage[q] /\ session'[q] = session[q]
                                 /\ batch'[q] = batch[q]
        /\ ~Stray(r)'
    BY <1>2 DEF MarkFails, Stray
  <2> QED BY <2>1, UnmarkedOwes
<1>3. ASSUME NEW r \in Runs, NEW e \in Events, Unconfirmed(r, e)
      PROVE  failures' = failures + 1 /\ \E x : Debts' \subseteq Debts \union {x}
  BY <1>3, UnconfirmedOwes DEF Unconfirmed
<1>4. CASE UNCHANGED relayVars
  BY <1>4 DEF relayVars
<1> QED
  BY <1>1, <1>2, <1>3, <1>4
  DEF RelayNext, RunStep, Append, Acquire, Select, Finish, AbortRun, RejectRow, Confirmed,
      Refused, GiveUp, Mark, RecordFailure

LEMMA DebtStep == RelayInv /\ DebtInv /\ [RelayNext]_relayVars => DebtInv'
<1> SUFFICES ASSUME RelayInv, DebtInv, [RelayNext]_relayVars PROVE DebtInv'
  OBVIOUS
<1>1. BatchesPending /\ IsFiniteSet(Debts) /\ Cardinality(Debts) <= failures
      /\ failures \in Nat
  BY RelayAssumption DEF DebtInv, DebtsPaid, RelayInv, RelayTypeOK
<1>2. BatchesPending'
  BY <1>1, PendingStep
<1>3. CASE failures' = failures /\ Debts' \subseteq Debts
  BY <1>1, <1>2, <1>3, DebtsShrink DEF DebtInv, DebtsPaid
<1>4. CASE failures' = failures
             /\ \E y \in Debts : \E x : Debts' \subseteq (Debts \ {y}) \union {x}
  BY <1>1, <1>2, <1>4, DebtsSwap DEF DebtInv, DebtsPaid
<1>5. CASE failures' = failures + 1 /\ \E x : Debts' \subseteq Debts \union {x}
  BY <1>1, <1>2, <1>5, DebtsGrow DEF DebtInv, DebtsPaid
<1>6. ASSUME NEW r \in Runs, NEW e \in Events, Confirmed(r, e) PROVE failures' = failures
  BY <1>6 DEF Confirmed
<1> QED
  BY <1>1, <1>3, <1>4, <1>5, <1>6, ConfirmedSwaps, StatementsOweNothing, FaultsOweOne

\* Overlapping ticks alone never duplicate a message: the second and every later
\* copy of an event is paid for by a crash, a lost session, a lost confirmation
\* or a failed UPDATE of its own (OutboxRelayJob.runOnce under its advisory lock).
THEOREM DuplicatesPaid == RelaySpec => []DuplicatesOnlyFromFaults
<1>1. RelayInv /\ DebtInv => DuplicatesOnlyFromFaults
  <2> SUFFICES ASSUME RelayInv, DebtInv PROVE DuplicatesOnlyFromFaults
    OBVIOUS
  <2>1. Duplicates \subseteq Debts /\ failures \in Nat
    BY RelayAssumption DEF Debts, RelayInv, RelayTypeOK
  <2> QED BY <2>1, DebtsShrink DEF DebtInv, DebtsPaid, DuplicatesOnlyFromFaults
<1> QED BY InitDebtInv, DebtStep, <1>1, Invariance, PTL DEF RelaySpec, RelaySafeSpec

-----------------------------------------------------------------------------
(***************************************************************************)
(* What a run reads                                                        *)
(***************************************************************************)

\* The rows that come before a row of the batch are in the batch, and if a row
\* is left out then so many rows come before it as the batch can hold.
LEMMA OldestAreRead ==
  ASSUME NEW rows \in SUBSET Events, IsFiniteSet(rows), NEW B, IsOldest(B, rows),
         NEW e \in rows
  PROVE  e \in B <=> Cardinality({f \in rows : f < e}) < BatchSize
<1> DEFINE before == {f \in rows : f < e}
<1>1. /\ IsFiniteSet(B) /\ Cardinality(B) \in Nat
      /\ IsFiniteSet(before) /\ Cardinality(before) \in Nat
  <2>1. B \in SUBSET rows /\ before \in SUBSET rows
    BY DEF IsOldest
  <2> HIDE DEF before
  <2> QED BY <2>1, FS_Subset, FS_CardinalityType
<1>2. BatchSize \in Nat /\ \A f \in rows : f \in Nat
  BY RelayAssumption
<1>3. ASSUME e \in B PROVE Cardinality(before) < BatchSize
  <2>1. before \in SUBSET (B \ {e})
    <3> SUFFICES ASSUME NEW f \in rows, f < e PROVE f \in B /\ f # e
      OBVIOUS
    <3>1. f \in Nat /\ e \in Nat
      BY <1>2
    <3> QED BY <1>3, <3>1 DEF IsOldest
  <2>2. IsFiniteSet(B \ {e}) /\ Cardinality(B \ {e}) = Cardinality(B) - 1
    BY <1>1, <1>3, FS_RemoveElement
  <2> HIDE DEF before
  <2>3. Cardinality(before) <= Cardinality(B \ {e})
    BY <2>1, <2>2, FS_Subset
  <2>4. Cardinality(B) <= BatchSize
    BY DEF IsOldest
  <2> QED BY <1>1, <1>2, <2>2, <2>3, <2>4
<1>4. ASSUME e \notin B PROVE ~(Cardinality(before) < BatchSize)
  <2>1. Cardinality(B) = BatchSize /\ B \in SUBSET before
    BY <1>4 DEF IsOldest
  <2> HIDE DEF before
  <2>2. Cardinality(B) <= Cardinality(before)
    BY <1>1, <2>1, FS_Subset
  <2> QED BY <1>1, <1>2, <2>1, <2>2
<1> QED BY <1>3, <1>4

\* Only finitely many rows have been written.
LEMMA FinitelyManyPending == RelaySpec => []IsFiniteSet(Pending)
<1>1. RelayInit => IsFiniteSet(Pending)
  <2>1. RelayInit => Pending = {}
    BY DEF RelayInit, Pending
  <2> QED BY <2>1, FS_EmptySet
<1>2. RelayTypeOK /\ IsFiniteSet(Pending) /\ [RelayNext]_relayVars => IsFiniteSet(Pending)'
  <2> SUFFICES ASSUME RelayTypeOK, IsFiniteSet(Pending), [RelayNext]_relayVars
               PROVE  IsFiniteSet(Pending')
    OBVIOUS
  <2>1. ASSUME NEW e \in Events, Append(e) PROVE IsFiniteSet(Pending')
    <3>1. Pending' = Pending \union {e}
      BY <2>1 DEF Append, Pending, RelayTypeOK
    <3> QED BY <3>1, FS_AddElement
  <2>2. ASSUME NEW r \in Runs, NEW e \in Events, Mark(r, e) PROVE IsFiniteSet(Pending')
    <3>1. Pending' \in SUBSET Pending
      BY <2>2 DEF Mark, Pending, RelayTypeOK
    <3> QED BY <3>1, FS_Subset
  <2>3. CASE UNCHANGED outbox
    <3>1. Pending' = Pending
      BY <2>3 DEF Pending
    <3> QED BY <3>1
  <2> QED
    BY <2>1, <2>2, <2>3
    DEF RelayNext, RunStep, Acquire, Select, Finish, AbortRun, Crash, SessionLost, RejectRow,
        Confirmed, Refused, Unconfirmed, GiveUp, MarkFails, RecordFailure, relayVars,
        tables, run
<1> QED BY <1>1, <1>2, TypeCorrect, PTL DEF RelaySpec, RelaySafeSpec

\* A run reads exactly the pending rows with fewer than BatchSize rows before
\* them (the SELECT of runOnce): the condition under which rows can starve.
THEOREM RunsReadWhatIsDue == RelaySpec => ReadsWhatIsDue
<1> DEFINE Reads ==
      \A r \in Runs : Select(r) =>
        \A e \in Pending : e \in batch'[r] <=> Cardinality(Older(e)) < BatchSize
<1>1. ASSUME RelayTypeOK, IsFiniteSet(Pending) PROVE Reads
  <2> SUFFICES ASSUME NEW r \in Runs, Select(r), NEW e \in Pending
               PROVE  e \in batch'[r] <=> Cardinality(Older(e)) < BatchSize
    OBVIOUS
  <2>1. PICK B \in SUBSET Events :
          IsOldest(B, Pending) /\ batch' = [batch EXCEPT ![r] = B]
    BY DEF Select
  <2>2. batch'[r] = B
    BY <1>1, <2>1 DEF RelayTypeOK
  <2>3. Pending \in SUBSET Events
    BY DEF Pending
  <2> QED BY <1>1, <2>1, <2>2, <2>3, OldestAreRead DEF Older
<1>2. ReadsWhatIsDue <=> [][Reads]_relayVars
  BY PTL DEF ReadsWhatIsDue
<1> HIDE DEF Reads
<1> QED BY <1>1, <1>2, TypeCorrect, FinitelyManyPending, PTL

=============================================================================
