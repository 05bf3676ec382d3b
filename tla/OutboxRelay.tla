---------------------------- MODULE OutboxRelay ----------------------------
(***************************************************************************)
(* The outbox relay of the worker (outbox-relay.job.ts) with the publisher *)
(* it calls (rabbitmq-event.publisher.ts), the table platform.outbox and   *)
(* the session-level advisory lock that keeps relay runs apart.            *)
(*                                                                         *)
(* setInterval starts a run on every tick, whether or not the previous run *)
(* has ended, in every worker process: Runs are the runs that may be in    *)
(* progress at once.  A run owns one database session.  The server may end *)
(* that session (failover, idle kill, partition), which frees the lock,    *)
(* while the run, awaiting the broker, does not notice before its next     *)
(* statement fails.                                                        *)
(*                                                                         *)
(* publish_attempts is diagnostic and left out.  An event is a number, its *)
(* rank in the relay's ORDER BY occurred_at,event_id.                      *)
(***************************************************************************)
EXTENDS Naturals, FiniteSets

CONSTANTS
  Events,         \* outbox rows that producers may write
  Malformed,      \* those of them EventEnvelopeSchema rejects
  Runs,           \* relay runs that may overlap
  NoRun,          \* the advisory lock is free
  BatchSize,      \* rows one run reads
  Endpoints,      \* broker endpoints the publisher tries in turn
  MaxRefusals,    \* bound: publish attempts the broker never sees
  MaxFailures     \* bound: crashes, lost sessions, lost confirmations

ASSUME RelayAssumption ==
  /\ Events \subseteq Nat
  /\ Malformed \subseteq Events
  /\ NoRun \notin Runs
  /\ BatchSize \in Nat \ {0}
  /\ Endpoints \in Nat \ {0}
  /\ MaxRefusals \in Nat
  /\ MaxFailures \in Nat

VARIABLES
  outbox,         \* outbox[e]: the row is absent, pending or published
  lastError,      \* lastError[e]: the column last_error
  copies,         \* copies[e]: messages for e the broker has accepted
  advisory,       \* holder of the advisory lock 'atgt-outbox-relay'
  stage,          \* stage[r]: where run r is
  session,        \* session[r]: the server still knows r's session
  batch,          \* batch[r]: rows r has read and not dealt with
  endpoint,       \* endpoint[r]: next endpoint for the current row
  refusals,
  failures

tables == <<outbox, lastError>>
run    == <<stage, batch, endpoint>>
relayVars ==
  <<outbox, lastError, copies, advisory, stage, session, batch, endpoint, refusals,
    failures>>

RowStates == {"absent", "pending", "published"}
Errors    == {"none", "INVALID_EVENT_ENVELOPE", "PUBLISH_FAILED"}
RunStages == {"idle", "select", "row", "mark", "failed"}

\* Deviation: the SELECT forgets WHERE published_at IS NULL.
PendingOrPublished == {e \in Events : outbox[e] # "absent"}

Pending == {e \in Events : outbox[e] = "pending"}

RelayInit ==
  /\ outbox = [e \in Events |-> "absent"]
  /\ lastError = [e \in Events |-> "none"]
  /\ copies = [e \in Events |-> 0]
  /\ advisory = NoRun
  /\ stage = [r \in Runs |-> "idle"]
  /\ session = [r \in Runs |-> FALSE]
  /\ batch = [r \in Runs |-> {}]
  /\ endpoint = [r \in Runs |-> 1]
  /\ refusals = 0
  /\ failures = 0

-----------------------------------------------------------------------------
(***************************************************************************)
(* Producers.  The row becomes visible when the producer's transaction     *)
(* commits, so rows need not appear in the order of their rank.            *)
(***************************************************************************)
Append(e) ==
  /\ outbox[e] = "absent"
  /\ outbox' = [outbox EXCEPT ![e] = "pending"]
  /\ UNCHANGED <<lastError, copies, advisory, stage, session, batch, endpoint,
                 refusals, failures>>

-----------------------------------------------------------------------------
(***************************************************************************)
(* A run.  A tick that finds the lock taken returns skipped and changes    *)
(* nothing: it is a stuttering step.                                       *)
(***************************************************************************)
\* Deviation: the result of pg_try_advisory_lock is ignored.
AcquireUnchecked(r) ==
  /\ stage[r] = "idle"
  /\ advisory' = r
  /\ session' = [session EXCEPT ![r] = TRUE]
  /\ stage' = [stage EXCEPT ![r] = "select"]
  /\ UNCHANGED <<tables, copies, batch, endpoint, refusals, failures>>

Acquire(r) ==
  /\ stage[r] = "idle"
  /\ advisory = NoRun
  /\ advisory' = r
  /\ session' = [session EXCEPT ![r] = TRUE]
  /\ stage' = [stage EXCEPT ![r] = "select"]
  /\ UNCHANGED <<tables, copies, batch, endpoint, refusals, failures>>

\* B is the result of ORDER BY occurred_at,event_id LIMIT batchSize over the
\* pending rows.
IsOldest(B, pending) ==
  /\ B \subseteq pending
  /\ Cardinality(B) <= BatchSize
  /\ B # pending => Cardinality(B) = BatchSize
  /\ \A e \in B, f \in pending \ B : e < f

Select(r) ==
  /\ stage[r] = "select"
  /\ session[r]
  /\ \E B \in SUBSET Events :
       /\ IsOldest(B, Pending)
       /\ batch' = [batch EXCEPT ![r] = B]
  /\ stage' = [stage EXCEPT ![r] = "row"]
  /\ UNCHANGED <<tables, copies, advisory, session, endpoint, refusals, failures>>

\* The row the loop of run r is at.
IsNext(r, e) == e \in batch[r] /\ \A f \in batch[r] : e <= f

\* The loop goes on with the row after e.
Advance(r, e) ==
  /\ batch' = [batch EXCEPT ![r] = @ \ {e}]
  /\ endpoint' = [endpoint EXCEPT ![r] = 1]
  /\ stage' = [stage EXCEPT ![r] = "row"]

\* The failure UPDATEs touch only a row that is still unpublished.
RecordError(e, error) ==
  lastError' = IF outbox[e] = "pending"
               THEN [lastError EXCEPT ![e] = error] ELSE lastError

\* Deviation: a malformed row ends the loop instead of being skipped.
RejectRowAndStop(r, e) ==
  /\ stage[r] = "row"
  /\ IsNext(r, e)
  /\ e \in Malformed
  /\ session[r]
  /\ RecordError(e, "INVALID_EVENT_ENVELOPE")
  /\ batch' = [batch EXCEPT ![r] = {}]
  /\ UNCHANGED <<outbox, copies, advisory, session, stage, endpoint, refusals,
                 failures>>

RejectRow(r, e) ==
  /\ stage[r] = "row"
  /\ IsNext(r, e)
  /\ e \in Malformed
  /\ session[r]
  /\ RecordError(e, "INVALID_EVENT_ENVELOPE")
  /\ Advance(r, e)
  /\ UNCHANGED <<outbox, copies, advisory, session, refusals, failures>>

\* The publisher offers row e to the current endpoint.
Offering(r, e) ==
  /\ stage[r] = "row"
  /\ IsNext(r, e)
  /\ e \notin Malformed
  /\ endpoint[r] <= Endpoints

\* Deviation: publish is not awaited, so a message may never have left.
ConfirmedUnawaited(r, e) ==
  /\ Offering(r, e)
  /\ stage' = [stage EXCEPT ![r] = "mark"]
  /\ UNCHANGED <<tables, copies, advisory, session, batch, endpoint, refusals,
                 failures>>

Confirmed(r, e) ==
  /\ Offering(r, e)
  /\ copies' = [copies EXCEPT ![e] = @ + 1]
  /\ stage' = [stage EXCEPT ![r] = "mark"]
  /\ UNCHANGED <<tables, advisory, session, batch, endpoint, refusals, failures>>

\* No connection, or the channel failed before the broker took the message.
Refused(r, e) ==
  /\ Offering(r, e)
  /\ refusals < MaxRefusals
  /\ refusals' = refusals + 1
  /\ endpoint' = [endpoint EXCEPT ![r] = @ + 1]
  /\ UNCHANGED <<tables, copies, advisory, stage, session, batch, failures>>

\* The broker took the message but the confirmation was lost or closing the
\* channel failed: the publisher goes on to the next endpoint.
Unconfirmed(r, e) ==
  /\ Offering(r, e)
  /\ failures < MaxFailures
  /\ failures' = failures + 1
  /\ copies' = [copies EXCEPT ![e] = @ + 1]
  /\ endpoint' = [endpoint EXCEPT ![r] = @ + 1]
  /\ UNCHANGED <<tables, advisory, stage, session, batch, refusals>>

\* No endpoint is left: EVENT_PUBLISHER_UNAVAILABLE.
GiveUp(r, e) ==
  /\ stage[r] = "row"
  /\ IsNext(r, e)
  /\ endpoint[r] > Endpoints
  /\ stage' = [stage EXCEPT ![r] = "failed"]
  /\ UNCHANGED <<tables, copies, advisory, session, batch, endpoint, refusals,
                 failures>>

Mark(r, e) ==
  /\ stage[r] = "mark"
  /\ IsNext(r, e)
  /\ session[r]
  /\ outbox' = [outbox EXCEPT ![e] = "published"]
  /\ lastError' = IF outbox[e] = "pending"
                  THEN [lastError EXCEPT ![e] = "none"] ELSE lastError
  /\ Advance(r, e)
  /\ UNCHANGED <<copies, advisory, session, refusals, failures>>

\* The UPDATE fails although the session survives; the catch block treats it
\* like a failed publish.
MarkFails(r, e) ==
  /\ stage[r] = "mark"
  /\ IsNext(r, e)
  /\ session[r]
  /\ failures < MaxFailures
  /\ failures' = failures + 1
  /\ stage' = [stage EXCEPT ![r] = "failed"]
  /\ UNCHANGED <<tables, copies, advisory, session, batch, endpoint, refusals>>

\* Deviation: the failure path ticks the row off.
RecordFailureAsPublished(r, e) ==
  /\ stage[r] = "failed"
  /\ IsNext(r, e)
  /\ session[r]
  /\ outbox' = [outbox EXCEPT ![e] = "published"]
  /\ RecordError(e, "PUBLISH_FAILED")
  /\ Advance(r, e)
  /\ UNCHANGED <<copies, advisory, session, refusals, failures>>

RecordFailure(r, e) ==
  /\ stage[r] = "failed"
  /\ IsNext(r, e)
  /\ session[r]
  /\ RecordError(e, "PUBLISH_FAILED")
  /\ Advance(r, e)
  /\ UNCHANGED <<outbox, copies, advisory, session, refusals, failures>>

\* Run r is over; the lock is free again if r held it.
EndRun(r) ==
  /\ stage' = [stage EXCEPT ![r] = "idle"]
  /\ session' = [session EXCEPT ![r] = FALSE]
  /\ batch' = [batch EXCEPT ![r] = {}]
  /\ endpoint' = [endpoint EXCEPT ![r] = 1]
  /\ advisory' = IF advisory = r THEN NoRun ELSE advisory

\* The finally block after the last row: unlock and release.
Finish(r) ==
  /\ stage[r] = "row"
  /\ batch[r] = {}
  /\ session[r]
  /\ EndRun(r)
  /\ UNCHANGED <<tables, copies, refusals, failures>>

\* A run at its next statement, that is not awaiting the publisher.
AtStatement(r) ==
  \/ stage[r] \in {"select", "mark", "failed"}
  \/ stage[r] = "row" /\ (batch[r] = {} \/ \E e \in Malformed : IsNext(r, e))

\* The statement fails on the dead session, and so do the statements of the
\* catch and finally blocks: the run rejects.
AbortRun(r) ==
  /\ AtStatement(r)
  /\ ~session[r]
  /\ EndRun(r)
  /\ UNCHANGED <<tables, copies, refusals, failures>>

-----------------------------------------------------------------------------
(***************************************************************************)
(* Failures, each of which counts against MaxFailures.                     *)
(***************************************************************************)

\* The server ends the session of a run, which frees its advisory lock; the
\* run itself goes on.
SessionLost(r) ==
  /\ session[r]
  /\ failures < MaxFailures
  /\ failures' = failures + 1
  /\ session' = [session EXCEPT ![r] = FALSE]
  /\ advisory' = IF advisory = r THEN NoRun ELSE advisory
  /\ UNCHANGED <<tables, copies, run, refusals>>

Crash(r) ==
  /\ stage[r] # "idle"
  /\ failures < MaxFailures
  /\ failures' = failures + 1
  /\ EndRun(r)
  /\ UNCHANGED <<tables, copies, refusals>>

-----------------------------------------------------------------------------
RunStep(r) ==
  \/ Select(r) \/ Finish(r) \/ AbortRun(r)
  \/ \E e \in Events :
       \/ RejectRow(r, e) \/ Confirmed(r, e) \/ Refused(r, e)
       \/ Unconfirmed(r, e) \/ GiveUp(r, e)
       \/ Mark(r, e) \/ MarkFails(r, e) \/ RecordFailure(r, e)

RelayNext ==
  \/ \E e \in Events : Append(e)
  \/ \E r \in Runs : Acquire(r) \/ RunStep(r) \/ SessionLost(r) \/ Crash(r)

RelaySafeSpec == RelayInit /\ [][RelayNext]_relayVars

(***************************************************************************)
(* setInterval keeps starting runs, and a run keeps going.  Nothing is     *)
(* assumed of producers or of failures.                                    *)
(***************************************************************************)
RelayFairness ==
  /\ WF_relayVars(\E r \in Runs : Acquire(r))
  /\ \A r \in Runs : WF_relayVars(RunStep(r))

RelaySpec == RelaySafeSpec /\ RelayFairness

-----------------------------------------------------------------------------
\* Every variable has its type.
RelayTypeOK ==
  /\ outbox \in [Events -> RowStates]
  /\ lastError \in [Events -> Errors]
  /\ copies \in [Events -> Nat]
  /\ advisory \in Runs \union {NoRun}
  /\ stage \in [Runs -> RunStages]
  /\ session \in [Runs -> BOOLEAN]
  /\ batch \in [Runs -> SUBSET Events]
  /\ endpoint \in [Runs -> 1..Endpoints + 1]
  /\ refusals \in 0..MaxRefusals
  /\ failures \in 0..MaxFailures

\* A row is ticked off only once the broker has its message, and is then clean
\* and well-formed: no failure between publish and UPDATE loses an event
\* (runOnce publishes before it sets published_at).
PublishedWasDelivered ==
  \A e \in Events : outbox[e] = "published" =>
    copies[e] > 0 /\ e \notin Malformed /\ lastError[e] = "none"

\* The advisory lock serialises the runs the server knows: two of them never
\* have live sessions at once, whatever sessions were lost before.
OneLiveRun == \A r, q \in Runs : session[r] /\ session[q] => r = q

\* Overlapping ticks alone never duplicate a message: every copy of an event
\* beyond its first is paid for by a fault of its own (a crash, a lost session, a
\* lost confirmation or a failed UPDATE).
Duplicates == {d \in Events \X (2..MaxFailures + 2) : d[2] <= copies[d[1]]}
DuplicatesOnlyFromFaults == Cardinality(Duplicates) <= failures

\* A well-formed row is eventually published: the relay is at-least-once.
AtLeastOnce ==
  \A e \in Events \ Malformed :
    outbox[e] = "pending" ~> outbox[e] = "published"

\* The relay implements what the outbox promises.
Delivery == INSTANCE EventDelivery WITH
  Events      <- Events,
  Deliverable <- Events \ Malformed,
  recorded    <- {e \in Events : outbox[e] # "absent"},
  delivered   <- {e \in Events : copies[e] > 0},
  settled     <- {e \in Events : outbox[e] = "published"}

\* Safety and liveness of the promise, under the fairness of the timers.
DeliversEvents == Delivery!Spec

\* What stands before row e in the order of the SELECT.
Older(e) == {f \in Pending : f < e}

\* A run reads a row if and only if fewer than BatchSize pending rows are older,
\* so a row waits only behind rows, and BatchSize malformed ones, which stay
\* pending, are what it takes to keep it waiting for ever.
ReadsWhatIsDue ==
  [][\A r \in Runs : Select(r) =>
       \A e \in Pending :
         e \in batch'[r] <=> Cardinality(Older(e)) < BatchSize]_relayVars

=============================================================================
