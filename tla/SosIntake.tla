----------------------------- MODULE SosIntake -----------------------------
(***************************************************************************)
(* POST /public/sos: PostgresIncidentRepository.acceptSos, statement by    *)
(* statement, for requests served concurrently by any number of API        *)
(* processes on one PostgreSQL database (READ COMMITTED).                  *)
(*                                                                         *)
(* The only things another transaction can notice before a COMMIT are the  *)
(* row of platform.idempotency_keys that acceptSos has deleted or inserted *)
(* (it waits for it) and, in the next module of the chain, the sequence    *)
(* numbers taken.  The incident, its first history row, the audit row and  *)
(* the outbox row appear together at COMMIT: accepted stands for the four. *)
(*                                                                         *)
(* A retry of the client is a request of its own with the same key.        *)
(***************************************************************************)
EXTENDS Naturals

CONSTANTS
  Keys,           \* Idempotency-Key values
  Payloads,       \* request bodies that hash differently
  Unavailable,    \* bodies whose incident type the catalogue has disabled
  Requests,       \* HTTP requests
  None,
  Ttl,            \* idempotencyTtlMinutes
  MaxTime,        \* bound: clock
  MaxFaults       \* bound: failed transactions and lost acknowledgements

ASSUME IntakeAssumption ==
  /\ Unavailable \subseteq Payloads
  /\ None \notin Requests
  /\ None \notin Payloads
  /\ Ttl \in Nat \ {0}
  /\ MaxTime \in Nat
  /\ MaxFaults \in Nat

VARIABLES
  clock,
  req,            \* req[r]: what r asks, with the time acceptSos was called
  pc,             \* pc[r]: the next statement of r
  keyRow,         \* keyRow[k]: committed row of idempotency_keys, or None
  rowLock,        \* rowLock[k]: transaction with uncommitted changes to it
  accepted,       \* committed incidents
  answer,         \* answer[r]: the response, or None
  faults

vars == <<clock, req, pc, keyRow, rowLock, accepted, answer, faults>>

Request == [key : Keys, payload : Payloads, now : 0..MaxTime]
KeyRow ==
  [state : {"PROCESSING", "COMPLETED"}, hash : Payloads,
   incident : Requests, expires : 0..MaxTime + Ttl]
Incident ==
  [id : Requests, key : Keys, payload : Payloads, since : 0..MaxTime,
   until : 0..MaxTime + Ttl]
Kinds == {"ack", "conflict", "inProgress", "unavailable", "error"}
Answers == [kind : Kinds, incident : Requests \union {None}]
Locations == {"idle", "purge", "claim", "lookup", "work", "done"}
Ledger == [payload : Payloads, incident : Requests, expires : 0..MaxTime + Ttl]

\* None can be told apart from whatever it stands in for.
ASSUME NoneAssumption ==
  None \notin Request /\ None \notin KeyRow /\ None \notin Answers
                      /\ None \notin Ledger

\* Row of the key r asks for, and the response r gets.
Row(r) == keyRow[req[r].key]
Reply(kind, incident) == [kind |-> kind, incident |-> incident]

Init ==
  /\ clock = 0
  /\ req = [r \in Requests |-> None]
  /\ pc = [r \in Requests |-> "idle"]
  /\ keyRow = [k \in Keys |-> None]
  /\ rowLock = [k \in Keys |-> None]
  /\ accepted = {}
  /\ answer = [r \in Requests |-> None]
  /\ faults = 0

Tick ==
  /\ clock < MaxTime
  /\ clock' = clock + 1
  /\ UNCHANGED <<req, pc, keyRow, rowLock, accepted, answer, faults>>

-----------------------------------------------------------------------------
\* The call: "now" is read once, before the transaction begins.
Begin(r, k, p) ==
  /\ pc[r] = "idle"
  /\ req' = [req EXCEPT ![r] = [key |-> k, payload |-> p, now |-> clock]]
  /\ pc' = [pc EXCEPT ![r] = "purge"]
  /\ UNCHANGED <<clock, keyRow, rowLock, accepted, answer, faults>>

\* The row lock of r's key is free or r's own.
Unblocked(r) == rowLock[req[r].key] \in {None, r}

\* Deviation: the DELETE compares with a later instant than "now".
ExpiredEarly(r) == Row(r) # None /\ Row(r).expires <= req[r].now + 1

Expired(r) == Row(r) # None /\ Row(r).expires <= req[r].now

\* DELETE ... WHERE expires_at <= now.  It waits for another transaction that
\* has deleted the same row, and holds the row afterwards.
Purge(r) ==
  /\ pc[r] = "purge"
  /\ IF Expired(r)
     THEN /\ Unblocked(r)
          /\ rowLock' = [rowLock EXCEPT ![req[r].key] = r]
     ELSE UNCHANGED rowLock
  /\ pc' = [pc EXCEPT ![r] = "claim"]
  /\ UNCHANGED <<clock, req, keyRow, accepted, answer, faults>>

\* Deviation: the INSERT does not wait for an uncommitted row.
ClaimUnblocked(r) ==
  /\ pc[r] = "claim"
  /\ IF Row(r) = None \/ rowLock[req[r].key] = r
     THEN /\ rowLock' = [rowLock EXCEPT ![req[r].key] = r]
          /\ pc' = [pc EXCEPT ![r] = "work"]
     ELSE /\ pc' = [pc EXCEPT ![r] = "lookup"]
          /\ UNCHANGED rowLock
  /\ UNCHANGED <<clock, req, keyRow, accepted, answer, faults>>

\* Deviation: the claim is committed before the work is done.
ClaimCommitted(r) ==
  /\ pc[r] = "claim"
  /\ Unblocked(r)
  /\ IF Row(r) = None \/ rowLock[req[r].key] = r
     THEN /\ keyRow' = [keyRow EXCEPT ![req[r].key] =
                          [state |-> "PROCESSING", hash |-> req[r].payload,
                           incident |-> r, expires |-> req[r].now + Ttl]]
          /\ rowLock' = [rowLock EXCEPT ![req[r].key] = None]
          /\ pc' = [pc EXCEPT ![r] = "work"]
     ELSE /\ pc' = [pc EXCEPT ![r] = "lookup"]
          /\ UNCHANGED <<keyRow, rowLock>>
  /\ UNCHANGED <<clock, req, accepted, answer, faults>>

\* INSERT ... ON CONFLICT DO NOTHING.  It waits for whoever has an uncommitted
\* change to the row, then inserts or reports the conflict.
Claim(r) ==
  /\ pc[r] = "claim"
  /\ Unblocked(r)
  /\ IF Row(r) = None \/ rowLock[req[r].key] = r
     THEN /\ rowLock' = [rowLock EXCEPT ![req[r].key] = r]
          /\ pc' = [pc EXCEPT ![r] = "work"]
     ELSE /\ pc' = [pc EXCEPT ![r] = "lookup"]
          /\ UNCHANGED rowLock
  /\ UNCHANGED <<clock, req, keyRow, accepted, answer, faults>>

-----------------------------------------------------------------------------
\* Deviation: a transaction ends without giving its rows back.
UnlockNothing(r) == UNCHANGED rowLock

Unlock(r) ==
  rowLock' = [k \in Keys |-> IF rowLock[k] = r THEN None ELSE rowLock[k]]

\* The transaction of r ends, and r's caller gets the reply.
Respond(r, reply) ==
  /\ Unlock(r)
  /\ answer' = [answer EXCEPT ![r] = reply]
  /\ pc' = [pc EXCEPT ![r] = "done"]

\* Deviation: any completed row is replayed, whatever it was for.
SameRequestUnchecked(r) == TRUE

\* Deviation: the hash covers data that differs between retries.
SameRequestOnlyItself(r) == Row(r).incident = r

SameRequest(r) == Row(r).hash = req[r].payload

\* The conflicting row, as committed now: in progress, other body, or replay.
Stored(r) ==
  IF Row(r) = None \/ Row(r).state = "PROCESSING" THEN Reply("inProgress", None)
  ELSE IF SameRequest(r) THEN Reply("ack", Row(r).incident)
  ELSE Reply("conflict", None)

Lookup(r) ==
  /\ pc[r] = "lookup"
  /\ Respond(r, Stored(r))
  /\ UNCHANGED <<clock, req, keyRow, accepted, faults>>

\* The catalogue does not offer the type: the exception rolls back the claim.
RejectType(r) ==
  /\ pc[r] = "work"
  /\ req[r].payload \in Unavailable
  /\ Respond(r, Reply("unavailable", None))
  /\ UNCHANGED <<clock, req, keyRow, accepted, faults>>

CompletedRow(r) ==
  [state |-> "COMPLETED", hash |-> req[r].payload, incident |-> r,
   expires |-> req[r].now + Ttl]

\* The four INSERTs, the completion of the key and the COMMIT.
CommitTables(r) ==
  /\ pc[r] = "work"
  /\ req[r].payload \notin Unavailable
  /\ keyRow' = [keyRow EXCEPT ![req[r].key] = CompletedRow(r)]
  /\ accepted' = accepted \union
       {[id |-> r, key |-> req[r].key, payload |-> req[r].payload,
         since |-> req[r].now, until |-> req[r].now + Ttl]}
  /\ UNCHANGED <<clock, req>>

Commit(r) ==
  /\ CommitTables(r)
  /\ Respond(r, Reply("ack", r))
  /\ UNCHANGED faults

\* The COMMIT takes effect but its outcome is lost: the caller gets an error.
CommitUnacknowledged(r) ==
  /\ faults < MaxFaults
  /\ faults' = faults + 1
  /\ CommitTables(r)
  /\ Respond(r, Reply("error", None))

\* A statement fails or the process dies: PostgreSQL rolls back.
Abort(r) ==
  /\ pc[r] \in {"purge", "claim", "lookup", "work"}
  /\ faults < MaxFaults
  /\ faults' = faults + 1
  /\ Respond(r, Reply("error", None))
  /\ UNCHANGED <<clock, req, keyRow, accepted>>

Step(r) ==
  \/ Purge(r) \/ Claim(r) \/ Lookup(r)
  \/ RejectType(r) \/ Commit(r) \/ CommitUnacknowledged(r) \/ Abort(r)

\* Nothing is left to happen: the bounded inputs are used up.
Finished ==
  /\ clock = MaxTime
  /\ \A r \in Requests : pc[r] = "done"
  /\ UNCHANGED vars

Next ==
  \/ Tick
  \/ \E r \in Requests :
       \/ \E k \in Keys, p \in Payloads : Begin(r, k, p)
       \/ Step(r)
  \/ Finished

\* A request that was begun is served to its end.
Spec == Init /\ [][Next]_vars /\ \A r \in Requests : WF_vars(Step(r))

-----------------------------------------------------------------------------
\* Every variable has its type.
TypeOK ==
  /\ clock \in 0..MaxTime
  /\ req \in [Requests -> Request \union {None}]
  /\ pc \in [Requests -> Locations]
  /\ \A r \in Requests : pc[r] # "idle" => req[r] \in Request
  /\ keyRow \in [Keys -> KeyRow \union {None}]
  /\ rowLock \in [Keys -> Requests \union {None}]
  /\ accepted \subseteq Incident
  /\ answer \in [Requests -> Answers \union {None}]
  /\ faults \in 0..MaxFaults

\* Retries, however they interleave, fail or lose their answers, create a second
\* incident for a key only after the first one's key has expired.
OneIncidentPerKeyLifetime ==
  \A i, j \in accepted :
    i # j /\ i.key = j.key => i.until <= j.since \/ j.until <= i.since

\* An acknowledgement names a committed incident, made from the very body that
\* is being acknowledged: nobody is told RECEIVED for an SOS that is not there.
AckIsDurable ==
  \A r \in Requests :
    answer[r] # None /\ answer[r].kind = "ack" =>
      \E i \in accepted : /\ i.id = answer[r].incident
                          /\ i.key = req[r].key
                          /\ i.payload = req[r].payload

\* IDEMPOTENCY_CONFLICT is told only to a request whose key really was used for
\* another body; a failed or refused attempt leaves no trace that causes one.
ConflictIsReal ==
  \A r \in Requests :
    answer[r] # None /\ answer[r].kind = "conflict" =>
      \E i \in accepted : i.key = req[r].key /\ i.payload # req[r].payload

\* The IDEMPOTENCY_IN_PROGRESS branch is dead: the claim is in the same
\* transaction as the work, so no other request ever sees a PROCESSING row.  (The
\* mobile client files that answer as a permanent rejection.)
NeverInProgress ==
  \A r \in Requests :
    answer[r] # None => answer[r].kind # "inProgress"

\* r has asked for a row that another transaction holds.
Waits(r) ==
  \/ pc[r] = "purge" /\ Expired(r) /\ ~Unblocked(r)
  \/ pc[r] = "claim" /\ ~Unblocked(r)

\* Nobody waits for a request that waits: whoever holds a row goes on to its
\* COMMIT or ROLLBACK without asking for another one.  A deletion and an
\* insertion of one key, by any number of retries, cannot deadlock.
NoWaitChain ==
  \A r \in Requests : Waits(r) =>
    LET holder == rowLock[req[r].key]
    IN  /\ holder \in Requests
        /\ pc[holder] \in {"claim", "work"}
        /\ ~Waits(holder)

\* No request waits forever for the row of another one: again and again every
\* request that was begun has its answer, and an answer is final.
EveryRequestAnswered ==
  []<>(\A r \in Requests : pc[r] \in {"idle", "done"})

\* What the rows of idempotency_keys mean to the promise.
ledger ==
  [k \in Keys |-> IF keyRow[k] = None THEN None
                  ELSE [payload |-> keyRow[k].hash,
                        incident |-> keyRow[k].incident,
                        expires |-> keyRow[k].expires]]

Intake == INSTANCE IdempotentIntake WITH Times <- 0..MaxTime

\* The statements of acceptSos amount to one atomic decision per request.
DecidesAtomically == Intake!Spec

=============================================================================
