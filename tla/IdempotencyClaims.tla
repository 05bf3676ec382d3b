-------------------------- MODULE IdempotencyClaims --------------------------
(***************************************************************************)
(* IdempotencyExecutor over PostgresIdempotencyStore                       *)
(* (apps/api/src/platform/idempotency): a key is claimed, the operation    *)
(* runs outside any transaction, and its response is recorded.  Every      *)
(* database statement commits by itself and is one action.  What a caller  *)
(* that did not get the claim is told (replay, conflict, in progress) is   *)
(* left out.                                                               *)
(*                                                                         *)
(* A claim carries an expiry and no owner: nothing stops an operation that *)
(* outlives its claim, and release deletes whatever claim the key has by   *)
(* then.  overran remembers that a claim was outlived.                     *)
(***************************************************************************)
EXTENDS Naturals

CONSTANTS
  ClaimKeys, Hashes,    \* idempotency keys and request hashes
  Executions,           \* calls of execute
  Lifetime,             \* expiresAt minus the time of the call
  MaxClaimTime,         \* bound: clock
  NoClaim

ASSUME ClaimAssumption ==
  /\ Lifetime \in Nat \ {0}
  /\ MaxClaimTime \in Nat
  /\ NoClaim \notin [hash : Hashes, state : {"PROCESSING", "COMPLETED"},
                     expires : Nat]

VARIABLES
  claimClock,
  claims,         \* claims[k]: row of platform.idempotency_keys, or NoClaim
  exec,           \* exec[e]: the next statement of e, and what it works on
  overran         \* keys for which an operation outlived its claim

claimVars == <<claimClock, claims, exec, overran>>

At(e, place) == exec[e].at = place
KeyOf(e) == exec[e].key
ClaimOf(e) == claims[exec[e].key]

\* e has claimed its key, and has neither completed nor released it.
Live(e) == exec[e].at \in {"operate", "complete", "release"}
Goto(e, place) == exec' = [exec EXCEPT ![e].at = place]
Held(e) ==
  /\ ClaimOf(e) # NoClaim
  /\ ClaimOf(e).hash = exec[e].hash
  /\ ClaimOf(e).state = "PROCESSING"

ClaimInit ==
  /\ claimClock = 0
  /\ claims = [k \in ClaimKeys |-> NoClaim]
  /\ exec \in [Executions -> [at : {"idle"}, key : ClaimKeys, hash : Hashes,
                              expires : {0}]]
  /\ overran = {}

ClaimTick ==
  /\ claimClock < MaxClaimTime
  /\ claimClock' = claimClock + 1
  /\ UNCHANGED <<claims, exec, overran>>

Execute(e) ==
  /\ At(e, "idle")
  /\ exec' = [exec EXCEPT ![e].at = "insert",
                          ![e].expires = claimClock + Lifetime]
  /\ UNCHANGED <<claimClock, claims, overran>>

\* Deviation: INSERT ... ON CONFLICT DO UPDATE.
UpsertClaim(e) ==
  /\ At(e, "insert")
  /\ claims' = [claims EXCEPT ![KeyOf(e)] =
                  [hash |-> exec[e].hash, state |-> "PROCESSING",
                   expires |-> exec[e].expires]]
  /\ Goto(e, "operate")
  /\ UNCHANGED <<claimClock, overran>>

\* claim: INSERT ... ON CONFLICT DO NOTHING.
InsertClaim(e) ==
  /\ At(e, "insert")
  /\ IF ClaimOf(e) = NoClaim
     THEN /\ claims' = [claims EXCEPT ![KeyOf(e)] =
                          [hash |-> exec[e].hash, state |-> "PROCESSING",
                           expires |-> exec[e].expires]]
          /\ Goto(e, "operate")
     ELSE Goto(e, "select") /\ UNCHANGED claims
  /\ UNCHANGED <<claimClock, overran>>

Expired(claim) == claim.expires <= claimClock

\* claim: SELECT; the row may be gone, expired, another request's or done.
SelectClaim(e) ==
  /\ At(e, "select")
  /\ Goto(e, IF ClaimOf(e) = NoClaim THEN "insert"
             ELSE IF Expired(ClaimOf(e)) THEN "delete"
             ELSE "done")
  /\ UNCHANGED <<claimClock, claims, overran>>

\* claim: DELETE of the row if it is (still) expired, and again; or
\* in_progress.
DeleteExpired(e) ==
  /\ At(e, "delete")
  /\ IF ClaimOf(e) # NoClaim /\ Expired(ClaimOf(e))
     THEN /\ claims' = [claims EXCEPT ![KeyOf(e)] = NoClaim]
          /\ overran' = IF \E o \in Executions : Live(o) /\ KeyOf(o) = KeyOf(e)
                       THEN overran \union {KeyOf(e)} ELSE overran
          /\ Goto(e, "insert")
     ELSE Goto(e, "done") /\ UNCHANGED <<claims, overran>>
  /\ UNCHANGED claimClock

\* operation() returns or throws.
Operate(e) ==
  /\ At(e, "operate")
  /\ \E place \in {"complete", "release"} : Goto(e, place)
  /\ UNCHANGED <<claimClock, claims, overran>>

\* complete throws unless the key has a claim in progress with this hash.
Complete(e) ==
  /\ At(e, "complete")
  /\ IF Held(e)
     THEN /\ claims' = [claims EXCEPT ![KeyOf(e)].state = "COMPLETED"]
          /\ Goto(e, "done")
     ELSE Goto(e, "release") /\ UNCHANGED claims
  /\ UNCHANGED <<claimClock, overran>>

\* release deletes the claim in progress with this hash, whoever holds it.
Release(e) ==
  /\ At(e, "release")
  /\ claims' = IF Held(e) THEN [claims EXCEPT ![KeyOf(e)] = NoClaim] ELSE claims
  /\ Goto(e, "done")
  /\ UNCHANGED <<claimClock, overran>>

\* The process dies, or the database refuses the release: the claim stays.
Abandon(e) ==
  /\ exec[e].at \notin {"idle", "done"}
  /\ Goto(e, "done")
  /\ UNCHANGED <<claimClock, claims, overran>>

Run(e) ==
  \/ Execute(e) \/ InsertClaim(e) \/ SelectClaim(e) \/ DeleteExpired(e)
  \/ Operate(e) \/ Complete(e) \/ Release(e) \/ Abandon(e)

ClaimNext == ClaimTick \/ \E e \in Executions : Run(e)

ClaimSpec == ClaimInit /\ [][ClaimNext]_claimVars

-----------------------------------------------------------------------------
Places ==
  {"idle", "insert", "select", "delete", "operate", "complete", "release",
   "done"}

\* The rows are what the table can hold, and executions are where they can be.
ClaimTypeOK ==
  /\ claimClock \in Nat
  /\ claims \in [ClaimKeys ->
                   [hash : Hashes, state : {"PROCESSING", "COMPLETED"},
                    expires : Nat] \union {NoClaim}]
  /\ exec \in [Executions -> [at : Places, key : ClaimKeys, hash : Hashes,
                              expires : Nat]]
  /\ overran \subseteq ClaimKeys

Working(e, k) == At(e, "operate") /\ KeyOf(e) = k

\* Two operations of one key are under way together only after some operation
\* of that key outlived its claim.
OverlapOnlyAfterOverrun ==
  \A k \in ClaimKeys \ overran, e, f \in Executions :
    Working(e, k) /\ Working(f, k) => e = f

\* An answer that was stored stays until it expires: an execution that outlived
\* its own claim neither completes nor releases the claim of its successor
\* once that is completed.
CompletedIsKept ==
  [][\A k \in ClaimKeys :
       claims[k] # NoClaim /\ claims[k].state = "COMPLETED"
         => claims'[k] = claims[k] \/ Expired(claims[k])]_claimVars

=============================================================================
