-------------------------- MODULE IdempotentIntake --------------------------
(***************************************************************************)
(* What an intake endpoint with an Idempotency-Key promises: every request *)
(* is decided in one atomic step against the ledger of keys.  It is        *)
(* accepted when its key is free, answered with the stored acknowledgement *)
(* when it repeats the accepted request, refused when it reuses the key    *)
(* for something else; it may also fail, with or without having been       *)
(* accepted.  Nobody is ever told to wait for somebody else's request.     *)
(***************************************************************************)
EXTENDS Naturals

CONSTANTS Keys, Payloads, Requests, None, Times, Ttl

VARIABLES
  req,        \* req[r]: key, payload and time of request r, or None
  ledger,     \* ledger[k]: what key k was last accepted for, or None
  accepted,   \* everything that was ever accepted
  answer      \* answer[r]: what request r was told, or None

vars == <<req, ledger, accepted, answer>>

Answer(kind, incident) == [kind |-> kind, incident |-> incident]

Init ==
  /\ req = [r \in Requests |-> None]
  /\ ledger = [k \in Keys |-> None]
  /\ accepted = {}
  /\ answer = [r \in Requests |-> None]

Submit(r, k, p, t) ==
  /\ req[r] = None
  /\ req' = [req EXCEPT ![r] = [key |-> k, payload |-> p, now |-> t]]
  /\ UNCHANGED <<ledger, accepted, answer>>

Undecided(r) == req[r] # None /\ answer[r] = None

KeyIsFree(r) ==
  \/ ledger[req[r].key] = None
  \/ ledger[req[r].key].expires <= req[r].now

Accept(r) ==
  /\ Undecided(r)
  /\ KeyIsFree(r)
  /\ ledger' = [ledger EXCEPT ![req[r].key] =
                  [payload |-> req[r].payload, incident |-> r,
                   expires |-> req[r].now + Ttl]]
  /\ accepted' = accepted \union
                   {[id |-> r, key |-> req[r].key, payload |-> req[r].payload,
                     since |-> req[r].now, until |-> req[r].now + Ttl]}
  /\ answer' \in {[answer EXCEPT ![r] = Answer("ack", r)],
                  [answer EXCEPT ![r] = Answer("error", None)]}
  /\ UNCHANGED req

Replay(r) ==
  /\ Undecided(r)
  /\ ledger[req[r].key] # None
  /\ ledger[req[r].key].payload = req[r].payload
  /\ answer' = [answer EXCEPT ![r] =
                  Answer("ack", ledger[req[r].key].incident)]
  /\ UNCHANGED <<req, ledger, accepted>>

Refuse(r) ==
  /\ Undecided(r)
  /\ ledger[req[r].key] # None
  /\ ledger[req[r].key].payload # req[r].payload
  /\ answer' = [answer EXCEPT ![r] = Answer("conflict", None)]
  /\ UNCHANGED <<req, ledger, accepted>>

Fail(r) ==
  /\ Undecided(r)
  /\ \E kind \in {"unavailable", "error"} :
       answer' = [answer EXCEPT ![r] = Answer(kind, None)]
  /\ UNCHANGED <<req, ledger, accepted>>

Next ==
  \E r \in Requests :
    \/ \E k \in Keys, p \in Payloads, t \in Times : Submit(r, k, p, t)
    \/ Accept(r) \/ Replay(r) \/ Refuse(r) \/ Fail(r)

Spec == Init /\ [][Next]_vars

=============================================================================
