--------------------------- MODULE MCSosDelivery ---------------------------
(***************************************************************************)
(* The two ends of platform.outbox on the way of an SOS for TLC in one     *)
(* run: the intake, whose transaction writes the row, and the relay that   *)
(* publishes it.  Each behaviour exercises one of them and leaves the      *)
(* other as it started; to the relay, that an intake commits is Append.    *)
(***************************************************************************)
EXTENDS OutboxRelay, SosIntake

VARIABLE focus

all == <<focus, vars, relayVars>>

DeliveryInit == focus \in {"intake", "relay"} /\ Init /\ RelayInit

Frame(part) ==
  /\ focus = part
  /\ UNCHANGED focus
  /\ part # "intake" => UNCHANGED vars
  /\ part # "relay" => UNCHANGED relayVars

DeliveryNext ==
  \/ Frame("intake") /\ Next
  \/ Frame("relay") /\ RelayNext

\* The fairness of the two specifications, each under its own frame: a request
\* that was begun goes on, timers keep starting runs, and a run goes on.
DeliveryFairness ==
  /\ \A r \in Requests : WF_all(Frame("intake") /\ Step(r))
  /\ WF_all(Frame("relay") /\ \E r \in Runs : Acquire(r))
  /\ \A r \in Runs : WF_all(Frame("relay") /\ RunStep(r))

DeliverySpec == DeliveryInit /\ [][DeliveryNext]_all /\ DeliveryFairness

=============================================================================
