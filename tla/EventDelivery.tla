--------------------------- MODULE EventDelivery ---------------------------
(***************************************************************************)
(* What a store-and-forward queue promises, apart from how it is kept: an  *)
(* entry that was recorded before anything was sent reaches the receiver,  *)
(* and it is ticked off only after the receiver has taken it.  A second    *)
(* copy of what the receiver already has is a stuttering step.             *)
(*                                                                         *)
(* The transactional outbox of the server and the SOS queue of the phone   *)
(* both make this promise.                                                 *)
(***************************************************************************)

CONSTANTS
  Events,        \* what may be recorded: events, SOS requests
  Deliverable    \* those of them that can be delivered at all

VARIABLES
  recorded,      \* stored durably
  delivered,     \* accepted by the receiver at least once
  settled        \* ticked off by the sender

vars == <<recorded, delivered, settled>>

Init ==
  /\ recorded = {}
  /\ delivered = {}
  /\ settled = {}

Record(e) ==
  /\ e \notin recorded
  /\ recorded' = recorded \union {e}
  /\ UNCHANGED <<delivered, settled>>

Deliver(e) ==
  /\ e \in (recorded \intersect Deliverable) \ delivered
  /\ delivered' = delivered \union {e}
  /\ UNCHANGED <<recorded, settled>>

Settle(e) ==
  /\ e \in delivered \ settled
  /\ settled' = settled \union {e}
  /\ UNCHANGED <<recorded, delivered>>

Next == \E e \in Events : Record(e) \/ Deliver(e) \/ Settle(e)

SafeSpec == Init /\ [][Next]_vars

Fairness ==
  \A e \in Deliverable : WF_vars(Deliver(e)) /\ WF_vars(Settle(e))

Spec == SafeSpec /\ Fairness

=============================================================================
