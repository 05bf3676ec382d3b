--------------------------- MODULE MCMapLifecycle ---------------------------
(***************************************************************************)
(* MapLifecycle for TLC: an editor, an approver, and one principal who has *)
(* a session of each role; one upload that passes the preview and one for  *)
(* each way to fail it.                                                    *)
(***************************************************************************)
EXTENDS MapLifecycle

MCArea == "hanoi"
Officer(principal, role) ==
  AccessScope(principal, role, {MCArea}, {}, {}, "internal")
MCSessions ==
  {Officer("u1", "data_editor"), Officer("u1", "data_approver"),
   Officer("u2", "data_approver")}

\* A second editor, who may submit what the first one has created.
MCTwoEditors == MCSessions \union {Officer("u2", "data_editor")}

\* One window that closes, and one that opens later for good.
MCProposals ==
  {[window |-> [from |-> 0, to |-> 1], class |-> "public"],
   [window |-> [from |-> 1, to |-> NoEnd], class |-> "public"]}

MCLayer ==
  [type   |-> "POINT",
   schema |-> [required |-> {"kind"}, open |-> FALSE,
               rules    |-> [kind |-> {"camera", "hazard"}, lanes |-> 1..2]]]
Point(properties, simple) ==
  [shape |-> "POINT", properties |-> properties, simple |-> simple]
Good == Point([kind |-> "camera", lanes |-> 2], TRUE)
MCBatches ==
  {{Good}} \union
  {{Good, bad} : bad \in {Point([kind |-> "camera", lanes |-> 3], TRUE),
                          Point([lanes |-> 1], TRUE),
                          Point([kind |-> "camera"], FALSE),
                          [Good EXCEPT !.shape = "LINE"]}}

MCSkews == {0, -1}

=============================================================================
