------------------------- MODULE MCReportLifecycle -------------------------
(***************************************************************************)
(* ReportLifecycle for TLC: photographs with the same content, a           *)
(* dispatcher of the area and officers who may not decide.                 *)
(***************************************************************************)
EXTENDS ReportLifecycle

MCArea == "hanoi"
MCOfficers ==
  {AccessScope("d1", "dispatcher", {MCArea}, {}, {}, "sensitive"),
   AccessScope("d2", "dispatcher", {"elsewhere"}, {}, {}, "sensitive"),
   AccessScope("f1", "field_officer", {MCArea}, {}, {}, "sensitive")}

\* The senders may hold each other's uploads, so a report can own none, one or
\* two photographs, and each report another.
CONSTANTS e1, e2, e3
MCUploads ==
  [r \in Reports |-> IF r = 1 THEN {e1} ELSE IF r = 2 THEN {e2} ELSE {e2, e3}]
MCSha == [e \in Evidence |-> "photo"]

=============================================================================
