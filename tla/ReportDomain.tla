---------------------------- MODULE ReportDomain ----------------------------
(***************************************************************************)
(* The rules a citizen report lives by: packages/domain/src/reports/       *)
(* report.ts, as pure operators.                                           *)
(***************************************************************************)
EXTENDS Naturals

NextReportStates ==
  [RECEIVED             |-> {"SCREENING"},
   SCREENING            |-> {"PENDING_VERIFICATION"},
   PENDING_VERIFICATION |-> {"VERIFIED", "REJECTED", "DUPLICATE"},
   VERIFIED             |-> {"IN_PROCESS"},
   IN_PROCESS           |-> {"RESOLVED"},
   RESOLVED             |-> {"CLOSED"},
   CLOSED               |-> {"ARCHIVED"},
   REJECTED             |-> {"ARCHIVED"},
   DUPLICATE            |-> {"ARCHIVED"},
   ARCHIVED             |-> {}]

ReportStates == DOMAIN NextReportStates
ReasonNeeded == {"REJECTED", "DUPLICATE"}

\* actorCanTransition, for an edge of NextReportStates.
RoleMayTransition(from, to, role) ==
  IF role = "SYSTEM"
  THEN from \in {"RECEIVED", "SCREENING"} \/ to = "ARCHIVED"
  ELSE from \in {"PENDING_VERIFICATION", "VERIFIED", "IN_PROCESS", "RESOLVED"}

\* transitionReport returns, rather than throws, for this request.
MayTransition(current, to, role, expectedVersion, hasReason) ==
  /\ current.version = expectedVersion
  /\ to \in NextReportStates[current.state]
  /\ RoleMayTransition(current.state, to, role)
  /\ to \in ReasonNeeded => hasReason

\* The row transitionReport leads to.
Transitioned(current, to) == [current EXCEPT !.state = to, !.version = @ + 1]

=============================================================================
