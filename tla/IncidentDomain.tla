--------------------------- MODULE IncidentDomain ---------------------------
(***************************************************************************)
(* The rules an incident lives by: packages/domain/src/incidents/          *)
(* incident.ts, as pure operators.                                         *)
(***************************************************************************)
EXTENDS Naturals

ActorRoles == {"SYSTEM", "DISPATCHER", "FIELD_OFFICER"}

NextStates ==
  [RECEIVED             |-> {"AUTO_SCREENING"},
   AUTO_SCREENING       |-> {"PENDING_VERIFICATION"},
   PENDING_VERIFICATION |-> {"VERIFIED", "REJECTED", "DUPLICATE"},
   VERIFIED             |-> {"ASSIGNED"},
   ASSIGNED             |-> {"ACKNOWLEDGED", "ESCALATED", "REASSIGNED"},
   REASSIGNED           |-> {"ACKNOWLEDGED", "ESCALATED"},
   ESCALATED            |-> {"REASSIGNED"},
   ACKNOWLEDGED         |-> {"EN_ROUTE"},
   EN_ROUTE             |-> {"ON_SCENE"},
   ON_SCENE             |-> {"RESOLVED"},
   RESOLVED             |-> {"CLOSED"},
   CLOSED               |-> {},
   REJECTED             |-> {},
   DUPLICATE            |-> {},
   CANCELLED            |-> {}]

IncidentStates == DOMAIN NextStates

Cancellable ==
  {"RECEIVED", "AUTO_SCREENING", "PENDING_VERIFICATION", "VERIFIED", "ASSIGNED",
   "REASSIGNED", "ESCALATED", "ACKNOWLEDGED", "EN_ROUTE", "ON_SCENE"}

ReasonRequired ==
  {"REJECTED", "DUPLICATE", "CANCELLED", "ESCALATED", "REASSIGNED"}

\* Who may take an incident from one state to another.
ActorCanTransition(from, to, role) ==
  \/ /\ role = "SYSTEM"
     /\ from \in {"RECEIVED", "AUTO_SCREENING"}
     /\ to \in NextStates[from]
  \/ /\ role = "DISPATCHER"
     /\ \/ from \in {"PENDING_VERIFICATION", "VERIFIED", "ASSIGNED",
                     "REASSIGNED", "ESCALATED"}
        \/ to = "CANCELLED"
  \/ /\ role = "FIELD_OFFICER"
     /\ \/ from \in {"ASSIGNED", "REASSIGNED", "ACKNOWLEDGED", "EN_ROUTE",
                     "ON_SCENE", "RESOLVED"}
        \/ to = "CANCELLED"

Edge(from, to) ==
  to \in NextStates[from] \/ (to = "CANCELLED" /\ from \in Cancellable)

\* transitionIncident returns, rather than throws, for this request.
CanTransition(incident, to, role, expectedVersion, hasReason) ==
  /\ incident.version = expectedVersion
  /\ Edge(incident.state, to)
  /\ ActorCanTransition(incident.state, to, role)
  /\ to \in ReasonRequired => hasReason

\* Deviation: what awaits verification counts as merely received.
PublicStatusUntilVerified(state) ==
  CASE state \in {"RECEIVED", "PENDING_VERIFICATION"} -> "RECEIVED"
    [] state \in {"RESOLVED", "CLOSED"} -> "COMPLETED"
    [] state \in {"REJECTED", "DUPLICATE", "CANCELLED"} -> "INSUFFICIENT_BASIS"
    [] OTHER -> "IN_PROGRESS"

\* What the citizen is told.
PublicStatus(state) ==
  CASE state = "RECEIVED" -> "RECEIVED"
    [] state \in {"RESOLVED", "CLOSED"} -> "COMPLETED"
    [] state \in {"REJECTED", "DUPLICATE", "CANCELLED"} -> "INSUFFICIENT_BASIS"
    [] OTHER -> "IN_PROGRESS"

=============================================================================
