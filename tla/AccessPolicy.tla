---------------------------- MODULE AccessPolicy ----------------------------
(***************************************************************************)
(* Who may do what to which resource: AuthorizationPolicy.evaluate of      *)
(* packages/authorization/src/policy.ts, over the scopes createAccessScope *)
(* makes (roles.ts).  Every caller looks only at whether the answer is     *)
(* "allowed", so the reason of a refusal is left out.                      *)
(***************************************************************************)
EXTENDS Naturals

\* An identifier the resource does not carry.
Unset == "unset"

PublicActions ==
  {"public.sos.submit", "public.report.submit", "public.map.read",
   "public.track.read"}

RoleActions ==
  [dispatcher       |-> {"incident.read", "incident.assign",
                         "incident.update_status", "evidence.view",
                         "report.read", "report.verify"},
   field_officer    |-> {"incident.read", "incident.update_status"},
   data_editor      |-> {"map.draft.write"},
   data_approver    |-> {"map.publish"},
   leader_viewer    |-> {"analytics.read"},
   security_auditor |-> {"audit.read"},
   privacy_approver |-> {"privacy.break_glass.approve"},
   system_admin     |-> {"system.config.write"}]

OfficerRoles == DOMAIN RoleActions
Roles == OfficerRoles \union {"citizen_guest"}
Actions == PublicActions \union UNION {RoleActions[r] : r \in OfficerRoles}

Rank == [public |-> 0, internal |-> 1, sensitive |-> 2, restricted |-> 3]
DataClasses == DOMAIN Rank

\* What createAccessScope returns for a principal: identifiers are a set, as
\* normalizeIdentifiers drops duplicates and blanks.
AccessScope(principal, role, areas, units, cases, maxClass) ==
  [principal |-> principal, role |-> role, areas |-> areas, units |-> units,
   cases |-> cases, maxClass |-> maxClass]

RequiresArea(action, role) ==
  \/ role = "dispatcher" /\ action # "evidence.view"
  \/ action \in {"map.draft.write", "map.publish", "analytics.read"}

RequiresUnit(action, role) ==
  role = "field_officer"
    /\ action \in {"incident.read", "incident.update_status"}

RequiresCase(action, role) ==
  \/ role = "field_officer"
  \/ role = "dispatcher" /\ action = "evidence.view"

\* An identifier that is missing passes unless the action requires it.
InScope(value, grants, required) ==
  IF value = Unset THEN ~required ELSE value \in grants

\* evaluate: break-glass is refused with or without a second factor.
Allows(scope, action, resource) ==
  IF scope.role = "citizen_guest"
  THEN action \in PublicActions /\ resource.class = "public"
  ELSE /\ action \in RoleActions[scope.role]
       /\ Rank[resource.class] <= Rank[scope.maxClass]
       /\ action # "privacy.break_glass.approve"
       /\ InScope(resource.area, scope.areas, RequiresArea(action, scope.role))
       /\ InScope(resource.unit, scope.units, RequiresUnit(action, scope.role))
       /\ InScope(resource.case, scope.cases, RequiresCase(action, scope.role))

=============================================================================
