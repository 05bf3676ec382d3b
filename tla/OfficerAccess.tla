---------------------------- MODULE OfficerAccess ----------------------------
(***************************************************************************)
(* How an officer gets at a piece of evidence: AuthorizationGuard          *)
(* .canActivate and the providers behind it (apps/api/src/modules/         *)
(* identity), then EvidenceAccessService.issue over its repository and the *)
(* object storage (apps/api/src/modules/evidence).  Every await is a step  *)
(* of its own; meanwhile sessions are revoked and evidence is attached to  *)
(* cases.  A step whose query fails ends the request.                      *)
(***************************************************************************)
EXTENDS AccessPolicy, FiniteSets

CONSTANTS
  Requests,        \* requests to .../evidence/:id/preview or /download
  Tokens,          \* bearer tokens presented
  Claims,          \* Claims[t]: {} when t does not verify, else {its scope}
  SessionOf,       \* SessionOf[t]: the sid claim
  Evidence,        \* objects of the evidence store
  AreaOf, ClassOf, \* area and data class of an object
  Cases,           \* incidents and reports evidence may belong to
  MaxAccessFaults, \* bound: failing queries and storage calls
  Nobody           \* the owner of an object attached to no case yet

ASSUME AccessAssumption ==
  /\ \A t \in Tokens : IsFiniteSet(Claims[t]) /\ Cardinality(Claims[t]) <= 1
  /\ \A e \in Evidence : ClassOf[e] \in DataClasses
  /\ MaxAccessFaults \in Nat
  /\ Nobody \notin Cases

VARIABLES
  request,         \* request[r]: step, what it asks for, what it has found
  revoked,         \* sessions of identity.revoked_officer_sessions
  owner,           \* owner[e]: the case a READY object is attached to
  trail,           \* audit.audit_events: <<request, action, outcome>>
  accessFaults

accessVars == <<request, revoked, owner, trail, accessFaults>>

NoAsk == [token |-> "none", area |-> "none", case |-> "none", object |-> "none"]

AccessInit ==
  /\ request = [r \in Requests |-> [at |-> "idle", ask |-> NoAsk]]
  /\ revoked = {}
  /\ owner = [e \in Evidence |-> Nobody]
  /\ trail = {}
  /\ accessFaults = 0

Move(r, from, to) ==
  /\ request[r].at = from
  /\ request' = [request EXCEPT ![r].at = to]

Log(r, action, outcome) ==
  trail' = trail \union {<<r, action, outcome>>}

\* A request arrives with or without a bearer token of the right form.
Present(r, ask) ==
  /\ request[r].at = "idle"
  /\ request' = [request EXCEPT ![r] = [at |-> "verify", ask |-> ask]]
  /\ UNCHANGED <<revoked, owner, trail, accessFaults>>

Scope(r) == CHOOSE s \in Claims[request[r].ask.token] : TRUE

\* authenticate returns: the token verifies, and its session is not revoked
\* at the time of the query.
Authentic(r) ==
  LET token == request[r].ask.token
  IN  token \in Tokens /\ Claims[token] # {} /\ SessionOf[token] \notin revoked

Authenticate(r) ==
  /\ Move(r, "verify", IF Authentic(r) THEN "decide" ELSE "unauthenticated")
  /\ UNCHANGED <<revoked, owner, trail, accessFaults>>

RecordAuthenticationDenied(r) ==
  /\ Move(r, "unauthenticated", "refused")
  /\ Log(r, "authentication", "DENIED")
  /\ UNCHANGED <<revoked, owner, accessFaults>>

\* The evidence routes' policy: resourceFromRequest takes area and case from
\* the path and the class from the decorator.
RouteResource(r) ==
  [class |-> "sensitive", area |-> request[r].ask.area, unit |-> Unset,
   case |-> request[r].ask.case]

Authorize(r) ==
  LET allowed == Allows(Scope(r), "evidence.view", RouteResource(r))
  IN  /\ Move(r, "decide", IF allowed THEN "find" ELSE "refused")
      /\ Log(r, "authorization", IF allowed THEN "SUCCESS" ELSE "DENIED")
      /\ UNCHANGED <<revoked, owner, accessFaults>>

-----------------------------------------------------------------------------
\* findScoped: the object is attached to the case asked for, in the area
\* asked for, both granted, and its own data class is within the scope.
InReach(s, area, case, e) ==
  /\ area \in s.areas /\ case \in s.cases
  /\ owner[e] = case /\ AreaOf[e] = area
  /\ Allows(s, "evidence.view",
            [class |-> ClassOf[e], area |-> area, unit |-> Unset, case |-> case])

Reaches(r) ==
  LET ask == request[r].ask IN InReach(Scope(r), ask.area, ask.case, ask.object)

FindScoped(r) ==
  /\ Move(r, "find", IF Reaches(r) THEN "sign" ELSE "missing")
  /\ UNCHANGED <<revoked, owner, trail, accessFaults>>

RecordDenied(r) ==
  /\ Move(r, "missing", "refused")
  /\ Log(r, "access", "DENIED")
  /\ UNCHANGED <<revoked, owner, accessFaults>>

\* createReadUrl: HEAD, then a presigned URL.
CreateReadUrl(r) ==
  /\ Move(r, "sign", "record")
  /\ UNCHANGED <<revoked, owner, trail, accessFaults>>

StorageUnavailable(r) ==
  /\ Move(r, "sign", "failed")
  /\ accessFaults < MaxAccessFaults
  /\ accessFaults' = accessFaults + 1
  /\ UNCHANGED <<revoked, owner, trail>>

RecordError(r) ==
  /\ Move(r, "failed", "refused")
  /\ Log(r, "access", "ERROR")
  /\ UNCHANGED <<revoked, owner, accessFaults>>

\* The URL is answered once the audit row is stored.
RecordSuccess(r) ==
  /\ Move(r, "record", "granted")
  /\ Log(r, "access", "SUCCESS")
  /\ UNCHANGED <<revoked, owner, accessFaults>>

\* Deviation: an audit row that cannot be stored is only logged.
QueryFailsQuietly(r) ==
  /\ request[r].at \in {"verify", "unauthenticated", "decide", "find", "missing",
                        "failed", "record"}
  /\ accessFaults < MaxAccessFaults
  /\ accessFaults' = accessFaults + 1
  /\ request' = [request EXCEPT ![r].at =
                   CASE @ = "verify" -> "unauthenticated"
                     [] @ = "record" -> "granted"
                     [] OTHER -> "refused"]
  /\ UNCHANGED <<revoked, owner, trail>>

\* A query fails: a denied authentication, a decision, a lookup or an access
\* that cannot be recorded answers an error.
QueryFails(r) ==
  /\ request[r].at \in {"verify", "unauthenticated", "decide", "find", "missing",
                        "failed", "record"}
  /\ accessFaults < MaxAccessFaults
  /\ accessFaults' = accessFaults + 1
  /\ request' = [request EXCEPT ![r].at =
                   IF @ = "verify" THEN "unauthenticated" ELSE "refused"]
  /\ UNCHANGED <<revoked, owner, trail>>

-----------------------------------------------------------------------------
Revoke(s) ==
  /\ s \notin revoked
  /\ revoked' = revoked \union {s}
  /\ UNCHANGED <<request, owner, trail, accessFaults>>

Attach(e, c) ==
  /\ owner[e] = Nobody
  /\ owner' = [owner EXCEPT ![e] = c]
  /\ UNCHANGED <<request, revoked, trail, accessFaults>>

Serve(r) ==
  \/ Authenticate(r) \/ RecordAuthenticationDenied(r) \/ Authorize(r)
  \/ FindScoped(r) \/ RecordDenied(r) \/ CreateReadUrl(r)
  \/ StorageUnavailable(r) \/ RecordError(r) \/ RecordSuccess(r)
  \/ QueryFails(r)

AccessNext ==
  \/ \E r \in Requests, t \in Tokens \union {"none"}, e \in Evidence, c \in Cases :
       Present(r, [token |-> t, area |-> AreaOf[e], case |-> c, object |-> e])
  \/ \E r \in Requests : Serve(r)
  \/ \E t \in Tokens : Revoke(SessionOf[t])
  \/ \E e \in Evidence, c \in Cases : Attach(e, c)

AccessSpec == AccessInit /\ [][AccessNext]_accessVars

-----------------------------------------------------------------------------
\* A read URL is handed out only with both audit rows stored, its decision
\* and its issue, and only for an object that belongs to the case the officer
\* is assigned to, in an area granted, within the class granted; however
\* queries fail and evidence is attached meanwhile.
EveryGrantIsAccounted ==
  \A r \in Requests : request[r].at = "granted" =>
    /\ {<<r, "authorization", "SUCCESS">>, <<r, "access", "SUCCESS">>}
         \subseteq trail
    /\ LET ask == request[r].ask
           s == Scope(r)
       IN  /\ owner[ask.object] = ask.case /\ ask.case \in s.cases
           /\ AreaOf[ask.object] \in s.areas
           /\ Rank[ClassOf[ask.object]] <= Rank[s.maxClass]

=============================================================================
