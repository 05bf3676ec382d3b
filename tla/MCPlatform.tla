----------------------------- MODULE MCPlatform -----------------------------
(***************************************************************************)
(* Seven small components that share no state, for TLC in one run: each    *)
(* behaviour exercises the one it focuses on and leaves the others as they *)
(* started.                                                                *)
(***************************************************************************)
EXTENDS ResilientMap, IdempotencyClaims, NotificationDispatch, CitizenSessions,
        OfficerAccess, RuntimeConfig, TrustedEvents

VARIABLE focus

all == <<focus, providerVars, claimVars, dispatchVars, sessionVars, accessVars,
         configVars, eventVars>>

Components == {"provider", "claims", "dispatch", "sessions", "access", "config",
               "events"}

\* The components off focus start in one fixed way.
Init ==
  /\ focus \in Components
  /\ ProviderInit /\ ClaimInit /\ DispatchInit /\ SessionInit /\ AccessInit
  /\ ConfigInit /\ EventsInit
  /\ focus = "claims" \/ \A e, f \in Executions : exec[e] = exec[f]
  /\ focus = "config" \/ source = CHOOSE d \in Deployments : TRUE
  /\ focus = "events" \/ query = CHOOSE q \in Queries : TRUE

Frame(component) ==
  /\ focus = component
  /\ UNCHANGED focus
  /\ component # "provider" => UNCHANGED providerVars
  /\ component # "claims" => UNCHANGED claimVars
  /\ component # "dispatch" => UNCHANGED dispatchVars
  /\ component # "sessions" => UNCHANGED sessionVars
  /\ component # "access" => UNCHANGED accessVars
  /\ component # "config" => UNCHANGED configVars
  /\ component # "events" => UNCHANGED eventVars

Next ==
  \/ ProviderNext /\ Frame("provider")
  \/ ClaimNext /\ Frame("claims")
  \/ DispatchNext /\ Frame("dispatch")
  \/ SessionNext /\ Frame("sessions")
  \/ AccessNext /\ Frame("access")
  \/ ConfigNext /\ Frame("config")
  \/ EventsNext /\ Frame("events")

\* Callers keep asking for map data, the event loop resumes a call whose
\* attempt has ended, and time passes; workers keep consuming the queue.
Fairness ==
  /\ WF_all(PassTime /\ Frame("provider"))
  /\ \A r \in Callers :
       /\ WF_all(Ask(r) /\ Frame("provider"))
       /\ WF_all(Attempt(r) /\ Frame("provider"))
  /\ \A d \in Dispatchers : WF_all(Dispatch(d) /\ Frame("dispatch"))

Spec == Init /\ [][Next]_all /\ Fairness

-----------------------------------------------------------------------------
\* Notification templates: one for citizens whose recipient may opt out, one
\* that asks for a key that must not leave the system.
Definition(audience, class, required) ==
  [version |-> 1, audience |-> audience, class |-> class, required |-> required,
   optional |-> {"observed_at"}]
Asks(audience, class, keys) ==
  [version |-> 1, audience |-> audience, class |-> class, keys |-> keys]
MCNotifications == {"status", "leak"}
MCTemplate ==
  [status |-> {Definition("CITIZEN", "OPTIONAL", {"public_code"})},
   leak   |-> {Definition("OFFICER", "REQUIRED", {"phone"})}]
MCRequest ==
  [status |-> Asks("CITIZEN", "OPTIONAL", {"public_code"}),
   leak   |-> Asks("OFFICER", "REQUIRED", {"phone"})]

\* Two dispatchers, one assigned to both cases and one to the first only and
\* cleared below sensitive evidence, and a token that does not verify.
Dispatcher(cases, class) ==
  AccessScope("p", "dispatcher", {"north"}, {}, cases, class)
MCTokens == {"both", "low", "forged"}
MCClaims ==
  [both   |-> {Dispatcher({"case1", "case2"}, "sensitive")},
   low    |-> {Dispatcher({"case1"}, "internal")},
   forged |-> {}]
MCSessionOf == [t \in MCTokens |-> IF t = "both" THEN "s1" ELSE "s2"]
MCEvidence == {"photo", "secret"}
MCAreaOf == [e \in MCEvidence |-> "north"]
MCClassOf == [photo |-> "sensitive", secret |-> "restricted"]
MCCases == {"case1", "case2"}

\* Everything on, as a developer's machine has it, and production with what
\* may be on there.
Local ==
  [n \in Names |->
     CASE n = "APP_ENV" -> "development"
       [] n \in {"CITIZEN_SESSION_ROTATE_AFTER_MINUTES", "TRAFFIC_ALERTS_MAX_RESULTS",
                 "RETENTION_AUTO_DELETE_ENABLED", "PRIVACY_POLICY_VERSION"} -> "low"
       [] OTHER -> "high"]
Production ==
  [n \in Names |->
     CASE n = "APP_ENV" -> "production"
       [] n \in DOMAIN Features /\ ~Features[n].hosted -> "low"
       [] OTHER -> Local[n]]
MCDeployments == {Local, Production}
MCEdited ==
  {"APP_ENV", "EVIDENCE_PIPELINE_ENABLED", "EVIDENCE_USE_FAKE_ANTIVIRUS",
   "REPORT_EVIDENCE_LINKING_ENABLED", "REPORT_CAPABILITY_SECRET",
   "REPORT_SCREENING_WORKER_ENABLED", "REPORT_SCREENING_MAX_CANDIDATES_PER_REPORT",
   "S3_REGION", "EVIDENCE_CAPABILITY_SECRET", "OIDC_USE_MOCK"}

\* Copies of four events: one repeated with another cell, one outside the
\* window with two ids, one of another area, one of an unknown version.
Copy(id, area, version, at, cell) ==
  [id |-> id, area |-> area, version |-> version, at |-> at, cell |-> cell,
   sound |-> TRUE]
MCCopies ==
  {Copy("a", "north", 1, 1, "x"), Copy("a", "north", 1, 2, "y"),
   Copy("b", "north", 1, 2, "x"), Copy("c", "north", 1, 2, "y"),
   Copy("d", "north", 1, 3, "x"), Copy("d", "north", 1, 1, "x"),
   Copy("b", "south", 1, 2, "y"), Copy("e", "south", 2, 1, "x"),
   Copy("f", "north", 2, 1, "x"),
   [Copy("g", "south", 1, 1, "x") EXCEPT !.sound = FALSE]}
Asked(scope, from, to, threshold) ==
  [scope |-> scope, area |-> "north", from |-> from, to |-> to,
   threshold |-> threshold]
Leader == AccessScope("l", "leader_viewer", {"north"}, {}, {}, "internal")
MCQueries ==
  {Asked(Leader, 1, 3, 2), Asked(Leader, 2, 4, 3), Asked(Leader, 2, 2, 2),
   Asked(Leader, 1, 3, 1), Asked(Dispatcher({}, "internal"), 1, 3, 2)}

=============================================================================
