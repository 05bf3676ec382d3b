--------------------------- MODULE ReportLifecycle ---------------------------
(***************************************************************************)
(* Citizen reports from intake to verification:                            *)
(*   - PostgresReportRepository (apps/api/.../report.repository.ts): a     *)
(*     citizen files a report and attaches evidence to it;                 *)
(*   - the report screening worker (apps/worker/src/reports): queues every *)
(*     report for an officer, and looks for older reports with the same    *)
(*     evidence when evidence is linked;                                   *)
(*   - PostgresReportOpsRepository (report-ops.repository.ts): dispatchers *)
(*     decide, and confirm or override the suggested duplicates.           *)
(* Intake has one area per deployment, so all reports share it.            *)
(*                                                                         *)
(* Every transaction holds the row lock of the one report it changes, so   *)
(* it is one action.  created_at is the time the intake's transaction      *)
(* began, so a report may be committed after a newer one; the reports are  *)
(* numbered in the order of (created_at, id), and filed in any order.  The *)
(* queue delivers in any order, and again after a lost acknowledgement.    *)
(***************************************************************************)
EXTENDS ReportDomain, FiniteSets, AccessPolicy

CONSTANTS
  MaxReports,     \* bound: reports, numbered by created_at, then id
  Evidence,       \* READY evidence objects
  Held,           \* Held[r]: evidence whose capability r's sender holds
  Sha,            \* Sha[e]: the hash of e's immutable original
  MaxCandidates,  \* maxCandidatesPerReport
  Redelivered,    \* bound: reports whose events may be delivered again
  Area,           \* intakeAreaId
  Officers,       \* access scopes of those who call the operations API
  NoReport

ASSUME ReportAssumption ==
  /\ MaxReports \in Nat \ {0}
  /\ MaxCandidates \in Nat \ {0}
  /\ Redelivered \subseteq 1..MaxReports
  /\ NoReport \notin Nat
  /\ NoReport \notin [state : ReportStates, version : Nat]

Reports == 1..MaxReports

VARIABLES
  report,         \* report[r]: committed row of r, or NoReport
  owner,          \* owner[e]: the report e is attached to, or NoReport
  toScreen,       \* events to be screened
  screened,       \* platform.inbox_messages: events that were screened
  rejected,       \* events that were rejected for good
  candidate       \* candidate[r][o]: state of o as a suggested original of r

reportVars == <<report, owner, toScreen, screened, rejected, candidate>>

Resource == [class |-> "sensitive", area |-> Area, unit |-> Unset, case |-> Unset]
Received(r) == [type |-> "received", report |-> r, evidence |-> {}]
Linked(r, e) == [type |-> "linked", report |-> r, evidence |-> {e}]
Awaiting(r) == report[r] # NoReport /\ report[r].state = "PENDING_VERIFICATION"

-----------------------------------------------------------------------------
ReportInit ==
  /\ report = [r \in Reports |-> NoReport]
  /\ owner = [e \in Evidence |-> NoReport]
  /\ toScreen = {}
  /\ screened = {}
  /\ rejected = {}
  /\ candidate = [r \in Reports |-> [o \in Reports |-> "NONE"]]

\* accept, for a key that was not used: report, history, audit, outbox and key
\* commit together.
Intake(r) ==
  /\ report[r] = NoReport
  /\ report' = [report EXCEPT ![r] = [state |-> "RECEIVED", version |-> 1]]
  /\ toScreen' = toScreen \union {Received(r)}
  /\ UNCHANGED <<owner, screened, rejected, candidate>>

\* attachEvidence with attach_ready_to_report: evidence gets an owner once,
\* and the link is announced once.
AttachEvidence(r, e) ==
  /\ report[r] # NoReport
  /\ e \in Held[r]
  /\ owner[e] = NoReport
  /\ owner' = [owner EXCEPT ![e] = r]
  /\ toScreen' = toScreen \union {Linked(r, e)}
  /\ UNCHANGED <<report, screened, rejected, candidate>>

-----------------------------------------------------------------------------
\* Screening

\* createExactHashCandidates: older reports that own the same content.
Matches(r, e) ==
  {o \in 1..(r - 1) : \E f \in Evidence : owner[f] = o /\ Sha[f] = Sha[e]}

\* Deviation: one step towards verification per event.
AdvanceOnce(current) ==
  IF current.state = "RECEIVED" THEN Transitioned(current, "SCREENING")
  ELSE IF current.state = "SCREENING"
  THEN Transitioned(current, "PENDING_VERIFICATION")
  ELSE current

\* advanceToPending, whatever the event: events may arrive in any order.
AdvanceToPending(current) ==
  IF current.state = "RECEIVED"
  THEN Transitioned(Transitioned(current, "SCREENING"), "PENDING_VERIFICATION")
  ELSE IF current.state = "SCREENING"
  THEN Transitioned(current, "PENDING_VERIFICATION")
  ELSE current

\* Originals to suggest on this event.
Found(m) ==
  IF AdvanceToPending(report[m.report]).state = "PENDING_VERIFICATION"
  THEN UNION {Matches(m.report, e) : e \in m.evidence} ELSE {}

\* Deviation: ON CONFLICT DO UPDATE.
SuggestAgain(of, found) ==
  [o \in Reports |-> IF o \in found THEN "PENDING" ELSE of[o]]

\* INSERT ... ON CONFLICT DO NOTHING: a suggestion that exists, resolved or not,
\* stays as it is.
Suggest(of, found) ==
  [o \in Reports |-> IF o \in found /\ of[o] = "NONE" THEN "PENDING" ELSE of[o]]

\* process: an event that was screened before is acknowledged.
SkipScreened(m) ==
  /\ m \in toScreen \intersect screened
  /\ toScreen' = toScreen \ {m}
  /\ UNCHANGED <<report, owner, screened, rejected, candidate>>

\* process: inbox row, report and new candidates commit together.
Screen(m) ==
  /\ m \in toScreen \ screened
  /\ Cardinality(Found(m)) <= MaxCandidates
  /\ screened' = screened \union {m}
  /\ toScreen' = toScreen \ {m}
  /\ report' = [report EXCEPT ![m.report] = AdvanceToPending(@)]
  /\ candidate' = [candidate EXCEPT ![m.report] = Suggest(@, Found(m))]
  /\ UNCHANGED <<owner, rejected>>

\* CANDIDATE_LIMIT_EXCEEDED: ROLLBACK, and the job rejects the event.
RejectEvent(m) ==
  /\ m \in toScreen \ screened
  /\ Cardinality(Found(m)) > MaxCandidates
  /\ toScreen' = toScreen \ {m}
  /\ rejected' = rejected \union {m}
  /\ UNCHANGED <<report, owner, screened, candidate>>

\* The acknowledgement is lost, or the relay publishes the event again.
Redeliver(m) ==
  /\ m \in screened /\ m.report \in Redelivered
  /\ toScreen' = toScreen \union {m}
  /\ UNCHANGED <<report, owner, screened, rejected, candidate>>

-----------------------------------------------------------------------------
\* Operations

Dispatchers ==
  {officer \in Officers :
     officer.role = "dispatcher" /\ Allows(officer, "report.verify", Resource)}

\* resolveCandidate: still pending, as version 1 of it says.
Unresolved(r, o, expectedVersion) ==
  candidate[r][o] = "PENDING" /\ expectedVersion = 1

\* decide, other than DUPLICATE.
DecideReport(officer, r, decision, expectedVersion, hasReason) ==
  /\ officer \in Dispatchers
  /\ report[r] # NoReport
  /\ MayTransition(report[r], decision, "DISPATCHER", expectedVersion, hasReason)
  /\ report' = [report EXCEPT ![r] = Transitioned(@, decision)]
  /\ UNCHANGED <<owner, toScreen, screened, rejected, candidate>>

\* Deviation: the suggestion is not looked at again under the lock.
DecideDuplicateUnseen(officer, r, o, expectedVersion, expectedCandidate) ==
  /\ officer \in Dispatchers
  /\ report[r] # NoReport
  /\ MayTransition(report[r], "DUPLICATE", "DISPATCHER", expectedVersion, TRUE)
  /\ candidate[r][o] # "NONE"
  /\ report' = [report EXCEPT ![r] = Transitioned(@, "DUPLICATE")]
  /\ candidate' = [candidate EXCEPT ![r][o] =
                     IF @ = "PENDING" THEN "CONFIRMED" ELSE @]
  /\ UNCHANGED <<owner, toScreen, screened, rejected>>

\* decide DUPLICATE: names the suggestion it confirms.
DecideDuplicate(officer, r, o, expectedVersion, expectedCandidate) ==
  /\ officer \in Dispatchers
  /\ report[r] # NoReport
  /\ MayTransition(report[r], "DUPLICATE", "DISPATCHER", expectedVersion, TRUE)
  /\ Unresolved(r, o, expectedCandidate)
  /\ report' = [report EXCEPT ![r] = Transitioned(@, "DUPLICATE")]
  /\ candidate' = [candidate EXCEPT ![r][o] = "CONFIRMED"]
  /\ UNCHANGED <<owner, toScreen, screened, rejected>>

\* markDuplicateFalsePositive
Override(officer, r, o, expectedCandidate) ==
  /\ officer \in Dispatchers
  /\ Awaiting(r)
  /\ Unresolved(r, o, expectedCandidate)
  /\ candidate' = [candidate EXCEPT ![r][o] = "FALSE_POSITIVE"]
  /\ UNCHANGED <<report, owner, toScreen, screened, rejected>>

-----------------------------------------------------------------------------
Handle(m) == SkipScreened(m) \/ Screen(m) \/ RejectEvent(m)

Operate(officer, r) ==
  \/ \E decision \in {"VERIFIED", "REJECTED"}, version \in 3..4,
        reason \in BOOLEAN : DecideReport(officer, r, decision, version, reason)
  \/ \E o \in Reports, version \in 3..4, expected \in 1..2 :
       \/ DecideDuplicate(officer, r, o, version, expected)
       \/ Override(officer, r, o, expected)

ReportNext ==
  \/ \E r \in Reports :
       \/ Intake(r)
       \/ \E e \in Evidence : AttachEvidence(r, e)
       \/ \E officer \in Officers : Operate(officer, r)
  \/ \E m \in toScreen \union screened : Handle(m) \/ Redeliver(m)

\* The worker keeps polling, so no event stays in the queue.
ReportFairness ==
  /\ \A r \in Reports : WF_reportVars(Handle(Received(r)))
  /\ \A r \in Reports, e \in Evidence : WF_reportVars(Handle(Linked(r, e)))

ReportSpec == ReportInit /\ [][ReportNext]_reportVars /\ ReportFairness

-----------------------------------------------------------------------------
Messages ==
  {Received(r) : r \in Reports}
    \union {Linked(r, e) : r \in Reports, e \in Evidence}
CandidateStates == {"NONE", "PENDING", "CONFIRMED", "FALSE_POSITIVE"}

\* The variables hold what the tables and the queue can.
ReportTypeOK ==
  /\ report \in [Reports -> [state : ReportStates, version : 1..4]
                              \union {NoReport}]
  /\ owner \in [Evidence -> Reports \union {NoReport}]
  /\ toScreen \subseteq Messages
  /\ screened \subseteq Messages
  /\ rejected \subseteq Messages
  /\ candidate \in [Reports -> [Reports -> CandidateStates]]

Beyond(r, states) == report[r] # NoReport /\ report[r].state \notin states
ConfirmedFor(r) == {o \in Reports : candidate[r][o] = "CONFIRMED"}

\* A report is closed as a duplicate exactly when one suggestion was
\* confirmed for it, however decisions and overrides by several dispatchers
\* and late events interleave; and what it duplicates was filed before it, so
\* that no two reports are closed as duplicates of each other.
DuplicateNamesItsOriginal ==
  \A r \in Reports :
    /\ ConfirmedFor(r) # {} <=>
         report[r] # NoReport /\ report[r].state = "DUPLICATE"
    /\ \A o, p \in ConfirmedFor(r) : o = p
    /\ \A o \in ConfirmedFor(r) : report[o] # NoReport /\ o < r

\* Every report that was accepted reaches an officer, whichever of its events
\* is handled first or rejected: again and again none is short of one, and none
\* that got there returns.
EveryReportIsQueued ==
  []<>(\A r \in Reports :
         report[r] # NoReport => Beyond(r, {"RECEIVED", "SCREENING"}))

\* As long as a report has not reached an officer, its own event waits to be
\* screened, and the limit on suggestions cannot reject it: no other event of
\* the report, handled first or rejected, uses up its way to the queue.
NoReportIsStranded ==
  \A r \in Reports :
    report[r] # NoReport /\ ~Beyond(r, {"RECEIVED", "SCREENING"}) =>
      /\ Received(r) \in toScreen \ screened
      /\ Cardinality(Found(Received(r))) <= MaxCandidates

\* What was decided about a report stands: no event that comes late, or again,
\* and no second dispatcher moves it.
VerdictIsFinal ==
  [][\A r \in Reports :
       Beyond(r, {"RECEIVED", "SCREENING", "PENDING_VERIFICATION"})
         => report'[r] = report[r]]_report

\* What a dispatcher decided about a suggestion is never asked again: neither a
\* redelivered event nor a second photograph of the same scene, linked after
\* the override, makes a resolved suggestion pending, or resolves it otherwise.
ResolutionIsFinal ==
  [][\A r, o \in Reports :
       candidate[r][o] \notin {"NONE", "PENDING"}
         => candidate'[r][o] = candidate[r][o]]_candidate

SameEvidence(r, e, o, f) == owner[e] = r /\ owner[f] = o /\ Sha[e] = Sha[f]

\* An officer is asked about two reports only if each of them owns a photograph
\* with the content of the other's, and still does when the officer answers.
SuggestionsShareEvidence ==
  \A r, o \in Reports : candidate[r][o] # "NONE" =>
    \E e, f \in Evidence : SameEvidence(r, e, o, f)

\* docs/uat/uat-scenarios.md:69 (UAT-15): a duplicate report submission is
\* flagged as a duplicate candidate.  Once every event has been handled, two
\* reports that await verification with the same evidence are a suggestion.
DuplicatesAreFlagged ==
  toScreen = {} =>
    \A r, o \in Reports : \A e, f \in Evidence :
      r # o /\ Awaiting(r) /\ Awaiting(o) /\ SameEvidence(r, e, o, f)
        /\ {Linked(r, e), Linked(o, f)} \intersect rejected = {}
        => candidate[r][o] # "NONE" \/ candidate[o][r] # "NONE"

=============================================================================
