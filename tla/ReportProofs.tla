----------------------------- MODULE ReportProofs -----------------------------
(***************************************************************************)
(* Safety of ReportLifecycle for every number of reports and officers,     *)
(* every set of evidence and every way the queue redelivers and reorders.  *)
(***************************************************************************)
EXTENDS ReportLifecycle, FiniteSetTheorems, TLAPS

Row == [state : ReportStates, version : 1..4]

\* Committed rows: screening is never left half way, so the version tells how
\* far a report has come.
Fits(row) ==
  \/ row.state = "RECEIVED" /\ row.version = 1
  \/ row.state = "PENDING_VERIFICATION" /\ row.version = 3
  \/ row.state \in {"VERIFIED", "REJECTED", "DUPLICATE"} /\ row.version = 4

RowsFit == \A r \in Reports : report[r] # NoReport => Fits(report[r])

\* Evidence, events and suggestions are about reports that were filed, and a
\* suggested original is older than the report it was suggested for.
OnlyFiledReports ==
  /\ \A e \in Evidence : owner[e] \in Reports => report[owner[e]] # NoReport
  /\ \A m \in toScreen \union screened : report[m.report] # NoReport
  /\ \A r, o \in Reports : candidate[r][o] # "NONE" =>
       report[r] # NoReport /\ report[o] # NoReport /\ o < r

ConfirmedInDuplicates ==
  /\ \A r, o \in Reports : candidate[r][o] = "CONFIRMED" =>
       report[r].state = "DUPLICATE"
  /\ \A r, o, p \in Reports :
       candidate[r][o] = "CONFIRMED" /\ candidate[r][p] = "CONFIRMED" => o = p
  /\ \A r \in Reports :
       report[r] # NoReport /\ report[r].state = "DUPLICATE"
         => \E o \in Reports : candidate[r][o] = "CONFIRMED"

Inv == ReportTypeOK /\ RowsFit /\ OnlyFiledReports /\ ConfirmedInDuplicates

-----------------------------------------------------------------------------
LEMMA StateNames ==
  ReportStates = {"RECEIVED", "SCREENING", "PENDING_VERIFICATION", "VERIFIED",
                  "IN_PROCESS", "RESOLVED", "CLOSED", "REJECTED", "DUPLICATE",
                  "ARCHIVED"}
BY DEF ReportStates, NextReportStates

LEMMA RowIsAReport == NoReport \notin Row
BY ReportAssumption DEF Row

\* Both steps of screening commit as one, and no other state is left.
LEMMA Advanced ==
  ASSUME NEW row \in Row, Fits(row)
  PROVE  LET new == AdvanceToPending(row)
         IN /\ new \in Row /\ Fits(new)
            /\ new.state = "DUPLICATE" <=> row.state = "DUPLICATE"
<1> USE DEF Row
<1>1. CASE row.state = "RECEIVED"
  <2> DEFINE second == row.version + 1
             once == [row EXCEPT !.state = "SCREENING", !.version = second]
             third == once.version + 1
             twice == [once EXCEPT !.state = "PENDING_VERIFICATION",
                                   !.version = third]
  <2>0. /\ second = 2 /\ second \in 1..4
        /\ "SCREENING" \in ReportStates /\ "PENDING_VERIFICATION" \in ReportStates
    BY <1>1, StateNames DEF Fits
  <2>1. once \in Row /\ once.version = 2
    <3> HIDE DEF second
    <3> QED BY <2>0
  <2>2. third = 3 /\ third \in 1..4
    <3> HIDE DEF once
    <3> QED BY <2>1
  <2>3. twice \in Row /\ twice.version = 3 /\ twice.state = "PENDING_VERIFICATION"
    <3> HIDE DEF once, third
    <3> QED BY <2>0, <2>1, <2>2
  <2>4. AdvanceToPending(row) = twice
    BY <1>1 DEF AdvanceToPending, Transitioned
  <2> QED BY <1>1, <2>3, <2>4 DEF Fits
<1>2. CASE row.state # "RECEIVED"
  <2>1. row.state # "SCREENING"
    BY <1>2 DEF Fits
  <2>2. AdvanceToPending(row) = row
    BY <1>2, <2>1 DEF AdvanceToPending
  <2> QED BY <2>2
<1> QED BY <1>1, <1>2

\* A dispatcher decides reports that await verification, and no others.
LEMMA Decided ==
  ASSUME NEW row \in Row, Fits(row), NEW version, NEW hasReason,
         NEW to \in {"VERIFIED", "REJECTED", "DUPLICATE"},
         MayTransition(row, to, "DISPATCHER", version, hasReason)
  PROVE  /\ row.state = "PENDING_VERIFICATION"
         /\ Transitioned(row, to) \in Row /\ Fits(Transitioned(row, to))
         /\ Transitioned(row, to).state = to
<1>1. to \in NextReportStates[row.state]
  BY DEF MayTransition
<1>2. row.state = "PENDING_VERIFICATION"
  BY <1>1, StateNames DEF NextReportStates, Fits
<1>3. row.version = 3
  BY <1>2 DEF Fits
<1> DEFINE next == row.version + 1
           new == [row EXCEPT !.state = to, !.version = next]
<1>4. new.state = to /\ new.version = 4 /\ new \in Row
  <2>1. next = 4 /\ next \in 1..4 /\ to \in ReportStates
    BY <1>3, StateNames
  <2> HIDE DEF next
  <2> QED BY <2>1 DEF Row
<1> QED BY <1>2, <1>4 DEF Transitioned, Fits

-----------------------------------------------------------------------------
LEMMA InitInv == ReportInit => Inv
BY ReportAssumption, StateNames
DEF ReportInit, Inv, ReportTypeOK, RowsFit, OnlyFiledReports, ConfirmedInDuplicates, Reports,
    CandidateStates

LEMMA IntakeKeepsInv ==
  ASSUME Inv, NEW r \in Reports, Intake(r)
  PROVE  Inv'
<1> DEFINE new == [state |-> "RECEIVED", version |-> 1]
<1>1. /\ new \in Row /\ Fits(new) /\ new.state = "RECEIVED"
  BY StateNames DEF Row, Fits
<1>2. new # NoReport
  BY <1>1, RowIsAReport
<1>3. /\ report' = [report EXCEPT ![r] = new] /\ report[r] = NoReport
      /\ toScreen' = toScreen \union {Received(r)}
      /\ UNCHANGED <<owner, screened, rejected, candidate>>
  BY DEF Intake
<1> HIDE DEF new
<1>4. report' \in [Reports -> Row \union {NoReport}]
  BY <1>1, <1>3 DEF Inv, ReportTypeOK, Row
<1>5. /\ report'[r] = new /\ \A q \in Reports \ {r} : report'[q] = report[q]
  BY <1>3 DEF Inv, ReportTypeOK
<1>6. Received(r) \in Messages /\ Received(r).report = r
  BY DEF Messages, Received
<1>7. ReportTypeOK'
  BY <1>3, <1>4, <1>6 DEF Inv, ReportTypeOK, Row
<1>8. RowsFit'
  BY <1>1, <1>5 DEF Inv, RowsFit
<1>9. OnlyFiledReports'
  <2>1. \A q \in Reports : report[q] # NoReport => report'[q] # NoReport
    BY <1>3, <1>5
  <2>2. \A m \in toScreen \union screened : m.report \in Reports
    BY DEF Inv, ReportTypeOK, Messages, Received, Linked
  <2> QED BY <1>2, <1>3, <1>5, <1>6, <2>1, <2>2 DEF Inv, OnlyFiledReports
<1>10. ConfirmedInDuplicates'
  BY <1>1, <1>3, <1>5 DEF Inv, ConfirmedInDuplicates, OnlyFiledReports
<1> QED BY <1>7, <1>8, <1>9, <1>10 DEF Inv

LEMMA AttachKeepsInv ==
  ASSUME Inv, NEW r \in Reports, NEW e \in Evidence, AttachEvidence(r, e)
  PROVE  Inv'
<1>1. Linked(r, e) \in Messages /\ Linked(r, e).report = r
  <2>1. Linked(r, e) \in Messages
    BY DEF Messages
  <2>2. Linked(r, e).report = r
    BY DEF Linked
  <2> QED BY <2>1, <2>2
<1> USE DEF AttachEvidence, Inv
<1>2. owner' \in [Evidence -> Reports \union {NoReport}]
  BY DEF ReportTypeOK
<1>3. ReportTypeOK'
  BY <1>1, <1>2 DEF ReportTypeOK
<1>4. \A f \in Evidence : owner'[f] = IF f = e THEN r ELSE owner[f]
  BY DEF ReportTypeOK
<1>5. OnlyFiledReports'
  BY <1>1, <1>4 DEF OnlyFiledReports
<1> QED BY <1>3, <1>5 DEF RowsFit, ConfirmedInDuplicates

-----------------------------------------------------------------------------
(***************************************************************************)
(* A report and its suggestions change together                            *)
(***************************************************************************)

\* What every transaction on a filed report r does to it and to its suggestions.
Revise(r, row, of) ==
  /\ report' = [report EXCEPT ![r] = row]
  /\ candidate' = [candidate EXCEPT ![r] = of]

\* A revision keeps the invariant if the new row fits, suggestions are about
\* older reports, and the row is DUPLICATE exactly when one is confirmed.
LEMMA RevisionKeepsInv ==
  ASSUME Inv, NEW r \in Reports, report[r] # NoReport,
         NEW row \in Row, Fits(row), NEW of \in [Reports -> CandidateStates],
         Revise(r, row, of),
         \A o \in Reports : of[o] # "NONE" => report[o] # NoReport /\ o < r,
         \A o \in Reports : of[o] = "CONFIRMED" => row.state = "DUPLICATE",
         \A o, p \in Reports : of[o] = "CONFIRMED" /\ of[p] = "CONFIRMED" => o = p,
         row.state = "DUPLICATE" => \E o \in Reports : of[o] = "CONFIRMED",
         toScreen' \subseteq toScreen \union screened,
         screened' \subseteq screened \union toScreen,
         rejected' \subseteq rejected \union toScreen, owner' = owner
  PROVE  Inv'
<1>1. row # NoReport
  BY RowIsAReport
<1>2. /\ report' \in [Reports -> Row \union {NoReport}]
      /\ report'[r] = row /\ \A q \in Reports \ {r} : report'[q] = report[q]
  BY DEF Revise, Inv, ReportTypeOK, Row
<1>3. /\ candidate' \in [Reports -> [Reports -> CandidateStates]]
      /\ candidate'[r] = of /\ \A q \in Reports \ {r} : candidate'[q] = candidate[q]
  BY DEF Revise, Inv, ReportTypeOK
<1>4. ReportTypeOK'
  BY <1>2, <1>3 DEF Inv, ReportTypeOK, Row
<1>5. RowsFit'
  BY <1>2 DEF Inv, RowsFit
<1>6. OnlyFiledReports'
  <2>1. \A q \in Reports : report[q] # NoReport => report'[q] # NoReport
    BY <1>1, <1>2
  <2>2. \A m \in toScreen \union screened : m.report \in Reports /\ report[m.report] # NoReport
    BY DEF Inv, ReportTypeOK, OnlyFiledReports, Messages, Received, Linked
  <2>3. \A m \in toScreen' \union screened' : report'[m.report] # NoReport
    BY <2>1, <2>2
  <2>4. \A e \in Evidence : owner'[e] \in Reports => report'[owner'[e]] # NoReport
    BY <2>1 DEF Inv, OnlyFiledReports
  <2>5. ASSUME NEW q \in Reports, NEW o \in Reports, candidate'[q][o] # "NONE"
        PROVE  report'[q] # NoReport /\ report'[o] # NoReport /\ o < q
    <3>1. CASE q = r
      BY <1>3, <2>1, <2>5, <3>1
    <3>2. CASE q # r
      BY <1>3, <2>1, <2>5, <3>2 DEF Inv, OnlyFiledReports
    <3> QED BY <3>1, <3>2
  <2> QED BY <2>3, <2>4, <2>5 DEF OnlyFiledReports
<1>7. ConfirmedInDuplicates'
  <2> SUFFICES ASSUME NEW q \in Reports
               PROVE  /\ \A o \in Reports : candidate'[q][o] = "CONFIRMED" =>
                           report'[q].state = "DUPLICATE"
                      /\ \A o, p \in Reports :
                           candidate'[q][o] = "CONFIRMED" /\ candidate'[q][p] = "CONFIRMED"
                             => o = p
                      /\ report'[q] # NoReport /\ report'[q].state = "DUPLICATE"
                           => \E o \in Reports : candidate'[q][o] = "CONFIRMED"
    BY DEF ConfirmedInDuplicates
  <2>1. CASE q = r
    BY <1>2, <1>3, <2>1
  <2>2. CASE q # r
    BY <1>2, <1>3, <2>2 DEF Inv, ConfirmedInDuplicates
  <2> QED BY <2>1, <2>2
<1> QED BY <1>4, <1>5, <1>6, <1>7 DEF Inv

\* Only new, pending suggestions are added, about older reports that own the
\* same evidence.
LEMMA Suggested ==
  ASSUME Inv, NEW m \in toScreen, NEW o \in Reports
  PROVE  LET of == Suggest(candidate[m.report], Found(m))
         IN /\ of \in [Reports -> CandidateStates]
            /\ of[o] = "CONFIRMED" <=> candidate[m.report][o] = "CONFIRMED"
            /\ of[o] # "NONE" => report[o] # NoReport /\ o < m.report
<1> DEFINE of == Suggest(candidate[m.report], Found(m))
<1>1. m.report \in Reports
  BY DEF Inv, ReportTypeOK, Messages, Received, Linked
<1>2. /\ of \in [Reports -> CandidateStates]
      /\ of[o] = "CONFIRMED" <=> candidate[m.report][o] = "CONFIRMED"
      /\ of[o] # "NONE" => candidate[m.report][o] # "NONE" \/ o \in Found(m)
  BY <1>1 DEF Suggest, Inv, ReportTypeOK, CandidateStates
<1>3. ASSUME o \in Found(m) PROVE report[o] # NoReport /\ o < m.report
  <2>1. PICK e \in m.evidence : o \in Matches(m.report, e)
    BY <1>3 DEF Found
  <2>2. PICK f \in Evidence : owner[f] = o /\ o \in 1..(m.report - 1)
    BY <2>1 DEF Matches
  <2>3. o < m.report
    BY <1>1, <2>2 DEF Reports
  <2> QED BY <2>2, <2>3 DEF Inv, OnlyFiledReports
<1>4. candidate[m.report][o] # "NONE" => report[o] # NoReport /\ o < m.report
  BY <1>1 DEF Inv, OnlyFiledReports
<1> QED BY <1>2, <1>3, <1>4

LEMMA ScreenKeepsInv ==
  ASSUME Inv, NEW m \in toScreen, Screen(m)
  PROVE  Inv'
<1> DEFINE r == m.report
           row == AdvanceToPending(report[r])
           of == Suggest(candidate[r], Found(m))
<1>1. r \in Reports /\ report[r] # NoReport
  BY DEF Inv, ReportTypeOK, OnlyFiledReports, Messages, Received, Linked
<1>2. report[r] \in Row /\ Fits(report[r])
  BY <1>1 DEF Inv, ReportTypeOK, RowsFit, Row
<1>3. /\ row \in Row /\ Fits(row)
      /\ row.state = "DUPLICATE" <=> report[r].state = "DUPLICATE"
  BY <1>2, Advanced
<1>4. \A o \in Reports :
        /\ of \in [Reports -> CandidateStates]
        /\ of[o] = "CONFIRMED" <=> candidate[r][o] = "CONFIRMED"
        /\ of[o] # "NONE" => report[o] # NoReport /\ o < r
  BY Suggested
<1>5. Revise(r, row, of)
  BY DEF Screen, Revise
<1>6. /\ toScreen' \subseteq toScreen \union screened
      /\ screened' \subseteq screened \union toScreen
      /\ rejected' \subseteq rejected \union toScreen /\ owner' = owner
  BY DEF Screen
<1> HIDE DEF row, of
<1>7. of \in [Reports -> CandidateStates]
  BY <1>1, <1>4
<1>8. /\ \A o \in Reports : of[o] = "CONFIRMED" => row.state = "DUPLICATE"
      /\ \A o, p \in Reports : of[o] = "CONFIRMED" /\ of[p] = "CONFIRMED" => o = p
      /\ row.state = "DUPLICATE" => \E o \in Reports : of[o] = "CONFIRMED"
  BY <1>1, <1>3, <1>4 DEF Inv, ConfirmedInDuplicates
<1> HIDE DEF r
<1> QED BY <1>1, <1>3, <1>4, <1>5, <1>6, <1>7, <1>8, RevisionKeepsInv

\* Messages come and go without a report being touched.
LEMMA QueueKeepsInv ==
  ASSUME Inv, NEW m \in toScreen \union screened,
         SkipScreened(m) \/ RejectEvent(m) \/ Redeliver(m)
  PROVE  Inv'
<1>1. /\ UNCHANGED <<report, owner, screened, candidate>>
      /\ toScreen' \subseteq toScreen \union screened
      /\ rejected' \subseteq rejected \union toScreen
  BY DEF SkipScreened, RejectEvent, Redeliver
<1> QED
  BY <1>1 DEF Inv, ReportTypeOK, RowsFit, OnlyFiledReports, ConfirmedInDuplicates

-----------------------------------------------------------------------------
\* A report that awaits verification has no confirmed suggestion yet.
LEMMA DecideKeepsInv ==
  ASSUME Inv, NEW officer, NEW r \in Reports, NEW version, NEW reason,
         NEW decision \in {"VERIFIED", "REJECTED"},
         DecideReport(officer, r, decision, version, reason)
  PROVE  Inv'
<1> DEFINE row == Transitioned(report[r], decision)
           of == candidate[r]
<1>1. report[r] # NoReport /\ report[r] \in Row /\ Fits(report[r])
  BY DEF DecideReport, Inv, ReportTypeOK, RowsFit, Row
<1>2. /\ report[r].state = "PENDING_VERIFICATION"
      /\ row \in Row /\ Fits(row) /\ row.state = decision
  BY <1>1, Decided DEF DecideReport
<1>3. /\ of \in [Reports -> CandidateStates] /\ candidate' = [candidate EXCEPT ![r] = of]
      /\ report' = [report EXCEPT ![r] = row]
  BY DEF DecideReport, Inv, ReportTypeOK
<1>4. /\ \A o \in Reports : of[o] # "NONE" => report[o] # NoReport /\ o < r
      /\ \A o \in Reports : of[o] # "CONFIRMED"
  BY <1>2 DEF Inv, OnlyFiledReports, ConfirmedInDuplicates
<1>5. UNCHANGED <<owner, toScreen, screened, rejected>>
  BY DEF DecideReport
<1> HIDE DEF row, of
<1>6. Revise(r, row, of)
  BY <1>3 DEF Revise
<1>7. row.state # "DUPLICATE"
  BY <1>2
<1> QED BY <1>1, <1>2, <1>3, <1>4, <1>5, <1>6, <1>7, RevisionKeepsInv

LEMMA DecideDuplicateKeepsInv ==
  ASSUME Inv, NEW officer, NEW r \in Reports, NEW o \in Reports, NEW version,
         NEW expected, DecideDuplicate(officer, r, o, version, expected)
  PROVE  Inv'
<1> DEFINE row == Transitioned(report[r], "DUPLICATE")
           of == [candidate[r] EXCEPT ![o] = "CONFIRMED"]
<1>1. report[r] # NoReport /\ report[r] \in Row /\ Fits(report[r])
  BY DEF DecideDuplicate, Inv, ReportTypeOK, RowsFit, Row
<1>2. /\ report[r].state = "PENDING_VERIFICATION"
      /\ row \in Row /\ Fits(row) /\ row.state = "DUPLICATE"
  BY <1>1, Decided DEF DecideDuplicate
<1>3. /\ report' = [report EXCEPT ![r] = row]
      /\ candidate' = [candidate EXCEPT ![r] = of]
  BY DEF DecideDuplicate, Inv, ReportTypeOK
<1>4. \A p \in Reports :
        /\ candidate[r][p] # "CONFIRMED"
        /\ candidate[r][p] # "NONE" => report[p] # NoReport /\ p < r
  BY <1>2 DEF Inv, OnlyFiledReports, ConfirmedInDuplicates
<1>5. /\ of \in [Reports -> CandidateStates] /\ of[o] = "CONFIRMED"
      /\ \A p \in Reports \ {o} : of[p] = candidate[r][p]
      /\ candidate[r][o] = "PENDING"
  BY DEF DecideDuplicate, Unresolved, Inv, ReportTypeOK, CandidateStates
<1>6. UNCHANGED <<owner, toScreen, screened, rejected>>
  BY DEF DecideDuplicate
<1> HIDE DEF row, of
<1>7. Revise(r, row, of)
  BY <1>3 DEF Revise
<1>8. /\ \A p \in Reports : of[p] # "NONE" => report[p] # NoReport /\ p < r
      /\ \A p, q \in Reports : of[p] = "CONFIRMED" /\ of[q] = "CONFIRMED" => p = q
      /\ \E p \in Reports : of[p] = "CONFIRMED"
  BY <1>4, <1>5
<1> QED BY <1>1, <1>2, <1>5, <1>6, <1>7, <1>8, RevisionKeepsInv

LEMMA OverrideKeepsInv ==
  ASSUME Inv, NEW officer, NEW r \in Reports, NEW o \in Reports, NEW expected,
         Override(officer, r, o, expected)
  PROVE  Inv'
<1> DEFINE row == report[r]
           of == [candidate[r] EXCEPT ![o] = "FALSE_POSITIVE"]
<1>1. /\ report[r] # NoReport /\ row \in Row /\ Fits(row)
      /\ row.state = "PENDING_VERIFICATION"
  BY DEF Override, Awaiting, Inv, ReportTypeOK, RowsFit, Row
<1>2. /\ report' = [report EXCEPT ![r] = row]
      /\ candidate' = [candidate EXCEPT ![r] = of]
  BY DEF Override, Inv, ReportTypeOK
<1>3. \A p \in Reports :
        /\ candidate[r][p] # "CONFIRMED"
        /\ candidate[r][p] # "NONE" => report[p] # NoReport /\ p < r
  BY <1>1 DEF Inv, OnlyFiledReports, ConfirmedInDuplicates
<1>4. /\ of \in [Reports -> CandidateStates] /\ of[o] = "FALSE_POSITIVE"
      /\ \A p \in Reports \ {o} : of[p] = candidate[r][p]
      /\ candidate[r][o] = "PENDING"
  BY DEF Override, Unresolved, Inv, ReportTypeOK, CandidateStates
<1>5. UNCHANGED <<owner, toScreen, screened, rejected>>
  BY DEF Override
<1> HIDE DEF row, of
<1>6. Revise(r, row, of)
  BY <1>2 DEF Revise
<1>7. \A p \in Reports :
        of[p] # "CONFIRMED" /\ (of[p] # "NONE" => report[p] # NoReport /\ p < r)
  BY <1>3, <1>4
<1> QED BY <1>1, <1>4, <1>5, <1>6, <1>7, RevisionKeepsInv

-----------------------------------------------------------------------------
LEMMA StepKeepsInv == Inv /\ [ReportNext]_reportVars => Inv'
<1> SUFFICES ASSUME Inv, [ReportNext]_reportVars PROVE Inv'
  OBVIOUS
<1>1. ASSUME NEW r \in Reports, Intake(r) PROVE Inv'
  BY <1>1, IntakeKeepsInv
<1>2. ASSUME NEW r \in Reports, NEW e \in Evidence, AttachEvidence(r, e) PROVE Inv'
  BY <1>2, AttachKeepsInv
<1>3. ASSUME NEW r \in Reports, NEW officer \in Officers, Operate(officer, r)
      PROVE  Inv'
  BY <1>3, DecideKeepsInv, DecideDuplicateKeepsInv, OverrideKeepsInv DEF Operate
<1>4. ASSUME NEW m \in toScreen \union screened, Handle(m) \/ Redeliver(m) PROVE Inv'
  <2>1. CASE Screen(m)
    BY <2>1, ScreenKeepsInv DEF Screen
  <2>2. CASE ~Screen(m)
    BY <1>4, <2>2, QueueKeepsInv DEF Handle
  <2> QED BY <2>1, <2>2
<1>5. CASE UNCHANGED reportVars
  BY <1>5 DEF reportVars, Inv, ReportTypeOK, RowsFit, OnlyFiledReports, ConfirmedInDuplicates
<1> QED BY <1>1, <1>2, <1>3, <1>4, <1>5 DEF ReportNext

LEMMA Invariance == ReportSpec => []Inv
BY InitInv, StepKeepsInv, PTL DEF ReportSpec

\* The tables and the queue hold what they can, for any number of reports.
THEOREM TypeCorrect == ReportSpec => []ReportTypeOK
<1>1. Inv => ReportTypeOK
  BY DEF Inv
<1> QED BY <1>1, Invariance, PTL

\* Reports are closed as duplicates only of one older report each, however
\* decisions, overrides and late events interleave
\* (PostgresReportOpsRepository.decide, PostgresReportScreeningCoordinator).
THEOREM DuplicatesHaveAnOriginal == ReportSpec => []DuplicateNamesItsOriginal
<1>1. Inv => DuplicateNamesItsOriginal
  BY DEF Inv, OnlyFiledReports, ConfirmedInDuplicates, DuplicateNamesItsOriginal,
         ConfirmedFor
<1> QED BY <1>1, Invariance, PTL

\* What a dispatcher decided about a suggestion stays, whatever is delivered
\* again (ON CONFLICT DO NOTHING, resolveCandidate).
THEOREM ResolutionsStay == ReportSpec => ResolutionIsFinal
<1> DEFINE Kept ==
      \A r, o \in Reports :
        candidate[r][o] \notin {"NONE", "PENDING"}
          => candidate'[r][o] = candidate[r][o]
<1>1. Inv /\ [ReportNext]_reportVars => [Kept]_candidate
  <2> SUFFICES ASSUME Inv, [ReportNext]_reportVars, candidate' # candidate PROVE Kept
    OBVIOUS
  <2>1. ASSUME NEW m \in toScreen \union screened, Handle(m) \/ Redeliver(m) PROVE Kept
    <3>1. Screen(m)
      BY <2>1 DEF Handle, SkipScreened, RejectEvent, Redeliver
    <3>2. candidate' = [candidate EXCEPT ![m.report] = Suggest(@, Found(m))]
      BY <3>1 DEF Screen
    <3> SUFFICES ASSUME NEW r \in Reports, NEW o \in Reports,
                        candidate[r][o] \notin {"NONE", "PENDING"}
                 PROVE  candidate'[r][o] = candidate[r][o]
      OBVIOUS
    <3> DEFINE of == Suggest(candidate[m.report], Found(m))
    <3>3. r = m.report => of[o] = candidate[r][o]
      BY DEF Suggest
    <3>4. candidate'[r] = IF r = m.report THEN of ELSE candidate[r]
      BY <3>2 DEF Inv, ReportTypeOK
    <3> QED BY <3>3, <3>4
  <2>2. ASSUME NEW r \in Reports, NEW officer \in Officers, Operate(officer, r)
        PROVE  Kept
    <3>1. PICK o \in Reports, to \in CandidateStates :
            /\ candidate[r][o] = "PENDING"
            /\ candidate' = [candidate EXCEPT ![r][o] = to]
      BY <2>2
      DEF Operate, DecideReport, DecideDuplicate, Override, Unresolved, CandidateStates
    <3> QED BY <3>1 DEF Inv, ReportTypeOK
  <2> QED BY <2>1, <2>2 DEF ReportNext, reportVars, Intake, AttachEvidence
<1> QED BY <1>1, Invariance, PTL DEF ReportSpec, ResolutionIsFinal

\* What was decided about a report stands (advanceToPending, decide).
THEOREM VerdictsStay == ReportSpec => VerdictIsFinal
<1> DEFINE Closed(r) == Beyond(r, {"RECEIVED", "SCREENING", "PENDING_VERIFICATION"})
           Kept == \A r \in Reports : Closed(r) => report'[r] = report[r]
<1>1. Inv /\ [ReportNext]_reportVars => [Kept]_report
  <2> SUFFICES ASSUME Inv, [ReportNext]_reportVars, report' # report,
                      NEW r \in Reports, Closed(r)
               PROVE  report'[r] = report[r]
    OBVIOUS
  <2>1. /\ report[r] # NoReport /\ report[r] \in Row /\ Fits(report[r])
        /\ report[r].state \in {"VERIFIED", "REJECTED", "DUPLICATE"}
    BY DEF Inv, ReportTypeOK, RowsFit, Row, Beyond, Fits
  <2>2. ASSUME NEW q \in Reports, Intake(q) PROVE report'[r] = report[r]
    BY <2>1, <2>2 DEF Intake, Inv, ReportTypeOK
  <2>3. ASSUME NEW m \in toScreen \union screened, Handle(m) \/ Redeliver(m)
        PROVE  report'[r] = report[r]
    <3>1. report' = [report EXCEPT ![m.report] = AdvanceToPending(@)]
      BY <2>3 DEF Handle, SkipScreened, RejectEvent, Redeliver, Screen
    <3>2. AdvanceToPending(report[r]) = report[r]
      BY <2>1 DEF AdvanceToPending
    <3> QED BY <3>1, <3>2 DEF Inv, ReportTypeOK
  <2>4. ASSUME NEW q \in Reports, NEW officer \in Officers, Operate(officer, q)
        PROVE  report'[r] = report[r]
    <3>1. PICK to \in {"VERIFIED", "REJECTED", "DUPLICATE"}, version \in 3..4,
               reason \in BOOLEAN :
            /\ MayTransition(report[q], to, "DISPATCHER", version, reason)
            /\ report' = [report EXCEPT ![q] = Transitioned(@, to)]
            /\ report[q] # NoReport
      BY <2>4 DEF Operate, DecideReport, DecideDuplicate, Override
    <3>2. report[q].state = "PENDING_VERIFICATION"
      BY <3>1, Decided DEF Inv, ReportTypeOK, RowsFit, Row
    <3> QED BY <2>1, <3>1, <3>2 DEF Inv, ReportTypeOK
  <2> QED BY <2>2, <2>3, <2>4 DEF ReportNext, reportVars, AttachEvidence
<1> QED BY <1>1, Invariance, PTL DEF ReportSpec, VerdictIsFinal

-----------------------------------------------------------------------------
(***************************************************************************)
(* The events of a report                                                  *)
(***************************************************************************)

\* A report that is RECEIVED has its own event ahead of it; an event about
\* evidence was sent by the report that owns it; and a suggestion was made for
\* what both reports own, for good.
Awaited ==
  \A r \in Reports :
    report[r] # NoReport /\ report[r].state = "RECEIVED"
      => Received(r) \in toScreen \ screened
Announced ==
  \A r \in Reports, e \in Evidence :
    Linked(r, e) \in toScreen \union screened => owner[e] = r
EventInv == Awaited /\ Announced /\ SuggestionsShareEvidence

LEMMA EventsDiffer ==
  /\ \A r, s : \A e : Received(r) # Linked(s, e)
  /\ \A r, s : Received(r) = Received(s) => r = s
  /\ \A r, s : \A e, f : Linked(r, e) = Linked(s, f) => r = s /\ e = f
<1>1. \A r, e : Received(r).type = "received" /\ Linked(r, e).type = "linked"
  BY DEF Received, Linked
<1>2. \A r, e : /\ Received(r).report = r /\ Linked(r, e).report = r
                /\ Linked(r, e).evidence = {e}
  BY DEF Received, Linked
<1>3. \A e, f : {e} = {f} => e = f
  OBVIOUS
<1> QED BY <1>1, <1>2, <1>3

\* The event of a new report suggests nothing, so it is never rejected.
LEMMA ReceivedSuggestsNothing ==
  ASSUME NEW r PROVE Found(Received(r)) = {} /\ Cardinality(Found(Received(r))) = 0
<1>1. Found(Received(r)) = {}
  BY DEF Found, Received
<1> QED BY <1>1, FS_EmptySet

LEMMA EventStep == Inv /\ EventInv /\ [ReportNext]_reportVars => EventInv'
<1> SUFFICES ASSUME Inv, EventInv, [ReportNext]_reportVars PROVE EventInv'
  OBVIOUS
<1>1. ASSUME NEW r \in Reports, Intake(r) PROVE EventInv'
  <2>1. Received(r) \notin screened
    <3>1. Received(r).report = r
      BY DEF Received
    <3> QED BY <1>1, <3>1 DEF Intake, Inv, OnlyFiledReports
  <2>2. Awaited'
    BY <1>1, <2>1, EventsDiffer DEF Intake, EventInv, Awaited, Inv, ReportTypeOK
  <2>3. Announced'
    BY <1>1, EventsDiffer DEF Intake, EventInv, Announced
  <2> QED BY <1>1, <2>2, <2>3
          DEF Intake, EventInv, SuggestionsShareEvidence, SameEvidence
<1>2. ASSUME NEW r \in Reports, NEW e \in Evidence, AttachEvidence(r, e) PROVE EventInv'
  <2>1. /\ owner[e] \notin Reports /\ owner'[e] = r
        /\ \A f \in Evidence \ {e} : owner'[f] = owner[f]
    BY <1>2, ReportAssumption DEF AttachEvidence, Inv, ReportTypeOK, Reports
  <2>2. Awaited'
    BY <1>2, EventsDiffer DEF AttachEvidence, EventInv, Awaited
  <2>3. Announced'
    BY <1>2, <2>1, EventsDiffer DEF AttachEvidence, EventInv, Announced
  <2>4. SuggestionsShareEvidence'
    BY <1>2, <2>1
    DEF AttachEvidence, EventInv, SuggestionsShareEvidence, SameEvidence
  <2> QED BY <2>2, <2>3, <2>4 DEF EventInv
<1>3. ASSUME NEW r \in Reports, NEW officer \in Officers, Operate(officer, r)
      PROVE  EventInv'
  <2>1. UNCHANGED <<owner, toScreen, screened>>
    BY <1>3 DEF Operate, DecideReport, DecideDuplicate, Override
  <2>2. Awaited'
    <3>1. ASSUME NEW to \in {"VERIFIED", "REJECTED", "DUPLICATE"},
                 NEW version, NEW reason, report[r] # NoReport,
                 MayTransition(report[r], to, "DISPATCHER", version, reason),
                 report' = [report EXCEPT ![r] = Transitioned(@, to)]
          PROVE  Awaited'
      <4>1. Transitioned(report[r], to).state = to
        BY <3>1, Decided DEF Inv, ReportTypeOK, RowsFit, Row
      <4>2. \A q \in Reports :
              report'[q] = IF q = r THEN Transitioned(report[r], to) ELSE report[q]
        BY <3>1 DEF Inv, ReportTypeOK
      <4> QED BY <2>1, <4>1, <4>2 DEF EventInv, Awaited
    <3>2. CASE report' = report
      BY <2>1, <3>2 DEF EventInv, Awaited
    <3> QED BY <1>3, <3>1, <3>2 DEF Operate, DecideReport, DecideDuplicate, Override
  <2>3. Announced'
    BY <2>1 DEF EventInv, Announced
  <2>4. SuggestionsShareEvidence'
    <3>1. \A q, o \in Reports : candidate'[q][o] # "NONE" => candidate[q][o] # "NONE"
      <4>1. CASE candidate' = candidate
        BY <4>1
      <4>2. CASE candidate' # candidate
        <5>1. PICK o \in Reports, to \in CandidateStates :
                /\ candidate[r][o] = "PENDING"
                /\ candidate' = [candidate EXCEPT ![r][o] = to]
          BY <1>3, <4>2
          DEF Operate, DecideReport, DecideDuplicate, Override, Unresolved, CandidateStates
        <5> QED BY <5>1 DEF Inv, ReportTypeOK
      <4> QED BY <4>1, <4>2
    <3> QED BY <2>1, <3>1 DEF EventInv, SuggestionsShareEvidence, SameEvidence
  <2> QED BY <2>2, <2>3, <2>4 DEF EventInv
<1>4. ASSUME NEW m \in toScreen, Screen(m) PROVE EventInv'
  <2> DEFINE q == m.report
             row == AdvanceToPending(report[q])
             of == Suggest(candidate[q], Found(m))
  <2>1. /\ q \in Reports /\ report[q] \in Row /\ Fits(report[q])
        /\ m = Received(q) \/ \E e \in Evidence : m = Linked(q, e)
    <3>1. q \in Reports /\ (m = Received(q) \/ \E e \in Evidence : m = Linked(q, e))
      BY DEF Inv, ReportTypeOK, Messages, Received, Linked
    <3> QED BY <3>1 DEF Inv, ReportTypeOK, RowsFit, OnlyFiledReports, Row
  <2>2. /\ report' = [report EXCEPT ![q] = row] /\ owner' = owner
        /\ candidate' = [candidate EXCEPT ![q] = of]
        /\ screened' = screened \union {m} /\ toScreen' = toScreen \ {m}
    BY <1>4 DEF Screen
  <2>3. row.state # "RECEIVED"
    <3>1. CASE report[q].state = "RECEIVED"
      <4> DEFINE once == Transitioned(report[q], "SCREENING")
      <4>1. once \in [state : {"SCREENING"}, version : {report[q].version + 1}]
        BY <2>1 DEF Transitioned, Row
      <4>2. row = Transitioned(once, "PENDING_VERIFICATION")
        BY <3>1 DEF AdvanceToPending
      <4> HIDE DEF once
      <4> QED BY <4>1, <4>2 DEF Transitioned
    <3>2. CASE report[q].state # "RECEIVED"
      BY <2>1, <3>2 DEF AdvanceToPending, Fits
    <3> QED BY <3>1, <3>2
  <2> HIDE DEF row, of
  <2>4. Awaited'
    BY <2>1, <2>2, <2>3, EventsDiffer DEF EventInv, Awaited, Inv, ReportTypeOK
  <2>5. Announced'
    BY <2>2 DEF EventInv, Announced
  <2>6. SuggestionsShareEvidence'
    <3> SUFFICES ASSUME NEW r \in Reports, NEW o \in Reports, candidate'[r][o] # "NONE"
                 PROVE  \E e, f \in Evidence : SameEvidence(r, e, o, f)
      BY <2>2 DEF SuggestionsShareEvidence, SameEvidence
    <3>1. CASE candidate[r][o] # "NONE"
      BY <3>1 DEF EventInv, SuggestionsShareEvidence
    <3>2. CASE candidate[r][o] = "NONE"
      <4>1. r = q /\ of[o] # "NONE"
        BY <2>1, <2>2, <3>2 DEF Inv, ReportTypeOK
      <4>2. o \in Found(m)
        BY <3>2, <4>1 DEF of, Suggest
      <4>3. PICK e \in m.evidence : o \in Matches(q, e)
        BY <4>2 DEF Found
      <4>4. m = Linked(q, e) /\ e \in Evidence
        BY <2>1, <4>3 DEF Received, Linked
      <4>5. owner[e] = q
        BY <2>1, <4>4 DEF EventInv, Announced
      <4>6. PICK f \in Evidence : owner[f] = o /\ Sha[f] = Sha[e]
        BY <4>3 DEF Matches
      <4> QED BY <4>1, <4>4, <4>5, <4>6 DEF SameEvidence
    <3> QED BY <3>1, <3>2
  <2> QED BY <2>4, <2>5, <2>6 DEF EventInv
<1>5. ASSUME NEW m \in toScreen \union screened,
             SkipScreened(m) \/ RejectEvent(m) \/ Redeliver(m)
      PROVE  EventInv'
  <2>1. UNCHANGED <<report, owner, screened, candidate>>
        /\ toScreen' \subseteq toScreen \union screened
    BY <1>5 DEF SkipScreened, RejectEvent, Redeliver
  <2>2. \A r \in Reports : Received(r) \in toScreen \ screened => Received(r) \in toScreen'
    BY <1>5, ReceivedSuggestsNothing, ReportAssumption
    DEF SkipScreened, RejectEvent, Redeliver
  <2> QED BY <2>1, <2>2
          DEF EventInv, Awaited, Announced, SuggestionsShareEvidence, SameEvidence
<1>6. CASE UNCHANGED reportVars
  BY <1>6 DEF reportVars, EventInv, Awaited, Announced, SuggestionsShareEvidence, SameEvidence
<1> QED BY <1>1, <1>2, <1>3, <1>4, <1>5, <1>6 DEF ReportNext, Handle, Screen

LEMMA EventInvariance == ReportSpec => []EventInv
<1>1. ReportInit => EventInv
  BY ReportAssumption
  DEF ReportInit, EventInv, Awaited, Announced, SuggestionsShareEvidence
<1> QED BY <1>1, Invariance, EventStep, PTL DEF ReportSpec

\* A report the intake accepted always has a way to an officer's queue: its
\* event is neither lost, nor used up by another event of the report, nor
\* rejected (accept, PostgresReportScreeningCoordinator.process).
THEOREM NobodyIsStranded == ReportSpec => []NoReportIsStranded
<1>1. Inv /\ EventInv => NoReportIsStranded
  BY ReceivedSuggestsNothing, ReportAssumption
  DEF Inv, RowsFit, Fits, EventInv, Awaited, NoReportIsStranded, Beyond
<1> QED BY <1>1, Invariance, EventInvariance, PTL

\* A suggestion is about evidence that both reports own, and goes on owning
\* (createExactHashCandidates, attach_ready_to_report).
THEOREM SuggestionsAreFounded == ReportSpec => []SuggestionsShareEvidence
<1>1. EventInv => SuggestionsShareEvidence
  BY DEF EventInv
<1> QED BY <1>1, EventInvariance, PTL

=============================================================================
