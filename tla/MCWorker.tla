------------------------------ MODULE MCWorker ------------------------------
(***************************************************************************)
(* The two consumers of the worker process for TLC in one run: the         *)
(* screening of reports and the scanning of evidence.  They share no       *)
(* state, so each behaviour exercises the one it focuses on and leaves the *)
(* other as it started.                                                    *)
(***************************************************************************)
EXTENDS MCReportLifecycle, MCEvidencePipeline

VARIABLE focus

all == <<focus, reportVars, vars>>

Pipelines == {"reports", "evidence"}

WorkerInit == focus \in Pipelines /\ ReportInit /\ Init

Frame(pipeline) ==
  /\ focus = pipeline
  /\ UNCHANGED focus
  /\ pipeline # "reports" => UNCHANGED reportVars
  /\ pipeline # "evidence" => UNCHANGED vars

WorkerNext ==
  \/ Frame("reports") /\ ReportNext
  \/ Frame("evidence") /\ Next

\* ReportFairness and Fairness, each under its own frame: the jobs keep polling,
\* and every await of theirs ends.  A link is announced only for what the
\* sender of the report holds.
WorkerFairness ==
  /\ \A r \in Reports :
       /\ WF_all(Frame("reports") /\ Handle(Received(r)))
       /\ \A e \in Held[r] : WF_all(Frame("reports") /\ Handle(Linked(r, e)))
  /\ \A u \in Uploads : WF_all(Frame("evidence") /\ \E w \in Workers : Take(w, u))
  /\ \A w \in Workers : WF_all(Frame("evidence") /\ Work(w))

WorkerSpec == WorkerInit /\ [][WorkerNext]_all /\ WorkerFairness

=============================================================================
