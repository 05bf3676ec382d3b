---------------------------- MODULE EvidenceProofs ----------------------------
(***************************************************************************)
(* Safety of EvidencePipeline for any number of uploads, finalize calls,   *)
(* workers, builds and faults.  The argument: a worker only ever stores    *)
(* the copy it has examined; sha256 makes all copies that pass for one     *)
(* upload the same bytes; and what is stored or decided is not changed.    *)
(***************************************************************************)
EXTENDS EvidencePipeline, TLAPS

Row == [state : States, declared : Requests, reason : Outcomes]
Sent == [bytes : Contents, type : AllowedMimes]
Object == [bytes : Contents, build : {Build[w] : w \in Workers} \union {NoObject}]
Job ==
  [upload : Uploads, step : Steps, bytes : Sent \union {NoObject},
   outcome : Outcomes, connected : BOOLEAN]

Typed ==
  /\ row \in [Uploads -> Row \union {NoUpload}]
  /\ quarantine \in [Uploads -> Sent \union {NoObject}]
  /\ sent \in [Uploads -> SUBSET Sent]
  /\ call \in [Calls -> [upload : Uploads, step : {"inspect", "commit"}]
                          \union {Idle}]
  /\ queue \in [Uploads -> Nat]
  /\ job \in [Workers -> Job \union {Idle}]
  /\ stored \in [Buckets -> [Uploads -> Object \union {NoObject}]]

\* The upload's scan was asked for.
Asked(u) == row[u] # NoUpload /\ row[u].state # "INITIATED"

\* The bytes are clean and what was declared.
Good(bytes, declared) ==
  /\ bytes \in Contents
  /\ bytes.clean
  /\ [sha256 |-> bytes.sha256, mime |-> bytes.mime, size |-> bytes.size] = declared

\* Scans are asked for uploads that have an object in quarantine.
ObjectsArrived ==
  /\ \A u \in Uploads : queue[u] > 0 => Asked(u)
  /\ \A u \in Uploads : Asked(u) => quarantine[u] # NoObject
  /\ \A u \in Uploads : quarantine[u] # NoObject => quarantine[u] \in sent[u]
  /\ \A c \in Calls : call[c] # Idle =>
       /\ row[call[c].upload] # NoUpload
       /\ call[c].step = "commit" => quarantine[call[c].upload] # NoObject

StoredIsGood ==
  \A b \in Buckets, u \in Uploads : stored[b][u] # NoObject =>
    row[u] # NoUpload /\ Good(stored[b][u].bytes, row[u].declared)

\* What was sent for a declaration deserves this reason.
Deserved(reason, objects, declared) ==
  \/ reason = "IMMUTABLE_OBJECT_CONFLICT"
  \/ reason # "READY" /\ \E o \in objects : reason = Verdict(o, declared)

DecisionsAreJust ==
  \A u \in Uploads : row[u] # NoUpload =>
    /\ row[u].state = "READY" => \A b \in Buckets : stored[b][u] # NoObject
    /\ row[u].state = "REJECTED" => 
         Deserved(row[u].reason, sent[u], row[u].declared)

\* What a worker is about to do is backed by what it has seen and stored.
JobIsJust(w) ==
  job[w] # Idle =>
    LET j == job[w]
        u == job[w].upload
    IN /\ Asked(u)
       /\ j.step \in {"load", "examine"} => j.outcome = "NONE"
       /\ j.step \in {"derivative", "original"} =>
            /\ j.outcome = "READY"
            /\ j.bytes \in Sent
            /\ Good(j.bytes.bytes, row[u].declared)
       /\ j.step = "original" => stored["derivative"][u] # NoObject
       /\ j.step = "complete" =>
            \/ j.outcome = "NONE" /\ Decided(u)
            \/ j.outcome = "READY" /\ \A b \in Buckets : stored[b][u] # NoObject
            \/ Deserved(j.outcome, sent[u], row[u].declared)

Inv ==
  /\ Typed /\ ObjectsArrived /\ StoredIsGood /\ DecisionsAreJust
  /\ \A w \in Workers : JobIsJust(w)

-----------------------------------------------------------------------------
\* What passes for READY is clean and as declared.
LEMMA VerdictIsGood ==
  ASSUME NEW object \in Sent \union {NoObject}, NEW declared \in Requests,
         Verdict(object, declared) = "READY"
  PROVE  /\ object \in Sent
         /\ object.bytes.clean
         /\ [sha256 |-> object.bytes.sha256, mime |-> object.bytes.mime,
             size |-> object.bytes.size] = declared
<1>1. object # NoObject /\ object.bytes.size = declared.size
  BY DEF Verdict
<1>2. /\ object.bytes.sha256 = declared.sha256 /\ object.bytes.mime = declared.mime
      /\ object.bytes.clean
  BY <1>1 DEF Verdict
<1>3. declared = [sha256 |-> declared.sha256, mime |-> declared.mime,
                  size |-> declared.size]
  BY EvidenceAssumption
<1> QED BY <1>1, <1>2, <1>3

LEMMA VerdictIsAnOutcome ==
  ASSUME NEW object, NEW declared
  PROVE  Verdict(object, declared) \in Outcomes \ {"IMMUTABLE_OBJECT_CONFLICT"}
<1>1. CASE object = NoObject
  BY <1>1 DEF Verdict, Outcomes
<1>2. CASE object # NoObject /\ object.bytes.size # declared.size
  BY <1>2 DEF Verdict, Outcomes
<1>3. CASE object # NoObject /\ object.bytes.size = declared.size
  BY <1>3 DEF Verdict, Outcomes
<1> QED BY <1>1, <1>2, <1>3

LEMMA InitInv == Init => Inv
<1> SUFFICES ASSUME Init PROVE Inv
  OBVIOUS
<1>1. Typed
  BY DEF Init, Typed
<1>2. \A b \in Buckets, u \in Uploads : stored[b][u] = NoObject
  BY DEF Init
<1> QED
  BY <1>1, <1>2 DEF Init, Inv, ObjectsArrived, StoredIsGood, DecisionsAreJust, Asked,
                    JobIsJust

-----------------------------------------------------------------------------
(***************************************************************************)
(* What no step takes back                                                 *)
(***************************************************************************)

Grows ==
  /\ \A u \in Uploads : row[u] # NoUpload =>
       /\ row'[u] # NoUpload /\ row'[u].declared = row[u].declared
       /\ row[u].state # "INITIATED" => row'[u].state # "INITIATED"
       /\ row[u].state \in {"READY", "REJECTED"} => row'[u] = row[u]
  /\ \A u \in Uploads : sent[u] \subseteq sent'[u]
  /\ \A u \in Uploads : quarantine[u] # NoObject => quarantine'[u] # NoObject
  /\ \A b \in Buckets, u \in Uploads :
       stored[b][u] # NoObject => stored'[b][u] = stored[b][u]

\* A job that does not move stays backed.
LEMMA JobStaysJust ==
  ASSUME Inv, Grows, NEW w \in Workers, job'[w] = job[w]
  PROVE  JobIsJust(w)'
<1> SUFFICES ASSUME job[w] # Idle PROVE JobIsJust(w)'
  BY DEF JobIsJust
<1> DEFINE j == job[w]
           u == j.upload
<1>1. /\ u \in Uploads /\ row[u] # NoUpload /\ row[u].state # "INITIATED"
      /\ j.step \in {"load", "examine"} => j.outcome = "NONE"
      /\ j.step \in {"derivative", "original"} =>
           /\ j.outcome = "READY" /\ j.bytes \in Sent
           /\ Good(j.bytes.bytes, row[u].declared)
      /\ j.step = "original" => stored["derivative"][u] # NoObject
      /\ j.step = "complete" =>
           \/ j.outcome = "NONE" /\ row[u].state \in {"READY", "REJECTED"}
           \/ j.outcome = "READY" /\ \A b \in Buckets : stored[b][u] # NoObject
           \/ Deserved(j.outcome, sent[u], row[u].declared)
  BY DEF Inv, Typed, Job, JobIsJust, Asked, Decided, State
<1>2. /\ row'[u] # NoUpload /\ row'[u].declared = row[u].declared
      /\ row'[u].state # "INITIATED"
      /\ row[u].state \in {"READY", "REJECTED"} => row'[u] = row[u]
      /\ \A b \in Buckets : stored[b][u] # NoObject => stored'[b][u] # NoObject
      /\ "derivative" \in Buckets
  BY <1>1 DEF Grows, Buckets
<1>3. Deserved(j.outcome, sent[u], row[u].declared)
        => Deserved(j.outcome, sent'[u], row[u].declared)
  BY <1>1 DEF Grows, Deserved
<1> HIDE DEF u
<1>4. job'[w] = j /\ job'[w].upload = u
  BY DEF u
<1> HIDE DEF j
<1> QED BY <1>1, <1>2, <1>3, <1>4 DEF JobIsJust, Asked, Decided, State

\* Uploaders and the API: nothing is stored or decided.
LEMMA ApiKeepsInv ==
  ASSUME Inv, Typed', Grows, UNCHANGED <<job, stored>>,
         \A u \in Uploads :
           \/ row'[u] = row[u]
           \/ row'[u] # NoUpload /\ row'[u].state \in {"INITIATED", "SCAN_PENDING"},
         ObjectsArrived'
  PROVE  Inv'
<1>1. \A w \in Workers : JobIsJust(w)'
  BY JobStaysJust
<1>2. StoredIsGood'
  BY DEF Inv, StoredIsGood, Grows
<1>3. DecisionsAreJust'
  <2> SUFFICES ASSUME NEW u \in Uploads, row'[u] # NoUpload
               PROVE  /\ row'[u].state = "READY" =>
                           \A b \in Buckets : stored'[b][u] # NoObject
                      /\ row'[u].state = "REJECTED" =>
                           Deserved(row'[u].reason, sent'[u], row'[u].declared)
    BY DEF DecisionsAreJust
  <2>1. CASE row'[u] = row[u]
    BY <2>1 DEF Inv, DecisionsAreJust, Deserved, Grows
  <2>2. CASE row'[u].state \in {"INITIATED", "SCAN_PENDING"}
    BY <2>2
  <2> QED BY <2>1, <2>2
<1> QED BY <1>1, <1>2, <1>3 DEF Inv

LEMMA UploaderKeepsInv ==
  ASSUME Inv, NEW u \in Uploads, Uploader(u)
  PROVE  Inv' /\ Grows
<1>1. CASE \E k \in Keys, request \in Requests : Initiate(u, k, request)
  <2>1. PICK request \in Requests :
          /\ row[u] = NoUpload
          /\ row' = [row EXCEPT ![u] =
               [state |-> "INITIATED", declared |-> request, reason |-> "NONE"]]
          /\ UNCHANGED <<quarantine, sent, call, queue, job, stored>>
    BY <1>1 DEF Initiate, workerVars
  <2> DEFINE new == [state |-> "INITIATED", declared |-> request, reason |-> "NONE"]
  <2>2. new \in Row /\ new # NoUpload /\ new.state = "INITIATED"
    BY EvidenceAssumption DEF Row, States, Outcomes
  <2>3. row' = [row EXCEPT ![u] = new]
    BY <2>1
  <2> HIDE DEF new
  <2>4. /\ row' \in [Uploads -> Row \union {NoUpload}]
        /\ row'[u] = new /\ \A v \in Uploads \ {u} : row'[v] = row[v]
    BY <2>2, <2>3 DEF Inv, Typed
  <2>5. Typed' /\ Grows
    BY <2>1, <2>4 DEF Inv, Typed, Grows
  <2>6. ObjectsArrived'
    BY <2>1, <2>2, <2>4 DEF Inv, Typed, ObjectsArrived, Asked
  <2> QED BY <2>1, <2>2, <2>4, <2>5, <2>6, ApiKeepsInv
<1>2. CASE \E bytes \in Contents, type \in AllowedMimes : Put(u, bytes, type)
  <2>1. PICK bytes \in Contents, type \in AllowedMimes : Put(u, bytes, type)
    BY <1>2
  <2> DEFINE new == [bytes |-> bytes, type |-> type]
  <2>2. /\ quarantine' = [quarantine EXCEPT ![u] = new]
        /\ sent' = [sent EXCEPT ![u] = @ \union {new}]
        /\ UNCHANGED <<row, call, queue, job, stored>>
    BY <2>1 DEF Put, workerVars
  <2>3. new \in Sent /\ new # NoObject
    BY EvidenceAssumption DEF Sent
  <2> HIDE DEF new
  <2>4. /\ quarantine' \in [Uploads -> Sent \union {NoObject}]
        /\ sent' \in [Uploads -> SUBSET Sent]
        /\ quarantine'[u] = new /\ new \in sent'[u] /\ sent[u] \subseteq sent'[u]
        /\ \A v \in Uploads \ {u} : quarantine'[v] = quarantine[v] /\ sent'[v] = sent[v]
    BY <2>2, <2>3 DEF Inv, Typed
  <2>5. Typed' /\ Grows
    BY <2>2, <2>3, <2>4 DEF Inv, Typed, Grows
  <2>6. ObjectsArrived'
    BY <2>2, <2>3, <2>4 DEF Inv, Typed, ObjectsArrived, Asked
  <2> QED BY <2>2, <2>5, <2>6, ApiKeepsInv
<1>3. CASE Expire(u)
  <2>1. UNCHANGED <<row, quarantine, sent, call, queue, job, stored>>
    BY <1>3 DEF Expire, workerVars
  <2>2. Typed' /\ Grows /\ ObjectsArrived'
    BY <2>1 DEF Inv, Typed, Grows, ObjectsArrived, Asked
  <2> QED BY <2>1, <2>2, ApiKeepsInv
<1> QED BY <1>1, <1>2, <1>3 DEF Uploader

LEMMA FinalizeKeepsInv ==
  ASSUME Inv, NEW c \in Calls, Finalize(c)
  PROVE  Inv' /\ Grows
<1>1. CASE \E u \in Uploads : BeginFinalize(c, u)
  <2>1. PICK u \in Uploads : BeginFinalize(c, u)
    BY <1>1
  <2> DEFINE step == IF State(u) = "INITIATED" THEN "inspect" ELSE "commit"
             new == [upload |-> u, step |-> step]
  <2>2. /\ row[u] # NoUpload /\ call' = [call EXCEPT ![c] = new]
        /\ UNCHANGED <<row, quarantine, sent, queue, job, stored>>
    BY <2>1 DEF BeginFinalize, workerVars
  <2>3. step \in {"inspect", "commit"} /\ (step = "commit" => quarantine[u] # NoObject)
    BY <2>2 DEF State, Inv, ObjectsArrived, Asked
  <2> HIDE DEF step
  <2>4. new \in [upload : Uploads, step : {"inspect", "commit"}]
        /\ new.upload = u /\ new.step = step
    BY <2>3
  <2> HIDE DEF new
  <2>5. Typed' /\ Grows
    BY <2>2, <2>4 DEF Inv, Typed, Grows
  <2>6. call'[c] = new /\ \A d \in Calls \ {c} : call'[d] = call[d]
    BY <2>2 DEF Inv, Typed
  <2>7. ObjectsArrived'
    BY <2>2, <2>3, <2>4, <2>6 DEF Inv, ObjectsArrived, Asked
  <2> QED BY <2>2, <2>5, <2>7, ApiKeepsInv
<1>2. CASE Inspect(c)
  <2> DEFINE old == call[c]
             new == [old EXCEPT !.step = "commit"]
  <2>1. /\ old # Idle /\ old \in [upload : Uploads, step : {"inspect", "commit"}]
        /\ row[old.upload] # NoUpload
        /\ UNCHANGED <<row, quarantine, sent, queue, job, stored>>
        /\ \/ call' = [call EXCEPT ![c] = Idle]
           \/ call' = [call EXCEPT ![c] = new] /\ quarantine[old.upload] # NoObject
    BY <1>2 DEF Inspect, workerVars, LooksAsDeclared, Inv, Typed, ObjectsArrived
  <2>2. /\ new \in [upload : Uploads, step : {"inspect", "commit"}]
        /\ new.upload = old.upload
    BY <2>1
  <2> HIDE DEF new, old
  <2>3. Typed' /\ Grows
    BY <2>1, <2>2 DEF Inv, Typed, Grows
  <2>4. /\ \A d \in Calls \ {c} : call'[d] = call[d]
        /\ \/ call'[c] = Idle
           \/ call'[c] = new /\ quarantine[old.upload] # NoObject
    BY <2>1 DEF Inv, Typed
  <2>5. ObjectsArrived'
    BY <2>1, <2>2, <2>4 DEF Inv, ObjectsArrived, Asked
  <2> QED BY <2>1, <2>3, <2>5, ApiKeepsInv
<1>3. CASE CommitFinalize(c)
  <2> DEFINE u == call[c].upload
  <2>1. /\ call[c] # Idle /\ u \in Uploads /\ row[u] # NoUpload
        /\ quarantine[u] # NoObject
        /\ call' = [call EXCEPT ![c] = Idle]
        /\ UNCHANGED <<quarantine, sent, job, stored>>
    BY <1>3 DEF CommitFinalize, workerVars, Inv, Typed, ObjectsArrived
  <2>2. CASE State(u) # "INITIATED"
    <3>1. UNCHANGED <<row, queue>>
      BY <1>3, <2>2 DEF CommitFinalize
    <3>2. Typed' /\ Grows
      BY <2>1, <3>1 DEF Inv, Typed, Grows
    <3>3. ObjectsArrived'
      BY <2>1, <3>1 DEF Inv, Typed, ObjectsArrived, Asked
    <3> QED BY <2>1, <3>1, <3>2, <3>3, ApiKeepsInv
  <2>3. CASE State(u) = "INITIATED"
    <3> DEFINE old == row[u]
               new == [old EXCEPT !.state = "SCAN_PENDING"]
    <3>1. /\ row' = [row EXCEPT ![u] = new]
          /\ queue' = [queue EXCEPT ![u] = @ + 1]
          /\ old.state = "INITIATED" /\ old \in Row
      BY <1>3, <2>1, <2>3 DEF CommitFinalize, State, Inv, Typed
    <3> HIDE DEF u, old
    <3>2. new \in Row /\ new.declared = old.declared /\ new.state = "SCAN_PENDING"
      BY <3>1 DEF Row, States
    <3>3. new # NoUpload
      BY <3>2, EvidenceAssumption DEF Row
    <3> HIDE DEF new
    <3>4. /\ row' \in [Uploads -> Row \union {NoUpload}]
          /\ row'[u] = new /\ \A v \in Uploads \ {u} : row'[v] = row[v]
      BY <2>1, <3>1, <3>2 DEF Inv, Typed
    <3>5. /\ queue' \in [Uploads -> Nat]
          /\ \A v \in Uploads \ {u} : queue'[v] = queue[v]
      BY <2>1, <3>1 DEF Inv, Typed
    <3>6. Typed'
      BY <2>1, <3>4, <3>5 DEF Inv, Typed
    <3>7. Grows
      BY <2>1, <3>1, <3>2, <3>3, <3>4 DEF Grows, old
    <3>8. ObjectsArrived'
      <4>1. \A v \in Uploads : v = u => Asked(v)'
        BY <3>2, <3>3, <3>4 DEF Asked
      <4>2. \A v \in Uploads : v # u => (Asked(v)' <=> Asked(v))
        BY <3>4 DEF Asked
      <4>3. \A v \in Uploads : row[v] # NoUpload => row'[v] # NoUpload
        BY <3>3, <3>4
      <4>4. /\ \A d \in Calls \ {c} : call'[d] = call[d]
            /\ call'[c] = Idle
            /\ \A d \in Calls : call[d] # Idle => call[d].upload \in Uploads
        BY <2>1 DEF Inv, Typed
      <4>5. \A v \in Uploads : v = u => quarantine'[v] # NoObject
        BY <2>1
      <4>6. \A v \in Uploads :
              /\ queue'[v] > 0 => Asked(v)'
              /\ Asked(v)' => quarantine'[v] # NoObject
              /\ quarantine'[v] # NoObject => quarantine'[v] \in sent'[v]
        BY <2>1, <3>5, <4>1, <4>2, <4>5 DEF Inv, ObjectsArrived
      <4>7. \A d \in Calls : call'[d] # Idle =>
              /\ row'[call'[d].upload] # NoUpload
              /\ call'[d].step = "commit" => quarantine'[call'[d].upload] # NoObject
        BY <2>1, <4>3, <4>4 DEF Inv, ObjectsArrived
      <4> QED BY <4>6, <4>7 DEF ObjectsArrived
    <3> QED BY <2>1, <3>2, <3>3, <3>4, <3>6, <3>7, <3>8, ApiKeepsInv
  <2> QED BY <2>2, <2>3
<1> QED BY <1>1, <1>2, <1>3 DEF Finalize

-----------------------------------------------------------------------------
(***************************************************************************)
(* The workers                                                             *)
(***************************************************************************)

\* A worker goes on and scans are asked for again; rows and objects stay.
LEMMA JobKeepsInv ==
  ASSUME Inv, NEW w, job' \in [Workers -> Job \union {Idle}],
         \A v \in Workers \ {w} : job'[v] = job[v],
         w \in Workers => JobIsJust(w)',
         queue' \in [Uploads -> Nat],
         \A u \in Uploads : queue'[u] > 0 => Asked(u),
         UNCHANGED <<row, quarantine, sent, call, stored>>
  PROVE  Inv' /\ Grows
<1>1. Typed' /\ Grows
  BY DEF Inv, Typed, Grows
<1>2. ObjectsArrived' /\ StoredIsGood' /\ DecisionsAreJust'
  BY DEF Inv, ObjectsArrived, StoredIsGood, DecisionsAreJust, Asked
<1>3. ASSUME NEW v \in Workers PROVE JobIsJust(v)'
  <2>1. CASE v = w
    BY <2>1
  <2>2. CASE v # w
    BY <1>1, <2>2, JobStaysJust
  <2> QED BY <2>1, <2>2
<1> QED BY <1>1, <1>2, <1>3 DEF Inv

\* What a worker's job stands on.
LEMMA JobFacts ==
  ASSUME Inv, NEW w \in Workers, job[w] # Idle
  PROVE  LET j == job[w]
             u == job[w].upload
         IN /\ j \in Job /\ u \in Uploads
            /\ row[u] # NoUpload /\ row[u].state # "INITIATED" /\ row[u] \in Row
            /\ quarantine[u] \in sent[u] /\ quarantine[u] \in Sent
            /\ quarantine[u] # NoObject
BY DEF Inv, Typed, ObjectsArrived, JobIsJust, Asked, Job

LEMMA TakeKeepsInv ==
  ASSUME Inv, NEW w \in Workers, NEW u \in Uploads, Take(w, u)
  PROVE  Inv' /\ Grows
<1> DEFINE new == [upload |-> u, step |-> "load", bytes |-> NoObject,
                   outcome |-> "NONE", connected |-> TRUE]
<1>1. /\ queue[u] > 0 /\ queue' = [queue EXCEPT ![u] = @ - 1]
      /\ job' = [job EXCEPT ![w] = new]
      /\ UNCHANGED <<row, quarantine, sent, call, stored>>
  BY DEF Take, apiVars
<1>2. /\ new \in Job /\ new.step = "load" /\ new.upload = u /\ new.outcome = "NONE"
  BY DEF Job, Steps, Outcomes
<1> HIDE DEF new
<1>3. /\ job' \in [Workers -> Job \union {Idle}] /\ job'[w] = new
      /\ \A v \in Workers \ {w} : job'[v] = job[v]
  BY <1>1, <1>2 DEF Inv, Typed
<1>4. /\ queue' \in [Uploads -> Nat]
      /\ \A v \in Uploads : queue'[v] > 0 => Asked(v)
  BY <1>1 DEF Inv, Typed, ObjectsArrived
<1>5. JobIsJust(w)'
  BY <1>1, <1>2, <1>3 DEF JobIsJust, Asked, Inv, ObjectsArrived
<1> QED BY <1>1, <1>3, <1>4, <1>5, JobKeepsInv

LEMMA LoadKeepsInv ==
  ASSUME Inv, NEW w \in Workers, Load(w)
  PROVE  Inv' /\ Grows
<1> DEFINE j == job[w]
           u == j.upload
           step == IF State(u) = "SCAN_PENDING" THEN "examine" ELSE "complete"
           new == [j EXCEPT !.step = step]
<1>1. /\ j # Idle /\ j.step = "load" /\ job' = [job EXCEPT ![w] = new]
      /\ UNCHANGED <<row, quarantine, sent, call, stored, queue>>
  BY DEF Load, At, apiVars
<1>2. /\ j \in Job /\ u \in Uploads /\ Asked(u) /\ j.outcome = "NONE"
      /\ row[u] \in Row
  BY <1>1, JobFacts DEF Inv, JobIsJust, Asked
<1>3. step \in {"examine", "complete"} /\ (step = "complete" => Decided(u))
  BY <1>2 DEF Asked, Decided, State, Row, States
<1> HIDE DEF step, u
<1>4. new \in Job /\ new.step = step /\ new.upload = j.upload /\ new.outcome = "NONE"
  BY <1>2, <1>3 DEF Job, Steps
<1> HIDE DEF new, j
<1>5. /\ job' \in [Workers -> Job \union {Idle}] /\ job'[w] = new
      /\ \A v \in Workers \ {w} : job'[v] = job[v]
  BY <1>1, <1>4 DEF Inv, Typed
<1>6. /\ \A v \in Uploads : Asked(v)' <=> Asked(v)
      /\ \A v \in Uploads : Decided(v)' <=> Decided(v)
  BY <1>1 DEF Asked, Decided, State
<1>7. JobIsJust(w)'
  BY <1>2, <1>3, <1>4, <1>5, <1>6 DEF JobIsJust, u
<1> QED BY <1>1, <1>5, <1>7, JobKeepsInv DEF Inv, Typed, ObjectsArrived

LEMMA ExamineKeepsInv ==
  ASSUME Inv, NEW w \in Workers, Examine(w)
  PROVE  Inv' /\ Grows
<1> DEFINE j == job[w]
           u == j.upload
           object == quarantine[u]
           outcome == Verdict(object, row[u].declared)
           step == IF outcome = "READY" THEN "derivative" ELSE "complete"
           new == [j EXCEPT !.bytes = object, !.outcome = outcome, !.step = step]
<1>1. /\ j # Idle /\ job' = [job EXCEPT ![w] = new]
      /\ UNCHANGED <<row, quarantine, sent, call, stored, queue>>
  BY DEF Examine, At, apiVars
<1>2. /\ j \in Job /\ u \in Uploads /\ Asked(u) /\ row[u] \in Row
      /\ object \in sent[u] /\ object \in Sent
  BY <1>1, JobFacts DEF Asked
<1>3. /\ outcome \in Outcomes /\ step \in {"derivative", "complete"}
      /\ outcome = "READY" => Good(object.bytes, row[u].declared)
      /\ outcome # "READY" => Deserved(outcome, sent[u], row[u].declared)
      /\ step = "derivative" <=> outcome = "READY"
  <2>1. row[u].declared \in Requests
    BY <1>2 DEF Row
  <2>2. outcome \in Outcomes
    BY VerdictIsAnOutcome
  <2>3. outcome = "READY" => Good(object.bytes, row[u].declared)
    <3> SUFFICES ASSUME outcome = "READY" PROVE Good(object.bytes, row[u].declared)
      OBVIOUS
    <3>1. object.bytes \in Contents
      BY <1>2 DEF Sent
    <3> HIDE DEF object
    <3> QED BY <1>2, <2>1, <3>1, VerdictIsGood DEF Good
  <2>4. outcome # "READY" => Deserved(outcome, sent[u], row[u].declared)
    BY <1>2 DEF Deserved
  <2> QED BY <2>2, <2>3, <2>4
<1> HIDE DEF step, outcome, object, u
<1>4. /\ new \in Job /\ new.step = step /\ new.upload = j.upload
      /\ new.outcome = outcome /\ new.bytes = object
  BY <1>2, <1>3 DEF Job, Steps
<1> HIDE DEF new, j
<1>5. /\ job' \in [Workers -> Job \union {Idle}] /\ job'[w] = new
      /\ \A v \in Workers \ {w} : job'[v] = job[v]
  BY <1>1, <1>4 DEF Inv, Typed
<1>6. \A v \in Uploads : Asked(v)' <=> Asked(v)
  BY <1>1 DEF Asked
<1>7. JobIsJust(w)'
  BY <1>1, <1>2, <1>3, <1>4, <1>5, <1>6 DEF JobIsJust, u
<1> QED BY <1>1, <1>5, <1>7, JobKeepsInv DEF Inv, Typed, ObjectsArrived

\* A job ends, and the scan is asked for again or not.
LEMMA EndKeepsInv ==
  ASSUME Inv, NEW w \in Workers, job[w] # Idle, EndJob(w),
         \/ queue' = queue
         \/ queue' = [queue EXCEPT ![job[w].upload] = @ + 1],
         UNCHANGED <<row, quarantine, sent, call, stored>>
  PROVE  Inv' /\ Grows
<1>1. /\ job' \in [Workers -> Job \union {Idle}] /\ job'[w] = Idle
      /\ \A v \in Workers \ {w} : job'[v] = job[v]
  BY DEF EndJob, Inv, Typed
<1>2. Asked(job[w].upload) /\ job[w].upload \in Uploads
  BY JobFacts DEF Asked
<1>3. /\ queue' \in [Uploads -> Nat]
      /\ \A v \in Uploads : queue'[v] > 0 => Asked(v)
  <2>1. CASE queue' = queue
    BY <2>1 DEF Inv, Typed, ObjectsArrived
  <2>2. CASE queue' = [queue EXCEPT ![job[w].upload] = @ + 1]
    BY <1>2, <2>2 DEF Inv, Typed, ObjectsArrived
  <2> QED BY <2>1, <2>2
<1>4. JobIsJust(w)'
  BY <1>1 DEF JobIsJust
<1> QED BY <1>1, <1>3, <1>4, JobKeepsInv

LEMMA LoseSessionKeepsInv ==
  ASSUME Inv, NEW w \in Workers, LoseSession(w)
  PROVE  Inv' /\ Grows
<1> DEFINE j == job[w]
           new == [j EXCEPT !.connected = FALSE]
<1>1. /\ j # Idle /\ job' = [job EXCEPT ![w] = new] /\ j \in Job
      /\ UNCHANGED <<row, quarantine, sent, call, stored, queue>>
  BY JobFacts DEF LoseSession, apiVars
<1>2. /\ new \in Job /\ new.step = j.step /\ new.upload = j.upload
      /\ new.outcome = j.outcome /\ new.bytes = j.bytes
  BY <1>1 DEF Job
<1> HIDE DEF new
<1>3. /\ job' \in [Workers -> Job \union {Idle}] /\ job'[w] = new
      /\ \A v \in Workers \ {w} : job'[v] = job[v]
  BY <1>1, <1>2 DEF Inv, Typed
<1>4. JobIsJust(w)'
  BY <1>1, <1>2, <1>3 DEF JobIsJust, Asked, Decided, State, Inv
<1> QED BY <1>1, <1>3, <1>4, JobKeepsInv DEF Inv, Typed, ObjectsArrived

LEMMA ConflictKeepsInv ==
  ASSUME Inv, NEW w \in Workers, NEW b \in Buckets, StoreConflict(w, b)
  PROVE  Inv' /\ Grows
<1> DEFINE j == job[w]
           new == [j EXCEPT !.outcome = "IMMUTABLE_OBJECT_CONFLICT", !.step = "complete"]
<1>1. /\ j # Idle /\ job' = [job EXCEPT ![w] = new]
      /\ UNCHANGED <<row, quarantine, sent, call, stored, queue>>
  BY DEF StoreConflict, At, apiVars
<1>2. j \in Job /\ j.upload \in Uploads /\ Asked(j.upload)
  BY <1>1, JobFacts DEF Asked
<1>3. /\ new \in Job /\ new.step = "complete" /\ new.upload = j.upload
      /\ new.outcome = "IMMUTABLE_OBJECT_CONFLICT"
  BY <1>2 DEF Job, Steps, Outcomes
<1> HIDE DEF new
<1>4. /\ job' \in [Workers -> Job \union {Idle}] /\ job'[w] = new
      /\ \A v \in Workers \ {w} : job'[v] = job[v]
  BY <1>1, <1>3 DEF Inv, Typed
<1>5. JobIsJust(w)'
  BY <1>1, <1>2, <1>3, <1>4 DEF JobIsJust, Asked, Deserved
<1> QED BY <1>1, <1>4, <1>5, JobKeepsInv DEF Inv, Typed, ObjectsArrived

\* A worker stores the copy it has examined, where nothing or the same is.
LEMMA StoreKeepsInv ==
  ASSUME Inv, NEW w \in Workers, NEW b \in Buckets, StoreImmutable(w, b)
  PROVE  Inv' /\ Grows
<1> DEFINE j == job[w]
           u == j.upload
           object == Product(w)
           step == IF b = "derivative" THEN "original" ELSE "complete"
           new == [j EXCEPT !.step = step]
<1>1. /\ j # Idle /\ j.step = b /\ job' = [job EXCEPT ![w] = new]
      /\ stored' = [stored EXCEPT ![b][u] = object]
      /\ stored[b][u] \in {NoObject, object}
      /\ UNCHANGED <<row, quarantine, sent, call, queue>>
  BY DEF StoreImmutable, StorableBy, At, apiVars
<1>2. /\ j \in Job /\ u \in Uploads /\ Asked(u) /\ b \in {"derivative", "original"}
      /\ j.outcome = "READY" /\ j.bytes \in Sent
      /\ Good(j.bytes.bytes, row[u].declared)
      /\ b = "original" => stored["derivative"][u] # NoObject
  BY <1>1, JobFacts DEF Inv, JobIsJust, Asked, Buckets
<1>3. object \in Object /\ object.bytes = j.bytes.bytes
  <2>1. j.bytes.bytes \in Contents
    BY <1>2 DEF Sent
  <2>2. CASE b = "derivative"
    <3>1. object = [bytes |-> j.bytes.bytes, build |-> Build[w]]
      BY <1>1, <2>2 DEF Product, At
    <3> QED BY <2>1, <3>1 DEF Object
  <2>3. CASE b = "original"
    <3>1. object = [bytes |-> j.bytes.bytes, build |-> NoObject]
      BY <1>1, <2>3 DEF Product, At, Original
    <3> QED BY <2>1, <3>1 DEF Object
  <2> QED BY <1>2, <2>2, <2>3
<1>4. object # NoObject
  BY <1>3, EvidenceAssumption DEF Object
<1> HIDE DEF object, step, u
<1>5. \/ step = "original" /\ b = "derivative"
      \/ step = "complete" /\ b = "original"
  BY <1>2 DEF step
<1>6. /\ new \in Job /\ new.step = step /\ new.upload = u
      /\ new.outcome = j.outcome /\ new.bytes = j.bytes
  BY <1>2, <1>5 DEF Job, Steps, u
<1> HIDE DEF new
<1>7. /\ job' \in [Workers -> Job \union {Idle}] /\ job'[w] = new
      /\ \A v \in Workers \ {w} : job'[v] = job[v]
  BY <1>1, <1>6 DEF Inv, Typed
<1>8. /\ stored' \in [Buckets -> [Uploads -> Object \union {NoObject}]]
      /\ stored'[b][u] = object
      /\ \A a \in Buckets, v \in Uploads :
           a # b \/ v # u => stored'[a][v] = stored[a][v]
  BY <1>1, <1>2, <1>3 DEF Inv, Typed
<1>9. Typed' /\ Grows
  BY <1>1, <1>7, <1>8 DEF Inv, Typed, Grows
<1>10. ObjectsArrived'
  BY <1>1 DEF Inv, ObjectsArrived, Asked
<1>11. StoredIsGood'
  <2> SUFFICES ASSUME NEW a \in Buckets, NEW v \in Uploads, stored'[a][v] # NoObject
               PROVE  row[v] # NoUpload /\ Good(stored'[a][v].bytes, row[v].declared)
    BY <1>1 DEF StoredIsGood
  <2>1. CASE a = b /\ v = u
    BY <1>2, <1>3, <1>8, <2>1 DEF Asked
  <2>2. CASE ~(a = b /\ v = u)
    BY <1>8, <2>2 DEF Inv, StoredIsGood
  <2> QED BY <2>1, <2>2
<1>12. DecisionsAreJust'
  BY <1>1, <1>9 DEF Inv, DecisionsAreJust, Grows
<1>13. JobIsJust(w)'
  <2>1. job'[w] = new /\ new.step \in {"original", "complete"} /\ Asked(u)'
    BY <1>1, <1>2, <1>5, <1>6, <1>7 DEF Asked, u
  <2>2. CASE b = "derivative"
    BY <1>1, <1>2, <1>4, <1>5, <1>6, <1>8, <2>1, <2>2 DEF JobIsJust, Asked
  <2>3. CASE b = "original"
    <3>1. \A a \in Buckets : stored'[a][u] # NoObject
      BY <1>2, <1>4, <1>8, <2>3 DEF Buckets
    <3> QED BY <1>1, <1>2, <1>5, <1>6, <2>1, <2>3, <3>1 DEF JobIsJust, Asked
  <2> QED BY <1>2, <2>2, <2>3
<1>14. ASSUME NEW v \in Workers PROVE JobIsJust(v)'
  <2>1. CASE v = w
    BY <1>13, <2>1
  <2>2. CASE v # w
    BY <1>7, <1>9, <2>2, JobStaysJust
  <2> QED BY <2>1, <2>2
<1> QED BY <1>9, <1>10, <1>11, <1>12, <1>14 DEF Inv

\* Only an upload that awaits its scan is decided, by what its job found.
LEMMA CompleteKeepsInv ==
  ASSUME Inv, NEW w \in Workers, Complete(w)
  PROVE  Inv' /\ Grows
<1> DEFINE j == job[w]
           u == j.upload
           old == row[u]
           new == Decide(u, j.outcome)
           next == [j EXCEPT !.step = "ack"]
<1>1. /\ j # Idle /\ j.step = "complete" /\ job' = [job EXCEPT ![w] = next]
      /\ row' = row \/ row' = [row EXCEPT ![u] = new]
      /\ UNCHANGED <<quarantine, sent, call, queue, stored>>
  BY DEF Complete, At
<1>2. /\ j \in Job /\ u \in Uploads /\ Asked(u) /\ old \in Row
      /\ \/ j.outcome = "NONE" /\ Decided(u)
         \/ j.outcome = "READY" /\ \A b \in Buckets : stored[b][u] # NoObject
         \/ Deserved(j.outcome, sent[u], old.declared)
  BY <1>1, JobFacts DEF Inv, JobIsJust, Asked
<1>3. next \in Job /\ next.step = "ack" /\ next.upload = u
  BY <1>2 DEF Job, Steps
<1> HIDE DEF next
<1>4. /\ job' \in [Workers -> Job \union {Idle}] /\ job'[w] = next
      /\ \A v \in Workers \ {w} : job'[v] = job[v]
  BY <1>1, <1>3 DEF Inv, Typed
<1>5. /\ new \in Row /\ new.declared = old.declared /\ new.state # "INITIATED"
      /\ old.state \in {"READY", "REJECTED"} => new = old
      /\ new = old \/
           /\ new.state = "READY" => \A b \in Buckets : stored[b][u] # NoObject
           /\ new.state = "REJECTED" => Deserved(new.reason, sent[u], new.declared)
  <2>1. State(u) = old.state
    BY <1>2 DEF State, Asked
  <2>2. CASE old.state # "SCAN_PENDING"
    <3>1. new = old
      BY <2>1, <2>2 DEF Decide
    <3> QED BY <1>2, <3>1 DEF Asked
  <2>3. CASE old.state = "SCAN_PENDING" /\ j.outcome = "READY"
    <3> DEFINE ready == [old EXCEPT !.state = "READY"]
    <3>1. new = ready
      BY <2>1, <2>3 DEF Decide
    <3>2. ready \in Row /\ ready.declared = old.declared /\ ready.state = "READY"
      BY <1>2 DEF Row, States
    <3>3. \A b \in Buckets : stored[b][u] # NoObject
      BY <1>2, <2>3 DEF Deserved
    <3> QED BY <2>3, <3>1, <3>2, <3>3
  <2>4. CASE old.state = "SCAN_PENDING" /\ j.outcome # "READY"
    <3> DEFINE outcome == j.outcome
               rejected == [old EXCEPT !.state = "REJECTED", !.reason = outcome]
    <3>1. new = rejected
      BY <2>1, <2>4 DEF Decide
    <3>2. outcome \in Outcomes
      BY <1>2 DEF Job
    <3>3. Deserved(outcome, sent[u], old.declared)
      BY <1>2, <2>1, <2>4 DEF Decided
    <3> HIDE DEF outcome, old
    <3>4. /\ rejected \in Row /\ rejected.declared = old.declared
          /\ rejected.state = "REJECTED" /\ rejected.reason = outcome
      BY <1>2, <3>2 DEF Row, States
    <3> QED BY <2>4, <3>1, <3>3, <3>4
  <2> QED BY <2>2, <2>3, <2>4
<1>6. new # NoUpload
  BY <1>5, EvidenceAssumption DEF Row
<1> HIDE DEF new, u
<1>7. /\ row' \in [Uploads -> Row \union {NoUpload}]
      /\ \A v \in Uploads \ {u} : row'[v] = row[v]
      /\ row'[u] \in {row[u], new}
  BY <1>1, <1>2, <1>5 DEF Inv, Typed
<1>8. Typed' /\ Grows
  BY <1>1, <1>2, <1>4, <1>5, <1>6, <1>7 DEF Inv, Typed, Grows, Asked
<1>9. \A v \in Uploads : (Asked(v)' <=> Asked(v)) /\ (row[v] # NoUpload => row'[v] # NoUpload)
  BY <1>2, <1>5, <1>6, <1>7 DEF Asked
<1>10. ObjectsArrived'
  BY <1>1, <1>9 DEF Inv, Typed, ObjectsArrived
<1>11. StoredIsGood'
  BY <1>1, <1>8 DEF Inv, StoredIsGood, Grows
<1>12. DecisionsAreJust'
  <2> SUFFICES ASSUME NEW v \in Uploads, row'[v] # NoUpload
               PROVE  /\ row'[v].state = "READY" =>
                           \A b \in Buckets : stored[b][v] # NoObject
                      /\ row'[v].state = "REJECTED" =>
                           Deserved(row'[v].reason, sent[v], row'[v].declared)
    BY <1>1 DEF DecisionsAreJust
  <2>1. CASE row'[v] = row[v]
    BY <2>1 DEF Inv, DecisionsAreJust
  <2>2. CASE row'[v] # row[v]
    BY <1>5, <1>7, <2>2
  <2> QED BY <2>1, <2>2
<1>13. JobIsJust(w)'
  BY <1>2, <1>3, <1>4, <1>9 DEF JobIsJust
<1>14. ASSUME NEW v \in Workers PROVE JobIsJust(v)'
  <2>1. CASE v = w
    BY <1>13, <2>1
  <2>2. CASE v # w
    BY <1>4, <1>8, <2>2, JobStaysJust
  <2> QED BY <2>1, <2>2
<1> QED BY <1>8, <1>10, <1>11, <1>12, <1>14 DEF Inv

-----------------------------------------------------------------------------
LEMMA StepKeepsInv == Inv /\ [Next]_vars => Inv' /\ Grows
<1> SUFFICES ASSUME Inv, [Next]_vars PROVE Inv' /\ Grows
  OBVIOUS
<1>1. ASSUME NEW u \in Uploads, Uploader(u) PROVE Inv' /\ Grows
  BY <1>1, UploaderKeepsInv
<1>2. ASSUME NEW u \in Uploads, Republish(u) PROVE Inv' /\ Grows
  <2>1. /\ queue' = [queue EXCEPT ![u] = @ + 1] /\ Asked(u)
        /\ UNCHANGED <<row, quarantine, sent, call, job, stored>>
    BY <1>2 DEF Republish, apiVars, workerVars, State, Asked
  <2>2. /\ queue' \in [Uploads -> Nat]
        /\ \A v \in Uploads : queue'[v] > 0 => Asked(v)
        /\ job' \in [Workers -> Job \union {Idle}]
    BY <2>1 DEF Inv, Typed, ObjectsArrived
  <2>3. \A w \in Workers : JobIsJust(w)'
    BY <2>1 DEF Inv, JobIsJust, Asked, Decided, State
  <2> QED BY <2>1, <2>2, <2>3, JobKeepsInv
<1>3. ASSUME NEW c \in Calls, Finalize(c) PROVE Inv' /\ Grows
  BY <1>3, FinalizeKeepsInv
<1>4. ASSUME NEW w \in Workers, NEW u \in Uploads, Take(w, u) PROVE Inv' /\ Grows
  BY <1>4, TakeKeepsInv
<1>5. ASSUME NEW w \in Workers, Work(w) \/ Fail(w) PROVE Inv' /\ Grows
  <2>1. CASE Load(w) \/ Examine(w) \/ Complete(w)
    BY <2>1, LoadKeepsInv, ExamineKeepsInv, CompleteKeepsInv
  <2>2. CASE \E b \in Buckets : StoreImmutable(w, b) \/ StoreConflict(w, b)
    BY <2>2, StoreKeepsInv, ConflictKeepsInv
  <2>3. CASE \/ Ack(w) \/ FailWithoutSession(w) \/ Fail(w)
             \/ \E b \in Buckets : StoreTooLong(w, b)
    <3>1. /\ job[w] # Idle /\ EndJob(w)
          /\ queue' = queue \/ queue' = [queue EXCEPT ![job[w].upload] = @ + 1]
          /\ UNCHANGED <<row, quarantine, sent, call, stored>>
      BY <2>3 DEF Ack, FailWithoutSession, Fail, Requeue, StoreTooLong, At, apiVars
    <3> QED BY <3>1, EndKeepsInv
  <2> QED BY <1>5, <2>1, <2>2, <2>3 DEF Work, Store
<1>6. ASSUME NEW w \in Workers, LoseSession(w) PROVE Inv' /\ Grows
  BY <1>6, LoseSessionKeepsInv
<1>7. CASE UNCHANGED vars
  <2>1. UNCHANGED <<row, quarantine, sent, call, queue, job, stored>>
    BY <1>7 DEF vars, apiVars, workerVars
  <2> QED
    BY <2>1 DEF Inv, Typed, ObjectsArrived, StoredIsGood, DecisionsAreJust, Asked,
                JobIsJust, Decided, State, Grows
<1> QED BY <1>1, <1>2, <1>3, <1>4, <1>5, <1>6, <1>7 DEF Next

LEMMA Invariance == Spec => []Inv
<1>1. Inv /\ [Next]_vars => Inv'
  BY StepKeepsInv
<1> QED BY <1>1, InitInv, PTL DEF Spec

-----------------------------------------------------------------------------
(***************************************************************************)
(* The advisory lock: a worker with a session holds the lock of the upload *)
(* it works on, and no other.                                              *)
(***************************************************************************)
LocksFit ==
  /\ lock \in [Uploads -> Workers \union {Free}]
  /\ \A w \in Workers, u \in Uploads :
       lock[u] = w <=> job[w] # Idle /\ job[w].connected /\ job[w].upload = u

\* A step within a job leaves the locks alone.
LEMMA JobGoesOn ==
  ASSUME LocksFit, NEW w \in Workers, job[w] # Idle, UNCHANGED lock,
         \A v \in Workers \ {w} : job'[v] = job[v],
         job'[w] # Idle, job'[w].upload = job[w].upload,
         job'[w].connected = job[w].connected
  PROVE  LocksFit'
BY DEF LocksFit

LEMMA JobEnds ==
  ASSUME Inv, LocksFit, NEW w \in Workers, EndJob(w)
  PROVE  LocksFit'
<1>1. /\ job'[w] = Idle
      /\ \A v \in Workers \ {w} : job'[v] = job[v]
      /\ \A u \in Uploads : lock'[u] = IF lock[u] = w THEN Free ELSE lock[u]
      /\ lock' \in [Uploads -> Workers \union {Free}]
  BY DEF EndJob, Inv, Typed, LocksFit
<1> QED BY <1>1, EvidenceAssumption DEF LocksFit

LEMMA NotIdle ==
  ASSUME NEW j \in Job PROVE j # Idle
BY EvidenceAssumption DEF Job, Sent

LEMMA JobMoves ==
  ASSUME NEW j \in Job, NEW step \in Steps
  PROVE  LET moved == [j EXCEPT !.step = step]
         IN /\ moved \in Job /\ moved.upload = j.upload
            /\ moved.connected = j.connected
            /\ moved.step = step /\ moved.outcome = j.outcome
BY DEF Job

\* What one step within a job changes of it: only completing makes it ready to
\* be acknowledged, and only an object in its way makes it a conflict.
LEMMA JobWorks ==
  ASSUME Inv, NEW w \in Workers,
         \/ Load(w) \/ Examine(w) \/ Complete(w)
         \/ \E b \in Buckets : StoreImmutable(w, b) \/ StoreConflict(w, b)
  PROVE  \E new \in Job :
           /\ job' = [job EXCEPT ![w] = new]
           /\ new.upload = job[w].upload
           /\ new.connected = job[w].connected
           /\ new.step = "ack" => Complete(w)
           /\ new.outcome = "IMMUTABLE_OBJECT_CONFLICT" =>
                \/ job[w].outcome = "IMMUTABLE_OBJECT_CONFLICT"
                \/ \E b \in Buckets : StoreConflict(w, b)
<1>1. job[w] # Idle /\ job[w] \in Job
  BY JobFacts DEF Load, Examine, Complete, StoreImmutable, StoreConflict, At
<1>2. CASE Load(w)
  <2> DEFINE step == IF State(job[w].upload) = "SCAN_PENDING" THEN "examine"
                     ELSE "complete"
  <2>1. job' = [job EXCEPT ![w] = [job[w] EXCEPT !.step = step]]
    BY <1>2 DEF Load
  <2>2. step \in Steps /\ step # "ack"
    BY DEF Steps
  <2> DEFINE new == [job[w] EXCEPT !.step = step]
  <2> HIDE DEF step
  <2>3. /\ new \in Job /\ new.upload = job[w].upload /\ new.outcome = job[w].outcome
        /\ new.connected = job[w].connected /\ new.step # "ack"
    BY <1>1, <2>2, JobMoves
  <2> HIDE DEF new
  <2> QED BY <2>1, <2>3 DEF new
<1>3. CASE Examine(w)
  <2> DEFINE u == job[w].upload
             object == quarantine[u]
             result == Verdict(object, row[u].declared)
             step == IF result = "READY" THEN "derivative" ELSE "complete"
             new == [job[w] EXCEPT !.bytes = object, !.outcome = result,
                                   !.step = step]
  <2>1. job' = [job EXCEPT ![w] = new]
    BY <1>3 DEF Examine
  <2>2. /\ result \in Outcomes /\ result # "IMMUTABLE_OBJECT_CONFLICT"
        /\ step \in Steps /\ step # "ack"
        /\ object \in Sent \union {NoObject}
    BY <1>1, VerdictIsAnOutcome DEF Inv, Typed, Job, Steps
  <2> HIDE DEF step, result, object
  <2>3. /\ new \in Job /\ new.upload = job[w].upload
        /\ new.connected = job[w].connected
        /\ new.step # "ack" /\ new.outcome # "IMMUTABLE_OBJECT_CONFLICT"
    BY <1>1, <2>2 DEF Job
  <2> HIDE DEF new
  <2> QED BY <2>1, <2>3
<1>4. CASE Complete(w)
  <2> DEFINE new == [job[w] EXCEPT !.step = "ack"]
  <2>1. job' = [job EXCEPT ![w] = new]
    BY <1>4 DEF Complete
  <2>2. /\ new \in Job /\ new.upload = job[w].upload /\ new.outcome = job[w].outcome
        /\ new.connected = job[w].connected
    BY <1>1, JobMoves DEF Steps
  <2> HIDE DEF new
  <2> QED BY <1>4, <2>1, <2>2
<1>5. CASE \E b \in Buckets : StoreImmutable(w, b)
  <2>1. PICK step \in {"original", "complete"} :
          job' = [job EXCEPT ![w] = [job[w] EXCEPT !.step = step]]
    BY <1>5 DEF StoreImmutable
  <2> DEFINE new == [job[w] EXCEPT !.step = step]
  <2>2. step \in Steps /\ step # "ack"
    BY DEF Steps
  <2>4. /\ new \in Job /\ new.upload = job[w].upload /\ new.outcome = job[w].outcome
        /\ new.connected = job[w].connected /\ new.step # "ack"
    BY <1>1, <2>2, JobMoves
  <2>3. job' = [job EXCEPT ![w] = new]
    BY <2>1
  <2> HIDE DEF new
  <2> QED BY <2>3, <2>4
<1>6. CASE \E b \in Buckets : StoreConflict(w, b)
  <2> DEFINE new == [job[w] EXCEPT !.outcome = "IMMUTABLE_OBJECT_CONFLICT",
                                   !.step = "complete"]
  <2>1. job' = [job EXCEPT ![w] = new]
    BY <1>1, <1>6 DEF StoreConflict, Inv, Typed
  <2>2. new \in Job /\ new.upload = job[w].upload
        /\ new.connected = job[w].connected /\ new.step # "ack"
    BY <1>1 DEF Job, Steps, Outcomes
  <2> HIDE DEF new
  <2> QED BY <1>6, <2>1, <2>2
<1> QED BY <1>2, <1>3, <1>4, <1>5, <1>6

LEMMA LocksStep ==
  ASSUME Inv, LocksFit, [Next]_vars PROVE LocksFit'
<1>1. CASE UNCHANGED <<lock, job>>
  BY <1>1 DEF LocksFit
<1>2. ASSUME NEW w \in Workers, NEW u \in Uploads, Take(w, u) PROVE LocksFit'
  <2> DEFINE new == [upload |-> u, step |-> "load", bytes |-> NoObject,
                     outcome |-> "NONE", connected |-> TRUE]
  <2>1. new \in Job /\ new.upload = u /\ new.connected
    BY DEF Job, Steps, Outcomes
  <2>2. /\ job'[w] = new /\ job[w] = Idle /\ lock[u] = Free
        /\ \A v \in Workers \ {w} : job'[v] = job[v]
        /\ lock' = [lock EXCEPT ![u] = w]
    BY <1>2 DEF Take, Inv, Typed
  <2>3. new # Idle
    BY <2>1, NotIdle
  <2> HIDE DEF new
  <2>4. lock' \in [Uploads -> Workers \union {Free}]
    BY <2>2 DEF LocksFit
  <2> QED BY <2>1, <2>2, <2>3, <2>4, EvidenceAssumption DEF LocksFit
<1>3. ASSUME NEW w \in Workers, Load(w) \/ Examine(w) \/ Complete(w)
                 \/ \E b \in Buckets : StoreImmutable(w, b) \/ StoreConflict(w, b)
      PROVE  LocksFit'
  <2>1. job[w] # Idle /\ job[w] \in Job /\ UNCHANGED lock
    BY <1>3, JobFacts DEF Load, Examine, Complete, StoreImmutable, StoreConflict, At
  <2>3. PICK new \in Job : /\ job' = [job EXCEPT ![w] = new]
                           /\ new.upload = job[w].upload
                           /\ new.connected = job[w].connected
    BY <1>3, JobWorks
  <2>4. job'[w] = new /\ \A v \in Workers \ {w} : job'[v] = job[v]
    BY <2>3 DEF Inv, Typed
  <2> QED BY <2>1, <2>3, <2>4, NotIdle, JobGoesOn
<1>4. ASSUME NEW w \in Workers, LoseSession(w) PROVE LocksFit'
  <2> DEFINE new == [job[w] EXCEPT !.connected = FALSE]
  <2>1. job[w] # Idle /\ job[w] \in Job /\ job' = [job EXCEPT ![w] = new]
    BY <1>4, JobFacts DEF LoseSession
  <2>2. new \in Job /\ new.connected = FALSE
    BY <2>1 DEF Job
  <2> HIDE DEF new
  <2>3. /\ job'[w] = new /\ \A v \in Workers \ {w} : job'[v] = job[v]
        /\ \A u \in Uploads : lock'[u] = IF lock[u] = w THEN Free ELSE lock[u]
        /\ lock' \in [Uploads -> Workers \union {Free}]
    BY <1>4, <2>1 DEF LoseSession, Inv, Typed, LocksFit
  <2> QED BY <2>2, <2>3, EvidenceAssumption DEF LocksFit
<1>5. ASSUME NEW w \in Workers, EndJob(w) PROVE LocksFit'
  BY <1>5, JobEnds
<1>6. ASSUME NEW w \in Workers, Work(w) \/ Fail(w) PROVE LocksFit'
  BY <1>3, <1>5, <1>6
     DEF Work, Store, Ack, FailWithoutSession, Fail, Requeue, StoreTooLong
<1>7. ASSUME NEW u \in Uploads, Uploader(u) \/ Republish(u) PROVE LocksFit'
  BY <1>1, <1>7 DEF Uploader, Initiate, Put, Expire, Republish, workerVars
<1>8. ASSUME NEW c \in Calls, Finalize(c) PROVE LocksFit'
  BY <1>1, <1>8 DEF Finalize, BeginFinalize, Inspect, CommitFinalize, workerVars
<1>9. CASE UNCHANGED vars
  BY <1>1, <1>9 DEF vars, workerVars
<1> QED BY <1>2, <1>4, <1>6, <1>7, <1>8, <1>9 DEF Next

\* Inbox and dead letters name uploads, and the faults are counted.
Counted == inbox \subseteq Uploads /\ dead \subseteq Uploads /\ faults \in 0..MaxFaults

LEMMA CountedStep ==
  ASSUME Inv, Counted, [Next]_vars PROVE Counted'
<1> USE EvidenceAssumption DEF Counted
<1>1. \A w \in Workers : job[w] # Idle => job[w].upload \in Uploads
  BY JobFacts
<1>2. ASSUME NEW w \in Workers, Complete(w) PROVE Counted'
  BY <1>1, <1>2 DEF Complete, At
<1>3. ASSUME NEW w \in Workers, NEW b \in Buckets, StoreTooLong(w, b) PROVE Counted'
  BY <1>1, <1>3 DEF StoreTooLong, At
<1>4. ASSUME NEW w \in Workers, LoseSession(w) \/ Fail(w) PROVE Counted'
  BY <1>4 DEF LoseSession, Fail, Requeue
<1>5. ASSUME NEW u \in Uploads, Republish(u) PROVE Counted'
  BY <1>5 DEF Republish, workerVars
<1>6. CASE UNCHANGED <<inbox, dead, faults>>
  BY <1>6
<1> QED
  BY <1>2, <1>3, <1>4, <1>5, <1>6
  DEF Next, Uploader, Initiate, Put, Expire, Finalize, BeginFinalize, Inspect,
      CommitFinalize, Take, Work, Store, Load, Examine, Ack, FailWithoutSession,
      Requeue, StoreImmutable, StoreConflict, vars, workerVars

\* The tables keep their shape, and the advisory lock of an upload is held by
\* the one worker that works on it with a session: two workers with sessions
\* never work on one upload (PostgresEvidenceWorkCoordinator.tryAcquire).
THEOREM TypeCorrect == Spec => []TypeOK
<1>1. Init => LocksFit /\ Counted
  BY EvidenceAssumption DEF Init, LocksFit, Counted
<1>2. Inv /\ LocksFit /\ Counted /\ [Next]_vars => LocksFit' /\ Counted'
  BY LocksStep, CountedStep
<1>3. Inv /\ LocksFit /\ Counted => TypeOK
  BY DEF Inv, Typed, Row, LocksFit, Counted, TypeOK
<1> QED BY <1>1, <1>2, <1>3, Invariance, PTL DEF Spec

\* What officers are shown is what was scanned and declared, whatever is PUT
\* meanwhile and whichever workers stored it (EvidenceMediaProcessor.evaluate).
THEOREM ReadyWasScanned == Spec => []ReadyIsWhatWasScanned
<1>1. Inv => ReadyIsWhatWasScanned
  <2> SUFFICES ASSUME Inv, NEW u \in Uploads, State(u) = "READY"
               PROVE  /\ \A b \in Buckets : stored[b][u] # NoObject
                      /\ LET bytes == stored["original"][u].bytes IN
                           /\ bytes.clean
                           /\ [sha256 |-> bytes.sha256, mime |-> bytes.mime,
                               size |-> bytes.size] = row[u].declared
                           /\ stored["derivative"][u].bytes = bytes
    BY DEF ReadyIsWhatWasScanned
  <2>1. row[u] # NoUpload /\ row[u].state = "READY"
    BY DEF State
  <2>2. \A b \in Buckets : stored[b][u] # NoObject
    BY <2>1 DEF Inv, DecisionsAreJust
  <2>3. \A b \in Buckets : Good(stored[b][u].bytes, row[u].declared)
    BY <2>2 DEF Inv, StoredIsGood
  <2> DEFINE first == stored["original"][u].bytes
             second == stored["derivative"][u].bytes
  <2>4. /\ Good(first, row[u].declared) /\ Good(second, row[u].declared)
    BY <2>3 DEF Buckets
  <2> HIDE DEF first, second
  <2>5. first = second
    BY <2>4, EvidenceAssumption DEF Good
  <2> QED BY <2>2, <2>4, <2>5 DEF Good, first, second
<1> QED BY <1>1, Invariance, PTL

\* Nobody is rejected for anything but what was sent, or for a derivative that
\* another build had stored (finalize, evaluate, storeImmutable).
THEOREM HonestUploadsAreKept == Spec => []HonestUploadIsKept
<1>1. Inv => HonestUploadIsKept
  BY DEF Inv, DecisionsAreJust, Deserved, HonestUploadIsKept, State
<1> QED BY <1>1, Invariance, PTL

\* A decision is never taken back, nor is what it stands for replaced
\* (PostgresEvidenceCoordinator.complete, storeImmutable).
THEOREM DecisionsAreFinal == Spec => DecisionIsFinal
<1> DEFINE Kept ==
      \A u \in Uploads : Decided(u) =>
        /\ row'[u] = row[u]
        /\ State(u) = "READY" => \A b \in Buckets : stored'[b][u] = stored[b][u]
<1>1. Inv /\ [Next]_vars => [Kept]_vars
  <2>1. Inv /\ [Next]_vars => Grows
    BY StepKeepsInv
  <2>2. Inv /\ Grows => Kept
    BY DEF Inv, Grows, DecisionsAreJust, Decided, State
  <2> QED BY <2>1, <2>2
<1> QED BY <1>1, Invariance, PTL DEF Spec, DecisionIsFinal

-----------------------------------------------------------------------------
(***************************************************************************)
(* No scan is forgotten                                                    *)
(***************************************************************************)

\* What is in the inbox, or about to be acknowledged, is decided.
ScanInv ==
  /\ \A u \in Uploads : u \in inbox => Decided(u)
  /\ \A w \in Workers :
       job[w] # Idle /\ job[w].step = "ack" => Decided(job[w].upload)
  /\ NoScanIsForgotten

\* Worker w has u in hand.
InHand(w, u) == job[w] # Idle /\ job[w].upload = u /\ job[w].step # "ack"

LEMMA DecidedStays ==
  ASSUME Inv, Grows, NEW u \in Uploads, Decided(u)
  PROVE  Decided(u)'
BY DEF Decided, State, Grows

\* A step in which workers keep their jobs, no request leaves the queue and the
\* scans that begin are queued.
LEMMA ScansStay ==
  ASSUME Inv, Inv', Grows, ScanInv, UNCHANGED <<job, inbox, dead>>,
         \A u \in Uploads : queue[u] > 0 => queue'[u] > 0,
         \A u \in Uploads : State(u)' = "SCAN_PENDING" =>
           State(u) = "SCAN_PENDING" \/ queue'[u] > 0
  PROVE  ScanInv'
<1>1. \A w \in Workers : job[w] # Idle => job[w].upload \in Uploads
  BY JobFacts
<1>2. NoScanIsForgotten'
  BY DEF ScanInv, NoScanIsForgotten
<1> QED BY <1>1, <1>2, DecidedStays DEF ScanInv

\* A job that ends with nothing decided goes back to the queue.
LEMMA ScanGoesBack ==
  ASSUME Inv, Inv', Grows, ScanInv, NEW w \in Workers, job[w] # Idle, EndJob(w),
         inbox' = inbox, row' = row, dead \subseteq dead',
         \A u \in Uploads : queue[u] > 0 => queue'[u] > 0,
         \/ queue'[job[w].upload] > 0 \/ job[w].upload \in dead'
         \/ job[w].step = "ack"
  PROVE  ScanInv'
<1>1. /\ job'[w] = Idle /\ \A v \in Workers \ {w} : job'[v] = job[v]
      /\ \A v \in Workers : job[v] # Idle => job[v].upload \in Uploads
  BY JobFacts DEF EndJob, Inv, Typed
<1>2. \A u \in Uploads : State(u)' = State(u) /\ (Decided(u)' <=> Decided(u))
  BY DEF State, Decided
<1>3. NoScanIsForgotten'
  <2> SUFFICES ASSUME NEW u \in Uploads, State(u) = "SCAN_PENDING"
               PROVE  queue'[u] > 0 \/ (\E v \in Workers : InHand(v, u)') \/ u \in dead'
    BY <1>2 DEF NoScanIsForgotten, InHand
  <2>1. CASE queue[u] > 0 \/ u \in dead
    BY <2>1
  <2>2. ASSUME NEW v \in Workers, InHand(v, u)
        PROVE  queue'[u] > 0 \/ (\E x \in Workers : InHand(x, u)') \/ u \in dead'
    <3>1. CASE v = w
      BY <2>2, <3>1 DEF InHand
    <3>2. CASE v # w
      BY <1>1, <2>2, <3>2 DEF InHand
    <3> QED BY <3>1, <3>2
  <2> QED BY <2>1, <2>2 DEF ScanInv, NoScanIsForgotten, InHand
<1> QED BY <1>1, <1>2, <1>3 DEF ScanInv

LEMMA ScanStep == Inv /\ ScanInv /\ [Next]_vars => ScanInv'
<1> SUFFICES ASSUME Inv, ScanInv, [Next]_vars PROVE ScanInv'
  OBVIOUS
<1>0. Inv' /\ Grows
  BY StepKeepsInv
<1>1. ASSUME NEW u \in Uploads, Uploader(u) PROVE ScanInv'
  <2>1. UNCHANGED <<job, inbox, dead, queue>>
    BY <1>1 DEF Uploader, Initiate, Put, Expire, workerVars
  <2>2. \A v \in Uploads : State(v)' = "SCAN_PENDING" => State(v) = "SCAN_PENDING"
    BY <1>1, <1>0 DEF Uploader, Initiate, Put, Expire, State, Inv, Typed
  <2> QED BY <1>0, <2>1, <2>2, ScansStay
<1>2. ASSUME NEW u \in Uploads, Republish(u) PROVE ScanInv'
  <2>1. UNCHANGED <<job, inbox, dead, row>> /\ queue' = [queue EXCEPT ![u] = @ + 1]
    BY <1>2 DEF Republish, apiVars, workerVars
  <2>2. \A v \in Uploads : queue[v] > 0 => queue'[v] > 0
    BY <2>1 DEF Inv, Typed
  <2> QED BY <1>0, <2>1, <2>2, ScansStay DEF State
<1>3. ASSUME NEW c \in Calls, Finalize(c) PROVE ScanInv'
  <2>1. UNCHANGED <<job, inbox, dead>>
    BY <1>3 DEF Finalize, BeginFinalize, Inspect, CommitFinalize, workerVars
  <2>2. \/ UNCHANGED <<row, queue>>
        \/ \E u \in Uploads : /\ row' = [row EXCEPT ![u].state = "SCAN_PENDING"]
                              /\ queue' = [queue EXCEPT ![u] = @ + 1]
    BY <1>3 DEF Finalize, BeginFinalize, Inspect, CommitFinalize, Inv, Typed
  <2>3. CASE UNCHANGED <<row, queue>>
    BY <1>0, <2>1, <2>3, ScansStay DEF State
  <2>4. ASSUME NEW u \in Uploads, row' = [row EXCEPT ![u].state = "SCAN_PENDING"],
               queue' = [queue EXCEPT ![u] = @ + 1]
        PROVE  ScanInv'
    <3>1. \A v \in Uploads : /\ queue'[v] = IF v = u THEN queue[v] + 1 ELSE queue[v]
                             /\ queue[v] \in Nat
                             /\ v # u => row'[v] = row[v]
      BY <2>4 DEF Inv, Typed
    <3>2. \A v \in Uploads : queue[v] > 0 => queue'[v] > 0
      BY <3>1
    <3>3. queue'[u] > 0
      BY <3>1
    <3>4. \A v \in Uploads : State(v)' = "SCAN_PENDING" =>
            State(v) = "SCAN_PENDING" \/ queue'[v] > 0
      BY <3>1, <3>3 DEF State
    <3> QED BY <1>0, <2>1, <3>2, <3>4, ScansStay
  <2> QED BY <2>2, <2>3, <2>4
<1>4. ASSUME NEW w \in Workers, NEW u \in Uploads, Take(w, u) PROVE ScanInv'
  <2> DEFINE new == [upload |-> u, step |-> "load", bytes |-> NoObject,
                     outcome |-> "NONE", connected |-> TRUE]
  <2>1. new \in Job /\ new.upload = u /\ new.step # "ack"
    BY DEF Job, Steps, Outcomes
  <2>2. /\ job' = [job EXCEPT ![w] = new] /\ job[w] = Idle
        /\ queue' = [queue EXCEPT ![u] = @ - 1]
        /\ UNCHANGED <<row, inbox, dead>>
    BY <1>4 DEF Take, apiVars
  <2>3. new # Idle
    BY <2>1, NotIdle
  <2> HIDE DEF new
  <2>4. /\ job'[w] = new /\ \A v \in Workers \ {w} : job'[v] = job[v]
        /\ \A v \in Uploads \ {u} : queue'[v] = queue[v]
    BY <2>2 DEF Inv, Typed
  <2>5. \A v \in Uploads : State(v)' = State(v) /\ (Decided(v)' <=> Decided(v))
    BY <2>2 DEF State, Decided
  <2>6. \A v \in Workers : job[v] # Idle => job[v].upload \in Uploads
    BY JobFacts
  <2>7. NoScanIsForgotten'
    <3> SUFFICES ASSUME NEW v \in Uploads, State(v) = "SCAN_PENDING"
                 PROVE  queue'[v] > 0 \/ (\E x \in Workers : InHand(x, v)') \/ v \in dead'
      BY <2>5 DEF NoScanIsForgotten, InHand
    <3>1. CASE v = u
      BY <2>1, <2>3, <2>4, <3>1 DEF InHand
    <3>2. CASE v # u
      BY <2>2, <2>4, <3>2 DEF ScanInv, NoScanIsForgotten, InHand
    <3> QED BY <3>1, <3>2
  <2> QED BY <2>1, <2>2, <2>4, <2>5, <2>6, <2>7 DEF ScanInv
<1>5. ASSUME NEW w \in Workers,
             \/ Load(w) \/ Examine(w) \/ Complete(w)
             \/ \E b \in Buckets : StoreImmutable(w, b) \/ StoreConflict(w, b)
      PROVE  ScanInv'
  <2>1. /\ job[w] # Idle /\ job[w] \in Job /\ job[w].upload \in Uploads
        /\ row[job[w].upload] # NoUpload /\ row[job[w].upload].state \in States
        /\ row[job[w].upload].state # "INITIATED" /\ queue' = queue /\ dead' = dead
    BY <1>5, JobFacts DEF Load, Examine, Complete, StoreImmutable, StoreConflict, At, Row
  <2>2. PICK new \in Job : /\ job' = [job EXCEPT ![w] = new]
                           /\ new.upload = job[w].upload
                           /\ new.step = "ack" => Complete(w)
    BY <1>5, JobWorks
  <2>3. /\ job'[w] = new /\ new # Idle
        /\ \A v \in Workers \ {w} : job'[v] = job[v]
        /\ \A v \in Workers : job[v] # Idle => job[v].upload \in Uploads
    BY <2>2, JobFacts, NotIdle DEF Inv, Typed
  <2>4. ASSUME Complete(w), NEW u \in Uploads, u = job[w].upload
        PROVE  Decided(u)'
    <3>1. CASE Decided(u)
      BY <1>0, <2>1, <3>1, DecidedStays
    <3>2. CASE ~Decided(u)
      <4>1. State(u) = "SCAN_PENDING" /\ u \notin inbox
        BY <2>1, <2>4, <3>2 DEF ScanInv, Decided, State, States
      <4>2. row' = [row EXCEPT ![u] = Decide(u, job[w].outcome)]
        BY <2>4, <4>1 DEF Complete
      <4>3. row'[u] = Decide(u, job[w].outcome)
        BY <2>1, <4>2 DEF Inv, Typed
      <4>4. row[u] \in Row
        BY <2>1, <2>4, JobFacts
      <4>5. row'[u].state \in {"READY", "REJECTED"}
        BY <4>1, <4>3, <4>4 DEF Decide, Row
      <4> QED BY <1>0, <2>1, <2>4, <4>5 DEF Decided, State, Grows
    <3> QED BY <3>1, <3>2
  <2>5. \A u \in Uploads : u \in inbox' => Decided(u)'
    <3>1. inbox' \subseteq inbox \union (IF Complete(w) THEN {job[w].upload} ELSE {})
      BY <1>5 DEF Load, Examine, Complete, StoreImmutable, StoreConflict
    <3> QED BY <1>0, <2>4, <3>1, DecidedStays DEF ScanInv
  <2>6. \A v \in Workers : job'[v] # Idle /\ job'[v].step = "ack"
                            => Decided(job[v].upload)'
    <3> SUFFICES ASSUME NEW v \in Workers, job'[v] # Idle, job'[v].step = "ack"
                 PROVE  Decided(job[v].upload)'
      OBVIOUS
    <3>1. CASE v = w
      <4>1. Complete(w) /\ job'[v].upload = job[w].upload
        BY <2>2, <2>3, <3>1
      <4>2. \A u \in Uploads : u = job'[v].upload => Decided(u)'
        BY <2>4, <4>1
      <4> QED BY <2>1, <4>1, <4>2 DEF Decided, State
    <3>2. CASE v # w
      <4>1. job'[v] = job[v] /\ Decided(job[v].upload)
        BY <2>3, <3>2 DEF ScanInv
      <4>2. \A u \in Uploads : u = job[v].upload => Decided(u)'
        BY <1>0, <4>1, DecidedStays
      <4> QED BY <2>3, <4>1, <4>2 DEF Decided, State
    <3> QED BY <3>1, <3>2
  <2>7. NoScanIsForgotten'
    <3> SUFFICES ASSUME NEW u \in Uploads, State(u)' = "SCAN_PENDING"
                 PROVE  queue'[u] > 0 \/ (\E v \in Workers : InHand(v, u)') \/ u \in dead'
      BY DEF NoScanIsForgotten, InHand
    <3>1. State(u) = "SCAN_PENDING"
      <4>1. CASE Complete(w)
        BY <2>1, <3>1, <4>1 DEF Complete, Decide, State, Inv, Typed, Row
      <4>2. CASE ~Complete(w)
        BY <1>5, <4>2
        DEF Load, Examine, StoreImmutable, StoreConflict, apiVars, State
      <4> QED BY <4>1, <4>2
    <3>2. CASE queue[u] > 0 \/ u \in dead
      BY <2>1, <3>2
    <3>3. ASSUME NEW v \in Workers, InHand(v, u)
          PROVE  \E x \in Workers : InHand(x, u)'
      <4>1. CASE v # w
        BY <2>3, <3>3, <4>1 DEF InHand
      <4>2. CASE v = w
        <5>1. ~Complete(w)
          <6>1. Complete(w) => Decided(u)'
            BY <2>4, <3>3, <4>2 DEF InHand
          <6> QED BY <6>1 DEF Decided
        <5> QED BY <2>2, <2>3, <3>3, <4>2, <5>1 DEF InHand
      <4> QED BY <4>1, <4>2
    <3> QED BY <3>1, <3>2, <3>3 DEF ScanInv, NoScanIsForgotten, InHand
  <2> QED BY <2>2, <2>3, <2>5, <2>6, <2>7 DEF ScanInv, Decided, State
<1>6. ASSUME NEW w \in Workers,
             \/ Ack(w) \/ FailWithoutSession(w) \/ Fail(w)
             \/ \E b \in Buckets : StoreTooLong(w, b)
      PROVE  ScanInv'
  <2>1. /\ job[w] # Idle /\ job[w].upload \in Uploads /\ EndJob(w)
        /\ UNCHANGED <<inbox, row>> /\ dead \subseteq dead'
    BY <1>6, JobFacts
    DEF Ack, FailWithoutSession, Fail, Requeue, StoreTooLong, At, apiVars
  <2>2. \A u \in Uploads : queue[u] > 0 => queue'[u] > 0
    BY <1>6 DEF Ack, FailWithoutSession, Fail, Requeue, StoreTooLong, Inv, Typed
  <2>3. \/ queue'[job[w].upload] > 0 \/ job[w].upload \in dead'
        \/ job[w].step = "ack"
    BY <1>6, <2>1
    DEF Ack, FailWithoutSession, Fail, Requeue, StoreTooLong, At, Inv, Typed
  <2> QED BY <1>0, <2>1, <2>2, <2>3, ScanGoesBack
<1>7. ASSUME NEW w \in Workers, LoseSession(w) PROVE ScanInv'
  <2> DEFINE new == [job[w] EXCEPT !.connected = FALSE]
  <2>1. /\ job[w] # Idle /\ job[w] \in Job /\ job' = [job EXCEPT ![w] = new]
        /\ UNCHANGED <<row, queue, inbox, dead>>
    BY <1>7, JobFacts DEF LoseSession, apiVars
  <2>2. new \in Job /\ new.upload = job[w].upload /\ new.step = job[w].step
    BY <2>1 DEF Job
  <2> HIDE DEF new
  <2>3. /\ job'[w] = new /\ new # Idle /\ \A v \in Workers \ {w} : job'[v] = job[v]
    BY <2>1, <2>2, NotIdle DEF Inv, Typed
  <2>4. \A u \in Uploads : State(u)' = State(u) /\ (Decided(u)' <=> Decided(u))
    BY <2>1 DEF State, Decided
  <2>5. \A v \in Workers : /\ job[v] # Idle => job[v].upload \in Uploads
                           /\ job'[v] # Idle <=> job[v] # Idle
                           /\ job[v] # Idle => /\ job'[v].upload = job[v].upload
                                               /\ job'[v].step = job[v].step
    BY <2>1, <2>2, <2>3, JobFacts
  <2>6. NoScanIsForgotten'
    BY <2>1, <2>4, <2>5 DEF ScanInv, NoScanIsForgotten
  <2> QED BY <2>1, <2>4, <2>5, <2>6 DEF ScanInv
<1>8. CASE UNCHANGED vars
  BY <1>8
  DEF vars, apiVars, workerVars, ScanInv, NoScanIsForgotten, Decided, State
<1> QED BY <1>1, <1>2, <1>3, <1>4, <1>5, <1>6, <1>7, <1>8 DEF Next, Work, Store

\* Whatever fails, and however often, a scan that was asked for has a request
\* that waits or a worker that will complete it or give it back, until it is
\* decided or rejected for good (EvidenceMediaJob, complete).
THEOREM ScansAreKept == Spec => []NoScanIsForgotten
<1>1. Init => ScanInv
  BY DEF Init, ScanInv, NoScanIsForgotten, State
<1>2. ScanInv => NoScanIsForgotten
  BY DEF ScanInv
<1> QED BY <1>1, <1>2, Invariance, ScanStep, PTL DEF Spec

-----------------------------------------------------------------------------
(***************************************************************************)
(* Only releases conflict                                                  *)
(***************************************************************************)

\* A derivative of another build is in somebody's way.
Obstructed(u) ==
  /\ stored["derivative"][u] # NoObject
  /\ \E w \in Workers : stored["derivative"][u].build # Build[w]

ReleaseInv ==
  /\ \A u \in Uploads : stored["original"][u] # NoObject =>
       stored["original"][u].build = NoObject
  /\ \A w \in Workers :
       job[w] # Idle /\ job[w].outcome = "IMMUTABLE_OBJECT_CONFLICT"
         => Obstructed(job[w].upload)
  /\ OnlyReleasesConflict

LEMMA ObstructedStays ==
  ASSUME Grows, NEW u \in Uploads, Obstructed(u)
  PROVE  Obstructed(u)'
<1>1. stored'["derivative"][u] = stored["derivative"][u]
  BY DEF Grows, Obstructed, Buckets
<1> QED BY <1>1 DEF Obstructed

\* Equal hashes make equal bytes, so originals never differ, and derivatives
\* differ only in their builds.
LEMMA ObstacleIsADerivative ==
  ASSUME Inv, ReleaseInv, NEW w \in Workers, NEW b \in Buckets, At(w, b),
         ~StorableBy(w, b)
  PROVE  Obstructed(job[w].upload)
<1> DEFINE u == job[w].upload
           there == stored[b][u]
           mine == job[w].bytes.bytes
<1>1. /\ job[w] # Idle /\ job[w].step = b /\ u \in Uploads
      /\ b \in {"derivative", "original"}
  BY JobFacts DEF At, Buckets
<1>2. Good(mine, row[u].declared)
  BY <1>1 DEF Inv, JobIsJust
<1>3. there # NoObject /\ there # Product(w)
  BY DEF StorableBy
<1>4. there \in Object /\ Good(there.bytes, row[u].declared)
  BY <1>1, <1>3 DEF Inv, Typed, StoredIsGood
<1>5. there.bytes = mine
  BY <1>2, <1>4, EvidenceAssumption DEF Good
<1>6. there = [bytes |-> mine, build |-> there.build]
  BY <1>4, <1>5 DEF Object
<1>7. CASE b = "original"
  <2>1. Product(w) = [bytes |-> mine, build |-> NoObject]
    BY <1>1, <1>7 DEF Product, At, Original
  <2>2. there.build = NoObject
    BY <1>1, <1>3, <1>7 DEF ReleaseInv
  <2> QED BY <1>3, <1>6, <2>1, <2>2
<1>8. CASE b = "derivative"
  <2>1. Product(w) = [bytes |-> mine, build |-> Build[w]]
    BY <1>1, <1>8 DEF Product, At
  <2>2. there.build # Build[w]
    BY <1>3, <1>6, <2>1
  <2> QED BY <1>3, <1>8, <2>2 DEF Obstructed
<1> QED BY <1>1, <1>7, <1>8

\* A step after which no upload is given up, rejected for a conflict or found in
\* conflict that was not before, or has an obstacle.
LEMMA NoNewConflict ==
  ASSUME Inv, Grows, ReleaseInv,
         \A u \in Uploads :
           \/ stored'["original"][u] = stored["original"][u]
           \/ stored'["original"][u].build = NoObject,
         \A w \in Workers :
           job'[w] # Idle /\ job'[w].outcome = "IMMUTABLE_OBJECT_CONFLICT" =>
             /\ job[w] # Idle /\ job'[w].upload = job[w].upload
             /\ Obstructed(job[w].upload),
         \A u \in Uploads :
           \/ u \in dead'
           \/ State(u)' = "REJECTED" /\ row'[u].reason = "IMMUTABLE_OBJECT_CONFLICT"
           => \/ Obstructed(u)
              \/ u \in dead
              \/ State(u) = "REJECTED" /\ row[u].reason = "IMMUTABLE_OBJECT_CONFLICT"
  PROVE  ReleaseInv'
<1>1. \A u \in Uploads : Obstructed(u) => Obstructed(u)'
  BY ObstructedStays
<1>2. OnlyReleasesConflict'
  BY <1>1 DEF ReleaseInv, OnlyReleasesConflict, Obstructed
<1>3. \A w \in Workers :
        job'[w] # Idle /\ job'[w].outcome = "IMMUTABLE_OBJECT_CONFLICT"
          => Obstructed(job[w].upload)'
  <2> SUFFICES ASSUME NEW w \in Workers, job'[w] # Idle,
                      job'[w].outcome = "IMMUTABLE_OBJECT_CONFLICT"
               PROVE  Obstructed(job[w].upload)'
    OBVIOUS
  <2>1. /\ job[w] # Idle /\ job'[w].upload = job[w].upload
        /\ job[w].upload \in Uploads /\ Obstructed(job[w].upload)
    BY JobFacts
  <2>2. \A u \in Uploads : u = job'[w].upload => Obstructed(u)'
    BY <1>1, <2>1
  <2> QED BY <2>1, <2>2 DEF Obstructed
<1> QED BY <1>2, <1>3 DEF ReleaseInv

LEMMA ReleaseStep == Inv /\ ReleaseInv /\ [Next]_vars => ReleaseInv'
<1> SUFFICES ASSUME Inv, ReleaseInv, [Next]_vars PROVE ReleaseInv'
  OBVIOUS
<1>0. Inv' /\ Grows
  BY StepKeepsInv
<1>1. \A w \in Workers :
        job[w] # Idle /\ job[w].outcome = "IMMUTABLE_OBJECT_CONFLICT"
          => Obstructed(job[w].upload)
  BY DEF ReleaseInv
\* Requests and uploads: a row that changes is not rejected.
<1>2. ASSUME UNCHANGED <<job, stored, dead>>,
             \A u \in Uploads : row'[u] = row[u] \/ State(u)' # "REJECTED"
      PROVE  ReleaseInv'
  BY <1>0, <1>1, <1>2, NoNewConflict DEF State
<1>3. ASSUME NEW u \in Uploads, Uploader(u) PROVE ReleaseInv'
  <2>1. UNCHANGED <<job, stored, dead>>
    BY <1>3 DEF Uploader, Initiate, Put, Expire, workerVars
  <2>2. \A v \in Uploads : row'[v] = row[v] \/ State(v)' # "REJECTED"
    BY <1>3 DEF Uploader, Initiate, Put, Expire, State, Inv, Typed
  <2> QED BY <1>2, <2>1, <2>2
<1>4. ASSUME NEW c \in Calls, Finalize(c) PROVE ReleaseInv'
  <2>1. UNCHANGED <<job, stored, dead>>
    BY <1>4 DEF Finalize, BeginFinalize, Inspect, CommitFinalize, workerVars
  <2>2. \A v \in Uploads : row'[v] = row[v] \/ State(v)' # "REJECTED"
    <3>1. \/ row' = row
          \/ \E u \in Uploads :
               row[u] # NoUpload /\ row' = [row EXCEPT ![u].state = "SCAN_PENDING"]
      BY <1>4
      DEF Finalize, BeginFinalize, Inspect, CommitFinalize, State, Inv, Typed
    <3>2. ASSUME NEW u \in Uploads, row[u] # NoUpload,
                 row' = [row EXCEPT ![u].state = "SCAN_PENDING"], NEW v \in Uploads
          PROVE  row'[v] = row[v] \/ State(v)' # "REJECTED"
      <4>1. v # u => row'[v] = row[v]
        BY <3>2 DEF Inv, Typed
      <4>2. v = u /\ row[u] \in Row => row'[v].state = "SCAN_PENDING"
        BY <3>2 DEF Inv, Typed, Row
      <4>3. v = u /\ row[u] \notin Row => row[u] = NoUpload
        BY DEF Inv, Typed
      <4> QED BY <3>2, <4>1, <4>2, <4>3 DEF State
    <3> QED BY <3>1, <3>2
  <2> QED BY <1>2, <2>1, <2>2
<1>5. ASSUME NEW u \in Uploads, Republish(u) PROVE ReleaseInv'
  BY <1>2, <1>5 DEF Republish, apiVars, workerVars
<1>6. ASSUME NEW w \in Workers, NEW u \in Uploads, Take(w, u) PROVE ReleaseInv'
  <2> DEFINE new == [upload |-> u, step |-> "load", bytes |-> NoObject,
                     outcome |-> "NONE", connected |-> TRUE]
  <2>1. /\ job' = [job EXCEPT ![w] = new] /\ UNCHANGED <<row, stored, dead>>
        /\ new.outcome = "NONE"
    BY <1>6 DEF Take, apiVars
  <2> HIDE DEF new
  <2>2. job'[w] = new /\ \A v \in Workers \ {w} : job'[v] = job[v]
    BY <2>1 DEF Inv, Typed
  <2> QED BY <1>0, <1>1, <2>1, <2>2, NoNewConflict DEF State
<1>7. ASSUME NEW w \in Workers,
             \/ Load(w) \/ Examine(w) \/ Complete(w)
             \/ \E b \in Buckets : StoreImmutable(w, b) \/ StoreConflict(w, b)
      PROVE  ReleaseInv'
  <2>1. job[w] # Idle /\ job[w].upload \in Uploads /\ dead' = dead
    BY <1>7, JobFacts DEF Load, Examine, Complete, StoreImmutable, StoreConflict, At
  <2>2. PICK new \in Job :
          /\ job' = [job EXCEPT ![w] = new]
          /\ new.upload = job[w].upload
          /\ new.outcome = "IMMUTABLE_OBJECT_CONFLICT" =>
               \/ job[w].outcome = "IMMUTABLE_OBJECT_CONFLICT"
               \/ \E b \in Buckets : StoreConflict(w, b)
    BY <1>7, JobWorks
  <2>3. job'[w] = new /\ \A v \in Workers \ {w} : job'[v] = job[v]
    BY <2>2 DEF Inv, Typed
  <2>4. \A b \in Buckets : StoreConflict(w, b) => Obstructed(job[w].upload)
    BY ObstacleIsADerivative DEF StoreConflict
  <2>5. \A v \in Workers :
          job'[v] # Idle /\ job'[v].outcome = "IMMUTABLE_OBJECT_CONFLICT" =>
            /\ job[v] # Idle /\ job'[v].upload = job[v].upload
            /\ Obstructed(job[v].upload)
    BY <1>1, <2>1, <2>2, <2>3, <2>4
  <2>6. \A u \in Uploads :
          \/ stored'["original"][u] = stored["original"][u]
          \/ stored'["original"][u].build = NoObject
    <3>1. CASE stored' = stored
      BY <3>1
    <3>2. ASSUME NEW b \in Buckets, StoreImmutable(w, b), NEW u \in Uploads
          PROVE  \/ stored'["original"][u] = stored["original"][u]
                 \/ stored'["original"][u].build = NoObject
      <4>1. stored' = [stored EXCEPT ![b][job[w].upload] = Product(w)] /\ At(w, b)
        BY <3>2 DEF StoreImmutable
      <4>2. CASE b # "original" \/ u # job[w].upload
        BY <2>1, <4>1, <4>2 DEF Inv, Typed, Buckets
      <4>3. CASE b = "original" /\ u = job[w].upload
        <5>1. Product(w).build = NoObject
          BY <4>1, <4>3 DEF Product, At, Original
        <5> QED BY <2>1, <4>1, <4>3, <5>1 DEF Inv, Typed, Buckets
      <4> QED BY <4>2, <4>3
    <3> QED BY <1>7, <3>1, <3>2
            DEF Load, Examine, Complete, StoreConflict, apiVars
  <2>7. \A u \in Uploads :
          State(u)' = "REJECTED" /\ row'[u].reason = "IMMUTABLE_OBJECT_CONFLICT"
            => \/ Obstructed(u)
               \/ State(u) = "REJECTED" /\ row[u].reason = "IMMUTABLE_OBJECT_CONFLICT"
    <3>1. CASE row' = row
      BY <3>1 DEF State
    <3>2. ASSUME Complete(w), NEW u \in Uploads, row'[u] # row[u],
                 State(u)' = "REJECTED", row'[u].reason = "IMMUTABLE_OBJECT_CONFLICT"
          PROVE  Obstructed(u)
      <4>1. row' = [row EXCEPT ![job[w].upload] = Decide(job[w].upload, job[w].outcome)]
        BY <3>2 DEF Complete
      <4>2. u = job[w].upload /\ row'[u] = Decide(u, job[w].outcome)
        BY <2>1, <3>2, <4>1 DEF Inv, Typed
      <4>3. row[u] \in Row
        BY <2>1, <4>2, JobFacts
      <4>4. State(u) = "SCAN_PENDING" /\ row'[u].state = "REJECTED"
        BY <3>2, <4>2 DEF Decide, State
      <4>5. row'[u] = [row[u] EXCEPT !.state = "REJECTED", !.reason = job[w].outcome]
        BY <4>2, <4>3, <4>4 DEF Decide, Row
      <4>6. job[w].outcome = "IMMUTABLE_OBJECT_CONFLICT"
        BY <3>2, <4>3, <4>5 DEF Row
      <4> QED BY <1>1, <2>1, <4>2, <4>6
    <3>3. CASE Complete(w)
      BY <3>2, <3>3 DEF State
    <3> QED BY <1>7, <3>1, <3>3
            DEF Load, Examine, StoreImmutable, StoreConflict, apiVars
  <2> QED BY <1>0, <2>1, <2>5, <2>6, <2>7, NoNewConflict
<1>8. ASSUME NEW w \in Workers,
             \/ Ack(w) \/ FailWithoutSession(w) \/ Fail(w)
             \/ \E b \in Buckets : StoreTooLong(w, b)
      PROVE  ReleaseInv'
  <2>1. /\ job[w] # Idle /\ job[w].upload \in Uploads /\ EndJob(w)
        /\ UNCHANGED <<row, stored>>
    BY <1>8, JobFacts
    DEF Ack, FailWithoutSession, Fail, Requeue, StoreTooLong, At, apiVars
  <2>2. job'[w] = Idle /\ \A v \in Workers \ {w} : job'[v] = job[v]
    BY <2>1 DEF EndJob, Inv, Typed
  <2>3. \A u \in Uploads : u \in dead' => u \in dead \/ Obstructed(u)
    <3>1. \A b \in Buckets : StoreTooLong(w, b) => Obstructed(job[w].upload)
      BY ObstacleIsADerivative DEF StoreTooLong, TooLongToCompare
    <3> QED BY <1>8, <3>1
            DEF Ack, FailWithoutSession, Fail, Requeue, StoreTooLong
  <2> QED BY <1>0, <1>1, <2>1, <2>2, <2>3, NoNewConflict DEF State
<1>9. ASSUME NEW w \in Workers, LoseSession(w) PROVE ReleaseInv'
  <2> DEFINE new == [job[w] EXCEPT !.connected = FALSE]
  <2>1. /\ job[w] # Idle /\ job[w] \in Job /\ job' = [job EXCEPT ![w] = new]
        /\ UNCHANGED <<row, stored, dead>>
    BY <1>9, JobFacts DEF LoseSession, apiVars
  <2>2. new.upload = job[w].upload /\ new.outcome = job[w].outcome
    BY <2>1 DEF Job
  <2> HIDE DEF new
  <2>3. job'[w] = new /\ \A v \in Workers \ {w} : job'[v] = job[v]
    BY <2>1 DEF Inv, Typed
  <2> QED BY <1>0, <1>1, <2>1, <2>2, <2>3, NoNewConflict DEF State
<1>10. CASE UNCHANGED vars
  BY <1>2, <1>10 DEF vars, apiVars, workerVars
<1> QED
  BY <1>3, <1>4, <1>5, <1>6, <1>7, <1>8, <1>9, <1>10 DEF Next, Work, Store

\* While one release runs, workers that overtake each other, lose their sessions
\* or repeat each other's work are never in each other's way (storeImmutable).
THEOREM WorkersAgree == Spec => []OnlyReleasesConflict
<1>1. Init => ReleaseInv
  BY DEF Init, ReleaseInv, OnlyReleasesConflict, State, Buckets
<1>2. ReleaseInv => OnlyReleasesConflict
  BY DEF ReleaseInv
<1> QED BY <1>1, <1>2, Invariance, ReleaseStep, PTL DEF Spec

=============================================================================
