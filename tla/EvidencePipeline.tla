-------------------------- MODULE EvidencePipeline --------------------------
(***************************************************************************)
(* A photograph on its way from a citizen to the evidence store:           *)
(*   - EvidenceService and PostgresEvidenceRepository (apps/api/...        *)
(*     /evidence): initiate hands out a signed URL to the quarantine       *)
(*     bucket, finalize asks for the scan of what was uploaded there;      *)
(*   - the evidence media worker (apps/worker/src/evidence): reads the     *)
(*     quarantined bytes, checks and scans them, stores a derivative and   *)
(*     the original, and decides the upload;                               *)
(*   - evidence-lifecycle.ts: the checks both sides share.                 *)
(* The uploader may PUT again for as long as the URL is valid, whatever    *)
(* the API and the worker are doing.  One event per upload asks for the    *)
(* scan; the queue may deliver it again.  A worker holds a session-level   *)
(* advisory lock while it works; losing the session releases the lock      *)
(* without stopping the worker.                                            *)
(***************************************************************************)
EXTENDS Naturals

CONSTANTS
  Uploads,       \* upload ids
  Keys,          \* idempotency keys of initiate
  Contents,      \* contents: records [sha256, mime, size, clean, decodes]
  Requests,      \* declarations: records [sha256, mime, size]
  AllowedMimes,  \* allowedMimeTypes
  MaxBytes,      \* maxBytes
  Calls,         \* concurrent finalize calls
  Workers,       \* evidence media workers
  Build,         \* Build[w]: the release of the image library w runs
  LongerThan,    \* pairs <<b, c>>: build b's derivatives are longer than c's
  MaxFaults,     \* bound: failures, lost sessions and repeated deliveries
  NoUpload, NoObject, NoKey, Idle, Free

States == {"INITIATED", "SCAN_PENDING", "READY", "REJECTED"}

\* NONE: the worker has not examined anything.
Outcomes ==
  {"NONE", "READY", "QUARANTINE_OBJECT_MISSING", "SIZE_MISMATCH", "HASH_MISMATCH",
   "UNSUPPORTED_MEDIA", "MIME_MISMATCH", "MALWARE_DETECTED",
   "IMMUTABLE_OBJECT_CONFLICT"}

\* What a worker does next for the scan request it has taken.
Steps == {"load", "examine", "derivative", "original", "complete", "ack"}

\* A hash tells contents apart.
ASSUME EvidenceAssumption ==
  /\ MaxFaults \in Nat
  /\ \A b, c \in Contents : b.sha256 = c.sha256 => b = c
  /\ \A b \in Contents : b.clean \in BOOLEAN /\ b.decodes \in BOOLEAN
  /\ \A q \in Requests :
       q = [sha256 |-> q.sha256, mime |-> q.mime, size |-> q.size]
  /\ NoUpload \notin [state : States, declared : Requests, reason : Outcomes]
  /\ NoObject \notin [bytes : Contents, type : AllowedMimes]
  /\ NoObject \notin [bytes : Contents,
                       build : {Build[w] : w \in Workers} \union {NoObject}]
  /\ Idle \notin [upload : Uploads, step : Steps,
                   bytes : [bytes : Contents, type : AllowedMimes] \union {NoObject},
                   outcome : Outcomes, connected : BOOLEAN]
  /\ Free \notin Workers

VARIABLES
  row,         \* row[u]: committed row of evidence.uploads, or NoUpload
  keys,        \* keys[k]: request and upload of a completed key, or NoKey
  expired,     \* uploads whose expires_at has passed
  quarantine,  \* quarantine[u]: bytes and content type, or NoObject
  sent,        \* history: everything that was ever PUT for u
  call,        \* call[c]: upload and step of a finalize call, or Idle
  queue,       \* queue[u]: waiting copies of u's scan request
  inbox,       \* uploads whose scan request is in platform.inbox_messages
  dead,        \* uploads whose scan request was rejected for good
  lock,        \* lock[u]: the worker with the advisory lock, or Free
  job,         \* job[w]: what worker w is doing, or Idle
  stored,      \* stored[bucket][u]: immutable object, or NoObject
  faults

apiVars == <<row, keys, expired, quarantine, sent, call>>
workerVars == <<inbox, dead, lock, job, stored>>
vars == <<apiVars, queue, workerVars, faults>>

Buckets == {"derivative", "original"}

-----------------------------------------------------------------------------
\* evidence-lifecycle.ts and the checks around it

\* initiate accepts the declaration.
MayInitiate(request) ==
  request.mime \in AllowedMimes /\ request.size <= MaxBytes

\* finalize: what HEAD says of the quarantined object is what was declared.
LooksAsDeclared(object, declared) ==
  /\ object # NoObject
  /\ object.type = declared.mime
  /\ object.bytes.size = declared.size

\* evaluate, up to the stores, and the failed reads process maps to an outcome.
Verdict(object, declared) ==
  CASE object = NoObject -> "QUARANTINE_OBJECT_MISSING"
    [] object # NoObject /\ object.bytes.size # declared.size -> "SIZE_MISMATCH"
    [] object # NoObject /\ object.bytes.size = declared.size ->
         IF object.bytes.sha256 # declared.sha256 THEN "HASH_MISMATCH"
         ELSE IF object.bytes.mime \notin {"image/jpeg", "image/png"}
           THEN "UNSUPPORTED_MEDIA"
         ELSE IF object.bytes.mime # declared.mime THEN "MIME_MISMATCH"
         ELSE IF ~object.bytes.clean THEN "MALWARE_DETECTED"
         ELSE IF ~object.bytes.decodes THEN "UNSUPPORTED_MEDIA"
         ELSE "READY"

State(u) == IF row[u] = NoUpload THEN "NONE" ELSE row[u].state
Decided(u) == State(u) \in {"READY", "REJECTED"}

-----------------------------------------------------------------------------
Init ==
  /\ row = [u \in Uploads |-> NoUpload]
  /\ keys = [k \in Keys |-> NoKey]
  /\ expired = {}
  /\ quarantine = [u \in Uploads |-> NoObject]
  /\ sent = [u \in Uploads |-> {}]
  /\ call = [c \in Calls |-> Idle]
  /\ queue = [u \in Uploads |-> 0]
  /\ inbox = {}
  /\ dead = {}
  /\ lock = [u \in Uploads |-> Free]
  /\ job = [w \in Workers |-> Idle]
  /\ stored = [b \in Buckets |-> [u \in Uploads |-> NoObject]]
  /\ faults = 0

KeyIsFree(k) == IF keys[k] = NoKey THEN TRUE ELSE keys[k].upload \in expired

\* createOrReplay for a key that is free, or whose entry ran out with the
\* upload it names.  With a key in use the caller gets the upload again, or an
\* error, and nothing changes.
Initiate(u, k, request) ==
  /\ MayInitiate(request)
  /\ row[u] = NoUpload
  /\ KeyIsFree(k)
  /\ row' = [row EXCEPT ![u] =
               [state |-> "INITIATED", declared |-> request, reason |-> "NONE"]]
  /\ keys' = [keys EXCEPT ![k] = [request |-> request, upload |-> u]]
  /\ UNCHANGED <<expired, quarantine, sent, call, queue, workerVars, faults>>

\* The uploader uses the signed URL; content-type is the uploader's choice.
Put(u, bytes, type) ==
  /\ row[u] # NoUpload
  /\ u \notin expired
  /\ quarantine' = [quarantine EXCEPT ![u] = [bytes |-> bytes, type |-> type]]
  /\ sent' = [sent EXCEPT ![u] = @ \union {[bytes |-> bytes, type |-> type]}]
  /\ UNCHANGED <<row, keys, expired, call, queue, workerVars, faults>>

Expire(u) ==
  /\ row[u] # NoUpload
  /\ u \notin expired
  /\ expired' = expired \union {u}
  /\ UNCHANGED <<row, keys, quarantine, sent, call, queue, workerVars, faults>>

-----------------------------------------------------------------------------
\* finalize: the row is read, the object inspected, and the row written, with
\* an await between each.

\* getForFinalize; the caller knows the capability and the declared hash.
BeginFinalize(c, u) ==
  /\ call[c] = Idle
  /\ row[u] # NoUpload
  /\ ~(State(u) = "INITIATED" /\ u \in expired)
  /\ call' = [call EXCEPT ![c] =
       [upload |-> u,
        step |-> IF State(u) = "INITIATED" THEN "inspect" ELSE "commit"]]
  /\ UNCHANGED <<row, keys, expired, quarantine, sent, queue, workerVars, faults>>

\* Deviation: finalize believes the caller that the object is there.
InspectNothing(c) ==
  /\ call[c] # Idle /\ call[c].step = "inspect"
  /\ call' = [call EXCEPT ![c].step = "commit"]
  /\ UNCHANGED <<row, keys, expired, quarantine, sent, queue, workerVars, faults>>

\* inspectQuarantineObject
Inspect(c) ==
  /\ call[c] # Idle /\ call[c].step = "inspect"
  /\ call' = [call EXCEPT ![c] =
       IF LooksAsDeclared(quarantine[@.upload], row[@.upload].declared)
       THEN [@ EXCEPT !.step = "commit"] ELSE Idle]
  /\ UNCHANGED <<row, keys, expired, quarantine, sent, queue, workerVars, faults>>

\* PostgresEvidenceRepository.finalize: only the first one asks for a scan.
CommitFinalize(c) ==
  /\ call[c] # Idle /\ call[c].step = "commit"
  /\ LET u == call[c].upload IN
     IF State(u) = "INITIATED"
     THEN /\ row' = [row EXCEPT ![u].state = "SCAN_PENDING"]
          /\ queue' = [queue EXCEPT ![u] = @ + 1]
     ELSE UNCHANGED <<row, queue>>
  /\ call' = [call EXCEPT ![c] = Idle]
  /\ UNCHANGED <<keys, expired, quarantine, sent, workerVars, faults>>

-----------------------------------------------------------------------------
\* The worker

At(w, step) == job[w] # Idle /\ job[w].step = step

\* poll and tryAcquire; a locked upload is put back in the queue at once.
Take(w, u) ==
  /\ job[w] = Idle
  /\ queue[u] > 0
  /\ lock[u] = Free
  /\ queue' = [queue EXCEPT ![u] = @ - 1]
  /\ lock' = [lock EXCEPT ![u] = w]
  /\ job' = [job EXCEPT ![w] = [upload |-> u, step |-> "load",
               bytes |-> NoObject, outcome |-> "NONE", connected |-> TRUE]]
  /\ UNCHANGED <<apiVars, inbox, dead, stored, faults>>

\* load
Load(w) ==
  /\ At(w, "load") /\ job[w].connected
  /\ job' = [job EXCEPT ![w].step =
       IF State(job[w].upload) = "SCAN_PENDING" THEN "examine" ELSE "complete"]
  /\ UNCHANGED <<apiVars, queue, inbox, dead, lock, stored, faults>>

\* readQuarantine and evaluate: from here on the worker has its own copy.
Examine(w) ==
  /\ At(w, "examine")
  /\ LET u == job[w].upload
         outcome == Verdict(quarantine[u], row[u].declared) IN
     job' = [job EXCEPT ![w] =
       [@ EXCEPT !.bytes = quarantine[u], !.outcome = outcome,
                 !.step = IF outcome = "READY" THEN "derivative" ELSE "complete"]]
  /\ UNCHANGED <<apiVars, queue, inbox, dead, lock, stored, faults>>

\* Deviation: the original is read from quarantine when it is stored.
OriginalNow(w) == [bytes |-> quarantine[job[w].upload].bytes, build |-> NoObject]

\* What the worker is about to store.  The derivative is made from the bytes by
\* the image library; its length tells builds apart.
Original(w) == [bytes |-> job[w].bytes.bytes, build |-> NoObject]

Product(w) ==
  IF At(w, "derivative")
  THEN [bytes |-> job[w].bytes.bytes, build |-> Build[w]] ELSE Original(w)

\* The job ends: unlock if the lock is still held, then the disposition.
EndJob(w) ==
  /\ lock' = [u \in Uploads |-> IF lock[u] = w THEN Free ELSE lock[u]]
  /\ job' = [job EXCEPT ![w] = Idle]

\* Deviation: no If-None-Match.
OverwritableBy(w, b) == TRUE

\* storeImmutable: If-None-Match, then the same bytes again are a success.
StorableBy(w, b) == stored[b][job[w].upload] \in {NoObject, Product(w)}

StoreImmutable(w, b) ==
  /\ At(w, b)
  /\ StorableBy(w, b)
  /\ stored' = [stored EXCEPT ![b][job[w].upload] = Product(w)]
  /\ job' = [job EXCEPT ![w].step =
               IF b = "derivative" THEN "original" ELSE "complete"]
  /\ UNCHANGED <<apiVars, queue, inbox, dead, lock, faults>>

\* The read that compares is limited to the length of what was to be stored.
TooLongToCompare(w, b) ==
  /\ ~StorableBy(w, b)
  /\ <<stored[b][job[w].upload].build, Product(w).build>> \in LongerThan

\* IMMUTABLE_OBJECT_CONFLICT becomes the outcome.
StoreConflict(w, b) ==
  /\ At(w, b)
  /\ ~StorableBy(w, b)
  /\ ~TooLongToCompare(w, b)
  /\ job' = [job EXCEPT ![w].outcome = "IMMUTABLE_OBJECT_CONFLICT",
                        ![w].step = "complete"]
  /\ UNCHANGED <<apiVars, queue, inbox, dead, lock, stored, faults>>

\* SIZE_LIMIT_EXCEEDED is not caught there: the scan request is rejected, unless
\* the lock cannot be released, which FailWithoutSession is about.
StoreTooLong(w, b) ==
  /\ At(w, b)
  /\ TooLongToCompare(w, b)
  /\ job[w].connected
  /\ dead' = dead \union {job[w].upload}
  /\ EndJob(w)
  /\ UNCHANGED <<apiVars, queue, inbox, stored, faults>>

\* The row after the transaction of complete, for a scan request that is not
\* yet in the inbox.
Decide(u, outcome) ==
  IF State(u) # "SCAN_PENDING" THEN row[u]
  ELSE IF outcome = "READY" THEN [row[u] EXCEPT !.state = "READY"]
  ELSE [row[u] EXCEPT !.state = "REJECTED", !.reason = outcome]

\* complete: inbox row and decision commit together.
Complete(w) ==
  /\ At(w, "complete") /\ job[w].connected
  /\ LET u == job[w].upload IN
     /\ inbox' = inbox \union {u}
     /\ row' = IF u \in inbox THEN row
               ELSE [row EXCEPT ![u] = Decide(u, job[w].outcome)]
  /\ job' = [job EXCEPT ![w].step = "ack"]
  /\ UNCHANGED <<keys, expired, quarantine, sent, call, queue, dead, lock,
                 stored, faults>>

Ack(w) ==
  /\ At(w, "ack")
  /\ EndJob(w)
  /\ UNCHANGED <<apiVars, queue, inbox, dead, stored, faults>>

\* Deviation: a failed scan request is acknowledged.
Forget(w) ==
  /\ EndJob(w)
  /\ UNCHANGED <<apiVars, queue, inbox, dead, stored>>

\* REQUEUE after an error that may pass, or the broker's own when the worker's
\* connection ends before the acknowledgement.
Requeue(w) ==
  /\ queue' = [queue EXCEPT ![job[w].upload] = @ + 1]
  /\ EndJob(w)
  /\ UNCHANGED <<apiVars, inbox, dead, stored>>

\* Storage, scanner or database fail, or the worker crashes, at any step.
Fail(w) ==
  /\ job[w] # Idle
  /\ faults < MaxFaults
  /\ faults' = faults + 1
  /\ Requeue(w)

\* The next statement of a worker without its session fails, be it the unlock of
\* release, whose error replaces the one the job was ending with.
FailWithoutSession(w) ==
  /\ job[w] # Idle
  /\ ~job[w].connected
  /\ \/ job[w].step \in {"load", "complete", "ack"}
     \/ \E b \in Buckets : At(w, b) /\ TooLongToCompare(w, b)
  /\ Requeue(w)
  /\ UNCHANGED faults

LoseSession(w) ==
  /\ job[w] # Idle /\ job[w].connected
  /\ faults < MaxFaults
  /\ faults' = faults + 1
  /\ lock' = [u \in Uploads |-> IF lock[u] = w THEN Free ELSE lock[u]]
  /\ job' = [job EXCEPT ![w].connected = FALSE]
  /\ UNCHANGED <<apiVars, queue, inbox, dead, stored>>

\* The relay publishes the scan request again.
Republish(u) ==
  /\ State(u) \notin {"NONE", "INITIATED"}
  /\ faults < MaxFaults
  /\ faults' = faults + 1
  /\ queue' = [queue EXCEPT ![u] = @ + 1]
  /\ UNCHANGED <<apiVars, workerVars>>

-----------------------------------------------------------------------------
Uploader(u) ==
  \/ \E k \in Keys, request \in Requests : Initiate(u, k, request)
  \/ \E bytes \in Contents, type \in AllowedMimes : Put(u, bytes, type)
  \/ Expire(u)

Finalize(c) ==
  (\E u \in Uploads : BeginFinalize(c, u)) \/ Inspect(c) \/ CommitFinalize(c)

Store(w, b) == StoreImmutable(w, b) \/ StoreConflict(w, b) \/ StoreTooLong(w, b)

Work(w) ==
  \/ Load(w) \/ Examine(w) \/ Complete(w) \/ Ack(w) \/ FailWithoutSession(w)
  \/ \E b \in Buckets : Store(w, b)

Next ==
  \/ \E u \in Uploads : Uploader(u) \/ Republish(u)
  \/ \E c \in Calls : Finalize(c)
  \/ \E w \in Workers :
       (\E u \in Uploads : Take(w, u)) \/ Work(w) \/ Fail(w) \/ LoseSession(w)

\* The workers poll, and every await of theirs ends.
Fairness ==
  /\ \A u \in Uploads : WF_vars(\E w \in Workers : Take(w, u))
  /\ \A w \in Workers : WF_vars(Work(w))

Spec == Init /\ [][Next]_vars /\ Fairness

-----------------------------------------------------------------------------
\* The variables hold what the tables, the buckets and the processes can, and
\* a worker that still has its session has the lock of its upload.
TypeOK ==
  /\ \A u \in Uploads : row[u] # NoUpload =>
       row[u] \in [state : States, declared : Requests, reason : Outcomes]
  /\ \A u \in Uploads : queue[u] \in Nat
  /\ inbox \subseteq Uploads /\ dead \subseteq Uploads
  /\ lock \in [Uploads -> Workers \union {Free}]
  /\ \A w \in Workers, u \in Uploads :
       lock[u] = w <=> job[w] # Idle /\ job[w].connected /\ job[w].upload = u
  /\ faults \in 0..MaxFaults

\* What an officer is shown is what was scanned: the stored original of a READY
\* upload is clean and has the declared hash, type and size, and the derivative
\* was made from it, whatever is PUT while the API and the workers look, and
\* whichever worker stored which of the two.
ReadyIsWhatWasScanned ==
  \A u \in Uploads : State(u) = "READY" =>
    /\ \A b \in Buckets : stored[b][u] # NoObject
    /\ LET bytes == stored["original"][u].bytes IN
         /\ bytes.clean
         /\ [sha256 |-> bytes.sha256, mime |-> bytes.mime, size |-> bytes.size]
              = row[u].declared
         /\ stored["derivative"][u].bytes = bytes

\* Once an upload is decided neither its row nor the objects it stands for
\* change: not by a second delivery, and not by a worker that lost its session
\* and its lock and is still storing.
DecisionIsFinal ==
  [][\A u \in Uploads : Decided(u) =>
       /\ row'[u] = row[u]
       /\ State(u) = "READY" =>
            \A b \in Buckets : stored'[b][u] = stored[b][u]]_vars

\* An uploader who only ever sent the declared content is not turned away by
\* calling finalize early, or by a worker's failures: the one reason left is a
\* derivative that another build had stored.
HonestUploadIsKept ==
  \A u \in Uploads :
    State(u) = "REJECTED"
      /\ (\A object \in sent[u] : Verdict(object, row[u].declared) = "READY")
      => row[u].reason = "IMMUTABLE_OBJECT_CONFLICT"

\* The exception needs two releases: as long as all workers run one build, no
\* original or derivative of a worker is in another one's way, no upload is
\* refused for a conflict, and no scan request is given up.
OnlyReleasesConflict ==
  \A u \in Uploads :
    u \in dead \/ (State(u) = "REJECTED" /\ row[u].reason = "IMMUTABLE_OBJECT_CONFLICT")
      => /\ stored["derivative"][u] # NoObject
         /\ \E w \in Workers : stored["derivative"][u].build # Build[w]

\* A scan that was asked for is never forgotten: the request waits, or a worker
\* has it and has not completed it, or it was rejected for good.  What a worker
\* acknowledges it has decided, with or without its session.
NoScanIsForgotten ==
  \A u \in Uploads : State(u) = "SCAN_PENDING" =>
    \/ queue[u] > 0
    \/ \E w \in Workers : /\ job[w] # Idle /\ job[w].upload = u
                          /\ job[w].step # "ack"
    \/ u \in dead

\* Every upload whose scan was asked for is decided, or its request is rejected
\* for good.
EveryScanIsDecided ==
  \A u \in Uploads :
    State(u) = "SCAN_PENDING" ~> (Decided(u) \/ u \in dead)

=============================================================================
