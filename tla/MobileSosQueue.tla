--------------------------- MODULE MobileSosQueue ---------------------------
(***************************************************************************)
(* The SOS queue of the citizen's phone: SosSubmissionService with its     *)
(* callers in SosScreen, the encrypted store and the HTTP transport.       *)
(*                                                                         *)
(* The service is asynchronous.  Every access to the store is an operation *)
(* under withQueueLock: operations run one after the other in the order    *)
(* they were asked for, and each is a load, an await, and a save of the    *)
(* whole envelope.  Three tasks ask for them: a submission, a drain, and a *)
(* recovery when the screen is mounted.  At most one submission and one    *)
(* drain are active; later calls share the promise of the active one,      *)
(* which changes nothing.                                                  *)
(*                                                                         *)
(* The server is the intake of SosIntake while the key of an item lives:   *)
(* it takes an item once and acknowledges it again when it is repeated.    *)
(* An item is known by its clientEventId, which stands for its             *)
(* idempotency key and payload too; retryCount is diagnostic.              *)
(***************************************************************************)
EXTENDS Naturals, Sequences

CONSTANTS
  Items,          \* SOS requests the citizen may make
  None,
  MaxFaults       \* bound: failed store accesses, failed sends, app restarts

ASSUME QueueAssumption == None \notin Items /\ MaxFaults \in Nat

VARIABLES
  store,          \* the envelope in the keychain
  waiting,        \* tasks with an operation under or behind the queue lock
  view,           \* view[t]: what task t's operation has loaded, or None
  submitPc,       \* activeSubmit
  submitted,      \* the item being submitted, and
  online,         \* the caller's idea of the network
  drainPc,        \* activeDrain
  sending,        \* the item drain has in hand, and
  failure,        \* the error it is about to record
  result,         \* the state of its item the last online submission returned
  blocked,        \* secureQueueError: the screen refuses to send
  wire,           \* requests that may still reach the server
  accepted,       \* items the server has taken
  faults

phone  == <<submitPc, submitted, online, drainPc, sending, failure>>
server == <<wire, accepted>>
vars   == <<store, waiting, view, phone, result, blocked, server, faults>>

Tasks          == {"submit", "drain", "recover"}
DeliveryStates == {"SAVED_ON_DEVICE", "SENDING", "SERVER_ACKNOWLEDGED",
                   "SEND_FAILED"}
Retryable      == {"NETWORK_UNAVAILABLE", "HTTP_RETRYABLE"}
Codes          == Retryable \union {"HTTP_REJECTED", "INVALID_ACKNOWLEDGEMENT"}
Entry          == [id : Items, state : DeliveryStates,
                   error : Codes \union {"none"}]

Ids(envelope) == {envelope[n].id : n \in DOMAIN envelope}

Init ==
  /\ store = <<>>
  /\ waiting = <<>>
  /\ view = [t \in Tasks |-> None]
  /\ submitPc = "idle" /\ submitted = None /\ online = FALSE
  /\ drainPc = "idle" /\ sending = None /\ failure = "none"
  /\ result = "none"
  /\ blocked = FALSE
  /\ wire = {} /\ accepted = {}
  /\ faults = 0

-----------------------------------------------------------------------------
(***************************************************************************)
(* The queue lock.                                                         *)
(***************************************************************************)

Waits(t) == \E n \in DOMAIN waiting : waiting[n] = t

\* The operation of task t is the one under the lock.
Runs(t) == waiting # <<>> /\ Head(waiting) = t

\* The queue after the operation under the lock.
Released == Tail(waiting)

Load(t) ==
  /\ Runs(t)
  /\ view[t] = None
  /\ view' = [view EXCEPT ![t] = store]
  /\ UNCHANGED <<store, waiting, phone, result, blocked, server, faults>>

\* Task t has loaded the envelope and is about to end its operation.
Loaded(t) == Runs(t) /\ view[t] # None

\* It saves an envelope, or nothing.
Save(t, envelope) ==
  /\ store' = envelope
  /\ view' = [view EXCEPT ![t] = None]

SaveNothing(t) == Save(t, store)

\* The envelope task t has loaded, with the entry of item i replaced.
Replaced(t, i, state, error) ==
  [n \in DOMAIN view[t] |->
     IF view[t][n].id = i THEN [id |-> i, state |-> state, error |-> error]
     ELSE view[t][n]]

-----------------------------------------------------------------------------
(***************************************************************************)
(* submit(input, online)                                                   *)
(***************************************************************************)
Submit(i, isOnline) ==
  /\ submitPc = "idle"
  /\ ~blocked
  /\ i \notin Ids(store)
  /\ submitPc' = "append" /\ submitted' = i /\ online' = isOnline
  /\ result' = "none"
  /\ waiting' = Append(waiting, "submit")
  /\ UNCHANGED <<store, view, drainPc, sending, failure, blocked, server,
                 faults>>

\* The item is stored before anything is sent.  An online submission then waits
\* for the active drain, or starts one.
AppendItem ==
  /\ Loaded("submit") /\ submitPc = "append"
  /\ Save("submit", Append(view["submit"],
                           [id |-> submitted, state |-> "SAVED_ON_DEVICE",
                            error |-> "none"]))
  /\ IF online /\ drainPc = "idle"
     THEN /\ drainPc' = "recover"
          /\ waiting' = Append(Released, "drain")
     ELSE /\ waiting' = Released
          /\ UNCHANGED drainPc
  /\ submitPc' = IF online THEN "drain" ELSE "idle"
  /\ submitted' = IF online THEN submitted ELSE None
  /\ UNCHANGED <<online, sending, failure, result, blocked, server, faults>>

-----------------------------------------------------------------------------
(***************************************************************************)
(* drain() and recover()                                                   *)
(***************************************************************************)

\* The screen hears that the network is back and starts a drain.
Reconnect ==
  /\ drainPc = "idle"
  /\ drainPc' = "recover"
  /\ waiting' = Append(waiting, "drain")
  /\ UNCHANGED <<store, view, submitPc, submitted, online, sending, failure,
                 result, blocked, server, faults>>

\* The screen is mounted: its error is forgotten, the queue recovered.
Mount ==
  /\ ~Waits("recover")
  /\ waiting' = Append(waiting, "recover")
  /\ blocked' = FALSE
  /\ UNCHANGED <<store, view, phone, result, server, faults>>

\* Deviation: interrupted sends are left as they are.
RecoveredNothing(t) == view[t]

\* The envelope t has loaded, with interrupted sends made eligible again.
Recovered(t) ==
  [n \in DOMAIN view[t] |->
     IF view[t][n].state = "SENDING"
     THEN [view[t][n] EXCEPT !.state = "SAVED_ON_DEVICE"] ELSE view[t][n]]

Recover ==
  /\ Loaded("recover")
  /\ Save("recover", Recovered("recover"))
  /\ waiting' = Released
  /\ UNCHANGED <<phone, result, blocked, server, faults>>

\* Drain asks for its next operation, behind the given queue.
DrainGoesTo(pc, queue) ==
  /\ drainPc' = pc
  /\ waiting' = Append(queue, "drain")

DrainRecovers ==
  /\ Loaded("drain") /\ drainPc = "recover"
  /\ Save("drain", Recovered("drain"))
  /\ DrainGoesTo("claim", Released)
  /\ UNCHANGED <<submitPc, submitted, online, sending, failure, result, blocked,
                 server, faults>>

\* Deviation: only lost connections are retried, not errors of the server.
EligibleUnlessAnswered(entry) ==
  \/ entry.state = "SAVED_ON_DEVICE"
  \/ entry.state = "SEND_FAILED" /\ entry.error = "NETWORK_UNAVAILABLE"

\* Deviation: whatever has failed once is sent again, and so is what has not.
EligibleAny(entry) == TRUE

Eligible(entry) ==
  \/ entry.state = "SAVED_ON_DEVICE"
  \/ entry.state = "SEND_FAILED" /\ entry.error \in Retryable

EligibleAt == {n \in DOMAIN view["drain"] : Eligible(view["drain"][n])}

\* The first eligible item is marked and its request leaves the phone.
ClaimItem ==
  /\ Loaded("drain") /\ drainPc = "claim"
  /\ \E n \in EligibleAt :
       /\ \A m \in EligibleAt : n <= m
       /\ sending' = view["drain"][n].id
  /\ Save("drain", Replaced("drain", sending', "SENDING", "none"))
  /\ drainPc' = "sending"
  /\ waiting' = Released
  /\ wire' = wire \union {sending'}
  /\ UNCHANGED <<submitPc, submitted, online, failure, result, blocked,
                 accepted, faults>>

NothingToSend ==
  /\ Loaded("drain") /\ drainPc = "claim"
  /\ EligibleAt = {}
  /\ SaveNothing("drain")
  /\ DrainGoesTo("reload", Released)
  /\ UNCHANGED <<submitPc, submitted, online, sending, failure, result, blocked,
                 server, faults>>

Acknowledge ==
  /\ drainPc = "sending"
  /\ sending \in accepted
  /\ DrainGoesTo("ack", waiting)
  /\ UNCHANGED <<store, view, submitPc, submitted, online, sending, failure,
                 result, blocked, server, faults>>

\* The send fails: the request may be lost, under way, or even taken.
SendFails(code) ==
  /\ drainPc = "sending"
  /\ IF code \in Retryable
     THEN faults < MaxFaults /\ faults' = faults + 1
     ELSE UNCHANGED faults
  /\ failure' = code
  /\ wire' \in {wire, wire \ {sending}}
  /\ DrainGoesTo("fail", waiting)
  /\ UNCHANGED <<store, view, submitPc, submitted, online, sending, result,
                 blocked, accepted>>

StoreAcknowledgement ==
  /\ Loaded("drain") /\ drainPc = "ack"
  /\ sending \in Ids(view["drain"])
  /\ Save("drain", Replaced("drain", sending, "SERVER_ACKNOWLEDGED", "none"))
  /\ DrainGoesTo("claim", Released)
  /\ sending' = None
  /\ UNCHANGED <<submitPc, submitted, online, failure, result, blocked, server,
                 faults>>

\* A retryable failure ends the drain, another one is left behind.
StoreFailure ==
  /\ Loaded("drain") /\ drainPc = "fail"
  /\ sending \in Ids(view["drain"])
  /\ Save("drain", Replaced("drain", sending, "SEND_FAILED", failure))
  /\ DrainGoesTo(IF failure \in Retryable THEN "reload" ELSE "claim", Released)
  /\ sending' = None /\ failure' = "none"
  /\ UNCHANGED <<submitPc, submitted, online, result, blocked, server, faults>>

\* What a submission finds of its item in the envelope the drain returned.
Found(i) ==
  IF i \in Ids(store)
  THEN LET n == CHOOSE m \in DOMAIN store : store[m].id = i IN store[n].state
  ELSE "missing"

\* The drain returns the queue, and the submission waiting for it its item.
Reload ==
  /\ Loaded("drain") /\ drainPc = "reload"
  /\ SaveNothing("drain")
  /\ waiting' = Released
  /\ drainPc' = "idle" /\ sending' = None /\ failure' = "none"
  /\ IF submitPc = "drain"
     THEN /\ result' = Found(submitted)
          /\ submitPc' = "idle" /\ submitted' = None
     ELSE UNCHANGED <<result, submitPc, submitted>>
  /\ UNCHANGED <<online, blocked, server, faults>>

-----------------------------------------------------------------------------
(***************************************************************************)
(* The surroundings: the keychain, the operating system, the server.       *)
(***************************************************************************)

\* The promise of the active drain rejects, and with it that of a submission
\* that waits for it.
DrainRejects ==
  /\ drainPc' = "idle" /\ sending' = None /\ failure' = "none"
  /\ IF submitPc = "drain" THEN submitPc' = "idle" /\ submitted' = None
     ELSE UNCHANGED <<submitPc, submitted>>
  /\ waiting' = Released
  /\ blocked' = TRUE

\* The load or the save of an operation throws.  A drain that cannot store an
\* acknowledgement goes on to store a failure; otherwise the task is over and
\* the screen shows the queue as broken.
OpFails(t) ==
  /\ Runs(t)
  /\ faults < MaxFaults
  /\ faults' = faults + 1
  /\ view' = [view EXCEPT ![t] = None]
  /\ \/ /\ t = "submit"
        /\ submitPc' = "idle" /\ submitted' = None
        /\ waiting' = Released
        /\ blocked' = TRUE
        /\ UNCHANGED <<drainPc, sending, failure>>
     \/ /\ t = "recover"
        /\ waiting' = Released
        /\ blocked' = TRUE
        /\ UNCHANGED <<submitPc, submitted, drainPc, sending, failure>>
     \/ /\ t = "drain" /\ drainPc = "ack"
        /\ failure' = "NETWORK_UNAVAILABLE"
        /\ DrainGoesTo("fail", Released)
        /\ UNCHANGED <<submitPc, submitted, sending, blocked>>
     \/ /\ t = "drain" /\ drainPc # "ack"
        /\ DrainRejects
  /\ UNCHANGED <<store, online, result, server>>

\* The app is killed and started again: only the store is left.
Crash ==
  /\ faults < MaxFaults
  /\ faults' = faults + 1
  /\ waiting' = <<>>
  /\ view' = [t \in Tasks |-> None]
  /\ submitPc' = "idle" /\ submitted' = None /\ online' = FALSE
  /\ result' = "none"
  /\ drainPc' = "idle" /\ sending' = None /\ failure' = "none"
  /\ blocked' = FALSE
  /\ wire' \in SUBSET wire
  /\ UNCHANGED <<store, accepted>>

ServerAccept(i) ==
  /\ i \in wire
  /\ wire' = wire \ {i}
  /\ accepted' = accepted \union {i}
  /\ UNCHANGED <<store, waiting, view, phone, result, blocked, faults>>

\* One step of the operation under the lock, if the keychain does not throw.
Operate ==
  \/ \E t \in Tasks : Load(t)
  \/ AppendItem
  \/ Recover
  \/ DrainRecovers
  \/ ClaimItem
  \/ NothingToSend
  \/ StoreAcknowledgement
  \/ StoreFailure
  \/ Reload

\* The transport settles: fetch resolves or throws.
Settle == Acknowledge \/ \E code \in Codes : SendFails(code)

Next ==
  \/ \E i \in Items, isOnline \in BOOLEAN : Submit(i, isOnline)
  \/ Reconnect
  \/ Mount
  \/ Operate
  \/ Settle
  \/ \E t \in Tasks : OpFails(t)
  \/ Crash
  \/ \E i \in Items : ServerAccept(i)

\* The event loop runs every queued operation, a request does not hang for
\* ever, and the phone hears of a network again and again.
Fairness == WF_vars(Operate) /\ WF_vars(Settle) /\ WF_vars(Reconnect)

Spec == Init /\ [][Next]_vars /\ Fairness

-----------------------------------------------------------------------------
(***************************************************************************)
(* Properties.                                                             *)
(***************************************************************************)

Phases == {"idle", "recover", "claim", "sending", "ack", "fail", "reload"}

IsEnvelope(e) ==
  /\ DOMAIN e = 1..Len(e)
  /\ \A n \in DOMAIN e : e[n] \in Entry

\* The shape of the state; every item is stored at most once, and each task
\* stands at most once in the queue of the lock.
TypeOK ==
  /\ IsEnvelope(store)
  /\ \A m, n \in DOMAIN store : store[m].id = store[n].id => m = n
  /\ \A n \in DOMAIN waiting : waiting[n] \in Tasks
  /\ \A m, n \in DOMAIN waiting : waiting[m] = waiting[n] => m = n
  /\ \A t \in Tasks : view[t] = None \/ IsEnvelope(view[t])
  /\ submitPc \in {"idle", "append", "drain"}
  /\ submitted \in Items \union {None}
  /\ drainPc \in Phases
  /\ sending \in Items \union {None}
  /\ failure \in Codes \union {"none"}
  /\ result \in DeliveryStates \union {"none", "missing"}
  /\ online \in BOOLEAN /\ blocked \in BOOLEAN
  /\ wire \subseteq Items /\ accepted \subseteq Items
  /\ faults \in 0..MaxFaults

State(i) == {store[n].state : n \in {m \in DOMAIN store : store[m].id = i}}

Acknowledged == {i \in Items : "SERVER_ACKNOWLEDGED" \in State(i)}

GivenUp ==
  {store[n].id : n \in {m \in DOMAIN store :
     /\ store[m].state = "SEND_FAILED"
     /\ store[m].error \notin Retryable}}

\* A request is marked as being sent only while the drain has it in hand, or
\* until the next drain or recovery has looked at it: two stored items are
\* never marked at once, whatever was interrupted.
OneMarkedAsSending ==
  \A m, n \in DOMAIN store :
    store[m].state = "SENDING" /\ store[n].state = "SENDING" => m = n

Delivery == INSTANCE EventDelivery
  WITH Events <- Items, Deliverable <- Items,
       recorded <- Ids(store), delivered <- accepted, settled <- Acknowledged

\* The queue keeps the promise of a store-and-forward queue: a stored SOS is
\* never forgotten, the server gets nothing the phone has not stored, an SOS is
\* shown as acknowledged only after the server took it, and stays so.
KeepsPromise == Delivery!SafeSpec

\* Every SOS the phone has stored is acknowledged in the end, or is left with an
\* error that the code does not retry; in spite of restarts, failed sends and
\* failed store accesses in between.
EverySosSettles ==
  \A i \in Items : i \in Ids(store) ~> i \in Acknowledged \union GivenUp

\* What UAT-01 promises of an SOS that is submitted online, on a network without
\* faults: the caller is not told that it is merely saved on the device.
OnlineSubmissionIsSent == result # "SAVED_ON_DEVICE"

\* Nothing the service waits for can fail to come: a submission has its
\* operation behind the lock or a drain to wait for, a drain has its operation
\* behind the lock or a request under way, and the item whose outcome it is to
\* store is in the envelope.
NobodyIsStuck ==
  /\ submitPc = "append" => Waits("submit")
  /\ submitPc = "drain" => drainPc # "idle"
  /\ drainPc \notin {"idle", "sending"} => Waits("drain")
  /\ drainPc \in {"ack", "fail"} => sending \in Ids(store)

\* Every stored SOS that is neither acknowledged nor given up will be sent
\* again: it is eligible, or the drain has it in hand, or it is marked as being
\* sent and the next drain begins by making such items eligible.
NoSosIsForgotten ==
  \A n \in DOMAIN store :
    \/ store[n].id \in Acknowledged \union GivenUp
    \/ Eligible(store[n])
    \/ store[n].state = "SENDING" /\ drainPc \in {"idle", "recover"}
    \/ store[n].id = sending /\ drainPc \in {"sending", "ack", "fail"}

\* An SOS that was acknowledged or given up is never sent or marked again,
\* though answers arrive late and recoveries rewrite the whole envelope.
SettledIsFinal ==
  [][Acknowledged \subseteq Acknowledged' /\ GivenUp \subseteq GivenUp']_vars

=============================================================================
