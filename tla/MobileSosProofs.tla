--------------------------- MODULE MobileSosProofs ---------------------------
(***************************************************************************)
(* Safety of the phone's SOS queue for any number of SOS requests and      *)
(* faults.  The argument: only the task at the head of the lock's queue    *)
(* has loaded the envelope, so what it has loaded is what is stored, and   *)
(* its save overwrites nobody; between two operations of the drain the     *)
(* others only append requests or make interrupted ones eligible again.    *)
(***************************************************************************)
EXTENDS MobileSosQueue, SequenceTheorems, TLAPS

In(t, queue) == \E n \in DOMAIN queue : queue[n] = t
Distinct(queue) == \A m, n \in DOMAIN queue : queue[m] = queue[n] => m = n

\* A task stands at most once in the queue, for an operation it has to do, and
\* what it has loaded is what is stored.
LockInv ==
  /\ waiting \in Seq(Tasks)
  /\ Distinct(waiting)
  /\ In("submit", waiting) => submitPc = "append"
  /\ In("drain", waiting) => drainPc \notin {"idle", "sending"}
  /\ \A t \in Tasks : view[t] # None => Runs(t) /\ view[t] = store

\* Every item is stored once, and the server has heard of no others.
StoreInv ==
  /\ store \in Seq(Entry)
  /\ \A m, n \in DOMAIN store : store[m].id = store[n].id => m = n
  /\ submitPc = "append" => submitted \in Items \ Ids(store)
  /\ wire \subseteq Ids(store)
  /\ accepted \subseteq Ids(store)

\* What is marked as being sent is what the drain has in hand.
DrainInv ==
  /\ OneMarkedAsSending
  /\ drainPc \in {"claim", "reload"} =>
       \A n \in DOMAIN store : store[n].state # "SENDING"
  /\ drainPc \in {"sending", "ack", "fail"} =>
       /\ sending \in Ids(store)
       /\ \A n \in DOMAIN store :
            /\ store[n].state = "SENDING" => store[n].id = sending
            /\ store[n].id = sending => store[n].state \in {"SENDING", "SAVED_ON_DEVICE"}
  /\ drainPc = "ack" => sending \in accepted

Typed ==
  /\ DOMAIN view = Tasks
  /\ submitPc \in {"idle", "append", "drain"}
  /\ submitted \in Items \union {None}
  /\ drainPc \in Phases
  /\ sending \in Items \union {None}
  /\ failure \in Codes \union {"none"}
  /\ result \in DeliveryStates \union {"none", "missing"}
  /\ online \in BOOLEAN /\ blocked \in BOOLEAN
  /\ faults \in 0..MaxFaults

Inv == Typed /\ LockInv /\ StoreInv /\ DrainInv

-----------------------------------------------------------------------------
(***************************************************************************)
(* The queue of the lock                                                   *)
(***************************************************************************)

LEMMA Appended ==
  ASSUME NEW queue \in Seq(Tasks), NEW t \in Tasks
  PROVE  LET longer == Append(queue, t)
         IN /\ longer \in Seq(Tasks) /\ longer # <<>>
            /\ queue # <<>> => Head(longer) = Head(queue)
            /\ \A u : In(u, longer) <=> In(u, queue) \/ u = t
            /\ Distinct(queue) /\ ~In(t, queue) => Distinct(longer)
<1> DEFINE longer == Append(queue, t)
<1>1. /\ longer \in Seq(Tasks) /\ Len(longer) = Len(queue) + 1
      /\ \A n \in 1..Len(queue) : longer[n] = queue[n]
      /\ longer[Len(queue) + 1] = t
      /\ DOMAIN longer = 1..Len(queue) + 1 /\ DOMAIN queue = 1..Len(queue)
      /\ Len(queue) \in Nat
  OBVIOUS
<1>2. longer # <<>> /\ (queue # <<>> => Head(longer) = Head(queue))
  BY <1>1
<1> HIDE DEF longer
<1>3. \A u : In(u, longer) <=> In(u, queue) \/ u = t
  <2>1. \A u : In(u, longer) => In(u, queue) \/ u = t
    BY <1>1 DEF In
  <2>2. \A u : In(u, queue) => In(u, longer)
    <3>1. \A n \in DOMAIN queue : n \in DOMAIN longer /\ longer[n] = queue[n]
      BY <1>1
    <3> QED BY <3>1 DEF In
  <2>3. In(t, longer)
    <3>1. Len(queue) + 1 \in DOMAIN longer
      BY <1>1
    <3> QED BY <1>1, <3>1 DEF In
  <2> QED BY <2>1, <2>2, <2>3
<1>4. Distinct(queue) /\ ~In(t, queue) => Distinct(longer)
  BY <1>1 DEF In, Distinct
<1> QED BY <1>1, <1>2, <1>3, <1>4 DEF longer

LEMMA Shortened ==
  ASSUME NEW queue \in Seq(Tasks), queue # <<>>, Distinct(queue)
  PROVE  /\ Tail(queue) \in Seq(Tasks)
         /\ Distinct(Tail(queue))
         /\ \A u : In(u, Tail(queue)) <=> In(u, queue) /\ u # Head(queue)
         /\ In(Head(queue), queue)
<1> DEFINE shorter == Tail(queue)
<1>1. /\ shorter \in Seq(Tasks) /\ Len(shorter) = Len(queue) - 1
      /\ \A n \in 1..Len(queue) - 1 : shorter[n] = queue[n + 1]
      /\ DOMAIN shorter = 1..Len(queue) - 1 /\ DOMAIN queue = 1..Len(queue)
      /\ Len(queue) \in Nat \ {0} /\ Head(queue) = queue[1]
  BY HeadTailProperties, LenProperties, EmptySeq
<1> HIDE DEF shorter
<1>2. Distinct(shorter)
  <2> SUFFICES ASSUME NEW m \in DOMAIN shorter, NEW n \in DOMAIN shorter,
                      shorter[m] = shorter[n]
               PROVE  m = n
    BY DEF Distinct
  <2>1. /\ m \in Nat /\ n \in Nat
        /\ m + 1 \in DOMAIN queue /\ queue[m + 1] = shorter[m]
        /\ n + 1 \in DOMAIN queue /\ queue[n + 1] = shorter[n]
    BY <1>1
  <2>2. m + 1 = n + 1
    BY <2>1 DEF Distinct
  <2> QED BY <2>1, <2>2
<1>3. \A u : In(u, shorter) => In(u, queue) /\ u # queue[1]
  <2> SUFFICES ASSUME NEW n \in DOMAIN shorter
               PROVE  /\ n + 1 \in DOMAIN queue /\ queue[n + 1] = shorter[n]
                      /\ queue[n + 1] # queue[1]
    BY DEF In
  <2>1. n + 1 \in DOMAIN queue /\ 1 \in DOMAIN queue /\ n + 1 # 1
    BY <1>1
  <2> QED BY <1>1, <2>1 DEF Distinct
<1>4. In(queue[1], queue)
  BY <1>1 DEF In
<1>5. ASSUME NEW n \in DOMAIN queue, queue[n] # queue[1]
      PROVE  In(queue[n], shorter)
  <2>1. n \in Nat /\ n > 1 /\ n <= Len(queue)
    BY <1>1, <1>5
  <2>2. n - 1 \in DOMAIN shorter /\ n - 1 + 1 = n
    BY <1>1, <2>1
  <2>3. shorter[n - 1] = queue[n]
    BY <1>1, <2>2
  <2> QED BY <2>2, <2>3 DEF In
<1>6. \A u : In(u, queue) /\ u # queue[1] => In(u, shorter)
  BY <1>5 DEF In
<1> QED BY <1>1, <1>2, <1>3, <1>4, <1>6 DEF shorter

\* The head of the queue has been served, and may ask again.
LEMMA LockMovesOn ==
  ASSUME Inv, NEW t \in Tasks, Runs(t)
  PROVE  /\ Released \in Seq(Tasks) /\ Distinct(Released)
         /\ \A u : In(u, Released) <=> In(u, waiting) /\ u # t
         /\ In(t, waiting)
BY Shortened DEF Inv, LockInv, Runs, Released

LEMMA OnlyOneView ==
  ASSUME Inv, NEW t \in Tasks, Runs(t)
  PROVE  \A u \in Tasks \ {t} : view[u] = None
BY DEF Inv, LockInv, Runs

-----------------------------------------------------------------------------
(***************************************************************************)
(* The envelope                                                            *)
(***************************************************************************)

\* The same items with other states.
Rewrites(envelope) ==
  /\ envelope \in Seq(Entry)
  /\ DOMAIN envelope = DOMAIN store
  /\ \A n \in DOMAIN store : envelope[n].id = store[n].id

LEMMA MappedSequence ==
  ASSUME NEW S, NEW s \in Seq(S), NEW T, NEW f,
         f = [n \in DOMAIN s |-> f[n]], \A n \in DOMAIN s : f[n] \in T
  PROVE  f \in Seq(T) /\ DOMAIN f = DOMAIN s
<1>1. DOMAIN s = 1..Len(s) /\ Len(s) \in Nat
  OBVIOUS
<1>2. f \in [1..Len(s) -> T]
  BY <1>1
<1> QED BY <1>1, <1>2, SeqDef

LEMMA RecoveredEnvelope ==
  ASSUME Inv, NEW t \in Tasks, Loaded(t)
  PROVE  /\ Rewrites(Recovered(t))
         /\ \A n \in DOMAIN store :
              /\ Recovered(t)[n].state = IF store[n].state = "SENDING"
                                         THEN "SAVED_ON_DEVICE" ELSE store[n].state
              /\ store[n].state # "SENDING" => Recovered(t)[n] = store[n]
<1> DEFINE new == Recovered(t)
<1>1. view[t] = store /\ store \in Seq(Entry)
  BY DEF Inv, LockInv, StoreInv, Loaded
<1>2. \A n \in DOMAIN store :
        new[n] = IF store[n].state = "SENDING"
                 THEN [store[n] EXCEPT !.state = "SAVED_ON_DEVICE"] ELSE store[n]
  BY <1>1 DEF Recovered
<1>3. new = [n \in DOMAIN store |-> new[n]]
  BY <1>1 DEF Recovered
<1> HIDE DEF new
<1>4. ASSUME NEW n \in DOMAIN store
      PROVE  /\ new[n] \in Entry /\ new[n].id = store[n].id
             /\ new[n].state = IF store[n].state = "SENDING" THEN "SAVED_ON_DEVICE"
                               ELSE store[n].state
  <2>1. store[n] \in Entry
    BY <1>1
  <2> QED BY <1>2, <2>1 DEF Entry, DeliveryStates
<1>5. new \in Seq(Entry) /\ DOMAIN new = DOMAIN store
  BY <1>1, <1>3, <1>4, MappedSequence
<1> QED BY <1>2, <1>4, <1>5 DEF Rewrites, new

LEMMA ReplacedEnvelope ==
  ASSUME Inv, NEW t \in Tasks, Loaded(t), NEW i \in Items,
         NEW state \in DeliveryStates, NEW error \in Codes \union {"none"}
  PROVE  /\ Rewrites(Replaced(t, i, state, error))
         /\ \A n \in DOMAIN store :
              /\ Replaced(t, i, state, error)[n].state =
                   IF store[n].id = i THEN state ELSE store[n].state
              /\ store[n].id # i => Replaced(t, i, state, error)[n] = store[n]
<1> DEFINE new == Replaced(t, i, state, error)
           entry == [id |-> i, state |-> state, error |-> error]
<1>1. view[t] = store /\ store \in Seq(Entry)
  BY DEF Inv, LockInv, StoreInv, Loaded
<1>2. \A n \in DOMAIN store : new[n] = IF store[n].id = i THEN entry ELSE store[n]
  BY <1>1 DEF Replaced
<1>3. new = [n \in DOMAIN store |-> new[n]]
  BY <1>1 DEF Replaced
<1>4. entry \in Entry /\ entry.id = i /\ entry.state = state
  BY DEF Entry
<1> HIDE DEF new, entry
<1>5. ASSUME NEW n \in DOMAIN store
      PROVE  /\ new[n] \in Entry /\ new[n].id = store[n].id
             /\ new[n].state = IF store[n].id = i THEN state ELSE store[n].state
  <2>1. store[n] \in Entry
    BY <1>1
  <2> QED BY <1>2, <1>4, <2>1
<1>6. new \in Seq(Entry) /\ DOMAIN new = DOMAIN store
  BY <1>1, <1>3, <1>5, MappedSequence
<1> QED BY <1>2, <1>5, <1>6 DEF Rewrites, new

LEMMA RewritesKeepsIds ==
  ASSUME Inv, NEW envelope, Rewrites(envelope)
  PROVE  /\ Ids(envelope) = Ids(store)
         /\ \A m, n \in DOMAIN envelope : envelope[m].id = envelope[n].id => m = n
BY DEF Rewrites, Ids, Inv, StoreInv

\* A request that is added is the last one.
LEMMA AppendedEnvelope ==
  ASSUME Inv, Loaded("submit"), submitPc = "append",
         NEW entry, entry = [id |-> submitted, state |-> "SAVED_ON_DEVICE", error |-> "none"]
  PROVE  LET longer == Append(view["submit"], entry)
         IN /\ longer \in Seq(Entry)
            /\ DOMAIN store \subseteq DOMAIN longer
            /\ \A n \in DOMAIN store : longer[n] = store[n]
            /\ \A n \in DOMAIN longer \ DOMAIN store : longer[n] = entry
            /\ Ids(longer) = Ids(store) \union {submitted}
            /\ \A m, n \in DOMAIN longer : longer[m].id = longer[n].id => m = n
<1> DEFINE longer == Append(view["submit"], entry)
<1>1. view["submit"] = store /\ store \in Seq(Entry)
  BY DEF Inv, LockInv, StoreInv, Loaded, Tasks
<1>2. entry \in Entry /\ entry.id = submitted
  BY DEF Inv, StoreInv, Entry, DeliveryStates
<1>3. /\ longer \in Seq(Entry)
      /\ Len(store) \in Nat
      /\ DOMAIN store = 1..Len(store) /\ DOMAIN longer = 1..Len(store) + 1
      /\ \A n \in 1..Len(store) : longer[n] = store[n]
      /\ longer[Len(store) + 1] = entry
  BY <1>1, <1>2
<1> HIDE DEF longer
<1>4. /\ DOMAIN store \subseteq DOMAIN longer
      /\ \A n \in DOMAIN longer \ DOMAIN store : n = Len(store) + 1 /\ longer[n] = entry
  BY <1>3
<1>5. Ids(longer) = Ids(store) \union {submitted}
  <2>1. Len(store) + 1 \in DOMAIN longer
    BY <1>3
  <2> QED BY <1>2, <1>3, <1>4, <2>1 DEF Ids
<1>6. \A m, n \in DOMAIN longer : longer[m].id = longer[n].id => m = n
  <2>1. submitted \notin Ids(store)
    BY DEF Inv, StoreInv
  <2>2. \A n \in DOMAIN store : longer[n].id # submitted
    BY <1>3, <2>1 DEF Ids
  <2>3. \A m, n \in DOMAIN store : longer[m].id = longer[n].id => m = n
    BY <1>3 DEF Inv, StoreInv
  <2> QED BY <1>2, <1>3, <1>4, <2>2, <2>3
<1> QED BY <1>3, <1>4, <1>5, <1>6 DEF longer

-----------------------------------------------------------------------------
(***************************************************************************)
(* What every step keeps                                                   *)
(***************************************************************************)

\* A task asks for the lock.
LEMMA AsksForTheLock ==
  ASSUME Inv, NEW t \in Tasks, ~In(t, waiting),
         waiting' = Append(waiting, t), UNCHANGED <<store, view>>,
         submitPc = "append" \/ t = "submit" => submitPc' = "append",
         drainPc \notin {"idle", "sending"} \/ t = "drain"
           => drainPc' \notin {"idle", "sending"}
  PROVE  LockInv'
<1>1. /\ waiting' \in Seq(Tasks) /\ waiting' # <<>> /\ Distinct(waiting')
      /\ waiting # <<>> => Head(waiting') = Head(waiting)
      /\ \A u : In(u, waiting') => In(u, waiting) \/ u = t
  BY Appended DEF Inv, LockInv
<1>2. \A u \in Tasks : view[u] # None => Runs(u)' /\ view[u] = store
  BY <1>1 DEF Inv, LockInv, Runs
<1> QED BY <1>1, <1>2 DEF Inv, LockInv

\* The task under the lock ends its operation, and drain may ask for another.
LEMMA LeavesTheLock ==
  ASSUME Inv, NEW t \in Tasks, Runs(t), view' = [view EXCEPT ![t] = None],
         submitPc = "append" /\ t # "submit" => submitPc' = "append",
         drainPc \notin {"idle", "sending"} /\ t # "drain"
           => drainPc' \notin {"idle", "sending"},
         \/ waiting' = Released
         \/ /\ waiting' = Append(Released, "drain")
            /\ t = "drain" \/ drainPc = "idle"
            /\ drainPc' \notin {"idle", "sending"}
  PROVE  LockInv' /\ DOMAIN view' = Tasks
<1>1. /\ Released \in Seq(Tasks) /\ Distinct(Released)
      /\ \A u : In(u, Released) => In(u, waiting) /\ u # t
  BY LockMovesOn
<1>2. DOMAIN view' = Tasks /\ \A u \in Tasks : view'[u] = None
  BY OnlyOneView DEF Inv, Typed
<1>3. /\ In("submit", Released) => submitPc' = "append"
      /\ In("drain", Released) => drainPc' \notin {"idle", "sending"}
  BY <1>1 DEF Inv, LockInv
<1>4. CASE waiting' = Released
  BY <1>1, <1>2, <1>3, <1>4 DEF LockInv
<1>5. CASE /\ waiting' = Append(Released, "drain")
           /\ t = "drain" \/ drainPc = "idle"
           /\ drainPc' \notin {"idle", "sending"}
  <2>1. ~In("drain", Released)
    BY <1>1, <1>5 DEF Inv, LockInv
  <2>2. /\ waiting' \in Seq(Tasks) /\ Distinct(waiting')
        /\ \A u : In(u, waiting') => In(u, Released) \/ u = "drain"
    BY <1>1, <1>5, <2>1, Appended DEF Tasks
  <2> QED BY <1>2, <1>3, <1>5, <2>2 DEF LockInv
<1> QED BY <1>4, <1>5

\* The envelope keeps its items.
LEMMA ItemsStay ==
  ASSUME Inv, Rewrites(store'),
         submitPc' = "append" => submitted' \in Items \ Ids(store),
         wire' \subseteq Ids(store), accepted' \subseteq Ids(store)
  PROVE  StoreInv'
<1>1. /\ Ids(store') = Ids(store)
      /\ \A m, n \in DOMAIN store' : store'[m].id = store'[n].id => m = n
  BY RewritesKeepsIds
<1> QED BY <1>1 DEF StoreInv, Rewrites, Ids

LEMMA UnchangedRewrites ==
  ASSUME Inv PROVE Rewrites(store)
BY DEF Rewrites, Inv, StoreInv

\* Nothing the drain cares for changes.
LEMMA DrainNotConcerned ==
  ASSUME Inv, UNCHANGED <<store, drainPc, sending>>, accepted \subseteq accepted'
  PROVE  DrainInv'
BY DEF Inv, DrainInv, OneMarkedAsSending, Ids

-----------------------------------------------------------------------------
(***************************************************************************)
(* The steps                                                               *)
(***************************************************************************)

LEMMA InitInv ==
  ASSUME Init PROVE Inv
<1> USE DEF Init
<1>1. Typed
  <2>1. faults \in 0..MaxFaults /\ DOMAIN view = Tasks
    BY QueueAssumption
  <2> QED BY <2>1 DEF Typed, Phases
<1>2. LockInv
  BY DEF LockInv, Distinct, In, Tasks
<1>3. StoreInv
  BY DEF StoreInv, Ids
<1>4. DrainInv
  BY DEF DrainInv, OneMarkedAsSending
<1> QED BY <1>1, <1>2, <1>3, <1>4 DEF Inv

LEMMA LoadInv ==
  ASSUME Inv, NEW t \in Tasks, Load(t) PROVE Inv'
<1> USE DEF Load, phone, server
<1>1. Typed'
  BY DEF Inv, Typed
<1>2. LockInv'
  <2>1. \A u \in Tasks : view'[u] # None => Runs(u) /\ view'[u] = store
    BY DEF Inv, LockInv, Typed
  <2> QED BY <2>1 DEF Inv, LockInv, Runs
<1>3. StoreInv'
  BY DEF Inv, StoreInv, Ids
<1>4. DrainInv'
  BY DrainNotConcerned
<1> QED BY <1>1, <1>2, <1>3, <1>4 DEF Inv

LEMMA SubmitInv ==
  ASSUME Inv, NEW i \in Items, NEW isOnline \in BOOLEAN, Submit(i, isOnline) PROVE Inv'
<1> USE DEF Submit, server
<1>1. Typed'
  BY DEF Inv, Typed
<1>2. LockInv'
  <2>1. ~In("submit", waiting)
    BY DEF Inv, LockInv
  <2> QED BY <2>1, AsksForTheLock DEF Tasks
<1>3. StoreInv'
  BY DEF Inv, StoreInv, Ids
<1>4. DrainInv'
  BY DrainNotConcerned
<1> QED BY <1>1, <1>2, <1>3, <1>4 DEF Inv

LEMMA AppendItemInv ==
  ASSUME Inv, AppendItem PROVE Inv'
<1> USE DEF AppendItem, Save, server, Loaded
<1> DEFINE entry == [id |-> submitted, state |-> "SAVED_ON_DEVICE", error |-> "none"]
<1>0. /\ store' \in Seq(Entry)
      /\ DOMAIN store \subseteq DOMAIN store'
      /\ \A n \in DOMAIN store : store'[n] = store[n]
      /\ \A n \in DOMAIN store' \ DOMAIN store : store'[n] = entry
      /\ Ids(store') = Ids(store) \union {submitted}
      /\ \A m, n \in DOMAIN store' : store'[m].id = store'[n].id => m = n
  BY AppendedEnvelope
<1>1. LockInv' /\ DOMAIN view' = Tasks
  <2>1. CASE online /\ drainPc = "idle"
    BY <2>1, LeavesTheLock DEF Tasks
  <2>2. CASE ~(online /\ drainPc = "idle")
    BY <2>2, LeavesTheLock DEF Tasks
  <2> QED BY <2>1, <2>2
<1>2. Typed'
  BY <1>1 DEF Inv, Typed, Phases
<1>3. StoreInv'
  <2>1. submitPc' # "append"
    OBVIOUS
  <2>2. wire' \subseteq Ids(store') /\ accepted' \subseteq Ids(store')
    BY <1>0 DEF Inv, StoreInv
  <2> QED BY <1>0, <2>1, <2>2 DEF StoreInv, Ids
<1>4. DrainInv'
  <2>1. \A n \in DOMAIN store' : store'[n].state = "SENDING" =>
          n \in DOMAIN store /\ store'[n] = store[n]
    BY <1>0
  <2>2. OneMarkedAsSending'
    BY <2>1 DEF Inv, DrainInv, OneMarkedAsSending
  <2>3. CASE drainPc = "idle"
    BY <2>2, <2>3 DEF DrainInv
  <2>4. CASE drainPc # "idle"
    <3>1. UNCHANGED <<drainPc, sending, accepted>>
      BY <2>4
    <3>2. drainPc \in {"claim", "reload"} =>
            \A n \in DOMAIN store' : store'[n].state # "SENDING"
      BY <2>1 DEF Inv, DrainInv
    <3>3. ASSUME drainPc \in {"sending", "ack", "fail"}
          PROVE  /\ sending \in Ids(store')
                 /\ \A n \in DOMAIN store' :
                      /\ store'[n].state = "SENDING" => store'[n].id = sending
                      /\ store'[n].id = sending =>
                           store'[n].state \in {"SENDING", "SAVED_ON_DEVICE"}
      BY <1>0, <3>3 DEF Inv, DrainInv
    <3> QED BY <2>2, <3>1, <3>2, <3>3 DEF DrainInv, Inv, Ids
  <2> QED BY <2>3, <2>4
<1> QED BY <1>1, <1>2, <1>3, <1>4 DEF Inv

LEMMA ReconnectInv ==
  ASSUME Inv, Reconnect PROVE Inv'
<1> USE DEF Reconnect, server
<1>1. Typed'
  BY DEF Inv, Typed, Phases
<1>2. LockInv'
  <2>1. ~In("drain", waiting)
    BY DEF Inv, LockInv
  <2> QED BY <2>1, AsksForTheLock DEF Tasks
<1>3. StoreInv'
  BY DEF Inv, StoreInv, Ids
<1>4. DrainInv'
  BY DEF Inv, DrainInv, OneMarkedAsSending
<1> QED BY <1>1, <1>2, <1>3, <1>4 DEF Inv

LEMMA MountInv ==
  ASSUME Inv, Mount PROVE Inv'
<1> USE DEF Mount, phone, server
<1>1. Typed'
  BY DEF Inv, Typed
<1>2. LockInv'
  <2>1. ~In("recover", waiting)
    BY DEF Waits, In
  <2> QED BY <2>1, AsksForTheLock DEF Tasks
<1>3. StoreInv'
  BY DEF Inv, StoreInv, Ids
<1>4. DrainInv'
  BY DrainNotConcerned
<1> QED BY <1>1, <1>2, <1>3, <1>4 DEF Inv

LEMMA RecoverInv ==
  ASSUME Inv, Recover PROVE Inv'
<1> USE DEF Recover, Save, phone, server
<1>0. /\ Rewrites(store')
      /\ \A n \in DOMAIN store : store'[n].state =
           IF store[n].state = "SENDING" THEN "SAVED_ON_DEVICE" ELSE store[n].state
  BY RecoveredEnvelope DEF Tasks
<1>1. LockInv' /\ DOMAIN view' = Tasks
  BY LeavesTheLock DEF Loaded, Tasks
<1>2. Typed'
  BY <1>1 DEF Inv, Typed
<1>3. StoreInv'
  BY <1>0, ItemsStay DEF Inv, StoreInv
<1>4. DrainInv'
  <2>1. \A n \in DOMAIN store' : store'[n].state # "SENDING"
    BY <1>0 DEF Rewrites
  <2>2. Ids(store') = Ids(store)
    BY <1>0, RewritesKeepsIds
  <2>3. drainPc \in {"sending", "ack", "fail"} =>
          /\ sending \in Ids(store')
          /\ \A n \in DOMAIN store' : store'[n].id = sending =>
               store'[n].state \in {"SENDING", "SAVED_ON_DEVICE"}
    BY <1>0, <2>2 DEF Inv, DrainInv, Rewrites
  <2> QED BY <2>1, <2>3 DEF Inv, DrainInv, OneMarkedAsSending, Ids
<1> QED BY <1>1, <1>2, <1>3, <1>4 DEF Inv

LEMMA DrainRecoversInv ==
  ASSUME Inv, DrainRecovers PROVE Inv'
<1> USE DEF DrainRecovers, Save, DrainGoesTo, server
<1>0. /\ Rewrites(store')
      /\ \A n \in DOMAIN store : store'[n].state # "SENDING"
  BY RecoveredEnvelope DEF Tasks
<1>1. LockInv' /\ DOMAIN view' = Tasks
  BY LeavesTheLock DEF Loaded, Tasks
<1>2. Typed'
  BY <1>1 DEF Inv, Typed, Phases
<1>3. StoreInv'
  BY <1>0, ItemsStay DEF Inv, StoreInv
<1>4. DrainInv'
  BY <1>0 DEF DrainInv, OneMarkedAsSending, Rewrites
<1> QED BY <1>1, <1>2, <1>3, <1>4 DEF Inv

LEMMA ClaimItemInv ==
  ASSUME Inv, ClaimItem PROVE Inv'
<1> USE DEF ClaimItem, Save, server
<1>0. /\ view["drain"] = store /\ store \in Seq(Entry)
      /\ \A n \in DOMAIN store : store[n].state # "SENDING"
  BY DEF Inv, LockInv, StoreInv, DrainInv, Loaded, Tasks
<1>1. sending' \in Items /\ sending' \in Ids(store)
  <2>1. PICK n \in EligibleAt : sending' = view["drain"][n].id
    OBVIOUS
  <2>2. n \in DOMAIN store /\ sending' = store[n].id
    BY <1>0, <2>1 DEF EligibleAt
  <2>3. store[n] \in Entry
    BY <1>0, <2>2
  <2> QED BY <2>2, <2>3 DEF Ids, Entry
<1>2. /\ Rewrites(store')
      /\ \A n \in DOMAIN store : store'[n].state =
           IF store[n].id = sending' THEN "SENDING" ELSE store[n].state
  BY <1>1, ReplacedEnvelope DEF Tasks, DeliveryStates
<1>3. LockInv' /\ DOMAIN view' = Tasks
  BY LeavesTheLock DEF Loaded, Tasks
<1>4. Typed'
  BY <1>1, <1>3 DEF Inv, Typed, Phases
<1>5. StoreInv'
  BY <1>1, <1>2, ItemsStay DEF Inv, StoreInv
<1>6. DrainInv'
  <2>1. Ids(store') = Ids(store)
        /\ \A m, n \in DOMAIN store' : store'[m].id = store'[n].id => m = n
    BY <1>2, RewritesKeepsIds
  <2>2. \A n \in DOMAIN store' :
          /\ store'[n].state = "SENDING" => store'[n].id = sending'
          /\ store'[n].id = sending' => store'[n].state = "SENDING"
    BY <1>0, <1>2 DEF Rewrites
  <2>3. sending' \in Ids(store')
    BY <1>1, <2>1
  <2> QED BY <2>1, <2>2, <2>3 DEF DrainInv, OneMarkedAsSending, Ids
<1> QED BY <1>3, <1>4, <1>5, <1>6 DEF Inv

LEMMA NothingToSendInv ==
  ASSUME Inv, NothingToSend PROVE Inv'
<1> USE DEF NothingToSend, SaveNothing, Save, DrainGoesTo, server
<1>1. LockInv' /\ DOMAIN view' = Tasks
  BY LeavesTheLock DEF Loaded, Tasks
<1>2. Typed'
  BY <1>1 DEF Inv, Typed, Phases
<1>3. StoreInv'
  BY UnchangedRewrites, ItemsStay DEF Inv, StoreInv
<1>4. DrainInv'
  BY DEF Inv, DrainInv, OneMarkedAsSending
<1> QED BY <1>1, <1>2, <1>3, <1>4 DEF Inv

LEMMA AcknowledgeInv ==
  ASSUME Inv, Acknowledge PROVE Inv'
<1> USE DEF Acknowledge, DrainGoesTo, server
<1>1. Typed'
  BY DEF Inv, Typed, Phases
<1>2. LockInv'
  <2>1. ~In("drain", waiting)
    BY DEF Inv, LockInv
  <2> QED BY <2>1, AsksForTheLock DEF Tasks
<1>3. StoreInv'
  BY DEF Inv, StoreInv, Ids
<1>4. DrainInv'
  BY DEF Inv, DrainInv, OneMarkedAsSending, Ids
<1> QED BY <1>1, <1>2, <1>3, <1>4 DEF Inv

LEMMA SendFailsInv ==
  ASSUME Inv, NEW code \in Codes, SendFails(code) PROVE Inv'
<1> USE DEF SendFails, DrainGoesTo
<1>0. faults' \in 0..MaxFaults
  BY QueueAssumption DEF Inv, Typed
<1>1. Typed'
  BY <1>0 DEF Inv, Typed, Phases
<1>2. LockInv'
  <2>1. ~In("drain", waiting)
    BY DEF Inv, LockInv
  <2> QED BY <2>1, AsksForTheLock DEF Tasks
<1>3. StoreInv'
  BY UnchangedRewrites, ItemsStay DEF Inv, StoreInv
<1>4. DrainInv'
  BY DEF Inv, DrainInv, OneMarkedAsSending, Ids
<1> QED BY <1>1, <1>2, <1>3, <1>4 DEF Inv

LEMMA StoreAcknowledgementInv ==
  ASSUME Inv, StoreAcknowledgement PROVE Inv'
<1> USE DEF StoreAcknowledgement, Save, DrainGoesTo, server
<1>0. /\ view["drain"] = store /\ store \in Seq(Entry) /\ sending \in Items
      /\ \A n \in DOMAIN store : store[n].state = "SENDING" => store[n].id = sending
  <2>1. view["drain"] = store /\ store \in Seq(Entry)
    BY DEF Inv, LockInv, StoreInv, Loaded, Tasks
  <2>2. PICK n \in DOMAIN store : sending = store[n].id
    BY <2>1 DEF Ids
  <2>3. store[n] \in Entry
    BY <2>1, <2>2
  <2> QED BY <2>1, <2>2, <2>3 DEF Entry, Inv, DrainInv
<1>1. /\ Rewrites(store')
      /\ \A n \in DOMAIN store : store'[n].state =
           IF store[n].id = sending THEN "SERVER_ACKNOWLEDGED" ELSE store[n].state
  BY <1>0, ReplacedEnvelope DEF Tasks, DeliveryStates
<1>2. LockInv' /\ DOMAIN view' = Tasks
  BY LeavesTheLock DEF Loaded, Tasks
<1>3. Typed'
  BY <1>2 DEF Inv, Typed, Phases
<1>4. StoreInv'
  BY <1>1, ItemsStay DEF Inv, StoreInv
<1>5. DrainInv'
  <2>1. \A n \in DOMAIN store' : store'[n].state # "SENDING"
    BY <1>0, <1>1 DEF Rewrites
  <2>2. drainPc' = "claim"
    OBVIOUS
  <2> QED BY <2>1, <2>2 DEF DrainInv, OneMarkedAsSending
<1> QED BY <1>2, <1>3, <1>4, <1>5 DEF Inv

LEMMA StoreFailureInv ==
  ASSUME Inv, StoreFailure PROVE Inv'
<1> USE DEF StoreFailure, Save, DrainGoesTo, server
<1>0. /\ view["drain"] = store /\ store \in Seq(Entry) /\ sending \in Items
      /\ \A n \in DOMAIN store : store[n].state = "SENDING" => store[n].id = sending
  <2>1. view["drain"] = store /\ store \in Seq(Entry)
    BY DEF Inv, LockInv, StoreInv, Loaded, Tasks
  <2>2. PICK n \in DOMAIN store : sending = store[n].id
    BY <2>1 DEF Ids
  <2>3. store[n] \in Entry
    BY <2>1, <2>2
  <2> QED BY <2>1, <2>2, <2>3 DEF Entry, Inv, DrainInv
<1>1. /\ Rewrites(store')
      /\ \A n \in DOMAIN store : store'[n].state =
           IF store[n].id = sending THEN "SEND_FAILED" ELSE store[n].state
  BY <1>0, ReplacedEnvelope DEF Tasks, DeliveryStates, Inv, Typed
<1>2. LockInv' /\ DOMAIN view' = Tasks
  BY LeavesTheLock DEF Loaded, Tasks
<1>3. Typed'
  BY <1>2 DEF Inv, Typed, Phases
<1>4. StoreInv'
  BY <1>1, ItemsStay DEF Inv, StoreInv
<1>5. DrainInv'
  BY <1>0, <1>1 DEF DrainInv, OneMarkedAsSending, Rewrites
<1> QED BY <1>2, <1>3, <1>4, <1>5 DEF Inv

LEMMA ReloadInv ==
  ASSUME Inv, Reload PROVE Inv'
<1> USE DEF Reload, SaveNothing, Save, server
<1>1. LockInv' /\ DOMAIN view' = Tasks
  BY LeavesTheLock DEF Loaded, Tasks
<1>2. result' \in DeliveryStates \union {"none", "missing"}
  <2>1. CASE submitPc = "drain" /\ submitted \in Ids(store)
    <3> DEFINE n == CHOOSE m \in DOMAIN store : store[m].id = submitted
    <3>1. n \in DOMAIN store /\ result' = store[n].state
      BY <2>1 DEF Found, Ids
    <3>2. store[n] \in Entry
      BY <3>1 DEF Inv, StoreInv
    <3> QED BY <3>1, <3>2 DEF Entry
  <2>2. CASE ~(submitPc = "drain" /\ submitted \in Ids(store))
    BY <2>2 DEF Found, Inv, Typed
  <2> QED BY <2>1, <2>2
<1>3. Typed'
  BY <1>1, <1>2 DEF Inv, Typed, Phases
<1>4. StoreInv'
  BY UnchangedRewrites, ItemsStay DEF Inv, StoreInv
<1>5. DrainInv'
  BY DEF Inv, DrainInv, OneMarkedAsSending
<1> QED BY <1>1, <1>3, <1>4, <1>5 DEF Inv

LEMMA OpFailsInv ==
  ASSUME Inv, NEW t \in Tasks, OpFails(t) PROVE Inv'
<1> USE DEF OpFails, server
<1>0. faults' \in 0..MaxFaults
  BY QueueAssumption DEF Inv, Typed
<1>1. CASE t = "submit" /\ submitPc' = "idle" /\ submitted' = None /\ waiting' = Released
           /\ blocked' = TRUE /\ UNCHANGED <<drainPc, sending, failure>>
  <2>1. LockInv' /\ DOMAIN view' = Tasks
    BY <1>1, LeavesTheLock
  <2>2. Typed'
    BY <1>0, <1>1, <2>1 DEF Inv, Typed
  <2>3. StoreInv'
    BY <1>1, UnchangedRewrites, ItemsStay DEF Inv, StoreInv
  <2>4. DrainInv'
    BY <1>1, DrainNotConcerned
  <2> QED BY <2>1, <2>2, <2>3, <2>4 DEF Inv
<1>2. CASE t = "recover" /\ waiting' = Released /\ blocked' = TRUE
           /\ UNCHANGED <<submitPc, submitted, drainPc, sending, failure>>
  <2>1. LockInv' /\ DOMAIN view' = Tasks
    BY <1>2, LeavesTheLock
  <2>2. Typed'
    BY <1>0, <1>2, <2>1 DEF Inv, Typed
  <2>3. StoreInv'
    BY <1>2, UnchangedRewrites, ItemsStay DEF Inv, StoreInv
  <2>4. DrainInv'
    BY <1>2, DrainNotConcerned
  <2> QED BY <2>1, <2>2, <2>3, <2>4 DEF Inv
<1>3. CASE t = "drain" /\ drainPc = "ack" /\ failure' = "NETWORK_UNAVAILABLE"
           /\ DrainGoesTo("fail", Released)
           /\ UNCHANGED <<submitPc, submitted, sending, blocked>>
  <2>1. LockInv' /\ DOMAIN view' = Tasks
    BY <1>3, LeavesTheLock DEF DrainGoesTo
  <2>2. Typed'
    BY <1>0, <1>3, <2>1 DEF Inv, Typed, Phases, DrainGoesTo, Codes, Retryable
  <2>3. StoreInv'
    BY <1>3, UnchangedRewrites, ItemsStay DEF Inv, StoreInv
  <2>4. DrainInv'
    BY <1>3 DEF Inv, DrainInv, OneMarkedAsSending, Ids, DrainGoesTo
  <2> QED BY <2>1, <2>2, <2>3, <2>4 DEF Inv
<1>4. CASE t = "drain" /\ drainPc # "ack" /\ DrainRejects
  <2> USE DEF DrainRejects
  <2>1. LockInv' /\ DOMAIN view' = Tasks
    BY <1>4, LeavesTheLock
  <2>2. Typed'
    BY <1>0, <1>4, <2>1 DEF Inv, Typed, Phases
  <2>3. StoreInv'
    BY <1>4, UnchangedRewrites, ItemsStay DEF Inv, StoreInv
  <2>4. DrainInv'
    BY <1>4 DEF Inv, DrainInv, OneMarkedAsSending
  <2> QED BY <2>1, <2>2, <2>3, <2>4 DEF Inv
<1> QED BY <1>1, <1>2, <1>3, <1>4

LEMMA CrashInv ==
  ASSUME Inv, Crash PROVE Inv'
<1> USE DEF Crash
<1>0. faults' \in 0..MaxFaults
  BY QueueAssumption DEF Inv, Typed
<1>1. Typed'
  BY <1>0 DEF Inv, Typed, Phases
<1>2. LockInv'
  BY DEF LockInv, Distinct, In
<1>3. StoreInv'
  BY UnchangedRewrites, ItemsStay DEF Inv, StoreInv
<1>4. DrainInv'
  BY DEF Inv, DrainInv, OneMarkedAsSending
<1> QED BY <1>1, <1>2, <1>3, <1>4 DEF Inv

LEMMA ServerAcceptInv ==
  ASSUME Inv, NEW i \in Items, ServerAccept(i) PROVE Inv'
<1> USE DEF ServerAccept, phone
<1>1. Typed'
  BY DEF Inv, Typed
<1>2. LockInv'
  BY DEF Inv, LockInv, Runs
<1>3. StoreInv'
  BY UnchangedRewrites, ItemsStay DEF Inv, StoreInv
<1>4. DrainInv'
  BY DrainNotConcerned
<1> QED BY <1>1, <1>2, <1>3, <1>4 DEF Inv

LEMMA StutterInv ==
  ASSUME Inv, UNCHANGED vars PROVE Inv'
<1> USE DEF vars, phone, server
<1>1. Typed'
  BY DEF Inv, Typed
<1>2. LockInv'
  BY DEF Inv, LockInv, Runs
<1>3. StoreInv'
  BY DEF Inv, StoreInv, Ids
<1>4. DrainInv'
  BY DrainNotConcerned
<1> QED BY <1>1, <1>2, <1>3, <1>4 DEF Inv

LEMMA StepInv ==
  ASSUME Inv, [Next]_vars PROVE Inv'
BY LoadInv, SubmitInv, AppendItemInv, ReconnectInv, MountInv, RecoverInv,
   DrainRecoversInv, ClaimItemInv, NothingToSendInv, AcknowledgeInv, SendFailsInv,
   StoreAcknowledgementInv, StoreFailureInv, ReloadInv, OpFailsInv, CrashInv,
   ServerAcceptInv, StutterInv DEF Next, Operate, Settle

LEMMA Invariance == Spec => []Inv
<1>1. Init => Inv
  BY InitInv
<1>2. Inv /\ [Next]_vars => Inv'
  BY StepInv
<1> QED BY <1>1, <1>2, PTL DEF Spec

-----------------------------------------------------------------------------
(***************************************************************************)
(* What follows                                                            *)
(***************************************************************************)

\* In every state the variables have the shape the code gives them: no item is
\* stored twice, and no task of the service stands twice behind the lock of
\* withQueueLock.
THEOREM TypeCorrect == Spec => []TypeOK
<1>1. ASSUME Inv PROVE TypeOK
  <2>1. IsEnvelope(store)
    BY <1>1 DEF Inv, StoreInv, IsEnvelope
  <2>2. \A t \in Tasks : view[t] = None \/ IsEnvelope(view[t])
    BY <1>1, <2>1 DEF Inv, LockInv
  <2>3. /\ \A n \in DOMAIN waiting : waiting[n] \in Tasks
        /\ \A m, n \in DOMAIN waiting : waiting[m] = waiting[n] => m = n
    BY <1>1 DEF Inv, LockInv, Distinct
  <2>4. Ids(store) \subseteq Items
    <3> SUFFICES ASSUME NEW n \in DOMAIN store PROVE store[n].id \in Items
      BY DEF Ids
    <3>1. store[n] \in Entry
      BY <1>1 DEF Inv, StoreInv
    <3> QED BY <3>1 DEF Entry
  <2>5. wire \subseteq Items /\ accepted \subseteq Items
    BY <1>1, <2>4 DEF Inv, StoreInv
  <2> QED BY <1>1, <2>1, <2>2, <2>3, <2>5 DEF TypeOK, Inv, Typed, StoreInv
<1> QED BY <1>1, Invariance, PTL

\* However submissions, drains, recoveries, failed store accesses and restarts
\* follow one another, the envelope never holds two requests marked SENDING: a
\* drain that was interrupted leaves one behind, and none marks another before
\* recover() has made that one eligible again.
THEOREM OneMarked == Spec => []OneMarkedAsSending
<1>1. Inv => OneMarkedAsSending
  BY DEF Inv, DrainInv
<1> QED BY <1>1, Invariance, PTL

-----------------------------------------------------------------------------
(***************************************************************************)
(* The promise of a store-and-forward queue                                *)
(***************************************************************************)

LEMMA AcknowledgedEntries ==
  Acknowledged = {i \in Items : \E n \in DOMAIN store :
                    store[n].id = i /\ store[n].state = "SERVER_ACKNOWLEDGED"}
BY DEF Acknowledged, State

\* No item becomes acknowledged, and none ceases to be.
LEMMA AcknowledgedStay ==
  ASSUME Inv, Rewrites(store'),
         \A n \in DOMAIN store : (store'[n].state = "SERVER_ACKNOWLEDGED"
                                    <=> store[n].state = "SERVER_ACKNOWLEDGED"),
         UNCHANGED accepted
  PROVE  UNCHANGED Delivery!vars
<1>1. Ids(store') = Ids(store)
  BY RewritesKeepsIds
<1>2. UNCHANGED Acknowledged
  BY DEF Rewrites, Acknowledged, State
<1> QED BY <1>1, <1>2 DEF Delivery!vars, Ids

LEMMA InitDelivers ==
  ASSUME Init PROVE Delivery!Init
BY DEF Init, Delivery!Init, Ids, Acknowledged, State

LEMMA AppendItemRecords ==
  ASSUME Inv, AppendItem PROVE Delivery!Record(submitted) /\ submitted \in Items
<1> USE DEF AppendItem, Save, Loaded, server
<1> DEFINE entry == [id |-> submitted, state |-> "SAVED_ON_DEVICE", error |-> "none"]
<1>1. /\ DOMAIN store \subseteq DOMAIN store'
      /\ \A n \in DOMAIN store : store'[n] = store[n]
      /\ \A n \in DOMAIN store' \ DOMAIN store : store'[n] = entry
      /\ Ids(store') = Ids(store) \union {submitted}
  BY AppendedEnvelope
<1>2. submitted \in Items \ Ids(store)
  BY DEF Inv, StoreInv
<1>3. \A n \in DOMAIN store' : store'[n].state = "SERVER_ACKNOWLEDGED"
        => n \in DOMAIN store /\ store'[n] = store[n]
  BY <1>1
<1>4. UNCHANGED Acknowledged
  BY <1>1, <1>3 DEF Acknowledged, State
<1> QED BY <1>1, <1>2, <1>4 DEF Delivery!Record, Ids

LEMMA RecoverKeepsSilent ==
  ASSUME Inv, Recover \/ DrainRecovers PROVE UNCHANGED Delivery!vars
<1>1. CASE Recover
  BY <1>1, RecoveredEnvelope, AcknowledgedStay DEF Recover, Save, Tasks, server
<1>2. CASE DrainRecovers
  BY <1>2, RecoveredEnvelope, AcknowledgedStay DEF DrainRecovers, Save, Tasks, server
<1> QED BY <1>1, <1>2

LEMMA ClaimItemKeepsSilent ==
  ASSUME Inv, ClaimItem PROVE UNCHANGED Delivery!vars
<1> USE DEF ClaimItem, Save
<1>0. view["drain"] = store /\ store \in Seq(Entry)
  BY DEF Inv, LockInv, StoreInv, Loaded, Tasks
<1>1. PICK k \in DOMAIN store : sending' = store[k].id /\ Eligible(store[k])
  BY <1>0 DEF EligibleAt
<1>2. sending' \in Items
  <2>1. store[k] \in Entry
    BY <1>0
  <2> QED BY <1>1, <2>1 DEF Entry
<1>3. /\ Rewrites(store')
      /\ \A n \in DOMAIN store : store'[n].state =
           IF store[n].id = sending' THEN "SENDING" ELSE store[n].state
  BY <1>2, ReplacedEnvelope DEF Tasks, DeliveryStates
<1>4. \A n \in DOMAIN store : store[n].id = sending' =>
        store[n].state # "SERVER_ACKNOWLEDGED"
  <2>1. \A n \in DOMAIN store : store[n].id = sending' => n = k
    BY <1>1 DEF Inv, StoreInv
  <2> QED BY <1>1, <2>1 DEF Eligible
<1> QED BY <1>3, <1>4, AcknowledgedStay

LEMMA StoreFailureKeepsSilent ==
  ASSUME Inv, StoreFailure PROVE UNCHANGED Delivery!vars
<1> USE DEF StoreFailure, Save, server
<1>0. sending \in Items
  <2>1. view["drain"] = store /\ store \in Seq(Entry)
    BY DEF Inv, LockInv, StoreInv, Loaded, Tasks
  <2>2. PICK n \in DOMAIN store : sending = store[n].id
    BY <2>1 DEF Ids
  <2>3. store[n] \in Entry
    BY <2>1, <2>2
  <2> QED BY <2>2, <2>3 DEF Entry
<1>1. /\ Rewrites(store')
      /\ \A n \in DOMAIN store : store'[n].state =
           IF store[n].id = sending THEN "SEND_FAILED" ELSE store[n].state
  BY <1>0, ReplacedEnvelope DEF Tasks, DeliveryStates, Inv, Typed
<1>2. \A n \in DOMAIN store : store[n].id = sending =>
        store[n].state # "SERVER_ACKNOWLEDGED"
  BY DEF Inv, DrainInv
<1> QED BY <1>1, <1>2, AcknowledgedStay

LEMMA StoreAcknowledgementSettles ==
  ASSUME Inv, StoreAcknowledgement PROVE Delivery!Settle(sending) /\ sending \in Items
<1> USE DEF StoreAcknowledgement, Save, server
<1>0. PICK k \in DOMAIN store : sending = store[k].id
  BY DEF Inv, LockInv, Loaded, Tasks, Ids
<1>1. sending \in Items
  <2>1. store[k] \in Entry
    BY <1>0 DEF Inv, StoreInv
  <2> QED BY <1>0, <2>1 DEF Entry
<1>2. /\ Rewrites(store')
      /\ \A n \in DOMAIN store : store'[n].state =
           IF store[n].id = sending THEN "SERVER_ACKNOWLEDGED" ELSE store[n].state
  BY <1>1, ReplacedEnvelope DEF Tasks, DeliveryStates
<1>3. sending \in accepted
      /\ \A n \in DOMAIN store : store[n].id = sending =>
           store[n].state # "SERVER_ACKNOWLEDGED"
  BY DEF Inv, DrainInv
<1>4. Ids(store') = Ids(store)
  BY <1>2, RewritesKeepsIds
<1>5. sending \notin Acknowledged
  BY <1>3, AcknowledgedEntries
<1>6. Acknowledged' = Acknowledged \union {sending}
  <2>1. Acknowledged' = {i \in Items : \E n \in DOMAIN store' :
                    store'[n].id = i /\ store'[n].state = "SERVER_ACKNOWLEDGED"}
    BY DEF Acknowledged, State
  <2>2. \A i \in Items :
          (\E n \in DOMAIN store' :
             store'[n].id = i /\ store'[n].state = "SERVER_ACKNOWLEDGED")
          <=> \/ i = sending
              \/ \E n \in DOMAIN store :
                   store[n].id = i /\ store[n].state = "SERVER_ACKNOWLEDGED"
    BY <1>0, <1>2 DEF Rewrites
  <2> QED BY <1>1, <2>1, <2>2, AcknowledgedEntries
<1> QED BY <1>1, <1>3, <1>4, <1>5, <1>6 DEF Delivery!Settle, Ids

LEMMA ServerAcceptDelivers ==
  ASSUME Inv, NEW i \in Items, ServerAccept(i)
  PROVE  Delivery!Deliver(i) \/ UNCHANGED Delivery!vars
<1> USE DEF ServerAccept, phone
<1>1. i \in Ids(store)
  BY DEF Inv, StoreInv
<1>2. UNCHANGED <<Ids(store), Acknowledged>>
  BY DEF Ids, Acknowledged, State
<1>3. CASE i \in accepted
  BY <1>2, <1>3 DEF Delivery!vars
<1>4. CASE i \notin accepted
  BY <1>1, <1>2, <1>4 DEF Delivery!Deliver
<1> QED BY <1>3, <1>4

\* The other steps touch neither the envelope nor what the server has taken.
LEMMA OthersKeepSilent ==
  ASSUME UNCHANGED <<store, accepted>> PROVE UNCHANGED Delivery!vars
BY DEF Delivery!vars, Ids, Acknowledged, State

LEMMA StepDelivers ==
  ASSUME Inv, [Next]_vars PROVE [Delivery!Next]_(Delivery!vars)
<1>1. CASE AppendItem
  BY <1>1, AppendItemRecords DEF Delivery!Next
<1>2. CASE Recover \/ DrainRecovers
  BY <1>2, RecoverKeepsSilent
<1>3. CASE ClaimItem
  BY <1>3, ClaimItemKeepsSilent
<1>4. CASE StoreFailure
  BY <1>4, StoreFailureKeepsSilent
<1>5. CASE StoreAcknowledgement
  BY <1>5, StoreAcknowledgementSettles DEF Delivery!Next
<1>6. CASE \E i \in Items : ServerAccept(i)
  BY <1>6, ServerAcceptDelivers DEF Delivery!Next
<1>7. CASE \/ \E i \in Items, isOnline \in BOOLEAN : Submit(i, isOnline)
           \/ Reconnect
           \/ Mount
           \/ \E t \in Tasks : Load(t)
           \/ NothingToSend
           \/ Reload
           \/ Settle
           \/ \E t \in Tasks : OpFails(t)
           \/ Crash
           \/ UNCHANGED vars
  <2>1. UNCHANGED <<store, accepted>>
    BY <1>7 DEF Submit, Reconnect, Mount, Load, NothingToSend, Reload, SaveNothing,
       Save, Settle, Acknowledge, SendFails, OpFails, Crash, vars, server
  <2> QED BY <2>1, OthersKeepSilent
<1> QED BY <1>1, <1>2, <1>3, <1>4, <1>5, <1>6, <1>7 DEF Next, Operate

\* The queue of the phone implements the promise of a store-and-forward queue:
\* the request is in the keychain before the server hears of it, it is shown as
\* acknowledged only after the server took it, and neither is ever taken back,
\* whatever fails, is killed or overlaps in between.
THEOREM Refinement == Spec => KeepsPromise
<1>1. Init => Delivery!Init
  BY InitDelivers
<1>2. Inv /\ [Next]_vars => [Delivery!Next]_(Delivery!vars)
  BY StepDelivers
<1> QED BY <1>1, <1>2, Invariance, PTL DEF Spec, KeepsPromise, Delivery!SafeSpec

-----------------------------------------------------------------------------
(***************************************************************************)
(* Nobody is stuck, nothing is forgotten                                   *)
(***************************************************************************)

\* A task that has an operation to do stands in the queue of the lock.
WaitInv ==
  /\ submitPc = "append" => In("submit", waiting)
  /\ submitPc = "drain" => drainPc # "idle"
  /\ drainPc \notin {"idle", "sending"} => In("drain", waiting)

\* The task under the lock leaves it; drain may stand behind it again.
LEMMA OthersWaitOn ==
  ASSUME Inv, NEW t \in Tasks, Runs(t),
         waiting' \in {Released, Append(Released, "drain")}
  PROVE  /\ \A u : In(u, waiting) /\ u # t => In(u, waiting')
         /\ waiting' = Append(Released, "drain") => In("drain", waiting')
<1>1. Released \in Seq(Tasks) /\ \A u : In(u, Released) <=> In(u, waiting) /\ u # t
  BY LockMovesOn
<1>2. CASE waiting' = Released
  <2>1. Len(Append(Released, "drain")) # Len(Released)
    BY <1>1
  <2> QED BY <1>1, <1>2, <2>1
<1>3. CASE waiting' = Append(Released, "drain")
  <2>1. \A u : In(u, waiting') <=> In(u, Released) \/ u = "drain"
    BY <1>1, <1>3, Appended DEF Tasks
  <2> QED BY <1>1, <2>1
<1> QED BY <1>2, <1>3

LEMMA BehindTheOthers ==
  ASSUME Inv, NEW t \in Tasks, waiting' = Append(waiting, t)
  PROVE  In(t, waiting') /\ \A u : In(u, waiting) => In(u, waiting')
BY Appended DEF Inv, LockInv

LEMMA WaitStep == Inv /\ WaitInv /\ [Next]_vars => WaitInv'
<1> SUFFICES ASSUME Inv, WaitInv, [Next]_vars PROVE WaitInv'
  OBVIOUS
<1> USE DEF WaitInv, Tasks
<1> HIDE DEF In
<1>1. CASE UNCHANGED <<waiting, submitPc, drainPc>>
  BY <1>1
<1>2. ASSUME NEW i \in Items, NEW isOnline \in BOOLEAN, Submit(i, isOnline)
      PROVE  WaitInv'
  BY <1>2, BehindTheOthers DEF Submit
<1>3. CASE AppendItem
  BY <1>3, OthersWaitOn DEF AppendItem, Loaded
<1>4. CASE Reconnect
  BY <1>4, BehindTheOthers DEF Reconnect
<1>5. CASE Mount
  BY <1>5, BehindTheOthers DEF Mount, phone
<1>6. CASE Recover
  BY <1>6, OthersWaitOn DEF Recover, Loaded, phone
<1>7. CASE DrainRecovers \/ NothingToSend
  BY <1>7, OthersWaitOn DEF DrainRecovers, NothingToSend, DrainGoesTo, Loaded
<1>8. CASE ClaimItem
  BY <1>8, OthersWaitOn DEF ClaimItem, Loaded
<1>9. CASE Acknowledge
  BY <1>9, BehindTheOthers DEF Acknowledge, DrainGoesTo
<1>10. ASSUME NEW code \in Codes, SendFails(code) PROVE WaitInv'
  BY <1>10, BehindTheOthers DEF SendFails, DrainGoesTo
<1>11. CASE StoreAcknowledgement
  BY <1>11, OthersWaitOn DEF StoreAcknowledgement, DrainGoesTo, Loaded
<1>12. CASE StoreFailure
  BY <1>12, OthersWaitOn DEF StoreFailure, DrainGoesTo, Loaded
<1>13. CASE Reload
  BY <1>13, OthersWaitOn DEF Reload, Loaded, Inv, Typed
<1>14. ASSUME NEW t \in Tasks, OpFails(t) PROVE WaitInv'
  <2>1. CASE t = "submit"
    BY <1>14, <2>1, OthersWaitOn DEF OpFails
  <2>2. CASE t = "recover"
    BY <1>14, <2>2, OthersWaitOn DEF OpFails
  <2>3. CASE t = "drain" /\ drainPc = "ack"
    BY <1>14, <2>3, OthersWaitOn DEF OpFails, DrainGoesTo
  <2>4. CASE t = "drain" /\ drainPc # "ack"
    BY <1>14, <2>4, OthersWaitOn DEF OpFails, DrainRejects
  <2> QED BY <2>1, <2>2, <2>3, <2>4
<1>15. CASE Crash
  BY <1>15 DEF Crash
<1> QED
  BY <1>1, <1>2, <1>3, <1>4, <1>5, <1>6, <1>7, <1>8, <1>9, <1>10, <1>11, <1>12,
     <1>13, <1>14, <1>15
  DEF Next, Operate, Settle, Load, ServerAccept, phone, vars

\* Neither the lock nor the promises that later calls share can leave a caller
\* waiting for what never comes (withQueueLock, submit, drain).
THEOREM ServiceIsNeverStuck == Spec => []NobodyIsStuck
<1>1. Init => WaitInv
  BY DEF Init, WaitInv
<1>2. Inv /\ WaitInv => NobodyIsStuck
  BY DEF Inv, DrainInv, WaitInv, NobodyIsStuck, Waits, In
<1> QED BY <1>1, <1>2, Invariance, WaitStep, PTL DEF Spec

\* What is stored and not settled is sent by this drain or by the next one,
\* wherever drains, recoveries and restarts have interrupted each other
\* (drainInternal, recover): what EverySosSettles needs besides fairness.
THEOREM StoredIsSent == Spec => []NoSosIsForgotten
<1>1. ASSUME Inv PROVE NoSosIsForgotten
  <2> SUFFICES ASSUME NEW n \in DOMAIN store
               PROVE  \/ store[n].id \in Acknowledged \union GivenUp
                      \/ Eligible(store[n])
                      \/ store[n].state = "SENDING" /\ drainPc \in {"idle", "recover"}
                      \/ store[n].id = sending /\ drainPc \in {"sending", "ack", "fail"}
    BY DEF NoSosIsForgotten
  <2>1. store[n] \in Entry
    BY <1>1 DEF Inv, StoreInv
  <2>2. CASE store[n].state = "SERVER_ACKNOWLEDGED"
    BY <2>1, <2>2, AcknowledgedEntries DEF Entry
  <2>3. CASE store[n].state = "SEND_FAILED"
    BY <2>3 DEF Eligible, GivenUp
  <2>4. CASE store[n].state = "SENDING"
    BY <1>1, <2>4 DEF Inv, Typed, Phases, DrainInv
  <2>5. CASE store[n].state = "SAVED_ON_DEVICE"
    BY <2>5 DEF Eligible
  <2> QED BY <2>1, <2>2, <2>3, <2>4, <2>5 DEF Entry, DeliveryStates
<1> QED BY <1>1, Invariance, PTL

\* Acknowledged, or failed in a way that is not retried.
Final(entry) ==
  \/ entry.state = "SERVER_ACKNOWLEDGED"
  \/ entry.state = "SEND_FAILED" /\ entry.error \notin Retryable

LEMMA FinalEntriesStay ==
  ASSUME Inv, [Next]_vars, NEW n \in DOMAIN store, Final(store[n])
  PROVE  n \in DOMAIN store' /\ store'[n] = store[n]
<1>0. /\ store[n].state \notin {"SENDING", "SAVED_ON_DEVICE"} /\ ~Eligible(store[n])
      /\ \A m \in DOMAIN store : store[m].id = store[n].id => m = n
      /\ drainPc \in {"sending", "ack", "fail"} => store[n].id # sending
  BY DEF Inv, StoreInv, DrainInv, Final, Eligible
<1>1. CASE AppendItem
  BY <1>1, AppendedEnvelope DEF AppendItem, Save
<1>2. CASE Recover
  BY <1>0, <1>2, RecoveredEnvelope DEF Recover, Save, Tasks, Rewrites
<1>3. CASE DrainRecovers
  BY <1>0, <1>3, RecoveredEnvelope DEF DrainRecovers, Save, Tasks, Rewrites
<1>4. CASE ClaimItem
  <2>1. view["drain"] = store /\ store \in Seq(Entry)
    BY <1>4 DEF ClaimItem, Inv, LockInv, StoreInv, Loaded, Tasks
  <2>2. PICK k \in DOMAIN store : sending' = store[k].id /\ Eligible(store[k])
    BY <1>4, <2>1 DEF ClaimItem, EligibleAt
  <2>3. sending' \in Items
    <3>1. store[k] \in Entry
      BY <2>1
    <3> QED BY <2>2, <3>1 DEF Entry
  <2>4. store[n].id # sending'
    BY <1>0, <2>2
  <2>5. store' = Replaced("drain", sending', "SENDING", "none") /\ Loaded("drain")
    BY <1>4 DEF ClaimItem, Save
  <2> QED
    BY <2>3, <2>4, <2>5, ReplacedEnvelope DEF Tasks, DeliveryStates, Rewrites
<1>5. CASE StoreAcknowledgement \/ StoreFailure
  <2>1. /\ drainPc \in {"ack", "fail"} /\ Loaded("drain") /\ sending \in Ids(store)
        /\ \/ store' = Replaced("drain", sending, "SERVER_ACKNOWLEDGED", "none")
           \/ store' = Replaced("drain", sending, "SEND_FAILED", failure)
    BY <1>5 DEF StoreAcknowledgement, StoreFailure, Save, Inv, DrainInv
  <2>2. sending \in Items /\ failure \in Codes \union {"none"}
    <3>1. PICK k \in DOMAIN store : sending = store[k].id
      BY <2>1 DEF Ids
    <3>2. store[k] \in Entry
      BY DEF Inv, StoreInv
    <3> QED BY <3>1, <3>2 DEF Entry, Inv, Typed
  <2>3. store[n].id # sending
    BY <1>0, <2>1
  <2> QED
    BY <2>1, <2>2, <2>3, ReplacedEnvelope DEF Tasks, DeliveryStates, Rewrites
<1>6. CASE UNCHANGED store
  BY <1>6
<1> QED
  BY <1>1, <1>2, <1>3, <1>4, <1>5, <1>6
  DEF Next, Operate, Settle, Submit, Reconnect, Mount, Load, NothingToSend, Reload,
      SaveNothing, Save, Acknowledge, SendFails, OpFails, Crash, ServerAccept, server,
      vars

\* An SOS that is acknowledged or given up stays so: no late answer, no recovery
\* and no drain marks it or sends it again (claimNextEligible, recoverEnvelope).
THEOREM SettledStays == Spec => SettledIsFinal
<1> DEFINE Stays == Acknowledged \subseteq Acknowledged' /\ GivenUp \subseteq GivenUp'
<1>1. ASSUME Inv, [Next]_vars PROVE [Stays]_vars
  <2>1. Acknowledged \subseteq Acknowledged'
    <3>1. Acknowledged' = {i \in Items : \E n \in DOMAIN store' :
                      store'[n].id = i /\ store'[n].state = "SERVER_ACKNOWLEDGED"}
      BY DEF Acknowledged, State
    <3> QED BY <1>1, <3>1, AcknowledgedEntries, FinalEntriesStay DEF Final
  <2>2. GivenUp \subseteq GivenUp'
    BY <1>1, FinalEntriesStay DEF Final, GivenUp
  <2> QED BY <2>1, <2>2
<1>2. SettledIsFinal <=> [][Stays]_vars
  BY PTL DEF SettledIsFinal
<1> HIDE DEF Stays
<1> QED BY <1>1, <1>2, Invariance, PTL DEF Spec

=============================================================================
