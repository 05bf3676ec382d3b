---------------------------- MODULE MapLifecycle ----------------------------
(***************************************************************************)
(* The versions of one public map layer, from draft to withdrawal:         *)
(*   - PostgresMapDataRepository (apps/api/.../map-data.repository.ts):    *)
(*     officers create, submit, approve, publish and withdraw versions;    *)
(*   - MapLifecycleJob (apps/worker/src/map-lifecycle.job.ts): publishes   *)
(*     and expires versions by the clock, in ticks that may overlap;       *)
(*   - publicFeatures, the query citizens read the layer with.             *)
(* Layers do not share state, so one is modelled; a version is its number. *)
(*                                                                         *)
(* A transaction holds the row locks of the versions it changes until it   *)
(* commits, and nobody sees its changes before: they are applied by the    *)
(* action that commits.  Features change state only together with their    *)
(* version, so they have no variable of their own.                         *)
(***************************************************************************)
EXTENDS Integers, Sequences, FiniteSets, AccessPolicy

CONSTANTS
  MaxVersions,    \* bound: versions of the layer
  MaxTime,        \* bound: database clock
  MaxFaults,      \* bound: transactions that fail, and calls that are refused
  Proposals,      \* [window, class]: validity and data class of new versions
  Area,           \* the area the versions belong to
  Sessions,       \* access scopes of the officers who call the API
  Skews,          \* API clock minus database clock, for each API process
  Layer,          \* geometry type and property schema of the layer
  Batches,        \* feature collections officers upload
  Ticks,          \* runs of the job that can be under way together
  Calls,          \* API calls that can be under way together
  None

\* valid_to is absent.
NoEnd == -1

ASSUME MapAssumption ==
  /\ MaxVersions \in Nat \ {0}
  /\ MaxTime \in Nat
  /\ MaxFaults \in Nat
  /\ Proposals \subseteq
       [window : [from : 0..MaxTime, to : 1..MaxTime \union {NoEnd}],
        class : DataClasses]
  /\ Skews \subseteq Int
  /\ None \notin Ticks \union Calls
  /\ Ticks \intersect Calls = {}

Versions == 1..MaxVersions

MapStates ==
  {"DRAFT", "IN_REVIEW", "APPROVED", "PUBLISHED", "EXPIRED", "WITHDRAWN",
   "ARCHIVED"}

Principals == {s.principal : s \in Sessions}
Version ==
  [state : MapStates, class : DataClasses, window : {p.window : p \in Proposals},
   createdBy : Principals, submittedBy : Principals \union {None},
   approvedBy : Principals \union {None}]

VARIABLES
  clock,          \* NOW() of the database
  ver,            \* ver[n]: committed row of version n, or None
  history,        \* history[n]: map.version_transitions of n, target states
  lock,           \* lock[n]: transaction that holds the row lock of n
  tick,           \* tick[t]: a run of the job, or None
  call,           \* call[c]: an API transaction, or None
  reading,        \* version a reader has selected, whose features come next
  held,           \* the layer as the reader last received it
  invalidated,    \* a map.cache.invalidate event has not reached the reader
  faults

vars ==
  <<clock, ver, history, lock, tick, call, reading, held, invalidated, faults>>

-----------------------------------------------------------------------------
\* Uploads and the rules of a version

\* validateProperties: rules[p] is the set of values the schema allows for p.
PropertiesValid(schema, properties) ==
  /\ schema.required \subseteq DOMAIN properties
  /\ \A p \in DOMAIN properties :
       IF p \in DOMAIN schema.rules
       THEN properties[p] \in schema.rules[p]
       ELSE schema.open

\* preview rejects no feature of the batch.
PreviewAccepts(batch) ==
  \A feature \in batch :
    /\ feature.shape = Layer.type
    /\ PropertiesValid(Layer.schema, feature.properties)
    /\ feature.simple

Resource(class) ==
  [class |-> class, area |-> Area, unit |-> Unset, case |-> Unset]

\* The window is open at that time.
Effective(window, now) ==
  window.from <= now /\ (window.to = NoEnd \/ now < window.to)

Elapsed(window, now) == window.to # NoEnd /\ window.to <= now

\* submitMapVersion, approveMapVersion, publishMapVersion and
\* withdrawMapVersion return for this version, rather than throw.
CanSubmit(v) == v.state = "DRAFT"

\* Deviation: whoever may publish may approve.
CanApproveOwn(v, actor) == v.state = "IN_REVIEW" /\ v.submittedBy # None
CanApprove(v, actor) ==
  v.state = "IN_REVIEW" /\ v.submittedBy \notin {None, actor}
CanPublish(v, now) == v.state = "APPROVED" /\ Effective(v.window, now)
CanWithdraw(v) == v.state = "PUBLISHED"

Target ==
  [submit |-> "IN_REVIEW", approve |-> "APPROVED", publish |-> "PUBLISHED",
   withdraw |-> "WITHDRAWN"]

CanTransition(v, action, session, now) ==
  /\ Allows(session,
            IF action = "submit" THEN "map.draft.write" ELSE "map.publish",
            Resource(v.class))
  /\ action = "submit" => CanSubmit(v)
  /\ action = "approve" => CanApprove(v, session.principal)
  /\ action = "publish" => CanPublish(v, now)
  /\ action = "withdraw" => CanWithdraw(v)

-----------------------------------------------------------------------------
Init ==
  /\ clock = 0
  /\ ver = [n \in Versions |-> None]
  /\ history = [n \in Versions |-> <<>>]
  /\ lock = [n \in Versions |-> None]
  /\ tick = [t \in Ticks |-> None]
  /\ call = [c \in Calls |-> None]
  /\ reading = None
  /\ held = None
  /\ invalidated = FALSE
  /\ faults = 0

Advance ==
  /\ clock < MaxTime
  /\ clock' = clock + 1
  /\ UNCHANGED <<ver, history, lock, tick, call, reading, held, invalidated,
                 faults>>

\* createVersion.  The lock of the layer's row lets no two of them overlap,
\* and the number is one more than the largest.
CreateVersion(session, batch, proposal) ==
  LET next == Cardinality({n \in Versions : ver[n] # None}) + 1
  IN /\ next \in Versions
     /\ Allows(session, "map.draft.write", Resource(proposal.class))
     /\ PreviewAccepts(batch)
     /\ proposal.window.to = NoEnd \/ proposal.window.from < proposal.window.to
     /\ ver' = [ver EXCEPT ![next] =
                  [state |-> "DRAFT", class |-> proposal.class, window |-> proposal.window,
                   createdBy |-> session.principal, submittedBy |-> None,
                   approvedBy |-> None]]
     /\ UNCHANGED <<clock, history, lock, tick, call, reading, held,
                    invalidated, faults>>

-----------------------------------------------------------------------------
\* transition: one transaction per call, on one version

\* SELECT ... FOR UPDATE OF v, then the decision, which for a publication
\* reads the clock of the API process.  A refusal counts as a fault.
BeginTransition(c, n, action, session, skew) ==
  LET allowed == CanTransition(ver[n], action, session, clock + skew)
  IN /\ call[c] = None
     /\ ver[n] # None
     /\ lock[n] = None
     /\ allowed \/ faults < MaxFaults
     /\ call' = [call EXCEPT ![c] =
                   IF allowed
                   THEN [version |-> n, action |-> action,
                         actor |-> session.principal]
                   ELSE [version |-> n, action |-> None, actor |-> None]]
     /\ lock' = [lock EXCEPT ![n] = c]
     /\ faults' = IF allowed THEN faults ELSE faults + 1
     /\ UNCHANGED <<clock, ver, history, tick, reading, held, invalidated>>

CommitTransition(c) ==
  /\ call[c] # None
  /\ call[c].action # None
  /\ LET n == call[c].version
         action == call[c].action
     IN /\ ver' = [ver EXCEPT
               ![n].state = Target[action],
               ![n].submittedBy =
                 IF action = "submit" THEN call[c].actor ELSE @,
               ![n].approvedBy =
                 IF action = "approve" THEN call[c].actor ELSE @]
        /\ history' = [history EXCEPT ![n] = Append(@, Target[action])]
        /\ lock' = [lock EXCEPT ![n] = None]
        /\ invalidated' =
             (invalidated \/ action \in {"publish", "withdraw"})
  /\ call' = [call EXCEPT ![c] = None]
  /\ UNCHANGED <<clock, tick, reading, held, faults>>

\* The call is refused, or its transaction fails: ROLLBACK.
AbortTransition(c) ==
  /\ call[c] # None
  /\ call[c].action # None => faults < MaxFaults
  /\ faults' = IF call[c].action # None THEN faults + 1 ELSE faults
  /\ lock' = [lock EXCEPT ![call[c].version] = None]
  /\ call' = [call EXCEPT ![c] = None]
  /\ UNCHANGED <<clock, ver, history, tick, reading, held, invalidated>>

-----------------------------------------------------------------------------
\* MapLifecycleJob.runOnce: one transaction, NOW() is the time it began

\* Rows of the statement's WITH due AS (... FOR UPDATE OF v SKIP LOCKED).
\* Deviation: the statement does not skip what another tick has locked.
DueWithoutLock(state, now) ==
  {n \in Versions :
     /\ ver[n] # None
     /\ ver[n].state = state
     /\ IF state = "APPROVED" THEN Effective(ver[n].window, now)
        ELSE Elapsed(ver[n].window, now)}

\* Deviation: a version expires one tick of the clock after its valid_to.
DueTooLate(state, now) ==
  {n \in Versions :
     /\ ver[n] # None
     /\ lock[n] = None
     /\ ver[n].state = state
     /\ IF state = "APPROVED" THEN Effective(ver[n].window, now)
        ELSE Elapsed(ver[n].window, now - 1)}
Due(state, now) ==
  {n \in Versions :
     /\ ver[n] # None
     /\ lock[n] = None
     /\ ver[n].state = state
     /\ IF state = "APPROVED" THEN Effective(ver[n].window, now)
        ELSE Elapsed(ver[n].window, now)}

TakeLocks(t, rows) ==
  lock' = [n \in Versions |-> IF n \in rows THEN t ELSE lock[n]]

\* BEGIN and the first statement.
PublishDue(t) ==
  /\ tick[t] = None
  /\ LET due == Due("APPROVED", clock)
     IN /\ tick' = [tick EXCEPT ![t] =
                      [at |-> "expire", now |-> clock, published |-> due,
                       expired |-> {}]]
        /\ TakeLocks(t, due)
  /\ UNCHANGED <<clock, ver, history, call, reading, held, invalidated, faults>>

ExpireDue(t) ==
  /\ tick[t] # None
  /\ tick[t].at = "expire"
  /\ LET due == Due("PUBLISHED", tick[t].now)
     IN /\ tick' = [tick EXCEPT ![t].at = "commit", ![t].expired = due]
        /\ TakeLocks(t, due)
  /\ UNCHANGED <<clock, ver, history, call, reading, held, invalidated, faults>>

Reached(t, n) ==
  IF n \in tick[t].published THEN "PUBLISHED" ELSE "EXPIRED"

Unlock(t) ==
  lock' = [n \in Versions |-> IF lock[n] = t THEN None ELSE lock[n]]

\* Rows the two statements changed, each with a cache invalidation event.
Changed(t) == tick[t].published \union tick[t].expired

\* Deviation: the expiry statement appends no event.
AnnouncesPublications(t) == tick[t].published # {}
Announces(t) == Changed(t) # {}

\* State, features, history, audit and outbox rows of what the two statements
\* changed become visible together.
CommitTick(t) ==
  /\ tick[t] # None
  /\ tick[t].at = "commit"
  /\ ver' = [n \in Versions |->
               IF n \in Changed(t) THEN [ver[n] EXCEPT !.state = Reached(t, n)]
               ELSE ver[n]]
  /\ history' = [n \in Versions |->
                   IF n \in Changed(t) THEN Append(history[n], Reached(t, n))
                   ELSE history[n]]
  /\ invalidated' = (invalidated \/ Announces(t))
  /\ Unlock(t)
  /\ tick' = [tick EXCEPT ![t] = None]
  /\ UNCHANGED <<clock, call, reading, held, faults>>

\* A statement fails, or the worker dies: ROLLBACK.
AbortTick(t) ==
  /\ tick[t] # None
  /\ faults < MaxFaults
  /\ faults' = faults + 1
  /\ Unlock(t)
  /\ tick' = [tick EXCEPT ![t] = None]
  /\ UNCHANGED <<clock, ver, history, call, reading, held, invalidated>>

-----------------------------------------------------------------------------
\* publicFeatures, as used by a client that opened the layer when it was empty
\* and reads it whenever map.cache.invalidate events have reached it

\* The version is public, published and effective.
Public(n) ==
  /\ ver[n] # None
  /\ ver[n].class = "public"
  /\ ver[n].state = "PUBLISHED"
  /\ Effective(ver[n].window, clock)

\* ORDER BY version_number DESC LIMIT 1
Current ==
  IF \E n \in Versions : Public(n)
  THEN CHOOSE n \in Versions : Public(n) /\ \A m \in Versions : Public(m) => m <= n
  ELSE None

Answer(n, shown) == [version |-> n, shown |-> shown]

\* First statement: the newest version, or NOT_FOUND.
SelectVersion ==
  /\ reading = None
  /\ invalidated
  /\ invalidated' = FALSE
  /\ reading' = Current
  /\ held' = IF Current = None THEN None ELSE held
  /\ UNCHANGED <<clock, ver, history, lock, tick, call, faults>>

\* Second statement: the version's features, with a NOW() of its own.
SelectFeatures ==
  /\ reading # None
  /\ held' = Answer(reading, ver[reading].state = "PUBLISHED"
                               /\ Effective(ver[reading].window, clock))
  /\ reading' = None
  /\ UNCHANGED <<clock, ver, history, lock, tick, call, invalidated, faults>>

-----------------------------------------------------------------------------
TickStep(t) == PublishDue(t) \/ ExpireDue(t) \/ CommitTick(t)
EndCall(c) == CommitTransition(c) \/ AbortTransition(c)

Next ==
  \/ Advance
  \/ \E session \in Sessions, batch \in Batches, proposal \in Proposals :
       CreateVersion(session, batch, proposal)
  \/ \E c \in Calls :
       \/ \E n \in Versions, action \in DOMAIN Target, session \in Sessions,
             skew \in Skews : BeginTransition(c, n, action, session, skew)
       \/ EndCall(c)
  \/ \E t \in Ticks : TickStep(t) \/ AbortTick(t)
  \/ SelectVersion
  \/ SelectFeatures

\* The worker's timer starts runs for ever, database statements return, and
\* the relay delivers every event.
Fairness ==
  /\ \A t \in Ticks : WF_vars(TickStep(t))
  /\ \A c \in Calls : WF_vars(EndCall(c))
  /\ WF_vars(SelectVersion)
  /\ WF_vars(SelectFeatures)

Spec == Init /\ [][Next]_vars /\ Fairness

-----------------------------------------------------------------------------
Tick ==
  [at : {"expire", "commit"}, now : 0..MaxTime,
   published : SUBSET Versions, expired : SUBSET Versions]
Call ==
  [version : Versions, action : DOMAIN Target \union {None},
   actor : Principals \union {None}]

ASSUME NoneAssumption ==
  /\ None \notin Version /\ None \notin Tick /\ None \notin Call
  /\ None \notin Principals /\ None \notin Versions
  /\ None \notin [version : Versions, shown : BOOLEAN]

\* The variables hold what the tables can.
TypeOK ==
  /\ clock \in 0..MaxTime
  /\ ver \in [Versions -> Version \union {None}]
  /\ history \in [Versions -> Seq(MapStates)]
  /\ lock \in [Versions -> Ticks \union Calls \union {None}]
  /\ tick \in [Ticks -> Tick \union {None}]
  /\ call \in [Calls -> Call \union {None}]
  /\ reading \in Versions \union {None}
  /\ held \in [version : Versions, shown : BOOLEAN] \union {None}
  /\ invalidated \in BOOLEAN
  /\ faults \in 0..MaxFaults

\* The steps a version is meant to take.
Walk == <<"IN_REVIEW", "APPROVED", "PUBLISHED">>
Ends == {"EXPIRED", "WITHDRAWN"}

\* Whatever runs of the job and calls of officers overlap, the transitions
\* recorded for a version are one walk through the lifecycle that ends in the
\* version's state: it is published at most once, and a version that was
\* withdrawn or has expired never comes back.
OneWalk ==
  \A n \in Versions :
    LET h == history[n]
    IN /\ Len(h) <= 4
       /\ \A i \in 1..Len(h) : IF i = 4 THEN h[i] \in Ends ELSE h[i] = Walk[i]
       /\ ver[n] # None =>
            ver[n].state = IF h = <<>> THEN "DRAFT" ELSE h[Len(h)]

\* Whatever features a reader has received were published, and two officers
\* had a hand in their version: one submitted it for review and another
\* approved it.  The officer who created the draft is not compared with either,
\* as approveMapVersion does not: AuthorDoesNotApprove is about that.
ShownWasReviewed ==
  held # None /\ held.shown =>
    LET v == ver[held.version]
    IN /\ "PUBLISHED" \in {history[held.version][i] :
                             i \in 1..Len(history[held.version])}
       /\ v.approvedBy # None
       /\ v.submittedBy \notin {None, v.approvedBy}

\* docs/security/security-test-matrix.md:14 (T8): the author of a draft cannot
\* approve it, whoever submitted it for review.
AuthorDoesNotApprove ==
  \A n \in Versions :
    ver[n] # None /\ ver[n].approvedBy # None
      => ver[n].approvedBy # ver[n].createdBy

In(n, states) == ver[n] # None /\ ver[n].state \in states

\* A version is published no earlier than its window opens by the clock that
\* was asked, and expires no earlier than its window closes, although the rows
\* and the clock are read before the transaction commits.
StatesFitTheClock ==
  \A n \in Versions :
    /\ In(n, {"PUBLISHED"} \union Ends) =>
         \E skew \in Skews \union {0} : ver[n].window.from <= clock + skew
    /\ In(n, {"EXPIRED"}) => Elapsed(ver[n].window, clock)

\* The clock is obeyed without an officer: an approved version in its window
\* is published unless the window closes first, and a published version whose
\* window has closed is expired, unless it is withdrawn.
ClockIsKept ==
  \A n \in Versions :
    /\ In(n, {"APPROVED"}) /\ Effective(ver[n].window, clock)
         ~> ~In(n, {"APPROVED"}) \/ Elapsed(ver[n].window, clock)
    /\ In(n, {"PUBLISHED"}) /\ Elapsed(ver[n].window, clock) ~> In(n, Ends)

\* The layer as one statement would answer for it.
Truth == IF Current = None THEN None ELSE Answer(Current, TRUE)

\* A client that reads again on every map.cache.invalidate event, in the two
\* statements of publicFeatures, does not keep a layer that is no longer
\* what citizens should see: every change of it is announced.  This holds only
\* if no API process has its clock ahead of the database (no skew above 0): a
\* version published before its window opens is announced too early and, once
\* it is effective, not again.
CacheCatchesUp == (held # Truth) ~> (held = Truth)

\* At every moment: the client has what citizens should see, or it is about to
\* receive it, or an event is on its way, or the layer holds a version whose
\* window has closed and that the next run of the job will expire and
\* announce.  Only if no API process has its clock ahead of the database: a
\* version that is published before its window opens is announced too early.
StaleIsAnnounced ==
  \/ held = Truth
  \/ reading # None
  \/ invalidated
  \/ \E n \in Versions : In(n, {"PUBLISHED"}) /\ Elapsed(ver[n].window, clock)

=============================================================================
