-------------------------- MODULE MapLifecycleProofs --------------------------
(***************************************************************************)
(* Safety of MapLifecycle for any number of versions, runs of the job and  *)
(* API calls, and any clock.  The argument: from the moment a transaction  *)
(* decides about a version until it commits or rolls back it holds the     *)
(* version's row lock, so the state it decided on is the state it moves    *)
(* the version from, and every recorded transition is an edge.  Windows    *)
(* stay as they are and the clock only advances, so what was decided by a  *)
(* clock still holds at the commit.  What a reader shows changes only by   *)
(* commits that announce it and by the end of a window.                    *)
(***************************************************************************)
EXTENDS MapLifecycle, FiniteSetTheorems, TLAPS

\* The transitions that lead to a state.
Path(state) ==
  CASE state = "DRAFT"     -> <<>>
    [] state = "IN_REVIEW" -> <<"IN_REVIEW">>
    [] state = "APPROVED"  -> <<"IN_REVIEW", "APPROVED">>
    [] state = "PUBLISHED" -> <<"IN_REVIEW", "APPROVED", "PUBLISHED">>
    [] state = "EXPIRED"   -> <<"IN_REVIEW", "APPROVED", "PUBLISHED", "EXPIRED">>
    [] state = "WITHDRAWN" -> <<"IN_REVIEW", "APPROVED", "PUBLISHED", "WITHDRAWN">>

Edges ==
  {<<"DRAFT", "IN_REVIEW">>, <<"IN_REVIEW", "APPROVED">>,
   <<"APPROVED", "PUBLISHED">>, <<"PUBLISHED", "EXPIRED">>,
   <<"PUBLISHED", "WITHDRAWN">>}

ReachedStates ==
  {"DRAFT", "IN_REVIEW", "APPROVED", "PUBLISHED", "EXPIRED", "WITHDRAWN"}
WasPublished == {"PUBLISHED", "EXPIRED", "WITHDRAWN"}

ReviewedByTwo(v) ==
  v.approvedBy # None /\ v.submittedBy # None /\ v.submittedBy # v.approvedBy

\* Version numbers are given out in order.
Numbered ==
  \E k \in 0..MaxVersions : \A n \in Versions : ver[n] # None <=> n <= k

VersionsWereWalked ==
  \A n \in Versions :
    /\ ver[n] = None => history[n] = <<>>
    /\ ver[n] # None =>
         /\ ver[n].state \in ReachedStates
         /\ history[n] = Path(ver[n].state)
         /\ ver[n].state \in {"APPROVED"} \union WasPublished => ReviewedByTwo(ver[n])

ReaderSawPublished ==
  /\ reading # None => ver[reading] # None
  /\ held # None /\ held.shown =>
       ver[held.version] # None /\ ver[held.version].state \in WasPublished

\* A tick has locked the rows it is about to change, in the states it found.
TickHolds(t) ==
  tick[t] # None =>
    /\ \A n \in tick[t].published :
         lock[n] = t /\ ver[n] # None /\ ver[n].state = "APPROVED"
    /\ \A n \in tick[t].expired :
         lock[n] = t /\ ver[n] # None /\ ver[n].state = "PUBLISHED"

Source ==
  [submit |-> "DRAFT", approve |-> "IN_REVIEW", publish |-> "APPROVED",
   withdraw |-> "PUBLISHED"]

\* A call has locked its version, in the state it was allowed for.
CallHolds(c) ==
  call[c] # None =>
    /\ lock[call[c].version] = c
    /\ call[c].action # None =>
         LET v == ver[call[c].version]
         IN /\ v # None
            /\ v.state = Source[call[c].action]
            /\ call[c].actor # None
            /\ call[c].action = "approve" =>
                 v.submittedBy # None /\ v.submittedBy # call[c].actor

Locked ==
  /\ \A t \in Ticks : TickHolds(t)
  /\ \A c \in Calls : CallHolds(c)

Inv ==
  TypeOK /\ Numbered /\ VersionsWereWalked /\ ReaderSawPublished /\ Locked

-----------------------------------------------------------------------------
LEMMA PathGoesOn ==
  ASSUME NEW from, NEW to, <<from, to>> \in Edges
  PROVE  /\ Path(to) = Append(Path(from), to)
         /\ from \in ReachedStates /\ to \in ReachedStates
         /\ from # to
<1>1. CASE from = "DRAFT" /\ to = "IN_REVIEW"
  BY <1>1 DEF Path, ReachedStates
<1>2. CASE from = "IN_REVIEW" /\ to = "APPROVED"
  BY <1>2 DEF Path, ReachedStates
<1>3. CASE from = "APPROVED" /\ to = "PUBLISHED"
  BY <1>3 DEF Path, ReachedStates
<1>4. CASE from = "PUBLISHED" /\ to = "EXPIRED"
  BY <1>4 DEF Path, ReachedStates
<1>5. CASE from = "PUBLISHED" /\ to = "WITHDRAWN"
  BY <1>5 DEF Path, ReachedStates
<1> QED BY <1>1, <1>2, <1>3, <1>4, <1>5 DEF Edges

LEMMA InitInv == Init => Inv
<1> SUFFICES ASSUME Init PROVE Inv
  OBVIOUS
<1>1. TypeOK
  <2>1. 0 \in 0..MaxTime /\ 0 \in 0..MaxFaults /\ <<>> \in Seq(MapStates)
    BY MapAssumption
  <2> QED BY <2>1 DEF Init, TypeOK
<1>2. Numbered
  <2>1. 0 \in 0..MaxVersions /\ \A n \in Versions : ~(n <= 0)
    BY MapAssumption DEF Versions
  <2> QED BY <2>1 DEF Init, Numbered
<1> QED
  BY <1>1, <1>2 DEF Init, Inv, VersionsWereWalked, ReaderSawPublished, Locked,
                     TickHolds, CallHolds

-----------------------------------------------------------------------------
(***************************************************************************)
(* What a commit does to the versions its transaction has locked           *)
(***************************************************************************)

\* The row goes along an edge; an approval adds its second officer.
Moves(v, w) ==
  /\ v # None /\ w \in Version
  /\ <<v.state, w.state>> \in Edges
  /\ w.state = "APPROVED" => ReviewedByTwo(w)
  /\ w.state \in WasPublished =>
       w.approvedBy = v.approvedBy /\ w.submittedBy = v.submittedBy

\* Transaction x moves the versions in rows, which it has locked, and no others.
Commits(x, rows) ==
  /\ rows \subseteq Versions
  /\ ver' \in [Versions -> Version \union {None}]
  /\ history' \in [Versions -> Seq(MapStates)]
  /\ \A n \in rows :
       /\ lock[n] = x
       /\ Moves(ver[n], ver'[n])
       /\ history'[n] = Append(history[n], ver'[n].state)
  /\ \A n \in Versions \ rows : ver'[n] = ver[n] /\ history'[n] = history[n]

LEMMA CommitKeepsVersions ==
  ASSUME Inv, NEW x, NEW rows, Commits(x, rows), UNCHANGED <<reading, held>>
  PROVE  /\ Numbered' /\ VersionsWereWalked' /\ ReaderSawPublished'
         /\ \A n \in Versions : lock[n] # x => ver'[n] = ver[n]
<1>1. \A n \in Versions : ver'[n] # None <=> ver[n] # None
  BY NoneAssumption DEF Commits, Moves
<1>2. Numbered'
  BY <1>1 DEF Inv, Numbered
<1>3. VersionsWereWalked'
  <2> SUFFICES ASSUME NEW n \in Versions
               PROVE  /\ ver'[n] = None => history'[n] = <<>>
                      /\ ver'[n] # None =>
                           /\ ver'[n].state \in ReachedStates
                           /\ history'[n] = Path(ver'[n].state)
                           /\ ver'[n].state \in {"APPROVED"} \union WasPublished
                                => ReviewedByTwo(ver'[n])
    BY DEF VersionsWereWalked
  <2>1. CASE n \in rows
    <3>1. /\ ver[n] # None /\ ver'[n] # None
          /\ history[n] = Path(ver[n].state) /\ <<ver[n].state, ver'[n].state>> \in Edges
          /\ history'[n] = Append(history[n], ver'[n].state)
      BY <1>1, <2>1 DEF Commits, Moves, Inv, VersionsWereWalked
    <3>2. history'[n] = Path(ver'[n].state) /\ ver'[n].state \in ReachedStates
      BY <3>1, PathGoesOn
    <3>3. ASSUME ver'[n].state \in WasPublished
          PROVE  ver[n].state \in {"APPROVED"} \union WasPublished
      BY <3>1, <3>3 DEF Edges, WasPublished
    <3>4. ver[n].state \in {"APPROVED"} \union WasPublished => ReviewedByTwo(ver[n])
      BY <3>1 DEF Inv, VersionsWereWalked
    <3>5. /\ ver'[n].state = "APPROVED" => ReviewedByTwo(ver'[n])
          /\ ver'[n].state \in WasPublished =>
               /\ ver'[n].approvedBy = ver[n].approvedBy
               /\ ver'[n].submittedBy = ver[n].submittedBy
      BY <2>1 DEF Commits, Moves
    <3> QED BY <3>1, <3>2, <3>3, <3>4, <3>5 DEF ReviewedByTwo
  <2>2. CASE n \notin rows
    BY <2>2 DEF Commits, Inv, VersionsWereWalked
  <2> QED BY <2>1, <2>2
<1>4. ReaderSawPublished'
  <2>1. \A n \in Versions :
          ver[n] # None /\ ver[n].state \in WasPublished
            => ver'[n] # None /\ ver'[n].state \in WasPublished
    <3> SUFFICES ASSUME NEW n \in Versions, ver[n] # None, ver[n].state \in WasPublished
                 PROVE  ver'[n].state \in WasPublished
      BY <1>1
    <3>1. n \in rows => <<ver[n].state, ver'[n].state>> \in Edges
      BY DEF Commits, Moves
    <3>2. n \notin rows => ver'[n] = ver[n]
      BY DEF Commits
    <3> QED BY <3>1, <3>2 DEF Edges, WasPublished
  <2>2. /\ reading # None => reading \in Versions
        /\ held # None => held.version \in Versions
    BY DEF Inv, TypeOK
  <2> QED BY <1>1, <2>1, <2>2 DEF Inv, ReaderSawPublished
<1> QED BY <1>2, <1>3, <1>4 DEF Commits

-----------------------------------------------------------------------------
\* A new version is a draft with the next number.
LEMMA CreateAdds ==
  ASSUME Inv, NEW session \in Sessions, NEW batch, NEW proposal \in Proposals,
         CreateVersion(session, batch, proposal)
  PROVE  \E next \in Versions, new \in Version :
           /\ new.state = "DRAFT" /\ new # None /\ ver[next] = None
           /\ ver' \in [Versions -> Version \union {None}]
           /\ ver'[next] = new /\ \A n \in Versions \ {next} : ver'[n] = ver[n]
           /\ Numbered'
           /\ UNCHANGED <<clock, history, lock, tick, call, reading, held,
                          invalidated, faults>>
<1> DEFINE next == Cardinality({n \in Versions : ver[n] # None}) + 1
           new == [state |-> "DRAFT", class |-> proposal.class,
                   window |-> proposal.window, createdBy |-> session.principal,
                   submittedBy |-> None, approvedBy |-> None]
<1>1. /\ next \in Versions /\ ver' = [ver EXCEPT ![next] = new]
      /\ UNCHANGED <<clock, history, lock, tick, call, reading, held,
                     invalidated, faults>>
  BY DEF CreateVersion
<1>2. /\ new \in Version /\ new.state = "DRAFT"
  BY MapAssumption DEF Version, MapStates, Principals
<1>3. new # None
  BY <1>2, NoneAssumption
<1>4. PICK k \in 0..MaxVersions : \A n \in Versions : ver[n] # None <=> n <= k
  BY DEF Inv, Numbered
<1>5. next = k + 1
  <2>1. {n \in Versions : ver[n] # None} = 1..k
    BY <1>4, MapAssumption DEF Versions
  <2>2. Cardinality(1..k) = k
    BY <1>4, FS_Interval
  <2> QED BY <2>1, <2>2
<1> HIDE DEF next, new
<1>6. /\ ver[next] = None
      /\ \A n \in Versions \ {next} : ver'[n] = ver[n]
      /\ ver'[next] = new /\ ver' \in [Versions -> Version \union {None}]
  BY <1>1, <1>2, <1>4, <1>5 DEF Inv, TypeOK, Versions
<1>7. Numbered'
  <2>1. k + 1 \in 0..MaxVersions
    BY <1>1, <1>5, MapAssumption DEF Versions
  <2>2. \A n \in Versions : ver'[n] # None <=> n <= k + 1
    BY <1>3, <1>4, <1>5, <1>6 DEF Versions
  <2> QED BY <2>1, <2>2 DEF Numbered
<1> QED BY <1>1, <1>2, <1>3, <1>6, <1>7

LEMMA CreateKeepsInv ==
  ASSUME Inv, NEW session \in Sessions, NEW batch, NEW proposal \in Proposals,
         CreateVersion(session, batch, proposal)
  PROVE  Inv'
<1>1. PICK next \in Versions, new \in Version :
        /\ new.state = "DRAFT" /\ new # None /\ ver[next] = None
        /\ ver' \in [Versions -> Version \union {None}]
        /\ ver'[next] = new /\ \A n \in Versions \ {next} : ver'[n] = ver[n]
        /\ Numbered'
        /\ UNCHANGED <<clock, history, lock, tick, call, reading, held,
                       invalidated, faults>>
  BY CreateAdds
<1>2. VersionsWereWalked'
  BY <1>1 DEF Inv, VersionsWereWalked, Path, ReachedStates, WasPublished
<1>3. TypeOK'
  BY <1>1 DEF Inv, TypeOK
<1>4. ReaderSawPublished'
  BY <1>1 DEF Inv, TypeOK, ReaderSawPublished
<1>5. Locked'
  <2>1. \A n \in Versions : ver[n] # None => ver'[n] = ver[n]
    BY <1>1
  <2>2. \A t \in Ticks : tick[t] # None =>
          tick[t].published \subseteq Versions /\ tick[t].expired \subseteq Versions
    BY DEF Inv, TypeOK, Tick
  <2>3. \A c \in Calls : call[c] # None => call[c].version \in Versions
    BY DEF Inv, TypeOK, Call
  <2>4. \A t \in Ticks : TickHolds(t)'
    BY <1>1, <2>1, <2>2 DEF Inv, Locked, TickHolds
  <2>5. \A c \in Calls : CallHolds(c)'
    BY <1>1, <2>1, <2>3 DEF Inv, Locked, CallHolds
  <2> QED BY <2>4, <2>5 DEF Locked
<1> QED BY <1>1, <1>2, <1>3, <1>4, <1>5 DEF Inv

-----------------------------------------------------------------------------
(***************************************************************************)
(* Locks: whoever has none of its rows unlocked, and none of them changed, *)
(* still holds them                                                        *)
(***************************************************************************)

LEMMA TickStillHolds ==
  ASSUME Inv, NEW t \in Ticks, tick'[t] = tick[t],
         \A n \in Versions : lock[n] = t => lock'[n] = t /\ ver'[n] = ver[n]
  PROVE  TickHolds(t)'
<1>1. tick[t] # None =>
        tick[t].published \subseteq Versions /\ tick[t].expired \subseteq Versions
  BY DEF Inv, TypeOK, Tick
<1> QED BY <1>1 DEF Inv, Locked, TickHolds

LEMMA CallStillHolds ==
  ASSUME Inv, NEW c \in Calls, call'[c] = call[c],
         \A n \in Versions : lock[n] = c => lock'[n] = c /\ ver'[n] = ver[n]
  PROVE  CallHolds(c)'
<1>1. call[c] # None => call[c].version \in Versions
  BY DEF Inv, TypeOK, Call
<1> QED BY <1>1 DEF Inv, Locked, CallHolds

LEMMA BeginKeepsInv ==
  ASSUME Inv, NEW c \in Calls, NEW n \in Versions, NEW action \in DOMAIN Target,
         NEW session \in Sessions, NEW skew,
         BeginTransition(c, n, action, session, skew)
  PROVE  Inv'
<1> DEFINE allowed == CanTransition(ver[n], action, session, clock + skew)
           new == IF allowed
                  THEN [version |-> n, action |-> action, actor |-> session.principal]
                  ELSE [version |-> n, action |-> None, actor |-> None]
<1>1. /\ ver[n] # None /\ lock[n] = None
      /\ call' = [call EXCEPT ![c] = new] /\ lock' = [lock EXCEPT ![n] = c]
      /\ allowed \/ faults < MaxFaults
      /\ faults' = IF allowed THEN faults ELSE faults + 1
      /\ UNCHANGED <<clock, ver, history, tick, reading, held, invalidated>>
  BY DEF BeginTransition
<1>2. session.principal \in Principals /\ session.principal # None
  BY NoneAssumption DEF Principals
<1>3. new \in Call /\ new.version = n /\ new.action \in {action, None}
  BY <1>2 DEF Call
<1>4. ASSUME new.action # None
      PROVE  /\ new.action = action /\ new.actor = session.principal
             /\ ver[n].state = Source[action]
             /\ action = "approve" =>
                  ver[n].submittedBy # None /\ ver[n].submittedBy # session.principal
  <2>1. allowed
    BY <1>4
  <2>2. new.action = action /\ new.actor = session.principal
    BY <2>1
  <2>3. /\ action = "submit" => CanSubmit(ver[n])
        /\ action = "approve" => CanApprove(ver[n], session.principal)
        /\ action = "publish" => CanPublish(ver[n], clock + skew)
        /\ action = "withdraw" => CanWithdraw(ver[n])
    BY <2>1 DEF CanTransition
  <2>4. action \in {"submit", "approve", "publish", "withdraw"}
    BY DEF Target
  <2> HIDE DEF new, allowed
  <2> QED
    BY <2>2, <2>3, <2>4 DEF CanSubmit, CanApprove, CanPublish, CanWithdraw, Source
<1>5. faults' \in 0..MaxFaults
  BY <1>1, MapAssumption DEF Inv, TypeOK
<1> HIDE DEF new, allowed
<1>6. TypeOK'
  BY <1>1, <1>3, <1>5 DEF Inv, TypeOK
<1>7. Numbered' /\ VersionsWereWalked' /\ ReaderSawPublished'
  BY <1>1 DEF Inv, Numbered, VersionsWereWalked, ReaderSawPublished
<1>8. \A m \in Versions, x \in Ticks \union Calls :
        lock[m] = x => lock'[m] = x /\ ver'[m] = ver[m]
  BY <1>1, MapAssumption DEF Inv, TypeOK
<1>9. \A t \in Ticks : TickHolds(t)'
  BY <1>1, <1>8, TickStillHolds
<1>10. ASSUME NEW d \in Calls PROVE CallHolds(d)'
  <2>1. CASE d = c
    <3>1. call'[c] = new /\ lock'[n] = c /\ ver' = ver
      BY <1>1 DEF Inv, TypeOK
    <3> QED BY <1>1, <1>2, <1>3, <1>4, <2>1, <3>1 DEF CallHolds
  <2>2. CASE d # c
    <3>1. call'[d] = call[d]
      BY <1>1, <2>2
    <3> QED BY <1>8, <3>1, CallStillHolds
  <2> QED BY <2>1, <2>2
<1> QED BY <1>6, <1>7, <1>9, <1>10 DEF Inv, Locked

\* A call or a tick gives up its locks and is over; nobody else notices.
LEMMA EndKeepsLocked ==
  ASSUME Inv, NEW x \in Ticks \union Calls,
         \A t \in Ticks \ {x} : tick'[t] = tick[t],
         \A c \in Calls \ {x} : call'[c] = call[c],
         x \in Ticks => tick'[x] = None,
         x \in Calls => call'[x] = None,
         \A n \in Versions : lock[n] # x => lock'[n] = lock[n] /\ ver'[n] = ver[n]
  PROVE  Locked'
<1>1. ASSUME NEW t \in Ticks PROVE TickHolds(t)'
  <2>1. CASE t = x
    BY <2>1 DEF TickHolds
  <2>2. CASE t # x
    BY <2>2, TickStillHolds
  <2> QED BY <2>1, <2>2
<1>2. ASSUME NEW c \in Calls PROVE CallHolds(c)'
  <2>1. CASE c = x
    BY <2>1 DEF CallHolds
  <2>2. CASE c # x
    BY <2>2, CallStillHolds
  <2> QED BY <2>1, <2>2
<1> QED BY <1>1, <1>2 DEF Locked

LEMMA AbortCallKeepsInv ==
  ASSUME Inv, NEW c \in Calls, AbortTransition(c)
  PROVE  Inv'
<1>1. /\ call[c] # None /\ lock' = [lock EXCEPT ![call[c].version] = None]
      /\ call' = [call EXCEPT ![c] = None]
      /\ call[c].action # None => faults < MaxFaults
      /\ faults' = IF call[c].action # None THEN faults + 1 ELSE faults
      /\ UNCHANGED <<clock, ver, history, tick, reading, held, invalidated>>
  BY DEF AbortTransition
<1>2. lock[call[c].version] = c /\ call[c].version \in Versions
  BY <1>1 DEF Inv, TypeOK, Call, Locked, CallHolds
<1>3. faults' \in 0..MaxFaults
  BY <1>1, MapAssumption DEF Inv, TypeOK
<1>4. TypeOK'
  BY <1>1, <1>3 DEF Inv, TypeOK
<1>5. \A n \in Versions : lock[n] # c => lock'[n] = lock[n] /\ ver'[n] = ver[n]
  BY <1>1, <1>2 DEF Inv, TypeOK
<1>6. /\ call'[c] = None /\ \A d \in Calls \ {c} : call'[d] = call[d]
      /\ tick' = tick /\ c \notin Ticks
  BY <1>1, MapAssumption DEF Inv, TypeOK
<1>7. Locked'
  BY <1>5, <1>6, EndKeepsLocked
<1> QED
  BY <1>1, <1>4, <1>7 DEF Inv, Numbered, VersionsWereWalked, ReaderSawPublished

LEMMA CommitCallKeepsInv ==
  ASSUME Inv, NEW c \in Calls, CommitTransition(c)
  PROVE  Inv'
<1> DEFINE n == call[c].version
           action == call[c].action
           old == ver[n]
           new == [old EXCEPT !.state = Target[action],
                     !.submittedBy = IF action = "submit" THEN call[c].actor ELSE @,
                     !.approvedBy = IF action = "approve" THEN call[c].actor ELSE @]
<1>1. /\ call[c] # None /\ action # None
      /\ ver' = [ver EXCEPT ![n] = new]
      /\ history' = [history EXCEPT ![n] = Append(@, Target[action])]
      /\ lock' = [lock EXCEPT ![n] = None]
      /\ invalidated' = (invalidated \/ action \in {"publish", "withdraw"})
      /\ call' = [call EXCEPT ![c] = None]
      /\ UNCHANGED <<clock, tick, reading, held, faults>>
  BY DEF CommitTransition
<1>2. /\ n \in Versions /\ lock[n] = c /\ old \in Version /\ old # None
      /\ action \in DOMAIN Target /\ old.state = Source[action]
      /\ call[c].actor \in Principals /\ call[c].actor # None
      /\ action = "approve" => old.submittedBy # None /\ old.submittedBy # call[c].actor
  BY <1>1 DEF Inv, TypeOK, Call, Locked, CallHolds
<1>3. /\ action \in {"submit", "approve", "publish", "withdraw"}
      /\ Target[action] \in MapStates
      /\ <<old.state, Target[action]>> \in Edges
      /\ Target[action] = "APPROVED" <=> action = "approve"
      /\ Target[action] \in WasPublished => action \notin {"submit", "approve"}
  BY <1>2 DEF Target, Source, MapStates, Edges, WasPublished
<1> HIDE DEF n, action, old
<1>4. /\ new \in Version /\ new.state = Target[action]
      /\ action = "approve" => ReviewedByTwo(new)
      /\ action \notin {"submit", "approve"} =>
           new.approvedBy = old.approvedBy /\ new.submittedBy = old.submittedBy
  BY <1>2, <1>3 DEF Version, ReviewedByTwo
<1>5. Moves(old, new)
  BY <1>2, <1>3, <1>4 DEF Moves
<1> HIDE DEF new
<1>6. /\ ver' \in [Versions -> Version \union {None}]
      /\ ver'[n] = new /\ \A m \in Versions \ {n} : ver'[m] = ver[m]
  BY <1>1, <1>2, <1>4 DEF Inv, TypeOK
<1>7. /\ history' \in [Versions -> Seq(MapStates)]
      /\ history'[n] = Append(history[n], Target[action])
      /\ \A m \in Versions \ {n} : history'[m] = history[m]
  <2> DEFINE longer == Append(history[n], Target[action])
  <2>1. longer \in Seq(MapStates)
    BY <1>2, <1>3 DEF Inv, TypeOK
  <2>2. history' = [history EXCEPT ![n] = longer]
    BY <1>1
  <2> HIDE DEF longer
  <2>3. history'[n] = longer /\ history' \in [Versions -> Seq(MapStates)]
        /\ \A m \in Versions \ {n} : history'[m] = history[m]
    BY <1>2, <2>1, <2>2 DEF Inv, TypeOK
  <2> QED BY <2>3 DEF longer
<1>8. Commits(c, {n})
  BY <1>2, <1>4, <1>5, <1>6, <1>7 DEF Commits, old
<1>9. /\ Numbered' /\ VersionsWereWalked' /\ ReaderSawPublished'
      /\ \A m \in Versions : lock[m] # c => ver'[m] = ver[m]
  BY <1>1, <1>8, CommitKeepsVersions
<1>10. \A m \in Versions : lock[m] # c => lock'[m] = lock[m]
  BY <1>1, <1>2 DEF Inv, TypeOK
<1>11. /\ call'[c] = None /\ \A d \in Calls \ {c} : call'[d] = call[d]
       /\ tick' = tick /\ c \notin Ticks
  BY <1>1, MapAssumption DEF Inv, TypeOK
<1>12. Locked'
  BY <1>9, <1>10, <1>11, EndKeepsLocked
<1>13. TypeOK'
  BY <1>1, <1>6, <1>7 DEF Inv, TypeOK
<1> QED BY <1>9, <1>12, <1>13 DEF Inv

-----------------------------------------------------------------------------
(***************************************************************************)
(* The job                                                                 *)
(***************************************************************************)

\* A statement of tick t locks rows that nobody had locked.
LEMMA StatementKeepsInv ==
  ASSUME Inv, NEW t \in Ticks, NEW rows \in SUBSET Versions,
         \A n \in rows : lock[n] = None /\ ver[n] # None,
         NEW new \in Tick, tick' = [tick EXCEPT ![t] = new], TakeLocks(t, rows),
         UNCHANGED <<clock, ver, history, call, reading, held, invalidated, faults>>,
         \A n \in new.published : ver[n].state = "APPROVED",
         \A n \in new.expired : ver[n].state = "PUBLISHED",
         \A n \in new.published \union new.expired :
           ver[n] # None /\ (lock[n] = t \/ n \in rows)
  PROVE  Inv'
<1>1. /\ lock' \in [Versions -> Ticks \union Calls \union {None}]
      /\ \A n \in Versions : lock'[n] = IF n \in rows THEN t ELSE lock[n]
  BY DEF TakeLocks, Inv, TypeOK
<1>2. TypeOK'
  BY <1>1 DEF Inv, TypeOK
<1>3. \A x \in Ticks \union Calls, n \in Versions :
        lock[n] = x => lock'[n] = x /\ ver'[n] = ver[n]
  BY <1>1, MapAssumption
<1>4. ASSUME NEW u \in Ticks PROVE TickHolds(u)'
  <2>1. CASE u = t
    <3>1. tick'[u] = new /\ new.published \subseteq Versions
          /\ new.expired \subseteq Versions
      BY <2>1 DEF Inv, TypeOK, Tick
    <3> QED BY <1>1, <2>1, <3>1 DEF TickHolds
  <2>2. CASE u # t
    <3>1. tick'[u] = tick[u]
      BY <2>2 DEF Inv, TypeOK
    <3> QED BY <1>3, <3>1, TickStillHolds
  <2> QED BY <2>1, <2>2
<1>5. \A c \in Calls : CallHolds(c)'
  BY <1>3, CallStillHolds
<1> QED
  BY <1>2, <1>4, <1>5 DEF Inv, Locked, Numbered, VersionsWereWalked, ReaderSawPublished

LEMMA PublishDueKeepsInv ==
  ASSUME Inv, NEW t \in Ticks, PublishDue(t)
  PROVE  Inv'
<1> DEFINE due == Due("APPROVED", clock)
           new == [at |-> "expire", now |-> clock, published |-> due, expired |-> {}]
<1>1. /\ tick' = [tick EXCEPT ![t] = new] /\ TakeLocks(t, due)
      /\ UNCHANGED <<clock, ver, history, call, reading, held, invalidated, faults>>
  BY DEF PublishDue
<1>2. /\ due \in SUBSET Versions
      /\ \A n \in due : lock[n] = None /\ ver[n] # None /\ ver[n].state = "APPROVED"
  BY DEF Due
<1> HIDE DEF due
<1>3. new \in Tick /\ new.published = due /\ new.expired = {}
  BY <1>2 DEF Tick, Inv, TypeOK
<1> HIDE DEF new
<1> QED BY <1>1, <1>2, <1>3, StatementKeepsInv

LEMMA ExpireDueKeepsInv ==
  ASSUME Inv, NEW t \in Ticks, ExpireDue(t)
  PROVE  Inv'
<1> DEFINE old == tick[t]
           due == Due("PUBLISHED", old.now)
           new == [old EXCEPT !.at = "commit", !.expired = due]
<1>1. /\ old # None /\ old \in Tick
      /\ tick' = [tick EXCEPT ![t] = new] /\ TakeLocks(t, due)
      /\ UNCHANGED <<clock, ver, history, call, reading, held, invalidated, faults>>
  BY DEF ExpireDue, Inv, TypeOK
<1>2. /\ due \in SUBSET Versions
      /\ \A n \in due : lock[n] = None /\ ver[n] # None /\ ver[n].state = "PUBLISHED"
  BY DEF Due
<1>3. \A n \in old.published :
        lock[n] = t /\ ver[n] # None /\ ver[n].state = "APPROVED"
  BY <1>1 DEF Inv, Locked, TickHolds
<1> HIDE DEF due, old
<1>4. new \in Tick /\ new.published = old.published /\ new.expired = due
  BY <1>1, <1>2 DEF Tick
<1> HIDE DEF new
<1> QED BY <1>1, <1>2, <1>3, <1>4, StatementKeepsInv

LEMMA TickMoves ==
  ASSUME Inv, NEW t \in Ticks, CommitTick(t)
  PROVE  Commits(t, Changed(t))
<1>1. /\ tick[t] # None /\ tick[t] \in Tick
      /\ ver' = [n \in Versions |->
                   IF n \in Changed(t) THEN [ver[n] EXCEPT !.state = Reached(t, n)]
                   ELSE ver[n]]
      /\ history' = [n \in Versions |->
                       IF n \in Changed(t) THEN Append(history[n], Reached(t, n))
                       ELSE history[n]]
  BY DEF CommitTick, Inv, TypeOK
<1>2. Changed(t) \subseteq Versions
  BY <1>1 DEF Changed, Tick
<1>3. ASSUME NEW n \in Changed(t)
      PROVE  /\ lock[n] = t /\ Moves(ver[n], ver'[n])
             /\ ver'[n] \in Version
             /\ history'[n] = Append(history[n], ver'[n].state)
             /\ history'[n] \in Seq(MapStates)
  <2> DEFINE to == Reached(t, n)
             old == ver[n]
             new == [old EXCEPT !.state = to]
  <2>1. /\ old # None /\ old \in Version /\ lock[n] = t
        /\ <<old.state, to>> \in Edges /\ to \in {"PUBLISHED", "EXPIRED"}
    <3>1. CASE n \in tick[t].published
      BY <1>1, <1>2, <3>1 DEF Inv, TypeOK, Locked, TickHolds, Reached, Edges
    <3>2. CASE n \notin tick[t].published
      <4>1. n \in tick[t].expired
        BY <3>2 DEF Changed
      <4> QED
        BY <1>1, <1>2, <3>2, <4>1 DEF Inv, TypeOK, Locked, TickHolds, Reached, Edges
    <3> QED BY <3>1, <3>2
  <2>2. ver'[n] = new /\ history'[n] = Append(history[n], to)
    BY <1>1, <1>2
  <2> HIDE DEF to, old
  <2>3. /\ new \in Version /\ new.state = to /\ new.approvedBy = old.approvedBy
        /\ new.submittedBy = old.submittedBy
    BY <2>1 DEF Version, MapStates
  <2>4. Moves(old, new)
    BY <2>1, <2>3 DEF Moves
  <2> HIDE DEF new
  <2>5. history'[n] \in Seq(MapStates)
    BY <1>2, <2>1, <2>2 DEF Inv, TypeOK, MapStates
  <2> QED BY <2>1, <2>2, <2>3, <2>4, <2>5 DEF old
<1>4. \A n \in Versions \ Changed(t) : ver'[n] = ver[n] /\ history'[n] = history[n]
  BY <1>1
<1>5. \A n \in Versions : ver'[n] \in Version \union {None} /\ history'[n] \in Seq(MapStates)
  BY <1>3, <1>4 DEF Inv, TypeOK
<1>6. /\ ver' = [n \in Versions |-> ver'[n]]
      /\ history' = [n \in Versions |-> history'[n]]
  BY <1>1
<1>7. /\ ver' \in [Versions -> Version \union {None}]
      /\ history' \in [Versions -> Seq(MapStates)]
  BY <1>5, <1>6
<1> QED BY <1>2, <1>3, <1>4, <1>7 DEF Commits

LEMMA EndTickKeepsInv ==
  ASSUME Inv, NEW t \in Ticks, CommitTick(t) \/ AbortTick(t)
  PROVE  Inv'
<1>1. /\ tick' = [tick EXCEPT ![t] = None] /\ Unlock(t)
      /\ UNCHANGED <<clock, call, reading, held>>
  BY DEF CommitTick, AbortTick
<1>2. /\ lock' \in [Versions -> Ticks \union Calls \union {None}]
      /\ \A n \in Versions : lock[n] # t => lock'[n] = lock[n]
  BY <1>1 DEF Unlock, Inv, TypeOK
<1>3. /\ Numbered' /\ VersionsWereWalked' /\ ReaderSawPublished'
      /\ ver' \in [Versions -> Version \union {None}]
      /\ history' \in [Versions -> Seq(MapStates)]
      /\ invalidated' \in BOOLEAN /\ faults' \in 0..MaxFaults
      /\ \A n \in Versions : lock[n] # t => ver'[n] = ver[n]
  <2>1. CASE CommitTick(t)
    <3>1. Commits(t, Changed(t))
      BY <2>1, TickMoves
    <3>2. invalidated' \in BOOLEAN /\ faults' = faults
      BY <2>1 DEF CommitTick, Inv, TypeOK
    <3> QED BY <1>1, <3>1, <3>2, CommitKeepsVersions DEF Commits, Inv, TypeOK
  <2>2. CASE AbortTick(t)
    <3>1. UNCHANGED <<ver, history, invalidated>> /\ faults' \in 0..MaxFaults
      BY <2>2, MapAssumption DEF AbortTick, Inv, TypeOK
    <3> QED
      BY <1>1, <3>1 DEF Inv, TypeOK, Numbered, VersionsWereWalked, ReaderSawPublished
  <2> QED BY <2>1, <2>2
<1>4. /\ tick'[t] = None /\ \A u \in Ticks \ {t} : tick'[u] = tick[u]
      /\ call' = call /\ t \notin Calls
      /\ tick' \in [Ticks -> Tick \union {None}]
  BY <1>1, MapAssumption DEF Inv, TypeOK
<1>5. Locked'
  BY <1>2, <1>3, <1>4, EndKeepsLocked
<1>6. TypeOK'
  BY <1>1, <1>2, <1>3, <1>4 DEF Inv, TypeOK
<1> QED BY <1>3, <1>5, <1>6 DEF Inv

-----------------------------------------------------------------------------
(***************************************************************************)
(* The reader                                                              *)
(***************************************************************************)

\* A non-empty finite set of numbers has a greatest one.
LEMMA GreatestExists ==
  ASSUME NEW S \in SUBSET Nat, IsFiniteSet(S), S # {}
  PROVE  \E m \in S : \A x \in S : x <= m
<1> DEFINE Above(m) == {x \in S : x > m}
           Tails == {Above(m) : m \in S}
           R == StrictSubsetOrdering(S)
<1>1. Tails \subseteq FiniteSubsetsOf(S) /\ Tails # {}
  <2>1. FiniteSubsetsOf(S) = SUBSET S
    BY FS_FiniteSubsetsOfFinite
  <2>2. Tails \subseteq SUBSET S
    OBVIOUS
  <2>3. \E m \in S : Above(m) \in Tails
    OBVIOUS
  <2> HIDE DEF Tails
  <2> QED  BY <2>1, <2>2, <2>3
<1>2. IsWellFoundedOn(R, FiniteSubsetsOf(S))
  BY FS_StrictSubsetOrderingWellFounded
<1>3. PICK A \in Tails : \A B \in Tails : ~ (<<B, A>> \in R)
  <2> HIDE DEF Tails, R
  <2> QED  BY <1>1, <1>2, WFMin
<1>4. PICK m \in S : A = Above(m)
  OBVIOUS
<1>5. ASSUME NEW x \in S, x > m  PROVE FALSE
  <2>1. Above(x) \subseteq Above(m)
    <3> SUFFICES ASSUME NEW y \in S, y > x  PROVE y > m
      OBVIOUS
    <3>1. x \in Nat /\ y \in Nat /\ m \in Nat
      OBVIOUS
    <3> QED  BY <3>1, <1>5
  <2>2. x \in Above(m) /\ x \notin Above(x)
    BY <1>5
  <2>3. <<Above(x), Above(m)>> \in R
    BY <2>1, <2>2 DEF StrictSubsetOrdering
  <2> QED  BY <2>3, <1>3, <1>4
<1> QED  BY <1>5

\* What is read first is the newest public version, if there is one.
LEMMA CurrentIsAVersion ==
  /\ Current # None =>
       /\ Current \in Versions /\ Public(Current)
       /\ \A m \in Versions : Public(m) => m <= Current
  /\ Current = None => \A m \in Versions : ~Public(m)
<1> SUFFICES ASSUME \E m \in Versions : Public(m)
             PROVE  /\ Current \in Versions /\ Public(Current)
                    /\ \A m \in Versions : Public(m) => m <= Current
  BY NoneAssumption DEF Current
<1> DEFINE public == {n \in Versions : Public(n)}
<1>1. public # {}
  BY DEF Current
<1>2. public \in SUBSET Nat /\ IsFiniteSet(public)
  <2>1. IsFiniteSet(Versions)
    BY FS_Interval, MapAssumption DEF Versions
  <2>2. public \subseteq Versions
    OBVIOUS
  <2>3. Versions \subseteq Nat
    BY DEF Versions
  <2> HIDE DEF public
  <2> QED BY <2>1, <2>2, <2>3, FS_Subset
<1>3. \E n \in public : \A m \in public : m <= n
  <2> HIDE DEF public
  <2> QED BY <1>1, <1>2, GreatestExists
<1>4. \E n \in Versions : Public(n) /\ \A m \in Versions : Public(m) => m <= n
  BY <1>3
<1>5. Current =
        CHOOSE n \in Versions : Public(n) /\ \A m \in Versions : Public(m) => m <= n
  BY <1>4 DEF Current
<1> QED BY <1>4, <1>5

LEMMA ReaderKeepsInv ==
  ASSUME Inv, SelectVersion \/ SelectFeatures
  PROVE  Inv'
<1>1. UNCHANGED <<clock, ver, history, lock, tick, call, faults>>
  BY DEF SelectVersion, SelectFeatures
<1>2. Numbered' /\ VersionsWereWalked' /\ Locked'
  BY <1>1 DEF Inv, Numbered, VersionsWereWalked, Locked, TickHolds, CallHolds
<1>3. TypeOK' /\ ReaderSawPublished'
  <2>1. CASE SelectVersion
    <3>1. /\ reading' = Current /\ held' \in {None, held} /\ invalidated' = FALSE
      BY <2>1 DEF SelectVersion
    <3>2. Current # None => Current \in Versions /\ ver[Current] # None
      BY CurrentIsAVersion DEF Public
    <3> QED BY <1>1, <3>1, <3>2 DEF Inv, TypeOK, ReaderSawPublished
  <2>2. CASE SelectFeatures
    <3> DEFINE shown == /\ ver[reading].state = "PUBLISHED"
                        /\ Effective(ver[reading].window, clock)
               new == [version |-> reading, shown |-> shown]
    <3>1. /\ reading # None /\ reading \in Versions /\ ver[reading] # None
          /\ held' = new /\ reading' = None /\ invalidated' = invalidated
      BY <2>2 DEF SelectFeatures, Answer, Inv, TypeOK, ReaderSawPublished
    <3>2. shown \in BOOLEAN /\ (shown => ver[reading].state \in WasPublished)
      BY DEF WasPublished, Effective
    <3> HIDE DEF shown
    <3>3. /\ new \in [version : Versions, shown : BOOLEAN]
          /\ new.version = reading /\ new.shown = shown
      BY <3>1, <3>2
    <3> HIDE DEF new
    <3>4. TypeOK'
      BY <1>1, <3>1, <3>3 DEF Inv, TypeOK
    <3>5. ReaderSawPublished'
      BY <1>1, <3>1, <3>2, <3>3 DEF ReaderSawPublished
    <3> QED BY <3>4, <3>5
  <2> QED BY <2>1, <2>2
<1> QED BY <1>2, <1>3 DEF Inv

-----------------------------------------------------------------------------
LEMMA StepKeepsInv == Inv /\ [Next]_vars => Inv'
<1> SUFFICES ASSUME Inv, [Next]_vars PROVE Inv'
  OBVIOUS
<1>1. CASE Advance
  <2>1. clock' \in 0..MaxTime
        /\ UNCHANGED <<ver, history, lock, tick, call, reading, held, invalidated, faults>>
    BY <1>1, MapAssumption DEF Advance, Inv, TypeOK
  <2> QED
    BY <2>1 DEF Inv, TypeOK, Numbered, VersionsWereWalked, ReaderSawPublished, Locked,
                TickHolds, CallHolds
<1>2. ASSUME NEW session \in Sessions, NEW batch \in Batches, NEW proposal \in Proposals,
             CreateVersion(session, batch, proposal)
      PROVE  Inv'
  BY <1>2, CreateKeepsInv
<1>3. ASSUME NEW c \in Calls, NEW n \in Versions, NEW action \in DOMAIN Target,
             NEW session \in Sessions, NEW skew \in Skews,
             BeginTransition(c, n, action, session, skew)
      PROVE  Inv'
  BY <1>3, BeginKeepsInv
<1>4. ASSUME NEW c \in Calls, EndCall(c) PROVE Inv'
  BY <1>4, CommitCallKeepsInv, AbortCallKeepsInv DEF EndCall
<1>5. ASSUME NEW t \in Ticks, TickStep(t) \/ AbortTick(t) PROVE Inv'
  BY <1>5, PublishDueKeepsInv, ExpireDueKeepsInv, EndTickKeepsInv DEF TickStep
<1>6. CASE SelectVersion \/ SelectFeatures
  BY <1>6, ReaderKeepsInv
<1>7. CASE UNCHANGED vars
  BY <1>7 DEF vars, Inv, TypeOK, Numbered, VersionsWereWalked, ReaderSawPublished,
              Locked, TickHolds, CallHolds
<1> QED BY <1>1, <1>2, <1>3, <1>4, <1>5, <1>6, <1>7 DEF Next

LEMMA Invariance == Spec => []Inv
BY InitInv, StepKeepsInv, PTL DEF Spec

\* The tables hold what they can, for any number of versions and transactions.
THEOREM TypeCorrect == Spec => []TypeOK
<1>1. Inv => TypeOK
  BY DEF Inv
<1> QED BY <1>1, Invariance, PTL

\* Whatever ticks of the job and calls of officers overlap, a version's recorded
\* transitions are one walk through the lifecycle (FOR UPDATE, SKIP LOCKED).
THEOREM VersionsTakeOneWalk == Spec => []OneWalk
<1>1. Inv => OneWalk
  <2> SUFFICES ASSUME Inv, NEW n \in Versions
               PROVE  LET h == history[n]
                      IN /\ Len(h) <= 4
                         /\ \A i \in 1..Len(h) :
                              IF i = 4 THEN h[i] \in Ends ELSE h[i] = Walk[i]
                         /\ ver[n] # None =>
                              ver[n].state = IF h = <<>> THEN "DRAFT" ELSE h[Len(h)]
    BY DEF OneWalk
  <2>1. CASE ver[n] = None
    BY <2>1 DEF Inv, VersionsWereWalked
  <2>2. CASE ver[n] # None
    <3>1. history[n] = Path(ver[n].state) /\ ver[n].state \in ReachedStates
      BY <2>2 DEF Inv, VersionsWereWalked
    <3>2. CASE ver[n].state = "DRAFT"
      BY <3>1, <3>2 DEF Path
    <3>3. CASE ver[n].state = "IN_REVIEW"
      BY <3>1, <3>3 DEF Path, Walk
    <3>4. CASE ver[n].state = "APPROVED"
      BY <3>1, <3>4 DEF Path, Walk
    <3>5. CASE ver[n].state = "PUBLISHED"
      BY <3>1, <3>5 DEF Path, Walk
    <3>6. CASE ver[n].state = "EXPIRED"
      BY <3>1, <3>6 DEF Path, Walk, Ends
    <3>7. CASE ver[n].state = "WITHDRAWN"
      BY <3>1, <3>7 DEF Path, Walk, Ends
    <3> QED BY <3>1, <3>2, <3>3, <3>4, <3>5, <3>6, <3>7 DEF ReachedStates
  <2> QED BY <2>1, <2>2
<1> QED BY <1>1, Invariance, PTL

\* No feature reaches a citizen unless one officer submitted its version and
\* another approved it (approveMapVersion; the row lock of transition).
THEOREM ShownFeaturesWereReviewed == Spec => []ShownWasReviewed
<1>1. Inv => ShownWasReviewed
  <2> SUFFICES ASSUME Inv, held # None, held.shown
               PROVE  LET v == ver[held.version]
                      IN /\ "PUBLISHED" \in {history[held.version][i] :
                                              i \in 1..Len(history[held.version])}
                         /\ v.approvedBy # None
                         /\ v.submittedBy \notin {None, v.approvedBy}
    BY DEF ShownWasReviewed
  <2> DEFINE n == held.version
  <2>1. /\ n \in Versions /\ ver[n] # None /\ ver[n].state \in WasPublished
        /\ history[n] = Path(ver[n].state) /\ ReviewedByTwo(ver[n])
    BY DEF Inv, TypeOK, ReaderSawPublished, VersionsWereWalked
  <2>2. 3 \in 1..Len(history[n]) /\ history[n][3] = "PUBLISHED"
    <3>1. CASE ver[n].state = "PUBLISHED"
      BY <2>1, <3>1 DEF Path
    <3>2. CASE ver[n].state = "EXPIRED"
      BY <2>1, <3>2 DEF Path
    <3>3. CASE ver[n].state = "WITHDRAWN"
      BY <2>1, <3>3 DEF Path
    <3> QED BY <2>1, <3>1, <3>2, <3>3 DEF WasPublished
  <2> QED BY <2>1, <2>2 DEF ReviewedByTwo
<1> QED BY <1>1, Invariance, PTL

-----------------------------------------------------------------------------
(***************************************************************************)
(* The clock                                                               *)
(***************************************************************************)

\* The window of n has opened by one of the clocks.
Begun(n) == \E skew \in Skews \union {0} : ver[n].window.from <= clock + skew

\* What a tick or a publication is about to commit fits the clock already.
TimeInv ==
  /\ \A t \in Ticks : tick[t] # None =>
       /\ tick[t].now <= clock
       /\ \A n \in tick[t].published : Begun(n)
       /\ \A n \in tick[t].expired : Elapsed(ver[n].window, clock)
  /\ \A c \in Calls :
       /\ call[c] # None
       /\ call[c].action # None
       /\ call[c].action = "publish"
       => Begun(call[c].version)
  /\ StatesFitTheClock

LEMMA WindowTypes ==
  ASSUME Inv, NEW n \in Versions, ver[n] # None
  PROVE  ver[n].window.from \in Int /\ ver[n].window.to \in Int
<1>1. PICK p \in Proposals : ver[n].window = p.window
  BY DEF Inv, TypeOK, Version
<1> QED BY <1>1, MapAssumption DEF NoEnd

\* A version keeps its window, and time passes.
WindowsStay ==
  /\ \A n \in Versions : ver[n] # None =>
       /\ ver'[n] # None
       /\ ver'[n].window = ver[n].window /\ ver'[n].class = ver[n].class
  /\ clock <= clock'

LEMMA CommitCallMoves ==
  ASSUME Inv, NEW c \in Calls, CommitTransition(c)
  PROVE  LET n == call[c].version
             action == call[c].action
         IN /\ n \in Versions /\ ver[n] # None /\ action \in DOMAIN Target
            /\ ver[n].state = Source[action]
            /\ ver'[n].state = Target[action] /\ ver'[n] # None
            /\ ver'[n].window = ver[n].window /\ ver'[n].class = ver[n].class
            /\ \A m \in Versions \ {n} : ver'[m] = ver[m]
            /\ call'[c] = None /\ \A d \in Calls \ {c} : call'[d] = call[d]
<1> DEFINE n == call[c].version
           action == call[c].action
           old == ver[n]
           new == [old EXCEPT !.state = Target[action],
                     !.submittedBy = IF action = "submit" THEN call[c].actor ELSE @,
                     !.approvedBy = IF action = "approve" THEN call[c].actor ELSE @]
<1>1. /\ ver' = [ver EXCEPT ![n] = new] /\ call' = [call EXCEPT ![c] = None]
      /\ n \in Versions /\ old \in Version /\ old # None
      /\ action \in DOMAIN Target /\ old.state = Source[action]
      /\ call[c].actor \in Principals
  <2>1. call[c] # None /\ call[c].action # None /\ call[c] \in Call
    BY DEF CommitTransition, Inv, TypeOK
  <2>2. n \in Versions /\ action \in DOMAIN Target
    BY <2>1 DEF Call
  <2>3. old # None /\ old.state = Source[action] /\ call[c].actor \in Principals
    <3>1. CallHolds(c)
      BY DEF Inv, Locked
    <3>2. old # None /\ old.state = Source[action] /\ call[c].actor # None
      BY <2>1, <3>1 DEF CallHolds
    <3> QED BY <2>1, <3>2 DEF Call
  <2>4. old \in Version
    BY <2>2, <2>3 DEF Inv, TypeOK
  <2>5. ver' = [ver EXCEPT ![n] = new] /\ call' = [call EXCEPT ![c] = None]
    BY DEF CommitTransition
  <2> QED BY <2>2, <2>3, <2>4, <2>5
<1>2. Target[action] \in MapStates
  BY <1>1 DEF Target, MapStates
<1> HIDE DEF n, action, old
<1>3. /\ new \in Version /\ new.state = Target[action]
      /\ new.window = old.window /\ new.class = old.class
  BY <1>1, <1>2 DEF Version
<1> HIDE DEF new
<1>4. new # None
  BY <1>3, NoneAssumption
<1>5. /\ ver'[n] = new /\ \A m \in Versions \ {n} : ver'[m] = ver[m]
      /\ call'[c] = None /\ \A d \in Calls \ {c} : call'[d] = call[d]
  BY <1>1 DEF Inv, TypeOK
<1> QED BY <1>1, <1>3, <1>4, <1>5 DEF n, action, old

LEMMA CommitTickMoves ==
  ASSUME Inv, NEW t \in Ticks, CommitTick(t)
  PROVE  /\ Changed(t) \subseteq Versions
         /\ \A n \in Changed(t) :
              /\ ver[n] # None /\ ver'[n] # None /\ ver'[n].state = Reached(t, n)
              /\ ver'[n].window = ver[n].window /\ ver'[n].class = ver[n].class
         /\ \A n \in Versions \ Changed(t) : ver'[n] = ver[n]
         /\ tick[t] # None /\ tick'[t] = None
         /\ \A u \in Ticks \ {t} : tick'[u] = tick[u]
<1>1. Commits(t, Changed(t))
  BY TickMoves
<1>2. /\ tick[t] # None /\ tick'[t] = None
      /\ \A u \in Ticks \ {t} : tick'[u] = tick[u]
  BY DEF CommitTick, Inv, TypeOK
<1>3. ASSUME NEW n \in Changed(t)
      PROVE  /\ ver[n] # None /\ ver'[n] # None /\ ver'[n].state = Reached(t, n)
             /\ ver'[n].window = ver[n].window /\ ver'[n].class = ver[n].class
  <2>1. n \in Versions /\ ver[n] # None /\ ver[n] \in Version /\ ver'[n] # None
    BY <1>1, NoneAssumption DEF Commits, Moves, Inv, TypeOK
  <2>2. ver'[n] = [ver[n] EXCEPT !.state = Reached(t, n)]
    BY <2>1 DEF CommitTick
  <2> QED BY <2>1, <2>2 DEF Version
<1> QED BY <1>1, <1>2, <1>3 DEF Commits

LEMMA WindowsStep == Inv /\ [Next]_vars => WindowsStay
<1> SUFFICES ASSUME Inv, [Next]_vars PROVE WindowsStay
  OBVIOUS
<1>1. clock <= clock'
  <2>1. clock \in Nat
    BY DEF Inv, TypeOK
  <2>2. CASE Advance
    BY <2>1, <2>2 DEF Advance
  <2>3. CASE UNCHANGED clock
    BY <2>1, <2>3
  <2>4. ASSUME NEW session \in Sessions, NEW batch \in Batches, NEW proposal \in Proposals,
               CreateVersion(session, batch, proposal)
        PROVE  UNCHANGED clock
    BY <2>4 DEF CreateVersion
  <2>5. ASSUME NEW c \in Calls, NEW n \in Versions, NEW action \in DOMAIN Target,
               NEW session \in Sessions, NEW skew \in Skews,
               BeginTransition(c, n, action, session, skew)
        PROVE  UNCHANGED clock
    BY <2>5 DEF BeginTransition
  <2>6. ASSUME NEW c \in Calls, EndCall(c) PROVE UNCHANGED clock
    BY <2>6 DEF EndCall, CommitTransition, AbortTransition
  <2>7. ASSUME NEW t \in Ticks, TickStep(t) \/ AbortTick(t) PROVE UNCHANGED clock
    BY <2>7 DEF TickStep, PublishDue, ExpireDue, CommitTick, AbortTick
  <2>8. CASE SelectVersion \/ SelectFeatures
    BY <2>3, <2>8 DEF SelectVersion, SelectFeatures
  <2> QED BY <2>2, <2>3, <2>4, <2>5, <2>6, <2>7, <2>8 DEF Next, vars
<1>2. ASSUME NEW session \in Sessions, NEW batch \in Batches, NEW proposal \in Proposals,
             CreateVersion(session, batch, proposal)
      PROVE  WindowsStay
  BY <1>1, <1>2, CreateAdds DEF WindowsStay
<1>3. ASSUME NEW c \in Calls, CommitTransition(c) PROVE WindowsStay
  BY <1>1, <1>3, CommitCallMoves DEF WindowsStay
<1>4. ASSUME NEW t \in Ticks, CommitTick(t) PROVE WindowsStay
  BY <1>1, <1>4, CommitTickMoves DEF WindowsStay
<1>5. CASE UNCHANGED ver
  BY <1>1, <1>5 DEF WindowsStay
<1>6. ASSUME NEW c \in Calls, NEW n \in Versions, NEW action \in DOMAIN Target,
             NEW session \in Sessions, NEW skew \in Skews,
             BeginTransition(c, n, action, session, skew)
      PROVE  WindowsStay
  BY <1>5, <1>6 DEF BeginTransition
<1>7. ASSUME NEW c \in Calls, EndCall(c) PROVE WindowsStay
  BY <1>3, <1>5, <1>7 DEF EndCall, AbortTransition
<1>8. ASSUME NEW t \in Ticks, TickStep(t) \/ AbortTick(t) PROVE WindowsStay
  BY <1>4, <1>5, <1>8 DEF TickStep, PublishDue, ExpireDue, AbortTick
<1>9. CASE Advance \/ SelectVersion \/ SelectFeatures \/ UNCHANGED vars
  BY <1>5, <1>9 DEF Advance, SelectVersion, SelectFeatures, vars
<1> QED BY <1>2, <1>6, <1>7, <1>8, <1>9 DEF Next

\* What has begun or elapsed stays so.
LEMMA TimePasses ==
  ASSUME Inv, Inv', WindowsStay, NEW n \in Versions, ver[n] # None
  PROVE  /\ Begun(n) => Begun(n)'
         /\ Elapsed(ver[n].window, clock) => Elapsed(ver[n].window, clock)'
<1>1. /\ ver'[n].window = ver[n].window /\ clock <= clock'
      /\ clock \in Int /\ clock' \in Int
      /\ ver[n].window.from \in Int /\ ver[n].window.to \in Int
  BY WindowTypes DEF WindowsStay, Inv, TypeOK
<1>2. \A skew \in Skews \union {0} : skew \in Int
  BY MapAssumption
<1>3. Begun(n) => Begun(n)'
  BY <1>1, <1>2 DEF Begun
<1> QED BY <1>1, <1>3 DEF Elapsed

\* A step in which nobody decides or commits anything about a version.
LEMMA TimeKeeps ==
  ASSUME Inv, Inv', WindowsStay, TimeInv,
         \A t \in Ticks : tick'[t] = None \/ tick'[t] = tick[t],
         \A c \in Calls : call'[c] = None \/ call'[c] = call[c],
         \A n \in Versions :
           \/ ver[n] # None /\ ver'[n].state = ver[n].state
           \/ ver'[n].state = "DRAFT"
           \/ ver'[n] = None
           \/ /\ ver[n] # None
              /\ ver'[n].state \in {"PUBLISHED"} \union Ends => Begun(n)
              /\ ver'[n].state = "EXPIRED" => Elapsed(ver[n].window, clock)
  PROVE  TimeInv'
<1>1. \A n \in Versions : ver[n] # None =>
        /\ Begun(n) => Begun(n)'
        /\ Elapsed(ver[n].window, clock) => Elapsed(ver[n].window, clock)'
  BY TimePasses
<1>2. ASSUME NEW t \in Ticks, tick'[t] # None
      PROVE  /\ tick'[t].now <= clock'
             /\ \A n \in tick'[t].published : Begun(n)'
             /\ \A n \in tick'[t].expired : Elapsed(ver[n].window, clock)'
  <2>1. /\ tick'[t] = tick[t] /\ tick[t] # None /\ tick[t] \in Tick
        /\ tick[t].now <= clock /\ clock <= clock'
        /\ clock \in Int /\ clock' \in Int
    BY <1>2 DEF TimeInv, Inv, TypeOK, WindowsStay
  <2>2. tick'[t].now <= clock'
    BY <2>1 DEF Tick
  <2>3. \A n \in tick[t].published \union tick[t].expired :
          n \in Versions /\ ver[n] # None
    BY <2>1 DEF Tick, Inv, Locked, TickHolds
  <2> QED BY <1>1, <2>1, <2>2, <2>3 DEF TimeInv
<1>3. ASSUME NEW c \in Calls, call'[c] # None, call'[c].action # None,
             call'[c].action = "publish"
      PROVE  Begun(call[c].version)'
  <2>1. /\ call'[c] = call[c] /\ call[c] # None /\ call[c].action # None
        /\ call[c].version \in Versions
    BY <1>3 DEF Inv, TypeOK, Call
  <2>2. ver[call[c].version] # None /\ Begun(call[c].version)
    BY <1>3, <2>1 DEF TimeInv, Inv, Locked, CallHolds
  <2>3. \A n \in Versions : n = call'[c].version => Begun(n)'
    BY <1>1, <2>1, <2>2
  <2> QED BY <2>1, <2>3 DEF Begun
<1>4. ASSUME NEW n \in Versions
      PROVE  /\ In(n, {"PUBLISHED"} \union Ends)' => Begun(n)'
             /\ In(n, {"EXPIRED"})' => Elapsed(ver[n].window, clock)'
  <2>1. CASE ver[n] # None /\ ver'[n].state = ver[n].state
    BY <1>1, <2>1 DEF TimeInv, StatesFitTheClock, In, Begun
  <2>2. CASE ver'[n].state = "DRAFT" \/ ver'[n] = None
    BY <2>2 DEF In, Ends
  <2>3. CASE /\ ver[n] # None
             /\ ver'[n].state \in {"PUBLISHED"} \union Ends => Begun(n)
             /\ ver'[n].state = "EXPIRED" => Elapsed(ver[n].window, clock)
    BY <1>1, <2>3 DEF In
  <2> QED BY <2>1, <2>2, <2>3
<1>5. StatesFitTheClock'
  BY <1>4 DEF StatesFitTheClock, Begun
<1> QED BY <1>2, <1>3, <1>5 DEF TimeInv

LEMMA TimeStep == Inv /\ TimeInv /\ [Next]_vars => TimeInv'
<1> SUFFICES ASSUME Inv, TimeInv, [Next]_vars PROVE TimeInv'
  OBVIOUS
<1>0. Inv' /\ WindowsStay
  BY StepKeepsInv, WindowsStep
<1>1. CASE UNCHANGED <<ver, tick, call>>
  BY <1>0, <1>1, TimeKeeps
<1>2. ASSUME NEW session \in Sessions, NEW batch \in Batches, NEW proposal \in Proposals,
             CreateVersion(session, batch, proposal)
      PROVE  TimeInv'
  <2>1. UNCHANGED <<tick, call>>
    BY <1>2 DEF CreateVersion
  <2>2. \A n \in Versions : ver'[n] = ver[n] \/ ver'[n].state = "DRAFT"
    BY <1>2, CreateAdds
  <2> QED BY <1>0, <2>1, <2>2, TimeKeeps
<1>3. ASSUME NEW c \in Calls, NEW n \in Versions, NEW action \in DOMAIN Target,
             NEW session \in Sessions, NEW skew \in Skews,
             BeginTransition(c, n, action, session, skew)
      PROVE  TimeInv'
  <2> DEFINE allowed == CanTransition(ver[n], action, session, clock + skew)
             new == IF allowed
                    THEN [version |-> n, action |-> action, actor |-> session.principal]
                    ELSE [version |-> n, action |-> None, actor |-> None]
  <2>1. /\ call' = [call EXCEPT ![c] = new] /\ ver[n] # None
        /\ UNCHANGED <<clock, ver, tick>>
    BY <1>3 DEF BeginTransition
  <2>2. /\ call'[c] = new /\ \A d \in Calls \ {c} : call'[d] = call[d]
        /\ new.version = n /\ (allowed => new.action = action)
        /\ (~allowed => new.action = None)
    BY <2>1 DEF Inv, TypeOK
  <2>3. ASSUME new.action # None, new.action = "publish" PROVE Begun(n)
    <3>1. allowed /\ action = "publish"
      BY <2>2, <2>3
    <3>2. Effective(ver[n].window, clock + skew)
      BY <3>1 DEF CanTransition, CanPublish
    <3> QED BY <3>2 DEF Effective, Begun
  <2> HIDE DEF new, allowed
  <2>4. \A d \in Calls :
          /\ call'[d] # None
          /\ call'[d].action # None
          /\ call'[d].action = "publish"
          => Begun(call'[d].version)
    BY <2>2, <2>3 DEF TimeInv
  <2>5. \A m : Begun(m)' <=> Begun(m)
    BY <2>1 DEF Begun
  <2>6. StatesFitTheClock'
    BY <2>1 DEF TimeInv, StatesFitTheClock, In
  <2> QED BY <2>1, <2>4, <2>5, <2>6 DEF TimeInv, Begun
<1>4. ASSUME NEW c \in Calls, CommitTransition(c) PROVE TimeInv'
  <2> DEFINE n == call[c].version
             action == call[c].action
  <2>1. /\ n \in Versions /\ ver[n] # None /\ action \in DOMAIN Target
        /\ ver[n].state = Source[action] /\ ver'[n].state = Target[action]
        /\ \A m \in Versions \ {n} : ver'[m] = ver[m]
        /\ call'[c] = None /\ \A d \in Calls \ {c} : call'[d] = call[d]
    BY <1>4, CommitCallMoves
  <2>2. tick' = tick /\ call[c] # None /\ action # None
    BY <1>4 DEF CommitTransition
  <2>3. action = "publish" => Begun(n)
    BY <2>2 DEF TimeInv
  <2>4. action = "withdraw" => Begun(n)
    BY <2>1 DEF TimeInv, StatesFitTheClock, In, Source, Begun
  <2> HIDE DEF n, action
  <2>5. /\ Target[action] \in {"PUBLISHED"} \union Ends => Begun(n)
        /\ Target[action] # "EXPIRED"
    BY <2>1, <2>3, <2>4 DEF Target, Ends
  <2>6. \A m \in Versions :
          \/ ver'[m] = ver[m]
          \/ /\ ver[m] # None
             /\ ver'[m].state \in {"PUBLISHED"} \union Ends => Begun(m)
             /\ ver'[m].state = "EXPIRED" => Elapsed(ver[m].window, clock)
    BY <2>1, <2>5
  <2> QED BY <1>0, <2>1, <2>2, <2>6, TimeKeeps
<1>5. ASSUME NEW c \in Calls, AbortTransition(c) PROVE TimeInv'
  <2>1. /\ UNCHANGED <<ver, tick>> /\ call' = [call EXCEPT ![c] = None]
    BY <1>5 DEF AbortTransition
  <2>2. \A d \in Calls : call'[d] = None \/ call'[d] = call[d]
    BY <2>1 DEF Inv, TypeOK
  <2> QED BY <1>0, <2>1, <2>2, TimeKeeps
<1>6. ASSUME NEW t \in Ticks, AbortTick(t) PROVE TimeInv'
  <2>1. /\ UNCHANGED <<ver, call>> /\ tick' = [tick EXCEPT ![t] = None]
    BY <1>6 DEF AbortTick
  <2>2. \A u \in Ticks : tick'[u] = None \/ tick'[u] = tick[u]
    BY <2>1 DEF Inv, TypeOK
  <2> QED BY <1>0, <2>1, <2>2, TimeKeeps
<1>7. ASSUME NEW t \in Ticks, PublishDue(t) \/ ExpireDue(t) PROVE TimeInv'
  <2> SUFFICES ASSUME NEW new, tick' = [tick EXCEPT ![t] = new],
                      UNCHANGED <<clock, ver, call>>,
                      new.now <= clock,
                      \A n \in new.published : Begun(n),
                      \A n \in new.expired : Elapsed(ver[n].window, clock)
               PROVE  TimeInv'
    <3>1. CASE PublishDue(t)
      <4> DEFINE due == Due("APPROVED", clock)
                 mine == [at |-> "expire", now |-> clock, published |-> due,
                          expired |-> {}]
      <4>1. tick' = [tick EXCEPT ![t] = mine] /\ UNCHANGED <<clock, ver, call>>
        BY <3>1 DEF PublishDue
      <4>2. \A n \in due : ver[n].window.from <= clock
        BY DEF Due, Effective
      <4>3. 0 \in Skews \union {0} /\ clock + 0 = clock
        BY DEF Inv, TypeOK
      <4>4. \A n \in due : Begun(n)
        BY <4>2, <4>3 DEF Begun
      <4>5. clock <= clock
        BY DEF Inv, TypeOK
      <4>6. mine.now = clock /\ mine.published = due /\ mine.expired = {}
        OBVIOUS
      <4> HIDE DEF mine, due
      <4> QED BY <4>1, <4>4, <4>5, <4>6
    <3>2. CASE ExpireDue(t)
      <4> DEFINE old == tick[t]
                 due == Due("PUBLISHED", old.now)
                 mine == [old EXCEPT !.at = "commit", !.expired = due]
      <4>1. /\ tick' = [tick EXCEPT ![t] = mine] /\ UNCHANGED <<clock, ver, call>>
            /\ old # None /\ old \in Tick
        BY <3>2 DEF ExpireDue, Inv, TypeOK
      <4>2. old.now <= clock /\ \A n \in old.published : Begun(n)
        BY <4>1 DEF TimeInv
      <4>3. \A n \in due : Elapsed(ver[n].window, clock)
        <5> SUFFICES ASSUME NEW n \in due PROVE Elapsed(ver[n].window, clock)
          OBVIOUS
        <5>1. n \in Versions /\ ver[n] # None /\ Elapsed(ver[n].window, old.now)
          BY DEF Due
        <5>2. ver[n].window.to \in Int
          BY <5>1, WindowTypes
        <5>3. old.now \in Int /\ clock \in Int
          BY <4>1 DEF Inv, TypeOK, Tick
        <5> QED BY <4>2, <5>1, <5>2, <5>3 DEF Elapsed
      <4> HIDE DEF old, due
      <4>4. mine.now = old.now /\ mine.published = old.published /\ mine.expired = due
        BY <4>1 DEF Tick
      <4> HIDE DEF mine
      <4> QED BY <4>1, <4>2, <4>3, <4>4
    <3> QED BY <1>7, <3>1, <3>2
  <2>1. tick'[t] = new /\ \A u \in Ticks \ {t} : tick'[u] = tick[u]
    BY DEF Inv, TypeOK
  <2>2. \A n : Begun(n)' <=> Begun(n)
    BY DEF Begun
  <2>3. StatesFitTheClock'
    BY DEF TimeInv, StatesFitTheClock, In
  <2> QED BY <2>1, <2>2, <2>3 DEF TimeInv, Begun
<1>8. ASSUME NEW t \in Ticks, CommitTick(t) PROVE TimeInv'
  <2>1. /\ Changed(t) \subseteq Versions
        /\ \A n \in Changed(t) : ver[n] # None /\ ver'[n].state = Reached(t, n)
        /\ \A n \in Versions \ Changed(t) : ver'[n] = ver[n]
        /\ tick[t] # None /\ tick'[t] = None
        /\ \A u \in Ticks \ {t} : tick'[u] = tick[u]
    BY <1>8, CommitTickMoves
  <2>2. call' = call
    BY <1>8 DEF CommitTick
  <2>3. ASSUME NEW n \in Changed(t)
        PROVE  /\ Begun(n)
               /\ Reached(t, n) = "EXPIRED" => Elapsed(ver[n].window, clock)
    <3>1. CASE n \in tick[t].published
      BY <2>1, <3>1 DEF TimeInv, Reached
    <3>2. CASE n \notin tick[t].published
      <4>1. n \in tick[t].expired
        BY <3>2 DEF Changed
      <4>2. ver[n].state = "PUBLISHED" /\ n \in Versions
        BY <2>1, <4>1 DEF Inv, Locked, TickHolds
      <4>3. Begun(n)
        BY <2>1, <4>2 DEF TimeInv, StatesFitTheClock, In, Begun
      <4> QED BY <2>1, <4>1, <4>3 DEF TimeInv
    <3> QED BY <3>1, <3>2
  <2>4. \A m \in Versions :
          \/ ver'[m] = ver[m]
          \/ /\ ver[m] # None
             /\ ver'[m].state \in {"PUBLISHED"} \union Ends => Begun(m)
             /\ ver'[m].state = "EXPIRED" => Elapsed(ver[m].window, clock)
    BY <2>1, <2>3
  <2> QED BY <1>0, <2>1, <2>2, <2>4, TimeKeeps
<1> QED
  BY <1>1, <1>2, <1>3, <1>4, <1>5, <1>6, <1>7, <1>8
  DEF Next, Advance, EndCall, TickStep, SelectVersion, SelectFeatures, vars

\* No version is published before its time or expires before it, although job
\* and officers read the clock and the row before they commit (runOnce,
\* publishMapVersion).
THEOREM ClockIsNotOverrun == Spec => []StatesFitTheClock
<1>1. Init => TimeInv
  BY DEF Init, TimeInv, StatesFitTheClock, In
<1>2. TimeInv => StatesFitTheClock
  BY DEF TimeInv
<1> QED BY <1>1, <1>2, Invariance, TimeStep, PTL DEF Spec

-----------------------------------------------------------------------------
(***************************************************************************)
(* What the reader holds                                                   *)
(***************************************************************************)

NoClockIsAhead == \A skew \in Skews : skew <= 0

\* A published version whose window has closed: the job's next run sees it.
Overdue(n) == In(n, {"PUBLISHED"}) /\ Elapsed(ver[n].window, clock)

\* The reader is right, or is about to be told.
InTouch ==
  \/ invalidated
  \/ \E n \in Versions : Overdue(n)
  \/ IF reading # None THEN reading = Current ELSE held = Truth

LEMMA SameCurrent ==
  ASSUME \A n \in Versions : Public(n)' <=> Public(n)
  PROVE  Current' = Current
<1>1. /\ Current # None =>
           /\ Current \in Versions /\ Public(Current)
           /\ \A m \in Versions : Public(m) => m <= Current
      /\ Current = None => \A m \in Versions : ~Public(m)
  BY CurrentIsAVersion
<1>2. (/\ Current # None =>
            /\ Current \in Versions /\ Public(Current)
            /\ \A m \in Versions : Public(m) => m <= Current
       /\ Current = None => \A m \in Versions : ~Public(m))'
  BY CurrentIsAVersion, PTL
<1>3. \A c : c = Current' =>
        /\ c # None =>
             /\ c \in Versions /\ Public(c)
             /\ \A m \in Versions : Public(m) => m <= c
        /\ c = None => \A m \in Versions : ~Public(m)
  BY <1>2 DEF Public
<1>4. \A m \in Versions : m \in Int
  BY DEF Versions
<1> QED BY <1>1, <1>3, <1>4

\* A step that publishes and withdraws nothing, and does not read.
LEMMA QuietStep ==
  ASSUME Inv, Inv', NoClockIsAhead, InTouch, StatesFitTheClock, WindowsStay,
         \A n \in Versions :
           In(n, {"PUBLISHED"})' <=> In(n, {"PUBLISHED"}),
         UNCHANGED <<reading, held, invalidated>>
  PROVE  InTouch'
<1>1. ASSUME NEW n \in Versions, Overdue(n) PROVE Overdue(n)'
  BY <1>1, TimePasses DEF Overdue, In, WindowsStay
<1>2. ASSUME \A n \in Versions : ~Overdue(n)'
      PROVE  Current' = Current
  <2>1. ASSUME NEW n \in Versions PROVE Public(n)' <=> Public(n)
    <3>1. CASE ~In(n, {"PUBLISHED"})
      BY <3>1 DEF In, Public
    <3>2. CASE In(n, {"PUBLISHED"})
      <4>1. /\ ver[n] # None /\ ver[n].state = "PUBLISHED"
            /\ ver'[n] # None /\ ver'[n].state = "PUBLISHED"
            /\ ver'[n].window = ver[n].window /\ ver'[n].class = ver[n].class
        BY <3>2 DEF In, WindowsStay
      <4>2. /\ clock \in Int /\ clock' \in Int /\ clock <= clock'
            /\ ver[n].window.from \in Int /\ ver[n].window.to \in Int
        BY <4>1, WindowTypes DEF Inv, TypeOK, WindowsStay
      <4>3. ver[n].window.from <= clock
        <5>1. PICK skew \in Skews \union {0} : ver[n].window.from <= clock + skew
          BY <3>2 DEF StatesFitTheClock, In
        <5>2. skew \in Int /\ skew <= 0
          BY MapAssumption DEF NoClockIsAhead
        <5> QED BY <4>2, <5>1, <5>2
      <4>4. ~Elapsed(ver[n].window, clock')
        BY <1>2, <4>1 DEF Overdue, In
      <4>5. Effective(ver[n].window, clock) /\ Effective(ver[n].window, clock')
        BY <4>2, <4>3, <4>4 DEF Elapsed, Effective
      <4> QED BY <4>1, <4>5 DEF Public
    <3> QED BY <3>1, <3>2
  <2> QED BY <2>1, SameCurrent
<1> QED BY <1>1, <1>2 DEF InTouch, Truth, Answer

LEMMA InTouchStep ==
  Inv /\ NoClockIsAhead /\ StatesFitTheClock /\ InTouch /\ [Next]_vars => InTouch'
<1> SUFFICES ASSUME Inv, NoClockIsAhead, StatesFitTheClock, InTouch, [Next]_vars
             PROVE  InTouch'
  OBVIOUS
<1>0. Inv' /\ WindowsStay
  BY StepKeepsInv, WindowsStep
<1>1. CASE UNCHANGED <<ver, reading, held, invalidated>>
  <2>1. \A n \in Versions : In(n, {"PUBLISHED"})' <=> In(n, {"PUBLISHED"})
    BY <1>1 DEF In
  <2> QED BY <1>0, <1>1, <2>1, QuietStep
<1>2. ASSUME NEW session \in Sessions, NEW batch \in Batches, NEW proposal \in Proposals,
             CreateVersion(session, batch, proposal)
      PROVE  InTouch'
  <2>1. \A n \in Versions : In(n, {"PUBLISHED"})' <=> In(n, {"PUBLISHED"})
    BY <1>2, CreateAdds DEF In
  <2>2. UNCHANGED <<reading, held, invalidated>>
    BY <1>2 DEF CreateVersion
  <2> QED BY <1>0, <2>1, <2>2, QuietStep
<1>3. ASSUME NEW c \in Calls, CommitTransition(c) PROVE InTouch'
  <2> DEFINE n == call[c].version
             action == call[c].action
  <2>1. /\ n \in Versions /\ ver[n] # None /\ action \in DOMAIN Target
        /\ ver[n].state = Source[action] /\ ver'[n].state = Target[action]
        /\ \A m \in Versions \ {n} : ver'[m] = ver[m]
    BY <1>3, CommitCallMoves
  <2>2. /\ UNCHANGED <<reading, held>>
        /\ invalidated' = (invalidated \/ action \in {"publish", "withdraw"})
    BY <1>3 DEF CommitTransition
  <2> HIDE DEF n, action
  <2>3. CASE action \in {"publish", "withdraw"}
    BY <2>2, <2>3 DEF InTouch
  <2>4. CASE action \in {"submit", "approve"}
    <3>1. ver[n].state # "PUBLISHED" /\ ver'[n].state # "PUBLISHED"
      BY <2>1, <2>4 DEF Source, Target
    <3>2. \A m \in Versions : In(m, {"PUBLISHED"})' <=> In(m, {"PUBLISHED"})
      BY <2>1, <3>1 DEF In
    <3>3. invalidated' = invalidated
      BY <2>2, <2>4 DEF Inv, TypeOK
    <3> QED BY <1>0, <2>2, <3>2, <3>3, QuietStep
  <2> QED BY <2>1, <2>3, <2>4 DEF Target
<1>4. ASSUME NEW t \in Ticks, CommitTick(t) PROVE InTouch'
  <2>1. CASE Changed(t) = {}
    <3>1. \A n \in Versions : ver'[n] = ver[n]
      BY <1>4, <2>1, CommitTickMoves
    <3>2. \A n \in Versions : In(n, {"PUBLISHED"})' <=> In(n, {"PUBLISHED"})
      BY <3>1 DEF In
    <3>3. UNCHANGED <<reading, held, invalidated>>
      BY <1>4, <2>1 DEF CommitTick, Announces, Inv, TypeOK
    <3> QED BY <1>0, <3>2, <3>3, QuietStep
  <2>2. CASE Changed(t) # {}
    BY <1>4, <2>2 DEF CommitTick, Announces, InTouch
  <2> QED BY <2>1, <2>2
<1>5. CASE SelectVersion \/ SelectFeatures
  <2>1. UNCHANGED <<clock, ver>>
    BY <1>5 DEF SelectVersion, SelectFeatures
  <2>2. Current' = Current /\ \A n : Overdue(n)' <=> Overdue(n)
    BY <2>1 DEF Current, Public, Overdue, In
  <2>3. CASE SelectVersion
    <3>1. /\ reading' = Current
          /\ held' = IF Current = None THEN None ELSE held
      BY <2>3 DEF SelectVersion
    <3> QED BY <2>2, <3>1 DEF InTouch, Truth
  <2>4. CASE SelectFeatures
    <3>1. /\ reading # None /\ reading' = None /\ invalidated' = invalidated
          /\ held' = Answer(reading, /\ ver[reading].state = "PUBLISHED"
                                     /\ Effective(ver[reading].window, clock))
      BY <2>4 DEF SelectFeatures
    <3>2. reading = Current => held' = Answer(Current, TRUE)
      BY <3>1, CurrentIsAVersion DEF Public, Answer
    <3>3. reading = Current => held' = Truth'
      BY <2>2, <3>1, <3>2 DEF Truth, Answer
    <3> QED BY <2>2, <3>1, <3>3 DEF InTouch
  <2> QED BY <1>5, <2>3, <2>4
<1>6. ASSUME NEW c \in Calls, NEW n \in Versions, NEW action \in DOMAIN Target,
             NEW session \in Sessions, NEW skew \in Skews,
             BeginTransition(c, n, action, session, skew)
      PROVE  InTouch'
  BY <1>1, <1>6 DEF BeginTransition
<1>7. ASSUME NEW c \in Calls, EndCall(c) PROVE InTouch'
  BY <1>1, <1>3, <1>7 DEF EndCall, AbortTransition
<1>8. ASSUME NEW t \in Ticks, TickStep(t) \/ AbortTick(t) PROVE InTouch'
  BY <1>1, <1>4, <1>8 DEF TickStep, PublishDue, ExpireDue, AbortTick
<1>9. CASE Advance \/ UNCHANGED vars
  BY <1>1, <1>9 DEF Advance, vars
<1> QED BY <1>2, <1>5, <1>6, <1>7, <1>8, <1>9 DEF Next

\* If no API process has its clock ahead of the database, a client never holds
\* a layer that citizens should not see without a read, an event or a run of
\* the job being due (publicFeatures, the map.cache.invalidate events of
\* transition and runOnce).
THEOREM StalenessIsAnnounced == Spec => [](NoClockIsAhead => StaleIsAnnounced)
<1> DEFINE Told == NoClockIsAhead => InTouch
<1>1. Init => Told
  <2>1. Init => \A n \in Versions : ~Public(n)
    BY DEF Init, Public
  <2> QED BY <2>1, CurrentIsAVersion DEF Init, InTouch, Truth
<1>2. Told => (NoClockIsAhead => StaleIsAnnounced)
  BY DEF InTouch, StaleIsAnnounced, Overdue
<1>3. Inv /\ StatesFitTheClock /\ Told /\ [Next]_vars => Told'
  BY InTouchStep DEF NoClockIsAhead
<1> HIDE DEF Told
<1> QED BY <1>1, <1>2, <1>3, Invariance, ClockIsNotOverrun, PTL DEF Spec

=============================================================================
