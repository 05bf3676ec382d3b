------------------------- MODULE IncidentFeedProofs -------------------------
(***************************************************************************)
(* Incidents and their feed for any number of incidents, transactions,     *)
(* consoles and status changes and any page size.  The argument: an        *)
(* incident's row is locked from before its history row takes its number,  *)
(* so within an incident numbers are committed in their order, each on top *)
(* of the committed state; what a page or a console holds about it is then *)
(* a true statement about some prefix of its history.                      *)
(***************************************************************************)
EXTENDS IncidentFeed, FiniteSetTheorems, TLAPS

\* Nothing is numbered or counted beyond the numbers given out.
Bounded ==
  /\ IsFiniteSet(history)
  /\ \A h \in history : h.seq <= sequence
  /\ \A i \in Incidents : incidents[i] # None => incidents[i].version <= sequence
  /\ \A t \in Open : tx[t].seq <= sequence /\ tx[t].version <= sequence
  /\ \A c \in Consoles : cursor[c] <= sequence
  /\ \A p \in pages : p.next <= sequence

\* Open transactions write different incidents.
RowLocked ==
  \A t, u \in Open : tx[t].incident = tx[u].incident => t = u

\* The work w continues the committed history of its incident.
OnTop(w) ==
  /\ IF incidents[w.incident] = None
     THEN w.from = None /\ w.to = "RECEIVED" /\ w.version = 1
     ELSE /\ w.from = incidents[w.incident].state
          /\ Edge(w.from, w.to)
          /\ w.version = incidents[w.incident].version + 1
  /\ \A h \in Changes(w.incident) : h.seq < w.seq

WorkOnTop == \A t \in Open : OnTop(tx[t])

\* A number is given once.
NumbersDiffer ==
  /\ \A h, g \in history : h.seq = g.seq => h = g
  /\ \A t \in Open : \A h \in history : tx[t].seq # h.seq
  /\ \A t, u \in Open : tx[t].seq = tx[u].seq => t = u

\* What an incident can become once it was verified.
PastVerification ==
  {"VERIFIED", "ASSIGNED", "ACKNOWLEDGED", "ESCALATED", "REASSIGNED",
   "EN_ROUTE", "ON_SCENE", "RESOLVED", "CLOSED", "CANCELLED"}

VerifiedBehind ==
  \A h \in history : h.to = "VERIFIED" =>
    /\ incidents[h.incident] # None
    /\ incidents[h.incident].state \in PastVerification

\* Item e tells what incident e.incident once was, on behalf of its change e.cursor.
True(e) ==
  /\ incidents[e.incident] # None
  /\ e.version <= incidents[e.incident].version
  /\ e.version = incidents[e.incident].version =>
       e.state = incidents[e.incident].state
  /\ \E h \in Changes(e.incident) : h.seq = e.cursor

ItemsTrue ==
  /\ \A c \in Consoles : \A e \in events[c] : True(e)
  /\ \A p \in pages : \A e \in p.items : True(e)

\* Every change from `after` up to `upto` is among the items or was overtaken.
Covered(items, after, upto) ==
  /\ \A h \in history : h.seq > after /\ h.seq <= upto =>
       (\E e \in items : e.cursor = h.seq) \/ h.seq \in overtaken
  /\ \A t \in Open : tx[t].seq > after /\ tx[t].seq <= upto =>
       tx[t].seq \in overtaken

AllCovered ==
  /\ \A c \in Consoles : Covered(events[c], 0, cursor[c])
  /\ \A p \in pages : \E after \in 0..cursor[p.console] :
       Covered(p.items, after, p.next)

FeedInv ==
  /\ TypeOK
  /\ Bounded
  /\ RowLocked
  /\ WorkOnTop
  /\ NumbersDiffer
  /\ HistoryIsTheWalk
  /\ DecidesOnWhatWasSeen
  /\ VerifiedBehind
  /\ VerifiedOnce
  /\ ItemsTrue
  /\ AllCovered

-----------------------------------------------------------------------------
(***************************************************************************)
(* Facts about the operators.                                              *)
(***************************************************************************)

\* A non-empty finite set of numbers has a greatest one.
LEMMA GreatestExists ==
  ASSUME NEW S \in SUBSET Nat, IsFiniteSet(S), S # {}
  PROVE  \E m \in S : \A x \in S : x <= m
<1> DEFINE Above(m) == {x \in S : x > m}
           Tails == {Above(m) : m \in S}
           R == StrictSubsetOrdering(S)
<1>1. Tails \subseteq FiniteSubsetsOf(S) /\ Tails # {}
  <2>1. FiniteSubsetsOf(S) = SUBSET S
    BY FS_FiniteSubsetsOfFinite
  <2>2. Tails \subseteq SUBSET S
    OBVIOUS
  <2>3. \E m \in S : Above(m) \in Tails
    OBVIOUS
  <2> HIDE DEF Tails
  <2> QED  BY <2>1, <2>2, <2>3
<1>2. IsWellFoundedOn(R, FiniteSubsetsOf(S))
  BY FS_StrictSubsetOrderingWellFounded
<1>3. PICK A \in Tails : \A B \in Tails : ~ (<<B, A>> \in R)
  <2> HIDE DEF Tails, R
  <2> QED  BY <1>1, <1>2, WFMin
<1>4. PICK m \in S : A = Above(m)
  OBVIOUS
<1>5. ASSUME NEW x \in S, x > m  PROVE FALSE
  <2>1. Above(x) \subseteq Above(m)
    <3> SUFFICES ASSUME NEW y \in S, y > x  PROVE y > m
      OBVIOUS
    <3>1. x \in Nat /\ y \in Nat /\ m \in Nat
      OBVIOUS
    <3> QED  BY <3>1, <1>5
  <2>2. x \in Above(m) /\ x \notin Above(x)
    BY <1>5
  <2>3. <<Above(x), Above(m)>> \in R
    BY <2>1, <2>2 DEF StrictSubsetOrdering
  <2> QED  BY <2>3, <1>3, <1>4
<1> QED  BY <1>5

\* A page holds every change after the cursor up to the next one.
LEMMA PageIsPrefix ==
  ASSUME history \subseteq Change, IsFiniteSet(history), NEW after \in 0..MaxSequence
  PROVE  /\ NextCursor(after) \in 0..MaxSequence
         /\ NextCursor(after) >= after
         /\ NextCursor(after) = after \/ \E h \in history : h.seq = NextCursor(after)
         /\ \A h \in After(after) :
              h.seq <= NextCursor(after) => h \in Oldest(After(after), PageLimit)
<1> DEFINE rest == After(after)
           rows == Oldest(rest, PageLimit)
           numbers == {h.seq : h \in rows}
<1>1. rows \subseteq rest /\ rest \subseteq history
  BY DEF Oldest, After
<1>2. \A h \in rest : h.seq \in 1..MaxSequence /\ h.seq > after
  BY DEF After, Change
<1>3. CASE rows = {}
  <2>1. NextCursor(after) = after
    BY <1>3 DEF NextCursor, Last
  <2> QED  BY <2>1, <1>2
<1>4. CASE rows # {}
  <2>1. numbers \in SUBSET Nat /\ numbers # {} /\ \A n \in numbers : n <= MaxSequence
    BY <1>1, <1>2, <1>4
  <2>2. IsFiniteSet(numbers)
    BY <2>1, FS_BoundedSetOfNaturals, FeedAssumption
  <2>3. \E n \in numbers : \A m \in numbers : m <= n
    <3> HIDE DEF numbers
    <3> QED  BY <2>1, <2>2, GreatestExists
  <2>4. NextCursor(after) = CHOOSE n \in numbers : \A h \in rows : h.seq <= n
    BY <1>4 DEF NextCursor, Last
  <2>5. NextCursor(after) \in numbers
    BY <2>3, <2>4
  <2>6. PICK last \in rows : NextCursor(after) = last.seq
    BY <2>5
  <2>7. ASSUME NEW h \in rest, h.seq <= last.seq  PROVE h \in rows
    <3> DEFINE before(g) == {f \in rest : f.seq < g.seq}
    <3>1. before(h) \subseteq before(last)
      <4> SUFFICES ASSUME NEW f \in rest, f.seq < h.seq  PROVE f.seq < last.seq
        OBVIOUS
      <4> QED  BY <2>7, <1>1, <1>2
    <3>2. IsFiniteSet(before(last))
      BY <1>1, FS_Subset
    <3>3. /\ Cardinality(before(h)) <= Cardinality(before(last))
          /\ IsFiniteSet(before(h))
      <4> HIDE DEF before
      <4> QED  BY <3>1, <3>2, FS_Subset
    <3>4. Cardinality(before(last)) < PageLimit
      BY DEF Oldest
    <3>5. Cardinality(before(h)) \in Nat /\ Cardinality(before(last)) \in Nat
      BY <3>2, <3>3, FS_CardinalityType
    <3>6. Cardinality(before(h)) < PageLimit
      BY <3>3, <3>4, <3>5, FeedAssumption
    <3> QED  BY <3>6 DEF Oldest
  <2> QED  BY <2>6, <2>7, <1>1, <1>2
<1> QED  BY <1>3, <1>4

\* Where the edges of the graph lead.
LEMMA EdgesLeadOn ==
  ASSUME NEW from \in IncidentStates, NEW to \in IncidentStates, Edge(from, to)
  PROVE  /\ from \in PastVerification => to \in PastVerification /\ to # "VERIFIED"
         /\ to = "VERIFIED" => from = "PENDING_VERIFICATION"
         /\ to # "RECEIVED"
         /\ PublicStatus(to) # "RECEIVED"
         /\ PublicStatus(from) \in {"RECEIVED", "IN_PROGRESS", PublicStatus(to)}
<1> USE DEF IncidentStates, NextStates, Edge, Cancellable
<1>1. CASE from \in {"RECEIVED", "AUTO_SCREENING", "PENDING_VERIFICATION"}
  BY <1>1 DEF PastVerification, PublicStatus
<1>2. CASE from \in {"VERIFIED", "ASSIGNED", "REASSIGNED", "ESCALATED"}
  BY <1>2 DEF PastVerification, PublicStatus
<1>3. CASE from \in {"ACKNOWLEDGED", "EN_ROUTE", "ON_SCENE"}
  BY <1>3 DEF PastVerification, PublicStatus
<1>4. CASE from = "RESOLVED"
  BY <1>4 DEF PastVerification, PublicStatus
<1>5. CASE from \in {"CLOSED", "REJECTED", "DUPLICATE", "CANCELLED"}
  BY <1>5
<1> QED  BY <1>1, <1>2, <1>3, <1>4, <1>5

-----------------------------------------------------------------------------
(***************************************************************************)
(* The invariant is established and preserved.                             *)
(***************************************************************************)
LEMMA InitFeedInv == Init => FeedInv
<1> SUFFICES ASSUME Init  PROVE FeedInv
  OBVIOUS
<1> USE FeedAssumption DEF Init
<1>1. TypeOK
  BY DEF TypeOK
<1>2. Open = {} /\ \A i : Changes(i) = {}
  BY DEF Open, Changes
<1>3. Bounded
  BY <1>2, FS_EmptySet DEF Bounded
<1>4. HistoryIsTheWalk
  BY <1>2 DEF HistoryIsTheWalk
<1>5. VerifiedOnce /\ VerifiedBehind /\ NumbersDiffer
  BY <1>2 DEF VerifiedOnce, VerifiedBehind, NumbersDiffer
<1>6. RowLocked /\ WorkOnTop /\ DecidesOnWhatWasSeen
  BY <1>2 DEF RowLocked, WorkOnTop, DecidesOnWhatWasSeen
<1>7. ItemsTrue /\ AllCovered
  BY <1>2 DEF ItemsTrue, AllCovered, Covered
<1> QED  BY <1>1, <1>3, <1>4, <1>5, <1>6, <1>7 DEF FeedInv

\* Transaction t writes w: what the three kinds of writers have in common.
Writes(t, w) ==
  /\ tx[t] = None
  /\ Unlocked(w.incident)
  /\ w \in Work
  /\ OnTop(w)
  /\ w.saw = w.from
  /\ w.seq = sequence + 1
  /\ w.version <= w.seq
  /\ sequence' = sequence + 1
  /\ tx' = [tx EXCEPT ![t] = w]
  /\ UNCHANGED <<incidents, history, verified, pages, cursor, events, overtaken,
                 crossed>>

\* A change permitted on the row of i as it is continues the history of i.
LEMMA PermittedIsOnTop ==
  ASSUME FeedInv, NEW t \in Transactions, NEW i \in Incidents,
         NEW to \in IncidentStates, NEW role, NEW expected, NEW hasReason,
         tx[t] = None, incidents[i] # None, Unlocked(i),
         Permitted(i, to, role, expected, hasReason),
         Write(t, i, incidents[i].state, to, incidents[i].version + 1,
               incidents[i].state)
  PROVE  \E w : Writes(t, w)
<1> DEFINE w == [seq |-> sequence + 1, incident |-> i,
                 from |-> incidents[i].state, to |-> to,
                 version |-> incidents[i].version + 1,
                 saw |-> incidents[i].state]
<1>1. /\ incidents[i] \in Snapshot
      /\ incidents[i].state \in IncidentStates
      /\ incidents[i].version \in Nat
      /\ incidents[i].version <= sequence
      /\ sequence \in Nat /\ sequence < MaxSequence
  BY FeedAssumption DEF FeedInv, TypeOK, Bounded, Write, Snapshot
<1>2. w \in Work
  BY <1>1, FeedAssumption DEF Work
<1>3. Edge(incidents[i].state, to)
  BY DEF Permitted, CanTransition
<1>4. \A h \in Changes(i) : h.seq < sequence + 1
  BY <1>1 DEF FeedInv, TypeOK, Bounded, Changes, Change
<1>5. OnTop(w)
  BY <1>3, <1>4 DEF OnTop
<1>6. w.version <= w.seq
  BY <1>1
<1> QED  BY <1>2, <1>5, <1>6 DEF Writes, Write

LEMMA WritersWrite ==
  ASSUME FeedInv, NEW t \in Transactions, NEW i \in Incidents,
         \/ Accept(t, i)
         \/ Screen(t, i)
         \/ \E c \in Consoles : Decide(t, c, i)
  PROVE  \E w : Writes(t, w)
<1>1. CASE Accept(t, i)
  <2> DEFINE w == [seq |-> sequence + 1, incident |-> i, from |-> None,
                   to |-> "RECEIVED", version |-> 1, saw |-> None]
  <2>1. sequence \in Nat /\ sequence < MaxSequence
    BY <1>1, FeedAssumption DEF FeedInv, TypeOK, Accept, Write
  <2>2. w \in Work
    BY <2>1, FeedAssumption DEF Work, IncidentStates, NextStates
  <2>3. Changes(i) = {}
    BY <1>1 DEF FeedInv, HistoryIsTheWalk, Accept, Fresh
  <2>4. OnTop(w) /\ Unlocked(i)
    BY <1>1, <2>3 DEF OnTop, Accept, Fresh, Unlocked
  <2>5. w.version <= w.seq
    BY <2>1
  <2> QED  BY <1>1, <2>2, <2>4, <2>5 DEF Writes, Accept, Write
<1>2. CASE Screen(t, i)
  BY <1>2, PermittedIsOnTop DEF Screen
<1>3. ASSUME NEW c \in Consoles, Decide(t, c, i)
      PROVE  \E w : Writes(t, w)
  <2>1. PICK seen \in Shown(c, i), to \in IncidentStates :
          /\ Permitted(i, to, "DISPATCHER", seen.version, TRUE)
          /\ Write(t, i, incidents[i].state, to, incidents[i].version + 1,
                   seen.state)
    BY <1>3 DEF Decide
  <2>2. seen \in events[c] /\ seen.incident = i
    BY DEF Shown, About
  <2>3. seen.version = incidents[i].version
    BY <2>1 DEF Permitted, CanTransition
  <2>4. seen.state = incidents[i].state
    BY <2>2, <2>3 DEF FeedInv, ItemsTrue, True
  <2> QED  BY <1>3, <2>1, <2>4, PermittedIsOnTop DEF Decide
<1> QED  BY <1>1, <1>2, <1>3

\* What is said of committed rows only.
LEMMA SameCommitted ==
  ASSUME FeedInv, UNCHANGED <<incidents, history, verified>>
  PROVE  HistoryIsTheWalk' /\ VerifiedBehind' /\ VerifiedOnce'
<1> USE DEF FeedInv
<1>1. \A i : Changes(i)' = Changes(i)
  BY DEF Changes
<1>2. \A h : Previous(h)' = Previous(h)
  BY <1>1 DEF Previous
<1>3. HistoryIsTheWalk'
  BY <1>1, <1>2 DEF HistoryIsTheWalk
<1>4. VerifiedBehind'
  BY DEF VerifiedBehind
<1>5. VerifiedOnce'
  BY <1>1 DEF VerifiedOnce
<1> QED  BY <1>3, <1>4, <1>5

LEMMA WritesPreserves ==
  ASSUME FeedInv, NEW t \in Transactions, NEW w, Writes(t, w)
  PROVE  FeedInv'
<1> USE FeedAssumption DEF FeedInv, Writes
<1>1. /\ w \in Work /\ w # None
      /\ w.seq \in Nat /\ w.version \in Nat /\ sequence \in Nat
      /\ sequence' = w.seq /\ w.seq = sequence + 1 /\ w.seq <= MaxSequence
  BY NoneAssumption DEF TypeOK, Work
<1>2. tx' \in [Transactions -> Work \union {None}]
  BY <1>1 DEF TypeOK
<1>3. /\ Open' = Open \union {t}
      /\ tx'[t] = w
      /\ \A u \in Open : tx'[u] = tx[u] /\ u # t
  BY <1>1 DEF TypeOK, Open
<1>4. TypeOK'
  BY <1>1, <1>2 DEF TypeOK
<1>5. Bounded'
  <2>1. \A u \in Open : tx[u].seq \in Nat /\ tx[u].version \in Nat
    BY DEF TypeOK, Open, Work
  <2>2. \A u \in Open' : tx'[u].seq <= sequence' /\ tx'[u].version <= sequence'
    BY <1>1, <1>3, <2>1 DEF Bounded
  <2>3. \A h \in history : h.seq <= sequence'
    BY <1>1 DEF Bounded, TypeOK, Change
  <2>4. \A i \in Incidents : incidents[i] # None => incidents[i].version <= sequence'
    BY <1>1 DEF Bounded, TypeOK, Snapshot
  <2>5. \A c \in Consoles : cursor[c] <= sequence'
    BY <1>1 DEF Bounded, TypeOK
  <2>6. \A p \in pages : p.next <= sequence'
    BY <1>1 DEF Bounded, TypeOK, Page
  <2> QED  BY <2>2, <2>3, <2>4, <2>5, <2>6 DEF Bounded
<1>6. RowLocked'
  BY <1>3 DEF RowLocked, Unlocked
<1>7. WorkOnTop'
  BY <1>3 DEF WorkOnTop, OnTop, Changes
<1>8. HistoryIsTheWalk' /\ VerifiedBehind' /\ VerifiedOnce'
  BY SameCommitted DEF FeedInv
<1>9. DecidesOnWhatWasSeen'
  BY <1>3 DEF DecidesOnWhatWasSeen
<1>10. ItemsTrue'
  BY DEF ItemsTrue, True, Changes
<1>11. AllCovered'
  <2>1. ASSUME NEW items, NEW after, NEW upto \in Nat, upto <= sequence,
               Covered(items, after, upto)
        PROVE  Covered(items, after, upto)'
    BY <1>1, <1>3, <2>1 DEF Covered
  <2>2. \A c \in Consoles : cursor[c] \in Nat /\ cursor[c] <= sequence
    BY DEF TypeOK, Bounded
  <2>3. \A p \in pages : p.next \in Nat /\ p.next <= sequence
    BY DEF TypeOK, Bounded, Page
  <2> QED  BY <2>1, <2>2, <2>3 DEF AllCovered
<1>12. NumbersDiffer'
  <2>1. \A u \in Open : tx'[u].seq # w.seq
    BY <1>1, <1>3 DEF Bounded, TypeOK, Open, Work
  <2>2. \A h \in history : h.seq # w.seq
    BY <1>1 DEF Bounded, TypeOK, Change
  <2> QED  BY <1>3, <2>1, <2>2 DEF NumbersDiffer
<1> QED  BY <1>4, <1>5, <1>6, <1>7, <1>8, <1>9, <1>10, <1>11, <1>12

LEMMA RollbackPreserves ==
  ASSUME FeedInv, NEW t \in Transactions, Rollback(t)
  PROVE  FeedInv'
<1> USE FeedAssumption DEF FeedInv, Rollback
<1>1. Open' = Open \ {t} /\ \A u \in Open' : tx'[u] = tx[u]
  BY DEF TypeOK, Open
<1>2. TypeOK'
  BY DEF TypeOK
<1>3. Bounded' /\ RowLocked' /\ NumbersDiffer' /\ DecidesOnWhatWasSeen'
  BY <1>1 DEF Bounded, RowLocked, NumbersDiffer, DecidesOnWhatWasSeen
<1>4. WorkOnTop'
  BY <1>1 DEF WorkOnTop, OnTop, Changes
<1>5. HistoryIsTheWalk' /\ VerifiedBehind' /\ VerifiedOnce'
  BY SameCommitted DEF FeedInv
<1>6. ItemsTrue'
  BY DEF ItemsTrue, True, Changes
<1>7. AllCovered'
  BY <1>1 DEF AllCovered, Covered
<1> QED  BY <1>2, <1>3, <1>4, <1>5, <1>6, <1>7

LEMMA LosePreserves ==
  ASSUME FeedInv, NEW p \in pages, Lose(p)
  PROVE  FeedInv'
<1> USE DEF FeedInv, Lose, server
<1>1. TypeOK'
  BY DEF TypeOK
<1>2. Bounded' /\ RowLocked' /\ NumbersDiffer' /\ DecidesOnWhatWasSeen'
  BY DEF Bounded, RowLocked, NumbersDiffer, DecidesOnWhatWasSeen, Open
<1>3. WorkOnTop'
  BY DEF WorkOnTop, OnTop, Changes, Open
<1>4. HistoryIsTheWalk' /\ VerifiedBehind' /\ VerifiedOnce'
  BY SameCommitted DEF FeedInv
<1>5. ItemsTrue'
  BY DEF ItemsTrue, True, Changes
<1>6. AllCovered'
  BY DEF AllCovered, Covered, Open
<1> QED  BY <1>1, <1>2, <1>3, <1>4, <1>5, <1>6

LEMMA CommitPreserves ==
  ASSUME FeedInv, NEW t \in Transactions, NEW w, w = tx[t], Commit(t)
  PROVE  FeedInv'
<1> DEFINE j == w.incident
           row == [seq |-> w.seq, incident |-> j, from |-> w.from, to |-> w.to]
<1> USE FeedAssumption, NoneAssumption
<1>1. /\ w \in Work /\ w # None /\ t \in Open
      /\ j \in Incidents /\ w.seq \in Nat /\ w.version \in Nat
      /\ w.to \in IncidentStates /\ row \in Change
  BY DEF FeedInv, TypeOK, Commit, Open, Work, Change
<1>2. OnTop(w)
  BY <1>1 DEF FeedInv, WorkOnTop
<1>3. Open' = Open \ {t} /\ \A u \in Open' : tx'[u] = tx[u] /\ tx[u].incident # j
  BY <1>1 DEF FeedInv, TypeOK, Commit, Open, RowLocked
<1>4. /\ incidents'[j] = [state |-> w.to, version |-> w.version]
      /\ incidents'[j] \in Snapshot /\ incidents'[j] # None
      /\ \A i \in Incidents \ {j} : incidents'[i] = incidents[i]
  BY <1>1 DEF FeedInv, TypeOK, Commit, Snapshot, Work
<1>5. /\ history' = history \union {row}
      /\ Changes(j)' = Changes(j) \union {row}
      /\ \A i \in Incidents \ {j} : Changes(i)' = Changes(i)
  BY DEF Commit, Changes
<1>6. /\ \A h \in Changes(j) : h.seq \in Nat /\ h.seq < w.seq
      /\ row \notin Changes(j)
  BY <1>2 DEF OnTop, Changes, FeedInv, TypeOK, Change
<1>7. IF incidents[j] = None
      THEN w.from = None /\ w.to = "RECEIVED" /\ w.version = 1 /\ Changes(j) = {}
      ELSE /\ incidents[j] \in Snapshot
           /\ w.from = incidents[j].state
           /\ Edge(incidents[j].state, w.to)
           /\ w.version = incidents[j].version + 1
           /\ incidents[j].version = Cardinality(Changes(j))
  BY <1>1, <1>2 DEF OnTop, FeedInv, TypeOK, HistoryIsTheWalk
<1>8. UNCHANGED <<sequence, pages, cursor, events, overtaken, crossed>>
  BY DEF Commit
<1>9. TypeOK'
  <2>1. verified' \in [Incidents -> Nat]
    <3>1. verified' = [verified EXCEPT ![j] = IF Announces(w) THEN @ + 1 ELSE @]
      BY DEF Commit
    <3>2. verified \in [Incidents -> Nat]
      BY DEF FeedInv, TypeOK
    <3>3. (IF Announces(w) THEN verified[j] + 1 ELSE verified[j]) \in Nat
      BY <1>1, <3>2
    <3> QED  BY <3>1, <3>2, <3>3
  <2>2. tx' \in [Transactions -> Work \union {None}]
    BY DEF FeedInv, TypeOK, Commit
  <2>3. incidents' \in [Incidents -> Snapshot \union {None}]
    BY <1>1, <1>4 DEF FeedInv, TypeOK, Commit, Snapshot, Work
  <2> QED  BY <1>1, <1>5, <1>8, <2>1, <2>2, <2>3 DEF FeedInv, TypeOK
<1>10. Bounded'
  <2>1. IsFiniteSet(history')
    BY <1>5, FS_AddElement DEF FeedInv, Bounded
  <2>2. \A h \in history' : h.seq <= sequence'
    BY <1>1, <1>5, <1>8 DEF FeedInv, Bounded
  <2>3. \A i \in Incidents : incidents'[i] # None => incidents'[i].version <= sequence'
    BY <1>1, <1>4, <1>8 DEF FeedInv, Bounded
  <2>4. \A u \in Open' : tx'[u].seq <= sequence' /\ tx'[u].version <= sequence'
    BY <1>3, <1>8 DEF FeedInv, Bounded
  <2> QED  BY <1>8, <2>1, <2>2, <2>3, <2>4 DEF FeedInv, Bounded
<1>11. RowLocked' /\ DecidesOnWhatWasSeen'
  BY <1>3 DEF FeedInv, RowLocked, DecidesOnWhatWasSeen
<1>12. WorkOnTop'
  <2> SUFFICES ASSUME NEW u \in Open'  PROVE OnTop(tx[u])'
    BY DEF WorkOnTop
  <2>1. OnTop(tx[u]) /\ tx[u] \in Work /\ tx'[u] = tx[u]
    BY <1>3 DEF FeedInv, TypeOK, WorkOnTop, Open
  <2>2. tx[u].incident \in Incidents \ {j}
    BY <1>3, <2>1 DEF Work
  <2>3. /\ incidents'[tx[u].incident] = incidents[tx[u].incident]
        /\ Changes(tx[u].incident)' = {h \in history' : h.incident = tx[u].incident}
        /\ {h \in history' : h.incident = tx[u].incident} = Changes(tx[u].incident)
    BY <1>4, <1>5, <2>1, <2>2 DEF Changes
  <2> QED  BY <2>1, <2>3 DEF OnTop
<1>13. NumbersDiffer'
  BY <1>1, <1>3, <1>5 DEF FeedInv, NumbersDiffer
<1>14. VerifiedBehind'
  <2>1. ASSUME NEW h \in Changes(j), h.to = "VERIFIED"
        PROVE  w.to \in PastVerification
    BY <2>1, <1>1, <1>7, EdgesLeadOn DEF FeedInv, VerifiedBehind, Changes, Snapshot
  <2>2. "VERIFIED" \in PastVerification
    BY DEF PastVerification
  <2>3. \A h \in history : h.incident \in Incidents
    BY DEF FeedInv, TypeOK, Change
  <2> QED  BY <1>4, <1>5, <2>1, <2>2, <2>3 DEF FeedInv, VerifiedBehind, Changes
<1>15. VerifiedOnce'
  <2>1. ASSUME w.to = "VERIFIED", NEW h \in Changes(j)  PROVE h.to # "VERIFIED"
    <3>1. incidents[j] # None /\ incidents[j].state = "PENDING_VERIFICATION"
      BY <2>1, <1>1, <1>7, EdgesLeadOn DEF Snapshot
    <3>2. incidents[j].state \notin PastVerification
      BY <3>1 DEF PastVerification
    <3> QED  BY <3>2 DEF FeedInv, VerifiedBehind, Changes
  <2>2. /\ verified'[j] = IF w.to = "VERIFIED" THEN verified[j] + 1 ELSE verified[j]
        /\ \A i \in Incidents \ {j} : verified'[i] = verified[i]
    BY <1>1 DEF FeedInv, TypeOK, Commit, Announces
  <2>3. verified[j] = IF \E h \in Changes(j) : h.to = "VERIFIED" THEN 1 ELSE 0
    BY <1>1 DEF FeedInv, VerifiedOnce
  <2>4. verified'[j] = IF \E h \in Changes(j)' : h.to = "VERIFIED" THEN 1 ELSE 0
    <3>1. CASE w.to = "VERIFIED"
      <4>1. verified[j] = 0 /\ verified'[j] = 1
        BY <3>1, <2>1, <2>2, <2>3
      <4>2. row \in Changes(j)' /\ row.to = "VERIFIED"
        BY <3>1, <1>5
      <4> QED  BY <4>1, <4>2
    <3>2. CASE w.to # "VERIFIED"
      <4>1. (\E h \in Changes(j)' : h.to = "VERIFIED")
              <=> (\E h \in Changes(j) : h.to = "VERIFIED")
        BY <3>2, <1>5
      <4> QED  BY <3>2, <4>1, <2>2, <2>3
    <3> QED  BY <3>1, <3>2
  <2> QED  BY <1>5, <2>2, <2>4 DEF FeedInv, VerifiedOnce
<1>16. HistoryIsTheWalk'
  <2> DEFINE last == {g \in Changes(j) : \A f \in Changes(j) : f.seq <= g.seq}
  <2>1. \A h \in history : Previous(h)' = Previous(h)
    <3> SUFFICES ASSUME NEW h \in history  PROVE Previous(h)' = Previous(h)
      OBVIOUS
    <3>1. {g \in Changes(h.incident)' : g.seq < h.seq}
            = {g \in Changes(h.incident) : g.seq < h.seq}
      <4>1. h.incident \in Incidents /\ h.seq \in Nat
        BY DEF FeedInv, TypeOK, Change
      <4>2. CASE h.incident = j
        <5>1. ~ (row.seq < h.seq)
          BY <1>1, <1>6, <4>1, <4>2 DEF Changes
        <5> QED  BY <1>5, <4>2, <5>1
      <4> QED  BY <1>5, <4>1, <4>2
    <3> QED  BY <3>1 DEF Previous
  <2>2. Previous(row)' = last
    <3>1. {g \in Changes(j)' : g.seq < w.seq} = Changes(j)
      BY <1>1, <1>5, <1>6
    <3> QED  BY <3>1 DEF Previous
  <2>3. IF Previous(row)' = {} THEN w.from = None /\ w.to = "RECEIVED"
        ELSE \A g \in Previous(row)' : w.from = g.to /\ Edge(w.from, w.to)
    <3>1. CASE incidents[j] = None
      BY <3>1, <1>7, <2>2
    <3>2. CASE incidents[j] # None
      <4>1. PICK h \in Changes(j) : /\ h.to = incidents[j].state
                                    /\ \A g \in Changes(j) : g.seq <= h.seq
        BY <3>2, <1>1 DEF FeedInv, HistoryIsTheWalk
      <4>2. ASSUME NEW g \in last  PROVE g = h
        <5>1. g.seq \in Nat /\ h.seq \in Nat /\ g.seq <= h.seq /\ h.seq <= g.seq
          BY <1>6, <4>1
        <5> QED  BY <5>1 DEF FeedInv, NumbersDiffer, Changes
      <4> QED  BY <3>2, <4>1, <4>2, <2>2, <1>7
    <3> QED  BY <3>1, <3>2
  <2>4. \A h \in history' :
          IF Previous(h)' = {} THEN h.from = None /\ h.to = "RECEIVED"
          ELSE \A g \in Previous(h)' : h.from = g.to /\ Edge(h.from, h.to)
    <3> SUFFICES ASSUME NEW h \in history'
                 PROVE  IF Previous(h)' = {} THEN h.from = None /\ h.to = "RECEIVED"
                        ELSE \A g \in Previous(h)' : h.from = g.to /\ Edge(h.from, h.to)
      OBVIOUS
    <3>1. CASE h \in history
      BY <3>1, <2>1 DEF FeedInv, HistoryIsTheWalk
    <3>2. CASE h = row
      BY <3>2, <2>3
    <3> QED  BY <3>1, <3>2, <1>5
  <2>5. incidents'[j].version = Cardinality(Changes(j)')
    <3>1. IsFiniteSet(Changes(j))
      BY FS_Subset DEF FeedInv, Bounded, Changes
    <3>2. /\ Cardinality(Changes(j)') = Cardinality(Changes(j)) + 1
          /\ Cardinality(Changes(j)) \in Nat
      <4> HIDE DEF row
      <4> QED  BY <3>1, <1>5, <1>6, FS_AddElement, FS_CardinalityType
    <3>3. w.version = Cardinality(Changes(j)) + 1
      BY <1>7, FS_EmptySet
    <3> QED  BY <3>2, <3>3, <1>4
  <2>6. \E h \in Changes(j)' : /\ h.to = incidents'[j].state
                               /\ \A g \in Changes(j)' : g.seq <= h.seq
    BY <1>1, <1>4, <1>5, <1>6
  <2>7. \A i \in Incidents \ {j} :
          IF incidents'[i] = None THEN Changes(i)' = {}
          ELSE /\ incidents'[i].version = Cardinality(Changes(i)')
               /\ \E h \in Changes(i)' : /\ h.to = incidents'[i].state
                                         /\ \A g \in Changes(i)' : g.seq <= h.seq
    BY <1>4, <1>5 DEF FeedInv, HistoryIsTheWalk
  <2> QED
    <3>1. \A i \in Incidents :
            IF incidents'[i] = None THEN Changes(i)' = {}
            ELSE /\ incidents'[i].version = Cardinality(Changes(i)')
                 /\ \E h \in Changes(i)' : /\ h.to = incidents'[i].state
                                           /\ \A g \in Changes(i)' : g.seq <= h.seq
      BY <1>4, <2>5, <2>6, <2>7
    <3> QED  BY <2>4, <3>1 DEF HistoryIsTheWalk
<1>17. ItemsTrue'
  <2>1. ASSUME NEW e \in Item, True(e)  PROVE True(e)'
    <3>1. e.incident \in Incidents /\ e.version \in Nat /\ e.cursor \in Nat
      BY DEF Item
    <3>2. CASE e.incident # j
      <4>1. Changes(e.incident)' = Changes(e.incident)
        BY <3>1, <3>2, <1>5
      <4>2. incidents'[e.incident] = incidents[e.incident]
        BY <3>1, <3>2, <1>4
      <4> QED  BY <2>1, <4>1, <4>2 DEF True
    <3>3. CASE e.incident = j
      <4>1. /\ incidents[j] # None /\ incidents[j].version \in Nat
            /\ e.version <= incidents[j].version
            /\ w.version = incidents[j].version + 1
        BY <2>1, <3>3, <1>7 DEF True, Snapshot
      <4>2. PICK h \in Changes(j) : h.seq = e.cursor
        BY <2>1, <3>3 DEF True
      <4>3. incidents'[j].version = w.version /\ incidents'[j] # None
        BY <1>4
      <4>4. e.version <= w.version /\ e.version # w.version
        BY <3>1, <4>1
      <4>5. \E g \in Changes(j)' : g.seq = e.cursor
        BY <1>5, <4>2
      <4> QED  BY <3>3, <4>3, <4>4, <4>5 DEF True
    <3> QED  BY <3>2, <3>3
  <2>2. \A c \in Consoles : \A e \in events[c] : e \in Item
    BY DEF FeedInv, TypeOK
  <2>3. \A p \in pages : \A e \in p.items : e \in Item
    BY DEF FeedInv, TypeOK, Page
  <2> QED  BY <1>8, <2>1, <2>2, <2>3 DEF FeedInv, ItemsTrue
<1>18. AllCovered'
  <2>1. ASSUME NEW items, NEW after, NEW upto, Covered(items, after, upto)
        PROVE  Covered(items, after, upto)'
    BY <1>1, <1>3, <1>5, <1>8, <2>1 DEF Covered
  <2> QED  BY <1>8, <2>1 DEF FeedInv, AllCovered
<1> QED  BY <1>9, <1>10, <1>11, <1>12, <1>13, <1>14, <1>15, <1>16, <1>17, <1>18
         DEF FeedInv

LEMMA FetchPreserves ==
  ASSUME FeedInv, NEW c \in Consoles, Fetch(c),
         NEW after, after = cursor[c],
         NEW next, next = NextCursor(after),
         NEW items, items = Items(after)
  PROVE  FeedInv'
<1> DEFINE rest == After(after)
           page == [console |-> c, next |-> next, items |-> items]
<1> USE FeedAssumption
<1>1. /\ after \in 0..MaxSequence /\ after <= sequence /\ sequence \in Nat
      /\ IsFiniteSet(history) /\ history \subseteq Change
  BY DEF FeedInv, TypeOK, Bounded
<1>2. /\ next \in 0..MaxSequence
      /\ next >= after
      /\ next = after \/ \E h \in history : h.seq = next
      /\ \A h \in rest : h.seq <= next => h \in Oldest(rest, PageLimit)
  BY <1>1, PageIsPrefix
<1>3. next <= sequence
  BY <1>1, <1>2 DEF FeedInv, Bounded
<1>4. /\ pages' = pages \union {page}
      /\ overtaken' = overtaken \union {n \in {tx[t].seq : t \in Open} : n < next}
      /\ crossed' = crossed \ {page}
      /\ UNCHANGED <<incidents, history, sequence, tx, verified, cursor, events>>
  BY DEF Fetch
<1>5. Oldest(rest, PageLimit) \subseteq rest /\ rest \subseteq history
  BY DEF Oldest, After
<1>6. ASSUME NEW e \in items  PROVE e \in Item /\ True(e)
  <2>1. PICK h \in Oldest(rest, PageLimit) :
          e = [cursor |-> h.seq, incident |-> h.incident,
               state |-> incidents[h.incident].state,
               version |-> incidents[h.incident].version]
    BY <1>6 DEF Items
  <2>2. h \in history /\ h \in Changes(h.incident) /\ h.incident \in Incidents
    BY <1>1, <1>5 DEF Changes, Change
  <2>3. incidents[h.incident] \in Snapshot
    BY <2>2 DEF FeedInv, TypeOK, HistoryIsTheWalk
  <2>4. e \in Item
    BY <1>1, <2>1, <2>2, <2>3 DEF Item, Change, Snapshot
  <2>5. incidents[h.incident] # None /\ e.version <= incidents[h.incident].version
    BY <2>1, <2>2, <2>3, NoneAssumption DEF Snapshot
  <2> QED  BY <2>1, <2>2, <2>4, <2>5 DEF True
<1>7. page \in Page
  BY <1>2, <1>6 DEF Page
<1>8. TypeOK'
  <2>1. {tx[t].seq : t \in Open} \subseteq 1..MaxSequence
    BY DEF FeedInv, TypeOK, Open, Work
  <2> QED  BY <1>4, <1>7, <2>1 DEF FeedInv, TypeOK
<1>9. Bounded' /\ RowLocked' /\ NumbersDiffer' /\ DecidesOnWhatWasSeen'
  BY <1>3, <1>4
  DEF FeedInv, Bounded, RowLocked, NumbersDiffer, DecidesOnWhatWasSeen, Open
<1>10. WorkOnTop'
  BY <1>4 DEF FeedInv, WorkOnTop, OnTop, Changes, Open
<1>11. HistoryIsTheWalk' /\ VerifiedBehind' /\ VerifiedOnce'
  BY <1>4, SameCommitted
<1>12. ItemsTrue'
  <2>1. ASSUME NEW e, True(e)  PROVE True(e)'
    BY <1>4, <2>1 DEF True, Changes
  <2> QED  BY <1>4, <1>6, <2>1 DEF FeedInv, ItemsTrue
<1>13. AllCovered'
  <2>1. ASSUME NEW its, NEW from, NEW upto, Covered(its, from, upto)
        PROVE  Covered(its, from, upto)'
    BY <1>4, <2>1 DEF Covered, Open
  <2>2. Covered(items, after, next)'
    <3>1. ASSUME NEW h \in history, h.seq > after, h.seq <= next
          PROVE  \E e \in items : e.cursor = h.seq
      <4>1. h \in Oldest(rest, PageLimit)
        BY <3>1, <1>2 DEF After
      <4> DEFINE e == [cursor |-> h.seq, incident |-> h.incident,
                       state |-> incidents[h.incident].state,
                       version |-> incidents[h.incident].version]
      <4>2. e \in items /\ e.cursor = h.seq
        BY <4>1 DEF Items
      <4> QED  BY <4>2
    <3>2. ASSUME NEW t \in Open, tx[t].seq > after, tx[t].seq <= next
          PROVE  tx[t].seq < next
      <4>1. tx[t].seq \in Nat /\ tx[t] \in Work
        BY DEF FeedInv, TypeOK, Open, Work
      <4>2. tx[t].seq # next
        BY <1>1, <1>2, <3>2, <4>1 DEF FeedInv, NumbersDiffer
      <4> QED  BY <1>2, <3>2, <4>1, <4>2
    <3> QED  BY <1>4, <3>1, <3>2 DEF Covered, Open
  <2> QED  BY <1>1, <1>4, <2>1, <2>2 DEF FeedInv, AllCovered
<1> QED  BY <1>8, <1>9, <1>10, <1>11, <1>12, <1>13 DEF FeedInv

LEMMA ReceivePreserves ==
  ASSUME FeedInv, NEW p \in pages, Receive(p)
  PROVE  FeedInv'
<1> DEFINE c == p.console
<1>1. UNCHANGED <<incidents, history, sequence, tx, verified, pages, overtaken>>
  BY DEF Receive, server
<1>2. p \in Page /\ c \in Consoles /\ p.next \in Nat /\ p.next <= sequence
  BY DEF FeedInv, TypeOK, Bounded, Page
<1>3. HistoryIsTheWalk' /\ VerifiedBehind' /\ VerifiedOnce'
  BY <1>1, SameCommitted
<1>4. RowLocked' /\ NumbersDiffer' /\ DecidesOnWhatWasSeen'
  BY <1>1 DEF FeedInv, RowLocked, NumbersDiffer, DecidesOnWhatWasSeen, Open
<1>5. WorkOnTop'
  BY <1>1 DEF FeedInv, WorkOnTop, OnTop, Changes, Open
<1>6. \A e : True(e) => True(e)'
  BY <1>1 DEF True, Changes
<1>7. \A items, after, upto : Covered(items, after, upto) => Covered(items, after, upto)'
  BY <1>1 DEF Covered, Open
<1>8. CASE p.next < cursor[c]
  <2>1. UNCHANGED <<cursor, events, crossed>>
    BY <1>8 DEF Receive, Merge
  <2>2. TypeOK' /\ Bounded'
    BY <1>1, <2>1 DEF FeedInv, TypeOK, Bounded, Open
  <2>3. ItemsTrue' /\ AllCovered'
    BY <1>1, <1>6, <1>7, <2>1 DEF FeedInv, ItemsTrue, AllCovered
  <2> QED  BY <1>3, <1>4, <1>5, <2>2, <2>3 DEF FeedInv
<1>9. CASE ~ (p.next < cursor[c])
  <2> DEFINE kept == {e \in events[c] : \A f \in p.items : f.cursor # e.cursor}
             merged == kept \union p.items
  <2>1. /\ cursor' = [cursor EXCEPT ![c] = p.next]
        /\ events' = [events EXCEPT ![c] = merged]
        /\ crossed' \subseteq pages
    BY <1>9 DEF Receive, Merge, FeedInv, TypeOK
  <2>2. /\ cursor'[c] = p.next /\ events'[c] = merged
        /\ \A d \in Consoles \ {c} : cursor'[d] = cursor[d] /\ events'[d] = events[d]
    BY <1>2, <2>1 DEF FeedInv, TypeOK
  <2>3. TypeOK'
    <3>1. cursor' \in [Consoles -> 0..MaxSequence]
      BY <1>2, <2>1 DEF FeedInv, TypeOK, Page
    <3>2. events' \in [Consoles -> SUBSET Item]
      <4>1. merged \in SUBSET Item
        BY <1>2 DEF FeedInv, TypeOK, Page
      <4> HIDE DEF merged
      <4> QED  BY <2>1, <4>1 DEF FeedInv, TypeOK
    <3> QED  BY <1>1, <2>1, <3>1, <3>2 DEF FeedInv, TypeOK
  <2>4. Bounded'
    BY <1>1, <1>2, <2>2 DEF FeedInv, Bounded, Open
  <2>5. ItemsTrue'
    BY <1>1, <1>6, <2>2 DEF FeedInv, ItemsTrue
  <2>6. \A d \in Consoles : cursor[d] \in Nat /\ cursor'[d] \in Nat /\ cursor[d] <= cursor'[d]
    BY <1>2, <1>9, <2>2, FeedAssumption DEF FeedInv, TypeOK
  <2>7. Covered(merged, 0, p.next)
    <3>1. PICK after \in 0..cursor[c] : Covered(p.items, after, p.next)
      BY DEF FeedInv, AllCovered
    <3>2. Covered(events[c], 0, cursor[c])
      BY <1>2 DEF FeedInv, AllCovered
    <3>3. after \in Nat /\ after <= cursor[c] /\ cursor[c] \in Nat
      BY <1>2, <2>6
    <3>4. \A e \in events[c] : \E f \in merged : f.cursor = e.cursor
      OBVIOUS
    <3>5. ASSUME NEW h \in history, h.seq > 0, h.seq <= p.next
          PROVE  (\E e \in merged : e.cursor = h.seq) \/ h.seq \in overtaken
      <4>1. h.seq \in Nat
        BY DEF FeedInv, TypeOK, Change
      <4>2. CASE h.seq <= cursor[c]
        <5>1. (\E e \in events[c] : e.cursor = h.seq) \/ h.seq \in overtaken
          BY <3>2, <3>5, <4>2 DEF Covered
        <5> QED  BY <5>1, <3>4
      <4>3. CASE h.seq > after
        <5>1. (\E e \in p.items : e.cursor = h.seq) \/ h.seq \in overtaken
          BY <3>1, <3>5, <4>3 DEF Covered
        <5> QED  BY <5>1
      <4> QED  BY <3>3, <4>1, <4>2, <4>3
    <3>6. ASSUME NEW t \in Open, tx[t].seq > 0, tx[t].seq <= p.next
          PROVE  tx[t].seq \in overtaken
      <4>1. tx[t].seq \in Nat
        BY DEF FeedInv, TypeOK, Open, Work
      <4>2. CASE tx[t].seq <= cursor[c]
        BY <3>2, <3>6, <4>2 DEF Covered
      <4>3. CASE tx[t].seq > after
        BY <3>1, <3>6, <4>3 DEF Covered
      <4> QED  BY <3>3, <4>1, <4>2, <4>3
    <3> QED  BY <3>5, <3>6 DEF Covered
  <2>8. \A d \in Consoles : Covered(events[d], 0, cursor[d])'
    <3> SUFFICES ASSUME NEW d \in Consoles  PROVE Covered(events[d], 0, cursor[d])'
      OBVIOUS
    <3>1. CASE d = c
      <4> HIDE DEF merged
      <4> QED  BY <3>1, <1>1, <2>2, <2>7 DEF Covered, Open
    <3>2. CASE d # c
      <4>1. Covered(events[d], 0, cursor[d])
        BY DEF FeedInv, AllCovered
      <4> QED  BY <3>2, <4>1, <1>1, <2>2 DEF Covered, Open
    <3> QED  BY <3>1, <3>2
  <2>9. ASSUME NEW q \in pages
        PROVE  \E after \in 0..cursor'[q.console] : Covered(q.items, after, q.next)'
    <3>1. PICK after \in 0..cursor[q.console] : Covered(q.items, after, q.next)
      BY DEF FeedInv, AllCovered
    <3>2. q.console \in Consoles
      BY DEF FeedInv, TypeOK, Page
    <3>3. after \in 0..cursor'[q.console]
      BY <2>6, <3>2
    <3> QED  BY <1>7, <3>1, <3>3
  <2>10. AllCovered'
    BY <1>1, <2>8, <2>9 DEF AllCovered
  <2> QED  BY <1>3, <1>4, <1>5, <2>3, <2>4, <2>5, <2>10 DEF FeedInv
<1> QED  BY <1>8, <1>9

LEMMA FeedInvInductive == FeedInv /\ [Next]_vars => FeedInv'
<1> SUFFICES ASSUME FeedInv, [Next]_vars  PROVE FeedInv'
  OBVIOUS
<1>1. ASSUME NEW t \in Transactions, NEW i \in Incidents,
             \/ Accept(t, i)
             \/ Screen(t, i)
             \/ \E c \in Consoles : Decide(t, c, i)
      PROVE  FeedInv'
  BY <1>1, WritersWrite, WritesPreserves
<1>2. ASSUME NEW t \in Transactions, Commit(t)  PROVE FeedInv'
  BY <1>2, CommitPreserves
<1>3. ASSUME NEW t \in Transactions, Rollback(t)  PROVE FeedInv'
  BY <1>3, RollbackPreserves
<1>4. ASSUME NEW c \in Consoles, Fetch(c)  PROVE FeedInv'
  BY <1>4, FetchPreserves
<1>5. ASSUME NEW p \in pages, Receive(p)  PROVE FeedInv'
  BY <1>5, ReceivePreserves
<1>6. ASSUME NEW p \in pages, Lose(p)  PROVE FeedInv'
  BY <1>6, LosePreserves
<1>7. CASE UNCHANGED vars
  <2>1. UNCHANGED <<incidents, history, sequence, tx, verified, pages, cursor,
                    events, overtaken, crossed>>
    BY <1>7 DEF vars
  <2>2. TypeOK' /\ Bounded' /\ RowLocked' /\ NumbersDiffer' /\ DecidesOnWhatWasSeen'
    BY <2>1 DEF FeedInv, TypeOK, Bounded, RowLocked, NumbersDiffer,
                DecidesOnWhatWasSeen, Open
  <2>3. HistoryIsTheWalk' /\ VerifiedBehind' /\ VerifiedOnce'
    BY <2>1, SameCommitted
  <2>4. WorkOnTop' /\ ItemsTrue' /\ AllCovered'
    BY <2>1 DEF FeedInv, WorkOnTop, OnTop, ItemsTrue, True, AllCovered, Covered,
                Changes, Open
  <2> QED  BY <2>2, <2>3, <2>4 DEF FeedInv
<1> QED  BY <1>1, <1>2, <1>3, <1>4, <1>5, <1>6, <1>7 DEF Next

LEMMA FeedInvHolds == Spec => []FeedInv
BY InitFeedInv, FeedInvInductive, PTL DEF Spec

-----------------------------------------------------------------------------
(***************************************************************************)
(* What follows from the invariant.                                        *)
(***************************************************************************)

\* What a console has passed was merged or overtaken.
LEMMA MissedWasOvertaken == FeedInv => MissesOnlyOvertaken
<1> SUFFICES ASSUME FeedInv, NEW c \in Consoles, NEW h \in history,
                    h.seq <= cursor[c], \A e \in events[c] : e.cursor # h.seq
             PROVE  h.seq \in overtaken
  BY DEF MissesOnlyOvertaken
<1>1. h.seq > 0
  BY DEF FeedInv, TypeOK, Change
<1> QED  BY <1>1 DEF FeedInv, AllCovered, Covered

\* No step takes a cursor back.
LEMMA CursorStep ==
  FeedInv /\ [Next]_vars => (\A c \in Consoles : cursor'[c] >= cursor[c])
<1> SUFFICES ASSUME FeedInv, [Next]_vars, NEW c \in Consoles
             PROVE  cursor'[c] >= cursor[c]
  OBVIOUS
<1>1. \A d \in Consoles : cursor[d] \in Nat
  BY DEF FeedInv, TypeOK
<1>2. ASSUME NEW p \in pages, Receive(p)  PROVE cursor'[c] >= cursor[c]
  <2>1. p.console \in Consoles /\ p.next \in Nat
    BY DEF FeedInv, TypeOK, Page
  <2>2. CASE p.next < cursor[p.console]
    BY <1>1, <1>2, <2>2 DEF Receive, Merge
  <2>3. CASE ~ (p.next < cursor[p.console])
    <3>1. cursor' = [cursor EXCEPT ![p.console] = p.next]
      BY <1>2, <2>3 DEF Receive, Merge
    <3> QED  BY <1>1, <2>1, <2>3, <3>1 DEF FeedInv, TypeOK
  <2> QED  BY <2>2, <2>3
<1>3. CASE cursor' = cursor
  BY <1>1, <1>3
<1>4. ASSUME NEW t \in Transactions, NEW i \in Incidents,
             Accept(t, i) \/ Screen(t, i) \/ \E d \in Consoles : Decide(t, d, i)
      PROVE  cursor' = cursor
  BY <1>4 DEF Accept, Screen, Decide, Write
<1>5. ASSUME NEW t \in Transactions, Commit(t) \/ Rollback(t)
      PROVE  cursor' = cursor
  BY <1>5 DEF Commit, Rollback
<1>6. ASSUME NEW d \in Consoles, Fetch(d) PROVE cursor' = cursor
  BY <1>6 DEF Fetch
<1>7. ASSUME NEW p \in pages, Lose(p) PROVE cursor' = cursor
  BY <1>7 DEF Lose
<1>8. CASE UNCHANGED vars
  BY <1>3, <1>8 DEF vars
<1> QED  BY <1>2, <1>3, <1>4, <1>5, <1>6, <1>7, <1>8 DEF Next

\* The committed row of an incident changes along an edge of the graph only.
LEMMA StatusStep ==
  ASSUME FeedInv, [Next]_vars, NEW i \in Incidents,
         incidents[i] # None, incidents'[i] # incidents[i]
  PROVE  /\ PublicStatus(incidents'[i].state) # "RECEIVED"
         /\ PublicStatus(incidents[i].state) \in
              {"RECEIVED", "IN_PROGRESS", PublicStatus(incidents'[i].state)}
<1>1. PICK t \in Transactions : Commit(t)
  BY DEF Next, Accept, Screen, Decide, Write, Rollback, Fetch, Receive, Lose, server,
         vars
<1>2. PICK w : w = tx[t]
  OBVIOUS
<1>3. /\ w \in Work /\ t \in Open
      /\ incidents' = [incidents EXCEPT ![w.incident] =
                         [state |-> w.to, version |-> w.version]]
  BY <1>1, <1>2 DEF Commit, FeedInv, TypeOK, Open
<1>4. w.incident = i /\ incidents'[i].state = w.to
  BY <1>3 DEF FeedInv, TypeOK
<1>5. /\ incidents[i].state \in IncidentStates
      /\ w.to \in IncidentStates
      /\ Edge(incidents[i].state, w.to)
  BY <1>2, <1>3, <1>4 DEF FeedInv, TypeOK, WorkOnTop, OnTop, Work, Snapshot
<1> QED  BY <1>4, <1>5, EdgesLeadOn

-----------------------------------------------------------------------------
(***************************************************************************)
(* What a console shows.  A page that no merge has crossed was read after  *)
(* everything its console holds, and versions only grow.                   *)
(***************************************************************************)

\* A console holds one item for each cursor.
OnePerCursor(items) == \A e, f \in items : e.cursor = f.cursor => e = f

\* A page was read at one moment.
OneReading(items) == \A e, f \in items : e.incident = f.incident => e.version = f.version

\* The items tell at least as much as those held.
Newer(items, heldItems) ==
  \A f \in items, e \in heldItems : f.incident = e.incident => f.version >= e.version

NewsInv ==
  /\ \A c \in Consoles : OnePerCursor(events[c])
  /\ \A p \in pages : OnePerCursor(p.items) /\ OneReading(p.items)
  /\ \A p \in pages \ crossed : Newer(p.items, events[p.console])

LEMMA InitNewsInv == Init => NewsInv
BY DEF Init, NewsInv, OnePerCursor

\* The server's page is in order, and nothing a console holds is newer.
LEMMA PageIsNew ==
  ASSUME FeedInv, NEW c \in Consoles, NEW after
  PROVE  /\ OnePerCursor(Items(after)) /\ OneReading(Items(after))
         /\ Newer(Items(after), events[c])
<1>1. \A h \in Oldest(After(after), PageLimit) : h \in history
  BY DEF Oldest, After
<1>2. \A f \in Items(after) : \E h \in history :
        f = [cursor |-> h.seq, incident |-> h.incident,
             state |-> incidents[h.incident].state,
             version |-> incidents[h.incident].version]
  BY <1>1 DEF Items
<1>3. OnePerCursor(Items(after))
  BY <1>2 DEF OnePerCursor, FeedInv, NumbersDiffer
<1>4. OneReading(Items(after))
  BY <1>2 DEF OneReading
<1>5. ASSUME NEW f \in Items(after), NEW e \in events[c], f.incident = e.incident
      PROVE  f.version >= e.version
  <2>1. f.version = incidents[e.incident].version
    BY <1>2, <1>5
  <2>2. True(e) /\ e \in Item /\ incidents[e.incident] \in Snapshot
    BY DEF FeedInv, ItemsTrue, TypeOK, True, Item
  <2>3. e.version <= incidents[e.incident].version
    BY <2>2 DEF True
  <2>4. e.version \in Nat /\ incidents[e.incident].version \in Nat
    BY <2>2 DEF Item, Snapshot
  <2> QED  BY <2>1, <2>3, <2>4
<1> QED  BY <1>3, <1>4, <1>5 DEF Newer

LEMMA NewsInvStep == FeedInv /\ NewsInv /\ [Next]_vars => NewsInv'
<1> SUFFICES ASSUME FeedInv, NewsInv, [Next]_vars  PROVE NewsInv'
  OBVIOUS
<1>1. CASE UNCHANGED <<pages, events, crossed>>
  BY <1>1 DEF NewsInv
<1>2. ASSUME NEW c \in Consoles, Fetch(c)  PROVE NewsInv'
  <2> DEFINE page == [console |-> c, next |-> NextCursor(cursor[c]),
                      items |-> Items(cursor[c])]
  <2>1. /\ pages' = pages \union {page} /\ crossed' = crossed \ {page}
        /\ events' = events
    BY <1>2 DEF Fetch
  <2>2. /\ OnePerCursor(page.items) /\ OneReading(page.items)
        /\ Newer(page.items, events[page.console])
    BY PageIsNew
  <2> HIDE DEF page
  <2>3. \A p \in pages' \ crossed' : p \in pages \ crossed \/ p = page
    BY <2>1
  <2> QED  BY <2>1, <2>2, <2>3 DEF NewsInv
<1>3. ASSUME NEW p \in pages, Receive(p)  PROVE NewsInv'
  <2> DEFINE c == p.console
             merged == {e \in events[c] : \A f \in p.items : f.cursor # e.cursor}
                         \union p.items
  <2>1. c \in Consoles /\ pages' = pages
    BY <1>3 DEF FeedInv, TypeOK, Page, Receive
  <2>2. CASE p.next < cursor[c]
    BY <1>1, <1>3, <2>2 DEF Receive, Merge
  <2>3. CASE ~ (p.next < cursor[c])
    <3>1. /\ events' = [events EXCEPT ![c] = merged]
          /\ crossed' = crossed \union {q \in pages : q.console = c /\ q # p}
      BY <1>3, <2>3 DEF Receive, Merge
    <3>2. /\ events'[c] = merged
          /\ \A d \in Consoles \ {c} : events'[d] = events[d]
      BY <2>1, <3>1 DEF FeedInv, TypeOK
    <3>3. OnePerCursor(merged)
      BY <2>1 DEF NewsInv, OnePerCursor
    <3>4. \A d \in Consoles : OnePerCursor(events'[d])
      <4> HIDE DEF merged
      <4> QED  BY <3>2, <3>3 DEF NewsInv
    <3>5. ASSUME NEW q \in pages' \ crossed'
          PROVE  Newer(q.items, events'[q.console])
      <4>1. q \in pages \ crossed /\ q.console \in Consoles
        BY <2>1, <3>1, <3>5 DEF FeedInv, TypeOK, Page
      <4>2. CASE q.console # c
        BY <3>2, <4>1, <4>2 DEF NewsInv
      <4>3. CASE q.console = c
        <5>1. q = p
          BY <2>1, <3>1, <3>5, <4>3
        <5>2. Newer(p.items, events[c]) /\ OneReading(p.items)
          BY <4>1, <5>1 DEF NewsInv
        <5>3. \A f \in p.items : f.version \in Nat
          BY DEF FeedInv, TypeOK, Page, Item
        <5>4. Newer(p.items, merged)
          BY <5>2, <5>3 DEF Newer, OneReading
        <5> HIDE DEF merged
        <5> QED  BY <3>2, <5>1, <5>4
      <4> QED  BY <4>2, <4>3
    <3> QED  BY <2>1, <3>4, <3>5 DEF NewsInv
  <2> QED  BY <2>2, <2>3
<1>4. ASSUME NEW p \in pages, Lose(p)  PROVE NewsInv'
  BY <1>4 DEF Lose, NewsInv
<1>5. ASSUME NEW t \in Transactions,
             \/ \E i \in Incidents :
                  Accept(t, i) \/ Screen(t, i) \/ \E c \in Consoles : Decide(t, c, i)
             \/ Commit(t)
             \/ Rollback(t)
      PROVE  NewsInv'
  BY <1>1, <1>5 DEF Accept, Screen, Decide, Write, Commit, Rollback
<1>6. CASE UNCHANGED vars
  BY <1>1, <1>6 DEF vars
<1> QED  BY <1>2, <1>3, <1>4, <1>5, <1>6 DEF Next

LEMMA NewsInvHolds == Spec => []NewsInv
BY FeedInvHolds, InitNewsInv, NewsInvStep, PTL DEF Spec

\* Items that tell of one change are about one incident.
LEMMA CursorTellsIncident ==
  ASSUME FeedInv, NEW e, NEW f, True(e), True(f), e.cursor = f.cursor
  PROVE  e.incident = f.incident
<1>1. PICK h \in Changes(e.incident) : h.seq = e.cursor
  BY DEF True
<1>2. PICK g \in Changes(f.incident) : g.seq = f.cursor
  BY DEF True
<1> QED  BY <1>1, <1>2 DEF FeedInv, NumbersDiffer, Changes

\* Merging a page that no other merge has crossed keeps up.
LEMMA UncrossedKeepsUp ==
  ASSUME FeedInv, NewsInv, NEW p \in pages \ crossed, Receive(p),
         NEW i \in Incidents
  PROVE  KeepsUp(p.console, i)
<1> DEFINE c == p.console
           kept == {e \in events[c] : \A f \in p.items : f.cursor # e.cursor}
           merged == kept \union p.items
           about == {e \in merged : e.incident = i}
           cursors == {e.cursor : e \in about}
<1>1. c \in Consoles
  BY DEF FeedInv, TypeOK, Page
<1>2. CASE events'[c] = events[c]
  <2>1. Shown(c, i)' = Shown(c, i)
    BY <1>2 DEF Shown, About
  <2>2. \A s \in Shown(c, i) : s.version \in Nat
    BY <1>1 DEF Shown, About, FeedInv, TypeOK, Item
  <2> QED  BY <2>1, <2>2 DEF KeepsUp
<1>3. CASE events'[c] # events[c]
  <2>1. events'[c] = merged
    BY <1>1, <1>3 DEF Receive, Merge, FeedInv, TypeOK
  <2> SUFFICES ASSUME NEW s \in Shown(c, i)
               PROVE  \E t \in Shown(c, i)' : t.version >= s.version
    BY DEF KeepsUp
  <2>2. /\ s \in events[c] /\ s.incident = i /\ s \in Item
        /\ \A f \in events[c] : f.incident = i => f.cursor <= s.cursor
    BY <1>1 DEF Shown, About, FeedInv, TypeOK
  <2>3. \A e \in merged : e \in Item /\ True(e)
    BY <1>1 DEF FeedInv, TypeOK, ItemsTrue, Page
  <2>4. PICK r \in about : r.cursor = s.cursor
    <3>1. CASE s \in kept
      BY <2>2, <3>1
    <3>2. CASE s \notin kept
      <4>1. PICK f \in p.items : f.cursor = s.cursor
        BY <2>2, <3>2
      <4>2. True(s)
        BY <1>1, <2>2 DEF FeedInv, ItemsTrue
      <4>3. f.incident = i
        BY <2>2, <2>3, <4>1, <4>2, CursorTellsIncident
      <4> QED  BY <4>1, <4>3
    <3> QED  BY <3>1, <3>2
  <2>5. PICK t \in about : \A e \in about : e.cursor <= t.cursor
    <3>1. \A n \in cursors : n \in Nat /\ n <= MaxSequence
      BY <2>3, FeedAssumption DEF Item
    <3>2. cursors # {}
      BY <2>4
    <3>3. IsFiniteSet(cursors)
      <4> HIDE DEF cursors
      <4> QED  BY <3>1, FS_BoundedSetOfNaturals, FeedAssumption
    <3>4. \E m \in cursors : \A n \in cursors : n <= m
      <4> HIDE DEF cursors
      <4> QED  BY <3>1, <3>2, <3>3, GreatestExists
    <3> QED  BY <3>4
  <2>6. t \in Shown(c, i)'
    BY <2>1, <2>5 DEF Shown, About
  <2>7. t.version >= s.version
    <3>1. CASE t \in p.items
      BY <1>1, <2>2, <3>1 DEF NewsInv, Newer
    <3>2. CASE t \in kept
      <4>1. t.cursor <= s.cursor /\ s.cursor <= t.cursor
        BY <2>2, <2>4, <2>5, <3>2
      <4>2. t.cursor \in Nat /\ s.cursor \in Nat
        BY <2>2, <2>3 DEF Item
      <4>3. t = s
        BY <1>1, <2>2, <3>2, <4>1, <4>2 DEF NewsInv, OnePerCursor
      <4> QED  BY <2>2, <4>3 DEF Item
    <3> QED  BY <3>1, <3>2
  <2> QED  BY <2>6, <2>7
<1> QED  BY <1>2, <1>3

\* No step but the arrival of a crossed page takes back what a console shows.
LEMMA ShownStep ==
  ASSUME FeedInv, NewsInv, [Next]_vars, NEW c \in Consoles, NEW i \in Incidents
  PROVE  KeepsUp(c, i) \/ \E p \in crossed : p.console = c /\ Receive(p)
<1>1. CASE events'[c] = events[c]
  <2>1. Shown(c, i)' = Shown(c, i)
    BY <1>1 DEF Shown, About
  <2>2. \A s \in Shown(c, i) : s.version \in Nat
    BY DEF Shown, About, FeedInv, TypeOK, Item
  <2> QED  BY <2>1, <2>2 DEF KeepsUp
<1>2. CASE events'[c] # events[c]
  <2>1. PICK p \in pages : Receive(p)
    BY <1>2 DEF Next, Accept, Screen, Decide, Write, Commit, Rollback, Fetch, Lose,
                vars
  <2>2. p.console = c
    BY <1>2, <2>1 DEF Receive, Merge, FeedInv, TypeOK
  <2>3. CASE p \in crossed
    BY <2>1, <2>2, <2>3
  <2>4. CASE p \notin crossed
    BY <2>1, <2>2, <2>4, UncrossedKeepsUp
  <2> QED  BY <2>3, <2>4
<1> QED  BY <1>1, <1>2

-----------------------------------------------------------------------------
\* The state keeps its shape; in particular versions and cursors stay among the
\* numbers given out.
THEOREM TypeCorrect == Spec => []TypeOK
BY FeedInvHolds, PTL DEF FeedInv

\* No status change is lost or forked: the history of every incident is one walk
\* through the graph to its present state, as long as its version (transition
\* selects FOR UPDATE and compares expectedVersion).
THEOREM HistoryIsOneWalk == Spec => []HistoryIsTheWalk
BY FeedInvHolds, PTL DEF FeedInv

\* A decision is applied to the very state the dispatcher saw (expectedVersion).
THEOREM DecisionsAreInformed == Spec => []DecidesOnWhatWasSeen
BY FeedInvHolds, PTL DEF FeedInv

\* Dispatch hears of a verified incident exactly once.
THEOREM AnnouncedOnce == Spec => []VerifiedOnce
BY FeedInvHolds, PTL DEF FeedInv

\* A console shows an older version of an incident than before, or no longer shows
\* it, only on merging a page that was under way while it merged another
\* (mergeIncidentFeed replaces an item by a late page's of the same cursor).
THEOREM LatePagesAlonePutBack == Spec => GoesBackOnlyByCrossing
<1>1. FeedInv /\ NewsInv /\ [Next]_vars =>
        [\A c \in Consoles, i \in Incidents :
           KeepsUp(c, i) \/ \E p \in crossed : p.console = c /\ Receive(p)]_vars
  BY ShownStep
<1> QED  BY <1>1, FeedInvHolds, NewsInvHolds, PTL DEF Spec, GoesBackOnlyByCrossing

\* A change behind the cursor of a console that has not merged it was uncommitted
\* when a page beyond it was read: nothing else makes a gap.
THEOREM GapsAreOvertaken == Spec => []MissesOnlyOvertaken
BY FeedInvHolds, MissedWasOvertaken, PTL

\* The resume cursor of a console never goes back (mergeIncidentFeed's guard).
THEOREM CursorNeverGoesBack == Spec => CursorAdvances
<1>1. FeedInv /\ [Next]_vars => [\A c \in Consoles : cursor'[c] >= cursor[c]]_vars
  BY CursorStep
<1> QED  BY <1>1, FeedInvHolds, PTL DEF Spec, CursorAdvances

\* The status a citizen is told only moves forward.
THEOREM StatusNeverGoesBack == Spec => StatusAdvances
<1>1. FeedInv /\ [Next]_vars =>
        [\A i \in Incidents :
           incidents[i] # None /\ incidents'[i] # incidents[i] =>
             /\ PublicStatus(incidents'[i].state) # "RECEIVED"
             /\ PublicStatus(incidents[i].state) \in
                  {"RECEIVED", "IN_PROGRESS", PublicStatus(incidents'[i].state)}]_vars
  BY StatusStep
<1> QED  BY <1>1, FeedInvHolds, PTL DEF Spec, StatusAdvances

=============================================================================
