---------------------------- MODULE IncidentFeed ----------------------------
(***************************************************************************)
(* The operations side of an SOS: dispatchers follow the feed of status    *)
(* changes in their consoles and decide on incidents by what they see.     *)
(*                                                                         *)
(* On the server (incident.repository.ts) every status change is one       *)
(* transaction that writes the incident and appends a row to               *)
(* status_history.  The row takes its feed_sequence, the resume cursor of  *)
(* the feed, when it is INSERTed, and is visible to others from the COMMIT *)
(* on: sequence numbers need not become visible in their order.            *)
(*                                                                         *)
(* In the console (feed-client.ts, feed-model.ts) pages may arrive late,   *)
(* twice or never, and are merged under a guard on the cursor.             *)
(*                                                                         *)
(* One operational area; every row is within the dispatchers' data class.  *)
(* hasMore, phase and notice only feed the display and are left out.       *)
(***************************************************************************)
EXTENDS IncidentDomain, FiniteSets

CONSTANTS
  Incidents,
  Transactions,   \* database transactions that may be open at once
  Consoles,
  None,
  PageLimit,      \* rows per page
  MaxSequence,    \* bound: status changes attempted
  MaxPages        \* bound: pages on the way at once

ASSUME FeedAssumption ==
  /\ None \notin Incidents \union Transactions \union Consoles
  /\ PageLimit \in Nat \ {0}
  /\ MaxSequence \in Nat
  /\ MaxPages \in Nat

VARIABLES
  incidents,      \* incidents[i]: the committed row, or None
  history,        \* committed rows of status_history
  sequence,       \* last value the identity column has given out
  tx,             \* tx[t]: the uncommitted work of transaction t, or None
  verified,       \* verified[i]: incident.verified rows in the outbox
  pages,          \* answers of the feed endpoint on their way
  cursor,         \* cursor[c]: where console c resumes
  events,         \* events[c]: what console c has merged
  overtaken,      \* history only: sequence numbers that were still uncommitted
                  \* when a page beyond them was read
  crossed         \* history only: pages that were under way when their console
                  \* merged another one

server == <<incidents, history, sequence, tx, verified>>
vars   == <<incidents, history, sequence, tx, verified, pages, cursor, events,
            overtaken, crossed>>

Snapshot == [state : IncidentStates, version : 1..MaxSequence]
Change ==
  [seq : 1..MaxSequence, incident : Incidents,
   from : IncidentStates \union {None}, to : IncidentStates]
Work ==
  [seq : 1..MaxSequence, incident : Incidents,
   from : IncidentStates \union {None}, to : IncidentStates,
   version : 1..MaxSequence, saw : IncidentStates \union {None}]
Item ==
  [cursor : 1..MaxSequence, incident : Incidents,
   state : IncidentStates, version : 1..MaxSequence]
Page == [console : Consoles, next : 0..MaxSequence, items : SUBSET Item]

ASSUME NoneAssumption == None \notin Snapshot \union Work \union IncidentStates

Init ==
  /\ incidents = [i \in Incidents |-> None]
  /\ history = {}
  /\ sequence = 0
  /\ tx = [t \in Transactions |-> None]
  /\ verified = [i \in Incidents |-> 0]
  /\ pages = {}
  /\ cursor = [c \in Consoles |-> 0]
  /\ events = [c \in Consoles |-> {}]
  /\ overtaken = {}
  /\ crossed = {}

Open == {t \in Transactions : tx[t] # None}

-----------------------------------------------------------------------------
(***************************************************************************)
(* Writers.  From SELECT ... FOR UPDATE on, the incident's row is locked,  *)
(* so the statements up to the INSERT into status_history are one step:    *)
(* the only thing others can notice is the sequence number it takes.       *)
(***************************************************************************)

\* Transaction t runs the statements up to its COMMIT.
Write(t, i, from, to, version, saw) ==
  /\ sequence < MaxSequence
  /\ sequence' = sequence + 1
  /\ tx' = [tx EXCEPT ![t] =
              [seq |-> sequence + 1, incident |-> i, from |-> from, to |-> to,
               version |-> version, saw |-> saw]]
  /\ UNCHANGED <<incidents, history, verified, pages, cursor, events, overtaken,
                 crossed>>

\* Deviation: the SELECT is not FOR UPDATE.
UnlockedNever(i) == TRUE

Unlocked(i) == \A t \in Open : tx[t].incident # i

\* The identifier is nobody's yet, not even in an open transaction.
Fresh(i) == incidents[i] = None /\ \A t \in Open : tx[t].incident # i

\* acceptSos: a new incident with a fresh identifier.
Accept(t, i) ==
  /\ tx[t] = None
  /\ Fresh(i)
  /\ Write(t, i, None, "RECEIVED", 1, None)

\* What console c has merged about incident i.
About(c, i) == {e \in events[c] : e.incident = i}

\* Deviation: the queue keeps the first event of an incident it has seen.
ShownFirst(c, i) ==
  {e \in About(c, i) : \A f \in About(c, i) : f.cursor >= e.cursor}

\* buildIncidentQueue: an incident is shown as its event with the highest cursor
\* has it.
Shown(c, i) ==
  {e \in About(c, i) : \A f \in About(c, i) : f.cursor <= e.cursor}

\* Deviation: the version the dispatcher saw is not compared.
PermittedAnyVersion(i, to, role, expected, hasReason) ==
  CanTransition(incidents[i], to, role, incidents[i].version, hasReason)

Permitted(i, to, role, expected, hasReason) ==
  CanTransition(incidents[i], to, role, expected, hasReason)

\* transition: a dispatcher decides on what console c shows, with a reason.  A
\* request that is not permitted, such as one without a required reason, is
\* rolled back and changes nothing.
Decide(t, c, i) ==
  /\ tx[t] = None
  /\ incidents[i] # None
  /\ Unlocked(i)
  /\ \E seen \in Shown(c, i), to \in IncidentStates :
       /\ Permitted(i, to, "DISPATCHER", seen.version, TRUE)
       /\ Write(t, i, incidents[i].state, to, incidents[i].version + 1,
                seen.state)

\* The screening the domain reserves to SYSTEM, which no code in the repository
\* performs yet: it acts on the row as it is.
Screen(t, i) ==
  /\ tx[t] = None
  /\ incidents[i] # None
  /\ Unlocked(i)
  /\ \E to \in IncidentStates :
       /\ Permitted(i, to, "SYSTEM", incidents[i].version, FALSE)
       /\ Write(t, i, incidents[i].state, to, incidents[i].version + 1,
                incidents[i].state)

\* The transaction appends incident.verified to the outbox.
Announces(w) == w.to = "VERIFIED"

\* Everything t has written becomes visible at once.
Commit(t) ==
  /\ tx[t] # None
  /\ LET w == tx[t] IN
       /\ incidents' = [incidents EXCEPT ![w.incident] =
                          [state |-> w.to, version |-> w.version]]
       /\ history' = history \union
            {[seq |-> w.seq, incident |-> w.incident, from |-> w.from,
              to |-> w.to]}
       /\ verified' = [verified EXCEPT ![w.incident] =
                         IF Announces(w) THEN @ + 1 ELSE @]
  /\ tx' = [tx EXCEPT ![t] = None]
  /\ UNCHANGED <<sequence, pages, cursor, events, overtaken, crossed>>

\* A statement or the process fails.  The sequence number is gone.
Rollback(t) ==
  /\ tx[t] # None
  /\ tx' = [tx EXCEPT ![t] = None]
  /\ UNCHANGED <<incidents, history, sequence, verified, pages, cursor, events,
                 overtaken, crossed>>

-----------------------------------------------------------------------------
(***************************************************************************)
(* The feed.  One SELECT joins the history rows after the cursor with the  *)
(* incidents as they are now, LIMIT PageLimit + 1 to learn hasMore.        *)
(***************************************************************************)
After(n) == {h \in history : h.seq > n}

\* The first n rows of a set of changes.
Oldest(rows, n) ==
  {h \in rows : Cardinality({g \in rows : g.seq < h.seq}) < n}

\* Cursor of the last row of a page, or where the request resumed.
Last(rows, after) ==
  IF rows = {} THEN after
  ELSE CHOOSE n \in {h.seq : h \in rows} : \A h \in rows : h.seq <= n

\* Deviation: nextCursor is that of the row read only to learn hasMore.
NextCursorOfLookahead(after) == Last(Oldest(After(after), PageLimit + 1), after)

NextCursor(after) == Last(Oldest(After(after), PageLimit), after)

Items(after) ==
  {[cursor |-> h.seq, incident |-> h.incident,
    state |-> incidents[h.incident].state,
    version |-> incidents[h.incident].version] :
      h \in Oldest(After(after), PageLimit)}

\* Console c asks for the page after its cursor and the server answers.
Fetch(c) ==
  /\ Cardinality(pages) < MaxPages
  /\ LET page == [console |-> c, next |-> NextCursor(cursor[c]),
                  items |-> Items(cursor[c])] IN
       /\ pages' = pages \union {page}
       /\ overtaken' = overtaken \union
            {n \in {tx[t].seq : t \in Open} : n < page.next}
       /\ crossed' = crossed \ {page}
  /\ UNCHANGED <<incidents, history, sequence, tx, verified, cursor, events>>

\* mergeIncidentFeed: a page that would move the cursor back is refused, else
\* its items replace those with the same cursor.
Merge(p) ==
  IF p.next < cursor[p.console]
  THEN UNCHANGED <<cursor, events, crossed>>
  ELSE /\ cursor' = [cursor EXCEPT ![p.console] = p.next]
       /\ events' = [events EXCEPT ![p.console] =
                       {e \in @ : \A f \in p.items : f.cursor # e.cursor}
                         \union p.items]
       /\ crossed' = crossed \union
            {q \in pages : q.console = p.console /\ q # p}

\* A page arrives, in any order.  It stays in pages, because another request with
\* the same cursor may have got the same answer.
Receive(p) ==
  /\ Merge(p)
  /\ UNCHANGED <<server, pages, overtaken>>

\* A page will not arrive, or not again: the request was aborted, say.
Lose(p) ==
  /\ pages' = pages \ {p}
  /\ crossed' = crossed \ {p}
  /\ UNCHANGED <<server, cursor, events, overtaken>>

-----------------------------------------------------------------------------
Next ==
  \/ \E t \in Transactions :
       \/ \E i \in Incidents :
            \/ Accept(t, i)
            \/ Screen(t, i)
            \/ \E c \in Consoles : Decide(t, c, i)
       \/ Commit(t)
       \/ Rollback(t)
  \/ \E c \in Consoles : Fetch(c)
  \/ \E p \in pages : Receive(p) \/ Lose(p)

Spec == Init /\ [][Next]_vars

-----------------------------------------------------------------------------
\* Every variable has its type.
TypeOK ==
  /\ incidents \in [Incidents -> Snapshot \union {None}]
  /\ history \subseteq Change
  /\ sequence \in 0..MaxSequence
  /\ tx \in [Transactions -> Work \union {None}]
  /\ verified \in [Incidents -> Nat]
  /\ pages \subseteq Page
  /\ cursor \in [Consoles -> 0..MaxSequence]
  /\ events \in [Consoles -> SUBSET Item]
  /\ overtaken \subseteq 1..MaxSequence
  /\ crossed \subseteq pages

Changes(i) == {h \in history : h.incident = i}

\* The row of i written just before h.
Previous(h) ==
  LET earlier == {g \in Changes(h.incident) : g.seq < h.seq} IN
  {g \in earlier : \A f \in earlier : f.seq <= g.seq}

\* The history of an incident, read by sequence number, is one unbroken walk
\* through the domain's graph from RECEIVED to the state the incident is in,
\* and its version is the length of that walk: no status change of two
\* dispatchers at once is lost or forked (transition locks the row).
HistoryIsTheWalk ==
  /\ \A h \in history :
       IF Previous(h) = {} THEN h.from = None /\ h.to = "RECEIVED"
       ELSE \A g \in Previous(h) : h.from = g.to /\ Edge(h.from, h.to)
  /\ \A i \in Incidents :
       IF incidents[i] = None THEN Changes(i) = {}
       ELSE /\ incidents[i].version = Cardinality(Changes(i))
            /\ \E h \in Changes(i) : /\ h.to = incidents[i].state
                                     /\ \A g \in Changes(i) : g.seq <= h.seq

\* A dispatcher's decision is applied to the state the dispatcher saw, however
\* stale the console was (expectedVersion).
DecidesOnWhatWasSeen == \A t \in Open : tx[t].saw = tx[t].from

\* An incident is announced to dispatch once if it was ever verified, else not.
VerifiedOnce ==
  \A i \in Incidents :
    verified[i] = IF \E h \in Changes(i) : h.to = "VERIFIED" THEN 1 ELSE 0

\* The console goes on showing incident i, and not as it was before.
KeepsUp(c, i) ==
  \A s \in Shown(c, i) : \E t \in Shown(c, i)' : t.version >= s.version

\* What a console shows for an incident goes back to an older version, or
\* disappears, only when a page arrives that was under way while the console
\* merged another one.  Lost and repeated pages and pages without a change do no
\* harm, and neither do transitions that commit out of sequence order.
GoesBackOnlyByCrossing ==
  [][\A c \in Consoles, i \in Incidents :
       KeepsUp(c, i) \/ \E p \in crossed : p.console = c /\ Receive(p)]_vars

\* docs/HANDOFF.md:124 (T14A): overlapping pages are deduplicated and the queue
\* takes the newest projection of an incident.
NeverGoesBack == [][\A c \in Consoles, i \in Incidents : KeepsUp(c, i)]_vars

\* A console misses a change behind its cursor only if the change was still
\* uncommitted when a later one was read: paging, lost, late and repeated pages
\* alone leave no gap.
MissesOnlyOvertaken ==
  \A c \in Consoles : \A h \in history :
    h.seq <= cursor[c] /\ (\A e \in events[c] : e.cursor # h.seq)
      => h.seq \in overtaken

\* Resuming never goes back.
CursorAdvances == [][\A c \in Consoles : cursor'[c] >= cursor[c]]_vars

\* What citizens are told only moves forward: a case that is RECEIVED may become
\* anything else, and a final answer is never taken back.
StatusAdvances ==
  [][\A i \in Incidents :
       incidents[i] # None /\ incidents'[i] # incidents[i] =>
         /\ PublicStatus(incidents'[i].state) # "RECEIVED"
         /\ PublicStatus(incidents[i].state) \in
              {"RECEIVED", "IN_PROGRESS", PublicStatus(incidents'[i].state)}]_vars

\* The resume cursor has no gap: every committed change behind it was merged.
NoGap ==
  \A c \in Consoles : \A h \in history :
    h.seq <= cursor[c] => \E e \in events[c] : e.cursor = h.seq

=============================================================================
