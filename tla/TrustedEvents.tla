---------------------------- MODULE TrustedEvents ----------------------------
(***************************************************************************)
(* aggregateTrustedEvents of apps/api/src/modules/analytics: counts the    *)
(* events of one metric in one area and time window by local day and       *)
(* dimensions.  The events come from an at-least-once feed, so they may be *)
(* repeated, reordered, or altered between two copies.  One step is one    *)
(* iteration of the loop over the events.                                  *)
(***************************************************************************)
EXTENDS AccessPolicy, FiniteSetsExt

CONSTANTS
  Copies,      \* events as delivered: id, area, version, at, cell, sound
  Queries      \* requests: scope, area, from, to, threshold

\* "cell" stands for the local day and the sorted dimensions of an event, and
\* a copy is not "sound" when its schema or its aggregate does not fit.
ASSUME EventsAssumption ==
  /\ \A c \in Copies : c.at \in Nat \ {0} /\ c.version \in Nat /\ c.sound \in BOOLEAN
  /\ \A q \in Queries : q.from \in Nat /\ q.to \in Nat /\ q.threshold \in Nat

VARIABLES
  query,       \* the request being answered
  tally,       \* the local variables of the loop
  delivered    \* copies the loop has been given

eventVars == <<query, tally, delivered>>

\* dataFreshThrough before any event: null.
NothingYet == 0

\* The checks before the loop.
Admitted(q) ==
  /\ q.from < q.to
  /\ q.threshold >= 2
  /\ Allows(q.scope, "analytics.read",
            [class |-> "internal", area |-> q.area, unit |-> Unset, case |-> Unset])

EventsInit ==
  /\ query \in Queries
  /\ tally = [failed |-> ~Admitted(query), known |-> {}, count |-> << >>,
              fresh |-> NothingYet]
  /\ delivered = {}

InWindow(c) == query.from <= c.at /\ c.at < query.to

Counted(count, cell) ==
  [k \in DOMAIN count \union {cell} |->
     (IF k \in DOMAIN count THEN count[k] ELSE 0) + (IF k = cell THEN 1 ELSE 0)]

Later(fresh, at) == IF fresh = NothingYet \/ at > fresh THEN at ELSE fresh

\* Deviation: a fingerprint is kept only of the events that count.
CountingInWindow(t, c) ==
  IF InWindow(c)
  THEN [t EXCEPT !.known = @ \union {c}, !.count = Counted(@, c.cell),
                 !.fresh = Later(@, c.at)]
  ELSE t

\* An event of the area that was not seen before: its fingerprint is kept,
\* and it counts if it is in the window.
Counting(t, c) ==
  IF InWindow(c)
  THEN [t EXCEPT !.known = @ \union {c}, !.count = Counted(@, c.cell),
                 !.fresh = Later(@, c.at)]
  ELSE [t EXCEPT !.known = @ \union {c}]

\* One iteration; known holds the fingerprint of every event id seen.
Absorbed(t, c) ==
  LET twin == {k \in t.known : k.id = c.id}
  IN  CASE ~c.sound -> [t EXCEPT !.failed = TRUE]
        [] c.sound /\ c.area # query.area -> t
        [] c.sound /\ c.area = query.area /\ c.version # 1 ->
             [t EXCEPT !.failed = TRUE]
        [] OTHER -> IF twin = {} THEN Counting(t, c)
                    ELSE [t EXCEPT !.failed = c \notin twin]

Absorb(c) ==
  /\ ~tally.failed
  /\ tally' = Absorbed(tally, c)
  /\ delivered' = delivered \union {c}
  /\ UNCHANGED query

EventsNext == \E c \in Copies : Absorb(c)

EventsSpec == EventsInit /\ [][EventsNext]_eventVars

\* A row of the answer: a cell smaller than the threshold shows no number.
Row(n) == IF n < query.threshold THEN [suppressed |-> TRUE]
                                 ELSE [suppressed |-> FALSE, value |-> n]

Rows == [k \in DOMAIN tally.count |-> Row(tally.count[k])]

-----------------------------------------------------------------------------
\* What the answer should be, from the set of copies alone.
Relevant == {c \in delivered : c.area = query.area /\ InWindow(c)}

Contradictory ==
  \/ \E c \in delivered : ~c.sound \/ (c.area = query.area /\ c.version # 1)
  \/ \E c, d \in delivered :
       c.id = d.id /\ c # d /\ {c.area, d.area} = {query.area}

\* However often and in whatever order the events are delivered, the answer
\* depends on the set of them only: it fails exactly when that set holds an
\* ill-formed event, an unsupported version or two different events with one
\* identifier, and otherwise every cell shows the number of distinct events
\* in it, or nothing if they are fewer than the threshold.
AnswersFromTheSetOfEvents ==
  Admitted(query) =>
    /\ tally.failed <=> Contradictory
    /\ ~tally.failed =>
         /\ Rows = [k \in {c.cell : c \in Relevant} |->
                      Row(Cardinality({c \in Relevant : c.cell = k}))]
         /\ tally.fresh = IF Relevant = {} THEN NothingYet
                          ELSE Max({c.at : c \in Relevant})

=============================================================================
