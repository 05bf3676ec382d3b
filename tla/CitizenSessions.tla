--------------------------- MODULE CitizenSessions ---------------------------
(***************************************************************************)
(* CitizenSessionService over PostgresCitizenSessionStore                  *)
(* (apps/api/src/modules/identity): anonymous citizen sessions, each       *)
(* replaced by the next when the device rotates its token.  A chain is     *)
(* what one POST .../sessions started; the device may ask several API      *)
(* processes to rotate the same token at once, or never see an answer.     *)
(***************************************************************************)
EXTENDS Naturals

CONSTANTS
  Chains,         \* sessions devices create
  Sessions,       \* identifiers of sessions, each with a token of its own
  Rotations,      \* rotate calls that can be under way together
  SessionTtl,     \* ttlMinutes
  MaxSessionTime, \* bound: clock
  NoSession

ASSUME SessionAssumption ==
  /\ SessionTtl \in Nat \ {0}
  /\ MaxSessionTime \in Nat
  /\ NoSession \notin Sessions

VARIABLES
  sessionClock,
  session,        \* session[s]: row of identity.citizen_sessions, or NoSession
  rotation        \* rotation[r]: the session r has found active, or NoSession

sessionVars == <<sessionClock, session, rotation>>

SessionRow ==
  [chain : Chains, expires : 0..MaxSessionTime + SessionTtl,
   replacedBy : Sessions \union {NoSession}]

ASSUME NoSessionAssumption == NoSession \notin SessionRow

\* requireActive returns the session at that time, rather than throw; a
\* session is revoked by being replaced.
Active(s, now) ==
  session[s] # NoSession /\ session[s].replacedBy = NoSession
    /\ now < session[s].expires

Issue(chain, now) ==
  [chain |-> chain, expires |-> now + SessionTtl, replacedBy |-> NoSession]

SessionInit ==
  /\ sessionClock = 0
  /\ session = [s \in Sessions |-> NoSession]
  /\ rotation = [r \in Rotations |-> [of |-> NoSession, now |-> 0]]

SessionTick ==
  /\ sessionClock < MaxSessionTime
  /\ sessionClock' = sessionClock + 1
  /\ UNCHANGED <<session, rotation>>

Create(chain, s) ==
  /\ session[s] = NoSession
  /\ \A t \in Sessions : session[t] # NoSession => session[t].chain # chain
  /\ session' = [session EXCEPT ![s] = Issue(chain, sessionClock)]
  /\ UNCHANGED <<sessionClock, rotation>>

\* rotate: now is read, and the session is found active.
BeginRotation(r, s) ==
  /\ rotation[r].of = NoSession
  /\ Active(s, sessionClock)
  /\ rotation' = [rotation EXCEPT ![r] = [of |-> s, now |-> sessionClock]]
  /\ UNCHANGED <<sessionClock, session>>

\* Deviation: the UPDATE trusts the check that was made before it.
StillThere(r) == session[rotation[r].of] # NoSession

\* The condition of store.rotate's UPDATE, with the time of the call.
StillActive(r) == Active(rotation[r].of, rotation[r].now)

\* store.rotate: the UPDATE finds the row as it was, the replacement is
\* inserted, COMMIT.
CommitRotation(r, s) ==
  /\ rotation[r].of # NoSession
  /\ StillActive(r)
  /\ session[s] = NoSession
  /\ session' = [session EXCEPT
       ![rotation[r].of].replacedBy = s,
       ![s] = Issue(session[rotation[r].of].chain, rotation[r].now)]
  /\ rotation' = [rotation EXCEPT ![r].of = NoSession]
  /\ UNCHANGED sessionClock

\* The UPDATE matches no row and the call answers REVOKED, or a statement
\* fails: ROLLBACK.
AbortRotation(r) ==
  /\ rotation[r].of # NoSession
  /\ rotation' = [rotation EXCEPT ![r].of = NoSession]
  /\ UNCHANGED <<sessionClock, session>>

SessionNext ==
  \/ SessionTick
  \/ \E chain \in Chains, s \in Sessions : Create(chain, s)
  \/ \E r \in Rotations :
       \/ \E s \in Sessions : BeginRotation(r, s) \/ CommitRotation(r, s)
       \/ AbortRotation(r)

SessionSpec == SessionInit /\ [][SessionNext]_sessionVars

-----------------------------------------------------------------------------
\* The rows are what the table can hold.
SessionTypeOK ==
  /\ sessionClock \in 0..MaxSessionTime
  /\ session \in [Sessions -> SessionRow \union {NoSession}]
  /\ rotation \in [Rotations -> [of : Sessions \union {NoSession},
                                 now : 0..MaxSessionTime]]

\* However many rotations of one token race, a device's chain of sessions has
\* one session that was not replaced, and no two were replaced by the same.
OneLivePerChain ==
  \A s, t \in Sessions :
    session[s] # NoSession /\ session[t] # NoSession
      /\ session[s].chain = session[t].chain
      /\ session[s].replacedBy = session[t].replacedBy => s = t

=============================================================================
