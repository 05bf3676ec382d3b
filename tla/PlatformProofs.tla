---------------------------- MODULE PlatformProofs ----------------------------
(***************************************************************************)
(* Safety of the components that MCPlatform runs side by side, each for    *)
(* every value of its constants.  They share no state, so each theorem is  *)
(* about the specification of one component.                               *)
(***************************************************************************)
EXTENDS ResilientMap, IdempotencyClaims, NotificationDispatch, CitizenSessions,
        OfficerAccess, RuntimeConfig, TrustedEvents, FiniteSetTheorems, TLAPS

-----------------------------------------------------------------------------
(***************************************************************************)
(* CitizenSessions                                                         *)
(***************************************************************************)

\* What a session was replaced by exists: a free identifier replaces nothing.
ReplacementExists ==
  \A s \in Sessions :
    session[s] # NoSession /\ session[s].replacedBy # NoSession
      => session[session[s].replacedBy] # NoSession

SessionInv == SessionTypeOK /\ OneLivePerChain /\ ReplacementExists

\* A new row is one, and is not the row of a session that was replaced.
LEMMA IssuedRow ==
  ASSUME NEW chain \in Chains, NEW now \in 0..MaxSessionTime
  PROVE  /\ Issue(chain, now) \in SessionRow
         /\ Issue(chain, now) # NoSession
         /\ Issue(chain, now).chain = chain
         /\ Issue(chain, now).replacedBy = NoSession
BY SessionAssumption, NoSessionAssumption DEF Issue, SessionRow

LEMMA CreateKeepsSessions ==
  ASSUME SessionInv, NEW chain \in Chains, NEW s \in Sessions, Create(chain, s)
  PROVE  SessionInv'
<1> DEFINE new == Issue(chain, sessionClock)
<1>1. /\ new \in SessionRow /\ new # NoSession
      /\ new.chain = chain /\ new.replacedBy = NoSession
  BY IssuedRow DEF SessionInv, SessionTypeOK
<1>2. /\ session[s] = NoSession
      /\ \A t \in Sessions : session[t] # NoSession => session[t].chain # chain
      /\ session' = [session EXCEPT ![s] = new]
      /\ UNCHANGED <<sessionClock, rotation>>
  BY DEF Create
<1> HIDE DEF new
<1>3. SessionTypeOK'
  BY <1>1, <1>2 DEF SessionInv, SessionTypeOK
<1>4. OneLivePerChain'
  BY <1>1, <1>2 DEF SessionInv, SessionTypeOK, OneLivePerChain
<1>5. ReplacementExists'
  BY <1>1, <1>2, SessionAssumption
  DEF SessionInv, SessionTypeOK, SessionRow, ReplacementExists
<1> QED BY <1>3, <1>4, <1>5 DEF SessionInv

\* The key step: the replaced row was the one live row of its chain, and no
\* other row was replaced by the identifier that is used now.
LEMMA RotationKeepsSessions ==
  ASSUME SessionInv, NEW r \in Rotations, NEW s \in Sessions, CommitRotation(r, s)
  PROVE  SessionInv'
<1> DEFINE old == rotation[r].of
           new == Issue(session[old].chain, rotation[r].now)
<1>1. /\ old \in Sessions /\ session[old] \in SessionRow
      /\ session[old] # NoSession /\ session[old].replacedBy = NoSession
      /\ session[old].chain \in Chains /\ rotation[r].now \in 0..MaxSessionTime
  BY DEF CommitRotation, StillActive, Active, SessionInv, SessionTypeOK, SessionRow
<1>2. /\ new \in SessionRow /\ new # NoSession
      /\ new.chain = session[old].chain /\ new.replacedBy = NoSession
  BY <1>1, IssuedRow
<1>3. /\ session[s] = NoSession
      /\ session' = [session EXCEPT ![old].replacedBy = s, ![s] = new]
      /\ rotation' = [rotation EXCEPT ![r].of = NoSession]
      /\ sessionClock' = sessionClock
  BY DEF CommitRotation
<1> HIDE DEF old, new
<1>4. /\ session'[s] = new /\ s # old
      /\ session'[old] = [session[old] EXCEPT !.replacedBy = s]
      /\ \A t \in Sessions \ {s, old} : session'[t] = session[t]
      /\ session' \in [Sessions -> SessionRow \union {NoSession}]
  <2>1. [session[old] EXCEPT !.replacedBy = s] \in SessionRow
    BY <1>1 DEF SessionRow
  <2> QED BY <1>1, <1>2, <1>3, <2>1 DEF SessionInv, SessionTypeOK
<1>5. /\ session'[old] # NoSession /\ session'[old].replacedBy = s
      /\ session'[old].chain = session[old].chain
  BY <1>1, <1>4, NoSessionAssumption DEF SessionRow
<1>6. SessionTypeOK'
  BY <1>3, <1>4 DEF SessionInv, SessionTypeOK
<1>7. OneLivePerChain'
  <2> SUFFICES ASSUME NEW t \in Sessions, NEW u \in Sessions,
                      session'[t] # NoSession, session'[u] # NoSession,
                      session'[t].chain = session'[u].chain,
                      session'[t].replacedBy = session'[u].replacedBy
               PROVE  t = u
    BY DEF OneLivePerChain
  <2>1. s # NoSession
    BY SessionAssumption
  <2>2. \A v \in Sessions \ {s, old} :
          session'[v] # NoSession => session'[v].replacedBy # s
    BY <1>3, <1>4, <2>1 DEF SessionInv, ReplacementExists
  <2>3. \A v \in Sessions \ {s, old} :
          session'[v] # NoSession /\ session'[v].chain = session[old].chain
            => session'[v].replacedBy # NoSession
    BY <1>1, <1>4 DEF SessionInv, OneLivePerChain
  <2>4. CASE t \notin {s, old} /\ u \notin {s, old}
    BY <1>4, <2>4 DEF SessionInv, OneLivePerChain
  <2>5. CASE t = s
    BY <1>2, <1>4, <1>5, <2>1, <2>3, <2>5
  <2>6. CASE u = s
    BY <1>2, <1>4, <1>5, <2>1, <2>3, <2>6
  <2>7. CASE t = old /\ u # s
    BY <1>5, <2>2, <2>7
  <2>8. CASE u = old /\ t # s
    BY <1>5, <2>2, <2>8
  <2> QED BY <2>4, <2>5, <2>6, <2>7, <2>8
<1>8. ReplacementExists'
  <2> SUFFICES ASSUME NEW t \in Sessions, session'[t] # NoSession,
                      session'[t].replacedBy # NoSession
               PROVE  session'[session'[t].replacedBy] # NoSession
    BY DEF ReplacementExists
  <2>1. CASE t = s
    BY <1>2, <1>4, <2>1
  <2>2. CASE t = old
    BY <1>2, <1>4, <1>5, <2>2
  <2>3. CASE t \notin {s, old}
    <3>1. /\ session[t] # NoSession /\ session[t].replacedBy # NoSession
          /\ session'[t].replacedBy = session[t].replacedBy
      BY <1>4, <2>3
    <3>2. /\ session[session[t].replacedBy] # NoSession
          /\ session[t].replacedBy \in Sessions
      BY <3>1 DEF SessionInv, ReplacementExists, SessionTypeOK, SessionRow
    <3> QED BY <1>2, <1>4, <1>5, <3>1, <3>2
  <2> QED BY <2>1, <2>2, <2>3
<1> QED BY <1>6, <1>7, <1>8 DEF SessionInv

\* A device's chain has one live session, however many rotations race
\* (CitizenSessionService.rotate, PostgresCitizenSessionStore.rotate).
THEOREM OneLiveSession == SessionSpec => []OneLivePerChain
<1>1. SessionInit => SessionInv
  BY SessionAssumption
  DEF SessionInit, SessionInv, SessionTypeOK, OneLivePerChain, ReplacementExists
<1>2. SessionInv /\ [SessionNext]_sessionVars => SessionInv'
  <2> SUFFICES ASSUME SessionInv, [SessionNext]_sessionVars PROVE SessionInv'
    OBVIOUS
  <2> USE DEF SessionInv, SessionTypeOK, OneLivePerChain, ReplacementExists
  <2>1. CASE SessionTick
    BY <2>1, SessionAssumption DEF SessionTick
  <2>2. ASSUME NEW chain \in Chains, NEW s \in Sessions, Create(chain, s)
        PROVE  SessionInv'
    BY <2>2, CreateKeepsSessions
  <2>3. ASSUME NEW r \in Rotations, NEW s \in Sessions, BeginRotation(r, s)
        PROVE  SessionInv'
    BY <2>3 DEF BeginRotation
  <2>4. ASSUME NEW r \in Rotations, NEW s \in Sessions, CommitRotation(r, s)
        PROVE  SessionInv'
    BY <2>4, RotationKeepsSessions
  <2>5. ASSUME NEW r \in Rotations, AbortRotation(r)
        PROVE  SessionInv'
    BY <2>5 DEF AbortRotation
  <2>6. CASE UNCHANGED sessionVars
    BY <2>6 DEF sessionVars
  <2> QED BY <2>1, <2>2, <2>3, <2>4, <2>5, <2>6 DEF SessionNext
<1>3. SessionInv => OneLivePerChain
  BY DEF SessionInv
<1> QED BY <1>1, <1>2, <1>3, PTL DEF SessionSpec

-----------------------------------------------------------------------------
(***************************************************************************)
(* NotificationDispatch                                                    *)
(***************************************************************************)

DispatchInv == DispatchTypeOK /\ HeldClaimHasOwner

LEMMA IdleWork == Idle.at = "idle" /\ Idle \in [at : Steps, of : Notifications,
                                               outcome : Outcomes]
BY DispatchAssumption DEF Idle, Steps, Outcomes

LEMMA DispatchTypes == DispatchTypeOK /\ DispatchNext => DispatchTypeOK'
<1> SUFFICES ASSUME DispatchTypeOK, DispatchNext PROVE DispatchTypeOK'
  OBVIOUS
<1> USE DispatchAssumption, IdleWork
    DEF DispatchTypeOK, Steps, Outcomes, Set, Doing, Fault
<1> HIDE DEF Idle
<1>1. ASSUME NEW n \in Notifications, Enqueue(n) PROVE DispatchTypeOK'
  BY <1>1 DEF Enqueue
<1>2. ASSUME NEW d \in Dispatchers, NEW n \in Notifications, Claim(d, n)
      PROVE  DispatchTypeOK'
  BY <1>2 DEF Claim
<1>3. ASSUME NEW d \in Dispatchers, AuditDuplicate(d) PROVE DispatchTypeOK'
  BY <1>3 DEF AuditDuplicate
<1>4. ASSUME NEW d \in Dispatchers, Decide(d) PROVE DispatchTypeOK'
  <2>1. Decision(work[d].of) \in Outcomes
    BY <1>4 DEF Decision
  <2> QED BY <1>4, <2>1 DEF Decide
<1>5. ASSUME NEW d \in Dispatchers, Deliver(d) PROVE DispatchTypeOK'
  BY <1>5 DEF Deliver
<1>6. ASSUME NEW d \in Dispatchers, AuditFinal(d) PROVE DispatchTypeOK'
  BY <1>6 DEF AuditFinal
<1>7. ASSUME NEW d \in Dispatchers, CompleteClaim(d) PROVE DispatchTypeOK'
  BY <1>7 DEF CompleteClaim
<1>8. ASSUME NEW d \in Dispatchers, PortFails(d) PROVE DispatchTypeOK'
  BY <1>8 DEF PortFails
<1>9. ASSUME NEW d \in Dispatchers, ReleaseAndThrow(d) PROVE DispatchTypeOK'
  BY <1>9 DEF ReleaseAndThrow
<1>10. ASSUME NEW d \in Dispatchers, Die(d) PROVE DispatchTypeOK'
  BY <1>10 DEF Die
<1> QED
  BY <1>1, <1>2, <1>3, <1>4, <1>5, <1>6, <1>7, <1>8, <1>9, <1>10
  DEF DispatchNext, Dispatch

\* A dispatcher goes on with the notification whose claim it owns.
LEMMA OwnerGoesOn ==
  ASSUME DispatchInv, NEW d \in Dispatchers, NEW w,
         work[d].at \notin {"idle", "duplicate"},
         w.at \notin {"idle", "duplicate"}, w.of = work[d].of,
         work' = [work EXCEPT ![d] = w], hold' = hold, orphans' = orphans
  PROVE  HeldClaimHasOwner'
<1>1. \A c \in Dispatchers, n \in Notifications : Owns(c, n)' <=> Owns(c, n)
  BY DEF Owns, DispatchInv, DispatchTypeOK
<1> QED BY <1>1 DEF DispatchInv, HeldClaimHasOwner

\* The key steps: a claim is taken only while it is free, so without an owner,
\* and whoever gives its work up frees the claim or orphans it.
LEMMA ClaimStep == DispatchInv /\ DispatchNext => HeldClaimHasOwner'
<1> SUFFICES ASSUME DispatchInv, DispatchNext PROVE HeldClaimHasOwner'
  OBVIOUS
<1> USE IdleWork
    DEF DispatchInv, DispatchTypeOK, HeldClaimHasOwner, Owns, Set, Doing, Fault
<1> HIDE DEF Idle
<1>1. ASSUME NEW n \in Notifications, Enqueue(n) PROVE HeldClaimHasOwner'
  BY <1>1 DEF Enqueue
<1>2. ASSUME NEW d \in Dispatchers, NEW n \in Notifications, Claim(d, n)
      PROVE  HeldClaimHasOwner'
  <2>1. CASE hold[n] = "free"
    <3>1. /\ hold' = [hold EXCEPT ![n] = "held"] /\ UNCHANGED orphans
          /\ work' = [work EXCEPT ![d] = [at |-> "decide", of |-> n,
                                        outcome |-> "DELIVERED"]]
      BY <1>2, <2>1 DEF Claim
    <3>2. \A c \in Dispatchers : ~Owns(c, n)
      BY <2>1
    <3>3. \A c \in Dispatchers, m \in Notifications :
            Owns(c, m)' <=> IF c = d THEN m = n ELSE Owns(c, m)
      BY <3>1
    <3>4. \A m \in Notifications : ~Owns(d, m)
      BY <1>2 DEF Claim
    <3>5. /\ hold'[n] = "held"
          /\ \A m \in Notifications \ {n} : hold'[m] = hold[m]
      BY <3>1
    <3> HIDE DEF Owns
    <3> QED BY <3>1, <3>2, <3>3, <3>4, <3>5
  <2>2. CASE hold[n] # "free"
    <3>1. /\ UNCHANGED <<hold, orphans>>
          /\ work' = [work EXCEPT ![d] = [at |-> "duplicate", of |-> n,
                                        outcome |-> "DUPLICATE"]]
          /\ work[d].at = "idle"
      BY <1>2, <2>2 DEF Claim
    <3> QED BY <3>1
  <2> QED BY <2>1, <2>2
<1>3. ASSUME NEW d \in Dispatchers, AuditDuplicate(d) PROVE HeldClaimHasOwner'
  BY <1>3 DEF AuditDuplicate
<1>4. ASSUME NEW d \in Dispatchers, Decide(d) PROVE HeldClaimHasOwner'
  <2> DEFINE w == [at |-> IF Decision(work[d].of) = "DELIVERED"
                          THEN "deliver" ELSE "audit",
                   of |-> work[d].of, outcome |-> Decision(work[d].of)]
  <2>1. /\ work[d].at = "decide" /\ hold' = hold /\ orphans' = orphans
        /\ work' = [work EXCEPT ![d] = w]
        /\ w.at \in {"deliver", "audit"} /\ w.of = work[d].of
    BY <1>4 DEF Decide
  <2> HIDE DEF w
  <2> QED BY <2>1, OwnerGoesOn
<1>5. ASSUME NEW d \in Dispatchers, Deliver(d) PROVE HeldClaimHasOwner'
  <2>1. /\ work[d].at = "deliver" /\ hold' = hold /\ orphans' = orphans
        /\ \E outcome \in Outcomes :
             work' = [work EXCEPT ![d] = [at |-> "audit", of |-> work[d].of,
                                          outcome |-> outcome]]
    BY <1>5 DEF Deliver, Outcomes
  <2>2. PICK outcome \in Outcomes :
          work' = [work EXCEPT ![d] = [at |-> "audit", of |-> work[d].of,
                                       outcome |-> outcome]]
    BY <2>1
  <2> DEFINE w == [at |-> "audit", of |-> work[d].of, outcome |-> outcome]
  <2>3. /\ work' = [work EXCEPT ![d] = w]
        /\ w.at = "audit" /\ w.of = work[d].of
    BY <2>2
  <2> HIDE DEF w
  <2> QED BY <2>1, <2>3, OwnerGoesOn
<1>6. ASSUME NEW d \in Dispatchers, AuditFinal(d) PROVE HeldClaimHasOwner'
  BY <1>6 DEF AuditFinal
<1>7. ASSUME NEW d \in Dispatchers, CompleteClaim(d) PROVE HeldClaimHasOwner'
  BY <1>7 DEF CompleteClaim
<1>8. ASSUME NEW d \in Dispatchers, PortFails(d) PROVE HeldClaimHasOwner'
  BY <1>8 DEF PortFails
<1>9. ASSUME NEW d \in Dispatchers, ReleaseAndThrow(d) PROVE HeldClaimHasOwner'
  BY <1>9 DEF ReleaseAndThrow
<1>10. ASSUME NEW d \in Dispatchers, Die(d) PROVE HeldClaimHasOwner'
  BY <1>10 DEF Die
<1> QED
  BY <1>1, <1>2, <1>3, <1>4, <1>5, <1>6, <1>7, <1>8, <1>9, <1>10
  DEF DispatchNext, Dispatch

LEMMA DispatchInvariance == DispatchSpec => []DispatchInv
<1>1. DispatchInit => DispatchInv
  BY IdleWork, DispatchAssumption
  DEF DispatchInit, DispatchInv, DispatchTypeOK, HeldClaimHasOwner, Owns
<1>2. DispatchInv /\ [DispatchNext]_dispatchVars => DispatchInv'
  <2>1. DispatchInv /\ UNCHANGED dispatchVars => DispatchInv'
    BY DEF DispatchInv, DispatchTypeOK, HeldClaimHasOwner, Owns, dispatchVars
  <2> QED BY <2>1, DispatchTypes, ClaimStep DEF DispatchInv
<1> QED BY <1>1, <1>2, PTL DEF DispatchSpec

\* A held claim has one dispatcher at work under it, or was orphaned by a crash
\* (NotificationDispatcher.dispatch and finalize).
THEOREM HeldClaimIsOwned == DispatchSpec => []HeldClaimHasOwner
<1>1. DispatchInv => HeldClaimHasOwner
  BY DEF DispatchInv
<1> QED BY <1>1, DispatchInvariance, PTL

\* Where the audit row of a notification is due, it is there.
AuditedFirst ==
  /\ \A n \in Notifications : hold[n] = "complete" => finals[n] # {}
  /\ \A d \in Dispatchers : work[d].at = "complete" => finals[work[d].of] # {}

LEMMA AuditedStep ==
  DispatchInv /\ AuditedFirst /\ [DispatchNext]_dispatchVars => AuditedFirst'
<1> SUFFICES ASSUME DispatchInv, AuditedFirst, [DispatchNext]_dispatchVars
             PROVE  AuditedFirst'
  OBVIOUS
<1> USE IdleWork
    DEF DispatchInv, DispatchTypeOK, AuditedFirst, Set, Doing, Fault
<1> HIDE DEF Idle
<1>1. ASSUME NEW n \in Notifications, Enqueue(n) PROVE AuditedFirst'
  BY <1>1 DEF Enqueue
<1>2. ASSUME NEW d \in Dispatchers, NEW n \in Notifications, Claim(d, n)
      PROVE  AuditedFirst'
  BY <1>2 DEF Claim
<1>3. ASSUME NEW d \in Dispatchers, AuditDuplicate(d) PROVE AuditedFirst'
  BY <1>3 DEF AuditDuplicate
<1>4. ASSUME NEW d \in Dispatchers, Decide(d) PROVE AuditedFirst'
  <2>1. UNCHANGED <<hold, finals>> /\ \A c \in Dispatchers : work'[c].at = "complete"
          => work[c].at = "complete" /\ work'[c] = work[c]
    BY <1>4 DEF Decide
  <2> QED BY <2>1
<1>5. ASSUME NEW d \in Dispatchers, Deliver(d) PROVE AuditedFirst'
  BY <1>5 DEF Deliver
<1>6. ASSUME NEW d \in Dispatchers, AuditFinal(d) PROVE AuditedFirst'
  BY <1>6 DEF AuditFinal
<1>7. ASSUME NEW d \in Dispatchers, CompleteClaim(d) PROVE AuditedFirst'
  BY <1>7 DEF CompleteClaim
<1>8. ASSUME NEW d \in Dispatchers, PortFails(d) PROVE AuditedFirst'
  BY <1>8 DEF PortFails
<1>9. ASSUME NEW d \in Dispatchers, ReleaseAndThrow(d) PROVE AuditedFirst'
  BY <1>9 DEF ReleaseAndThrow
<1>10. ASSUME NEW d \in Dispatchers, Die(d) PROVE AuditedFirst'
  BY <1>10 DEF Die
<1>11. CASE UNCHANGED dispatchVars
  BY <1>11 DEF dispatchVars
<1> QED
  BY <1>1, <1>2, <1>3, <1>4, <1>5, <1>6, <1>7, <1>8, <1>9, <1>10, <1>11
  DEF DispatchNext, Dispatch

LEMMA OwnersGoOn ==
  ASSUME NEW n \in Notifications, Tracked(n),
         \A d \in Dispatchers : Owns(d, n) => Owns(d, n)',
         UNCHANGED <<queued, hold, orphans>>, finals[n] # {} => finals'[n] # {}
  PROVE  Tracked(n)'
BY DEF Tracked, Settled

\* The key step: a copy that is answered DUPLICATE leaves behind the owner of
\* the claim it met, a settled notification, or an orphan.
LEMMA TrackStays ==
  ASSUME DispatchInv, AuditedFirst, AuditedFirst', DispatchNext,
         NEW n \in Notifications, Tracked(n)
  PROVE  Tracked(n)'
<1> USE IdleWork
    DEF DispatchInv, DispatchTypeOK, HeldClaimHasOwner, Owns, Settled, Tracked, Set,
        Doing, Fault
<1> HIDE DEF Idle
<1>1. ASSUME NEW m \in Notifications, Enqueue(m) PROVE Tracked(n)'
  BY <1>1 DEF Enqueue
<1>2. ASSUME NEW d \in Dispatchers, NEW m \in Notifications, Claim(d, m)
      PROVE  Tracked(n)'
  <2>1. CASE hold[m] = "free"
    <3>1. /\ work' = [work EXCEPT ![d] = [at |-> "decide", of |-> m,
                                          outcome |-> "DELIVERED"]]
          /\ hold' = [hold EXCEPT ![m] = "held"] /\ work[d].at = "idle"
          /\ queued' = [queued EXCEPT ![m] = @ - 1] /\ UNCHANGED <<finals, orphans>>
      BY <1>2, <2>1 DEF Claim
    <3>2. Owns(d, m)' /\ \A c \in Dispatchers : Owns(c, n) => Owns(c, n)'
      BY <3>1
    <3>3. n # m => queued'[n] = queued[n] /\ hold'[n] = hold[n]
      BY <3>1
    <3> HIDE DEF Owns
    <3> QED BY <3>1, <3>2, <3>3
  <2>2. CASE hold[m] # "free"
    <3>1. /\ work' = [work EXCEPT ![d] = [at |-> "duplicate", of |-> m,
                                          outcome |-> "DUPLICATE"]]
          /\ work[d].at = "idle"
          /\ queued' = [queued EXCEPT ![m] = @ - 1]
          /\ UNCHANGED <<hold, finals, orphans>>
      BY <1>2, <2>2 DEF Claim
    <3>2. \A c \in Dispatchers : Owns(c, n) => Owns(c, n)'
      BY <3>1
    <3>3. n # m => queued'[n] = queued[n]
      BY <3>1
    <3>4. hold[m] = "held" /\ m \notin orphans => \E c \in Dispatchers : Owns(c, m)
      OBVIOUS
    <3>5. hold[m] = "complete" => Settled(m)
      BY DEF AuditedFirst
    <3> HIDE DEF Owns
    <3> QED BY <2>2, <3>1, <3>2, <3>3, <3>4, <3>5
  <2> QED BY <2>1, <2>2
<1>3. ASSUME NEW d \in Dispatchers, AuditDuplicate(d) PROVE Tracked(n)'
  BY <1>3 DEF AuditDuplicate
<1>4. ASSUME NEW d \in Dispatchers, Decide(d) PROVE Tracked(n)'
  <2>1. \A c \in Dispatchers : Owns(c, n) => Owns(c, n)'
    BY <1>4 DEF Decide
  <2>2. UNCHANGED <<queued, hold, finals, orphans>>
    BY <1>4 DEF Decide
  <2> HIDE DEF Owns, Tracked, Settled
  <2> QED BY <2>1, <2>2, OwnersGoOn
<1>5. ASSUME NEW d \in Dispatchers, Deliver(d) PROVE Tracked(n)'
  <2>1. \A c \in Dispatchers : Owns(c, n) => Owns(c, n)'
    BY <1>5 DEF Deliver
  <2>2. UNCHANGED <<queued, hold, finals, orphans>>
    BY <1>5 DEF Deliver
  <2> HIDE DEF Owns, Tracked, Settled
  <2> QED BY <2>1, <2>2, OwnersGoOn
<1>6. ASSUME NEW d \in Dispatchers, AuditFinal(d) PROVE Tracked(n)'
  <2>1. \A c \in Dispatchers : Owns(c, n) => Owns(c, n)'
    BY <1>6 DEF AuditFinal
  <2>2. UNCHANGED <<queued, hold, orphans>> /\ (finals[n] # {} => finals'[n] # {})
    BY <1>6 DEF AuditFinal
  <2> HIDE DEF Owns, Tracked, Settled
  <2> QED BY <2>1, <2>2, OwnersGoOn
<1>7. ASSUME NEW d \in Dispatchers, CompleteClaim(d) PROVE Tracked(n)'
  <2>1. /\ hold' = [hold EXCEPT ![work[d].of] = "complete"]
        /\ work' = [work EXCEPT ![d] = Idle] /\ work[d].at = "complete"
        /\ UNCHANGED <<queued, finals, orphans>>
    BY <1>7 DEF CompleteClaim
  <2>2. CASE work[d].of = n
    BY <2>1, <2>2 DEF AuditedFirst
  <2>3. CASE work[d].of # n
    <3>1. \A c \in Dispatchers : Owns(c, n) => Owns(c, n)'
      BY <2>1, <2>3
    <3> QED BY <2>1, <2>3, <3>1
  <2> QED BY <2>2, <2>3
<1>8. ASSUME NEW d \in Dispatchers, PortFails(d) PROVE Tracked(n)'
  <2>1. \A c \in Dispatchers : Owns(c, n) => Owns(c, n)'
    BY <1>8 DEF PortFails
  <2>2. UNCHANGED <<queued, hold, finals, orphans>>
    BY <1>8 DEF PortFails
  <2> HIDE DEF Owns, Tracked, Settled
  <2> QED BY <2>1, <2>2, OwnersGoOn
<1>9. ASSUME NEW d \in Dispatchers, ReleaseAndThrow(d) PROVE Tracked(n)'
  <2>1. /\ queued' = [queued EXCEPT ![work[d].of] = @ + 1]
        /\ hold' = [hold EXCEPT ![work[d].of] = "free"]
        /\ work' = [work EXCEPT ![d] = Idle] /\ UNCHANGED <<finals, orphans>>
    BY <1>9 DEF ReleaseAndThrow
  <2>2. CASE work[d].of = n
    BY <2>1, <2>2
  <2>3. CASE work[d].of # n
    <3>1. \A c \in Dispatchers : Owns(c, n) => Owns(c, n)'
      BY <2>1, <2>3
    <3> QED BY <2>1, <2>3, <3>1
  <2> QED BY <2>2, <2>3
<1>10. ASSUME NEW d \in Dispatchers, Die(d) PROVE Tracked(n)'
  <2>1. /\ queued' = [queued EXCEPT ![work[d].of] = @ + 1]
        /\ work' = [work EXCEPT ![d] = Idle] /\ orphans \subseteq orphans'
        /\ UNCHANGED <<hold, finals>>
    BY <1>10 DEF Die
  <2>2. CASE work[d].of = n
    BY <2>1, <2>2
  <2>3. CASE work[d].of # n
    <3>1. \A c \in Dispatchers : Owns(c, n) => Owns(c, n)'
      BY <2>1, <2>3
    <3> QED BY <2>1, <2>3, <3>1
  <2> QED BY <2>2, <2>3
<1> QED
  BY <1>1, <1>2, <1>3, <1>4, <1>5, <1>6, <1>7, <1>8, <1>9, <1>10
  DEF DispatchNext, Dispatch

\* No step of a dispatcher loses a requested notification, whatever copies are
\* answered DUPLICATE and wherever ports fail (NotificationDispatcher.dispatch):
\* what EveryNotificationSettles needs besides fairness.
THEOREM NotificationsAreKept == DispatchSpec => NoNotificationIsLost
<1> DEFINE Kept == \A n \in Notifications : Tracked(n) => Tracked(n)'
<1>1. DispatchInit => AuditedFirst
  BY IdleWork DEF DispatchInit, AuditedFirst
<1>2. DispatchInv /\ AuditedFirst /\ AuditedFirst' /\ [DispatchNext]_dispatchVars
        => [Kept]_dispatchVars
  BY TrackStays
<1>3. NoNotificationIsLost <=> [][Kept]_dispatchVars
  BY PTL DEF NoNotificationIsLost
<1> HIDE DEF Kept
<1> QED BY <1>1, <1>2, <1>3, AuditedStep, DispatchInvariance, PTL DEF DispatchSpec

-----------------------------------------------------------------------------
(***************************************************************************)
(* OfficerAccess                                                           *)
(***************************************************************************)

AccessSteps ==
  {"idle", "verify", "unauthenticated", "decide", "find", "missing", "sign",
   "failed", "record", "granted", "refused"}

AskedFor ==
  [token : Tokens \union {"none"}, area : {AreaOf[e] : e \in Evidence} \union {"none"},
   case : Cases \union {"none"}, object : Evidence \union {"none"}]

AccessTypeOK ==
  /\ request \in [Requests -> [at : AccessSteps, ask : AskedFor]]
  /\ owner \in [Evidence -> Cases \union {Nobody}]

\* What a request has behind it at each of its steps.
Accounted(r) ==
  LET at == request[r].at
      ask == request[r].ask
  IN  /\ at # "idle" =>
           /\ ask.object \in Evidence /\ ask.case \in Cases
           /\ ask.area = AreaOf[ask.object]
      /\ at \in {"find", "missing", "sign", "failed", "record", "granted"} =>
           <<r, "authorization", "SUCCESS">> \in trail
      /\ at \in {"sign", "record", "granted"} => Reaches(r)
      /\ at = "granted" => <<r, "access", "SUCCESS">> \in trail

AccessInv == AccessTypeOK /\ \A r \in Requests : Accounted(r)

\* What a request has found stays true: rows of the trail are never removed,
\* and an object that belongs to a case stays with it.
LEMMA StaysAccounted ==
  ASSUME NEW r \in Requests, AccessTypeOK, Accounted(r),
         request'[r] = request[r], trail \subseteq trail',
         \A e \in Evidence : owner[e] # Nobody => owner'[e] = owner[e]
  PROVE  Accounted(r)'
<1>1. Scope(r)' = Scope(r)
  BY DEF Scope
<1>2. request[r].at \in {"sign", "record", "granted"} => Reaches(r)'
  BY <1>1, AccessAssumption DEF Accounted, Reaches, InReach
<1> QED BY <1>2 DEF Accounted

\* One request takes a step, with what the step needs.
LEMMA StepAccounted ==
  ASSUME AccessInv, NEW r \in Requests, NEW to \in AccessSteps,
         request[r].at # "idle", to # "idle",
         request' = [request EXCEPT ![r].at = to],
         trail \subseteq trail', owner' = owner,
         to \in {"find", "missing", "sign", "failed", "record", "granted"} =>
           <<r, "authorization", "SUCCESS">> \in trail',
         to \in {"sign", "record", "granted"} => Reaches(r),
         to = "granted" => <<r, "access", "SUCCESS">> \in trail'
  PROVE  AccessInv'
<1>1. AccessTypeOK'
  BY DEF AccessInv, AccessTypeOK
<1>2. request'[r] = [request[r] EXCEPT !.at = to]
  BY DEF AccessInv, AccessTypeOK
<1>3. request'[r].at = to /\ request'[r].ask = request[r].ask
  BY <1>2 DEF AccessInv, AccessTypeOK
<1>4. Reaches(r) => Reaches(r)'
  BY <1>3 DEF Reaches, InReach, Scope
<1>5. Accounted(r)'
  BY <1>3, <1>4 DEF AccessInv, Accounted
<1>6. ASSUME NEW q \in Requests \ {r} PROVE Accounted(q)'
  BY <1>6, StaysAccounted DEF AccessInv, AccessTypeOK
<1> QED BY <1>1, <1>5, <1>6 DEF AccessInv

LEMMA ServeAccounted ==
  ASSUME AccessInv, NEW r \in Requests, Serve(r)
  PROVE  AccessInv'
<1> USE DEF Move, Log, AccessSteps
<1>0. Accounted(r)
  BY DEF AccessInv
<1>1. CASE Authenticate(r)
  BY <1>1, StepAccounted DEF Authenticate
<1>2. CASE RecordAuthenticationDenied(r)
  BY <1>2, StepAccounted DEF RecordAuthenticationDenied
<1>3. CASE Authorize(r)
  BY <1>3, StepAccounted DEF Authorize
<1>4. CASE FindScoped(r)
  BY <1>0, <1>4, StepAccounted DEF FindScoped, Accounted
<1>5. CASE RecordDenied(r)
  BY <1>5, StepAccounted DEF RecordDenied
<1>6. CASE CreateReadUrl(r)
  BY <1>0, <1>6, StepAccounted DEF CreateReadUrl, Accounted
<1>7. CASE StorageUnavailable(r)
  BY <1>0, <1>7, StepAccounted DEF StorageUnavailable, Accounted
<1>8. CASE RecordError(r)
  BY <1>8, StepAccounted DEF RecordError
<1>9. CASE RecordSuccess(r)
  BY <1>0, <1>9, StepAccounted DEF RecordSuccess, Accounted
<1>10. CASE QueryFails(r)
  <2> DEFINE to == IF request[r].at = "verify" THEN "unauthenticated" ELSE "refused"
  <2>1. request' = [request EXCEPT ![r].at = to]
    BY <1>10 DEF QueryFails
  <2> QED BY <1>10, <2>1, StepAccounted DEF QueryFails
<1> QED
  BY <1>1, <1>2, <1>3, <1>4, <1>5, <1>6, <1>7, <1>8, <1>9, <1>10 DEF Serve

\* A read URL leaves the API only with both audit rows stored, and only for an
\* object within the officer's cases, areas and data class
\* (AuthorizationGuard.canActivate, EvidenceAccessService.issue).
THEOREM GrantsAreAccounted == AccessSpec => []EveryGrantIsAccounted
<1>1. AccessInit => AccessInv
  BY DEF AccessInit, AccessInv, AccessTypeOK, AccessSteps, AskedFor, Accounted, NoAsk
<1>2. AccessInv /\ [AccessNext]_accessVars => AccessInv'
  <2> SUFFICES ASSUME AccessInv, [AccessNext]_accessVars PROVE AccessInv'
    OBVIOUS
  <2>1. ASSUME NEW r \in Requests, NEW t \in Tokens \union {"none"},
               NEW e \in Evidence, NEW c \in Cases,
               Present(r, [token |-> t, area |-> AreaOf[e], case |-> c, object |-> e])
        PROVE  AccessInv'
    <3> DEFINE asked == [token |-> t, area |-> AreaOf[e], case |-> c, object |-> e]
    <3>1. asked \in AskedFor /\ asked.object = e /\ asked.case = c
            /\ asked.area = AreaOf[e]
      BY DEF AskedFor
    <3> HIDE DEF asked
    <3>2. /\ request' = [request EXCEPT ![r] = [at |-> "verify", ask |-> asked]]
          /\ trail' = trail /\ owner' = owner
      BY <2>1 DEF Present, asked
    <3>3. AccessTypeOK'
      BY <3>1, <3>2 DEF AccessInv, AccessTypeOK, AccessSteps
    <3>4. request'[r].at = "verify" /\ request'[r].ask = asked
      BY <3>2 DEF AccessInv, AccessTypeOK
    <3>5. Accounted(r)'
      BY <3>1, <3>4 DEF Accounted
    <3>6. ASSUME NEW q \in Requests \ {r} PROVE Accounted(q)'
      BY <3>2, <3>6, StaysAccounted DEF AccessInv, AccessTypeOK
    <3> QED BY <3>3, <3>5, <3>6 DEF AccessInv
  <2>2. ASSUME NEW r \in Requests, Serve(r) PROVE AccessInv'
    BY <2>2, ServeAccounted
  <2>3. ASSUME NEW s, Revoke(s) PROVE AccessInv'
    <3>1. \A r \in Requests : Accounted(r)'
      BY <2>3, StaysAccounted DEF Revoke, AccessInv
    <3> QED BY <2>3, <3>1 DEF Revoke, AccessInv, AccessTypeOK
  <2>4. ASSUME NEW e \in Evidence, NEW c \in Cases, Attach(e, c) PROVE AccessInv'
    <3>1. AccessTypeOK' /\ \A f \in Evidence : owner[f] # Nobody => owner'[f] = owner[f]
      BY <2>4 DEF Attach, AccessInv, AccessTypeOK
    <3>2. \A r \in Requests : Accounted(r)'
      BY <2>4, <3>1, StaysAccounted DEF Attach, AccessInv
    <3> QED BY <3>1, <3>2 DEF AccessInv
  <2>5. CASE UNCHANGED accessVars
    <3>1. \A r \in Requests : Accounted(r)'
      BY <2>5, StaysAccounted DEF accessVars, AccessInv
    <3> QED BY <2>5, <3>1 DEF accessVars, AccessInv, AccessTypeOK
  <2> QED BY <2>1, <2>2, <2>3, <2>4, <2>5 DEF AccessNext
<1>3. AccessInv => EveryGrantIsAccounted
  <2> SUFFICES ASSUME AccessInv, NEW r \in Requests, request[r].at = "granted"
               PROVE  /\ {<<r, "authorization", "SUCCESS">>, <<r, "access", "SUCCESS">>}
                           \subseteq trail
                      /\ LET ask == request[r].ask
                             s == Scope(r)
                         IN  /\ owner[ask.object] = ask.case /\ ask.case \in s.cases
                             /\ AreaOf[ask.object] \in s.areas
                             /\ Rank[ClassOf[ask.object]] <= Rank[s.maxClass]
    BY DEF EveryGrantIsAccounted
  <2>1. Accounted(r)
    BY DEF AccessInv
  <2> QED BY <2>1 DEF Accounted, Reaches, InReach, Allows, PublicActions
<1> QED BY <1>1, <1>2, <1>3, PTL DEF AccessSpec

-----------------------------------------------------------------------------
(***************************************************************************)
(* RuntimeConfig                                                           *)
(***************************************************************************)

\* Every gate asks for a part of what the loader asks for.
LEMMA GateIsCovered ==
  ASSUME NEW g \in Gates
  PROVE  /\ g.flag \in DOMAIN Features
         /\ g.needs \subseteq Features[g.flag].needs
         /\ g.flags \subseteq Features[g.flag].on
<1> USE DEF Gate, Features, Feature, EvidenceNeeds, MockNeeds, Storage
<1>1. CASE g \in WorkerGates
  <2>1. CASE g.flag = "MAP_LIFECYCLE_WORKER_ENABLED"
    BY <1>1, <2>1 DEF WorkerGates
  <2>2. CASE g.flag = "OUTBOX_RELAY_ENABLED"
    BY <1>1, <2>2 DEF WorkerGates
  <2>3. CASE g.flag = "EVIDENCE_PIPELINE_ENABLED"
    BY <1>1, <2>3 DEF WorkerGates
  <2>4. CASE g.flag = "REPORT_SCREENING_WORKER_ENABLED"
    BY <1>1, <2>4 DEF WorkerGates
  <2> QED BY <1>1, <2>1, <2>2, <2>3, <2>4 DEF WorkerGates
<1>2. CASE g = SosGate
  BY <1>2 DEF SosGate
<1>3. CASE g = ReportGate
  BY <1>3 DEF ReportGate
<1>4. CASE g = LinkingGate
  BY <1>4 DEF LinkingGate
<1>5. CASE g = AlertsGate
  BY <1>5 DEF AlertsGate
<1>6. CASE g = UploadGate
  BY <1>6 DEF UploadGate
<1>7. CASE g = ReadGate
  BY <1>7 DEF ReadGate
<1>8. CASE g = MockGate
  BY <1>8 DEF MockGate
<1> QED BY <1>1, <1>2, <1>3, <1>4, <1>5, <1>6, <1>7, <1>8 DEF Gates

\* What the loader accepts is whole.
LEMMA AcceptedIsWhole ==
  ASSUME NEW env, Accepts(env)
  PROVE  /\ \A g \in Gates : Enabled(env, g.flag) => IsOpen(env, g)
         /\ \A f \in DOMAIN Features :
              Enabled(env, f) /\ Hosted(env) => Features[f].hosted
<1>1. \A f \in DOMAIN Features : FeatureIsWhole(env, f)
  BY DEF Accepts
<1>2. ASSUME NEW g \in Gates, Enabled(env, g.flag) PROVE IsOpen(env, g)
  <2>1. FeatureIsWhole(env, g.flag)
    BY <1>1, GateIsCovered
  <2> QED BY <1>2, <2>1, GateIsCovered DEF FeatureIsWhole, IsOpen
<1>3. ASSUME NEW f \in DOMAIN Features, Enabled(env, f), Hosted(env)
      PROVE  Features[f].hosted
  BY <1>1, <1>3 DEF FeatureIsWhole
<1> QED BY <1>2, <1>3

ConfigInv == \A p \in Processes : running[p] = Down \/ Accepts(running[p])

\* A process that runs serves every feature its environment turns on, and no
\* stand-in runs in staging or production, whatever the operator edits and
\* whenever processes are started (loadAndValidateConfig, bootstrap, main).
THEOREM StartedIsWhole == ConfigSpec => []RunningIsWhole
<1>1. ConfigInit => ConfigInv
  BY DEF ConfigInit, ConfigInv
<1>2. ConfigInv /\ [ConfigNext]_configVars => ConfigInv'
  <2> SUFFICES ASSUME ConfigInv, [ConfigNext]_configVars PROVE ConfigInv'
    OBVIOUS
  <2>1. ASSUME NEW n, NEW v, EditSource(n, v) PROVE ConfigInv'
    BY <2>1 DEF EditSource, ConfigInv
  <2>2. ASSUME NEW p \in Processes, Boot(p) PROVE ConfigInv'
    BY <2>2 DEF Boot, ConfigInv
  <2>3. CASE UNCHANGED configVars
    BY <2>3 DEF configVars, ConfigInv
  <2> QED BY <2>1, <2>2, <2>3 DEF ConfigNext
<1>3. ConfigInv => RunningIsWhole
  BY AcceptedIsWhole DEF ConfigInv, RunningIsWhole
<1> QED BY <1>1, <1>2, <1>3, PTL DEF ConfigSpec

-----------------------------------------------------------------------------
(***************************************************************************)
(* ResilientMap                                                            *)
(***************************************************************************)

\* While a call waits, the entry it looked up grows older by no more than the
\* time the call has left.
AgeIsBounded ==
  \A r \in Callers : calls[r] # NoCall =>
    calls[r].entry + calls[r].left <= Oldest + CallTimeout

ProviderInv ==
  ProviderTypeOK /\ AgeIsBounded /\ HalfOpenHasProbe /\ NeverTooOld

LEMMA CircuitStates ==
  /\ HalfOpen \in CircuitState
  /\ \A n \in 0..FailureThreshold - 1 :
       Closed(n) \in CircuitState /\ Closed(n).status = "CLOSED"
  /\ \A n \in 0..ResetTimeout :
       Open(n) \in CircuitState /\ Open(n).status = "OPEN"
BY DEF HalfOpen, Closed, Open, CircuitState

LEMMA FailureOpens ==
  ASSUME circuit \in CircuitState
  PROVE  AfterFailure \in CircuitState /\ AfterFailure.status # "HALF_OPEN"
BY ResilienceAssumption
DEF AfterFailure, CircuitState, Closed, Open, HalfOpen

LEMMA AwaitedIsACall == \A c \in AwaitedCall : c # NoCall
<1>1. Oldest \in Nat
  BY ResilienceAssumption DEF Oldest
<1> QED BY <1>1, ResilienceAssumption DEF AwaitedCall

LEMMA OldestIsNat == Oldest \in Nat
BY ResilienceAssumption DEF Oldest

LEMMA ProviderTypes ==
  ProviderTypeOK /\ AgeIsBounded /\ ProviderNext => ProviderTypeOK' /\ AgeIsBounded'
<1> SUFFICES ASSUME ProviderTypeOK, AgeIsBounded, ProviderNext
             PROVE  ProviderTypeOK' /\ AgeIsBounded'
  OBVIOUS
<1> USE ResilienceAssumption, CircuitStates, OldestIsNat
    DEF ProviderTypeOK, AgeIsBounded
<1>1. ASSUME NEW r \in Callers, NEW i \in Inputs, HitCache(r, i) \/ RefuseCall(r, i)
      PROVE  ProviderTypeOK' /\ AgeIsBounded'
  BY <1>1 DEF HitCache, RefuseCall
<1>2. ASSUME NEW r \in Callers, NEW i \in Inputs, BeginCall(r, i)
      PROVE  ProviderTypeOK' /\ AgeIsBounded'
  <2> DEFINE new == [input |-> i, entry |-> cached[i], left |-> CallTimeout,
                     attempt |-> 1]
  <2>1. new \in AwaitedCall /\ new.entry <= Oldest /\ new.left = CallTimeout
    BY DEF AwaitedCall
  <2>2. circuit' \in CircuitState
    BY <1>2 DEF BeginCall, BeforeCall
  <2>3. calls' = [calls EXCEPT ![r] = new]
    BY <1>2 DEF BeginCall
  <2>4. new.entry + new.left <= Oldest + CallTimeout
    BY <2>1 DEF AwaitedCall
  <2> HIDE DEF new
  <2> QED BY <1>2, <2>1, <2>2, <2>3, <2>4 DEF BeginCall
<1>3. ASSUME NEW r \in Callers, Succeed(r) PROVE ProviderTypeOK' /\ AgeIsBounded'
  <2>1. circuit' \in CircuitState
    BY <1>3 DEF Succeed
  <2>2. cached' \in [Inputs -> 0..Oldest]
    <3>1. cached' = [cached EXCEPT ![calls[r].input] = 0]
      BY <1>3 DEF Succeed
    <3>2. 0 \in 0..Oldest /\ cached \in [Inputs -> 0..Oldest]
      OBVIOUS
    <3> QED BY <3>1, <3>2
  <2>3. calls' = [calls EXCEPT ![r] = NoCall]
    BY <1>3 DEF Succeed
  <2>4. calls' \in [Callers -> AwaitedCall \union {NoCall}] /\ AgeIsBounded'
    BY <2>3
  <2>5. providerFaults' \in 0..MaxProviderFaults
    BY <1>3 DEF Succeed
  <2> QED BY <2>1, <2>2, <2>4, <2>5
<1>4. ASSUME NEW r \in Callers, Retry(r) PROVE ProviderTypeOK' /\ AgeIsBounded'
  <2> DEFINE new == [calls[r] EXCEPT !.attempt = @ + 1]
  <2>1. /\ new \in AwaitedCall /\ new.entry = calls[r].entry
        /\ new.left = calls[r].left
    BY <1>4 DEF Retry, AwaitedCall
  <2>2. calls' = [calls EXCEPT ![r] = new] /\ calls[r] # NoCall
    BY <1>4 DEF Retry
  <2>3. /\ providerFaults' \in 0..MaxProviderFaults
        /\ circuit' = circuit /\ cached' = cached
    BY <1>4 DEF Retry
  <2> HIDE DEF new
  <2>4. calls' \in [Callers -> AwaitedCall \union {NoCall}]
    BY <2>1, <2>2
  <2>5. \A q \in Callers : calls'[q] = IF q = r THEN new ELSE calls[q]
    BY <2>2
  <2>6. AgeIsBounded'
    BY <2>1, <2>2, <2>5
  <2> QED BY <2>3, <2>4, <2>6
<1>5. ASSUME NEW r \in Callers, Fail(r) PROVE ProviderTypeOK' /\ AgeIsBounded'
  BY <1>5, FailureOpens DEF Fail
<1>6. CASE PassTime
  <2>1. circuit' \in CircuitState
    <3>1. CASE circuit.status = "OPEN" /\ circuit.count > 0
      <4>1. circuit.count \in 0..ResetTimeout
        BY <3>1 DEF CircuitState, HalfOpen
      <4>2. circuit' = Open(circuit.count - 1)
        BY <1>6, <3>1 DEF PassTime
      <4>3. circuit.count - 1 \in 0..ResetTimeout
        BY <3>1, <4>1
      <4> QED BY <4>2, <4>3
    <3>2. CASE ~(circuit.status = "OPEN" /\ circuit.count > 0)
      BY <1>6, <3>2 DEF PassTime
    <3> QED BY <3>1, <3>2
  <2>2. cached' \in [Inputs -> 0..Oldest]
    <3>1. \A i \in Inputs : Smaller(cached[i] + 1, Oldest) \in 0..Oldest
      BY DEF Smaller
    <3> QED BY <1>6, <3>1 DEF PassTime
  <2>3. ASSUME NEW r \in Callers
        PROVE  /\ calls'[r] \in AwaitedCall \union {NoCall}
               /\ calls'[r] # NoCall =>
                    calls'[r].entry + calls'[r].left <= Oldest + CallTimeout
    <3>1. CASE calls[r] = NoCall
      BY <1>6, <3>1 DEF PassTime
    <3>2. CASE calls[r] # NoCall
      <4> DEFINE new == [calls[r] EXCEPT !.entry = @ + 1, !.left = @ - 1]
      <4>1. /\ calls[r] \in AwaitedCall
            /\ calls[r].left > 0 /\ calls'[r] = new
        BY <1>6, <3>2 DEF PassTime
      <4>2. /\ calls[r].entry \in 0..Oldest + CallTimeout
            /\ calls[r].left \in 0..CallTimeout
            /\ calls[r].entry + calls[r].left <= Oldest + CallTimeout
        BY <3>2, <4>1 DEF AwaitedCall
      <4>3. /\ calls[r].entry + 1 \in 0..Oldest + CallTimeout
            /\ calls[r].left - 1 \in 0..CallTimeout
            /\ (calls[r].entry + 1) + (calls[r].left - 1) <= Oldest + CallTimeout
        BY <4>1, <4>2
      <4>4. /\ new \in AwaitedCall
            /\ new.entry = calls[r].entry + 1 /\ new.left = calls[r].left - 1
        BY <4>1, <4>3 DEF AwaitedCall
      <4> QED BY <4>1, <4>3, <4>4
    <3> QED BY <3>1, <3>2
  <2>4. calls' \in [Callers -> AwaitedCall \union {NoCall}]
    <3>1. DOMAIN calls' = Callers /\ calls' = [r \in Callers |-> calls'[r]]
      BY <1>6 DEF PassTime
    <3> QED BY <2>3, <3>1
  <2> QED BY <1>6, <2>1, <2>2, <2>3, <2>4 DEF PassTime
<1> QED BY <1>1, <1>2, <1>3, <1>4, <1>5, <1>6 DEF ProviderNext, Ask, Attempt

\* The key steps: a call that ends leaves the circuit closed or open, and an
\* answer is judged by its age at the time it is given.
LEMMA ProviderStep ==
  ProviderInv /\ ProviderNext => HalfOpenHasProbe' /\ NeverTooOld'
<1> SUFFICES ASSUME ProviderInv, ProviderNext
             PROVE  HalfOpenHasProbe' /\ NeverTooOld'
  OBVIOUS
<1> USE ResilienceAssumption, CircuitStates, OldestIsNat
    DEF ProviderInv, ProviderTypeOK, HalfOpenHasProbe, NeverTooOld, Served,
        FallBack, Usable
<1>1. ASSUME NEW r \in Callers, NEW i \in Inputs, HitCache(r, i)
      PROVE  HalfOpenHasProbe' /\ NeverTooOld'
  <2>1. CacheTtl <= Oldest
    BY DEF Oldest
  <2> QED BY <1>1, <2>1 DEF HitCache
<1>2. ASSUME NEW r \in Callers, NEW i \in Inputs, RefuseCall(r, i)
      PROVE  HalfOpenHasProbe' /\ NeverTooOld'
  BY <1>2 DEF RefuseCall
<1>3. ASSUME NEW r \in Callers, NEW i \in Inputs, BeginCall(r, i)
      PROVE  HalfOpenHasProbe' /\ NeverTooOld'
  <2> DEFINE new == [input |-> i, entry |-> cached[i], left |-> CallTimeout,
                     attempt |-> 1]
  <2>1. new \in AwaitedCall
    BY DEF AwaitedCall
  <2>2. calls' = [calls EXCEPT ![r] = new]
    BY <1>3 DEF BeginCall
  <2>3. calls'[r] # NoCall
    BY <2>1, <2>2, AwaitedIsACall
  <2> QED BY <1>3, <2>3 DEF BeginCall
<1>4. ASSUME NEW r \in Callers, Succeed(r) PROVE HalfOpenHasProbe' /\ NeverTooOld'
  BY <1>4 DEF Succeed
<1>5. ASSUME NEW r \in Callers, Retry(r) PROVE HalfOpenHasProbe' /\ NeverTooOld'
  <2> DEFINE new == [calls[r] EXCEPT !.attempt = @ + 1]
  <2>1. new \in AwaitedCall
    BY <1>5 DEF Retry, AwaitedCall
  <2>2. calls' = [calls EXCEPT ![r] = new]
    BY <1>5 DEF Retry
  <2>3. calls'[r] # NoCall
    BY <2>1, <2>2, AwaitedIsACall
  <2> QED BY <1>5, <2>3 DEF Retry
<1>6. ASSUME NEW r \in Callers, Fail(r) PROVE HalfOpenHasProbe' /\ NeverTooOld'
  BY <1>6, FailureOpens DEF Fail
<1>7. CASE PassTime
  <2>1. circuit'.status = "HALF_OPEN" => circuit.status = "HALF_OPEN"
    BY <1>7 DEF PassTime, Open
  <2>2. \A r \in Callers : calls[r] # NoCall => calls'[r] # NoCall
    <3> SUFFICES ASSUME NEW r \in Callers, calls[r] # NoCall PROVE calls'[r] # NoCall
      OBVIOUS
    <3>1. calls'[r] \in [input : Inputs, entry : Nat, left : Nat, attempt : Nat]
      <4>1. /\ calls[r] \in AwaitedCall /\ calls[r].left > 0
            /\ calls'[r] = [calls[r] EXCEPT !.entry = @ + 1, !.left = @ - 1]
        BY <1>7 DEF PassTime
      <4>2. /\ calls[r] \in [input : Inputs, entry : Nat, left : Nat, attempt : Nat]
            /\ calls[r].left \in Nat /\ calls[r].entry \in Nat
        BY <4>1 DEF AwaitedCall
      <4>3. calls[r].left - 1 \in Nat /\ calls[r].entry + 1 \in Nat
        BY <4>1, <4>2
      <4> QED BY <4>1, <4>2, <4>3
    <3> QED BY <3>1
  <2> QED BY <1>7, <2>1, <2>2 DEF PassTime
<1> QED
  BY <1>1, <1>2, <1>3, <1>4, <1>5, <1>6, <1>7 DEF ProviderNext, Ask, Attempt

LEMMA ProviderInvariant == ProviderSpec => []ProviderInv
<1>1. ProviderInit => ProviderInv
  BY ResilienceAssumption, CircuitStates, OldestIsNat
  DEF ProviderInit, ProviderInv, ProviderTypeOK, AgeIsBounded, HalfOpenHasProbe,
      NeverTooOld, Served
<1>2. ProviderInv /\ [ProviderNext]_providerVars => ProviderInv'
  <2>1. ProviderInv /\ UNCHANGED providerVars => ProviderInv'
    BY DEF providerVars, ProviderInv, ProviderTypeOK, AgeIsBounded,
           HalfOpenHasProbe, NeverTooOld
  <2> QED BY <2>1, ProviderTypes, ProviderStep DEF ProviderInv
<1> QED BY <1>1, <1>2, PTL DEF ProviderSpec

\* A half-open circuit always has a call under way that will take it out of
\* that state (CircuitBreaker.beforeCall, success, failure).
THEOREM ProbeIsUnderWay == ProviderSpec => []HalfOpenHasProbe
<1>1. ProviderInv => HalfOpenHasProbe
  BY DEF ProviderInv
<1> QED BY <1>1, ProviderInvariant, PTL

\* No answer is older than cacheTtlMs + maxStaleMs, although the entry is looked
\* up before the await (ResilientMapAdapter.execute).
THEOREM AnswersAreFreshEnough == ProviderSpec => []NeverTooOld
<1>1. ProviderInv => NeverTooOld
  BY DEF ProviderInv
<1> QED BY <1>1, ProviderInvariant, PTL

-----------------------------------------------------------------------------
(***************************************************************************)
(* IdempotencyClaims                                                       *)
(***************************************************************************)

\* Until an operation outlives its claim, whoever has claimed a key has its row,
\* and nobody else does.
ClaimIsHeld ==
  \A k \in ClaimKeys \ overran, e, f \in Executions :
    Live(e) /\ KeyOf(e) = k =>
      Held(e) /\ (Live(f) /\ KeyOf(f) = k => e = f)

ClaimInv == ClaimTypeOK /\ ClaimIsHeld

LEMMA NewClaim ==
  ASSUME ClaimTypeOK, NEW e \in Executions
  PROVE  LET new == [hash |-> exec[e].hash, state |-> "PROCESSING",
                     expires |-> exec[e].expires]
         IN /\ new \in [hash : Hashes, state : {"PROCESSING", "COMPLETED"},
                        expires : Nat]
            /\ new # NoClaim
BY ClaimAssumption DEF ClaimTypeOK

\* One execution goes on: its key and hash stay, the others stay where they are.
LEMMA GotoOne ==
  ASSUME ClaimTypeOK, NEW e \in Executions, NEW place \in Places, Goto(e, place)
  PROVE  /\ exec' \in [Executions -> [at : Places, key : ClaimKeys, hash : Hashes,
                                     expires : Nat]]
         /\ exec'[e].at = place /\ exec'[e].key = exec[e].key
         /\ exec'[e].hash = exec[e].hash
         /\ \A f \in Executions \ {e} : exec'[f] = exec[f]
BY DEF ClaimTypeOK, Goto

LEMMA ClaimStepHeld ==
  ASSUME ClaimInv, NEW e \in Executions, Run(e)
  PROVE  ClaimInv'
<1> USE ClaimAssumption
    DEF ClaimInv, ClaimTypeOK, ClaimIsHeld, Live, Held, At, KeyOf, ClaimOf
<1> DEFINE ClaimRow == [hash : Hashes, state : {"PROCESSING", "COMPLETED"}, expires : Nat]
<1>1. CASE Execute(e)
  <2> DEFINE until == claimClock + Lifetime
             new == [exec[e] EXCEPT !.at = "insert", !.expires = until]
             Call == [at : Places, key : ClaimKeys, hash : Hashes, expires : Nat]
  <2>0. until \in Nat /\ exec[e] \in Call /\ "insert" \in Places
    BY DEF Places
  <2>3. exec' = [exec EXCEPT ![e] = new] /\ exec[e].at = "idle"
        /\ UNCHANGED <<claimClock, claims, overran>>
    BY <1>1 DEF Execute
  <2> HIDE DEF until
  <2>4. new \in Call /\ new.at = "insert"
    BY <2>0
  <2> HIDE DEF new
  <2>2. /\ exec' \in [Executions -> Call] /\ exec'[e].at = "insert"
        /\ \A f \in Executions \ {e} : exec'[f] = exec[f]
    BY <2>3, <2>4
  <2> QED BY <2>2, <2>3
<1>2. CASE InsertClaim(e)
  <2> DEFINE new == [hash |-> exec[e].hash, state |-> "PROCESSING",
                     expires |-> exec[e].expires]
  <2>1. CASE ClaimOf(e) = NoClaim
    <3>1. /\ claims' = [claims EXCEPT ![exec[e].key] = new]
          /\ Goto(e, "operate") /\ UNCHANGED <<claimClock, overran>>
      BY <1>2, <2>1 DEF InsertClaim
    <3>2. /\ new \in ClaimRow /\ new # NoClaim /\ new.hash = exec[e].hash
          /\ new.state = "PROCESSING"
      BY NewClaim
    <3>3. /\ exec' \in [Executions -> [at : Places, key : ClaimKeys, hash : Hashes,
                                      expires : Nat]]
          /\ exec'[e].at = "operate" /\ exec'[e].key = exec[e].key
          /\ exec'[e].hash = exec[e].hash
          /\ \A f \in Executions \ {e} : exec'[f] = exec[f]
      BY <3>1, GotoOne DEF Places
    <3> HIDE DEF new
    <3>4. /\ claims' \in [ClaimKeys -> ClaimRow \union {NoClaim}]
          /\ claims'[exec[e].key] = new
          /\ \A k \in ClaimKeys \ {exec[e].key} : claims'[k] = claims[k]
      BY <3>1, <3>2
    <3>5. exec[e].key \notin overran =>
            \A f \in Executions : Live(f) => exec[f].key # exec[e].key
      BY <2>1
    <3>6. ClaimTypeOK'
      BY <3>1, <3>3, <3>4
    <3>7. ClaimIsHeld'
      <4> SUFFICES ASSUME NEW k \in ClaimKeys \ overran', NEW f \in Executions,
                          NEW g \in Executions, Live(f)', KeyOf(f)' = k
                   PROVE  Held(f)' /\ (Live(g)' /\ KeyOf(g)' = k => f = g)
        OBVIOUS
      <4>1. CASE k = exec[e].key
        <5>1. f = e /\ (Live(g)' /\ KeyOf(g)' = k => g = e)
          BY <3>1, <3>3, <3>5, <4>1
        <5> QED BY <3>2, <3>3, <3>4, <4>1, <5>1
      <4>2. CASE k # exec[e].key
        BY <3>1, <3>3, <3>4, <4>2
      <4> QED BY <4>1, <4>2
    <3> QED BY <3>6, <3>7
  <2>2. CASE ClaimOf(e) # NoClaim
    <3>1. /\ Goto(e, "select") /\ exec[e].at = "insert"
          /\ UNCHANGED <<claimClock, claims, overran>>
      BY <1>2, <2>2 DEF InsertClaim
    <3> QED BY <3>1, GotoOne DEF Places
  <2> QED BY <2>1, <2>2
<1>3. CASE SelectClaim(e)
  <2>1. PICK place \in {"insert", "delete", "done"} :
          /\ Goto(e, place) /\ UNCHANGED <<claimClock, claims, overran>>
    BY <1>3 DEF SelectClaim
  <2> QED BY <2>1, GotoOne DEF Places
<1>4. CASE DeleteExpired(e)
  <2>1. CASE ClaimOf(e) # NoClaim /\ Expired(ClaimOf(e))
    <3>1. /\ claims' = [claims EXCEPT ![exec[e].key] = NoClaim]
          /\ overran' = IF \E o \in Executions : Live(o) /\ exec[o].key = exec[e].key
                        THEN overran \union {exec[e].key} ELSE overran
          /\ Goto(e, "insert") /\ claimClock' = claimClock /\ exec[e].at = "delete"
      BY <1>4, <2>1 DEF DeleteExpired
    <3>2. /\ exec' \in [Executions -> [at : Places, key : ClaimKeys, hash : Hashes,
                                      expires : Nat]]
          /\ exec'[e].at = "insert" /\ exec'[e].key = exec[e].key
          /\ \A f \in Executions \ {e} : exec'[f] = exec[f]
      BY <3>1, GotoOne DEF Places
    <3>3. /\ overran \subseteq overran' /\ overran' \subseteq ClaimKeys
          /\ \A f \in Executions : Live(f) /\ exec[f].key = exec[e].key
               => exec[e].key \in overran'
      BY <3>1
    <3>4. /\ claims' \in [ClaimKeys -> ClaimRow \union {NoClaim}]
          /\ \A k \in ClaimKeys \ {exec[e].key} : claims'[k] = claims[k]
      BY <3>1
    <3>5. ClaimTypeOK'
      BY <3>1, <3>2, <3>3, <3>4
    <3>6. ClaimIsHeld'
      BY <3>1, <3>2, <3>3, <3>4
    <3> QED BY <3>5, <3>6
  <2>2. CASE ~(ClaimOf(e) # NoClaim /\ Expired(ClaimOf(e)))
    <3>1. /\ Goto(e, "done") /\ UNCHANGED <<claimClock, claims, overran>>
      BY <1>4, <2>2 DEF DeleteExpired
    <3> QED BY <3>1, GotoOne DEF Places
  <2> QED BY <2>1, <2>2
<1>5. CASE Operate(e)
  <2>1. PICK place \in {"complete", "release"} :
          /\ Goto(e, place) /\ UNCHANGED <<claimClock, claims, overran>>
          /\ exec[e].at = "operate"
    BY <1>5 DEF Operate
  <2> QED BY <2>1, GotoOne DEF Places
<1>6. CASE Complete(e)
  <2>1. CASE Held(e)
    <3>1. /\ claims' = [claims EXCEPT ![exec[e].key].state = "COMPLETED"]
          /\ Goto(e, "done") /\ UNCHANGED <<claimClock, overran>>
          /\ exec[e].at = "complete"
      BY <1>6, <2>1 DEF Complete
    <3>2. /\ exec' \in [Executions -> [at : Places, key : ClaimKeys, hash : Hashes,
                                      expires : Nat]]
          /\ exec'[e].at = "done"
          /\ \A f \in Executions \ {e} : exec'[f] = exec[f]
      BY <3>1, GotoOne DEF Places
    <3>3. [claims[exec[e].key] EXCEPT !.state = "COMPLETED"] \in ClaimRow
      BY <2>1
    <3>4. /\ claims' \in [ClaimKeys -> ClaimRow \union {NoClaim}]
          /\ \A k \in ClaimKeys \ {exec[e].key} : claims'[k] = claims[k]
      BY <3>1, <3>3
    <3>5. exec[e].key \notin overran =>
            \A f \in Executions : Live(f) /\ exec[f].key = exec[e].key => f = e
      BY <3>1
    <3>6. ClaimTypeOK'
      BY <3>1, <3>2, <3>4
    <3>7. ClaimIsHeld'
      BY <3>1, <3>2, <3>4, <3>5
    <3> QED BY <3>6, <3>7
  <2>2. CASE ~Held(e)
    <3>1. /\ Goto(e, "release") /\ UNCHANGED <<claimClock, claims, overran>>
          /\ exec[e].at = "complete"
      BY <1>6, <2>2 DEF Complete
    <3> QED BY <3>1, GotoOne DEF Places
  <2> QED BY <2>1, <2>2
<1>7. CASE Release(e)
  <2>1. /\ claims' = IF Held(e) THEN [claims EXCEPT ![exec[e].key] = NoClaim] ELSE claims
        /\ Goto(e, "done") /\ UNCHANGED <<claimClock, overran>>
        /\ exec[e].at = "release"
    BY <1>7 DEF Release
  <2>2. /\ exec' \in [Executions -> [at : Places, key : ClaimKeys, hash : Hashes,
                                    expires : Nat]]
        /\ exec'[e].at = "done"
        /\ \A f \in Executions \ {e} : exec'[f] = exec[f]
    BY <2>1, GotoOne DEF Places
  <2>3. /\ claims' \in [ClaimKeys -> ClaimRow \union {NoClaim}]
        /\ \A k \in ClaimKeys \ {exec[e].key} : claims'[k] = claims[k]
    BY <2>1
  <2>4. exec[e].key \notin overran =>
          \A f \in Executions : Live(f) /\ exec[f].key = exec[e].key => f = e
    BY <2>1
  <2>5. ClaimTypeOK'
    BY <2>1, <2>2, <2>3
  <2>6. ClaimIsHeld'
    BY <2>1, <2>2, <2>3, <2>4
  <2> QED BY <2>5, <2>6
<1>8. CASE Abandon(e)
  <2>1. /\ Goto(e, "done") /\ UNCHANGED <<claimClock, claims, overran>>
    BY <1>8 DEF Abandon
  <2> QED BY <2>1, GotoOne DEF Places
<1> QED BY <1>1, <1>2, <1>3, <1>4, <1>5, <1>6, <1>7, <1>8 DEF Run

LEMMA ClaimInvariance == ClaimSpec => []ClaimInv
<1>1. ClaimInit => ClaimInv
  BY DEF ClaimInit, ClaimInv, ClaimTypeOK, ClaimIsHeld, Live, Places
<1>2. ClaimInv /\ [ClaimNext]_claimVars => ClaimInv'
  <2> SUFFICES ASSUME ClaimInv, [ClaimNext]_claimVars PROVE ClaimInv'
    OBVIOUS
  <2>1. CASE ClaimTick
    BY <2>1 DEF ClaimTick, ClaimInv, ClaimTypeOK, ClaimIsHeld, Live, Held,
                ClaimOf, KeyOf
  <2>2. ASSUME NEW e \in Executions, Run(e) PROVE ClaimInv'
    BY <2>2, ClaimStepHeld
  <2>3. CASE UNCHANGED claimVars
    BY <2>3 DEF claimVars, ClaimInv, ClaimTypeOK, ClaimIsHeld, Live, Held,
                ClaimOf, KeyOf
  <2> QED BY <2>1, <2>2, <2>3 DEF ClaimNext
<1> QED BY <1>1, <1>2, PTL DEF ClaimSpec

\* Two operations of one key overlap only after one outlived its claim
\* (IdempotencyExecutor.execute, PostgresIdempotencyStore).
THEOREM OverlapNeedsOverrun == ClaimSpec => []OverlapOnlyAfterOverrun
<1>1. ClaimInv => OverlapOnlyAfterOverrun
  BY DEF ClaimInv, ClaimIsHeld, OverlapOnlyAfterOverrun, Working, At, Live
<1> QED BY <1>1, ClaimInvariance, PTL

\* A stored answer outlives every execution that lost its claim: what it still
\* completes or releases is a claim in progress (PostgresIdempotencyStore.complete
\* and release).
THEOREM AnswersAreKept == ClaimSpec => CompletedIsKept
<1> DEFINE Done(k) == claims[k] # NoClaim /\ claims[k].state = "COMPLETED"
           Kept == \A k \in ClaimKeys :
                     claims[k] # NoClaim /\ claims[k].state = "COMPLETED"
                       => claims'[k] = claims[k] \/ Expired(claims[k])
<1>1. ClaimInv /\ [ClaimNext]_claimVars => [Kept]_claimVars
  <2> SUFFICES ASSUME ClaimInv, ClaimNext, NEW k \in ClaimKeys, Done(k)
               PROVE  claims'[k] = claims[k] \/ Expired(claims[k])
    OBVIOUS
  <2> USE DEF ClaimInv, ClaimTypeOK, ClaimOf, KeyOf, Held
  <2>1. CASE UNCHANGED claims
    BY <2>1
  <2>2. ASSUME NEW e \in Executions, InsertClaim(e)
        PROVE  claims'[k] = claims[k]
    BY <2>2 DEF InsertClaim
  <2>3. ASSUME NEW e \in Executions, DeleteExpired(e)
        PROVE  claims'[k] = claims[k] \/ Expired(claims[k])
    BY <2>3 DEF DeleteExpired
  <2>4. ASSUME NEW e \in Executions, Complete(e)
        PROVE  claims'[k] = claims[k]
    BY <2>4 DEF Complete
  <2>5. ASSUME NEW e \in Executions, Release(e)
        PROVE  claims'[k] = claims[k]
    BY <2>5 DEF Release
  <2> QED
    BY <2>1, <2>2, <2>3, <2>4, <2>5
    DEF ClaimNext, Run, ClaimTick, Execute, SelectClaim, Operate, Abandon
<1>2. CompletedIsKept <=> [][Kept]_claimVars
  BY PTL DEF CompletedIsKept
<1> HIDE DEF Kept
<1> QED BY <1>1, <1>2, ClaimInvariance, PTL DEF ClaimSpec

-----------------------------------------------------------------------------
(***************************************************************************)
(* TrustedEvents                                                           *)
(***************************************************************************)

\* The loop keeps exactly what the answer is defined from: every copy of the
\* area, the number of those in the window by cell, and the latest of them.
Cells(S) == {c.cell : c \in S}
HowMany(S) == [k \in Cells(S) |-> Cardinality({c \in S : c.cell = k})]
IsLatest(S, at) == /\ S = {} => at = NothingYet
                   /\ S # {} => at \in {c.at : c \in S}
                   /\ \A c \in S : c.at <= at

LoopTypes ==
  /\ query \in Queries
  /\ delivered \subseteq Copies /\ IsFiniteSet(delivered)
  /\ tally = [failed |-> tally.failed, known |-> tally.known,
              count |-> tally.count, fresh |-> tally.fresh]
  /\ tally.failed \in BOOLEAN

LoopKeepsAll ==
  Admitted(query) =>
    /\ tally.failed <=> Contradictory
    /\ ~tally.failed =>
         /\ tally.known = {c \in delivered : c.area = query.area}
         /\ tally.count = HowMany(Relevant)
         /\ IsLatest(Relevant, tally.fresh)

EventsInv == LoopTypes /\ LoopKeepsAll

LEMMA EventsInitInv == EventsInit => EventsInv
<1> SUFFICES ASSUME EventsInit PROVE EventsInv
  OBVIOUS
<1>1. LoopTypes
  BY FS_EmptySet DEF EventsInit, LoopTypes, Admitted
<1>2. Relevant = {} /\ ~Contradictory
  BY DEF EventsInit, Relevant, Contradictory
<1>3. HowMany({}) = << >>
  BY DEF HowMany, Cells
<1> QED BY <1>1, <1>2, <1>3
        DEF EventsInit, EventsInv, LoopTypes, LoopKeepsAll, IsLatest

\* Counting one more event of a set is what the loop does to its numbers.
LEMMA CountedOneMore ==
  ASSUME NEW S \in SUBSET Copies, IsFiniteSet(S), NEW c \in Copies, c \notin S
  PROVE  HowMany(S \union {c}) = Counted(HowMany(S), c.cell)
<1> DEFINE In(T, k) == {d \in T : d.cell = k}
           T == S \union {c}
<1>1. \A k : IsFiniteSet(In(S, k)) /\ Cardinality(In(S, k)) \in Nat
  BY FS_Subset, FS_CardinalityType
<1>2. Cardinality(In(T, c.cell)) = Cardinality(In(S, c.cell)) + 1
  <2>1. In(T, c.cell) = In(S, c.cell) \union {c} /\ c \notin In(S, c.cell)
    OBVIOUS
  <2>2. IsFiniteSet(In(S, c.cell)) /\ Cardinality(In(S, c.cell)) \in Nat
    BY <1>1
  <2> HIDE DEF In, T
  <2> QED BY <2>1, <2>2, FS_AddElement
<1>3. \A k : k # c.cell => In(T, k) = In(S, k)
  OBVIOUS
<1>4. c.cell \notin Cells(S) => Cardinality(In(S, c.cell)) = 0
  <2>1. c.cell \notin Cells(S) => In(S, c.cell) = {}
    BY DEF Cells
  <2> QED BY <2>1, FS_EmptySet
<1>5. Cells(T) = Cells(S) \union {c.cell}
  BY DEF Cells
<1> DEFINE old == [k \in Cells(S) |-> Cardinality(In(S, k))]
           new == [k \in Cells(T) |-> Cardinality(In(T, k))]
           sum == [k \in Cells(S) \union {c.cell} |->
                     (IF k \in Cells(S) THEN old[k] ELSE 0)
                       + (IF k = c.cell THEN 1 ELSE 0)]
<1>6. \A k \in Cells(T) : new[k] = sum[k]
  <2> SUFFICES ASSUME NEW k \in Cells(T) PROVE new[k] = sum[k]
    OBVIOUS
  <2>1. k \in Cells(S) => old[k] = Cardinality(In(S, k))
    OBVIOUS
  <2>2. new[k] = Cardinality(In(T, k))
    OBVIOUS
  <2>3. sum[k] = (IF k \in Cells(S) THEN old[k] ELSE 0) + (IF k = c.cell THEN 1 ELSE 0)
    BY <1>5
  <2>4. CASE k = c.cell
    BY <1>1, <1>2, <1>4, <2>1, <2>2, <2>3, <2>4
  <2>5. CASE k # c.cell
    <3>1. k \in Cells(S)
      BY <1>5, <2>5
    <3> HIDE DEF In, old, new, sum
    <3> QED BY <1>1, <1>3, <2>1, <2>2, <2>3, <2>5, <3>1
  <2> QED BY <2>4, <2>5
<1>7. new = sum
  BY <1>5, <1>6
<1>8. HowMany(S) = old /\ DOMAIN old = Cells(S) /\ HowMany(T) = new
  BY DEF HowMany
<1> QED BY <1>7, <1>8 DEF Counted

LEMMA LaterIsLatest ==
  ASSUME EventsAssumption, NEW S \in SUBSET Copies, NEW c \in Copies, NEW at, IsLatest(S, at)
  PROVE  IsLatest(S \union {c}, Later(at, c.at))
<1>1. \A d \in Copies : d.at \in Nat \ {0}
  BY DEF EventsAssumption
<1>2. CASE S = {}
  BY <1>1, <1>2 DEF IsLatest, Later, NothingYet
<1>3. CASE S # {}
  <2>1. at \in Nat \ {0} /\ at \in {d.at : d \in S} /\ \A d \in S : d.at <= at
    BY <1>1, <1>3 DEF IsLatest
  <2> QED BY <1>1, <2>1 DEF IsLatest, Later, NothingYet
<1> QED BY <1>2, <1>3

LEMMA AbsorbKeepsInv ==
  ASSUME EventsInv, NEW c \in Copies, Absorb(c)
  PROVE  EventsInv'
<1> DEFINE mine == {d \in delivered : d.area = query.area}
           twin == {k \in tally.known : k.id = c.id}
<1>1. /\ ~tally.failed /\ query' = query /\ query \in Queries
      /\ delivered' = delivered \union {c} /\ delivered \subseteq Copies
      /\ IsFiniteSet(delivered)
      /\ tally = [failed |-> tally.failed, known |-> tally.known,
                  count |-> tally.count, fresh |-> tally.fresh]
      /\ tally.failed \in BOOLEAN
      /\ tally' = Absorbed(tally, c)
  BY DEF Absorb, EventsInv, LoopTypes
<1>2. LoopTypes'
  <2>1. IsFiniteSet(delivered')
    BY <1>1, FS_AddElement
  <2>2. /\ tally' = [failed |-> tally'.failed, known |-> tally'.known,
                      count |-> tally'.count, fresh |-> tally'.fresh]
        /\ tally'.failed \in BOOLEAN
    <3> DEFINE T == [failed : BOOLEAN, known : {tally.known, tally.known \union {c}},
                     count : {tally.count, Counted(tally.count, c.cell)},
                     fresh : {tally.fresh, Later(tally.fresh, c.at)}]
    <3>1. tally \in T
      BY <1>1
    <3>2. Counting(tally, c) \in T
      BY <1>1, <3>1 DEF Counting
    <3>3. Absorbed(tally, c) \in T
      BY <1>1, <3>1, <3>2 DEF Absorbed
    <3> QED BY <1>1, <3>3
  <2> QED BY <1>1, <2>1, <2>2 DEF LoopTypes
<1>3. LoopKeepsAll'
  <2> SUFFICES ASSUME Admitted(query)
               PROVE  LoopKeepsAll'
    BY <1>1 DEF LoopKeepsAll
  <2>1. /\ ~Contradictory /\ tally.known = mine
        /\ tally.count = HowMany(Relevant) /\ IsLatest(Relevant, tally.fresh)
    BY <1>1 DEF EventsInv, LoopKeepsAll
  <2>2. ASSUME tally' = tally, ~Contradictory', Relevant' = Relevant,
               {d \in delivered' : d.area = query.area} = mine
        PROVE  LoopKeepsAll'
    BY <1>1, <2>1, <2>2 DEF LoopKeepsAll
  <2>3. ASSUME tally'.failed, Contradictory'
        PROVE  LoopKeepsAll'
    BY <2>3 DEF LoopKeepsAll
  <2>4. CASE ~c.sound \/ (c.area = query.area /\ c.version # 1)
    <3>1. Contradictory'
      BY <1>1, <2>4 DEF Contradictory
    <3>2. tally'.failed
      BY <1>1, <2>4 DEF Absorbed
    <3> QED BY <2>3, <3>1, <3>2
  <2>5. CASE c.sound /\ c.area # query.area
    <3>1. tally' = tally
      BY <1>1, <2>5 DEF Absorbed
    <3>2. ~Contradictory'
      BY <1>1, <2>1, <2>5 DEF Contradictory
    <3>3. Relevant' = Relevant /\ {d \in delivered' : d.area = query.area} = mine
      BY <1>1, <2>5 DEF Relevant, InWindow
    <3> QED BY <2>2, <3>1, <3>2, <3>3
  <2>6. CASE c.sound /\ c.area = query.area /\ c.version = 1
    <3>1. tally' = IF twin = {} THEN Counting(tally, c)
                   ELSE [tally EXCEPT !.failed = c \notin twin]
      BY <1>1, <2>6 DEF Absorbed
    <3>2. CASE twin # {} /\ c \notin twin
      <4>1. PICK k \in mine : k.id = c.id /\ k # c
        BY <2>1, <3>2
      <4>2. Contradictory'
        BY <1>1, <2>6, <4>1 DEF Contradictory
      <4>3. tally'.failed
        BY <1>1, <3>1, <3>2
      <4> QED BY <2>3, <4>2, <4>3
    <3>3. CASE twin # {} /\ c \in twin
      <4>1. delivered' = delivered
        BY <1>1, <2>1, <3>3
      <4>2. tally' = tally
        BY <1>1, <3>1, <3>3
      <4>3. Contradictory' <=> Contradictory
        BY <1>1, <4>1 DEF Contradictory
      <4>4. Relevant' = Relevant
        BY <1>1, <4>1 DEF Relevant, InWindow
      <4> QED BY <2>1, <2>2, <4>1, <4>2, <4>3, <4>4
    <3>4. CASE twin = {}
      <4>1. c \notin mine /\ c \notin delivered
        BY <2>1, <2>6, <3>4
      <4>2. ~Contradictory'
        BY <1>1, <2>1, <2>6, <3>4 DEF Contradictory
      <4>3. {d \in delivered' : d.area = query.area} = mine \union {c}
        BY <1>1, <2>6
      <4>4. tally'.known = mine \union {c} /\ ~tally'.failed
        BY <1>1, <2>1, <3>1, <3>4 DEF Counting
      <4>5. Relevant \subseteq Copies /\ IsFiniteSet(Relevant) /\ c \notin Relevant
        BY <1>1, <4>1, FS_Subset DEF Relevant
      <4>6. CASE InWindow(c)
        <5>1. Relevant' = Relevant \union {c}
          BY <1>1, <2>6, <4>6 DEF Relevant, InWindow
        <5>2. /\ tally'.count = Counted(tally.count, c.cell)
              /\ tally'.fresh = Later(tally.fresh, c.at)
          BY <1>1, <3>1, <3>4, <4>6 DEF Counting
        <5>3. tally'.count = HowMany(Relevant')
          BY <2>1, <4>5, <5>1, <5>2, CountedOneMore
        <5>4. IsLatest(Relevant', tally'.fresh)
          <6>1. IsLatest(Relevant \union {c}, Later(tally.fresh, c.at))
            BY <2>1, <4>5, LaterIsLatest, EventsAssumption
          <6> QED BY <5>1, <5>2, <6>1
        <5> QED BY <1>1, <4>2, <4>3, <4>4, <5>3, <5>4 DEF LoopKeepsAll, IsLatest, HowMany, Cells
      <4>7. CASE ~InWindow(c)
        <5>1. Relevant' = Relevant
          BY <1>1, <4>7 DEF Relevant, InWindow
        <5>2. tally'.count = tally.count /\ tally'.fresh = tally.fresh
          BY <1>1, <3>1, <3>4, <4>7 DEF Counting
        <5> QED BY <1>1, <2>1, <4>2, <4>3, <4>4, <5>1, <5>2
                DEF LoopKeepsAll, IsLatest, HowMany, Cells
      <4> QED BY <4>6, <4>7
    <3> QED BY <3>2, <3>3, <3>4
  <2> QED BY <2>4, <2>5, <2>6
<1> QED BY <1>2, <1>3 DEF EventsInv

LEMMA InvAnswers == EventsInv => AnswersFromTheSetOfEvents
<1> SUFFICES ASSUME EventsInv, Admitted(query), ~tally.failed
             PROVE  /\ Rows = [k \in {c.cell : c \in Relevant} |->
                                 Row(Cardinality({c \in Relevant : c.cell = k}))]
                    /\ tally.fresh = IF Relevant = {} THEN NothingYet
                                     ELSE Max({c.at : c \in Relevant})
  BY DEF EventsInv, LoopKeepsAll, AnswersFromTheSetOfEvents
<1>1. tally.count = HowMany(Relevant) /\ IsLatest(Relevant, tally.fresh)
  BY DEF EventsInv, LoopKeepsAll
<1>2. Rows = [k \in {c.cell : c \in Relevant} |->
                Row(Cardinality({c \in Relevant : c.cell = k}))]
  BY <1>1 DEF Rows, HowMany, Cells
<1>3. ASSUME Relevant # {}
      PROVE  tally.fresh = Max({c.at : c \in Relevant})
  <2> DEFINE T == {c.at : c \in Relevant}
  <2>1. /\ tally.fresh \in T /\ \A y \in T : tally.fresh >= y
        /\ T \subseteq Nat
    BY <1>1, <1>3, EventsAssumption
    DEF IsLatest, Relevant, EventsInv, LoopTypes, EventsAssumption
  <2> HIDE DEF T
  <2>2. \A x \in T : (\A y \in T : x >= y) => x = tally.fresh
    <3> SUFFICES ASSUME NEW x \in T, \A y \in T : x >= y
                 PROVE  x = tally.fresh
      OBVIOUS
    <3>1. x >= tally.fresh /\ tally.fresh >= x
      BY <2>1
    <3>2. x \in Nat /\ tally.fresh \in Nat
      BY <2>1
    <3> QED BY <3>1, <3>2
  <2>3. Max(T) = tally.fresh
    BY <2>1, <2>2 DEF Max
  <2> QED BY <2>3 DEF T
<1> QED BY <1>1, <1>2, <1>3 DEF IsLatest

\* However often and in whatever order a feed delivers its events, and however
\* many there are, the answer is the one their set determines.
THEOREM AnswerIsOfTheSet == EventsSpec => []AnswersFromTheSetOfEvents
<1>1. EventsInv /\ [EventsNext]_eventVars => EventsInv'
  <2> SUFFICES ASSUME EventsInv, [EventsNext]_eventVars PROVE EventsInv'
    OBVIOUS
  <2>1. CASE EventsNext
    BY <2>1, AbsorbKeepsInv DEF EventsNext
  <2>2. CASE UNCHANGED eventVars
    <3>1. Relevant' = Relevant /\ (Contradictory' <=> Contradictory)
      BY <2>2 DEF eventVars, Relevant, InWindow, Contradictory
    <3> QED BY <2>2, <3>1 DEF eventVars, EventsInv, LoopTypes, LoopKeepsAll
  <2> QED BY <2>1, <2>2
<1> QED BY <1>1, EventsInitInv, InvAnswers, PTL DEF EventsSpec

=============================================================================
