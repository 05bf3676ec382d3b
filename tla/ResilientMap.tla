---------------------------- MODULE ResilientMap ----------------------------
(***************************************************************************)
(* ResilientMapAdapter (packages/vietmap-client/src/                       *)
(* resilient-map.adapter.ts) for one provider API: cache, circuit breaker, *)
(* retries and a deadline around a provider that may be slow or fail.      *)
(* APIs share no state, so one is modelled.                                *)
(*                                                                         *)
(* Calls run concurrently on one event loop: a call is one action up to    *)
(* its await and one for each way the awaited attempt ends.  Times are     *)
(* kept as what is left of them, and ages as what has passed, so that the  *)
(* clock needs no bound; an entry of age Oldest is as good as none.        *)
(***************************************************************************)
EXTENDS Naturals

CONSTANTS
  Callers,        \* requests that can be under way together
  Inputs,         \* sanitized cache keys
  CacheTtl, MaxStale,                   \* cacheTtlMs, maxStaleMs
  FailureThreshold, ResetTimeout,       \* failureThreshold, resetTimeoutMs
  MaxAttempts,                          \* maxAttempts
  CallTimeout,                          \* ctx.timeoutMs
  MaxProviderFaults,  \* bound: attempts the provider fails
  NoCall

\* What the constructor insists on.
ASSUME ResilienceAssumption ==
  /\ CacheTtl \in Nat /\ MaxStale \in Nat
  /\ FailureThreshold \in Nat \ {0} /\ ResetTimeout \in Nat \ {0}
  /\ MaxAttempts \in Nat \ {0}
  /\ CallTimeout \in Nat \ {0}
  /\ MaxProviderFaults \in Nat
  /\ NoCall \notin [input : Inputs, entry : Nat, left : Nat, attempt : Nat]

VARIABLES
  circuit,        \* CircuitBreaker.state
  cached,         \* cached[i]: age of the entry of i
  calls,          \* calls[r]: the call r awaits, or NoCall
  served,         \* the last answer given, with the age of its value
  providerFaults

providerVars == <<circuit, cached, calls, served, providerFaults>>

Oldest == CacheTtl + MaxStale
Smaller(a, b) == IF a <= b THEN a ELSE b

Closed(failures) == [status |-> "CLOSED", count |-> failures]
Open(wait) == [status |-> "OPEN", count |-> wait]
HalfOpen == [status |-> "HALF_OPEN", count |-> 0]
Served(status, age) == [status |-> status, age |-> age]

\* beforeCall throws CIRCUIT_OPEN.
Refused ==
  circuit.status = "HALF_OPEN" \/ (circuit.status = "OPEN" /\ circuit.count > 0)

\* beforeCall: the first call after the pause is the probe.
BeforeCall == IF circuit.status = "OPEN" THEN HalfOpen ELSE circuit

\* Deviation: a failed probe does not open the circuit again.
AfterFailureOfCall ==
  IF circuit.status # "CLOSED" THEN circuit
  ELSE IF circuit.count + 1 >= FailureThreshold THEN Open(ResetTimeout)
       ELSE Closed(circuit.count + 1)

\* failure: of the probe, or one more while closed.
AfterFailure ==
  IF circuit.status = "OPEN" THEN circuit
  ELSE IF circuit.status = "HALF_OPEN" \/ circuit.count + 1 >= FailureThreshold
       THEN Open(ResetTimeout)
       ELSE Closed(circuit.count + 1)

-----------------------------------------------------------------------------
ProviderInit ==
  /\ circuit = Closed(0)
  /\ cached = [i \in Inputs |-> Oldest]
  /\ calls = [r \in Callers |-> NoCall]
  /\ served = Served("NONE", 0)
  /\ providerFaults = 0

\* execute answers HIT from an entry that is fresh.
HitCache(r, i) ==
  /\ calls[r] = NoCall
  /\ cached[i] < CacheTtl
  /\ served' = Served("HIT", cached[i])
  /\ UNCHANGED <<circuit, cached, calls, providerFaults>>

\* Deviation: staleness is judged by the time the call started.
UsableAtStart(entry, waited) == entry - waited < Oldest

\* The entry looked up when the call started is not too stale now.
Usable(entry, waited) == entry < Oldest

FallBack(entry, waited) ==
  served' = IF Usable(entry, waited) THEN Served("STALE", entry)
            ELSE Served("ERROR", 0)

\* execute while the circuit refuses calls: the provider is not asked.
RefuseCall(r, i) ==
  /\ calls[r] = NoCall
  /\ cached[i] >= CacheTtl
  /\ Refused
  /\ FallBack(cached[i], 0)
  /\ UNCHANGED <<circuit, cached, calls, providerFaults>>

\* execute up to the await of its first attempt; the entry is looked up once.
BeginCall(r, i) ==
  /\ calls[r] = NoCall
  /\ cached[i] >= CacheTtl
  /\ ~Refused
  /\ circuit' = BeforeCall
  /\ calls' = [calls EXCEPT ![r] =
                 [input |-> i, entry |-> cached[i], left |-> CallTimeout,
                  attempt |-> 1]]
  /\ UNCHANGED <<cached, served, providerFaults>>

\* The attempt resolves: success() whatever the circuit has come to since.
Succeed(r) ==
  /\ calls[r] # NoCall
  /\ circuit' = Closed(0)
  /\ cached' = [cached EXCEPT ![calls[r].input] = 0]
  /\ served' = Served("MISS", 0)
  /\ calls' = [calls EXCEPT ![r] = NoCall]
  /\ UNCHANGED providerFaults

\* attempt: a retryable failure with attempts and time left.
Retry(r) ==
  /\ calls[r] # NoCall
  /\ calls[r].attempt < MaxAttempts
  /\ calls[r].left > 0
  /\ providerFaults < MaxProviderFaults
  /\ providerFaults' = providerFaults + 1
  /\ calls' = [calls EXCEPT ![r].attempt = @ + 1]
  /\ UNCHANGED <<circuit, cached, served>>

\* The attempts end in an error: not retryable, the last one, or TIMEOUT.
Fail(r) ==
  /\ calls[r] # NoCall
  /\ providerFaults < MaxProviderFaults
  /\ providerFaults' = providerFaults + 1
  /\ circuit' = AfterFailure
  /\ FallBack(calls[r].entry, CallTimeout - calls[r].left)
  /\ calls' = [calls EXCEPT ![r] = NoCall]
  /\ UNCHANGED cached

\* Time passes; withTimeout lets no call outlast its deadline.
PassTime ==
  /\ \A r \in Callers : calls[r] # NoCall => calls[r].left > 0
  /\ circuit' = IF circuit.status = "OPEN" /\ circuit.count > 0
                THEN Open(circuit.count - 1) ELSE circuit
  /\ cached' = [i \in Inputs |-> Smaller(cached[i] + 1, Oldest)]
  /\ calls' = [r \in Callers |->
                 IF calls[r] = NoCall THEN NoCall
                 ELSE [calls[r] EXCEPT !.entry = @ + 1, !.left = @ - 1]]
  /\ UNCHANGED <<served, providerFaults>>

Ask(r) == \E i \in Inputs : HitCache(r, i) \/ RefuseCall(r, i) \/ BeginCall(r, i)
Attempt(r) == Succeed(r) \/ Retry(r) \/ Fail(r)

ProviderNext == (\E r \in Callers : Ask(r) \/ Attempt(r)) \/ PassTime

ProviderSpec == ProviderInit /\ [][ProviderNext]_providerVars

-----------------------------------------------------------------------------
CircuitState ==
  [status : {"CLOSED"}, count : 0..FailureThreshold - 1]
    \union [status : {"OPEN"}, count : 0..ResetTimeout] \union {HalfOpen}
AwaitedCall ==
  [input : Inputs, entry : 0..Oldest + CallTimeout, left : 0..CallTimeout,
   attempt : 1..MaxAttempts]

\* The adapter's fields hold what their types say, within the options.
ProviderTypeOK ==
  /\ circuit \in CircuitState
  /\ cached \in [Inputs -> 0..Oldest]
  /\ calls \in [Callers -> AwaitedCall \union {NoCall}]
  /\ providerFaults \in 0..MaxProviderFaults

\* A half-open circuit refuses every call, so only a call that is under way
\* can take it out of that state: there is always one.  Stragglers from
\* before it opened may end first; none leaves it half open behind the probe.
HalfOpenHasProbe ==
  circuit.status = "HALF_OPEN" => \E r \in Callers : calls[r] # NoCall

\* No value older than cacheTtlMs + maxStaleMs is given out, although the
\* entry is looked up before the await and used after it.
NeverTooOld == served.status \in {"HIT", "STALE"} => served.age < Oldest

\* Once the provider has stopped failing and calls keep coming, a circuit
\* that is open does close.
CircuitRecovers == (circuit.status # "CLOSED") ~> (circuit.status = "CLOSED")

=============================================================================
