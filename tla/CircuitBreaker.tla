--------------------------- MODULE CircuitBreaker ---------------------------
(***************************************************************************)
(* pkg/resilience/circuit_breaker.go: one CircuitBreaker shared by the     *)
(* goroutines that call Execute on it.                                     *)
(*                                                                         *)
(* Execute locks the mutex up to three times: to read the state, to leave  *)
(* the open state, and to record the result of fn.  Each critical section  *)
(* is a step, so is the start of fn; between them the other callers may    *)
(* do anything.  lastFailTime is kept as the time elapsed since, which is  *)
(* all that is ever asked of it, and stops growing at ResetTimeout.        *)
(***************************************************************************)
EXTENDS Naturals, FiniteSets

CONSTANTS
  Callers,        \* goroutines that call Execute, each one again and again
  MaxFailures,    \* maxFailures
  ResetTimeout    \* resetTimeout, in ticks

ASSUME BreakerAssumption ==
  /\ MaxFailures \in Nat \ {0}
  /\ ResetTimeout \in Nat
  /\ IsFiniteSet(Callers)

VARIABLES
  state,         \* cb.state
  failureCount,  \* cb.failureCount
  elapsed,       \* time.Since(cb.lastFailTime), up to ResetTimeout
  pc,            \* where each caller is in Execute
  healthy,       \* from now on the protected service answers every call
  streak         \* history: failures since the last success, up to MaxFailures

vars == <<state, failureCount, elapsed, pc, healthy, streak>>

TypeOK ==
  /\ state \in {"closed", "open", "halfOpen"}
  /\ failureCount \in Nat
  /\ elapsed \in 0 .. ResetTimeout
  /\ pc \in [Callers -> {"idle", "wasOpen", "admitted", "running"}]
  /\ healthy \in BOOLEAN
  /\ streak \in 0 .. MaxFailures

\* NewCircuitBreaker; a zero lastFailTime lies arbitrarily far back.
Init ==
  /\ state = "closed"
  /\ failureCount = 0
  /\ elapsed = ResetTimeout
  /\ pc = [c \in Callers |-> "idle"]
  /\ healthy = FALSE
  /\ streak = 0

Goto(c, p) == pc' = [pc EXCEPT ![c] = p]

\* cb.mu.RLock: the state is read once, and acted upon after the unlock.
ReadState(c) ==
  /\ pc[c] = "idle"
  /\ Goto(c, IF state = "open" THEN "wasOpen" ELSE "admitted")
  /\ UNCHANGED <<state, failureCount, elapsed, healthy, streak>>

\* Mutant: cb.failureCount = 0 is missing.
GoHalfOpen_KeepCount(c) ==
  /\ pc[c] = "wasOpen"
  /\ elapsed >= ResetTimeout
  /\ state' = "halfOpen"
  /\ Goto(c, "admitted")
  /\ UNCHANGED <<failureCount, elapsed, healthy, streak>>

\* case StateOpen, the timeout has passed.  Only the time is checked again
\* under the lock, not the state.
GoHalfOpen(c) ==
  /\ pc[c] = "wasOpen"
  /\ elapsed >= ResetTimeout
  /\ state' = "halfOpen"
  /\ failureCount' = 0
  /\ Goto(c, "admitted")
  /\ UNCHANGED <<elapsed, healthy, streak>>

\* case StateOpen, too early: "circuit breaker is open".
Reject(c) ==
  /\ pc[c] = "wasOpen"
  /\ elapsed < ResetTimeout
  /\ Goto(c, "idle")
  /\ UNCHANGED <<state, failureCount, elapsed, healthy, streak>>

\* err := fn() starts.
Begin(c) ==
  /\ pc[c] = "admitted"
  /\ Goto(c, "running")
  /\ UNCHANGED <<state, failureCount, elapsed, healthy, streak>>

Capped(n, max) == IF n < max THEN n ELSE max

\* Mutant: > for >=.
Fail_LateTrip(c) ==
  /\ pc[c] = "running"
  /\ ~healthy
  /\ failureCount' = failureCount + 1
  /\ elapsed' = 0
  /\ state' = IF failureCount + 1 > MaxFailures THEN "open" ELSE state
  /\ streak' = Capped(streak + 1, MaxFailures)
  /\ Goto(c, "idle")
  /\ UNCHANGED healthy

\* fn returned an error.
Fail(c) ==
  /\ pc[c] = "running"
  /\ ~healthy
  /\ failureCount' = failureCount + 1
  /\ elapsed' = 0
  /\ state' = IF failureCount + 1 >= MaxFailures THEN "open" ELSE state
  /\ streak' = Capped(streak + 1, MaxFailures)
  /\ Goto(c, "idle")
  /\ UNCHANGED healthy

\* Mutants: the count survives a success; any success closes the breaker; a
\* half-open breaker stays so.
Succeed_KeepCount(c) ==
  /\ pc[c] = "running"
  /\ state' = IF state = "halfOpen" THEN "closed" ELSE state
  /\ streak' = 0
  /\ Goto(c, "idle")
  /\ UNCHANGED <<failureCount, elapsed, healthy>>

Succeed_CloseAlways(c) ==
  /\ pc[c] = "running"
  /\ failureCount' = 0
  /\ state' = "closed"
  /\ streak' = 0
  /\ Goto(c, "idle")
  /\ UNCHANGED <<elapsed, healthy>>

Succeed_StayHalfOpen(c) ==
  /\ pc[c] = "running"
  /\ failureCount' = 0
  /\ streak' = 0
  /\ Goto(c, "idle")
  /\ UNCHANGED <<state, elapsed, healthy>>

\* fn returned nil: the count is reset in every state, open included.
Succeed(c) ==
  /\ pc[c] = "running"
  /\ failureCount' = 0
  /\ state' = IF state = "halfOpen" THEN "closed" ELSE state
  /\ streak' = 0
  /\ Goto(c, "idle")
  /\ UNCHANGED <<elapsed, healthy>>

\* Time passes, as far as the comparison with resetTimeout can see it.
Tick ==
  /\ elapsed < ResetTimeout
  /\ elapsed' = elapsed + 1
  /\ UNCHANGED <<state, failureCount, pc, healthy, streak>>

\* The protected service (the LLM API) is back for good.
ServiceRecovers ==
  /\ ~healthy
  /\ healthy' = TRUE
  /\ UNCHANGED <<state, failureCount, elapsed, pc, streak>>

Execute(c) ==
  \/ ReadState(c)
  \/ GoHalfOpen(c)
  \/ Reject(c)
  \/ Begin(c)
  \/ Fail(c)
  \/ Succeed(c)

Next == Tick \/ ServiceRecovers \/ \E c \in Callers : Execute(c)

Spec == Init /\ [][Next]_vars

\* Time passes, goroutines run, fn returns (its HTTP client has a timeout),
\* and the callers come back as long as there is mail to analyse.
LiveSpec == Spec /\ WF_vars(Tick) /\ \A c \in Callers : WF_vars(Execute(c))

-----------------------------------------------------------------------------
\* The breaker is open whenever the limit is reached: no order of stale
\* reads, late results and half-open probes lets failureCount reach
\* maxFailures with calls still admitted (circuit_breaker.go:73-87).
OpenAtLimit == state # "open" => failureCount < MaxFailures

\* How far failureCount can overshoot: each further failure after the trip
\* comes from a call that was in flight (circuit_breaker.go:68-79).
InFlight == {c \in Callers : pc[c] \in {"admitted", "running"}}

CountBounded ==
  /\ state = "open" => failureCount + Cardinality(InFlight) < MaxFailures + Cardinality(Callers)
  /\ failureCount < MaxFailures + Cardinality(Callers)

\* An open breaker stays open until the timeout has passed since the last
\* failure; a call that started before the trip and succeeds after it does
\* not close it (circuit_breaker.go:48-56, 83-87).
OpenHolds == [][state = "open" /\ state' # "open" => elapsed >= ResetTimeout]_vars

\* The breaker never trips early: it opens only after maxFailures failures
\* with no success in between, also when the calls overlap
\* (circuit_breaker.go:73-84; "5 in a row", mistral.go:70).
TripsOnStreakOnly == [][state # "open" /\ state' = "open" => streak' = MaxFailures]_vars

\* Once the service answers again the breaker closes for good, even if
\* callers act on an open state they read long ago (circuit_breaker.go:44-56).
ClosesAfterRecovery == healthy ~> [](state = "closed")

\* The callers that read "open" and have not acted on it.
StaleReaders == {c \in Callers : pc[c] = "wasOpen"}

\* The breaker has got over the outage.
Recovered == healthy /\ state = "closed" /\ StaleReaders = {}

\* Why it closes for good: with the service back nothing opens the breaker
\* any more, the timeout runs to its end, and only a caller with a stale read
\* takes a closed breaker back to half-open, of which each is the last of its
\* kind (circuit_breaker.go:44-56, 68-90).
NoWayBack ==
  [][healthy =>
       /\ elapsed <= elapsed'
       /\ state # "open" =>
            /\ state' # "open"
            /\ StaleReaders' \subseteq StaleReaders
            /\ state = "closed" /\ state' # "closed" => StaleReaders' # StaleReaders]_vars

RecoveredForGood == [](Recovered => []Recovered)

\* What the only use of the breaker says: at most maxFailures errors in a
\* row, then resetTimeout of waiting (mistral.go:70).
WaitsAfterStreak ==
  [][\A c \in Callers : Begin(c) => streak < MaxFailures \/ elapsed >= ResetTimeout]_vars
=============================================================================
