----------------------------- MODULE ModelCall -----------------------------
(***************************************************************************)
(* One worker's question to the language model, attempt by attempt:        *)
(* GenerateContent inside Retry inside CircuitBreaker.Execute, where       *)
(* several workers share the breaker and one context.                      *)
(*                                                                         *)
(* The breaker is module CircuitBreaker.  What is shown here is what       *)
(* module Analyzer builds on: attempts, pauses and a cancelled context are *)
(* for the breaker one call with one outcome.                              *)
(*                                                                         *)
(* Abstractions.  Of an error only its kind counts: "retryable" or "fatal" *)
(* (IsRetryableError says which), "ctx" (that of the context, returned by  *)
(* Retry itself) or "open" (the breaker's).  A call that the context cuts  *)
(* off ends in a "fatal" error.  Time is in ticks.                         *)
(***************************************************************************)
EXTENDS Naturals, FiniteSets

CONSTANTS
  Workers,       \* goroutines that analyse mails, one after the other
  MaxFailures,   \* of the breaker
  ResetTimeout,  \* of the breaker, in ticks
  MaxAttempts,   \* RetryConfig, times in ticks
  InitialDelay,
  MaxDelay,
  Multiplier

ASSUME ModelCallAssumption ==
  /\ IsFiniteSet(Workers)
  /\ MaxFailures \in Nat \ {0}
  /\ ResetTimeout \in Nat
  /\ MaxAttempts \in Nat \ {0}
  /\ InitialDelay \in Nat
  /\ MaxDelay \in Nat
  /\ Multiplier \in Nat

VARIABLES
  calls, state, failureCount, elapsed, streak,  \* see CircuitBreaker
  at,         \* where each worker is
  attempt,    \* Retry: the loop's counter
  delay,      \* Retry: the next pause
  left,       \* Retry: what is left of time.After(delay)
  err,        \* Retry: lastErr, and what it returns
  resp,       \* ConvertEmail: "none" is nil
  apiErr,     \* ConvertEmail
  cancelled,  \* ctx is done
  misses      \* history: failed attempts since the breaker's last success or
              \* probe

breaker == <<calls, state, failureCount, elapsed, streak>>
retry   == <<attempt, delay, left, err>>
results == <<resp, apiErr>>
vars    == <<breaker, at, retry, results, cancelled, misses>>

\* FALSE, in the form TLC accepts for a variable: there is no moment after
\* which no call can fail, because a signal may end it.
Healthy == cancelled /\ ~cancelled

CB == INSTANCE CircuitBreaker WITH Callers <- Workers, pc <- calls, healthy <- Healthy

Kinds == {"retryable", "fatal"}

ModelCallTypeOK ==
  /\ CB!TypeOK
  /\ at \in [Workers -> {"free", "enter", "check", "request", "pause", "back", "judged"}]
  /\ attempt \in [Workers -> 0 .. MaxAttempts]
  /\ delay \in [Workers -> {InitialDelay} \cup 0 .. MaxDelay]
  /\ left \in [Workers -> 0 .. InitialDelay \cup 0 .. MaxDelay]
  /\ err \in [Workers -> Kinds \cup {"nil", "ctx"}]
  /\ resp \in [Workers -> {"none", "ok"}]
  /\ apiErr \in [Workers -> Kinds \cup {"nil", "ctx", "open"}]
  /\ cancelled \in BOOLEAN
  /\ misses \in Nat
  /\ \A w \in Workers :
       at[w] \in {"check", "request", "pause", "back"} <=> calls[w] = "running"

Init ==
  /\ calls = [w \in Workers |-> "idle"]
  /\ state = "closed"
  /\ failureCount = 0
  /\ elapsed = ResetTimeout
  /\ streak = 0
  /\ at = [w \in Workers |-> "free"]
  /\ attempt = [w \in Workers |-> 0]
  /\ delay = [w \in Workers |-> InitialDelay]
  /\ left = [w \in Workers |-> 0]
  /\ err = [w \in Workers |-> "nil"]
  /\ resp = [w \in Workers |-> "none"]
  /\ apiErr = [w \in Workers |-> "nil"]
  /\ cancelled = FALSE
  /\ misses = 0

Goto(w, p) == at' = [at EXCEPT ![w] = p]

-----------------------------------------------------------------------------
(***************************************************************************)
(* CircuitBreaker.Execute, up to the call of Retry.                        *)
(***************************************************************************)
\* The next mail, with a resp and an apiErr of its own.
ReadState(w) ==
  /\ at[w] \in {"free", "judged"}
  /\ Goto(w, "enter")
  /\ resp' = [resp EXCEPT ![w] = "none"]
  /\ apiErr' = [apiErr EXCEPT ![w] = "nil"]
  /\ UNCHANGED <<retry, cancelled, misses>>
  /\ CB!ReadState(w)

GoHalfOpen(w) ==
  /\ misses' = 0
  /\ UNCHANGED <<at, retry, results, cancelled>>
  /\ CB!GoHalfOpen(w)

\* Execute's error becomes apiErr.
Reject(w) ==
  /\ apiErr' = [apiErr EXCEPT ![w] = "open"]
  /\ Goto(w, "judged")
  /\ UNCHANGED <<retry, resp, cancelled, misses>>
  /\ CB!Reject(w)

Begin(w) ==
  /\ attempt' = [attempt EXCEPT ![w] = 0]
  /\ delay' = [delay EXCEPT ![w] = InitialDelay]
  /\ err' = [err EXCEPT ![w] = "nil"]
  /\ Goto(w, "check")
  /\ UNCHANGED <<left, results, cancelled, misses>>
  /\ CB!Begin(w)

-----------------------------------------------------------------------------
(***************************************************************************)
(* Retry.                                                                  *)
(***************************************************************************)
\* The head of the loop: it is over, ctx.Err() is returned, or the model is
\* asked.
CheckContext(w) ==
  /\ at[w] = "check"
  /\ \/ /\ attempt[w] = MaxAttempts
        /\ Goto(w, "back")
        /\ UNCHANGED err
     \/ /\ attempt[w] < MaxAttempts
        /\ cancelled
        /\ err' = [err EXCEPT ![w] = "ctx"]
        /\ Goto(w, "back")
     \/ /\ attempt[w] < MaxAttempts
        /\ ~cancelled
        /\ Goto(w, "request")
        /\ UNCHANGED err
  /\ UNCHANGED <<breaker, attempt, delay, left, results, cancelled, misses>>

\* GenerateContent answers; apiErr is set to nil.
Answered(w) ==
  /\ at[w] = "request"
  /\ resp' = [resp EXCEPT ![w] = "ok"]
  /\ apiErr' = [apiErr EXCEPT ![w] = "nil"]
  /\ err' = [err EXCEPT ![w] = "nil"]
  /\ Goto(w, "back")
  /\ UNCHANGED <<breaker, attempt, delay, left, cancelled, misses>>

\* GenerateContent fails, without a response.  The closure stores only an
\* error that is not retryable in apiErr, and returns either to Retry, which
\* pauses after every attempt but the last.
Failed(w, kind) ==
  /\ at[w] = "request"
  /\ resp' = [resp EXCEPT ![w] = "none"]
  /\ apiErr' = IF kind = "fatal" THEN [apiErr EXCEPT ![w] = kind] ELSE apiErr
  /\ err' = [err EXCEPT ![w] = kind]
  /\ misses' = misses + 1
  /\ IF attempt[w] < MaxAttempts - 1
       THEN /\ left' = [left EXCEPT ![w] = delay[w]]
            /\ Goto(w, "pause")
            /\ UNCHANGED attempt
       ELSE /\ attempt' = [attempt EXCEPT ![w] = @ + 1]
            /\ Goto(w, "check")
            /\ UNCHANGED left
  /\ UNCHANGED <<breaker, delay, cancelled>>

\* Mutants: the pause waits for the context only; the loop does not count.
Wake_ContextOnly(w) ==
  /\ at[w] = "pause"
  /\ cancelled
  /\ attempt' = [attempt EXCEPT ![w] = @ + 1]
  /\ delay' = [delay EXCEPT ![w] = MaxDelay]
  /\ Goto(w, "check")
  /\ UNCHANGED <<breaker, left, err, results, cancelled, misses>>

Wake_NoCount(w) ==
  /\ at[w] = "pause"
  /\ left[w] = 0
  /\ delay' = [delay EXCEPT ![w] = MaxDelay]
  /\ Goto(w, "check")
  /\ UNCHANGED <<breaker, attempt, left, err, results, cancelled, misses>>

\* The pause is over; the next one is longer.
Wake(w) ==
  /\ at[w] = "pause"
  /\ left[w] = 0
  /\ attempt' = [attempt EXCEPT ![w] = @ + 1]
  /\ delay' = [delay EXCEPT ![w] = IF @ * Multiplier > MaxDelay THEN MaxDelay
                                                               ELSE @ * Multiplier]
  /\ Goto(w, "check")
  /\ UNCHANGED <<breaker, left, err, results, cancelled, misses>>

\* ctx is done during the pause; at its end the select may see either.
Interrupted(w) ==
  /\ at[w] = "pause"
  /\ cancelled
  /\ err' = [err EXCEPT ![w] = "ctx"]
  /\ Goto(w, "back")
  /\ UNCHANGED <<breaker, attempt, delay, left, results, cancelled, misses>>

-----------------------------------------------------------------------------
(***************************************************************************)
(* The end of Execute, and what ConvertEmail makes of its error.           *)
(***************************************************************************)
Succeed(w) ==
  /\ at[w] = "back"
  /\ err[w] = "nil"
  /\ misses' = 0
  /\ Goto(w, "judged")
  /\ UNCHANGED <<retry, results, cancelled>>
  /\ CB!Succeed(w)

\* Mutants: an error of the context is no failure to the breaker, and is not
\* recorded; apiErr is left to the closure.
Fail_NotContext(w) ==
  /\ at[w] = "back"
  /\ err[w] # "nil"
  /\ apiErr' = [apiErr EXCEPT ![w] = err[w]]
  /\ Goto(w, "judged")
  /\ UNCHANGED <<retry, resp, cancelled, misses>>
  /\ IF err[w] = "ctx"
       THEN /\ calls' = [calls EXCEPT ![w] = "idle"]
            /\ UNCHANGED <<state, failureCount, elapsed, streak>>
       ELSE CB!Fail(w)

Fail_KeepApiErr(w) ==
  /\ at[w] = "back"
  /\ err[w] # "nil"
  /\ Goto(w, "judged")
  /\ UNCHANGED <<retry, results, cancelled, misses>>
  /\ CB!Fail(w)

Fail(w) ==
  /\ at[w] = "back"
  /\ err[w] # "nil"
  /\ apiErr' = [apiErr EXCEPT ![w] = err[w]]
  /\ Goto(w, "judged")
  /\ UNCHANGED <<retry, resp, cancelled, misses>>
  /\ CB!Fail(w)

Tick ==
  /\ elapsed < ResetTimeout \/ \E w \in Workers : left[w] > 0
  /\ elapsed' = IF elapsed < ResetTimeout THEN elapsed + 1 ELSE elapsed
  /\ left' = [w \in Workers |-> IF left[w] > 0 THEN left[w] - 1 ELSE 0]
  /\ UNCHANGED <<calls, state, failureCount, streak, at, attempt, delay, err, results,
                 cancelled, misses>>

\* A signal.
Cancel ==
  /\ ~cancelled
  /\ cancelled' = TRUE
  /\ UNCHANGED <<breaker, at, retry, results, misses>>

Call(w) ==
  \/ ReadState(w)
  \/ GoHalfOpen(w)
  \/ Reject(w)
  \/ Begin(w)
  \/ CheckContext(w)
  \/ Answered(w)
  \/ \E kind \in Kinds : Failed(w, kind)
  \/ Wake(w)
  \/ Interrupted(w)
  \/ Succeed(w)
  \/ Fail(w)

Next == Tick \/ Cancel \/ \E w \in Workers : Call(w)

Spec == Init /\ [][Next]_vars

\* Goroutines run, the model's HTTP client has a timeout, time passes.
LiveSpec == Spec /\ WF_vars(Tick) /\ \A w \in Workers : WF_vars(Call(w))

-----------------------------------------------------------------------------
(***************************************************************************)
(* Properties.                                                             *)
(***************************************************************************)
\* When Execute has returned, either there is an error to report or the
\* response that is read next; nothing is left over from an attempt before
\* the last (mistral.go:159-184, 218).
ErrorOrResponse ==
  \A w \in Workers : at[w] = "judged" => (apiErr[w] = "nil" <=> resp[w] = "ok")

\* The breaker sees no attempts, only calls with one outcome each, also when
\* the context ends a call between two attempts (mistral.go:162-163,
\* circuit_breaker.go:68-90).
CallsAreAtomic == CB!Spec

\* However the retries of the workers overlap, the model is asked in vain only
\* so often before the breaker opens (retry.go:32-59,
\* circuit_breaker.go:73-79).
FruitlessAttemptsBounded ==
  state # "open" => misses <= MaxAttempts * (MaxFailures - 1 + Cardinality(Workers))

\* What makes it inductive: the attempts that the calls in flight have behind
\* them.  A call that ends without a success turns its own, at most
\* MaxAttempts of them, into one failure of the breaker.
Behind(w, k) ==
  /\ calls[w] = "running"
  /\ k < attempt[w] \/ (k = attempt[w] /\ at[w] \in {"pause", "back"})

Spent == {t \in Workers \X (0 .. MaxAttempts - 1) : Behind(t[1], t[2])}

MissesPaid == misses <= MaxAttempts * failureCount + Cardinality(Spent)

\* Retry gives up: every call ends, whatever the errors and the context
\* (retry.go:32-61).
EveryCallEnds == \A w \in Workers : calls[w] = "running" ~> calls[w] # "running"

\* Why it does: the most steps a call can still take, its pauses aside.  A
\* full attempt is three of them.
Progress(w) == CASE at[w] = "check"   -> 0
                 [] at[w] = "request" -> 1
                 [] at[w] = "pause"   -> 2
                 [] OTHER             -> 0

StepsLeft(w) == IF at[w] \in {"check", "request", "pause"}
                  THEN 3 * (MaxAttempts - attempt[w]) - Progress(w) + 2
                  ELSE 1

\* Whatever step is taken, by whomever, a running call that goes on has come
\* closer to its end or stays where it is, its pause no longer than before:
\* nobody but its own worker moves it, and none of its steps goes back.
CallAdvances ==
  [][\A w \in Workers : calls[w] = "running" /\ calls'[w] = "running" =>
       \/ StepsLeft(w)' < StepsLeft(w)
       \/ UNCHANGED <<at[w], attempt[w]>> /\ left'[w] <= left[w]]_vars

\* A call has never more ahead of it than MaxAttempts attempts and their end.
CallsAreShort ==
  \A w \in Workers : calls[w] = "running" => StepsLeft(w) \in 1 .. 3 * MaxAttempts + 2
=============================================================================
