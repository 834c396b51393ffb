-------------------------- MODULE ModelCall_proofs --------------------------
(***************************************************************************)
(* Proofs about ModelCall, for any number of workers and attempts, any     *)
(* delays and any limit of the breaker.                                    *)
(***************************************************************************)
EXTENDS ModelCall, FiniteSetTheorems, TLAPS

\* The breaker's theorems, under the substitution that defines CB.
BP == INSTANCE CircuitBreaker_proofs
        WITH Callers <- Workers, pc <- calls, healthy <- Healthy

LEMMA NeverHealthy == ~Healthy /\ (Healthy' = Healthy)
BY DEF Healthy

-----------------------------------------------------------------------------
(***************************************************************************)
(* The refinement.                                                         *)
(***************************************************************************)
LEMMA InitIsCB == Init => CB!Init
BY NeverHealthy DEF Init, CB!Init

LEMMA StepIsCB == [Next]_vars => [CB!Next]_(CB!vars)
<1> SUFFICES ASSUME [Next]_vars PROVE [CB!Next]_(CB!vars)
  OBVIOUS
<1> USE NeverHealthy
<1>1. CASE Tick
  <2>1. CASE elapsed < ResetTimeout
    <3>1. CB!Tick
      BY <1>1, <2>1 DEF Tick, CB!Tick
    <3> QED
      BY <3>1 DEF CB!Next
  <2>2. CASE ~(elapsed < ResetTimeout)
    BY <1>1, <2>2 DEF Tick, CB!vars
  <2> QED
    BY <2>1, <2>2
<1>2. CASE Cancel
  BY <1>2 DEF Cancel, breaker, CB!vars
<1>3. ASSUME NEW w \in Workers, Call(w) PROVE [CB!Next]_(CB!vars)
  <2>1. CASE ReadState(w) \/ GoHalfOpen(w) \/ Reject(w) \/ Begin(w) \/ Succeed(w) \/ Fail(w)
    <3>1. CB!Execute(w)
      BY <2>1 DEF ReadState, GoHalfOpen, Reject, Begin, Succeed, Fail, CB!Execute
    <3> QED
      BY <3>1 DEF CB!Next
  <2>2. CASE \/ CheckContext(w) \/ Answered(w) \/ Wake(w) \/ Interrupted(w)
             \/ \E kind \in Kinds : Failed(w, kind)
    <3>1. UNCHANGED breaker
      BY <2>2 DEF CheckContext, Answered, Wake, Interrupted, Failed
    <3> QED
      BY <3>1 DEF breaker, CB!vars
  <2> QED
    BY <1>3, <2>1, <2>2 DEF Call
<1>4. CASE UNCHANGED vars
  BY <1>4 DEF vars, breaker, CB!vars
<1> QED
  BY <1>1, <1>2, <1>3, <1>4 DEF Next

\* For the breaker a call is one step of its beginning and one of its end,
\* however many attempts and pauses Retry makes of it (mistral.go:162-163,
\* circuit_breaker.go:68-90).
THEOREM AttemptsAreInvisible == Spec => CallsAreAtomic
BY InitIsCB, StepIsCB, PTL DEF Spec, CallsAreAtomic, CB!Spec

-----------------------------------------------------------------------------
(***************************************************************************)
(* What was proved of the breaker holds of the breaker under the retries.  *)
(* CB and BP are one module under one substitution.                        *)
(***************************************************************************)
LEMMA BreakerSubstitution == BP!BreakerAssumption
BY ModelCallAssumption DEF BP!BreakerAssumption, BP!IsFiniteSet, IsFiniteSet

LEMMA SameInit == CB!Init => BP!Init
BY DEF CB!Init, BP!Init

LEMMA SameVars == CB!vars = BP!vars /\ CB!vars' = BP!vars'
BY DEF CB!vars, BP!vars

LEMMA SameExecute == ASSUME NEW w PROVE CB!Execute(w) <=> BP!Execute(w)
<1> USE DEF CB!Goto, BP!Goto
<1>1. /\ CB!ReadState(w) <=> BP!ReadState(w)
      /\ CB!GoHalfOpen(w) <=> BP!GoHalfOpen(w)
      /\ CB!Reject(w) <=> BP!Reject(w)
      /\ CB!Begin(w) <=> BP!Begin(w)
  BY DEF CB!ReadState, BP!ReadState, CB!GoHalfOpen, BP!GoHalfOpen, CB!Reject, BP!Reject,
         CB!Begin, BP!Begin
<1>2. CB!Fail(w) <=> BP!Fail(w)
  BY DEF CB!Fail, BP!Fail, CB!Capped, BP!Capped
<1>3. CB!Succeed(w) <=> BP!Succeed(w)
  BY DEF CB!Succeed, BP!Succeed
<1> QED
  BY <1>1, <1>2, <1>3 DEF CB!Execute, BP!Execute

LEMMA SameStep == [CB!Next]_(CB!vars) <=> [BP!Next]_(BP!vars)
<1>1. (CB!Tick <=> BP!Tick) /\ (CB!ServiceRecovers <=> BP!ServiceRecovers)
  BY DEF CB!Tick, BP!Tick, CB!ServiceRecovers, BP!ServiceRecovers
<1>2. CB!Next <=> BP!Next
  BY <1>1, SameExecute DEF CB!Next, BP!Next
<1> QED
  BY <1>2, SameVars

LEMMA ImplementsBP == Spec => BP!Spec
<1>1. Init => BP!Init
  BY InitIsCB, SameInit
<1>2. [Next]_vars => [BP!Next]_(BP!vars)
  BY StepIsCB, SameStep
<1> QED
  BY <1>1, <1>2, PTL DEF Spec, BP!Spec

\* Under calls of many attempts, which a signal may cut short, the breaker
\* still opens at its limit and overshoots it by less than the number of
\* workers (circuit_breaker.go:68-87, mistral.go:162-163).
THEOREM LimitHoldsUnderRetry == Spec => [](CB!OpenAtLimit /\ CB!CountBounded)
<1>1. BP!OpenAtLimit <=> CB!OpenAtLimit
  BY DEF BP!OpenAtLimit, CB!OpenAtLimit
<1>2. BP!CountBounded <=> CB!CountBounded
  BY DEF BP!CountBounded, CB!CountBounded, BP!InFlight, CB!InFlight,
         BP!Cardinality, CB!Cardinality
<1>3. Spec => []BP!OpenAtLimit
  BY BreakerSubstitution, ImplementsBP, BP!OpensAtLimit
<1>4. Spec => []BP!CountBounded
  BY BreakerSubstitution, ImplementsBP, BP!Overshoot
<1> QED
  BY <1>1, <1>2, <1>3, <1>4, PTL

\* Nor do retries make it open early, after fewer than maxFailures failed
\* calls in a row, or leave the open state before the timeout
\* (circuit_breaker.go:48-56, 73-87).
THEOREM BreakerStepsUnderRetry == Spec => CB!TripsOnStreakOnly /\ CB!OpenHolds
<1>1. Spec => BP!TripsOnStreakOnly
  BY BreakerSubstitution, ImplementsBP, BP!TripsOnlyOnStreak
<1>2. Spec => BP!OpenHolds
  BY BreakerSubstitution, ImplementsBP, BP!OpenUntilTimeout
<1>3. BP!TripsOnStreakOnly => CB!TripsOnStreakOnly
  BY DEF BP!TripsOnStreakOnly, CB!TripsOnStreakOnly, BP!vars, CB!vars
<1>4. BP!OpenHolds => CB!OpenHolds
  BY DEF BP!OpenHolds, CB!OpenHolds, BP!vars, CB!vars
<1> QED
  BY <1>1, <1>2, <1>3, <1>4

-----------------------------------------------------------------------------
(***************************************************************************)
(* Types.                                                                  *)
(***************************************************************************)
\* The counter of a loop that goes on has not reached its end.
LoopInv ==
  \A w \in Workers :
    /\ at[w] \in {"request", "pause"} => attempt[w] < MaxAttempts
    /\ at[w] = "enter" <=> calls[w] \in {"wasOpen", "admitted"}

LEMMA InitTypes == Init => ModelCallTypeOK /\ LoopInv
<1> SUFFICES ASSUME Init PROVE ModelCallTypeOK /\ LoopInv
  OBVIOUS
<1> USE ModelCallAssumption, NeverHealthy DEF Init
<1>1. CB!TypeOK
  <2>1. calls \in [Workers -> {"idle", "wasOpen", "admitted", "running"}]
    OBVIOUS
  <2>2. elapsed \in 0 .. ResetTimeout /\ streak \in 0 .. MaxFailures
    OBVIOUS
  <2>3. Healthy \in BOOLEAN
    BY DEF Healthy
  <2> QED
    BY <2>1, <2>2, <2>3 DEF CB!TypeOK
<1>2. ModelCallTypeOK
  <2>1. attempt \in [Workers -> 0 .. MaxAttempts]
    OBVIOUS
  <2>2. left \in [Workers -> 0 .. InitialDelay \cup 0 .. MaxDelay]
    OBVIOUS
  <2>3. \A w \in Workers : at[w] = "free" /\ calls[w] = "idle"
    OBVIOUS
  <2> QED
    BY <1>1, <2>1, <2>2, <2>3 DEF ModelCallTypeOK
<1>3. LoopInv
  BY DEF LoopInv
<1> QED
  BY <1>2, <1>3

LEMMA BreakerTypes == ModelCallTypeOK /\ [Next]_vars => CB!TypeOK'
<1> SUFFICES ASSUME ModelCallTypeOK, [Next]_vars PROVE CB!TypeOK'
  OBVIOUS
<1> USE ModelCallAssumption, NeverHealthy DEF CB!TypeOK
<1>0. CB!TypeOK
  BY DEF ModelCallTypeOK
<1>1. [CB!Next]_(CB!vars)
  BY StepIsCB
<1>2. CASE CB!Tick
  BY <1>0, <1>2 DEF CB!Tick
<1>3. CASE CB!ServiceRecovers
  BY <1>3 DEF CB!ServiceRecovers
<1>4. ASSUME NEW w \in Workers, CB!Execute(w) PROVE CB!TypeOK'
  <2>1. CASE CB!ReadState(w)
    BY <1>0, <2>1 DEF CB!ReadState, CB!Goto
  <2>2. CASE CB!GoHalfOpen(w)
    BY <1>0, <2>2 DEF CB!GoHalfOpen, CB!Goto
  <2>3. CASE CB!Reject(w)
    BY <1>0, <2>3 DEF CB!Reject, CB!Goto
  <2>4. CASE CB!Begin(w)
    BY <1>0, <2>4 DEF CB!Begin, CB!Goto
  <2>5. CASE CB!Fail(w)
    BY <1>0, <2>5 DEF CB!Fail, CB!Goto, CB!Capped
  <2>6. CASE CB!Succeed(w)
    BY <1>0, <2>6 DEF CB!Succeed, CB!Goto
  <2> QED
    BY <1>4, <2>1, <2>2, <2>3, <2>4, <2>5, <2>6 DEF CB!Execute
<1>5. CASE UNCHANGED CB!vars
  BY <1>0, <1>5 DEF CB!vars
<1> QED
  BY <1>1, <1>2, <1>3, <1>4, <1>5 DEF CB!Next

LEMMA Longer == \A a, b \in Nat : a * b \in Nat
OBVIOUS

LEMMA TypeStep == ModelCallTypeOK /\ LoopInv /\ [Next]_vars => ModelCallTypeOK' /\ LoopInv'
<1> SUFFICES ASSUME ModelCallTypeOK, LoopInv, [Next]_vars
             PROVE  ModelCallTypeOK' /\ LoopInv'
  OBVIOUS
<1> USE ModelCallAssumption DEF ModelCallTypeOK, LoopInv, Goto, Kinds
<1>0. CB!TypeOK'
  BY BreakerTypes
<1>f. calls \in [Workers -> {"idle", "wasOpen", "admitted", "running"}]
  BY DEF CB!TypeOK
<1>1. CASE Tick
  BY <1>0, <1>1 DEF Tick, results
<1>2. CASE Cancel
  BY <1>0, <1>2 DEF Cancel, breaker, retry, results
<1>3. ASSUME NEW w \in Workers, Call(w) PROVE ModelCallTypeOK' /\ LoopInv'
  <2>1. CASE ReadState(w)
    BY <1>0, <1>f, <2>1 DEF ReadState, CB!ReadState, CB!Goto, retry
  <2>2. CASE GoHalfOpen(w)
    BY <1>0, <1>f, <2>2 DEF GoHalfOpen, CB!GoHalfOpen, CB!Goto, retry, results
  <2>3. CASE Reject(w)
    BY <1>0, <1>f, <2>3 DEF Reject, CB!Reject, CB!Goto, retry
  <2>4. CASE Begin(w)
    BY <1>0, <1>f, <2>4 DEF Begin, CB!Begin, CB!Goto, results
  <2>5. CASE CheckContext(w)
    BY <1>0, <1>f, <2>5 DEF CheckContext, breaker, results
  <2>6. CASE Answered(w)
    BY <1>0, <1>f, <2>6 DEF Answered, breaker
  <2>7. ASSUME NEW kind \in Kinds, Failed(w, kind) PROVE ModelCallTypeOK' /\ LoopInv'
    BY <1>0, <1>f, <2>7 DEF Failed, breaker
  <2>8. CASE Wake(w)
    <3>1. delay[w] \in Nat
      OBVIOUS
    <3>2. delay[w] * Multiplier \in Nat
      BY <3>1, Longer
    <3>3. delay' \in [Workers -> {InitialDelay} \cup 0 .. MaxDelay]
      BY <2>8, <3>2 DEF Wake
    <3>4. attempt' \in [Workers -> 0 .. MaxAttempts]
      BY <2>8 DEF Wake
    <3>5. ModelCallTypeOK'
      BY <1>0, <1>f, <2>8, <3>3, <3>4 DEF Wake, breaker, results
    <3>6. LoopInv'
      BY <1>f, <2>8 DEF Wake, breaker
    <3> QED
      BY <3>5, <3>6
  <2>9. CASE Interrupted(w)
    BY <1>0, <1>f, <2>9 DEF Interrupted, breaker, results
  <2>10. CASE Succeed(w)
    BY <1>0, <1>f, <2>10 DEF Succeed, CB!Succeed, CB!Goto, retry, results
  <2>11. CASE Fail(w)
    BY <1>0, <1>f, <2>11 DEF Fail, CB!Fail, CB!Goto, retry
  <2> QED
    BY <1>3, <2>1, <2>2, <2>3, <2>4, <2>5, <2>6, <2>7, <2>8, <2>9, <2>10, <2>11 DEF Call
<1>4. CASE UNCHANGED vars
  BY <1>0, <1>4 DEF vars, breaker, retry, results
<1> QED
  BY <1>1, <1>2, <1>3, <1>4 DEF Next

\* Counters and pauses stay within the RetryConfig, and a worker is inside
\* Retry exactly while its call runs (retry.go:28-61, mistral.go:162-163).
THEOREM TypeCorrect == Spec => []ModelCallTypeOK
BY InitTypes, TypeStep, PTL DEF Spec

-----------------------------------------------------------------------------
(***************************************************************************)
(* An error or a response.                                                 *)
(***************************************************************************)
\* What the three variables of a call say on the way to its end: there is no
\* response before the last attempt, lastErr is set once an attempt failed,
\* and a success has cleared apiErr.
CallInv ==
  \A w \in Workers :
    /\ at[w] \in {"enter", "check", "request", "pause"} => resp[w] = "none"
    /\ at[w] = "check" => attempt[w] = 0 \/ err[w] # "nil"
    /\ at[w] = "pause" => err[w] # "nil"
    /\ at[w] = "back" => (err[w] = "nil" <=> resp[w] = "ok")
    /\ at[w] = "back" /\ err[w] = "nil" => apiErr[w] = "nil"
    /\ at[w] = "judged" => (apiErr[w] = "nil" <=> resp[w] = "ok")

LEMMA CallStep ==
  ModelCallTypeOK /\ LoopInv /\ CallInv /\ [Next]_vars => CallInv'
<1> SUFFICES ASSUME ModelCallTypeOK, LoopInv, CallInv, [Next]_vars PROVE CallInv'
  OBVIOUS
<1> USE ModelCallAssumption DEF ModelCallTypeOK, CallInv, Goto, Kinds
<1>1. CASE Tick
  BY <1>1 DEF Tick, results
<1>2. CASE Cancel
  BY <1>2 DEF Cancel, retry, results
<1>3. ASSUME NEW w \in Workers, Call(w) PROVE CallInv'
  <2>1. CASE ReadState(w)
    BY <2>1 DEF ReadState, retry
  <2>2. CASE GoHalfOpen(w)
    BY <2>2 DEF GoHalfOpen, retry, results
  <2>3. CASE Reject(w)
    <3>1. resp[w] = "none"
      BY <2>3 DEF Reject, CB!Reject, LoopInv
    <3> QED
      BY <2>3, <3>1 DEF Reject, retry
  <2>4. CASE Begin(w)
    <3>1. resp[w] = "none"
      BY <2>4 DEF Begin, CB!Begin, LoopInv
    <3> QED
      BY <2>4, <3>1 DEF Begin, results
  <2>5. CASE CheckContext(w)
    BY <2>5 DEF CheckContext, results
  <2>6. CASE Answered(w)
    BY <2>6 DEF Answered
  <2>7. ASSUME NEW kind \in Kinds, Failed(w, kind) PROVE CallInv'
    BY <2>7 DEF Failed
  <2>8. CASE Wake(w)
    BY <2>8 DEF Wake, results
  <2>9. CASE Interrupted(w)
    BY <2>9 DEF Interrupted, results
  <2>10. CASE Succeed(w)
    BY <2>10 DEF Succeed, retry, results
  <2>11. CASE Fail(w)
    BY <2>11 DEF Fail, retry
  <2> QED
    BY <1>3, <2>1, <2>2, <2>3, <2>4, <2>5, <2>6, <2>7, <2>8, <2>9, <2>10, <2>11 DEF Call
<1>4. CASE UNCHANGED vars
  BY <1>4 DEF vars, retry, results
<1> QED
  BY <1>1, <1>2, <1>3, <1>4 DEF Next

\* Execute reports no error exactly when there is a response to read, for any
\* sequence of errors and any moment of a signal (mistral.go:159-184, 218).
THEOREM ErrorOrResponseAlways == Spec => []ErrorOrResponse
<1>1. Init => CallInv
  BY DEF Init, CallInv
<1>2. CallInv => ErrorOrResponse
  BY DEF CallInv, ErrorOrResponse
<1> QED
  BY <1>1, <1>2, InitTypes, TypeStep, CallStep, PTL DEF Spec

-----------------------------------------------------------------------------
(***************************************************************************)
(* Fruitless attempts.  A failed attempt is first one of Spent, as long as *)
(* its call runs; when the call ends in an error, its attempts, no more    *)
(* than MaxAttempts, are paid for by one failure of the breaker; a success *)
(* or a probe forgives all.                                                *)
(***************************************************************************)
LEMMA Monotonic ==
  ASSUME NEW a \in Nat, NEW b \in Nat, NEW c \in Nat, b <= c
  PROVE  /\ a * b \in Nat /\ a * c \in Nat
         /\ a * b <= a * c
OBVIOUS

LEMMA Distributes ==
  ASSUME NEW a \in Nat, NEW b \in Nat
  PROVE  a * (b + 1) = a * b + a
OBVIOUS

\* The pairs of a worker, or of all, are finitely many.
LEMMA Pairs ==
  ASSUME NEW W \in SUBSET Workers
  PROVE  /\ IsFiniteSet(W \X (0 .. MaxAttempts - 1))
         /\ Cardinality(W \X (0 .. MaxAttempts - 1)) = Cardinality(W) * MaxAttempts
         /\ Cardinality(W) \in Nat
<1>1. IsFiniteSet(W) /\ Cardinality(W) \in Nat
  BY ModelCallAssumption, FS_Subset, FS_CardinalityType
<1>2. IsFiniteSet(0 .. MaxAttempts - 1) /\ Cardinality(0 .. MaxAttempts - 1) = MaxAttempts
  BY ModelCallAssumption, FS_Interval
<1> QED
  BY <1>1, <1>2, FS_Product

LEMMA SpentFinite ==
  /\ IsFiniteSet(Spent)
  /\ Cardinality(Spent) \in Nat
  /\ Cardinality(Spent) <= MaxAttempts * Cardinality(Workers)
<1>1. Spent \in SUBSET (Workers \X (0 .. MaxAttempts - 1))
  BY DEF Spent
<1>2. /\ IsFiniteSet(Workers \X (0 .. MaxAttempts - 1))
      /\ Cardinality(Workers \X (0 .. MaxAttempts - 1)) = Cardinality(Workers) * MaxAttempts
      /\ Cardinality(Workers) \in Nat
  BY Pairs
<1>3. /\ IsFiniteSet(Spent)
      /\ Cardinality(Spent) <= Cardinality(Workers \X (0 .. MaxAttempts - 1))
  BY <1>1, <1>2, FS_Subset
<1>4. Cardinality(Workers) * MaxAttempts = MaxAttempts * Cardinality(Workers)
  BY <1>2, ModelCallAssumption
<1> QED
  BY <1>2, <1>3, <1>4, FS_CardinalityType

LEMMA SpentFiniteNext == IsFiniteSet(Spent') /\ Cardinality(Spent') \in Nat
<1>1. Spent' \in SUBSET (Workers \X (0 .. MaxAttempts - 1))
  BY DEF Spent
<1>2. IsFiniteSet(Workers \X (0 .. MaxAttempts - 1))
  BY Pairs
<1> QED
  BY <1>1, <1>2, FS_Subset, FS_CardinalityType

\* Steps that take no attempt away keep what is paid.
LEMMA SpentGrows ==
  ASSUME \A w \in Workers, k \in 0 .. MaxAttempts - 1 : Behind(w, k) => Behind(w, k)'
  PROVE  Spent \subseteq Spent' /\ Cardinality(Spent) <= Cardinality(Spent')
<1>1. Spent \subseteq Spent'
  BY DEF Spent
<1> QED
  BY <1>1, SpentFiniteNext, FS_Subset

\* A failed attempt is one of Spent from then on.
LEMMA FailedSpends ==
  ASSUME ModelCallTypeOK, LoopInv, NEW w \in Workers, NEW kind \in Kinds, Failed(w, kind)
  PROVE  Cardinality(Spent') >= Cardinality(Spent) + 1
<1> DEFINE new == <<w, attempt[w]>>
<1>1. /\ at[w] = "request" /\ calls[w] = "running"
      /\ attempt[w] \in 0 .. MaxAttempts - 1
  BY ModelCallAssumption DEF Failed, ModelCallTypeOK, LoopInv
<1>2. new \notin Spent
  BY <1>1 DEF Spent, Behind
<1>3. /\ calls' = calls
      /\ \A v \in Workers \ {w} : at'[v] = at[v] /\ attempt'[v] = attempt[v]
      /\ \/ at'[w] = "pause" /\ attempt'[w] = attempt[w]
         \/ at'[w] = "check" /\ attempt'[w] = attempt[w] + 1
  BY DEF Failed, breaker, Goto, ModelCallTypeOK
<1>4. new \in Spent'
  BY <1>1, <1>3 DEF Spent, Behind
<1>5. \A v \in Workers, k \in 0 .. MaxAttempts - 1 : Behind(v, k) => Behind(v, k)'
  BY <1>1, <1>3 DEF Behind
<1>6. Spent \cup {new} \subseteq Spent'
  BY <1>4, <1>5, SpentGrows
<1> HIDE DEF new
<1>7. Cardinality(Spent \cup {new}) = Cardinality(Spent) + 1
  BY <1>2, SpentFinite, FS_AddElement
<1>8. Cardinality(Spent \cup {new}) <= Cardinality(Spent')
  BY <1>6, SpentFiniteNext, FS_Subset
<1> QED
  BY <1>7, <1>8

\* The end of a call takes the attempts of one worker out of Spent.
LEMMA FailReleases ==
  ASSUME ModelCallTypeOK, NEW w \in Workers, Fail(w)
  PROVE  Cardinality(Spent) <= Cardinality(Spent') + MaxAttempts
<1> DEFINE own == {w} \X (0 .. MaxAttempts - 1)
<1>1. IsFiniteSet(own) /\ Cardinality(own) = MaxAttempts
  <2>1. Cardinality({w}) = 1
    BY FS_Singleton
  <2>2. IsFiniteSet(own) /\ Cardinality(own) = Cardinality({w}) * MaxAttempts
    BY Pairs
  <2> QED
    BY <2>1, <2>2, ModelCallAssumption
<1>2. \A v \in Workers \ {w} :
        calls'[v] = calls[v] /\ at'[v] = at[v] /\ attempt'[v] = attempt[v]
  BY DEF Fail, CB!Fail, CB!Goto, Goto, retry, ModelCallTypeOK, CB!TypeOK
<1>3. Spent \subseteq Spent' \cup own
  BY <1>2 DEF Spent, Behind
<1> HIDE DEF own
<1>4. /\ IsFiniteSet(Spent' \cup own)
      /\ Cardinality(Spent' \cup own)
           = Cardinality(Spent') + Cardinality(own) - Cardinality(Spent' \cap own)
  BY <1>1, SpentFiniteNext, FS_Union
<1>5. Cardinality(Spent' \cap own) \in Nat
  BY <1>1, FS_Intersection, FS_CardinalityType
<1>6. Cardinality(Spent) <= Cardinality(Spent' \cup own)
  BY <1>3, <1>4, FS_Subset
<1> QED
  BY <1>1, <1>4, <1>5, <1>6, SpentFinite, SpentFiniteNext, ModelCallAssumption

LEMMA MissesPaidStep ==
  ModelCallTypeOK /\ LoopInv /\ MissesPaid /\ [Next]_vars => MissesPaid'
<1> SUFFICES ASSUME ModelCallTypeOK, LoopInv, MissesPaid, [Next]_vars PROVE MissesPaid'
  OBVIOUS
<1> USE ModelCallAssumption, SpentFinite, SpentFiniteNext
<1>1. misses \in Nat /\ failureCount \in Nat
  BY DEF ModelCallTypeOK, CB!TypeOK
<1>2. failureCount' \in Nat
  BY BreakerTypes DEF CB!TypeOK
<1>3. MaxAttempts * failureCount \in Nat /\ MaxAttempts * failureCount' \in Nat
  BY <1>1, <1>2, Longer
\* Nothing is added to misses, nothing taken from what is paid.
<1>4. ASSUME UNCHANGED <<misses, failureCount>>,
             \A w \in Workers, k \in 0 .. MaxAttempts - 1 : Behind(w, k) => Behind(w, k)'
      PROVE  MissesPaid'
  <2>1. Cardinality(Spent) <= Cardinality(Spent')
    BY <1>4, SpentGrows
  <2> QED
    BY <1>1, <1>3, <1>4, <2>1 DEF MissesPaid
<1>5. ASSUME misses' = 0 PROVE MissesPaid'
  BY <1>3, <1>5 DEF MissesPaid
<1>6. CASE Tick \/ Cancel \/ UNCHANGED vars
  BY <1>4, <1>6 DEF Tick, Cancel, vars, breaker, retry, Behind
<1>7. ASSUME NEW w \in Workers, Call(w) PROVE MissesPaid'
  <2> USE DEF ModelCallTypeOK, CB!TypeOK, Goto
  <2>1. CASE ReadState(w)
    BY <1>4, <2>1 DEF ReadState, CB!ReadState, CB!Goto, retry, Behind
  <2>2. CASE GoHalfOpen(w) \/ Succeed(w)
    BY <1>5, <2>2 DEF GoHalfOpen, Succeed
  <2>3. CASE Reject(w)
    BY <1>4, <2>3 DEF Reject, CB!Reject, CB!Goto, retry, Behind
  <2>4. CASE Begin(w)
    BY <1>4, <2>4 DEF Begin, CB!Begin, CB!Goto, Behind
  <2>5. CASE CheckContext(w)
    BY <1>4, <2>5 DEF CheckContext, breaker, Behind
  <2>6. CASE Answered(w)
    BY <1>4, <2>6 DEF Answered, breaker, Behind
  <2>7. ASSUME NEW kind \in Kinds, Failed(w, kind) PROVE MissesPaid'
    <3>1. misses' = misses + 1 /\ failureCount' = failureCount
      BY <2>7 DEF Failed, breaker
    <3>2. Cardinality(Spent') >= Cardinality(Spent) + 1
      BY <2>7, FailedSpends
    <3> QED
      BY <1>1, <1>3, <3>1, <3>2 DEF MissesPaid
  <2>8. CASE Wake(w)
    BY <1>4, <2>8 DEF Wake, breaker, Behind
  <2>9. CASE Interrupted(w)
    BY <1>4, <2>9 DEF Interrupted, breaker, Behind
  <2>10. CASE Fail(w)
    <3>1. misses' = misses /\ failureCount' = failureCount + 1
      BY <2>10 DEF Fail, CB!Fail
    <3>2. Cardinality(Spent) <= Cardinality(Spent') + MaxAttempts
      BY <2>10, FailReleases
    <3>3. MaxAttempts * failureCount' = MaxAttempts * failureCount + MaxAttempts
      BY <1>1, <3>1, Distributes
    <3> QED
      BY <1>1, <1>3, <3>1, <3>2, <3>3 DEF MissesPaid
  <2> QED
    BY <1>7, <2>1, <2>2, <2>3, <2>4, <2>5, <2>6, <2>7, <2>8, <2>9, <2>10 DEF Call
<1> QED
  BY <1>6, <1>7 DEF Next

\* However the retries of the workers overlap, and whatever the length of
\* their pauses, the model is asked in vain no more often before the breaker
\* opens than its limit and the calls in flight allow (retry.go:32-59,
\* circuit_breaker.go:73-79).
THEOREM FruitlessAttemptsAlwaysBounded == Spec => []FruitlessAttemptsBounded
<1>1. Init => MissesPaid
  <2> SUFFICES ASSUME Init PROVE MissesPaid
    OBVIOUS
  <2>1. MaxAttempts * failureCount \in Nat
    BY ModelCallAssumption, Longer DEF Init
  <2> QED
    BY <2>1, SpentFinite DEF Init, MissesPaid
<1>2. ModelCallTypeOK /\ MissesPaid /\ CB!OpenAtLimit => FruitlessAttemptsBounded
  <2> SUFFICES ASSUME ModelCallTypeOK, MissesPaid, CB!OpenAtLimit, state # "open"
               PROVE  misses <= MaxAttempts * (MaxFailures - 1 + Cardinality(Workers))
    BY DEF FruitlessAttemptsBounded
  <2> DEFINE n == Cardinality(Workers)
  <2>1. /\ failureCount \in Nat /\ misses \in Nat
        /\ MaxFailures - 1 \in Nat
        /\ failureCount <= MaxFailures - 1
        /\ MaxAttempts \in Nat
    BY ModelCallAssumption DEF ModelCallTypeOK, CB!TypeOK, CB!OpenAtLimit
  <2>2. n \in Nat
    BY ModelCallAssumption, FS_CardinalityType
  <2>3. misses <= MaxAttempts * failureCount + Cardinality(Spent)
    BY DEF MissesPaid
  <2>4. Cardinality(Spent) \in Nat /\ Cardinality(Spent) <= MaxAttempts * n
    BY SpentFinite
  <2> HIDE DEF n
  <2>5. MaxAttempts * failureCount <= MaxAttempts * (MaxFailures - 1)
    BY <2>1, Monotonic
  <2>6. MaxAttempts * (MaxFailures - 1 + n) = MaxAttempts * (MaxFailures - 1) + MaxAttempts * n
    BY <2>1, <2>2
  <2>7. /\ MaxAttempts * failureCount \in Nat /\ MaxAttempts * n \in Nat
        /\ MaxAttempts * (MaxFailures - 1) \in Nat
    BY <2>1, <2>2, Longer
  <2> QED
    BY <2>1, <2>3, <2>4, <2>5, <2>6, <2>7 DEF n
<1> QED
  BY <1>1, <1>2, InitTypes, TypeStep, MissesPaidStep, LimitHoldsUnderRetry, PTL DEF Spec

-----------------------------------------------------------------------------
(***************************************************************************)
(* The end of a call.  That it comes is checked by TLC, since it needs     *)
(* fairness; that nothing but a lack of steps could prevent it is proved.  *)
(***************************************************************************)
\* A step that leaves a running call in its place.
Rests(w) == UNCHANGED <<at[w], attempt[w]>> /\ left'[w] <= left[w]

LEMMA OwnStepAdvances ==
  ASSUME ModelCallTypeOK, LoopInv, NEW w \in Workers, Call(w),
         calls[w] = "running", calls'[w] = "running"
  PROVE  StepsLeft(w)' < StepsLeft(w)
<1> USE ModelCallAssumption DEF ModelCallTypeOK, LoopInv, Goto, StepsLeft, Progress
<1>0. calls \in [Workers -> {"idle", "wasOpen", "admitted", "running"}]
  BY DEF CB!TypeOK
<1>1. ~(ReadState(w) \/ GoHalfOpen(w) \/ Reject(w) \/ Begin(w))
  BY DEF ReadState, GoHalfOpen, Reject, Begin, CB!ReadState, CB!GoHalfOpen, CB!Reject, CB!Begin
<1>2. ~(Succeed(w) \/ Fail(w))
  BY <1>0 DEF Succeed, Fail, CB!Succeed, CB!Fail, CB!Goto
<1>3. CASE CheckContext(w)
  <2>1. /\ at[w] = "check"
        /\ attempt' = attempt
        /\ attempt[w] \in 0 .. MaxAttempts
    BY <1>3 DEF CheckContext
  <2>2. \/ at'[w] = "back"
        \/ attempt[w] < MaxAttempts /\ at'[w] = "request"
    BY <1>3 DEF CheckContext
  <2> QED
    BY <2>1, <2>2
<1>4. CASE Answered(w)
  BY <1>4 DEF Answered
<1>5. ASSUME NEW kind \in Kinds, Failed(w, kind) PROVE StepsLeft(w)' < StepsLeft(w)
  BY <1>5 DEF Failed
<1>6. CASE Wake(w)
  BY <1>6 DEF Wake
<1>7. CASE Interrupted(w)
  BY <1>7 DEF Interrupted
<1> QED
  BY <1>1, <1>2, <1>3, <1>4, <1>5, <1>6, <1>7 DEF Call

LEMMA OthersRest ==
  ASSUME ModelCallTypeOK, NEW w \in Workers, NEW v \in Workers \ {w}, Call(w)
  PROVE  Rests(v)
<1> USE DEF ModelCallTypeOK, Rests, Goto, retry
<1>1. ASSUME NEW kind \in Kinds, Failed(w, kind) PROVE Rests(v)
  BY <1>1 DEF Failed
<1>2. CASE ReadState(w) \/ GoHalfOpen(w) \/ Reject(w) \/ Begin(w)
  BY <1>2 DEF ReadState, GoHalfOpen, Reject, Begin
<1>3. CASE CheckContext(w) \/ Answered(w) \/ Wake(w) \/ Interrupted(w)
  BY <1>3 DEF CheckContext, Answered, Wake, Interrupted
<1>4. CASE Succeed(w) \/ Fail(w)
  BY <1>4 DEF Succeed, Fail
<1> QED
  BY <1>1, <1>2, <1>3, <1>4 DEF Call

LEMMA AdvanceStep ==
  ModelCallTypeOK /\ LoopInv /\ [Next]_vars =>
    \A w \in Workers : calls[w] = "running" /\ calls'[w] = "running" =>
      StepsLeft(w)' < StepsLeft(w) \/ Rests(w)
<1> SUFFICES ASSUME ModelCallTypeOK, LoopInv, [Next]_vars,
                    NEW w \in Workers, calls[w] = "running", calls'[w] = "running"
             PROVE  StepsLeft(w)' < StepsLeft(w) \/ Rests(w)
  OBVIOUS
<1>1. CASE Tick \/ Cancel \/ UNCHANGED vars
  BY <1>1, ModelCallAssumption DEF Tick, Cancel, vars, retry, Rests, ModelCallTypeOK
<1>2. ASSUME NEW v \in Workers, Call(v) PROVE StepsLeft(w)' < StepsLeft(w) \/ Rests(w)
  BY <1>2, OwnStepAdvances, OthersRest
<1> QED
  BY <1>1, <1>2 DEF Next

\* Retry cannot run for ever: whatever fails and whenever the context ends, a
\* call has at most 3 * MaxAttempts + 2 steps ahead of it, each of which
\* brings it closer to its end, and no step of another worker, of the clock or
\* of a signal takes it back or makes its pause longer (retry.go:32-61).
THEOREM RetryTerminates == Spec => CallAdvances /\ []CallsAreShort
<1>1. ModelCallTypeOK /\ LoopInv => CallsAreShort
  BY ModelCallAssumption DEF ModelCallTypeOK, LoopInv, CallsAreShort, StepsLeft, Progress
<1>2. ModelCallTypeOK /\ LoopInv /\ [Next]_vars
        => [\A w \in Workers : calls[w] = "running" /\ calls'[w] = "running" =>
              \/ StepsLeft(w)' < StepsLeft(w)
              \/ UNCHANGED <<at[w], attempt[w]>> /\ left'[w] <= left[w]]_vars
  BY AdvanceStep DEF Rests
<1> QED
  BY <1>1, <1>2, InitTypes, TypeStep, PTL DEF Spec, CallAdvances
=============================================================================
