----------------------- MODULE CircuitBreaker_proofs -----------------------
(***************************************************************************)
(* Proofs about CircuitBreaker, for any number of callers, any limit and   *)
(* any timeout.                                                            *)
(***************************************************************************)
EXTENDS CircuitBreaker, FiniteSetTheorems, TLAPS

LEMMA TypeStep == TypeOK /\ [Next]_vars => TypeOK'
<1> SUFFICES ASSUME TypeOK, [Next]_vars PROVE TypeOK'
  OBVIOUS
<1> USE BreakerAssumption DEF TypeOK, Goto
<1>1. CASE Tick
  BY <1>1 DEF Tick
<1>2. CASE ServiceRecovers
  BY <1>2 DEF ServiceRecovers
<1>3. ASSUME NEW c \in Callers, Execute(c) PROVE TypeOK'
  <2>1. CASE ReadState(c)
    BY <2>1 DEF ReadState
  <2>2. CASE GoHalfOpen(c)
    BY <2>2 DEF GoHalfOpen
  <2>3. CASE Reject(c)
    BY <2>3 DEF Reject
  <2>4. CASE Begin(c)
    BY <2>4 DEF Begin
  <2>5. CASE Fail(c)
    BY <2>5 DEF Fail, Capped
  <2>6. CASE Succeed(c)
    BY <2>6 DEF Succeed
  <2> QED
    BY <1>3, <2>1, <2>2, <2>3, <2>4, <2>5, <2>6 DEF Execute
<1>4. CASE UNCHANGED vars
  BY <1>4 DEF vars
<1> QED
  BY <1>1, <1>2, <1>3, <1>4 DEF Next

LEMMA TypeInit == Init => TypeOK
<1> SUFFICES ASSUME Init PROVE TypeOK
  OBVIOUS
<1>1. pc \in [Callers -> {"idle", "wasOpen", "admitted", "running"}]
  BY DEF Init
<1>2. elapsed \in 0 .. ResetTimeout /\ streak \in 0 .. MaxFailures
  BY BreakerAssumption DEF Init
<1> QED
  BY <1>1, <1>2 DEF Init, TypeOK

\* The breaker's fields keep their types in every interleaving
\* (circuit_breaker.go:20-27).
THEOREM TypeCorrect == Spec => []TypeOK
BY TypeInit, TypeStep, PTL DEF Spec

-----------------------------------------------------------------------------
\* While calls are admitted, every counted failure belongs to the current
\* streak; a success that arrives in the open state may break the tie, and
\* the reset on leaving that state restores it.
CountIsStreak == state # "open" => failureCount <= streak

BreakerInv == OpenAtLimit /\ CountIsStreak

LEMMA BreakerStep == TypeOK /\ BreakerInv /\ [Next]_vars => BreakerInv'
<1> SUFFICES ASSUME TypeOK, BreakerInv, [Next]_vars PROVE BreakerInv'
  OBVIOUS
<1> USE BreakerAssumption DEF TypeOK, BreakerInv, OpenAtLimit, CountIsStreak
<1>1. CASE Tick \/ ServiceRecovers
  BY <1>1 DEF Tick, ServiceRecovers
<1>2. ASSUME NEW c \in Callers, Execute(c) PROVE BreakerInv'
  <2>1. CASE ReadState(c) \/ Reject(c) \/ Begin(c)
    BY <2>1 DEF ReadState, Reject, Begin
  <2>2. CASE GoHalfOpen(c)
    BY <2>2 DEF GoHalfOpen
  <2>3. CASE Fail(c)
    BY <2>3 DEF Fail, Capped
  <2>4. CASE Succeed(c)
    BY <2>4 DEF Succeed
  <2> QED
    BY <1>2, <2>1, <2>2, <2>3, <2>4 DEF Execute
<1>3. CASE UNCHANGED vars
  BY <1>3 DEF vars
<1> QED
  BY <1>1, <1>2, <1>3 DEF Next

LEMMA BreakerInvariant == Spec => []BreakerInv
<1>1. Init => BreakerInv
  BY BreakerAssumption DEF Init, BreakerInv, OpenAtLimit, CountIsStreak
<1> QED
  BY <1>1, BreakerStep, TypeCorrect, PTL DEF Spec

\* Whatever the callers interleave, the limit is never reached with the
\* breaker letting calls through (circuit_breaker.go:73-87).
THEOREM OpensAtLimit == Spec => []OpenAtLimit
<1>1. BreakerInv => OpenAtLimit
  BY DEF BreakerInv
<1> QED
  BY <1>1, BreakerInvariant, PTL

\* The breaker opens only after maxFailures failures in a row
\* (circuit_breaker.go:73-84).
THEOREM TripsOnlyOnStreak == Spec => TripsOnStreakOnly
<1> DEFINE Trip == state # "open" /\ state' = "open" => streak' = MaxFailures
<1>1. TypeOK /\ BreakerInv /\ [Next]_vars => [Trip]_vars
  <2> SUFFICES ASSUME TypeOK, BreakerInv, Next, state # "open", state' = "open"
               PROVE  streak' = MaxFailures
    OBVIOUS
  <2>1. PICK c \in Callers : Fail(c)
    BY DEF Next, Tick, ServiceRecovers, Execute, ReadState, GoHalfOpen, Reject, Begin, Succeed
  <2> QED
    BY <2>1, BreakerAssumption DEF Fail, Capped, BreakerInv, OpenAtLimit, CountIsStreak, TypeOK
<1>2. Spec => [][Trip]_vars
  BY <1>1, TypeCorrect, BreakerInvariant, PTL DEF Spec
<1> QED
  BY <1>2 DEF TripsOnStreakOnly

\* An open breaker is left only when the timeout has passed since the last
\* failure (circuit_breaker.go:48-56, 83-87).
THEOREM OpenUntilTimeout == Spec => OpenHolds
<1> DEFINE Left == state = "open" /\ state' # "open" => elapsed >= ResetTimeout
<1>1. [Next]_vars => [Left]_vars
  <2> SUFFICES ASSUME Next, state = "open", state' # "open" PROVE elapsed >= ResetTimeout
    OBVIOUS
  <2> QED
    BY DEF Next, Tick, ServiceRecovers, Execute, ReadState, GoHalfOpen, Reject, Begin, Fail, Succeed
<1>2. Spec => [][Left]_vars
  BY <1>1, PTL DEF Spec
<1> QED
  BY <1>2 DEF OpenHolds

-----------------------------------------------------------------------------
\* A caller that leaves fn makes room for one more failure at most.
LEMMA InFlightLeaves ==
  ASSUME TypeOK, NEW c \in Callers, pc[c] = "running", Goto(c, "idle")
  PROVE  /\ IsFiniteSet(InFlight) /\ IsFiniteSet(InFlight')
         /\ Cardinality(InFlight') = Cardinality(InFlight) - 1
         /\ Cardinality(InFlight) \in Nat /\ Cardinality(InFlight') \in Nat
         /\ Cardinality(InFlight) <= Cardinality(Callers)
         /\ Cardinality(Callers) \in Nat
<1>1. IsFiniteSet(InFlight) /\ Cardinality(InFlight) <= Cardinality(Callers)
  BY BreakerAssumption, FS_Subset DEF InFlight
<1>2. c \in InFlight /\ InFlight' = InFlight \ {c}
  BY DEF InFlight, Goto, TypeOK
<1> QED
  BY <1>1, <1>2, FS_RemoveElement, FS_CardinalityType, BreakerAssumption

LEMMA InFlightStays ==
  ASSUME TypeOK
  PROVE  /\ Cardinality(InFlight) \in Nat
         /\ Cardinality(Callers) \in Nat
BY BreakerAssumption, FS_Subset, FS_CardinalityType DEF InFlight

\* failureCount overshoots the limit by less than the number of callers, for
\* any number of them (circuit_breaker.go:68-79).
THEOREM Overshoot == Spec => []CountBounded
<1>1. Init => CountBounded
  <2> SUFFICES ASSUME Init PROVE CountBounded
    OBVIOUS
  <2> QED
    BY InFlightStays, TypeInit, BreakerAssumption DEF Init, CountBounded
<1>2. TypeOK /\ BreakerInv /\ CountBounded /\ [Next]_vars => CountBounded'
  <2> SUFFICES ASSUME TypeOK, BreakerInv, CountBounded, [Next]_vars PROVE CountBounded'
    OBVIOUS
  <2> USE BreakerAssumption DEF CountBounded
  <2>1. TypeOK' /\ BreakerInv'
    BY TypeStep, BreakerStep
  <2>2. CASE UNCHANGED <<state, failureCount>> /\ InFlight' = InFlight
    BY <2>2
  <2>3. CASE state' # "open"
    BY <2>1, <2>3, InFlightStays DEF BreakerInv, OpenAtLimit, TypeOK
  <2>4. ASSUME NEW c \in Callers, ReadState(c) \/ Reject(c) \/ Begin(c), state' = "open"
        PROVE  CountBounded'
    <3>1. UNCHANGED <<state, failureCount>> /\ InFlight' = InFlight
      BY <2>4 DEF ReadState, Reject, Begin, InFlight, Goto, TypeOK
    <3> QED
      BY <3>1, <2>2
  <2>5. ASSUME NEW c \in Callers, Fail(c), state' = "open" PROVE CountBounded'
    <3>1. /\ pc[c] = "running" /\ Goto(c, "idle")
          /\ failureCount' = failureCount + 1
          /\ state # "open" => failureCount < MaxFailures
          /\ failureCount \in Nat
      BY <2>5 DEF Fail, BreakerInv, OpenAtLimit, TypeOK
    <3>2. /\ Cardinality(InFlight') = Cardinality(InFlight) - 1
          /\ Cardinality(InFlight) \in Nat /\ Cardinality(InFlight') \in Nat
          /\ Cardinality(InFlight) <= Cardinality(Callers) /\ Cardinality(Callers) \in Nat
      BY <3>1, InFlightLeaves
    <3>3. failureCount' + Cardinality(InFlight') < MaxFailures + Cardinality(Callers)
      BY <3>1, <3>2
    <3> QED
      BY <3>1, <3>2, <3>3
  <2>6. ASSUME NEW c \in Callers, Succeed(c), state' = "open" PROVE CountBounded'
    <3>1. pc[c] = "running" /\ Goto(c, "idle") /\ failureCount' = 0
      BY <2>6 DEF Succeed
    <3> QED
      BY <3>1, InFlightLeaves
  <2>7. CASE Tick \/ ServiceRecovers \/ UNCHANGED vars
    BY <2>2, <2>7 DEF Tick, ServiceRecovers, vars, InFlight
  <2> QED
    BY <2>3, <2>4, <2>5, <2>6, <2>7 DEF Next, Execute, GoHalfOpen
<1> QED
  BY <1>1, <1>2, TypeCorrect, BreakerInvariant, PTL DEF Spec

-----------------------------------------------------------------------------
(***************************************************************************)
(* Recovery.  That the breaker closes needs fairness and is checked by     *)
(* TLC; that nothing but a lack of steps can keep it from closing, and     *)
(* that it then is closed for good, is proved.                             *)
(***************************************************************************)
\* After an outage no step of any caller takes the breaker back, except those
\* that still act on an open state they read before; there is one per such
\* read, and no new ones (circuit_breaker.go:44-56, 68-90).
THEOREM RecoveryAdvances == Spec => NoWayBack
<1> DEFINE Forward ==
      healthy =>
        /\ elapsed <= elapsed'
        /\ state # "open" =>
             /\ state' # "open"
             /\ StaleReaders' \subseteq StaleReaders
             /\ state = "closed" /\ state' # "closed" => StaleReaders' # StaleReaders
<1>1. TypeOK /\ [Next]_vars => [Forward]_vars
  <2> SUFFICES ASSUME TypeOK, Next, healthy PROVE Forward
    OBVIOUS
  <2> USE DEF StaleReaders, Goto, TypeOK
  <2>1. CASE Tick \/ ServiceRecovers
    BY <2>1, BreakerAssumption DEF Tick, ServiceRecovers
  <2>2. ASSUME NEW c \in Callers, GoHalfOpen(c) PROVE Forward
    <3>1. c \in StaleReaders /\ c \notin StaleReaders' /\ StaleReaders' \subseteq StaleReaders
      BY <2>2 DEF GoHalfOpen
    <3>2. state' = "halfOpen" /\ elapsed' = elapsed
      BY <2>2 DEF GoHalfOpen
    <3> HIDE DEF StaleReaders
    <3> QED
      BY <3>1, <3>2, BreakerAssumption
  <2>3. ASSUME NEW c \in Callers, ReadState(c) \/ Reject(c) \/ Begin(c) PROVE Forward
    <3>1. /\ UNCHANGED <<state, elapsed>>
          /\ state # "open" => StaleReaders' \subseteq StaleReaders
      BY <2>3 DEF ReadState, Reject, Begin
    <3> HIDE DEF StaleReaders
    <3> QED
      BY <3>1, BreakerAssumption
  <2>4. ASSUME NEW c \in Callers, Succeed(c) PROVE Forward
    <3>1. /\ elapsed' = elapsed
          /\ state' = IF state = "halfOpen" THEN "closed" ELSE state
          /\ StaleReaders' \subseteq StaleReaders
      BY <2>4 DEF Succeed
    <3> HIDE DEF StaleReaders
    <3> QED
      BY <3>1, BreakerAssumption
  <2> QED
    BY <2>1, <2>2, <2>3, <2>4 DEF Next, Execute, Fail
<1>2. Spec => [][Forward]_vars
  BY <1>1, TypeCorrect, PTL DEF Spec
<1> QED
  BY <1>2 DEF NoWayBack

\* A breaker that is closed after the outage, with no stale read about, stays
\* so, whatever its callers do (circuit_breaker.go:44-90).
THEOREM RecoveryLasts == Spec => RecoveredForGood
<1>1. TypeOK /\ Recovered /\ [Next]_vars => Recovered'
  <2> SUFFICES ASSUME TypeOK, Recovered, [Next]_vars PROVE Recovered'
    OBVIOUS
  <2> USE DEF Recovered, StaleReaders, Goto, TypeOK
  <2>1. ASSUME NEW c \in Callers, Execute(c) PROVE Recovered'
    BY <2>1 DEF Execute, ReadState, GoHalfOpen, Reject, Begin, Fail, Succeed
  <2>2. CASE Tick \/ ServiceRecovers \/ UNCHANGED vars
    BY <2>2 DEF Tick, ServiceRecovers, vars
  <2> QED
    BY <2>1, <2>2 DEF Next
<1> QED
  BY <1>1, TypeCorrect, PTL DEF Spec, RecoveredForGood
=============================================================================
