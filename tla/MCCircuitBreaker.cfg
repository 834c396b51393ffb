\* Four overlapping callers, an unreliable service that finally recovers.
SPECIFICATION LiveSpec
CONSTANTS
  c1 = c1  c2 = c2  c3 = c3  c4 = c4
  Callers = {c1, c2, c3, c4}
  MaxFailures = 3
  ResetTimeout = 2
INVARIANT OpenAtLimit
INVARIANT CountBounded
PROPERTY OpenHolds
PROPERTY TripsOnStreakOnly
PROPERTY ClosesAfterRecovery
