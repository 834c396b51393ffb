\* Two workers that share breaker and context; a signal at any moment.
SPECIFICATION LiveSpec
CONSTANTS
  w1 = w1  w2 = w2
  Workers = {w1, w2}
  MaxFailures = 2
  ResetTimeout = 1
  MaxAttempts = 3
  InitialDelay = 1
  MaxDelay = 2
  Multiplier = 2
INVARIANT ErrorOrResponse
INVARIANT FruitlessAttemptsBounded
PROPERTY CallsAreAtomic
PROPERTY EveryCallEnds
