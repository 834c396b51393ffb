\* One caller: does a failed probe make it wait again?
SPECIFICATION Spec
CONSTANTS
  c1 = c1  c2 = c2  c3 = c3  c4 = c4
  Callers = {c1}
  MaxFailures = 2
  ResetTimeout = 2
PROPERTY WaitsAfterStreak
