\* Two instances, two copies of an email and a malformed message; everything
\* that can fail fails, with one lost channel, signal or crash.
SPECIFICATION LiveSpec
CONSTANTS
  c1 = c1  c2 = c2  m1 = m1  m2 = m2  m3 = m3
  e1 = e1  None = None
  Consumers = {c1, c2}
  Messages = {m1, m2, m3}
  Emails = {e1}
  Email <- MCEmail
  Prefetch = 2
  Faults <- AllFaults
  MaxBreaks = 1
INVARIANT TypeOK
INVARIANT OneTaskPerEmail
INVARIANT AckedMeansStored
INVARIANT LossNeedsDbError
INVARIANT DeletedStaysDeleted
INVARIANT UsersHaveLastWord
PROPERTY EveryEmailBecomesTask
\* A collector whose channel was lost stays up and consumes no more, so the
\* system may really stop, once the bound on signals is used up.
CHECK_DEADLOCK FALSE
