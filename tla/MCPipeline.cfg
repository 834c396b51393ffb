\* One mail, one analyzer, one collector, two copies at most; each service may
\* break once, and the database fail.
SPECIFICATION PipelineLiveSpec
CONSTANTS
  b1 = b1  m1 = m1  c1 = c1  None = None
  Batches = {b1}
  Mails = {m1}
  Content <- MCContent
  Garbled = {}
  NumConsumers = 1
  NumWorkers = 1
  MaxFailures = 1
  ResetTimeout = 1
  Faults <- AllFaults
  MaxBreaks = 1
  Collectors = {c1}
  Prefetch = 1
  CollectorFaults <- AllCollectorFaults
  MaxCollectorBreaks = 1
  MaxCopies = 2
INVARIANT NothingVanishes
INVARIANT DeletedComesBackAfterFailureOnly
PROPERTY EveryMailBecomesTask
\* Once every mail is a task nothing is left to do.
CHECK_DEADLOCK FALSE
