\* Two consumers, a batch of two mails and one that cannot be decoded and comes
\* back for ever, a breaker that trips after two failures; one connection lost,
\* publish error, signal or crash.
SPECIFICATION LiveSpec
CONSTANTS
  b1 = b1  b2 = b2  m1 = m1  m2 = m2
  Batches = {b1, b2}
  Mails = {m1, m2}
  Content <- MCContent
  Garbled = {b2}
  NumConsumers = 2
  NumWorkers = 2
  MaxFailures = 2
  ResetTimeout = 1
  Faults <- AllFaults
  MaxBreaks = 1
INVARIANT AckedMeansPublished
INVARIANT FallbackNeedsOutage
INVARIANT CopiesNeedFailure
PROPERTY MailsAsPromised
PROPERTY EveryBatchAcked
\* When every batch is acknowledged there is nothing left to do.
CHECK_DEADLOCK FALSE
