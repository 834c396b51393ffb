\* Everything that can fail fails; two workers, two mailboxes of one user, and
\* a batch that is full while fetched mail is left.
SPECIFICATION Spec
CONSTANTS
  i1 = i1  i2 = i2  w1 = w1  w2 = w2  m1 = m1  m2 = m2  m3 = m3
  u1 = u1  box1 = box1  box2 = box2  h1 = h1  h2 = h2  None = None
  Integrations = {i1, i2}
  Workers = {w1, w2}
  Messages = {m1, m2, m3}
  User <- MCUser
  Mailbox <- MCMailbox
  Home <- MCHome
  Header <- MCHeader
  MaxBatchSize = 1
  ScanLimit = 2
  Faults <- AllFaults
  MaxDay = 0
  MaxUnread = 1
SYMMETRY WorkerSymmetry
INVARIANT SentOnce
INVARIANT OneWorkerPerIntegration
INVARIANT NoDuplicateImport
PROPERTY OnlyFailuresStrand
PROPERTY OnlyFailuresDrop
PROPERTY BatchesAsPromised
