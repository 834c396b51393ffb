\* Two workers, nothing fails from outside: is all mail still published?
SPECIFICATION LiveSpec
CONSTANTS
  i1 = i1  i2 = i2  w1 = w1  w2 = w2  m1 = m1  m2 = m2  m3 = m3
  u1 = u1  box1 = box1  box2 = box2  h1 = h1  h2 = h2  None = None
  Integrations = {i1, i2}
  User <- MCUser
  MaxBatchSize = 2
  Workers = {w1, w2}
  Messages = {m1, m2}
  Mailbox <- MCMailbox
  Home <- MCHomeTwoBoxes
  Header <- MCHeader2
  ScanLimit = 2
  Faults <- NoFault
  MaxDay = 0
  MaxUnread = 1
PROPERTY MailIsPublished
