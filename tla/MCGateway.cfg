\* Two requests at once, two passwords, tokens that expire; a store may fail,
\* Redis may forget, the auth service may die.
SPECIFICATION GatewaySpec
CONSTANTS
  r1 = r1  r2 = r2  e1 = e1  p1 = p1  p2 = p2  other = other  task = task  None = None
  Requests = {r1, r2}
  Emails = {e1}
  Passwords = {p1, p2}
  AccessTTL = 1
  RefreshTTL = 2
  Faults <- AllFaults
  MaxTime = 1
  MaxVersion = 2
  MaxTokens = 3
  MaxBreaks = 1
  Ids = {e1, other, task}
  Domains <- MCDomains
  Hosts <- MCHosts
  Imap <- MCImap
  Hostnames <- MCHostnames
  Calls <- MCCalls
SYMMETRY MCSymmetry
INVARIANT RevokedRefused
INVARIANT VersionPinsPassword
INVARIANT RevokedNotServed
PROPERTY EndedForGood
PROPERTY LateAnswerAdmitsNobody
PROPERTY OwnDataOnly
PROPERTY TLSByDefault
PROPERTY AddressSuffices
\* The clock stops at its bound.
CHECK_DEADLOCK FALSE
