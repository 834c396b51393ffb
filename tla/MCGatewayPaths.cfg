\* One token and every call: does what follows /api/v1/reminders survive?
SPECIFICATION GatewaySpec
CONSTANTS
  r1 = r1  r2 = r2  e1 = e1  p1 = p1  p2 = p2  other = other  task = task  None = None
  Requests = {r1}
  Emails = {e1}
  Passwords = {p1}
  AccessTTL = 1
  RefreshTTL = 2
  Faults = {}
  MaxTime = 0
  MaxVersion = 1
  MaxTokens = 2
  MaxBreaks = 0
  Ids = {e1, other, task}
  Domains <- MCDomains
  Hosts <- MCHosts
  Imap <- MCImap
  Hostnames <- MCHostnames
  Calls <- MCCalls
PROPERTY RestOfPathKept
CHECK_DEADLOCK FALSE
