CONSTANTS
  s1 = s1  r1 = r1  r2 = r2  n1 = n1
  Sessions = {s1}
  PubSubSessions = {s1}
  Notifications = {n1}
  IdSpace = 3
  FirstId = 1
  NumericIds = TRUE
  Ids <- MCIds
  Requests = {r1, r2}
  SessionOf <- OneSession
  NotificationOf <- OneName
  NoRequest = NoRequest
  NoId = NoId
  Inline = {}
SPECIFICATION ManagerSpec
INVARIANT CancelReachesTask
CHECK_DEADLOCK FALSE
