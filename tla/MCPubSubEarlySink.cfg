CONSTANTS
  s1 = s1  s2 = s2  r1 = r1  r2 = r2  r3 = r3  n1 = n1
  Sessions = {s1}
  PubSubSessions = {s1}
  Notifications = {n1}
  Ids = {i1}
  Requests = {r1, r2}
  SessionOf <- PairSession
  NotificationOf <- PairName
  NoRequest = NoRequest
  NoId = NoId
SPECIFICATION Spec
INVARIANT EverySinkUnsubscribed
CHECK_DEADLOCK FALSE
