CONSTANTS
  s1 = s1  s2 = s2  r1 = r1  r2 = r2  r3 = r3  n1 = n1
  Sessions = {s1, s2}
  PubSubSessions = {s1}
  Notifications = {n1}
  Ids = {i1, i2}
  Requests = {r1, r2, r3}
  SessionOf <- TwoSessions
  NotificationOf <- OneName
  NoRequest = NoRequest
  NoId = NoId
SPECIFICATION FairSpec
INVARIANTS UnsubscribedOnce AwaitedSinkUnsubscribed ErrMeansUnregistered IInv
PROPERTIES RefinesSubscriptions ClosedSessionIsCleaned
CHECK_DEADLOCK FALSE
