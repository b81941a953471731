CONSTANTS
  m1 = m1  m2 = m2  m3 = m3
  MethodNames = {m1, m2, m3}
  CallIds = {i1}
  NoMethod = NoMethod  Null = Null
  Delegates = {"handler", "api", "other"}
  NoDelegate = "nobody"
  Registrations <- MCRegistrations
  Middlewares <- MCMiddlewares
  MaxBatch <- MCMaxBatch
  MaxAdds = 2
  s1 = s1  s2 = s2  r1 = r1  r2 = r2  n1 = n1
  Sessions = {s1, s2}
  PubSubSessions = {s1, s2}
  Notifications = {n1}
  IdSpace = 3
  FirstId = 1
  NumericIds = TRUE
  Ids <- MCIds
  Requests = {r1, r2}
  SessionOf <- TwoSessions
  NotificationOf <- OneName
  NoRequest = NoRequest
  NoId = NoId
  Inline = {r1}
  Calls = {c1, c2}
  Subscribers = {}
  Notifiers = {p1}
  Names = {n1}
  NameOf <- NoSubscriber
  Sids = {x1}
  NoUser = NoUser  NoSid = NoSid  NoName = NoName  NoRequestId = NoRequestId
  SinkCapacity = 1
  MaxNotes = 0
  MaxOdd = 0
SPECIFICATION CoreSpec
INVARIANTS
  Correlated
  DispatchedAtArrival
  ManagerTypeOK
  NoOrphanTask
  OnlyOwnCancel
  CancelReachesInlineTask
  OwnAnswer
  CallTracked
PROPERTIES
  RequestCompletes
  UnsubscribeStopsTask
  CallsResolve
  DroppedClientEnds
CHECK_DEADLOCK FALSE
