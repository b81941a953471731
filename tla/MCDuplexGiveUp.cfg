CONSTANTS
  b1 = b1  b2 = b2  n1 = n1  x1 = x1  x2 = x2
  Calls = {c1, c2}
  Subscribers = {}
  Notifiers = {}
  Names = {n1}
  NameOf <- NoSubscriber
  Sids = {x1}
  NoUser = NoUser  NoSid = NoSid  NoName = NoName  NoRequestId = NoRequestId
  SinkCapacity = 1
  MaxNotes = 0
  MaxOdd = 0
SPECIFICATION DuplexSpec
PROPERTY FinishesOutstanding
CHECK_DEADLOCK FALSE
