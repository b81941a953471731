CONSTANTS
  b1 = b1  b2 = b2  n1 = n1  x1 = x1  x2 = x2
  Calls = {}
  Subscribers = {b1, b2}
  Notifiers = {}
  Names = {n1}
  NameOf <- SameName
  Sids = {x1, x2}
  NoUser = NoUser  NoSid = NoSid  NoName = NoName  NoRequestId = NoRequestId
  SinkCapacity = 1
  MaxNotes = 2
  MaxOdd = 1
SYMMETRY Symmetry
SPECIFICATION DuplexSpec
INVARIANTS OwnNotifications MapHoldsOpenStreams
PROPERTY RefinesRpcCalls
CHECK_DEADLOCK FALSE
