CONSTANTS
  None = None
  r1 = r1
  r2 = r2
  c1 = c1
  c2 = c2
  address = address
  Nothing = Nothing
  NoConn = NoConn
  Requests = {r1, r2}
  MaxThreads = 2
  Lowercase <- MCLowercase
  PortNumber <- MCPortNumber
  Configurations <- MCConfigurations
  Kinds <- MCKinds
  Conns = {c1, c2}
  AddrOf <- MCAddrOf
  Loads <- MCLoads
  MaxConnections = 2
  MaxSessions = 2
  MaxDelay = 15
  Setups <- MCSetups
  client_buffer_size = 2
  IdSpan = 4
SPECIFICATION ServersSpec
INVARIANTS
  PermittedCall
  
  ClosingMeansClosed
  OwnerReturnsAfterServer
  TcpPeersTracked
  TcpExchange
  SessionsReported
  IpcExchange
PROPERTIES
  QuietAfterReturn
  CloseFinishes
  AcceptResumes
  ResponsesNotStarved
  IpcCloseFinishes
CHECK_DEADLOCK FALSE
