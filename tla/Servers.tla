------------------------------- MODULE Servers ------------------------------
(***************************************************************************)
(* A process with an HTTP, a TCP and an IPC server.  The servers share no  *)
(* state, so it is enough that one of them is started at a time: which one *)
(* is chosen in the initial state, and the others stay as they are.        *)
(***************************************************************************)
EXTENDS HttpServer, TcpServer, IpcServer

VARIABLE started  \* http, tcp or ipc

ASSUME SetupsAssumption == SetupsOK

allVars == <<started, vars, tcpVars, ipcVars>>

ServersInit ==
  /\ started \in {"http", "tcp", "ipc"}
  /\ Init /\ (started # "http" => config = CHOOSE c \in Configurations : TRUE)
  /\ TcpInit /\ (started # "tcp" => load = CHOOSE ld \in Loads : TRUE)
  /\ IpcInit /\ (started # "ipc" => ~path /\ setup = CHOOSE s \in Setups : TRUE)

ServersNext ==
  /\ UNCHANGED started
  /\ \/ started = "http" /\ Next /\ UNCHANGED <<tcpVars, ipcVars>>
     \/ started = "tcp" /\ TcpNext /\ UNCHANGED <<vars, ipcVars>>
     \/ started = "ipc" /\ IpcNext /\ UNCHANGED <<vars, tcpVars>>

ServersProgress ==
  \/ started = "http" /\ Progress /\ UNCHANGED <<tcpVars, ipcVars>>
  \/ started = "tcp" /\ TcpProgress /\ UNCHANGED <<vars, ipcVars>>
  \/ started = "ipc" /\ IpcProgress /\ UNCHANGED <<vars, tcpVars>>

ServersSpec ==
  ServersInit /\ [][ServersNext]_allVars /\ WF_allVars(UNCHANGED started /\ ServersProgress)
=============================================================================
