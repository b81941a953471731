------------------------------ MODULE TcpServer -----------------------------
(***************************************************************************)
(* The TCP server: accepting connections (SuspendableStream), serving the  *)
(* requests of each in order, and the Dispatcher that pushes messages to   *)
(* peers by their address.                                                 *)
(*                                                                         *)
(* One task polls the listener and all connections.  Bytes arrive in       *)
(* pieces of any size; tokio's Framed (external) reads them into a buffer  *)
(* and calls decode until it has no message left.                          *)
(***************************************************************************)
EXTENDS StreamCodec

CONSTANTS
  Conns,          \* connections clients may open
  AddrOf,         \* connection |-> address of the peer
  Loads,          \* of a server and its clients: incoming_separator, which clients
                  \* connect, the messages each one sends and how many are pushed to it
  MaxConnections, \* buffer_unordered's limit, 1024 in the code
  MaxDelay,       \* SuspendableStream's max_delay, 5000 in the code
  NoConn          \* no sender for an address

VARIABLES
  load,       \* of this server
  server,     \* starting, serving, failed, stopped
  next_delay, \* SuspendableStream: milliseconds
  suspended,  \* no, yes, due (the deadline has passed)
  channels,   \* address |-> connection whose sender is registered
  conn        \* connection |-> its state

(* Connections have addresses, and their clients send messages. *)
ASSUME ConnsAssumption ==
  /\ NoConn \notin Conns
  /\ DOMAIN AddrOf = Conns
  /\ \A ld \in Loads :
       /\ ld.separator \in Byte \union {Empty}
       /\ \A c \in Conns :
            ld.messages[c] \in Seq(Seq(Byte)) /\ Framed(ld.messages[c], ld.separator)

tcpVars == <<load, server, next_delay, suspended, channels, conn>>

initial_delay == 10

(* What is written: a response, or a pushed message by its number. *)
Response == 0

Addresses == {AddrOf[c] : c \in Conns}

(***************************************************************************)
(* wire: bytes not read yet; eof: the client ends after them; readable:    *)
(* decode may find more in buf; request: being handled; accepted and taken:*)
(* the channel of pushed messages; up_closed: no more responses.           *)
(***************************************************************************)
Fresh(c, ld) ==
  [at |-> "none", eof |-> FALSE, buf |-> <<>>, readable |-> FALSE,
   request |-> Nothing, up_closed |-> FALSE, accepted |-> <<>>, taken |-> 0,
   wire |-> Sent(ld.messages[c], ld.separator),
   handled |-> <<>>, out |-> <<>>]

TcpInit ==
  /\ load \in Loads
  /\ server = "starting"
  /\ next_delay = 20
  /\ suspended = "no"
  /\ channels = [a \in Addresses |-> NoConn]
  /\ conn = [c \in Conns |-> Fresh(c, load)]

(* The receiver of pushed messages lives as long as PeerMessageQueue has it. *)
HasReceiver(c) == conn[c].at \in {"open", "closing"}

LiveIn(cs) == {c \in Conns : cs[c].at \in {"open", "closing", "removing"}}

(* What happens to a connection without the server's task running. *)
Alter(c, s) ==
  /\ conn' = [conn EXCEPT ![c] = s]
  /\ UNCHANGED <<load, server, next_delay, suspended, channels>>

(* Mutant: the listener is looked at only when no connection is left. *)
PollListenerWhenIdle ==
  suspended' = IF suspended = "due" /\ LiveIn(conn') = {} THEN "no" ELSE suspended

(***************************************************************************)
(* The sleep of a suspended listener is dropped when poll_next returns     *)
(* Pending, and its timer with it: the deadline wakes nobody.  It is seen  *)
(* when a connection wakes the task and there is room for another one.     *)
(***************************************************************************)
PollListener ==
  suspended' = IF suspended = "due" /\ Cardinality(LiveIn(conn')) < MaxConnections
               THEN "no" ELSE suspended

(* A step of the task for a connection. *)
Step(c, s) ==
  /\ conn' = [conn EXCEPT ![c] = s]
  /\ PollListener
  /\ UNCHANGED <<load, server, next_delay, channels>>
-----------------------------------------------------------------------------
(* The server and its listener. *)

(* start: the task binds and tells the blocked caller. *)
Start(ok) ==
  /\ server = "starting"
  /\ server' = IF ok THEN "serving" ELSE "failed"
  /\ UNCHANGED <<load, next_delay, suspended, channels, conn>>

(***************************************************************************)
(* The end of the server's task: it sees the stop signal that close and    *)
(* Drop send, or its own runtime is dropped by close or wait.  With a      *)
(* shared executor the caller may have returned before.  All connections   *)
(* are dropped as they are; the Dispatcher keeps its map.                  *)
(***************************************************************************)
Stop ==
  /\ server = "serving"
  /\ server' = "stopped"
  /\ conn' = [c \in Conns |-> IF c \in LiveIn(conn) THEN [conn[c] EXCEPT !.at = "dropped"] ELSE conn[c]]
  /\ UNCHANGED <<load, next_delay, suspended, channels>>

(***************************************************************************)
(* A client connects: the kernel queues the connection.  An address is     *)
(* used again only after the client is done with it; the server may not be.*)
(***************************************************************************)
Connect(c) ==
  /\ server = "serving" /\ c \in load.clients /\ conn[c].at = "none"
  /\ \A d \in Conns \ {c} : AddrOf[d] = AddrOf[c] => conn[d].at = "none" \/ conn[d].eof
  /\ Alter(c, [conn[c] EXCEPT !.at = "backlog"])

(* The listener is polled: there is room, and no deadline to wait for. *)
Polls ==
  server = "serving" /\ suspended = "no" /\ Cardinality(LiveIn(conn)) < MaxConnections

(***************************************************************************)
(* A connection is accepted; without a peer address it is ignored, else    *)
(* its sender replaces one registered for the same address.                *)
(***************************************************************************)
AcceptSocket(c, addr_known) ==
  /\ Polls /\ conn[c].at = "backlog"
  /\ next_delay' = IF next_delay > initial_delay THEN initial_delay ELSE next_delay
  /\ conn' = [conn EXCEPT ![c].at = IF addr_known THEN "open" ELSE "ignored"]
  /\ channels' = IF addr_known THEN [channels EXCEPT ![AddrOf[c]] = c] ELSE channels
  /\ UNCHANGED <<load, server, suspended>>

(* A connection_error of accept: that connection is gone, polling goes on. *)
AcceptAborted(c) ==
  /\ Polls /\ conn[c].at = "backlog"
  /\ Alter(c, [conn[c] EXCEPT !.at = "ignored"])

(* Any other error suspends the listener, for twice as long as before. *)
AcceptFails ==
  /\ Polls
  /\ next_delay' = IF next_delay < MaxDelay THEN next_delay * 2 ELSE next_delay
  /\ suspended' = "yes"
  /\ UNCHANGED <<load, server, channels, conn>>

Elapse ==
  /\ server = "serving" /\ suspended = "yes"
  /\ suspended' = "due"
  /\ UNCHANGED <<load, server, next_delay, channels, conn>>

-----------------------------------------------------------------------------
(* A connection: reader, service, PeerMessageQueue and writer. *)

Open(c) == server = "serving" /\ conn[c].at = "open"

(* A piece of what the client sent is read. *)
Read(c) ==
  /\ Open(c) /\ ~conn[c].readable /\ conn[c].request = Nothing
  /\ \E n \in 1 .. Len(conn[c].wire) :
       Step(c, [conn[c] EXCEPT !.buf = @ \o SubSeq(conn[c].wire, 1, n),
                                 !.wire = SubSeq(@, n + 1, Len(@)), !.readable = TRUE])

(* Mutant: what was read behind the message is lost. *)
HandleClearing(s, d) ==
  [s EXCEPT !.buf = <<>>, !.request = d.message, !.handled = Append(@, d.message)]

(* A message goes to Service::call, one at a time. *)
Handle(s, d) ==
  [s EXCEPT !.buf = d.rest, !.request = d.message, !.handled = Append(@, d.message)]

(* The stream ends with an error: send_all returns it, nothing is removed. *)
Failed(s) == [s EXCEPT !.at = "failed"]

Decode(c) ==
  /\ Open(c) /\ conn[c].readable /\ conn[c].request = Nothing
  /\ \E d \in {decode(conn[c].buf, load.separator)} :
       Step(c, CASE d.error -> Failed(conn[c])
               [] ~d.error /\ d.message # Nothing -> Handle(conn[c], d)
               [] OTHER -> [conn[c] EXCEPT !.buf = d.rest, !.readable = FALSE])

(* Framed at the end of the input: bytes left over are an error. *)
EndOfInput(c) ==
  /\ Open(c) /\ ~conn[c].readable /\ conn[c].request = Nothing
  /\ conn[c].wire = <<>> /\ conn[c].eof /\ ~conn[c].up_closed
  /\ \E d \in {decode(conn[c].buf, load.separator)} :
       Step(c, CASE d.message # Nothing -> Handle(conn[c], d)
               [] d.message = Nothing /\ ~d.error /\ d.rest = <<>> ->
                    [conn[c] EXCEPT !.buf = <<>>, !.up_closed = TRUE]
               [] OTHER -> Failed(conn[c]))

(* The request completes; one without a response is answered by an empty line. *)
Respond(c) ==
  /\ Open(c) /\ conn[c].request # Nothing
  /\ Step(c, [conn[c] EXCEPT !.request = Nothing, !.out = Append(@, Response)])

(* PeerMessageQueue::poll_next: no response is ready, a pushed message is. *)
TakePush(c) ==
  /\ Open(c) /\ ~(conn[c].readable /\ conn[c].request = Nothing)
  /\ conn[c].taken < Len(conn[c].accepted)
  /\ Step(c, [conn[c] EXCEPT !.taken = @ + 1,
                               !.out = Append(@, conn[c].accepted[conn[c].taken + 1])])

(* Neither a response to come nor a pushed message: the queue ends. *)
QueueEnds(c) ==
  /\ Open(c) /\ conn[c].up_closed /\ conn[c].taken = Len(conn[c].accepted)
  /\ Step(c, [conn[c] EXCEPT !.at = "closing"])

(* Its receiver is dropped; what was sent meanwhile is lost. *)
DropReceiver(c) ==
  /\ server = "serving" /\ conn[c].at = "closing"
  /\ Step(c, [conn[c] EXCEPT !.at = "removing"])

(* Mutant: the entry is left behind. *)
ForgetRemoval(c) ==
  /\ server = "serving" /\ conn[c].at = "removing"
  /\ Step(c, [conn[c] EXCEPT !.at = "finished"])

(* The writer is done and removes whatever is registered for its address. *)
RemoveChannel(c) ==
  /\ server = "serving" /\ conn[c].at = "removing"
  /\ conn' = [conn EXCEPT ![c].at = "finished"]
  /\ channels' = [channels EXCEPT ![AddrOf[c]] = NoConn]
  /\ PollListener
  /\ UNCHANGED <<load, server, next_delay>>

(* Writing to a peer that is gone fails: the removal is skipped. *)
WriteFails(c) ==
  /\ server = "serving" /\ c \in LiveIn(conn)
  /\ Step(c, Failed(conn[c]))

(* The client has sent all it wanted to. *)
HangUp(c) ==
  /\ server = "serving" /\ conn[c].at \in {"backlog", "open"} /\ ~conn[c].eof
  /\ Alter(c, [conn[c] EXCEPT !.eof = TRUE])

(***************************************************************************)
(* Dispatcher::push_message, from any thread: NoSuchPeer without an entry, *)
(* Send if its receiver is gone; neither changes anything.                 *)
(***************************************************************************)
PushMessage(a) ==
  /\ channels[a] # NoConn /\ HasReceiver(channels[a])
  /\ LET c == channels[a]
     IN  /\ Len(conn[c].accepted) < load.pushes[c]
         /\ Alter(c, [conn[c] EXCEPT !.accepted = Append(@, Len(@) + 1)])
-----------------------------------------------------------------------------
Serve(c) ==
  \/ Read(c) \/ Decode(c) \/ EndOfInput(c) \/ Respond(c) \/ TakePush(c)
  \/ QueueEnds(c) \/ DropReceiver(c) \/ RemoveChannel(c)

TcpNext ==
  \/ \E ok \in BOOLEAN : Start(ok) \/ \E c \in Conns : AcceptSocket(c, ok)
  \/ Stop \/ AcceptFails \/ Elapse
  \/ \E c \in Conns : Connect(c) \/ AcceptAborted(c) \/ Serve(c) \/ WriteFails(c) \/ HangUp(c)
  \/ \E a \in Addresses : PushMessage(a)

TcpProgress == Elapse \/ \E c \in Conns : Serve(c)

(* The task is run when it is woken, and time passes. *)
TcpFairness == WF_tcpVars(TcpProgress)

TcpSpec == TcpInit /\ [][TcpNext]_tcpVars /\ TcpFairness
-----------------------------------------------------------------------------
(***************************************************************************)
(* What is_connected and peer_count tell: an entry of a running server     *)
(* belongs to a connection that lives or failed (the writer's ? skips the  *)
(* removal), and a live one has its entry until its queue ends, unless     *)
(* another connection has or had the same address.                         *)
(***************************************************************************)
Sharing(c) == {d \in Conns \ {c} : AddrOf[d] = AddrOf[c] /\ conn[d].at \notin {"none", "backlog"}}

TcpPeersTracked ==
  server = "serving" =>
    /\ \A a \in Addresses : channels[a] # NoConn =>
         AddrOf[channels[a]] = a /\ conn[channels[a]].at \in {"open", "closing", "removing", "failed"}
    /\ \A c \in LiveIn(conn) : channels[AddrOf[c]] = c \/ Sharing(c) # {}

(***************************************************************************)
(* However the bytes are cut, the service gets the client's messages, each *)
(* once and in order; each is answered before the next is taken; pushed    *)
(* messages are written in the order push_message accepted them; and a     *)
(* connection that finished has served everything the client sent.         *)
(***************************************************************************)
TcpExchange ==
  \A c \in Conns :
    LET s == conn[c]
        sent == Texts(load.messages[c])
        responses == {i \in DOMAIN s.out : s.out[i] = Response}
    IN  /\ Len(s.handled) <= Len(sent) /\ s.handled = SubSeq(sent, 1, Len(s.handled))
        /\ Len(Subsequence(s.out, responses)) = Len(s.handled) - (IF s.request = Nothing THEN 0 ELSE 1)
        /\ s.taken <= Len(s.accepted)
        /\ Subsequence(s.out, DOMAIN s.out \ responses) = SubSeq(s.accepted, 1, s.taken)
        /\ s.at = "finished" => s.handled = sent

(* Nothing to do for a connection: the task is not woken. *)
Quiet(c) ==
  /\ conn[c].at = "open" /\ conn[c].wire = <<>> /\ ~conn[c].eof
  /\ ~conn[c].readable /\ conn[c].request = Nothing /\ conn[c].taken = Len(conn[c].accepted)

(***************************************************************************)
(* A listener suspended by an accept error is polled again after its       *)
(* deadline as soon as some connection has anything to do: only an idle,   *)
(* full or stopped server leaves it suspended.                             *)
(***************************************************************************)
AcceptResumes ==
  (/\ suspended = "due" /\ Cardinality(LiveIn(conn)) < MaxConnections
   /\ \E c \in LiveIn(conn) : ~Quiet(c))
  ~> (suspended = "no" \/ server = "stopped")
=============================================================================
