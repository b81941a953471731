------------------------------ MODULE IpcServer -----------------------------
(***************************************************************************)
(* The IPC server: sessions whose requests run concurrently up to          *)
(* client_buffer_size, SelectWithWeak merging their responses with what    *)
(* the session's sender pushes, and closing through Server and CloseHandle.*)
(*                                                                         *)
(* One task polls the endpoint and all sessions; the owner of the Server   *)
(* and of the CloseHandle are threads of their own.                        *)
(***************************************************************************)
EXTENDS StreamCodec

CONSTANTS
  Setups,             \* of a server and its clients: incoming_separator, executor,
                      \* close_handle (was one asked for), and for each connection
                      \* clients may open the messages sent and how many are pushed
  MaxSessions,        \* try_buffer_unordered's limit, 1024 in the code
  client_buffer_size, \* requests of a session in progress at a time
  IdSpan              \* session ids wrap at this many, 2^64 in the code

VARIABLES
  setup,      \* of this server
  ipc_server, \* starting, serving, stopping (signalled), stopped, failed
  session,    \* connection |-> the session on it
  next_id,    \* the last session id given
  executor,   \* InnerHandles::executor: Shared, Spawned, or none once taken
  stop,       \* InnerHandles::stop has not been taken
  path,       \* the socket's file exists
  thread      \* owner, closer |-> where that thread is

(* IPC clients send messages, over fewer connections than there are ids. *)
SetupsOK ==
  /\ client_buffer_size \in Nat /\ IdSpan \in Nat
  /\ \A s \in Setups :
       /\ s.incoming_separator \in Byte \union {Empty}
       /\ IsFiniteSet(DOMAIN s.messages) /\ Cardinality(DOMAIN s.messages) < IdSpan
       /\ \A c \in DOMAIN s.messages :
            s.messages[c] \in Seq(Seq(Byte)) /\ Framed(s.messages[c], s.incoming_separator)

ipcVars == <<setup, ipc_server, session, next_id, executor, stop, path, thread>>

sessions == <<session, next_id>>
handles == <<executor, stop, path>>

Connections == DOMAIN setup.messages

(***************************************************************************)
(* wire, eof, buf, readable: what is sent, read and not decoded; handled:  *)
(* the requests, running and ready the numbers of those in progress and of *)
(* those with a response to write, silent of those without; up_closed: the *)
(* reader has ended; accepted and taken: the channel of pushed messages;   *)
(* open_session and close_session: calls of SessionStats.                  *)
(***************************************************************************)
IpcFresh(wire) ==
  [at |-> "none", id |-> 0, wire |-> wire, eof |-> FALSE, buf |-> <<>>,
   readable |-> FALSE, up_closed |-> FALSE, handled |-> <<>>, running |-> {}, ready |-> {},
   silent |-> {}, accepted |-> 0, taken |-> 0, use_strong |-> FALSE, out |-> <<>>,
   open_session |-> 0, close_session |-> 0]

IpcInit ==
  /\ setup \in Setups
  /\ ipc_server = "starting"
  /\ session = [c \in Connections |-> IpcFresh(Sent(setup.messages[c], setup.incoming_separator))]
  /\ next_id = 0
  /\ executor = setup.executor
  /\ stop = TRUE
  /\ path \in BOOLEAN
  /\ thread = [owner |-> "idle", closer |-> IF setup.close_handle THEN "idle" ELSE "returned"]
-----------------------------------------------------------------------------
(* Starting and closing. *)

(***************************************************************************)
(* start: a file left behind is removed and the endpoint creates its own.  *)
(* On an error the handles are dropped, which removes the file again.      *)
(***************************************************************************)
IpcStart(ok) ==
  /\ ipc_server = "starting"
  /\ ipc_server' = IF ok THEN "serving" ELSE "failed"
  /\ path' = ok
  /\ stop' = ok
  /\ executor' = IF ok THEN executor ELSE "none"
  /\ UNCHANGED <<setup, sessions, thread>>

Other(a) == IF a = "owner" THEN "closer" ELSE "owner"

(* The last of the two Arcs to go drops InnerHandles, which closes it. *)
LastHandle(a) == thread[Other(a)] = "returned"

(* Holding the lock of InnerHandles, or alone with it in its Drop. *)
InClose(a) == thread[a] \in {"signal", "executor", "file"}

Goto(a, at) == thread' = [thread EXCEPT ![a] = at]

(* Server::close, CloseHandle::close, and the Drop of the last of them. *)
IpcClose(a) ==
  /\ ipc_server \notin {"starting", "failed"}
  /\ thread[a] = "idle" /\ ~InClose(Other(a))
  /\ Goto(a, "signal")
  /\ UNCHANGED <<setup, ipc_server, sessions, handles>>

(* Dropping a handle while there is another one only drops its Arc. *)
DropHandle(a) ==
  /\ ipc_server \notin {"starting", "failed"}
  /\ thread[a] = "idle" /\ ~LastHandle(a)
  /\ Goto(a, "returned")
  /\ UNCHANGED <<setup, ipc_server, sessions, handles>>

(* Mutant: the stop sender is left where it is. *)
KeepStop(a) ==
  /\ thread[a] = "signal"
  /\ Goto(a, "executor")
  /\ UNCHANGED <<setup, ipc_server, sessions, handles>>

(* InnerHandles::close, its three steps. *)
SendStop(a) ==
  /\ thread[a] = "signal"
  /\ stop' = FALSE
  /\ ipc_server' = IF stop /\ ipc_server = "serving" THEN "stopping" ELSE ipc_server
  /\ Goto(a, "executor")
  /\ UNCHANGED <<setup, sessions, executor, path>>

(* The server's future is dropped with all its sessions. *)
Halted ==
  /\ ipc_server' = "stopped"
  /\ session' = [c \in Connections |->
                   IF session[c].at = "open" THEN [session[c] EXCEPT !.at = "dropped"] ELSE session[c]]

(* A spawned event loop is closed and its runtime dropped, with the task. *)
IpcCloseExecutor(a) ==
  /\ thread[a] = "executor"
  /\ executor' = "none"
  /\ IF executor = "Spawned" THEN Halted ELSE UNCHANGED <<ipc_server, session>>
  /\ Goto(a, "file")
  /\ UNCHANGED <<setup, next_id, stop, path>>

RemoveFile(a) ==
  /\ thread[a] = "file"
  /\ path' = FALSE
  /\ Goto(a, "returned")
  /\ UNCHANGED <<setup, ipc_server, sessions, executor, stop>>

(* The task sees the stop signal, drops the server, then signals wait. *)
SeeStop ==
  /\ ipc_server = "stopping"
  /\ Halted
  /\ UNCHANGED <<setup, next_id, handles, thread>>

IpcWait ==
  /\ ipc_server \notin {"starting", "failed"} /\ thread["owner"] = "idle"
  /\ Goto("owner", "waiting")
  /\ UNCHANGED <<setup, ipc_server, sessions, handles>>

(* wait returns on the signal, or when its sender is gone, and drops self. *)
WaitReturns ==
  /\ thread["owner"] = "waiting" /\ ipc_server = "stopped"
  /\ Goto("owner", IF LastHandle("owner") THEN "signal" ELSE "returned")
  /\ UNCHANGED <<setup, ipc_server, sessions, handles>>
-----------------------------------------------------------------------------
(* Sessions. *)

Serving == ipc_server \in {"serving", "stopping"}

IpcOpen(c) == Serving /\ session[c].at = "open"

IpcStep(c, s) ==
  /\ session' = [session EXCEPT ![c] = s]
  /\ UNCHANGED <<setup, ipc_server, next_id, handles, thread>>

IpcConnect(c) ==
  /\ Serving /\ session[c].at = "none"
  /\ IpcStep(c, [session[c] EXCEPT !.at = "backlog"])

IpcAccept(c) ==
  /\ Serving /\ session[c].at = "backlog"
  /\ Cardinality({d \in Connections : session[d].at = "open"}) < MaxSessions
  /\ next_id' = (next_id + 1) % IdSpan
  /\ session' = [session EXCEPT ![c].at = "open", ![c].id = next_id', ![c].open_session = @ + 1]
  /\ UNCHANGED <<setup, ipc_server, handles, thread>>

(* try_buffer_unordered reads on while there is room. *)
Reading(c) ==
  IpcOpen(c) /\ Cardinality(session[c].running \union session[c].ready) < client_buffer_size

IpcRead(c) ==
  /\ Reading(c) /\ ~session[c].readable
  /\ \E n \in 1 .. Len(session[c].wire) :
       IpcStep(c, [session[c] EXCEPT !.buf = @ \o SubSeq(session[c].wire, 1, n),
                                     !.wire = SubSeq(@, n + 1, Len(@)), !.readable = TRUE])

(* forward has returned, well (finished) or not (failed): then(close_session). *)
Ended(s, how) == [s EXCEPT !.at = how, !.close_session = @ + 1]

IpcHandle(s, d) ==
  [s EXCEPT !.buf = d.rest, !.handled = Append(@, d.message),
            !.running = @ \union {Len(s.handled) + 1}]

IpcDecode(c) ==
  /\ Reading(c) /\ session[c].readable
  /\ \E d \in {decode(session[c].buf, setup.incoming_separator)} :
       IpcStep(c, CASE d.error -> Ended(session[c], "failed")
                  [] ~d.error /\ d.message # Nothing -> IpcHandle(session[c], d)
                  [] OTHER -> [session[c] EXCEPT !.buf = d.rest, !.readable = FALSE])

(* Framed at the end of the input: bytes left over are an error. *)
IpcEndOfInput(c) ==
  /\ Reading(c) /\ ~session[c].readable
  /\ session[c].wire = <<>> /\ session[c].eof /\ ~session[c].up_closed
  /\ \E d \in {decode(session[c].buf, setup.incoming_separator)} :
       IpcStep(c, CASE d.message # Nothing -> IpcHandle(session[c], d)
                  [] d.message = Nothing /\ ~d.error /\ d.rest = <<>> ->
                       [session[c] EXCEPT !.buf = <<>>, !.up_closed = TRUE]
                  [] OTHER -> Ended(session[c], "failed"))

(* A request completes; None is filtered out. *)
Complete(c) ==
  /\ IpcOpen(c)
  /\ \E i \in session[c].running, responds \in BOOLEAN :
       IpcStep(c, [session[c] EXCEPT !.running = @ \ {i},
                                     !.ready = IF responds THEN @ \union {i} ELSE @,
                                     !.silent = IF responds THEN @ ELSE @ \union {i}])

(* The responses have ended; or they are not ready and have not. *)
StrongEnds(s) == s.up_closed /\ s.running = {} /\ s.ready = {}
StrongPending(c) ==
  session[c].ready = {} /\ ~StrongEnds(session[c]) /\ ~(Reading(c) /\ session[c].readable)
WeakReady(s) == s.taken < s.accepted

(***************************************************************************)
(* SelectWithWeak::poll_next and the write of its item: use_strong says    *)
(* which stream comes first, the other one only if that is pending.        *)
(***************************************************************************)
ForwardStrong(c) ==
  /\ IpcOpen(c) /\ (session[c].use_strong \/ ~WeakReady(session[c]))
  /\ \E i \in session[c].ready :
       IpcStep(c, [session[c] EXCEPT !.ready = @ \ {i}, !.out = Append(@, [response |-> i]),
                                     !.use_strong = FALSE])

(* Mutant: use_strong is set only after both streams were pending. *)
ForwardWeakAgain(c) ==
  /\ IpcOpen(c) /\ WeakReady(session[c]) /\ (~session[c].use_strong \/ StrongPending(c))
  /\ IpcStep(c, [session[c] EXCEPT !.taken = @ + 1, !.out = Append(@, [push |-> session[c].taken + 1])])

ForwardWeak(c) ==
  /\ IpcOpen(c) /\ WeakReady(session[c]) /\ (~session[c].use_strong \/ StrongPending(c))
  /\ IpcStep(c, [session[c] EXCEPT !.taken = @ + 1, !.out = Append(@, [push |-> session[c].taken + 1]),
                                   !.use_strong = TRUE])

(* Mutant: the merged stream ends with the reader. *)
ForwardEndsEarly(c) ==
  /\ IpcOpen(c) /\ session[c].up_closed /\ (session[c].use_strong \/ ~WeakReady(session[c]))
  /\ IpcStep(c, Ended(session[c], "finished"))

ForwardEnds(c) ==
  /\ IpcOpen(c) /\ StrongEnds(session[c]) /\ (session[c].use_strong \/ ~WeakReady(session[c]))
  /\ IpcStep(c, Ended(session[c], "finished"))

ForwardPending(c) ==
  /\ IpcOpen(c) /\ ~session[c].use_strong /\ StrongPending(c) /\ ~WeakReady(session[c])
  /\ IpcStep(c, [session[c] EXCEPT !.use_strong = TRUE])

(* Mutant: an error skips close_session. *)
WriteFailsUnreported(c) ==
  /\ IpcOpen(c)
  /\ IpcStep(c, [session[c] EXCEPT !.at = "failed", !.eof = TRUE])

(* The peer is gone, and a write to it fails. *)
IpcWriteFails(c) ==
  /\ IpcOpen(c)
  /\ IpcStep(c, [Ended(session[c], "failed") EXCEPT !.eof = TRUE])

(* The client has sent all it wanted to. *)
IpcHangUp(c) ==
  /\ Serving /\ session[c].at \in {"backlog", "open"} /\ ~session[c].eof
  /\ IpcStep(c, [session[c] EXCEPT !.eof = TRUE])

(* The sender the metadata got in its RequestContext. *)
Push(c) ==
  /\ IpcOpen(c) /\ session[c].accepted < setup.pushes[c]
  /\ IpcStep(c, [session[c] EXCEPT !.accepted = @ + 1])
-----------------------------------------------------------------------------
IpcServe(c) ==
  \/ IpcAccept(c) \/ IpcRead(c) \/ IpcDecode(c) \/ IpcEndOfInput(c) \/ Complete(c)
  \/ ForwardStrong(c) \/ ForwardWeak(c) \/ ForwardEnds(c) \/ ForwardPending(c)

IpcProgress ==
  \/ SeeStop \/ WaitReturns
  \/ \E a \in {"owner", "closer"} : SendStop(a) \/ IpcCloseExecutor(a) \/ RemoveFile(a)

IpcNext ==
  \/ \E ok \in BOOLEAN : IpcStart(ok)
  \/ \E a \in {"owner", "closer"} : IpcClose(a) \/ DropHandle(a)
  \/ IpcWait \/ IpcProgress
  \/ \E c \in Connections : IpcConnect(c) \/ IpcServe(c) \/ IpcWriteFails(c) \/ IpcHangUp(c) \/ Push(c)

(* Threads run on, and the task sees its stop signal among other work. *)
IpcFairness == WF_ipcVars(IpcProgress)

IpcSpec == IpcInit /\ [][IpcNext]_ipcVars /\ IpcFairness
-----------------------------------------------------------------------------
(***************************************************************************)
(* SessionStats see every session opened once, and closed once when it     *)
(* ended on its own, whatever ended it, and not before.  Sessions dropped  *)
(* with the server are left to EverySessionReportedClosed.  Sessions have  *)
(* different ids.                                                          *)
(***************************************************************************)
SessionsReported ==
  /\ \A c \in Connections :
       /\ session[c].open_session = (IF session[c].at \in {"none", "backlog"} THEN 0 ELSE 1)
       /\ session[c].at # "dropped" =>
            session[c].close_session = (IF session[c].at \in {"finished", "failed"} THEN 1 ELSE 0)
  /\ \A c, d \in Connections :
       session[c].at = "open" /\ session[d].at = "open" /\ c # d => session[c].id # session[d].id

(***************************************************************************)
(* What SessionStats says of close_session, "Executed when session is      *)
(* closed.": when the server has stopped, every session it opened was      *)
(* reported closed.                                                        *)
(***************************************************************************)
EverySessionReportedClosed ==
  ipc_server = "stopped" =>
    \A c \in Connections : session[c].close_session = session[c].open_session

(***************************************************************************)
(* However the bytes are cut, each message of the client is handled once,  *)
(* no more than client_buffer_size at a time, and answered at most once;   *)
(* pushed messages are written in order; and a session that finished has   *)
(* answered every request that has a response.                             *)
(***************************************************************************)
IpcExchange ==
  \A c \in Connections :
    LET s == session[c]
        sent == Texts(setup.messages[c])
        responses == {i \in DOMAIN s.out : "response" \in DOMAIN s.out[i]}
        answered == {s.out[i].response : i \in responses}
    IN  /\ Len(s.handled) <= Len(sent) /\ s.handled = SubSeq(sent, 1, Len(s.handled))
        /\ Cardinality(s.running \union s.ready) <= client_buffer_size
        /\ \A i, j \in responses : s.out[i].response = s.out[j].response => i = j
        /\ answered \subseteq DOMAIN s.handled \ (s.running \union s.ready \union s.silent)
        /\ Subsequence(s.out, DOMAIN s.out \ responses) = [i \in 1 .. s.taken |-> [push |-> i]]
        /\ s.at = "finished" => s.handled = sent /\ answered \union s.silent = DOMAIN sent

ResponseFirst ==
  \A c \in Connections :
    LET n == Len(session[c].out)
    IN  /\ n > 0 /\ "push" \in DOMAIN session[c].out[n]
        /\ Len(session'[c].out) > n /\ "push" \in DOMAIN session'[c].out[n + 1]
        => session[c].ready = {}

(***************************************************************************)
(* SelectWithWeak is fair to the responses: after a pushed message is      *)
(* written, no other one goes before a response that is ready.             *)
(***************************************************************************)
ResponsesNotStarved == [][ResponseFirst]_ipcVars

(***************************************************************************)
(* close, from either handle and with either kind of executor, stops the   *)
(* server, removes the file and lets wait return.                          *)
(***************************************************************************)
IpcCloseFinishes ==
  (\E a \in {"owner", "closer"} : InClose(a))
  ~> (ipc_server = "stopped" /\ ~path /\ thread["owner"] # "waiting")
=============================================================================
