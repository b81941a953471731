------------------------------ MODULE WsServer ------------------------------
(***************************************************************************)
(* The WebSocket server: the sessions its event loop thread owns, the      *)
(* tasks in which an executor answers their requests, the task that sends  *)
(* a session's notifications, and closing the server from other threads.   *)
(*                                                                         *)
(* A task is tied to its session by an entry of the session's slab: a      *)
(* sender that Drop for Session uses, and that the task's LivenessPoll     *)
(* removes when the task is dropped.  Both run on different threads.       *)
(***************************************************************************)
EXTENDS Naturals, Sequences, FiniteSets

CONSTANTS
  Connections,
  Tasks,        \* requests, each answered by a task of its own
  SessionOf,    \* the connection a request arrives on
  Closers,      \* threads that use a CloseHandle or drop the Server
  NoTask,       \* a vacant entry of a slab
  MaxNotes      \* bound: notifications per connection

ASSUME WsServerAssumption ==
  /\ SessionOf \in [Tasks -> Connections]
  /\ NoTask \notin Tasks
  /\ MaxNotes \in Nat

VARIABLES
  event_loop, \* thread of ws.run: running, told to shut down, out of its loop, ended
  shared,     \* the executor is Executor::Shared
  executor,   \* kept in the handle, or taken by a closer, then closed
  closer,     \* where a closing thread is
  session,    \* life of a connection's Session
  metadata,   \* Session::metadata is Some
  active,     \* Session::active, shared with the Sender and the tasks
  stats,      \* sessions for which open_session and close_session were called
  slab,       \* Session::task_slab: index |-> task
  armed,      \* the slab entry of a task still has its sender
  task,       \* a request's task
  slot,       \* LivenessPoll::slab_handle
  signal,     \* its receiver is ready
  sinks,      \* handlers hold clones of the session's mpsc sender
  notes,      \* notifications in that channel
  noted,      \* notifications so far
  pump,       \* SenderFuture: none, running, ended
  sent,       \* notifications handed to the socket
  answered    \* requests whose response was

serverVars == <<event_loop, shared, executor, closer>>
sessionVars == <<session, metadata, active, stats>>
taskVars == <<slab, armed, task, slot, signal>>
noteVars == <<sinks, notes, noted, pump>>
outVars == <<sent, answered>>
vars == <<serverVars, sessionVars, taskVars, noteVars, outVars>>

Slots == 1 .. Cardinality(Tasks)

Lives == {"none", "made", "open", "refused", "dropping", "dropped"}

TypeOK ==
  /\ session \in [Connections -> Lives]
  /\ metadata \in [Connections -> BOOLEAN]
  /\ stats \in [opened : SUBSET Connections, closed : SUBSET Connections]
  /\ slab \in [Connections -> [Slots -> Tasks \cup {NoTask}]]
  /\ task \in [Tasks -> {"none", "running", "sending", "ending", "ended"}]
  /\ slot \in [Tasks -> Slots \cup {0}]
  /\ pump \in [Connections -> {"none", "running", "ended"}]
  /\ noted \in [Connections -> Nat]
  /\ notes \in [Connections -> Seq(Nat)]
  /\ sent \in [Connections -> Seq(Nat)]

Init ==
  /\ event_loop = "running" /\ shared \in BOOLEAN /\ executor = "held"
  /\ closer = [h \in Closers |-> "idle"]
  /\ session = [c \in Connections |-> "none"]
  /\ metadata = [c \in Connections |-> FALSE]
  /\ active = [c \in Connections |-> FALSE]
  /\ stats = [opened |-> {}, closed |-> {}]
  /\ slab = [c \in Connections |-> [i \in Slots |-> NoTask]]
  /\ armed = [t \in Tasks |-> FALSE]
  /\ task = [t \in Tasks |-> "none"]
  /\ slot = [t \in Tasks |-> 0]
  /\ signal = [t \in Tasks |-> FALSE]
  /\ sinks = [c \in Connections |-> FALSE]
  /\ notes = [c \in Connections |-> <<>>]
  /\ noted = [c \in Connections |-> 0]
  /\ pump = [c \in Connections |-> "none"]
  /\ sent = [c \in Connections |-> <<>>]
  /\ answered = {}

TasksOf(c) == {t \in Tasks : SessionOf[t] = c}

(***************************************************************************)
(* Tasks are polled, and spawned for good, unless their runtime is gone.   *)
(***************************************************************************)
Executes == shared \/ executor # "closed"

LoopRuns == event_loop \in {"running", "shutdown"}

-----------------------------------------------------------------------------
(* The event loop thread.                                                  *)

(***************************************************************************)
(* Factory::connection_made.                                               *)
(***************************************************************************)
ConnectionMade(c) ==
  /\ LoopRuns
  /\ session[c] = "none"
  /\ session' = [session EXCEPT ![c] = "made"]
  /\ active' = [active EXCEPT ![c] = TRUE]
  /\ stats' = [stats EXCEPT !.opened = @ \cup {c}]
  /\ UNCHANGED <<serverVars, metadata, taskVars, noteVars, outVars>>

(* The headers that on_request may verify.                                 *)
Checks == {"origin", "host"}

(* Mutant: the metadata is extracted only where the action is Proceed.     *)
OnRequestLate(c, proceed, verify, allowed, upgrade) ==
  /\ LoopRuns
  /\ session[c] = "made"
  /\ proceed => verify = Checks
  /\ \/ /\ verify \subseteq allowed
        /\ metadata' = [metadata EXCEPT ![c] = proceed]
        /\ session' = [session EXCEPT ![c] = IF upgrade THEN "open" ELSE "refused"]
        /\ \E wanted \in BOOLEAN : pump' = [pump EXCEPT ![c] = IF wanted THEN "running" ELSE @]
     \/ /\ ~(verify \subseteq allowed)
        /\ session' = [session EXCEPT ![c] = "refused"]
        /\ UNCHANGED <<metadata, pump>>
  /\ UNCHANGED <<serverVars, active, stats, taskVars, sinks, notes, noted, outVars>>

(***************************************************************************)
(* on_request: `verify` holds the checks the middleware's action asks for  *)
(* (both of them for Proceed) and `allowed` those the headers pass.  The   *)
(* metadata is extracted before the middleware's own response is used, and *)
(* extracting it may ask for the session's sender.                         *)
(***************************************************************************)
OnRequest(c, proceed, verify, allowed, upgrade) ==
  /\ LoopRuns
  /\ session[c] = "made"
  /\ proceed => verify = Checks
  /\ \/ /\ verify \subseteq allowed
        /\ metadata' = [metadata EXCEPT ![c] = TRUE]
        /\ session' = [session EXCEPT ![c] = IF upgrade THEN "open" ELSE "refused"]
        /\ \E wanted \in BOOLEAN : pump' = [pump EXCEPT ![c] = IF wanted THEN "running" ELSE @]
     \/ /\ ~(verify \subseteq allowed)
        /\ session' = [session EXCEPT ![c] = "refused"]
        /\ UNCHANGED <<metadata, pump>>
  /\ UNCHANGED <<serverVars, active, stats, taskVars, sinks, notes, noted, outVars>>

(***************************************************************************)
(* on_message: LivenessPoll::create takes any vacant index of the slab,    *)
(* the request is handed to the handler, the task is spawned.  A runtime   *)
(* that was shut down drops it at once.                                    *)
(***************************************************************************)
OnMessage(t) ==
  LET c == SessionOf[t]
  IN  /\ LoopRuns
      /\ session[c] = "open"
      /\ task[t] = "none"
      /\ \E i \in Slots :
           /\ slab[c][i] = NoTask
           /\ slab' = [slab EXCEPT ![c][i] = t]
           /\ slot' = [slot EXCEPT ![t] = i]
      /\ armed' = [armed EXCEPT ![t] = TRUE]
      /\ task' = [task EXCEPT ![t] = IF Executes THEN "running" ELSE "ending"]
      /\ UNCHANGED <<serverVars, sessionVars, signal, noteVars, outVars>>

(* Mutant: only a session whose handshake succeeded is reported closed.    *)
DropSessionOpenOnly(c) ==
  /\ session[c] \in {"made", "open", "refused"}
  /\ session' = [session EXCEPT ![c] = "dropping"]
  /\ active' = [active EXCEPT ![c] = FALSE]
  /\ stats' = [stats EXCEPT !.closed = IF metadata[c] THEN @ \cup {c} ELSE @]
  /\ UNCHANGED <<serverVars, metadata, taskVars, noteVars, outVars>>

(***************************************************************************)
(* Drop for Session, begun by the library when the connection is over or   *)
(* the event loop ends.                                                    *)
(***************************************************************************)
DropSession(c) ==
  /\ session[c] \in {"made", "open", "refused"}
  /\ session' = [session EXCEPT ![c] = "dropping"]
  /\ active' = [active EXCEPT ![c] = FALSE]
  /\ stats' = [stats EXCEPT !.closed = @ \cup {c}]
  /\ UNCHANGED <<serverVars, metadata, taskVars, noteVars, outVars>>

(* Mutant: the slab is drained, so that its entries are gone.              *)
DrainSlab(c) ==
  /\ session[c] = "dropping"
  /\ session' = [session EXCEPT ![c] = "dropped"]
  /\ metadata' = [metadata EXCEPT ![c] = FALSE]
  /\ signal' = [t \in Tasks |-> signal[t] \/ (t \in TasksOf(c) /\ armed[t])]
  /\ armed' = [t \in Tasks |-> armed[t] /\ t \notin TasksOf(c)]
  /\ slab' = [slab EXCEPT ![c] = [i \in Slots |-> NoTask]]
  /\ UNCHANGED <<serverVars, active, stats, task, slot, noteVars, outVars>>

(* Mutant: only the task in the first entry of the slab is signalled.      *)
SignalFirst(c) ==
  LET first == slab[c][1]
  IN  /\ session[c] = "dropping"
      /\ session' = [session EXCEPT ![c] = "dropped"]
      /\ metadata' = [metadata EXCEPT ![c] = FALSE]
      /\ signal' = [t \in Tasks |-> signal[t] \/ t = first]
      /\ armed' = [t \in Tasks |-> armed[t] /\ t # first]
      /\ UNCHANGED <<serverVars, active, stats, slab, task, slot, noteVars, outVars>>

(***************************************************************************)
(* The rest of Drop, under the slab's lock: every sender is taken out of   *)
(* its entry and used; the entry stays.  Then the fields are dropped.      *)
(***************************************************************************)
SignalTasks(c) ==
  /\ session[c] = "dropping"
  /\ session' = [session EXCEPT ![c] = "dropped"]
  /\ metadata' = [metadata EXCEPT ![c] = FALSE]
  /\ signal' = [t \in Tasks |-> signal[t] \/ (t \in TasksOf(c) /\ armed[t])]
  /\ armed' = [t \in Tasks |-> armed[t] /\ t \notin TasksOf(c)]
  /\ UNCHANGED <<serverVars, active, stats, slab, task, slot, noteVars, outVars>>

-----------------------------------------------------------------------------
(* The tasks.                                                              *)

(***************************************************************************)
(* The response is there and active is read.                               *)
(***************************************************************************)
ResponseReady(t) ==
  /\ Executes
  /\ task[t] = "running"
  /\ \E some \in BOOLEAN :
       task' = [task EXCEPT ![t] = IF active[SessionOf[t]] /\ some THEN "sending" ELSE "ending"]
  /\ UNCHANGED <<serverVars, sessionVars, slab, armed, slot, signal, noteVars, outVars>>

(***************************************************************************)
(* Sender::send: check_active, then the socket, which may fail.  An error  *)
(* of the check is stored back into active, one of the socket only logged. *)
(***************************************************************************)
SendResponse(t) ==
  LET c == SessionOf[t]
  IN  /\ task[t] = "sending"
      /\ \/ /\ active[c]
            /\ answered' \in {answered, answered \cup {t}}
            /\ UNCHANGED active
         \/ /\ ~active[c]
            /\ active' = [active EXCEPT ![c] = FALSE]
            /\ UNCHANGED answered
      /\ task' = [task EXCEPT ![t] = "ending"]
      /\ UNCHANGED <<serverVars, session, metadata, stats, slab, armed, slot, signal, noteVars, sent>>

(***************************************************************************)
(* select: the LivenessPoll is ready while the response is not.            *)
(***************************************************************************)
SessionGone(t) ==
  /\ Executes
  /\ task[t] = "running"
  /\ signal[t]
  /\ task' = [task EXCEPT ![t] = "ending"]
  /\ UNCHANGED <<serverVars, sessionVars, slab, armed, slot, signal, noteVars, outVars>>

(***************************************************************************)
(* The runtime is shut down and drops its tasks where they are suspended.  *)
(***************************************************************************)
TaskDropped(t) ==
  /\ ~Executes
  /\ task[t] = "running"
  /\ task' = [task EXCEPT ![t] = "ending"]
  /\ UNCHANGED <<serverVars, sessionVars, slab, armed, slot, signal, noteVars, outVars>>

(***************************************************************************)
(* Drop for LivenessPoll: removes its entry, and its sender with it.       *)
(***************************************************************************)
DropLivenessPoll(t) ==
  /\ task[t] = "ending"
  /\ slab' = [slab EXCEPT ![SessionOf[t]][slot[t]] = NoTask]
  /\ armed' = [armed EXCEPT ![t] = FALSE]
  /\ task' = [task EXCEPT ![t] = "ended"]
  /\ UNCHANGED <<serverVars, sessionVars, slot, signal, noteVars, outVars>>
-----------------------------------------------------------------------------
(* Notifications.                                                          *)

(***************************************************************************)
(* The metadata, held by the session and by its tasks, owns a sender of    *)
(* the session's channel, and handlers clone it for their Sinks.           *)
(***************************************************************************)
HasMetadata(c) == metadata[c] \/ \E t \in TasksOf(c) : task[t] \notin {"none", "ended"}

TakeSink(c) ==
  /\ pump[c] # "none"
  /\ HasMetadata(c)
  /\ ~sinks[c]
  /\ sinks' = [sinks EXCEPT ![c] = TRUE]
  /\ UNCHANGED <<serverVars, sessionVars, taskVars, notes, noted, pump, outVars>>

DropSinks(c) ==
  /\ sinks[c]
  /\ sinks' = [sinks EXCEPT ![c] = FALSE]
  /\ UNCHANGED <<serverVars, sessionVars, taskVars, notes, noted, pump, outVars>>

Notify(c) ==
  /\ sinks[c]
  /\ pump[c] = "running"
  /\ noted[c] < MaxNotes
  /\ noted' = [noted EXCEPT ![c] = @ + 1]
  /\ notes' = [notes EXCEPT ![c] = Append(@, noted'[c])]
  /\ UNCHANGED <<serverVars, sessionVars, taskVars, sinks, pump, outVars>>

(* Mutant: a failed send is only logged.                                   *)
PumpSkips(c) ==
  /\ Executes
  /\ pump[c] = "running"
  /\ notes[c] # <<>>
  /\ notes' = [notes EXCEPT ![c] = Tail(@)]
  /\ \/ active[c] /\ sent' = [sent EXCEPT ![c] = Append(@, Head(notes[c]))]
     \/ UNCHANGED sent
  /\ UNCHANGED <<serverVars, sessionVars, taskVars, sinks, noted, pump, answered>>

(***************************************************************************)
(* SenderFuture: one notification.  If the connection is not active, or    *)
(* the socket fails, the future ends and the rest of the channel with it.  *)
(***************************************************************************)
PumpSends(c) ==
  /\ Executes
  /\ pump[c] = "running"
  /\ notes[c] # <<>>
  /\ \/ /\ active[c]
        /\ sent' = [sent EXCEPT ![c] = Append(@, Head(notes[c]))]
        /\ notes' = [notes EXCEPT ![c] = Tail(@)]
        /\ UNCHANGED pump
     \/ /\ pump' = [pump EXCEPT ![c] = "ended"]
        /\ notes' = [notes EXCEPT ![c] = <<>>]
        /\ UNCHANGED sent
  /\ UNCHANGED <<serverVars, sessionVars, taskVars, sinks, noted, answered>>

(***************************************************************************)
(* The last sender is gone, or the runtime is.                             *)
(***************************************************************************)
PumpEnds(c) ==
  /\ pump[c] = "running"
  /\ \/ notes[c] = <<>> /\ ~sinks[c] /\ ~HasMetadata(c)
     \/ ~Executes
  /\ pump' = [pump EXCEPT ![c] = "ended"]
  /\ notes' = [notes EXCEPT ![c] = <<>>]
  /\ UNCHANGED <<serverVars, sessionVars, taskVars, sinks, noted, outVars>>

-----------------------------------------------------------------------------
(* Closing.                                                                *)

(* Mutant: closing ends the executor and leaves the event loop running.    *)
ShutdownForgotten(h) ==
  /\ closer[h] = "idle"
  /\ closer' = [closer EXCEPT ![h] = "shutdown"]
  /\ UNCHANGED <<event_loop, shared, executor, sessionVars, taskVars, noteVars, outVars>>

(***************************************************************************)
(* CloseHandle::close, its first half: the event loop is told to end.      *)
(***************************************************************************)
Shutdown(h) ==
  /\ closer[h] = "idle"
  /\ closer' = [closer EXCEPT ![h] = "shutdown"]
  /\ event_loop' = IF event_loop = "running" THEN "shutdown" ELSE event_loop
  /\ UNCHANGED <<shared, executor, sessionVars, taskVars, noteVars, outVars>>

(***************************************************************************)
(* take() finds the executor or nothing; close drops a spawned runtime.    *)
(***************************************************************************)
CloseExecutor(h) ==
  /\ closer[h] = "shutdown"
  /\ closer' = [closer EXCEPT ![h] = "done"]
  /\ executor' = "closed"
  /\ UNCHANGED <<event_loop, shared, sessionVars, taskVars, noteVars, outVars>>

(***************************************************************************)
(* ws.run returns; the thread drops the sessions and ends.                 *)
(***************************************************************************)
LoopExits ==
  /\ event_loop = "shutdown"
  /\ event_loop' = "stopped"
  /\ UNCHANGED <<shared, executor, closer, sessionVars, taskVars, noteVars, outVars>>

ThreadEnds ==
  /\ event_loop = "stopped"
  /\ \A c \in Connections : session[c] \in {"none", "dropped"}
  /\ event_loop' = "ended"
  /\ UNCHANGED <<shared, executor, closer, sessionVars, taskVars, noteVars, outVars>>

-----------------------------------------------------------------------------
Task(t) ==
  \/ ResponseReady(t) \/ SendResponse(t) \/ SessionGone(t)
  \/ TaskDropped(t) \/ DropLivenessPoll(t)

Next ==
  \/ \E c \in Connections :
       \/ ConnectionMade(c)
       \/ \E proceed, upgrade \in BOOLEAN, verify, allowed \in SUBSET Checks :
            OnRequest(c, proceed, verify, allowed, upgrade)
       \/ DropSession(c) \/ SignalTasks(c)
       \/ TakeSink(c) \/ DropSinks(c) \/ Notify(c)
       \/ PumpSends(c) \/ PumpEnds(c)
  \/ \E t \in Tasks : OnMessage(t) \/ Task(t)
  \/ \E h \in Closers : Shutdown(h) \/ CloseExecutor(h)
  \/ LoopExits \/ ThreadEnds

(***************************************************************************)
(* Threads run, and executors poll what is woken or drop what they hold.   *)
(* No method completes for certain, no peer disconnects, nobody closes the *)
(* server unasked: the library drops a session only once the loop is left. *)
(***************************************************************************)
Fairness ==
  /\ \A c \in Connections : /\ WF_vars(SignalTasks(c))
                            /\ WF_vars(event_loop = "stopped" /\ DropSession(c))
                            /\ WF_vars(PumpSends(c) \/ PumpEnds(c))
  /\ \A t \in Tasks : /\ WF_vars(SendResponse(t) \/ DropLivenessPoll(t))
                      /\ WF_vars(SessionGone(t) \/ TaskDropped(t))
  /\ \A h \in Closers : WF_vars(CloseExecutor(h))
  /\ WF_vars(LoopExits) /\ WF_vars(ThreadEnds)

Spec == Init /\ [][Next]_vars /\ Fairness

-----------------------------------------------------------------------------
(***************************************************************************)
(* The slab holds exactly the tasks that are still there, each under its   *)
(* own index: Drop for LivenessPoll never finds its entry vacant (remove   *)
(* would panic) or reused by another task, also after Drop for Session.    *)
(***************************************************************************)
SlabExact ==
  \A c \in Connections, t \in Tasks, i \in Slots :
    slab[c][i] = t <=> SessionOf[t] = c /\ slot[t] = i /\ task[t] \notin {"none", "ended"}

(***************************************************************************)
(* "Metadata is always set in on_request": the expect of on_message holds, *)
(* whatever the middleware answered to the handshake.                      *)
(***************************************************************************)
MetadataSet == \A c \in Connections : session[c] = "open" => metadata[c]

(***************************************************************************)
(* The notifications a client gets are the first ones that were sent, in   *)
(* order and without a gap.                                                *)
(***************************************************************************)
NotesArePrefix ==
  \A c \in Connections : \A i \in DOMAIN sent[c] : sent[c][i] = i

(***************************************************************************)
(* SessionStats are told of the end of every session they were told of,    *)
(* refused handshakes included, and of no other.                           *)
(***************************************************************************)
StatsBalanced ==
  stats.opened \ stats.closed = {c \in Connections : session[c] \in {"made", "open", "refused"}}

(***************************************************************************)
(* Sessions are counted as opened when they are made and as closed when    *)
(* their Drop begins.                                                      *)
(***************************************************************************)
StatsExact ==
  /\ stats.opened = {c \in Connections : session[c] # "none"}
  /\ stats.closed = {c \in Connections : session[c] \in {"dropping", "dropped"}}

(***************************************************************************)
(* What is in the channel follows what was sent, as long as the task that  *)
(* sends notifications runs; before on_request starts it there is nothing  *)
(* to send.                                                                *)
(***************************************************************************)
Follow(state, last, queue, done) ==
  /\ state = "none" => last = 0 /\ queue = <<>> /\ done = <<>>
  /\ state = "running" =>
       /\ last = Len(done) + Len(queue)
       /\ \A i \in 1 .. Len(queue) : queue[i] = Len(done) + i

NotesFollow ==
  \A c \in Connections :
    /\ session[c] \in {"none", "made"} => pump[c] = "none"
    /\ Follow(pump[c], noted[c], notes[c], sent[c])

(* The inductive invariant of the proofs.                                  *)
IInv == TypeOK /\ SlabExact /\ MetadataSet /\ StatsExact /\ NotesFollow /\ NotesArePrefix

(***************************************************************************)
(* When a session is dropped its tasks end, even those whose methods never *)
(* complete, and so does the task that sends its notifications, unless a   *)
(* handler keeps a Sink.                                                   *)
(***************************************************************************)
TasksEndWithSession ==
  \A c \in Connections :
    /\ session[c] = "dropped" ~> \A t \in TasksOf(c) : task[t] \in {"none", "ended"}
    /\ session[c] = "dropped" ~> pump[c] # "running" \/ sinks[c]

(***************************************************************************)
(* Once some thread has closed the server, its event loop thread ends, so  *)
(* that wait and Drop for Server return, with no session and no task left. *)
(***************************************************************************)
CloseEndsServer ==
  (\E h \in Closers : closer[h] = "done")
     ~> event_loop = "ended" /\ \A t \in Tasks : task[t] \in {"none", "ended"}
=============================================================================
