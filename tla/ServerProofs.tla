---------------------------- MODULE ServerProofs ----------------------------
(***************************************************************************)
(* Safety of the WebSocket server for any number of connections, tasks,    *)
(* closing threads and notifications.  And of the TCP server, for any      *)
(* number of connections and whatever their clients send: what is          *)
(* exchanged on a connection however its bytes are cut, and the entries of *)
(* the Dispatcher.                                                         *)
(***************************************************************************)
EXTENDS WsServer, TcpServer, StreamCodecProofs

(***************************************************************************)
(* The WebSocket server.                                                   *)
(***************************************************************************)

(***************************************************************************)
(* The initial state.                                                      *)
(***************************************************************************)
LEMMA InitInv == Init => IInv
<1> SUFFICES ASSUME Init PROVE IInv
  OBVIOUS
<1> USE WsServerAssumption DEF Init
<1>1. TypeOK
  BY DEF TypeOK, Lives
<1>2. SlabExact
  BY DEF SlabExact
<1>3. MetadataSet
  BY DEF MetadataSet
<1>4. StatsExact
  BY DEF StatsExact
<1>5. NotesFollow
  BY DEF NotesFollow, Follow
<1>6. NotesArePrefix
  BY DEF NotesArePrefix
<1> QED
  BY <1>1, <1>2, <1>3, <1>4, <1>5, <1>6 DEF IInv

(***************************************************************************)
(* A step that leaves what IInv speaks of alone.                           *)
(***************************************************************************)
Untouched == UNCHANGED <<session, metadata, stats, slab, task, slot, pump, noted, notes, sent>>

(* Such a step keeps the invariant.                                        *)
LEMMA UntouchedInv == ASSUME IInv, Untouched PROVE IInv'
  BY DEF IInv, Untouched, TypeOK, SlabExact, MetadataSet, StatsExact, NotesFollow, NotesArePrefix

(* Tasks and slab are left alone.                                          *)
LEMMA SameTasks ==
  ASSUME SlabExact, UNCHANGED <<slab, task, slot>> PROVE SlabExact'
  BY DEF SlabExact

(* Sessions and their statistics are left alone.                           *)
LEMMA SameSessions ==
  ASSUME MetadataSet, StatsExact, UNCHANGED <<session, metadata, stats>>
  PROVE  MetadataSet' /\ StatsExact'
  BY DEF MetadataSet, StatsExact

(* Sessions and their notifications are left alone.                        *)
LEMMA SameNotes ==
  ASSUME NotesFollow, NotesArePrefix, UNCHANGED <<session, pump, noted, notes, sent>>
  PROVE  NotesFollow' /\ NotesArePrefix'
  BY DEF NotesFollow, NotesArePrefix

(* Factory::connection_made: the session is counted as open.               *)
LEMMA ConnectionMadeInv ==
  ASSUME IInv, NEW c \in Connections, ConnectionMade(c) PROVE IInv'
<1> USE DEF IInv, ConnectionMade, taskVars, noteVars, outVars
<1>1. TypeOK'
  BY Zenon DEF TypeOK, Lives
<1>2. SlabExact'
  BY SameTasks
<1>3. MetadataSet'
  BY DEF MetadataSet, TypeOK
<1>4. StatsExact'
  BY DEF StatsExact, TypeOK, Lives
<1>5. NotesFollow' /\ NotesArePrefix'
  BY DEF NotesFollow, NotesArePrefix, TypeOK
<1> QED
  BY <1>1, <1>2, <1>3, <1>4, <1>5, SMTT(30)

(* A session that moves on is counted as before.                           *)
LEMMA SameStats ==
  ASSUME StatsExact, UNCHANGED stats,
         \A x \in Connections : /\ session'[x] # "none" <=> session[x] # "none"
                                /\ session'[x] \in {"dropping", "dropped"} <=> session[x] \in {"dropping", "dropped"}
  PROVE  StatsExact'
  BY DEF StatsExact

(* A session that moves on has no notification fewer.                      *)
LEMMA LaterSession ==
  ASSUME NotesFollow, NotesArePrefix, UNCHANGED <<pump, noted, notes, sent>>,
         \A x \in Connections : session'[x] \in {"none", "made"} => session[x] \in {"none", "made"}
  PROVE  NotesFollow' /\ NotesArePrefix'
  BY DEF NotesFollow, NotesArePrefix

(* on_request: metadata is set wherever the handshake succeeds.            *)
LEMMA OnRequestInv ==
  ASSUME IInv, NEW c \in Connections, NEW proceed, NEW verify, NEW allowed, NEW upgrade,
         OnRequest(c, proceed, verify, allowed, upgrade)
  PROVE  IInv'
<1> DEFINE next == IF verify \subseteq allowed /\ upgrade THEN "open" ELSE "refused"
<1>1. /\ session[c] = "made"
      /\ session' = [session EXCEPT ![c] = next]
      /\ UNCHANGED <<stats, slab, task, slot, noted, notes, sent>>
  BY DEF OnRequest, taskVars, outVars
<1>2. /\ \/ metadata' = [metadata EXCEPT ![c] = TRUE]
         \/ metadata' = metadata /\ next = "refused"
      /\ pump' = [pump EXCEPT ![c] = "running"] \/ pump' = pump
  <2>1. CASE verify \subseteq allowed
    <3>1. PICK wanted \in BOOLEAN : pump' = [pump EXCEPT ![c] = IF wanted THEN "running" ELSE @]
      BY <2>1 DEF OnRequest
    <3>2. pump' = [pump EXCEPT ![c] = "running"] \/ pump' = pump
      BY <3>1, Zenon DEF IInv, TypeOK
    <3> QED
      BY <2>1, <3>2 DEF OnRequest
  <2>2. CASE ~(verify \subseteq allowed)
    BY <2>2 DEF OnRequest
  <2> QED
    BY <2>1, <2>2
<1>3. next \in {"open", "refused"}
  OBVIOUS
<1> HIDE DEF next
<1> USE DEF IInv
<1>4. TypeOK'
  BY <1>1, <1>2, <1>3, Zenon DEF TypeOK, Lives
<1>5. SlabExact'
  BY <1>1, SameTasks, SMTT(30)
<1>6. MetadataSet'
  BY <1>1, <1>2, <1>3, SMTT(30) DEF MetadataSet, TypeOK
<1>7. StatsExact'
  BY <1>1, <1>3, SameStats, SMTT(30) DEF TypeOK
<1>8. pump[c] = "none" /\ Follow("running", noted[c], notes[c], sent[c])
  <2>1. pump[c] = "none" /\ Follow("none", noted[c], notes[c], sent[c])
    BY <1>1 DEF NotesFollow
  <2>2. noted[c] = 0 /\ notes[c] = <<>> /\ sent[c] = <<>>
    BY <2>1 DEF Follow
  <2>3. Follow("running", 0, <<>>, <<>>)
    BY DEF Follow
  <2> QED
    BY <2>1, <2>2, <2>3
<1>9. NotesFollow' /\ NotesArePrefix'
  BY <1>1, <1>2, <1>3, <1>8, SMTT(30) DEF NotesFollow, NotesArePrefix, TypeOK
<1> QED
  BY <1>4, <1>5, <1>6, <1>7, <1>9, SMTT(30)

(* Drop for Session begins: the session is counted as closed.              *)
LEMMA DropSessionInv ==
  ASSUME IInv, NEW c \in Connections, DropSession(c) PROVE IInv'
<1> USE DEF IInv, DropSession, taskVars, noteVars, outVars
<1>1. TypeOK'
  BY Zenon DEF TypeOK, Lives
<1>2. SlabExact'
  BY SameTasks
<1>3. MetadataSet'
  BY DEF MetadataSet, TypeOK
<1>4. StatsExact'
  BY DEF StatsExact, TypeOK
<1>5. NotesFollow' /\ NotesArePrefix'
  BY LaterSession DEF TypeOK
<1> QED
  BY <1>1, <1>2, <1>3, <1>4, <1>5, SMTT(30)

(* Drop for Session: senders leave their slab entries, entries stay.       *)
LEMMA SignalTasksInv ==
  ASSUME IInv, NEW c \in Connections, SignalTasks(c) PROVE IInv'
<1> USE DEF IInv, SignalTasks, noteVars, outVars
<1>1. TypeOK'
  BY DEF TypeOK, Lives
<1>2. SlabExact'
  BY SameTasks, SMTT(30)
<1>3. MetadataSet'
  BY DEF MetadataSet, TypeOK
<1>4. StatsExact'
  BY SameStats, SMTT(30) DEF TypeOK
<1>5. NotesFollow' /\ NotesArePrefix'
  BY LaterSession DEF TypeOK
<1> QED
  BY <1>1, <1>2, <1>3, <1>4, <1>5, SMTT(30)

(* on_message: the new task gets a vacant entry of the slab.               *)
LEMMA OnMessageInv ==
  ASSUME IInv, NEW t \in Tasks, OnMessage(t) PROVE IInv'
<1> USE WsServerAssumption DEF IInv, OnMessage, sessionVars, noteVars, outVars
<1>1. TypeOK'
  <2>1. slab' \in [Connections -> [Slots -> Tasks \cup {NoTask}]] /\ slot' \in [Tasks -> Slots \cup {0}]
    <3>1. PICK i \in Slots : /\ slab' = [slab EXCEPT ![SessionOf[t]][i] = t]
                             /\ slot' = [slot EXCEPT ![t] = i]
      BY Zenon
    <3>2. slab \in [Connections -> [Slots -> Tasks \cup {NoTask}]] /\ slot \in [Tasks -> Slots \cup {0}]
      BY DEF TypeOK
    <3> HIDE DEF OnMessage
    <3> QED
      BY <3>1, <3>2
  <2>2. task' \in [Tasks -> {"none", "running", "sending", "ending", "ended"}]
    BY DEF TypeOK
  <2> QED
    BY <2>1, <2>2, SMTT(30) DEF TypeOK
<1>2. SlabExact'
  BY SMTT(30) DEF SlabExact, TypeOK
<1>3. MetadataSet' /\ StatsExact' /\ NotesFollow' /\ NotesArePrefix'
  BY SameSessions, SameNotes
<1> QED
  BY <1>1, <1>2, <1>3, SMTT(30)

(* Entries stay with tasks that have begun and not ended.                  *)
LEMMA SameSlab ==
  ASSUME SlabExact, UNCHANGED <<slab, slot>>,
         \A u \in Tasks : task'[u] \in {"none", "ended"} <=> task[u] \in {"none", "ended"}
  PROVE  SlabExact'
BY DEF SlabExact

(* A task runs to its end, and only its LivenessPoll frees its entry.      *)
LEMMA TaskInv ==
  ASSUME IInv, NEW t \in Tasks, Task(t) PROVE IInv'
<1> USE WsServerAssumption DEF IInv, Task, sessionVars, noteVars, outVars
<1>1. ASSUME ResponseReady(t) \/ SendResponse(t) \/ SessionGone(t) \/ TaskDropped(t) PROVE IInv'
  <2> USE <1>1 DEF ResponseReady, SendResponse, SessionGone, TaskDropped
  <2>1. TypeOK'
    BY Zenon DEF TypeOK
  <2>2. SlabExact'
    <3>1. UNCHANGED <<slab, slot>>
      BY SMTT(30)
    <3>2. \A u \in Tasks : task'[u] \in {"none", "ended"} <=> task[u] \in {"none", "ended"}
      BY Zenon DEF TypeOK
    <3> QED
      BY <3>1, <3>2, SameSlab, ZenonT(60)
  <2>3. MetadataSet' /\ StatsExact' /\ NotesFollow' /\ NotesArePrefix'
    <3>1. UNCHANGED <<session, metadata, stats>> /\ UNCHANGED <<pump, noted, notes, sent>>
      BY Zenon
    <3> QED
      BY <3>1, SameSessions, SameNotes, Zenon
  <2> QED
    BY <2>1, <2>2, <2>3, Zenon
<1>2. ASSUME DropLivenessPoll(t) PROVE IInv'
  <2> USE <1>2 DEF DropLivenessPoll
  <2>1. TypeOK'
    BY Zenon DEF TypeOK
  <2>2. SlabExact'
    BY DEF SlabExact, TypeOK
  <2>3. MetadataSet' /\ StatsExact' /\ NotesFollow' /\ NotesArePrefix'
    <3>1. UNCHANGED <<session, metadata, stats>> /\ UNCHANGED <<pump, noted, notes, sent>>
      BY Zenon
    <3> QED
      BY <3>1, SameSessions, SameNotes, Zenon
  <2> QED
    BY <2>1, <2>2, <2>3, Zenon
<1> QED
  BY <1>1, <1>2, Zenon

(* A notification joins the channel.                                       *)
LEMMA FollowQueued ==
  ASSUME NEW last \in Nat, NEW queue \in Seq(Nat), NEW done \in Seq(Nat),
         Follow("running", last, queue, done)
  PROVE  Follow("running", last + 1, Append(queue, last + 1), done)
<1>1. Len(Append(queue, last + 1)) = Len(queue) + 1
  OBVIOUS
<1>2. \A i \in 1 .. Len(queue) : Append(queue, last + 1)[i] = queue[i]
  OBVIOUS
<1>3. Append(queue, last + 1)[Len(queue) + 1] = last + 1
  OBVIOUS
<1> QED
  BY <1>1, <1>2, <1>3 DEF Follow

(* The first notification of the channel goes to the socket.               *)
LEMMA FollowSent ==
  ASSUME NEW last \in Nat, NEW queue \in Seq(Nat), NEW done \in Seq(Nat),
         Follow("running", last, queue, done), queue # <<>>
  PROVE  /\ Head(queue) = Len(done) + 1 /\ Tail(queue) \in Seq(Nat)
         /\ Follow("running", last, Tail(queue), Append(done, Head(queue)))
<1>1. Len(queue) > 0 /\ Head(queue) = queue[1] /\ Tail(queue) \in Seq(Nat)
  OBVIOUS
<1>2. Head(queue) = Len(done) + 1
  BY <1>1 DEF Follow
<1>3. Len(Tail(queue)) = Len(queue) - 1 /\ \A i \in 1 .. Len(Tail(queue)) : Tail(queue)[i] = queue[i + 1]
  BY <1>1
<1>4. Len(Append(done, Head(queue))) = Len(done) + 1
  BY <1>2
<1>5. last = Len(Append(done, Head(queue))) + Len(Tail(queue))
  BY <1>1, <1>3, <1>4, SMTT(30) DEF Follow
<1>6. ASSUME NEW i \in 1 .. Len(Tail(queue)) PROVE Tail(queue)[i] = Len(Append(done, Head(queue))) + i
  <2>1. i + 1 \in 1 .. Len(queue)
    BY <1>1, <1>3
  <2>2. queue[i + 1] = Len(done) + (i + 1)
    BY <2>1 DEF Follow
  <2> QED
    BY <2>2, <1>3, <1>4, SMTT(30)
<1> QED
  BY <1>1, <1>2, <1>5, <1>6, SMTT(30) DEF Follow

(* Sink::notify appends to the session's channel.                          *)
LEMMA NotifyInv ==
  ASSUME IInv, NEW c \in Connections, Notify(c) PROVE IInv'
<1> DEFINE n == noted[c] + 1
<1>1. /\ pump[c] = "running" /\ noted[c] \in Nat /\ notes[c] \in Seq(Nat) /\ sent[c] \in Seq(Nat)
      /\ noted' = [noted EXCEPT ![c] = n]
      /\ notes' = [notes EXCEPT ![c] = Append(@, n)]
      /\ UNCHANGED <<session, metadata, stats, slab, task, slot, pump, sent>>
  BY SMTT(30) DEF IInv, TypeOK, Notify, sessionVars, taskVars, outVars
<1>2. n \in Nat /\ Append(notes[c], n) \in Seq(Nat)
  BY <1>1, SMTT(30)
<1>3. Follow("running", noted[c], notes[c], sent[c])
  BY <1>1, SMTT(30) DEF IInv, NotesFollow
<1>4. Follow("running", n, Append(notes[c], n), sent[c])
  BY <1>1, <1>3, FollowQueued, SMTT(30)
<1> HIDE DEF n
<1>5. TypeOK'
  BY <1>1, <1>2, SMTT(30) DEF IInv, TypeOK
<1>6. SlabExact' /\ MetadataSet' /\ StatsExact'
  BY <1>1, SameTasks, SameSessions, SMTT(30) DEF IInv
<1>7. NotesFollow' /\ NotesArePrefix'
  BY <1>1, <1>4, SMTT(30) DEF IInv, NotesFollow, NotesArePrefix, TypeOK
<1> QED
  BY <1>5, <1>6, <1>7, SMTT(30) DEF IInv

(* SenderFuture sends the next notification.                               *)
LEMMA SendNoteInv ==
  ASSUME IInv, NEW c \in Connections, pump[c] = "running", notes[c] # <<>>,
         sent' = [sent EXCEPT ![c] = Append(@, Head(notes[c]))],
         notes' = [notes EXCEPT ![c] = Tail(@)],
         UNCHANGED <<session, metadata, stats, slab, task, slot, pump, noted>>
  PROVE  IInv'
<1> DEFINE h == Head(notes[c])
           rest == Tail(notes[c])
           done == Append(sent[c], h)
<1>1. /\ noted[c] \in Nat /\ notes[c] \in Seq(Nat) /\ sent[c] \in Seq(Nat)
      /\ Follow("running", noted[c], notes[c], sent[c])
  BY DEF IInv, TypeOK, NotesFollow
<1>2. h = Len(sent[c]) + 1 /\ rest \in Seq(Nat) /\ Follow("running", noted[c], rest, done)
  BY <1>1, FollowSent, Zenon
<1>3. done \in Seq(Nat) /\ DOMAIN done = 1 .. Len(sent[c]) + 1
  BY <1>1, <1>2, SMTT(30)
<1>4. \A i \in DOMAIN done : done[i] = i
  <2>1. \A i \in DOMAIN sent[c] : sent[c][i] = i
    BY SMTT(30) DEF IInv, NotesArePrefix
  <2>2. \A i \in 1 .. Len(sent[c]) : done[i] = sent[c][i]
    BY <1>1, <1>2, SMTT(30)
  <2>3. done[Len(sent[c]) + 1] = h
    BY <1>1, <1>2, SMTT(30)
  <2> QED
    BY <1>1, <1>2, <1>3, <2>1, <2>2, <2>3, SMTT(30)
<1>5. sent' = [sent EXCEPT ![c] = done] /\ notes' = [notes EXCEPT ![c] = rest]
  BY DEF IInv, TypeOK
<1> HIDE DEF h, rest, done
<1>6. TypeOK'
  BY <1>2, <1>3, <1>5, SMTT(30) DEF IInv, TypeOK
<1>7. SlabExact' /\ MetadataSet' /\ StatsExact'
  BY SameTasks, SameSessions DEF IInv
<1>8. NotesFollow' /\ NotesArePrefix'
  BY <1>2, <1>4, <1>5, ZenonT(30) DEF IInv, NotesFollow, NotesArePrefix, TypeOK
<1> QED
  BY <1>6, <1>7, <1>8, SMTT(30) DEF IInv

(* SenderFuture ends and drops the rest of the channel.                    *)
LEMMA EndPumpInv ==
  ASSUME IInv, NEW c \in Connections, pump[c] = "running",
         pump' = [pump EXCEPT ![c] = "ended"], notes' = [notes EXCEPT ![c] = <<>>],
         UNCHANGED <<session, metadata, stats, slab, task, slot, noted, sent>>
  PROVE  IInv'
<1>1. TypeOK'
  BY DEF IInv, TypeOK
<1>2. SlabExact' /\ MetadataSet' /\ StatsExact'
  BY SameTasks, SameSessions DEF IInv
<1>3. session[c] \notin {"none", "made"} /\ Follow("ended", noted[c], <<>>, sent[c])
  BY Zenon DEF IInv, NotesFollow, Follow
<1>4. NotesFollow' /\ NotesArePrefix'
  <2>1. ASSUME NEW x \in Connections
        PROVE  /\ session'[x] \in {"none", "made"} => pump'[x] = pump[x] /\ notes'[x] = notes[x]
               /\ Follow(pump'[x], noted[x], notes'[x], sent[x])
    <3>1. CASE x = c
      BY <1>3, <3>1, Zenon DEF IInv, TypeOK
    <3>2. CASE x # c
      BY <3>2, Zenon DEF IInv, NotesFollow, TypeOK
    <3> QED
      BY <3>1, <3>2, Zenon
  <2> QED
    BY <2>1, Zenon DEF IInv, NotesFollow, NotesArePrefix
<1> QED
  BY <1>1, <1>2, <1>4, SMTT(30) DEF IInv

(* Both outcomes of a poll of SenderFuture.                                *)
LEMMA PumpInv ==
  ASSUME IInv, NEW c \in Connections, PumpSends(c) \/ PumpEnds(c) PROVE IInv'
  BY SendNoteInv, EndPumpInv, Zenon DEF PumpSends, PumpEnds, sessionVars, taskVars, outVars

-----------------------------------------------------------------------------
(***************************************************************************)
(* The inductive invariant of the WebSocket server.                        *)
(***************************************************************************)
THEOREM Invariance == Spec => []IInv
<1>1. Init => IInv
  BY InitInv
<1>2. IInv /\ [Next]_vars => IInv'
  <2> SUFFICES ASSUME IInv, [Next]_vars PROVE IInv'
    OBVIOUS
  <2>1. ASSUME NEW c \in Connections, ConnectionMade(c) PROVE IInv'
    BY <2>1, ConnectionMadeInv
  <2>2. ASSUME NEW c \in Connections, NEW proceed \in BOOLEAN, NEW upgrade \in BOOLEAN,
               NEW verify \in SUBSET Checks, NEW allowed \in SUBSET Checks,
               OnRequest(c, proceed, verify, allowed, upgrade)
        PROVE  IInv'
    BY <2>2, OnRequestInv, SMTT(30)
  <2>3. ASSUME NEW c \in Connections, DropSession(c) \/ SignalTasks(c) PROVE IInv'
    BY <2>3, DropSessionInv, SignalTasksInv, SMTT(30)
  <2>4. ASSUME NEW c \in Connections, TakeSink(c) \/ DropSinks(c) PROVE IInv'
    BY <2>4, UntouchedInv DEF TakeSink, DropSinks, Untouched, sessionVars, taskVars, outVars
  <2>5. ASSUME NEW c \in Connections, Notify(c) PROVE IInv'
    BY <2>5, NotifyInv
  <2>6. ASSUME NEW c \in Connections, PumpSends(c) \/ PumpEnds(c) PROVE IInv'
    BY <2>6, PumpInv, SMTT(30)
  <2>7. ASSUME NEW t \in Tasks, OnMessage(t) \/ Task(t) PROVE IInv'
    BY <2>7, OnMessageInv, TaskInv, SMTT(30)
  <2>8. ASSUME NEW h \in Closers, Shutdown(h) \/ CloseExecutor(h) PROVE IInv'
    BY <2>8, UntouchedInv, SMTT(30) DEF Shutdown, CloseExecutor, Untouched, sessionVars, taskVars, noteVars, outVars
  <2>9. ASSUME LoopExits \/ ThreadEnds PROVE IInv'
    BY <2>9, UntouchedInv, SMTT(30) DEF LoopExits, ThreadEnds, Untouched, sessionVars, taskVars, noteVars, outVars
  <2>10. ASSUME UNCHANGED vars PROVE IInv'
    BY <2>10, UntouchedInv DEF vars, Untouched, sessionVars, taskVars, noteVars, outVars
  <2> QED
    BY <2>1, <2>2, <2>3, <2>4, <2>5, <2>6, <2>7, <2>8, <2>9, <2>10, SMTT(30) DEF Next
<1> QED
  BY <1>1, <1>2, PTL DEF Spec

(***************************************************************************)
(* Slab::remove in Drop for LivenessPoll never finds its entry vacant or   *)
(* given to another task, whatever the threads of tasks and event loop do. *)
(***************************************************************************)
THEOREM SlabStaysExact == Spec => []SlabExact
<1>1. IInv => SlabExact
  BY DEF IInv
<1> QED
  BY <1>1, Invariance, PTL

(***************************************************************************)
(* The expect of on_message holds.                                         *)
(***************************************************************************)
THEOREM MetadataAlwaysSet == Spec => []MetadataSet
<1>1. IInv => MetadataSet
  BY DEF IInv
<1> QED
  BY <1>1, Invariance, PTL

(***************************************************************************)
(* A client gets a session's notifications in order and without a gap.     *)
(***************************************************************************)
THEOREM NoNotificationSkipped == Spec => []NotesArePrefix
<1>1. IInv => NotesArePrefix
  BY DEF IInv
<1> QED
  BY <1>1, Invariance, PTL

(***************************************************************************)
(* Statistics count exactly the sessions that have not begun to end.       *)
(***************************************************************************)
THEOREM StatsStayBalanced == Spec => []StatsBalanced
<1>1. IInv => StatsBalanced
  BY DEF IInv, StatsExact, StatsBalanced, TypeOK, Lives
<1> QED
  BY <1>1, Invariance, PTL
-----------------------------------------------------------------------------
(***************************************************************************)
(* The TCP server: what is exchanged on a connection.                      *)
(***************************************************************************)

Places == {"none", "backlog", "ignored", "open", "closing", "removing", "finished", "failed", "dropped"}

Connection ==
  [at : Places, eof : BOOLEAN, buf : Seq(Byte), readable : BOOLEAN,
   request : Seq(Byte) \union {Nothing}, up_closed : BOOLEAN, accepted : Seq(Nat \ {0}), taken : Nat,
   wire : Seq(Byte), handled : Seq(Seq(Byte)), out : Seq(Nat)]

(***************************************************************************)
(* What is written on a connection that has handled n requests, the last   *)
(* of which may be in progress, and taken that many of those pushed.       *)
(***************************************************************************)
Responses(out) == {i \in DOMAIN out : out[i] = Response}

Written(out, n, request, accepted, taken) ==
  /\ Len(Subsequence(out, Responses(out))) = n - (IF request = Nothing THEN 0 ELSE 1)
  /\ Subsequence(out, DOMAIN out \ Responses(out)) = SubSeq(accepted, 1, taken)
  /\ taken <= Len(accepted)

Exchanged(s, M, sep) ==
  /\ s \in Connection
  /\ Served(M, sep, s.buf, s.wire, s.handled)
  /\ s.up_closed => s.buf = <<>> /\ s.wire = <<>> /\ ~s.readable
  /\ s.at \in {"closing", "removing", "finished"} => s.up_closed
  /\ Written(s.out, Len(s.handled), s.request, s.accepted, s.taken)

ExchangeInv ==
  /\ load \in Loads
  /\ channels \in [Addresses -> Conns \union {NoConn}]
  /\ DOMAIN conn = Conns
  /\ \A c \in Conns : Exchanged(conn[c], load.messages[c], load.separator)
-----------------------------------------------------------------------------
(* What is written. *)

LEMMA WrittenFirst == Written(<<>>, 0, Nothing, <<>>, 0)
<1>1. <<>> \in Seq(Nat) /\ Len(<<>>) = 0 /\ DOMAIN <<>> = {}
  OBVIOUS
<1>2. ASSUME NEW at PROVE Subsequence(<<>>, at) = <<>>
  BY SubsequenceEmpty, Zenon
<1>3. SubSeq(<<>>, 1, 0) = <<>>
  OBVIOUS
<1>4. 0 = 0 - (IF Nothing = Nothing THEN 0 ELSE 1) /\ 0 <= 0
  OBVIOUS
<1>. QED  BY <1>1, <1>2, <1>3, <1>4, Zenon DEF Written

(* The positions of responses and of pushed messages when one more item is written. *)
LEMMA WrittenMore ==
  ASSUME NEW out \in Seq(Nat), NEW e \in Nat
  PROVE  LET more == Append(out, e)
             R == Responses(out)
             P == DOMAIN out \ R
         IN  /\ more \in Seq(Nat)
             /\ Subsequence(more, Responses(more))
                  = IF e = Response THEN Append(Subsequence(out, R), e) ELSE Subsequence(out, R)
             /\ Subsequence(more, DOMAIN more \ Responses(more))
                  = IF e = Response THEN Subsequence(out, P) ELSE Append(Subsequence(out, P), e)
<1>1. PICK more \in Seq(Nat) : more = Append(out, e)
  BY AppendProperties, Zenon
<1>2. /\ DOMAIN more = 1 .. Len(out) + 1 /\ Len(out) \in Nat /\ DOMAIN out = 1 .. Len(out)
      /\ more[Len(out) + 1] = e
      /\ \A i \in 1 .. Len(out) : more[i] = out[i] /\ i \in 1 .. Len(out) + 1
      /\ Len(out) + 1 \in 1 .. Len(out) + 1
  BY <1>1
<1>3. /\ \A i \in 1 .. Len(out) : i \in Responses(more) <=> i \in Responses(out)
      /\ Len(out) + 1 \in Responses(more) <=> e = Response
  BY <1>2, Zenon DEF Responses
<1>4. /\ \A i \in 1 .. Len(out) :
           i \in DOMAIN more \ Responses(more) <=> i \in DOMAIN out \ Responses(out)
      /\ Len(out) + 1 \in DOMAIN more \ Responses(more) <=> e # Response
  BY <1>2, <1>3, Zenon
<1>5. Subsequence(more, Responses(more))
        = IF e = Response THEN Append(Subsequence(out, Responses(out)), e)
          ELSE Subsequence(out, Responses(out))
  <2>1. Grows(out, e, Responses(out), Responses(more))
    BY <1>3, SubsequenceAppend, Zenon
  <2>. QED  BY <1>1, <1>3, <2>1, Zenon DEF Grows
<1>6. Subsequence(more, DOMAIN more \ Responses(more))
        = IF e = Response THEN Subsequence(out, DOMAIN out \ Responses(out))
          ELSE Append(Subsequence(out, DOMAIN out \ Responses(out)), e)
  <2>1. Grows(out, e, DOMAIN out \ Responses(out), DOMAIN more \ Responses(more))
    BY <1>4, SubsequenceAppend, Zenon
  <2>. QED  BY <1>1, <1>4, <2>1, Zenon DEF Grows
<1>. QED  BY <1>1, <1>5, <1>6, Zenon

LEMMA SubsequenceIsSeq ==
  ASSUME NEW V, NEW s \in Seq(V), NEW at
  PROVE  Subsequence(s, at) \in Seq(V)
<1>1. PICK f \in [0 .. Len(s) -> Seq(V)] : f[Len(s)] = Subsequence(s, at)
  BY SubsequenceSteps, Zenon
<1>2. Len(s) \in 0 .. Len(s)
  BY LenProperties
<1>. QED  BY <1>1, <1>2, Zenon

(* A response is written. *)
LEMMA WriteResponse ==
  ASSUME NEW out \in Seq(Nat), NEW n \in Nat, NEW request, request # Nothing, NEW accepted, NEW taken,
         Written(out, n, request, accepted, taken)
  PROVE  Append(out, Response) \in Seq(Nat) /\ Written(Append(out, Response), n, Nothing, accepted, taken)
<1>1. PICK more : more = Append(out, Response)
  BY Zenon
<1>2. Response \in Nat
  BY DEF Response
<1>3. PICK R \in Seq(Nat) : R = Subsequence(out, Responses(out))
  BY SubsequenceIsSeq, Zenon
<1>4. /\ more \in Seq(Nat) /\ Subsequence(more, Responses(more)) = Append(R, Response)
      /\ Subsequence(more, DOMAIN more \ Responses(more)) = Subsequence(out, DOMAIN out \ Responses(out))
  BY <1>1, <1>2, <1>3, WrittenMore, Zenon
<1>5. Len(R) = n - 1
  BY <1>3, Zenon DEF Written
<1>6. Len(Append(R, Response)) = n - 0
  BY <1>2, <1>5, SMTT(30)
<1>. QED  BY <1>1, <1>4, <1>6, Zenon DEF Written

(* A pushed message is. *)
LEMMA WritePush ==
  ASSUME NEW out \in Seq(Nat), NEW n, NEW request, NEW accepted \in Seq(Nat \ {0}), NEW taken \in Nat,
         Written(out, n, request, accepted, taken), taken < Len(accepted)
  PROVE  LET more == Append(out, accepted[taken + 1])
         IN  more \in Seq(Nat) /\ Written(more, n, request, accepted, taken + 1)
<1>1. PICK e \in Nat : e = accepted[taken + 1] /\ e # Response
  <2>1. taken + 1 \in 1 .. Len(accepted)
    BY LenProperties
  <2>2. accepted[taken + 1] \in Nat \ {0}
    BY <2>1, ElementOfSeq, Zenon
  <2>. QED  BY <2>2, Zenon DEF Response
<1>2. PICK more : more = Append(out, e)
  BY Zenon
<1>3. /\ more \in Seq(Nat) /\ Subsequence(more, Responses(more)) = Subsequence(out, Responses(out))
      /\ Subsequence(more, DOMAIN more \ Responses(more))
           = Append(Subsequence(out, DOMAIN out \ Responses(out)), e)
  BY <1>1, <1>2, WrittenMore, Zenon
<1>4. Append(SubSeq(accepted, 1, taken), e) = SubSeq(accepted, 1, taken + 1)
  BY <1>1
<1>5. taken + 1 <= Len(accepted)
  BY LenProperties
<1>. QED  BY <1>1, <1>2, <1>3, <1>4, <1>5, Zenon DEF Written

(* Another message is pushed. *)
LEMMA AcceptPush ==
  ASSUME NEW out, NEW n, NEW request, NEW accepted \in Seq(Nat \ {0}), NEW taken \in Nat,
         Written(out, n, request, accepted, taken)
  PROVE  LET more == Append(accepted, Len(accepted) + 1)
         IN  more \in Seq(Nat \ {0}) /\ Written(out, n, request, more, taken)
<1>1. PICK more : more = Append(accepted, Len(accepted) + 1)
  BY Zenon
<1>2. more \in Seq(Nat \ {0}) /\ Len(more) = Len(accepted) + 1
  BY <1>1
<1>3. taken <= Len(accepted)
  BY Zenon DEF Written
<1>4. SubSeq(more, 1, taken) = SubSeq(accepted, 1, taken)
  BY <1>1, <1>3, SMTT(30)
<1>5. taken <= Len(more)
  BY <1>2, <1>3
<1>. QED  BY <1>1, <1>2, <1>4, <1>5, Zenon DEF Written

(* A request is taken. *)
LEMMA TakeRequest ==
  ASSUME NEW out, NEW n \in Nat, NEW request, request # Nothing, NEW accepted, NEW taken,
         Written(out, n, Nothing, accepted, taken)
  PROVE  Written(out, n + 1, request, accepted, taken)
<1>1. n - 0 = (n + 1) - 1
  OBVIOUS
<1>. QED  BY <1>1, Zenon DEF Written
-----------------------------------------------------------------------------
(* What each step does to a connection. *)

LEMMA FreshExchanged ==
  ASSUME NEW c \in Conns, NEW ld \in Loads
  PROVE  Exchanged(Fresh(c, ld), ld.messages[c], ld.separator)
<1>1. /\ Sent(ld.messages[c], ld.separator) \in Seq(Byte)
      /\ Served(ld.messages[c], ld.separator, <<>>, Sent(ld.messages[c], ld.separator), <<>>)
  <2>1. /\ ld.messages[c] \in Seq(Seq(Byte)) /\ ld.separator \in Byte \union {Empty}
        /\ Framed(ld.messages[c], ld.separator)
    BY ConnsAssumption, Zenon
  <2>. QED  BY <2>1, ServedFirst, Zenon
<1>2. Len(<<>>) = 0 /\ \A V : <<>> \in Seq(V)
  OBVIOUS
<1>3. 0 \in Nat /\ "none" \in Places /\ FALSE \in BOOLEAN
  BY DEF Places
<1>4. PICK wire \in Seq(Byte) : wire = Sent(ld.messages[c], ld.separator)
  BY <1>1, Zenon
<1>5. PICK s : s = Fresh(c, ld)
  BY ZenonT(60)
<1>6. s \in Connection
  <2>1. Fresh(c, ld) =
          [at |-> "none", eof |-> FALSE, buf |-> <<>>, readable |-> FALSE,
           request |-> Nothing, up_closed |-> FALSE, accepted |-> <<>>, taken |-> 0,
           wire |-> wire, handled |-> <<>>, out |-> <<>>]
    BY <1>4, Zenon DEF Fresh
  <2>2. <<>> \in Seq(Byte) /\ <<>> \in Seq(Seq(Byte)) /\ <<>> \in Seq(Nat) /\ <<>> \in Seq(Nat \ {0})
    BY <1>2, Zenon
  <2>. QED  BY <1>3, <1>5, <2>1, <2>2, SMTT(30) DEF Connection
<1>7. /\ s.at = "none" /\ ~s.up_closed /\ s.buf = <<>> /\ s.wire = Sent(ld.messages[c], ld.separator)
      /\ s.handled = <<>> /\ s.out = <<>> /\ s.request = Nothing /\ s.accepted = <<>> /\ s.taken = 0
  BY <1>5, Zenon DEF Fresh
<1>8. s.at \notin {"closing", "removing", "finished"}
  BY <1>7
<1>. QED  BY <1>1, <1>2, <1>5, <1>6, <1>7, <1>8, WrittenFirst, Zenon DEF Exchanged

(* Moving on: only a connection whose input has ended gets to its end. *)
LEMMA Moves ==
  ASSUME NEW M, NEW sep, NEW r, Exchanged(r, M, sep), NEW to \in Places,
         to \in {"closing", "removing", "finished"} => r.up_closed
  PROVE  Exchanged([r EXCEPT !.at = to], M, sep)
<1>1. PICK s : s = [r EXCEPT !.at = to]
  BY Zenon
<1>2. r \in Connection
  BY Zenon DEF Exchanged
<1>3. s \in Connection
  BY <1>1, <1>2, Zenon DEF Connection
<1>4. /\ s.at = to /\ s.up_closed = r.up_closed /\ s.buf = r.buf /\ s.wire = r.wire
      /\ s.readable = r.readable /\ s.handled = r.handled /\ s.out = r.out
      /\ s.request = r.request /\ s.accepted = r.accepted /\ s.taken = r.taken
  BY <1>1, <1>2, SMTT(30) DEF Connection
<1>. QED  BY <1>1, <1>3, <1>4, Zenon DEF Exchanged

LEMMA HangsUp ==
  ASSUME NEW M, NEW sep, NEW r, Exchanged(r, M, sep)
  PROVE  Exchanged([r EXCEPT !.eof = TRUE], M, sep)
<1>1. PICK s : s = [r EXCEPT !.eof = TRUE]
  BY Zenon
<1>2. r \in Connection
  BY Zenon DEF Exchanged
<1>3. s \in Connection
  BY <1>1, <1>2, Zenon DEF Connection
<1>4. /\ s.at = r.at /\ s.up_closed = r.up_closed /\ s.buf = r.buf /\ s.wire = r.wire
      /\ s.readable = r.readable /\ s.handled = r.handled /\ s.out = r.out
      /\ s.request = r.request /\ s.accepted = r.accepted /\ s.taken = r.taken
  BY <1>1, <1>2, SMTT(30) DEF Connection
<1>. QED  BY <1>1, <1>3, <1>4, Zenon DEF Exchanged

LEMMA Reads ==
  ASSUME NEW M, NEW sep, NEW r, Exchanged(r, M, sep), NEW n \in 1 .. Len(r.wire)
  PROVE  Exchanged([r EXCEPT !.buf = @ \o SubSeq(r.wire, 1, n),
                             !.wire = SubSeq(@, n + 1, Len(@)), !.readable = TRUE], M, sep)
<1>1. PICK s : s = [r EXCEPT !.buf = @ \o SubSeq(r.wire, 1, n),
                             !.wire = SubSeq(@, n + 1, Len(@)), !.readable = TRUE]
  BY Zenon
<1>2. r \in Connection /\ Served(M, sep, r.buf, r.wire, r.handled)
  BY Zenon DEF Exchanged
<1>3. PICK buf, wire : buf = r.buf \o SubSeq(r.wire, 1, n) /\ wire = SubSeq(r.wire, n + 1, Len(r.wire))
  BY Zenon
<1>4. buf \in Seq(Byte) /\ wire \in Seq(Byte) /\ Served(M, sep, buf, wire, r.handled)
  <2>1. r.buf \in Seq(Byte) /\ r.wire \in Seq(Byte)
    BY <1>2, Zenon DEF Connection
  <2>. QED  BY <1>2, <1>3, <2>1, ServedRead, Zenon
<1>5. s = [r EXCEPT !.buf = buf, !.wire = wire, !.readable = TRUE]
  BY <1>1, <1>3, Zenon
<1>6. s \in Connection
  BY <1>2, <1>4, <1>5, Zenon DEF Connection
<1>7. /\ s.at = r.at /\ s.up_closed = r.up_closed /\ s.buf = buf /\ s.wire = wire
      /\ s.handled = r.handled /\ s.out = r.out
      /\ s.request = r.request /\ s.accepted = r.accepted /\ s.taken = r.taken
  BY <1>2, <1>5, SMTT(30) DEF Connection
<1>8. ~r.up_closed
  <2>1. r.wire # <<>>
    OBVIOUS
  <2>. QED  BY <2>1, Zenon DEF Exchanged
<1>. QED  BY <1>1, <1>4, <1>6, <1>7, <1>8, Zenon DEF Exchanged

(* A message is found. *)
LEMMA Handles ==
  ASSUME NEW M, NEW sep, NEW r, Exchanged(r, M, sep), r.request = Nothing, ~r.up_closed,
         NEW d, Advances(d, M, sep, r.wire, r.handled), d.message # Nothing
  PROVE  Exchanged(Handle(r, d), M, sep)
<1>1. PICK s, handled : s = Handle(r, d) /\ handled = Append(r.handled, d.message)
  BY Zenon
<1>2. r \in Connection /\ Written(r.out, Len(r.handled), Nothing, r.accepted, r.taken)
  BY Zenon DEF Exchanged
<1>3. r.handled \in Seq(Seq(Byte))
  BY <1>2, Zenon DEF Connection
<1>4. PICK buf \in Seq(Byte), m \in Seq(Byte) : buf = d.rest /\ m = d.message
  BY ZenonT(60) DEF Advances
<1>5. handled \in Seq(Seq(Byte)) /\ Len(handled) = Len(r.handled) + 1 /\ Len(r.handled) \in Nat
  <2>1. handled = Append(r.handled, m)
    BY <1>1, <1>4, Zenon
  <2>2. handled \in Seq(Seq(Byte)) /\ Len(handled) = Len(r.handled) + 1
    BY <1>3, <2>1
  <2>3. Len(r.handled) \in Nat
    BY <1>3, LenProperties, Zenon
  <2>. QED  BY <2>2, <2>3, Zenon
<1>6. Served(M, sep, buf, r.wire, handled)
  BY <1>1, <1>4, Zenon DEF Advances
<1>7. s = [r EXCEPT !.buf = buf, !.request = m, !.handled = handled]
  BY <1>1, <1>4, Zenon DEF Handle
<1>8. s \in Connection
  BY <1>2, <1>5, <1>7, Zenon DEF Connection
<1>9. /\ s.at = r.at /\ s.up_closed = r.up_closed /\ s.buf = buf /\ s.wire = r.wire
      /\ s.handled = handled /\ s.out = r.out
      /\ s.request = m /\ s.accepted = r.accepted /\ s.taken = r.taken
  BY <1>2, <1>7, SMTT(30) DEF Connection
<1>10. Written(r.out, Len(handled), m, r.accepted, r.taken)
  BY <1>2, <1>4, <1>5, TakeRequest, Zenon
<1>. QED  BY <1>1, <1>6, <1>8, <1>9, <1>10, Zenon DEF Exchanged

(* None is, and the reader waits for more. *)
LEMMA Awaits ==
  ASSUME NEW M, NEW sep, NEW r, Exchanged(r, M, sep), ~r.up_closed,
         NEW d, Advances(d, M, sep, r.wire, r.handled), d.message = Nothing, ~d.error
  PROVE  Exchanged([r EXCEPT !.buf = d.rest, !.readable = FALSE], M, sep)
<1>1. PICK s : s = [r EXCEPT !.buf = d.rest, !.readable = FALSE]
  BY Zenon
<1>2. r \in Connection
  BY Zenon DEF Exchanged
<1>3. PICK buf \in Seq(Byte) : buf = d.rest /\ Served(M, sep, buf, r.wire, r.handled)
  BY Zenon DEF Advances
<1>4. s = [r EXCEPT !.buf = buf, !.readable = FALSE]
  BY <1>1, <1>3, Zenon
<1>5. s \in Connection
  BY <1>2, <1>4, Zenon DEF Connection
<1>6. /\ s.at = r.at /\ s.up_closed = r.up_closed /\ s.buf = buf /\ s.wire = r.wire
      /\ s.handled = r.handled /\ s.out = r.out
      /\ s.request = r.request /\ s.accepted = r.accepted /\ s.taken = r.taken
  BY <1>2, <1>4, SMTT(30) DEF Connection
<1>. QED  BY <1>1, <1>3, <1>5, <1>6, Zenon DEF Exchanged

(* The input ends. *)
LEMMA InputEnds ==
  ASSUME NEW M, NEW sep, NEW r, Exchanged(r, M, sep), ~r.readable, r.wire = <<>>,
         NEW d, Advances(d, M, sep, r.wire, r.handled), d.message = Nothing, ~d.error, d.rest = <<>>
  PROVE  Exchanged([r EXCEPT !.buf = <<>>, !.up_closed = TRUE], M, sep)
<1>1. PICK s : s = [r EXCEPT !.buf = <<>>, !.up_closed = TRUE]
  BY Zenon
<1>2. r \in Connection
  BY Zenon DEF Exchanged
<1>3. Served(M, sep, <<>>, r.wire, r.handled)
  BY Zenon DEF Advances
<1>4. s \in Connection
  BY <1>1, <1>2, Zenon DEF Connection
<1>5. /\ s.at = r.at /\ s.up_closed /\ s.buf = <<>> /\ s.wire = r.wire
      /\ s.readable = r.readable /\ s.handled = r.handled /\ s.out = r.out
      /\ s.request = r.request /\ s.accepted = r.accepted /\ s.taken = r.taken
  BY <1>1, <1>2 DEF Connection
<1>. QED  BY <1>1, <1>3, <1>4, <1>5, Zenon DEF Exchanged

LEMMA Responds ==
  ASSUME NEW M, NEW sep, NEW r, Exchanged(r, M, sep), r.request # Nothing
  PROVE  Exchanged([r EXCEPT !.request = Nothing, !.out = Append(@, Response)], M, sep)
<1>1. PICK s : s = [r EXCEPT !.request = Nothing, !.out = Append(@, Response)]
  BY Zenon
<1>2. r \in Connection /\ Written(r.out, Len(r.handled), r.request, r.accepted, r.taken)
  BY Zenon DEF Exchanged
<1>3. r.out \in Seq(Nat) /\ r.handled \in Seq(Seq(Byte))
  BY <1>2, Zenon DEF Connection
<1>4. PICK out : out = Append(r.out, Response)
  BY Zenon
<1>5. out \in Seq(Nat) /\ Written(out, Len(r.handled), Nothing, r.accepted, r.taken)
  BY <1>2, <1>3, <1>4, WriteResponse, LenProperties, Zenon
<1>6. s = [r EXCEPT !.request = Nothing, !.out = out]
  BY <1>1, <1>4, Zenon
<1>7. s \in Connection
  BY <1>2, <1>5, <1>6, Zenon DEF Connection
<1>8. /\ s.at = r.at /\ s.up_closed = r.up_closed /\ s.buf = r.buf /\ s.wire = r.wire
      /\ s.readable = r.readable /\ s.handled = r.handled /\ s.out = out
      /\ s.request = Nothing /\ s.accepted = r.accepted /\ s.taken = r.taken
  BY <1>2, <1>6, SMTT(30) DEF Connection
<1>. QED  BY <1>1, <1>5, <1>7, <1>8, Zenon DEF Exchanged

LEMMA TakesPush ==
  ASSUME NEW M, NEW sep, NEW r, Exchanged(r, M, sep), r.taken < Len(r.accepted)
  PROVE  Exchanged([r EXCEPT !.taken = @ + 1, !.out = Append(@, r.accepted[r.taken + 1])], M, sep)
<1>1. PICK s : s = [r EXCEPT !.taken = @ + 1, !.out = Append(@, r.accepted[r.taken + 1])]
  BY Zenon
<1>2. r \in Connection /\ Written(r.out, Len(r.handled), r.request, r.accepted, r.taken)
  BY Zenon DEF Exchanged
<1>3. r.out \in Seq(Nat) /\ r.accepted \in Seq(Nat \ {0}) /\ r.taken \in Nat
  BY <1>2, Zenon DEF Connection
<1>4. PICK out, taken : out = Append(r.out, r.accepted[r.taken + 1]) /\ taken = r.taken + 1
  BY Zenon
<1>5. out \in Seq(Nat) /\ Written(out, Len(r.handled), r.request, r.accepted, taken)
  BY <1>2, <1>3, <1>4, WritePush, Zenon
<1>6. taken \in Nat
  BY <1>3, <1>4, SMTT(30)
<1>7. s = [r EXCEPT !.taken = taken, !.out = out]
  BY <1>1, <1>4, Zenon
<1>8. s \in Connection
  BY <1>2, <1>5, <1>6, <1>7, Zenon DEF Connection
<1>9. /\ s.at = r.at /\ s.up_closed = r.up_closed /\ s.buf = r.buf /\ s.wire = r.wire
      /\ s.readable = r.readable /\ s.handled = r.handled /\ s.out = out
      /\ s.request = r.request /\ s.accepted = r.accepted /\ s.taken = taken
  BY <1>2, <1>7 DEF Connection
<1>. QED  BY <1>1, <1>5, <1>8, <1>9, Zenon DEF Exchanged

LEMMA GetsPush ==
  ASSUME NEW M, NEW sep, NEW r, Exchanged(r, M, sep)
  PROVE  Exchanged([r EXCEPT !.accepted = Append(@, Len(@) + 1)], M, sep)
<1>1. PICK s : s = [r EXCEPT !.accepted = Append(@, Len(@) + 1)]
  BY Zenon
<1>2. r \in Connection /\ Written(r.out, Len(r.handled), r.request, r.accepted, r.taken)
  BY Zenon DEF Exchanged
<1>3. r.accepted \in Seq(Nat \ {0}) /\ r.taken \in Nat
  BY <1>2, Zenon DEF Connection
<1>4. PICK accepted : accepted = Append(r.accepted, Len(r.accepted) + 1)
  BY Zenon
<1>5. accepted \in Seq(Nat \ {0}) /\ Written(r.out, Len(r.handled), r.request, accepted, r.taken)
  BY <1>2, <1>3, <1>4, AcceptPush, Zenon
<1>6. s = [r EXCEPT !.accepted = accepted]
  BY <1>1, <1>4, Zenon
<1>7. s \in Connection
  BY <1>2, <1>5, <1>6, Zenon DEF Connection
<1>8. /\ s.at = r.at /\ s.up_closed = r.up_closed /\ s.buf = r.buf /\ s.wire = r.wire
      /\ s.readable = r.readable /\ s.handled = r.handled /\ s.out = r.out
      /\ s.request = r.request /\ s.accepted = accepted /\ s.taken = r.taken
  BY <1>2, <1>6, SMTT(30) DEF Connection
<1>. QED  BY <1>1, <1>5, <1>7, <1>8, Zenon DEF Exchanged
-----------------------------------------------------------------------------
(* The invariant of the connections. *)

LEMMA ExchangeInit == TcpInit => ExchangeInv
<1>. SUFFICES ASSUME TcpInit PROVE ExchangeInv
  OBVIOUS
<1>1. load \in Loads /\ DOMAIN conn = Conns /\ \A c \in Conns : conn[c] = Fresh(c, load)
  BY Zenon DEF TcpInit
<1>2. channels \in [Addresses -> Conns \union {NoConn}]
  BY Zenon DEF TcpInit
<1>3. ASSUME NEW c \in Conns PROVE Exchanged(conn[c], load.messages[c], load.separator)
  BY <1>1, FreshExchanged, Zenon
<1>. QED  BY <1>1, <1>2, <1>3, Zenon DEF ExchangeInv

(* A step that changes a single connection. *)
LEMMA OneConnection ==
  ASSUME ExchangeInv, NEW c \in Conns, NEW s, Exchanged(s, load.messages[c], load.separator),
         conn' = [conn EXCEPT ![c] = s], load' = load,
         channels' \in [Addresses -> Conns \union {NoConn}]
  PROVE  ExchangeInv'
<1>1. DOMAIN conn' = Conns /\ conn'[c] = s /\ \A d \in Conns \ {c} : conn'[d] = conn[d]
  BY Zenon DEF ExchangeInv
<1>2. ASSUME NEW d \in Conns PROVE Exchanged(conn'[d], load'.messages[d], load'.separator)
  <2>1. CASE d = c
    BY <1>1, <2>1, Zenon
  <2>2. CASE d # c
    BY <1>1, <2>2, Zenon DEF ExchangeInv
  <2>. QED  BY <2>1, <2>2, Zenon
<1>. QED  BY <1>1, <1>2, Zenon DEF ExchangeInv

(* decode's step, for a connection. *)
LEMMA Decodes ==
  ASSUME ExchangeInv, NEW c \in Conns
  PROVE  Advances(decode(conn[c].buf, load.separator), load.messages[c], load.separator, conn[c].wire, conn[c].handled)
<1>1. /\ conn[c] \in Connection
      /\ Served(load.messages[c], load.separator, conn[c].buf, conn[c].wire, conn[c].handled)
  BY Zenon DEF ExchangeInv, Exchanged
<1>2. conn[c].buf \in Seq(Byte) /\ conn[c].wire \in Seq(Byte)
  BY <1>1, Zenon DEF Connection
<1>3. /\ load.messages[c] \in Seq(Seq(Byte)) /\ load.separator \in Byte \union {Empty}
      /\ Framed(load.messages[c], load.separator)
  BY ConnsAssumption, Zenon DEF ExchangeInv
<1>. QED  BY <1>1, <1>2, <1>3, DecodeStep, Zenon

LEMMA ServeKeepsExchange ==
  ASSUME ExchangeInv, NEW c \in Conns, Serve(c)
  PROVE  ExchangeInv'
<1>. DEFINE OK(s) == Exchanged(s, load.messages[c], load.separator)
<1>1. /\ OK(conn[c]) /\ channels \in [Addresses -> Conns \union {NoConn}]
      /\ {"closing", "removing", "finished", "failed"} \subseteq Places
  BY DEF ExchangeInv, Places
<1>2. SUFFICES \E s : OK(s) /\ conn' = [conn EXCEPT ![c] = s] /\ load' = load
                      /\ channels' \in [Addresses -> Conns \union {NoConn}]
  BY OneConnection, Zenon
<1>3. ASSUME NEW s, Step(c, s), OK(s)
      PROVE  OK(s) /\ conn' = [conn EXCEPT ![c] = s] /\ load' = load
             /\ channels' \in [Addresses -> Conns \union {NoConn}]
  BY <1>1, <1>3, Zenon DEF Step
<1>4. PICK r : r = conn[c] /\ OK(r)
  BY <1>1, Zenon
<1>5. CASE Read(c)
  <2>1. PICK n \in 1 .. Len(r.wire) :
          Step(c, [r EXCEPT !.buf = @ \o SubSeq(r.wire, 1, n),
                            !.wire = SubSeq(@, n + 1, Len(@)), !.readable = TRUE])
    BY <1>4, <1>5, Zenon DEF Read
  <2>2. OK([r EXCEPT !.buf = @ \o SubSeq(r.wire, 1, n),
                     !.wire = SubSeq(@, n + 1, Len(@)), !.readable = TRUE])
    BY <1>4, Reads, Zenon
  <2>. HIDE DEF OK
  <2>. QED  BY <1>3, <2>1, <2>2, Zenon
<1>6. CASE Decode(c)
  <2>1. PICK d : d = decode(r.buf, load.separator) /\ Advances(d, load.messages[c], load.separator, r.wire, r.handled)
    BY <1>4, Decodes, Zenon
  <2>2. r.readable /\ r.request = Nothing
    BY <1>4, <1>6, Zenon DEF Decode
  <2>3. ~r.up_closed
    BY <1>4, <2>2, Zenon DEF Exchanged
  <2>4. Step(c, CASE d.error -> Failed(r)
                [] ~d.error /\ d.message # Nothing -> Handle(r, d)
                [] OTHER -> [r EXCEPT !.buf = d.rest, !.readable = FALSE])
    BY <1>4, <1>6, <2>1, Zenon DEF Decode
  <2>5. CASE d.error
    <3>1. Step(c, Failed(r))
      BY <2>4, <2>5
    <3>2. OK(Failed(r))
      BY <1>1, <1>4, Moves, SMTT(30) DEF Failed
    <3>. QED  BY <1>3, <3>1, <3>2, Zenon
  <2>6. CASE ~d.error /\ d.message # Nothing
    <3>1. Step(c, Handle(r, d))
      BY <2>4, <2>6, SMTT(30)
    <3>2. OK(Handle(r, d))
      BY <1>4, <2>1, <2>2, <2>3, <2>6, Handles, Zenon
    <3>. QED  BY <1>3, <3>1, <3>2, Zenon
  <2>7. CASE ~d.error /\ d.message = Nothing
    <3>1. Step(c, [r EXCEPT !.buf = d.rest, !.readable = FALSE])
      BY <2>4, <2>7, SMTT(30)
    <3>2. OK([r EXCEPT !.buf = d.rest, !.readable = FALSE])
      BY <1>4, <2>1, <2>3, <2>7, Awaits, Zenon
    <3>. QED  BY <1>3, <3>1, <3>2, Zenon
  <2>. QED  BY <2>5, <2>6, <2>7, Zenon
<1>7. CASE EndOfInput(c)
  <2>1. PICK d : d = decode(r.buf, load.separator) /\ Advances(d, load.messages[c], load.separator, r.wire, r.handled)
    BY <1>4, Decodes, Zenon
  <2>2. ~r.readable /\ r.request = Nothing /\ r.wire = <<>> /\ ~r.up_closed
    BY <1>4, <1>7, Zenon DEF EndOfInput
  <2>4. Step(c, CASE d.message # Nothing -> Handle(r, d)
                [] d.message = Nothing /\ ~d.error /\ d.rest = <<>> ->
                     [r EXCEPT !.buf = <<>>, !.up_closed = TRUE]
                [] OTHER -> Failed(r))
    BY <1>4, <1>7, <2>1, Zenon DEF EndOfInput
  <2>5. CASE d.message # Nothing
    <3>1. Step(c, Handle(r, d))
      BY <2>4, <2>5, SMTT(30)
    <3>2. OK(Handle(r, d))
      BY <1>4, <2>1, <2>2, <2>5, Handles, Zenon
    <3>. QED  BY <1>3, <3>1, <3>2, Zenon
  <2>6. CASE d.message = Nothing /\ ~d.error /\ d.rest = <<>>
    <3>1. Step(c, [r EXCEPT !.buf = <<>>, !.up_closed = TRUE])
      BY <2>4, <2>6, SMTT(30)
    <3>2. OK([r EXCEPT !.buf = <<>>, !.up_closed = TRUE])
      BY <1>4, <2>1, <2>2, <2>6, InputEnds, Zenon
    <3>. QED  BY <1>3, <3>1, <3>2, Zenon
  <2>7. CASE d.message = Nothing /\ ~(~d.error /\ d.rest = <<>>)
    <3>1. Step(c, Failed(r))
      BY <2>4, <2>7, SMTT(30)
    <3>2. OK(Failed(r))
      BY <1>1, <1>4, Moves, SMTT(30) DEF Failed
    <3>. QED  BY <1>3, <3>1, <3>2, Zenon
  <2>. QED  BY <2>5, <2>6, <2>7, Zenon
<1>8. CASE Respond(c)
  <2>1. r.request # Nothing /\ Step(c, [r EXCEPT !.request = Nothing, !.out = Append(@, Response)])
    BY <1>4, <1>8, Zenon DEF Respond
  <2>2. OK([r EXCEPT !.request = Nothing, !.out = Append(@, Response)])
    BY <1>4, <2>1, Responds, Zenon
  <2>. QED  BY <1>3, <2>1, <2>2, Zenon
<1>9. CASE TakePush(c)
  <2>1. /\ r.taken < Len(r.accepted)
        /\ Step(c, [r EXCEPT !.taken = @ + 1, !.out = Append(@, r.accepted[r.taken + 1])])
    BY <1>4, <1>9, Zenon DEF TakePush
  <2>2. OK([r EXCEPT !.taken = @ + 1, !.out = Append(@, r.accepted[r.taken + 1])])
    BY <1>4, <2>1, TakesPush, Zenon
  <2>. QED  BY <1>3, <2>1, <2>2, Zenon
<1>10. CASE QueueEnds(c)
  <2>1. r.up_closed /\ Step(c, [r EXCEPT !.at = "closing"])
    BY <1>4, <1>10, Zenon DEF QueueEnds
  <2>2. OK([r EXCEPT !.at = "closing"])
    BY <1>1, <1>4, <2>1, Moves, SMTT(30)
  <2>. QED  BY <1>3, <2>1, <2>2, Zenon
<1>11. CASE DropReceiver(c)
  <2>1. r.at = "closing" /\ Step(c, [r EXCEPT !.at = "removing"])
    BY <1>4, <1>11, Zenon DEF DropReceiver
  <2>2. r.up_closed
    BY <1>4, <2>1, SMTT(30) DEF Exchanged
  <2>3. OK([r EXCEPT !.at = "removing"])
    BY <1>1, <1>4, <2>2, Moves, SMTT(30)
  <2>. QED  BY <1>3, <2>1, <2>3, Zenon
<1>12. CASE RemoveChannel(c)
  <2>1. /\ r.at = "removing" /\ conn' = [conn EXCEPT ![c] = [r EXCEPT !.at = "finished"]]
        /\ channels' = [channels EXCEPT ![AddrOf[c]] = NoConn] /\ load' = load
    BY <1>4, <1>12, Zenon DEF RemoveChannel
  <2>2. r.up_closed
    BY <1>4, <2>1, SMTT(30) DEF Exchanged
  <2>3. OK([r EXCEPT !.at = "finished"])
    BY <1>1, <1>4, <2>2, Moves, SMTT(30)
  <2>4. channels' \in [Addresses -> Conns \union {NoConn}]
    BY <1>1, <2>1, Zenon
  <2>. QED  BY <2>1, <2>3, <2>4, Zenon
<1>. QED  BY <1>5, <1>6, <1>7, <1>8, <1>9, <1>10, <1>11, <1>12, Zenon DEF Serve

LEMMA NextKeepsExchange == ExchangeInv /\ [TcpNext]_tcpVars => ExchangeInv'
<1>. SUFFICES ASSUME ExchangeInv, [TcpNext]_tcpVars PROVE ExchangeInv'
  BY SMTT(30)
<1>1. /\ channels \in [Addresses -> Conns \union {NoConn}] /\ DOMAIN conn = Conns
      /\ \A c \in Conns : Exchanged(conn[c], load.messages[c], load.separator)
      /\ {"backlog", "ignored", "open", "failed", "dropped"}
           \subseteq Places \ {"closing", "removing", "finished"}
  BY DEF ExchangeInv, Places
<1>2. ASSUME NEW c \in Conns, NEW s, Alter(c, s) \/ Step(c, s), Exchanged(s, load.messages[c], load.separator)
      PROVE  ExchangeInv'
  <2>1. conn' = [conn EXCEPT ![c] = s] /\ load' = load /\ channels' = channels
    BY <1>2, Zenon DEF Alter, Step
  <2>2. channels' \in [Addresses -> Conns \union {NoConn}]
    BY <1>1, <2>1, Zenon
  <2>. QED  BY <1>2, <2>1, <2>2, OneConnection, Zenon
<1>3. ASSUME NEW c \in Conns, NEW to \in {"backlog", "ignored", "open", "failed", "dropped"}
      PROVE  Exchanged([conn[c] EXCEPT !.at = to], load.messages[c], load.separator)
  <2>1. to \in Places /\ to \notin {"closing", "removing", "finished"}
    BY <1>1, Zenon
  <2>. QED  BY <1>1, <2>1, Moves, Zenon
<1>4. /\ "backlog" \in {"backlog", "ignored", "open", "failed", "dropped"}
      /\ "ignored" \in {"backlog", "ignored", "open", "failed", "dropped"}
      /\ "open" \in {"backlog", "ignored", "open", "failed", "dropped"}
      /\ "failed" \in {"backlog", "ignored", "open", "failed", "dropped"}
      /\ "dropped" \in {"backlog", "ignored", "open", "failed", "dropped"}
  OBVIOUS
<1>5. ASSUME UNCHANGED <<load, channels, conn>> PROVE ExchangeInv'
  BY <1>5, Zenon DEF ExchangeInv
<1>6. CASE UNCHANGED tcpVars
  BY <1>5, <1>6, Zenon DEF tcpVars
<1>7. ASSUME NEW ok \in BOOLEAN, Start(ok) PROVE ExchangeInv'
  BY <1>5, <1>7, Zenon DEF Start
<1>8. ASSUME NEW ok \in BOOLEAN, NEW c \in Conns, AcceptSocket(c, ok) PROVE ExchangeInv'
  <2>1. PICK s : /\ conn' = [conn EXCEPT ![c] = s]
                 /\ \E to \in {"open", "ignored"} : s = [conn[c] EXCEPT !.at = to]
    <3>1. conn' = [conn EXCEPT ![c] = [conn[c] EXCEPT !.at = IF ok THEN "open" ELSE "ignored"]]
      BY <1>8, Zenon DEF AcceptSocket
    <3>2. CASE ok
      BY <3>1, <3>2, Zenon
    <3>3. CASE ~ok
      BY <3>1, <3>3, Zenon
    <3>. QED  BY <3>2, <3>3, Zenon
  <2>2. load' = load /\ channels' = IF ok THEN [channels EXCEPT ![AddrOf[c]] = c] ELSE channels
    BY <1>8, Zenon DEF AcceptSocket
  <2>3. channels' \in [Addresses -> Conns \union {NoConn}]
    BY <1>1, <2>2, Zenon
  <2>4. Exchanged(s, load.messages[c], load.separator)
    BY <1>3, <1>4, <2>1, Zenon
  <2>. QED  BY <2>1, <2>2, <2>3, <2>4, OneConnection, Zenon
<1>9. CASE Stop
  <2>1. /\ DOMAIN conn' = Conns /\ load' = load /\ channels' = channels
        /\ \A c \in Conns : conn'[c] = conn[c] \/ conn'[c] = [conn[c] EXCEPT !.at = "dropped"]
    BY <1>9, Zenon DEF Stop
  <2>2. ASSUME NEW c \in Conns PROVE Exchanged(conn'[c], load'.messages[c], load'.separator)
    <3>1. Exchanged([conn[c] EXCEPT !.at = "dropped"], load.messages[c], load.separator)
      BY <1>3, <1>4, Zenon
    <3>. QED  BY <1>1, <2>1, <3>1, Zenon
  <2>. QED  BY <2>1, <2>2, Zenon DEF ExchangeInv
<1>10. CASE AcceptFails \/ Elapse
  BY <1>5, <1>10, Zenon DEF AcceptFails, Elapse
<1>11. ASSUME NEW c \in Conns, Connect(c) \/ AcceptAborted(c) \/ WriteFails(c) PROVE ExchangeInv'
  <2>1. PICK s : /\ Alter(c, s) \/ Step(c, s)
                 /\ \E to \in {"backlog", "ignored", "failed"} : s = [conn[c] EXCEPT !.at = to]
    <3>1. \/ Alter(c, [conn[c] EXCEPT !.at = "backlog"])
          \/ Alter(c, [conn[c] EXCEPT !.at = "ignored"])
          \/ Step(c, [conn[c] EXCEPT !.at = "failed"])
      BY <1>11, Zenon DEF Connect, AcceptAborted, WriteFails, Failed
    <3>. QED  BY <3>1, Zenon
  <2>2. Exchanged(s, load.messages[c], load.separator)
    BY <1>3, <1>4, <2>1, Zenon
  <2>. QED  BY <1>2, <2>1, <2>2, Zenon
<1>12. ASSUME NEW c \in Conns, HangUp(c) PROVE ExchangeInv'
  <2>1. PICK s : s = [conn[c] EXCEPT !.eof = TRUE] /\ Alter(c, s)
    BY <1>12, Zenon DEF HangUp
  <2>2. Exchanged(s, load.messages[c], load.separator)
    BY <1>1, <2>1, HangsUp, Zenon
  <2>. QED  BY <1>2, <2>1, <2>2, Zenon
<1>13. ASSUME NEW a \in Addresses, PushMessage(a) PROVE ExchangeInv'
  <2>1. PICK c : c = channels[a] /\ c # NoConn
    BY <1>13, ZenonT(60) DEF PushMessage
  <2>2. c \in Conns
    BY <1>1, <2>1, SMTT(30)
  <2>3. PICK s : s = [conn[c] EXCEPT !.accepted = Append(@, Len(@) + 1)] /\ Alter(c, s)
    BY <1>13, <2>1, Zenon DEF PushMessage
  <2>4. Exchanged(s, load.messages[c], load.separator)
    BY <1>1, <2>2, <2>3, GetsPush, Zenon
  <2>. QED  BY <1>2, <2>2, <2>3, <2>4, Zenon
<1>. QED
  BY <1>6, <1>7, <1>8, <1>9, <1>10, <1>11, <1>12, <1>13, ServeKeepsExchange, Zenon DEF TcpNext

(* The invariant says what TcpExchange does. *)
LEMMA ExchangeHolds == ExchangeInv => TcpExchange
<1>. SUFFICES ASSUME ExchangeInv, NEW c \in Conns
              PROVE  LET s == conn[c]
                         texts == Texts(load.messages[c])
                         responses == {i \in DOMAIN s.out : s.out[i] = Response}
                     IN  /\ Len(s.handled) <= Len(texts) /\ s.handled = SubSeq(texts, 1, Len(s.handled))
                         /\ Len(Subsequence(s.out, responses)) = Len(s.handled) - (IF s.request = Nothing THEN 0 ELSE 1)
                         /\ s.taken <= Len(s.accepted)
                         /\ Subsequence(s.out, DOMAIN s.out \ responses) = SubSeq(s.accepted, 1, s.taken)
                         /\ s.at = "finished" => s.handled = texts
  BY Zenon DEF TcpExchange
<1>1. PICK s : s = conn[c] /\ Exchanged(s, load.messages[c], load.separator)
  BY Zenon DEF ExchangeInv
<1>2. /\ load.messages[c] \in Seq(Seq(Byte)) /\ load.separator \in Byte \union {Empty}
      /\ Framed(load.messages[c], load.separator)
  BY ConnsAssumption, Zenon DEF ExchangeInv
<1>3. /\ s.buf \in Seq(Byte) /\ s.wire \in Seq(Byte)
      /\ Served(load.messages[c], load.separator, s.buf, s.wire, s.handled)
  BY <1>1, Zenon DEF Exchanged, Connection
<1>4. WellServed(load.messages[c], s.buf, s.wire, s.handled)
  BY <1>2, <1>3, ServedIs, Zenon
<1>5. s.at = "finished" => s.buf = <<>> /\ s.wire = <<>>
  BY <1>1, Zenon DEF Exchanged
<1>6. Written(s.out, Len(s.handled), s.request, s.accepted, s.taken)
  BY <1>1, Zenon DEF Exchanged
<1>. QED  BY <1>1, <1>4, <1>5, <1>6, Zenon DEF WellServed, Written, Responses

(***************************************************************************)
(* Whatever the clients send in whatever pieces, the service of the TCP    *)
(* server gets each message once and in order, answers it before the next, *)
(* writes what is pushed in order, and has served everything when a        *)
(* connection finishes.                                                    *)
(***************************************************************************)
THEOREM ExchangesAreInOrder == TcpSpec => []TcpExchange
<1>1. TcpInit => ExchangeInv
  BY ExchangeInit, SMTT(30)
<1>2. ExchangeInv /\ [TcpNext]_tcpVars => ExchangeInv'
  BY NextKeepsExchange, SMTT(30)
<1>3. ExchangeInv => TcpExchange
  BY ExchangeHolds, SMTT(30)
<1>. QED  BY <1>1, <1>2, <1>3, PTL DEF TcpSpec
-----------------------------------------------------------------------------
(***************************************************************************)
(* The Dispatcher's entries.  The invariant is TcpPeersTracked itself,     *)
(* from the start of the server to its stop, and it depends only on where  *)
(* the connections are.                                                    *)
(***************************************************************************)
Live == {"open", "closing", "removing"}

Tracked ==
  /\ \A a \in Addresses : channels[a] # NoConn =>
       AddrOf[channels[a]] = a /\ conn[channels[a]].at \in Live \union {"failed"}
  /\ \A c \in Conns : conn[c].at \in Live =>
       \/ channels[AddrOf[c]] = c
       \/ \E d \in Conns \ {c} : AddrOf[d] = AddrOf[c] /\ conn[d].at \notin {"none", "backlog"}

PeersInv ==
  /\ channels \in [Addresses -> Conns \union {NoConn}]
  /\ DOMAIN conn = Conns /\ \A c \in Conns : "at" \in DOMAIN conn[c]
  /\ server # "stopped" => Tracked

(* How a connection moves while its sender stays where it is. *)
Onward(from, to) ==
  \/ to = from
  \/ from \in {"none", "backlog"} /\ to \in {"backlog", "ignored"}
  \/ from \in Live /\ to \in Live \union {"failed"}

LEMMA MovesOnward ==
  ASSUME PeersInv, NEW c \in Conns, NEW s, conn' = [conn EXCEPT ![c] = s], "at" \in DOMAIN s,
         Onward(conn[c].at, s.at), channels' = channels, server' = server
  PROVE  PeersInv'
<1>1. /\ DOMAIN conn' = Conns /\ conn'[c] = s /\ \A d \in Conns \ {c} : conn'[d] = conn[d]
      /\ channels \in [Addresses -> Conns \union {NoConn}]
  BY Zenon DEF PeersInv
<1>2. \A d \in Conns : "at" \in DOMAIN conn'[d] /\ Onward(conn[d].at, conn'[d].at)
  BY <1>1, Zenon DEF PeersInv, Onward
<1>3. \A d \in Conns : conn[d].at \in Live \union {"failed"} => conn'[d].at \in Live \union {"failed"}
  <2>1. ASSUME NEW from, NEW to, Onward(from, to), from \in Live \union {"failed"}
        PROVE  to \in Live \union {"failed"}
    BY <2>1, SMTT(30) DEF Onward, Live
  <2>. QED  BY <1>2, <2>1, ZenonT(60)
<1>4. \A d \in Conns : conn'[d].at \in Live => conn[d].at \in Live
  <2>1. ASSUME NEW from, NEW to, Onward(from, to), to \in Live PROVE from \in Live
    BY <2>1 DEF Onward, Live
  <2>. QED  BY <1>2, <2>1, Zenon
<1>5. \A d \in Conns : conn[d].at \notin {"none", "backlog"} => conn'[d].at \notin {"none", "backlog"}
  <2>1. ASSUME NEW from, NEW to, Onward(from, to), from \notin {"none", "backlog"}
        PROVE  to \notin {"none", "backlog"}
    BY <2>1 DEF Onward, Live
  <2>. QED  BY <1>2, <2>1, Zenon
<1>6. ASSUME Tracked PROVE Tracked'
  <2>1. ASSUME NEW a \in Addresses, channels[a] # NoConn
        PROVE  AddrOf[channels[a]] = a /\ conn'[channels[a]].at \in Live \union {"failed"}
    <3>1. channels[a] \in Conns
      BY <1>1, <2>1, SMTT(30)
    <3>. QED  BY <1>3, <1>6, <2>1, <3>1, Zenon DEF Tracked
  <2>2. ASSUME NEW d \in Conns, conn'[d].at \in Live
        PROVE  \/ channels[AddrOf[d]] = d
               \/ \E e \in Conns \ {d} : AddrOf[e] = AddrOf[d] /\ conn'[e].at \notin {"none", "backlog"}
    BY <1>4, <1>5, <1>6, <2>2, Zenon DEF Tracked
  <2>. QED  BY <2>1, <2>2, Zenon DEF Tracked
<1>. QED  BY <1>1, <1>2, <1>6, Zenon DEF PeersInv

(* A connection registers its sender, or removes what is registered for its address. *)
LEMMA Registers ==
  ASSUME PeersInv, NEW c \in Conns, NEW s, conn' = [conn EXCEPT ![c] = s], "at" \in DOMAIN s,
         NEW entry \in {c, NoConn}, channels' = [channels EXCEPT ![AddrOf[c]] = entry],
         s.at = (IF entry = c THEN "open" ELSE "finished"), server' = server
  PROVE  PeersInv'
<1>1. /\ DOMAIN conn' = Conns /\ conn'[c] = s /\ \A d \in Conns \ {c} : conn'[d] = conn[d]
      /\ channels \in [Addresses -> Conns \union {NoConn}]
      /\ \A d \in Conns : "at" \in DOMAIN conn'[d]
  BY Zenon DEF PeersInv
<1>2. /\ AddrOf[c] \in Addresses /\ \A d \in Conns : AddrOf[d] \in Addresses
      /\ c # NoConn
  BY ConnsAssumption, Zenon DEF Addresses
<1>3. /\ channels' \in [Addresses -> Conns \union {NoConn}] /\ channels'[AddrOf[c]] = entry
      /\ \A a \in Addresses : a # AddrOf[c] => channels'[a] = channels[a]
  BY <1>1, <1>2, Zenon
<1>4. s.at \notin {"none", "backlog"} /\ (entry = c => s.at \in Live) /\ (entry # c => s.at \notin Live)
  BY DEF Live
<1>5. ASSUME Tracked PROVE Tracked'
  <2>1. ASSUME NEW a \in Addresses, channels'[a] # NoConn
        PROVE  AddrOf[channels'[a]] = a /\ conn'[channels'[a]].at \in Live \union {"failed"}
    <3>1. CASE a = AddrOf[c]
      BY <1>1, <1>3, <1>4, <2>1, <3>1, Zenon
    <3>2. CASE a # AddrOf[c]
      <4>1. channels'[a] = channels[a] /\ channels[a] \in Conns
        BY <1>1, <1>3, <2>1, <3>2, SMTT(30)
      <4>2. AddrOf[channels[a]] = a /\ conn[channels[a]].at \in Live \union {"failed"}
        BY <1>5, <2>1, <4>1, Zenon DEF Tracked
      <4>3. channels[a] \in Conns \ {c}
        BY <3>2, <4>1, <4>2, Zenon
      <4>. QED  BY <1>1, <4>1, <4>2, <4>3, Zenon
    <3>. QED  BY <3>1, <3>2, Zenon
  <2>2. ASSUME NEW d \in Conns, conn'[d].at \in Live
        PROVE  \/ channels'[AddrOf[d]] = d
               \/ \E e \in Conns \ {d} : AddrOf[e] = AddrOf[d] /\ conn'[e].at \notin {"none", "backlog"}
    <3>1. CASE d = c
      BY <1>1, <1>3, <1>4, <2>2, <3>1, Zenon
    <3>2. CASE d # c /\ AddrOf[d] = AddrOf[c]
      BY <1>1, <1>4, <3>2, Zenon
    <3>3. CASE d # c /\ AddrOf[d] # AddrOf[c]
      <4>1. conn[d].at \in Live /\ channels'[AddrOf[d]] = channels[AddrOf[d]]
        BY <1>1, <1>2, <1>3, <2>2, <3>3, Zenon
      <4>2. ASSUME NEW e \in Conns \ {d}, AddrOf[e] = AddrOf[d], conn[e].at \notin {"none", "backlog"}
            PROVE  conn'[e].at \notin {"none", "backlog"}
        <5>1. e \in Conns \ {c}
          BY <3>3, <4>2, Zenon
        <5>. QED  BY <1>1, <4>2, <5>1, Zenon
      <4>. QED  BY <1>5, <4>1, <4>2, Zenon DEF Tracked
    <3>. QED  BY <3>1, <3>2, <3>3, Zenon
  <2>. QED  BY <2>1, <2>2, Zenon DEF Tracked
<1>. QED  BY <1>1, <1>3, <1>5, Zenon DEF PeersInv

LEMMA PeersInit == TcpInit => PeersInv
<1>. SUFFICES ASSUME TcpInit PROVE PeersInv
  OBVIOUS
<1>1. /\ channels \in [Addresses -> Conns \union {NoConn}] /\ \A a \in Addresses : channels[a] = NoConn
      /\ DOMAIN conn = Conns
  BY Zenon DEF TcpInit
<1>2. ASSUME NEW c \in Conns PROVE "at" \in DOMAIN conn[c] /\ conn[c].at \notin Live
  <2>1. conn[c] = Fresh(c, load)
    BY ZenonT(60) DEF TcpInit
  <2>2. "at" \in DOMAIN Fresh(c, load) /\ Fresh(c, load).at = "none"
    BY SMTT(30) DEF Fresh
  <2>3. "none" \notin Live
    BY DEF Live
  <2>. QED  BY <2>1, <2>2, <2>3, Zenon
<1>. QED  BY <1>1, <1>2, Zenon DEF PeersInv, Tracked

(* A connection that only changes what is exchanged stays where it is. *)
LEMMA StaysAt ==
  ASSUME NEW r, "at" \in DOMAIN r
  PROVE  /\ \A x, y, z : LET s == [r EXCEPT !.buf = x, !.wire = y, !.readable = z]
                         IN  "at" \in DOMAIN s /\ s.at = r.at
         /\ \A x, y, z : LET s == [r EXCEPT !.buf = x, !.request = y, !.handled = z]
                         IN  "at" \in DOMAIN s /\ s.at = r.at
         /\ \A x, y : LET s == [r EXCEPT !.buf = x, !.readable = y]
                      IN  "at" \in DOMAIN s /\ s.at = r.at
         /\ \A x, y : LET s == [r EXCEPT !.buf = x, !.up_closed = y]
                      IN  "at" \in DOMAIN s /\ s.at = r.at
         /\ \A x, y : LET s == [r EXCEPT !.request = x, !.out = y]
                      IN  "at" \in DOMAIN s /\ s.at = r.at
         /\ \A x, y : LET s == [r EXCEPT !.taken = x, !.out = y]
                      IN  "at" \in DOMAIN s /\ s.at = r.at
         /\ \A x : LET s == [r EXCEPT !.at = x] IN "at" \in DOMAIN s /\ s.at = x
OBVIOUS

(* It does so when its client hangs up or a message is pushed. *)
LEMMA StaysWhen ==
  ASSUME NEW r, "at" \in DOMAIN r, NEW x
  PROVE  /\ "at" \in DOMAIN [r EXCEPT !.eof = x] /\ [r EXCEPT !.eof = x].at = r.at
         /\ "at" \in DOMAIN [r EXCEPT !.accepted = x] /\ [r EXCEPT !.accepted = x].at = r.at
OBVIOUS

LEMMA ServeKeepsPeers ==
  ASSUME PeersInv, NEW c \in Conns, Serve(c)
  PROVE  PeersInv'
<1>1. PICK r : r = conn[c] /\ "at" \in DOMAIN r
  BY Zenon DEF PeersInv
<1>2. ASSUME NEW s, Step(c, s), "at" \in DOMAIN s, Onward(r.at, s.at)
      PROVE  PeersInv'
  <2>1. /\ conn' = [conn EXCEPT ![c] = s] /\ Onward(conn[c].at, s.at)
        /\ channels' = channels /\ server' = server
    BY <1>1, <1>2, Zenon DEF Step
  <2>. QED  BY <1>2, <2>1, MovesOnward, Zenon
<1>3. ASSUME NEW s, Step(c, s), "at" \in DOMAIN s, s.at = r.at PROVE PeersInv'
  BY <1>2, <1>3, Zenon DEF Onward
<1>4. ASSUME Step(c, Failed(r)), r.at \in Live PROVE PeersInv'
  <2>1. "at" \in DOMAIN Failed(r) /\ Failed(r).at = "failed"
    BY <1>1, StaysAt, Zenon DEF Failed
  <2>. QED  BY <1>2, <1>4, <2>1, Zenon DEF Onward
<1>5. \A d : "at" \in DOMAIN Handle(r, d) /\ Handle(r, d).at = r.at
  BY <1>1, StaysAt, Zenon DEF Handle
<1>6. /\ "open" \in Live /\ "closing" \in Live /\ "removing" \in Live
      /\ \A x : "at" \in DOMAIN [r EXCEPT !.at = x] /\ [r EXCEPT !.at = x].at = x
  <2>1. "open" \in Live /\ "closing" \in Live /\ "removing" \in Live
    BY DEF Live
  <2>. QED  BY <1>1, <2>1, StaysAt, Zenon
<1>7. CASE Read(c)
  <2>1. PICK n \in 1 .. Len(r.wire) :
          Step(c, [r EXCEPT !.buf = @ \o SubSeq(r.wire, 1, n),
                            !.wire = SubSeq(@, n + 1, Len(@)), !.readable = TRUE])
    BY <1>1, <1>7, Zenon DEF Read
  <2>. QED  BY <1>1, <1>3, <2>1, StaysAt, Zenon
<1>8. CASE Decode(c)
  <2>1. PICK d :
          Step(c, CASE d.error -> Failed(r)
                  [] ~d.error /\ d.message # Nothing -> Handle(r, d)
                  [] OTHER -> [r EXCEPT !.buf = d.rest, !.readable = FALSE])
    BY <1>1, <1>8, Zenon DEF Decode
  <2>2. \/ Step(c, Failed(r)) \/ Step(c, Handle(r, d))
        \/ Step(c, [r EXCEPT !.buf = d.rest, !.readable = FALSE])
    <3>1. CASE d.error
      BY <2>1, <3>1
    <3>2. CASE ~d.error /\ d.message # Nothing
      BY <2>1, <3>2
    <3>3. CASE ~d.error /\ d.message = Nothing
      BY <2>1, <3>3
    <3>. QED  BY <3>1, <3>2, <3>3, Zenon
  <2>3. r.at \in Live
    BY <1>1, <1>6, <1>8, Zenon DEF Decode, Open
  <2>. QED  BY <1>1, <1>3, <1>4, <1>5, <2>2, <2>3, StaysAt, Zenon
<1>9. CASE EndOfInput(c)
  <2>1. PICK d :
          Step(c, CASE d.message # Nothing -> Handle(r, d)
                  [] d.message = Nothing /\ ~d.error /\ d.rest = <<>> ->
                       [r EXCEPT !.buf = <<>>, !.up_closed = TRUE]
                  [] OTHER -> Failed(r))
    BY <1>1, <1>9, Zenon DEF EndOfInput
  <2>2. \/ Step(c, Failed(r)) \/ Step(c, Handle(r, d))
        \/ Step(c, [r EXCEPT !.buf = <<>>, !.up_closed = TRUE])
    <3>1. CASE d.message # Nothing
      BY <2>1, <3>1
    <3>2. CASE d.message = Nothing /\ ~d.error /\ d.rest = <<>>
      BY <2>1, <3>2, SMTT(30)
    <3>3. CASE d.message = Nothing /\ ~(~d.error /\ d.rest = <<>>)
      BY <2>1, <3>3
    <3>. QED  BY <3>1, <3>2, <3>3, Zenon
  <2>3. r.at \in Live
    BY <1>1, <1>6, <1>9, Zenon DEF EndOfInput, Open
  <2>. QED  BY <1>1, <1>3, <1>4, <1>5, <2>2, <2>3, StaysAt, Zenon
<1>10. CASE Respond(c)
  <2>1. Step(c, [r EXCEPT !.request = Nothing, !.out = Append(@, Response)])
    BY <1>1, <1>10, Zenon DEF Respond
  <2>. QED  BY <1>1, <1>3, <2>1, StaysAt, Zenon
<1>11. CASE TakePush(c)
  <2>1. Step(c, [r EXCEPT !.taken = @ + 1, !.out = Append(@, r.accepted[r.taken + 1])])
    BY <1>1, <1>11, Zenon DEF TakePush
  <2>. QED  BY <1>1, <1>3, <2>1, StaysAt, Zenon
<1>12. CASE QueueEnds(c) \/ DropReceiver(c)
  <2>1. PICK to \in Live : r.at \in Live /\ Step(c, [r EXCEPT !.at = to])
    BY <1>1, <1>6, <1>12, Zenon DEF QueueEnds, DropReceiver, Open
  <2>2. PICK s : s = [r EXCEPT !.at = to] /\ "at" \in DOMAIN s /\ s.at = to
    BY <1>6, Zenon
  <2>3. Onward(r.at, s.at)
    BY <2>1, <2>2, Zenon DEF Onward
  <2>. QED  BY <1>2, <2>1, <2>2, <2>3, Zenon
<1>13. CASE RemoveChannel(c)
  <2>1. PICK s : s = [r EXCEPT !.at = "finished"] /\ "at" \in DOMAIN s /\ s.at = "finished"
    BY <1>6, Zenon
  <2>2. /\ conn' = [conn EXCEPT ![c] = s] /\ server' = server
        /\ channels' = [channels EXCEPT ![AddrOf[c]] = NoConn]
    BY <1>1, <1>13, <2>1, Zenon DEF RemoveChannel
  <2>3. NoConn # c
    BY ConnsAssumption, Zenon
  <2>. QED  BY <2>1, <2>2, <2>3, Registers, Zenon
<1>. QED  BY <1>7, <1>8, <1>9, <1>10, <1>11, <1>12, <1>13, Zenon DEF Serve

LEMMA NextKeepsPeers == PeersInv /\ [TcpNext]_tcpVars => PeersInv'
<1>. SUFFICES ASSUME PeersInv, [TcpNext]_tcpVars PROVE PeersInv'
  OBVIOUS
<1>1. /\ channels \in [Addresses -> Conns \union {NoConn}] /\ DOMAIN conn = Conns
      /\ \A c \in Conns : "at" \in DOMAIN conn[c]
  BY Zenon DEF PeersInv
<1>2. ASSUME NEW c \in Conns, NEW s, Alter(c, s) \/ Step(c, s), "at" \in DOMAIN s, Onward(conn[c].at, s.at)
      PROVE  PeersInv'
  <2>1. conn' = [conn EXCEPT ![c] = s] /\ channels' = channels /\ server' = server
    BY <1>2, Zenon DEF Alter, Step
  <2>. QED  BY <1>2, <2>1, MovesOnward, Zenon
<1>3. \A r, x : "at" \in DOMAIN r => "at" \in DOMAIN [r EXCEPT !.at = x] /\ [r EXCEPT !.at = x].at = x
  BY StaysAt, Zenon
<1>4. ASSUME UNCHANGED <<channels, conn>>, server # "stopped" \/ server' = "stopped" PROVE PeersInv'
  BY <1>4, Zenon DEF PeersInv, Tracked
<1>5. CASE UNCHANGED tcpVars
  BY <1>5, Zenon DEF tcpVars, PeersInv, Tracked
<1>6. ASSUME NEW ok \in BOOLEAN, Start(ok) PROVE PeersInv'
  <2>1. server # "stopped"
    BY <1>6 DEF Start
  <2>. QED  BY <1>4, <1>6, <2>1, Zenon DEF Start
<1>7. CASE AcceptFails \/ Elapse
  <2>1. server # "stopped"
    BY <1>7 DEF AcceptFails, Elapse, Polls
  <2>. QED  BY <1>4, <1>7, <2>1, Zenon DEF AcceptFails, Elapse
<1>8. ASSUME NEW ok \in BOOLEAN, NEW c \in Conns, AcceptSocket(c, ok) PROVE PeersInv'
  <2>1. CASE ok
    <3>1. PICK s : s = [conn[c] EXCEPT !.at = "open"] /\ "at" \in DOMAIN s /\ s.at = "open"
      BY <1>1, <1>3, Zenon
    <3>2. /\ conn' = [conn EXCEPT ![c] = s] /\ server' = server
          /\ channels' = [channels EXCEPT ![AddrOf[c]] = c]
      BY <1>8, <2>1, <3>1, Zenon DEF AcceptSocket
    <3>. QED  BY <3>1, <3>2, Registers, Zenon
  <2>2. CASE ~ok
    <3>1. PICK s : s = [conn[c] EXCEPT !.at = "ignored"] /\ "at" \in DOMAIN s /\ s.at = "ignored"
      BY <1>1, <1>3, Zenon
    <3>2. /\ conn' = [conn EXCEPT ![c] = s] /\ server' = server /\ channels' = channels
          /\ conn[c].at = "backlog"
      BY <1>8, <2>2, <3>1, Zenon DEF AcceptSocket
    <3>3. Onward(conn[c].at, s.at)
      BY <3>1, <3>2, Zenon DEF Onward
    <3>. QED  BY <3>1, <3>2, <3>3, MovesOnward, Zenon
  <2>. QED  BY <2>1, <2>2, Zenon
<1>9. CASE Stop
  <2>1. /\ DOMAIN conn' = Conns /\ server' = "stopped" /\ channels' = channels
        /\ \A c \in Conns : conn'[c] = conn[c] \/ conn'[c] = [conn[c] EXCEPT !.at = "dropped"]
    BY <1>9, Zenon DEF Stop
  <2>2. \A c \in Conns : "at" \in DOMAIN conn'[c]
    BY <1>1, <1>3, <2>1, Zenon
  <2>. QED  BY <1>1, <2>1, <2>2, Zenon DEF PeersInv
<1>10. ASSUME NEW c \in Conns, Connect(c) \/ AcceptAborted(c) \/ WriteFails(c) PROVE PeersInv'
  <2>1. PICK to : /\ Alter(c, [conn[c] EXCEPT !.at = to]) \/ Step(c, [conn[c] EXCEPT !.at = to])
                  /\ Onward(conn[c].at, to)
    <3>1. CASE Connect(c)
      BY <3>1, Zenon DEF Connect, Onward
    <3>2. CASE AcceptAborted(c)
      BY <3>2, Zenon DEF AcceptAborted, Onward
    <3>3. CASE WriteFails(c)
      BY <3>3, Zenon DEF WriteFails, Failed, Onward, LiveIn, Live
    <3>. QED  BY <1>10, <3>1, <3>2, <3>3, Zenon
  <2>2. PICK s : s = [conn[c] EXCEPT !.at = to] /\ "at" \in DOMAIN s /\ s.at = to
    BY <1>1, <1>3, Zenon
  <2>. QED  BY <1>2, <2>1, <2>2, Zenon
<1>11. ASSUME NEW c \in Conns, HangUp(c) PROVE PeersInv'
  <2>1. "at" \in DOMAIN conn[c]
    BY <1>1, Zenon
  <2>2. PICK s : s = [conn[c] EXCEPT !.eof = TRUE] /\ "at" \in DOMAIN s /\ s.at = conn[c].at
    BY <2>1, StaysWhen, Zenon
  <2>3. Alter(c, s) /\ Onward(conn[c].at, s.at)
    BY <1>11, <2>2, Zenon DEF HangUp, Onward
  <2>. QED  BY <1>2, <2>2, <2>3, Zenon
<1>12. ASSUME NEW a \in Addresses, PushMessage(a) PROVE PeersInv'
  <2>1. PICK c : c = channels[a] /\ c # NoConn
    BY <1>12, Zenon DEF PushMessage
  <2>2. c \in Conns
    BY <1>1, <2>1
  <2>3. "at" \in DOMAIN conn[c]
    BY <1>1, <2>2, Zenon
  <2>4. PICK s : /\ s = [conn[c] EXCEPT !.accepted = Append(@, Len(@) + 1)]
                 /\ "at" \in DOMAIN s /\ s.at = conn[c].at
    BY <2>3, StaysWhen, Zenon
  <2>5. Alter(c, s) /\ Onward(conn[c].at, s.at)
    BY <1>12, <2>1, <2>4, Zenon DEF PushMessage, Onward
  <2>. QED  BY <1>2, <2>2, <2>4, <2>5, Zenon
<1>. QED
  BY <1>5, <1>6, <1>7, <1>8, <1>9, <1>10, <1>11, <1>12, ServeKeepsPeers, Zenon DEF TcpNext

(***************************************************************************)
(* For any connections and addresses: an entry of the Dispatcher belongs   *)
(* to a connection of its address that lives or failed, and a live         *)
(* connection has its entry unless another one had the same address.       *)
(***************************************************************************)
THEOREM PeersAreTracked == TcpSpec => []TcpPeersTracked
<1>1. TcpInit => PeersInv
  BY PeersInit
<1>2. PeersInv /\ [TcpNext]_tcpVars => PeersInv'
  BY NextKeepsPeers
<1>3. PeersInv => TcpPeersTracked
  <2>. SUFFICES ASSUME PeersInv, server = "serving" PROVE TcpPeersTracked
    BY Zenon DEF TcpPeersTracked
  <2>1. Tracked
    BY DEF PeersInv
  <2>. QED  BY <2>1, Zenon DEF Tracked, TcpPeersTracked, LiveIn, Sharing, Live
<1>. QED  BY <1>1, <1>2, <1>3, PTL DEF TcpSpec
=============================================================================
