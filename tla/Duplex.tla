------------------------------- MODULE Duplex -------------------------------
(***************************************************************************)
(* The Duplex client of jsonrpc-core-client-transports: one task that      *)
(* takes calls, notifications and subscriptions from the users of a        *)
(* RawClient, sends them over a transport, and routes what comes back.     *)
(*                                                                         *)
(* Duplex::poll is four loops in a row; every iteration of a loop is a     *)
(* step here, so users and the transport act between any two of them.      *)
(* The server is external: it answers in any order, notifies, and may      *)
(* close the connection.                                                   *)
(***************************************************************************)
EXTENDS Integers, Sequences, Functions

CONSTANTS
  Calls, Subscribers, Notifiers,  \* users: of call_method, subscribe, notify
  Names, NameOf,                  \* notification name of a subscriber
  Sids,                           \* subscription ids of the server
  NoUser, NoSid, NoName, NoRequestId,
  SinkCapacity,                   \* messages the transport's sink buffers
  MaxNotes,                       \* bound: notifications the server sends
  MaxOdd                          \* bound: null-id errors and unparsable messages

Users == Calls \cup Subscribers \cup Notifiers

ASSUME DuplexAssumption ==
  /\ NameOf \in [Subscribers -> Names]
  /\ SinkCapacity \in Nat \ {0}
  /\ MaxNotes \in Nat /\ MaxOdd \in Nat
  /\ NoUser \notin Users /\ NoSid \notin Sids /\ NoName \notin Names /\ NoRequestId \notin Nat
  /\ Calls \cap Subscribers = {} /\ Notifiers \cap (Calls \cup Subscribers) = {}

VARIABLES
  phase,          \* where poll is, "parked" between polls, "ended" after the last
  handles,        \* a clone of the RpcChannel is alive
  channel,        \* Duplex::channel is Some
  queue,          \* users whose message is in that channel
  next_id,        \* RequestBuilder::id
  pending,        \* pending_requests: id |-> user, for the ids used so far
  subscriptions,  \* (sid, name) |-> subscriber
  incoming,       \* VecDeque of parsed messages
  outgoing,       \* VecDeque of requests
  sink,           \* requests in the transport's sink
  flushing,       \* the last poll_flush was Pending
  user,           \* a user's future or stream
  got             \* what it received

duplexVars == <<phase, handles, channel, queue, next_id, pending, subscriptions,
                incoming, outgoing, sink, flushing, user, got>>

VARIABLES
  requests,  \* requests that reached the server
  wire,      \* messages from the server, in order
  closed,    \* the server closed the connection
  live,      \* subscription id the server has for a subscriber
  notes,     \* notifications sent so far
  odd        \* null-id errors and unparsable messages sent so far

serverVars == <<requests, wire, closed, live, notes, odd>>

linkVars == <<duplexVars, serverVars>>

(***************************************************************************)
(* What parse_response returns: the id (Null for a notification), the      *)
(* result, and for a notification its method and subscription id.          *)
(***************************************************************************)
Response(id, value) == [id |-> id, value |-> value, method |-> NoName, sid |-> NoSid]

Notification(b, x, k) ==
  [id |-> NoRequestId, value |-> <<"note", b, k>>, method |-> NameOf[b], sid |-> x]

Garbage == Response(NoRequestId, <<"garbage">>)

Request(kind, id, u) == [kind |-> kind, id |-> id, user |-> u, sid |-> NoSid]

MapKeys == Sids \X Names

DuplexInit ==
  /\ phase = "requests" /\ handles = TRUE /\ channel = TRUE /\ flushing = FALSE
  /\ queue = <<>> /\ incoming = <<>> /\ outgoing = <<>> /\ sink = <<>>
  /\ next_id = 0
  /\ pending = [i \in {} |-> NoUser]
  /\ subscriptions = [k \in MapKeys |-> NoUser]
  /\ user = [u \in Users |-> "idle"]
  /\ got = [u \in Users |-> <<>>]
  /\ requests = {} /\ wire = <<>> /\ closed = FALSE
  /\ live = [b \in Subscribers |-> NoSid]
  /\ notes = 0 /\ odd = 0

-----------------------------------------------------------------------------
(* Users.                                                                  *)

(***************************************************************************)
(* call_method, subscribe and notify: unbounded_send fails once the task   *)
(* and with it the receiver is gone.                                       *)
(***************************************************************************)
Ask(u) ==
  /\ user[u] = "idle"
  /\ handles
  /\ \/ /\ phase # "ended"
        /\ queue' = Append(queue, u)
        /\ user' = [user EXCEPT ![u] = IF u \in Notifiers THEN "done" ELSE "waiting"]
     \/ /\ phase = "ended"
        /\ user' = [user EXCEPT ![u] = "failed"]
        /\ UNCHANGED queue
  /\ UNCHANGED <<phase, handles, channel, next_id, pending, subscriptions, incoming,
                 outgoing, sink, flushing, got, serverVars>>

(***************************************************************************)
(* A user drops the future of its call, or its subscription stream.        *)
(***************************************************************************)
GiveUp(u) ==
  /\ user[u] = "waiting"
  /\ user' = [user EXCEPT ![u] = "gone"]
  /\ UNCHANGED <<phase, handles, channel, queue, next_id, pending, subscriptions,
                 incoming, outgoing, sink, flushing, got, serverVars>>

DropHandles ==
  /\ handles
  /\ handles' = FALSE
  /\ UNCHANGED <<phase, channel, queue, next_id, pending, subscriptions, incoming,
                 outgoing, sink, flushing, user, got, serverVars>>

-----------------------------------------------------------------------------
(* Duplex::poll.                                                           *)

(* Mutant: the senders of pending requests are leaked, not dropped.        *)
EndLeakingSenders ==
  /\ phase' = "ended"
  /\ channel' = FALSE
  /\ queue' = <<>> /\ incoming' = <<>> /\ outgoing' = <<>>
  /\ pending' = [i \in DOMAIN pending |-> NoUser]
  /\ subscriptions' = [k \in MapKeys |-> NoUser]
  /\ UNCHANGED <<handles, next_id, sink, flushing, user, got, serverVars>>

(***************************************************************************)
(* poll returns Ready.  The task is dropped with everything in it, so each *)
(* waiting call sees its sender go and each open stream ends.              *)
(***************************************************************************)
End ==
  /\ phase' = "ended"
  /\ user' = [u \in Users |-> IF user[u] = "waiting" THEN "failed" ELSE user[u]]
  /\ channel' = FALSE
  /\ queue' = <<>> /\ incoming' = <<>> /\ outgoing' = <<>>
  /\ pending' = [i \in DOMAIN pending |-> NoUser]
  /\ subscriptions' = [k \in MapKeys |-> NoUser]
  /\ UNCHANGED <<handles, next_id, sink, flushing, got, serverVars>>

(* Mutant: the id of a request is not advanced.                            *)
ReuseId(u) ==
  /\ UNCHANGED next_id
  /\ pending' = [i \in {next_id} |-> u]

(***************************************************************************)
(* An id for user u, with its entry in pending_requests (none for an       *)
(* unsubscribe request).                                                   *)
(***************************************************************************)
TakeId(u) ==
  /\ next_id' = next_id + 1
  /\ pending' = [i \in 0 .. next_id |-> IF i = next_id THEN u ELSE pending[i]]

(***************************************************************************)
(* First loop: one message from the client channel.                        *)
(***************************************************************************)
TakeRequest ==
  /\ phase = "requests"
  /\ queue # <<>>
  /\ LET u == Head(queue)
     IN  \/ /\ u \in Notifiers
            /\ outgoing' = Append(outgoing, Request("notify", NoRequestId, u))
            /\ UNCHANGED <<next_id, pending>>
         \/ /\ u \in Calls \cup Subscribers
            /\ outgoing' = Append(outgoing,
                 Request(IF u \in Calls THEN "call" ELSE "subscribe", next_id, u))
            /\ TakeId(u)
  /\ queue' = Tail(queue)
  /\ UNCHANGED <<phase, handles, channel, subscriptions, incoming, sink, flushing, user,
                 got, serverVars>>

(***************************************************************************)
(* The first loop breaks; the receiver is taken once all handles are gone. *)
(***************************************************************************)
NoMoreRequests ==
  /\ phase = "requests"
  /\ queue = <<>>
  /\ channel' = (channel /\ handles)
  /\ phase' = "stream"
  /\ UNCHANGED <<handles, queue, next_id, pending, subscriptions, incoming, outgoing,
                 sink, flushing, user, got, serverVars>>

(* Mutant: the message is put in front of those not yet handled.           *)
ReadToFront ==
  /\ phase = "stream"
  /\ wire # <<>>
  /\ Head(wire) # Garbage
  /\ incoming' = <<Head(wire)>> \o incoming
  /\ wire' = Tail(wire)
  /\ UNCHANGED <<phase, handles, channel, queue, next_id, pending, subscriptions,
                 outgoing, sink, flushing, user, got, requests, closed, live, notes, odd>>

(***************************************************************************)
(* Second loop: one message from the transport, until it is Pending.  A    *)
(* message that does not parse, or the end of the stream, ends the task.   *)
(***************************************************************************)
ReadMessage ==
  /\ phase = "stream"
  /\ wire # <<>>
  /\ Head(wire) # Garbage
  /\ incoming' = Append(incoming, Head(wire))
  /\ wire' = Tail(wire)
  /\ UNCHANGED <<phase, handles, channel, queue, next_id, pending, subscriptions,
                 outgoing, sink, flushing, user, got, requests, closed, live, notes, odd>>

ParseError ==
  /\ phase = "stream"
  /\ wire # <<>>
  /\ Head(wire) = Garbage
  /\ End

StreamClosed ==
  /\ phase = "stream"
  /\ wire = <<>>
  /\ closed
  /\ End

StreamPending ==
  /\ phase = "stream"
  /\ wire = <<>>
  /\ ~closed
  /\ phase' = "incoming"
  /\ UNCHANGED <<handles, channel, queue, next_id, pending, subscriptions, incoming,
                 outgoing, sink, flushing, user, got, serverVars>>

(***************************************************************************)
(* Third loop.  The message m at the head of incoming answers the pending  *)
(* request of user u, or no pending request.                               *)
(***************************************************************************)
Answers(m, u) ==
  /\ m.id \in DOMAIN pending
  /\ pending[m.id] = u

AnswersNothing(m) ==
  m.id \in DOMAIN pending => pending[m.id] = NoUser

Consume(m) ==
  /\ incoming' = Tail(incoming)
  /\ UNCHANGED <<phase, handles, channel, queue, sink, flushing, serverVars>>

Resolve(m) ==
  /\ pending' = [pending EXCEPT ![m.id] = NoUser]
  /\ UNCHANGED <<next_id, outgoing>>

(***************************************************************************)
(* The sender of u's oneshot or stream is used, and dropped if `last`.     *)
(***************************************************************************)
Give(u, value, last) ==
  /\ got' = IF user[u] = "waiting" THEN [got EXCEPT ![u] = Append(@, value)] ELSE got
  /\ user' = IF user[u] = "waiting" /\ last THEN [user EXCEPT ![u] = "done"] ELSE user

(***************************************************************************)
(* A call is answered.  Where nobody waits for the answer any more the     *)
(* send fails, and `?` ends the whole task.                                *)
(***************************************************************************)
AnswerCall(m) ==
  \E u \in Calls :
    /\ Answers(m, u)
    /\ user[u] # "gone"
    /\ Give(u, m.value, TRUE)
    /\ Resolve(m)
    /\ Consume(m)
    /\ UNCHANGED subscriptions

AnswerNobody(m) ==
  \E u \in Calls :
    /\ Answers(m, u)
    /\ user[u] = "gone"
    /\ End

(* Mutant: a subscription goes into the map and stays pending.             *)
SubscribedStillPending(m) ==
  \E u \in Subscribers :
    /\ Answers(m, u)
    /\ m.value[1] = "sid"
    /\ subscriptions' = [subscriptions EXCEPT ![<<m.value[2], NameOf[u]>>] = u]
    /\ Consume(m)
    /\ UNCHANGED <<next_id, pending, outgoing, user, got>>

(***************************************************************************)
(* A subscribe request got its id: the subscription goes into the map; one *)
(* it overwrites loses its sender, which ends its stream.                  *)
(***************************************************************************)
Subscribed(m) ==
  \E u \in Subscribers :
    /\ Answers(m, u)
    /\ m.value[1] = "sid"
    /\ LET k == <<m.value[2], NameOf[u]>>
           old == subscriptions[k]
       IN  /\ subscriptions' = [subscriptions EXCEPT ![k] = u]
           /\ user' = [v \in Users |->
                         IF v = old /\ user[v] = "waiting" THEN "failed" ELSE user[v]]
    /\ Resolve(m)
    /\ Consume(m)
    /\ UNCHANGED got

(***************************************************************************)
(* Anything else is a rejection, the one item of that stream.              *)
(***************************************************************************)
SubscriptionRejected(m) ==
  \E u \in Subscribers :
    /\ Answers(m, u)
    /\ m.value[1] # "sid"
    /\ Give(u, m.value, TRUE)
    /\ Resolve(m)
    /\ Consume(m)
    /\ UNCHANGED subscriptions

(***************************************************************************)
(* A notification of a known subscription.  If its stream was dropped the  *)
(* client unsubscribes; that request's id is not pending.                  *)
(***************************************************************************)
Deliver(m) ==
  \E u \in Subscribers :
    /\ AnswersNothing(m)
    /\ m.method # NoName
    /\ subscriptions[<<m.sid, m.method>>] = u
    /\ Give(u, m.value, FALSE)
    /\ \/ /\ user[u] # "gone"
          /\ UNCHANGED <<next_id, pending, outgoing, subscriptions>>
       \/ /\ user[u] = "gone"
          /\ subscriptions' = [subscriptions EXCEPT ![<<m.sid, m.method>>] = NoUser]
          /\ outgoing' = Append(outgoing,
               [Request("unsubscribe", next_id, u) EXCEPT !.sid = m.sid])
          /\ TakeId(NoUser)
    /\ Consume(m)

(***************************************************************************)
(* Neither a pending request nor a known subscription: only logged.        *)
(***************************************************************************)
Unexpected(m) ==
  /\ AnswersNothing(m)
  /\ m.method # NoName => subscriptions[<<m.sid, m.method>>] = NoUser
  /\ Consume(m)
  /\ UNCHANGED <<next_id, pending, outgoing, subscriptions, user, got>>

HandleIncoming ==
  /\ phase = "incoming"
  /\ incoming # <<>>
  /\ LET m == Head(incoming)
     IN  \/ AnswerCall(m)
         \/ AnswerNobody(m)
         \/ Subscribed(m)
         \/ SubscriptionRejected(m)
         \/ Deliver(m)
         \/ Unexpected(m)

IncomingHandled ==
  /\ phase = "incoming"
  /\ incoming = <<>>
  /\ phase' = "outgoing"
  /\ UNCHANGED <<handles, channel, queue, next_id, pending, subscriptions, incoming,
                 outgoing, sink, flushing, user, got, serverVars>>

(* Mutant: the request is popped before poll_ready is known.               *)
PopBeforeReady ==
  /\ phase = "outgoing"
  /\ outgoing # <<>>
  /\ sink' = IF Len(sink) < SinkCapacity THEN Append(sink, Head(outgoing)) ELSE sink
  /\ outgoing' = Tail(outgoing)
  /\ UNCHANGED <<phase, handles, channel, queue, next_id, pending, subscriptions,
                 incoming, flushing, user, got, serverVars>>

(***************************************************************************)
(* Fourth loop: while the sink is ready, one request into it.  The sink of *)
(* a closed connection may fail, which ends the task.                      *)
(***************************************************************************)
SendRequest ==
  /\ phase = "outgoing"
  /\ outgoing # <<>>
  /\ Len(sink) < SinkCapacity
  /\ sink' = Append(sink, Head(outgoing))
  /\ outgoing' = Tail(outgoing)
  /\ UNCHANGED <<phase, handles, channel, queue, next_id, pending, subscriptions,
                 incoming, flushing, user, got, serverVars>>

SinkFails ==
  /\ phase = "outgoing"
  /\ closed
  /\ End

(***************************************************************************)
(* poll_flush, an error counting as done, and the test for completion.     *)
(***************************************************************************)
Complete(sink_empty) ==
  /\ ~channel
  /\ outgoing = <<>> /\ incoming = <<>>
  /\ \A i \in DOMAIN pending : pending[i] = NoUser
  /\ \A k \in MapKeys : subscriptions[k] = NoUser
  /\ sink_empty

FinishPoll ==
  /\ phase = "outgoing"
  /\ outgoing = <<>> \/ Len(sink) = SinkCapacity
  /\ \E sink_empty \in {sink = <<>>, sink = <<>> \/ closed} :
       \/ /\ Complete(sink_empty)
          /\ End
       \/ /\ ~Complete(sink_empty)
          /\ phase' = "parked"
          /\ flushing' = ~sink_empty
          /\ UNCHANGED <<handles, channel, queue, next_id, pending, subscriptions,
                         incoming, outgoing, sink, user, got, serverVars>>

(* Mutant: the waker of a full sink is not registered.                     *)
WokenWithoutReady ==
  \/ channel /\ (queue # <<>> \/ ~handles)
  \/ wire # <<>> \/ closed

(* Mutant: the waker of a pending flush is not registered.                 *)
WokenWithoutFlush ==
  \/ channel /\ (queue # <<>> \/ ~handles)
  \/ wire # <<>> \/ closed
  \/ outgoing # <<>> /\ Len(sink) < SinkCapacity

(***************************************************************************)
(* The wakers that poll left behind: the client channel's, the stream's,   *)
(* and the sink's if it was full or still flushing.                        *)
(***************************************************************************)
Woken ==
  \/ channel /\ (queue # <<>> \/ ~handles)
  \/ wire # <<>> \/ closed
  \/ outgoing # <<>> /\ Len(sink) < SinkCapacity
  \/ flushing /\ sink = <<>>

PollAgain ==
  /\ phase = "parked"
  /\ Woken
  /\ phase' = "requests"
  /\ UNCHANGED <<handles, channel, queue, next_id, pending, subscriptions, incoming,
                 outgoing, sink, flushing, user, got, serverVars>>

PollClient ==
  \/ TakeRequest \/ NoMoreRequests
  \/ ReadMessage \/ ParseError \/ StreamClosed \/ StreamPending
  \/ HandleIncoming \/ IncomingHandled
  \/ SendRequest \/ SinkFails \/ FinishPoll
  \/ PollAgain

-----------------------------------------------------------------------------
(* The transport and the server, external to this code.                    *)

(***************************************************************************)
(* The sink hands a request to the connection, in vain if that is closed.  *)
(***************************************************************************)
SinkWrites ==
  /\ sink # <<>>
  /\ sink' = Tail(sink)
  /\ requests' = IF closed THEN requests ELSE requests \cup {Head(sink)}
  /\ UNCHANGED <<phase, handles, channel, queue, next_id, pending, subscriptions,
                 incoming, outgoing, flushing, user, got, wire, closed, live, notes, odd>>

ServerSends(m) ==
  /\ ~closed
  /\ wire' = Append(wire, m)
  /\ UNCHANGED <<duplexVars, closed>>

AnswerRequest(q) ==
  /\ q.kind \in {"call", "unsubscribe"}
  /\ \E outcome \in {"ok", "err"} : ServerSends(Response(q.id, <<outcome, q.user>>))
  /\ requests' = requests \ {q}
  /\ live' = [b \in Subscribers |->
                IF q.kind = "unsubscribe" /\ live[b] = q.sid /\ NameOf[b] = NameOf[q.user]
                THEN NoSid ELSE live[b]]
  /\ UNCHANGED <<notes, odd>>

TakeNotification(q) ==
  /\ q.kind = "notify"
  /\ requests' = requests \ {q}
  /\ UNCHANGED <<duplexVars, wire, closed, live, notes, odd>>

(***************************************************************************)
(* The server subscribes the user, which ends a subscription under the     *)
(* same id and name, and responds afterwards.                              *)
(***************************************************************************)
AcceptSubscription(q) ==
  /\ q.kind = "subscribe"
  /\ ~closed
  /\ \E x \in Sids :
       /\ live' = [b \in Subscribers |->
                    IF b = q.user THEN x
                    ELSE IF live[b] = x /\ NameOf[b] = NameOf[q.user] THEN NoSid
                    ELSE live[b]]
       /\ requests' = (requests \ {q}) \cup {[q EXCEPT !.kind = "accepted", !.sid = x]}
  /\ UNCHANGED <<duplexVars, wire, closed, notes, odd>>

AnswerSubscription(q) ==
  /\ \/ q.kind = "accepted" /\ ServerSends(Response(q.id, <<"sid", q.sid>>))
     \/ q.kind = "subscribe" /\ ServerSends(Response(q.id, <<"err", q.user>>))
  /\ requests' = requests \ {q}
  /\ UNCHANGED <<live, notes, odd>>

(***************************************************************************)
(* A live subscription notifies, even before the response that carries its *)
(* id is sent: the Sink of jsonrpc-pubsub does not wait for it.            *)
(***************************************************************************)
Notify(b) ==
  /\ notes < MaxNotes
  /\ live[b] # NoSid
  /\ ServerSends(Notification(b, live[b], notes + 1))
  /\ notes' = notes + 1
  /\ UNCHANGED <<requests, live, odd>>

SendOdd ==
  /\ odd < MaxOdd
  /\ \E m \in {Response(NoRequestId, <<"err", NoUser>>), Garbage} : ServerSends(m)
  /\ odd' = odd + 1
  /\ UNCHANGED <<requests, live, notes>>

ServerCloses ==
  /\ ~closed
  /\ closed' = TRUE
  /\ UNCHANGED <<duplexVars, requests, wire, live, notes, odd>>

ServerAnswers ==
  \E q \in requests : \/ AnswerRequest(q)
                      \/ TakeNotification(q)
                      \/ AcceptSubscription(q)
                      \/ AnswerSubscription(q)

Server ==
  \/ ServerAnswers
  \/ \E b \in Subscribers : Notify(b)
  \/ SendOdd
  \/ ServerCloses

DuplexNext ==
  \/ \E u \in Users : Ask(u) \/ GiveUp(u)
  \/ DropHandles
  \/ PollClient
  \/ SinkWrites
  \/ Server

DuplexSpec == DuplexInit /\ [][DuplexNext]_linkVars

(***************************************************************************)
(* The executor polls the task when it is woken, the transport drains its  *)
(* sink, and the server answers every request unless the connection is     *)
(* closed.                                                                 *)
(***************************************************************************)
DuplexFairness ==
  /\ WF_linkVars(PollClient)
  /\ WF_linkVars(SinkWrites)
  /\ WF_linkVars(ServerAnswers)

DuplexFairSpec == DuplexSpec /\ DuplexFairness

-----------------------------------------------------------------------------
(***************************************************************************)
(* Whatever order the server answers in, a call gets one answer, the one   *)
(* to its own request: ids are never shared by two pending requests.       *)
(***************************************************************************)
OwnAnswer ==
  \A c \in Calls : got[c] \in {<<>>, << <<"ok", c>> >>, << <<"err", c>> >>}

Traffic == Range(outgoing) \cup Range(sink) \cup requests

Messages == Range(wire) \cup Range(incoming)

(***************************************************************************)
(* No call is lost inside the client: one that waits is still in the       *)
(* client channel, or is pending under an id whose request is under way or *)
(* whose answer is, as long as the connection is open.  Nor is one pushed  *)
(* into a sink that is not ready for it.                                   *)
(***************************************************************************)
CallTracked ==
  /\ Len(sink) <= SinkCapacity
  /\ \A c \in Calls :
       user[c] = "waiting" /\ ~closed =>
         \/ c \in Range(queue)
         \/ \E i \in DOMAIN pending :
              /\ pending[i] = c
              /\ \/ \E q \in Traffic : q.id = i
                 \/ \E m \in Messages : m.id = i

(***************************************************************************)
(* A subscription stream carries notifications in the order the server     *)
(* sent them, none of them twice, or its one rejection.  Those of another  *)
(* subscription reach it only once the server has given its id away.       *)
(***************************************************************************)
OwnNotifications ==
  \A b \in Subscribers :
    /\ \A i \in DOMAIN got[b] : got[b][i][2] = b \/ live[b] = NoSid
    /\ \A i, j \in DOMAIN got[b] :
         i < j => got[b][i][1] = "note" /\ got[b][i][3] < got[b][j][3]

(***************************************************************************)
(* Every subscription that is in the map has a live or dropped stream, and *)
(* its user is in the map once: a displaced, rejected or unsubscribed one  *)
(* is not.  This is the `expect` of the unsubscribe path.                  *)
(***************************************************************************)
MapHoldsOpenStreams ==
  \A k \in MapKeys :
    subscriptions[k] # NoUser =>
      /\ user[subscriptions[k]] \in {"waiting", "gone"}
      /\ \A j \in MapKeys : subscriptions[j] = subscriptions[k] => j = k
      /\ \A i \in DOMAIN pending : pending[i] # subscriptions[k]

(***************************************************************************)
(* "When the channel is dropped we still need to finish outstanding        *)
(* requests": without its users' handles, and with the connection open,    *)
(* the task does not end while a call still waits.                         *)
(***************************************************************************)
FinishesOutstanding ==
  [][ phase # "ended" /\ phase' = "ended" /\ ~channel /\ ~closed
      => \A c \in Calls : user[c] # "waiting" ]_linkVars

(***************************************************************************)
(* No call waits forever, provided the server answers requests or the      *)
(* connection closes: it is answered, or it fails.                         *)
(***************************************************************************)
CallsResolve == <>[](\A c \in Calls : user[c] # "waiting")

(***************************************************************************)
(* Once all handles are dropped the task ends, unless subscriptions keep   *)
(* it: the last request that completes it, or the flush of the sink, wakes *)
(* it.                                                                     *)
(***************************************************************************)
DroppedClientEnds ==
  (~handles /\ \A b \in Subscribers : user[b] = "idle") ~> phase = "ended"

Values == {<<o, u>> : o \in {"ok", "err"}, u \in Users}
            \cup {<<"note", b, k>> : b \in Subscribers, k \in 1 .. MaxNotes}

(***************************************************************************)
(* The client keeps the promise of module RpcCalls.                        *)
(***************************************************************************)
Promise == INSTANCE RpcCalls WITH running <- phase # "ended"

RefinesRpcCalls == Promise!Spec
=============================================================================
