------------------------------- MODULE PubSub -------------------------------
(***************************************************************************)
(* Subscriptions of jsonrpc-pubsub: the Session that every connection of a *)
(* duplex transport owns, the Subscriber given to the user's handler, the  *)
(* rendezvous channel between that handler and the request future, and the *)
(* Subscribe and Unsubscribe RPC methods.                                  *)
(*                                                                         *)
(* Actors: the task that polls a request's future, the user's handler that *)
(* owns the Subscriber (another thread in general), the client, the        *)
(* transport that closes the connection, and the pool that runs the        *)
(* unsubscribe handlers.  A Session is shared through Arc references and   *)
(* its Drop runs when the last one goes away.                              *)
(***************************************************************************)
EXTENDS Naturals

CONSTANTS
  Sessions,        \* connections, each with its metadata
  PubSubSessions,  \* those whose metadata has a Session (PubSubMetadata::session)
  Notifications,   \* names under which subscriptions notify
  Ids,             \* subscription ids
  Requests,        \* calls of subscribe methods
  SessionOf,       \* the connection a call arrives on
  NotificationOf,  \* the notification name of the called method
  NoRequest,       \* no entry in the map of active subscriptions
  NoId             \* no subscription id sent

ASSUME PubSubAssumption ==
  /\ PubSubSessions \subseteq Sessions
  /\ SessionOf \in [Requests -> Sessions]
  /\ NotificationOf \in [Requests -> Notifications]
  /\ NoRequest \notin Requests
  /\ NoId \notin Ids

VARIABLES
  conn,    \* connection of a session: open, closed by the transport, dropped
  active,  \* Session::active_subscriptions, (id, name) |-> subscribe call
  onDrop,  \* Session::on_drop: callback absent, registered, or called
  fut,     \* the future Subscribe::call returned, see FutureStates
  chan,    \* the oneshot between Subscriber and that future
  subId,   \* the id sent through it
  sub,     \* what the user's handler holds, see HandlerStates
  calls,   \* how often the unsubscribe handler was called for a call's entry
  unsub    \* the future of the last such call

vars == <<conn, active, onDrop, fut, chan, subId, sub, calls, unsub>>

(***************************************************************************)
(* A request future is pending until its channel yields; "adding" is the   *)
(* part of that same poll after the receipt was sent and before the entry  *)
(* is inserted; it then holds a result that the transport sends or drops.  *)
(***************************************************************************)
FutureStates == {"none", "pending", "adding", "resolved", "failed", "responded", "dropped"}

ChannelStates == {"empty", "ok", "err", "cancelled", "taken"}

(***************************************************************************)
(* "waiting" and "rejecting" await the receipt of send_and_wait.  "sink"   *)
(* is a Sink obtained from assign_id_async, "sinkNow" one from assign_id.  *)
(***************************************************************************)
HandlerStates == {"none", "held", "waiting", "rejecting", "sink", "sinkNow", "closed"}

UnsubStates == {"none", "client", "pool", "done", "cancelled"}

Keys == Ids \X Notifications

TypeOK ==
  /\ conn \in [Sessions -> {"open", "closed", "dropped"}]
  /\ active \in [Sessions -> [Keys -> Requests \cup {NoRequest}]]
  /\ onDrop \in [Sessions -> {"none", "registered", "called"}]
  /\ fut \in [Requests -> FutureStates]
  /\ chan \in [Requests -> ChannelStates]
  /\ subId \in [Requests -> Ids \cup {NoId}]
  /\ sub \in [Requests -> HandlerStates]
  /\ calls \in [Requests -> Nat]
  /\ unsub \in [Requests -> UnsubStates]

Key(r) == <<subId[r], NotificationOf[r]>>

NoActive == [k \in Keys |-> NoRequest]

Init ==
  /\ conn = [s \in Sessions |-> "open"]
  /\ active = [s \in Sessions |-> NoActive]
  /\ onDrop = [s \in Sessions |-> "none"]
  /\ fut = [r \in Requests |-> "none"]
  /\ chan = [r \in Requests |-> "empty"]
  /\ subId = [r \in Requests |-> NoId]
  /\ sub = [r \in Requests |-> "none"]
  /\ calls = [r \in Requests |-> 0]
  /\ unsub = [r \in Requests |-> "none"]

-----------------------------------------------------------------------------
(* The Subscribe method and the user's handler.                            *)

(***************************************************************************)
(* Subscribe::call.  Without a session the call fails at once and the      *)
(* user's handler never runs; otherwise it gets the Subscriber.            *)
(***************************************************************************)
Subscribe(r) ==
  /\ fut[r] = "none"
  /\ conn[SessionOf[r]] = "open"
  /\ \/ /\ SessionOf[r] \in PubSubSessions
        /\ fut' = [fut EXCEPT ![r] = "pending"]
        /\ sub' = [sub EXCEPT ![r] = "held"]
     \/ /\ SessionOf[r] \notin PubSubSessions
        /\ fut' = [fut EXCEPT ![r] = "failed"]
        /\ UNCHANGED sub
  /\ UNCHANGED <<conn, active, onDrop, chan, subId, calls, unsub>>

ReceiverDropped(r) == fut[r] = "dropped"

(***************************************************************************)
(* oneshot::Sender::send: the value is lost, and the send fails, only if   *)
(* the receiver has already been dropped.  The handler is then left with   *)
(* `kept`, and with nothing if the send failed.                            *)
(***************************************************************************)
Send(r, message, i, kept) ==
  /\ sub[r] = "held"
  /\ \/ /\ ~ReceiverDropped(r)
        /\ chan' = [chan EXCEPT ![r] = message]
        /\ subId' = [subId EXCEPT ![r] = i]
        /\ sub' = [sub EXCEPT ![r] = kept]
     \/ /\ ReceiverDropped(r)
        /\ sub' = [sub EXCEPT ![r] = "closed"]
        /\ UNCHANGED <<chan, subId>>
  /\ UNCHANGED <<conn, active, onDrop, fut, calls, unsub>>

assign_id(r, i) == Send(r, "ok", i, "sinkNow")

assign_id_async(r, i) == Send(r, "ok", i, "waiting")

reject(r) == Send(r, "err", NoId, "closed")

reject_async(r) == Send(r, "err", NoId, "rejecting")

(***************************************************************************)
(* The handler drops its Subscriber without an answer.                     *)
(***************************************************************************)
DropSubscriber(r) == Send(r, "cancelled", NoId, "closed")

(* Mutant: a receiver dropped after it consumed the value counts as gone.  *)
ReceiptLostOnDrop(r) ==
  /\ sub[r] \in {"waiting", "rejecting"}
  /\ \/ chan[r] = "taken"
     \/ ReceiverDropped(r)
  /\ sub' = [sub EXCEPT ![r] = IF @ = "waiting" /\ ~ReceiverDropped(r) THEN "sink" ELSE "closed"]
  /\ UNCHANGED <<conn, active, onDrop, fut, chan, subId, calls, unsub>>

(***************************************************************************)
(* The future of send_and_wait resolves: to Ok when the receipt was sent,  *)
(* to Err when the receiver was dropped with the value still inside.       *)
(***************************************************************************)
ReceiptArrives(r) ==
  /\ sub[r] \in {"waiting", "rejecting"}
  /\ \/ /\ chan[r] = "taken"
        /\ sub' = [sub EXCEPT ![r] = IF @ = "waiting" THEN "sink" ELSE "closed"]
     \/ /\ chan[r] # "taken"
        /\ ReceiverDropped(r)
        /\ sub' = [sub EXCEPT ![r] = "closed"]
  /\ UNCHANGED <<conn, active, onDrop, fut, chan, subId, calls, unsub>>

-----------------------------------------------------------------------------
(* The request future and the Session.                                     *)

(***************************************************************************)
(* The unsubscribe handler is called for the entries of the calls in R,    *)
(* by the session (None, on the pool) or for the client (Some(meta)).      *)
(***************************************************************************)
CallUnsubscribe(R, how) ==
  /\ calls' = [r \in Requests |-> IF r \in R THEN calls[r] + 1 ELSE calls[r]]
  /\ unsub' = [r \in Requests |-> IF r \in R THEN how ELSE unsub[r]]

(***************************************************************************)
(* Receiver::poll inside the request future: takes the value, sends the    *)
(* receipt.  A sender dropped empty-handed becomes subscription_rejected.  *)
(***************************************************************************)
Poll(r) ==
  /\ fut[r] = "pending"
  /\ \/ /\ chan[r] = "ok"
        /\ fut' = [fut EXCEPT ![r] = "adding"]
        /\ chan' = [chan EXCEPT ![r] = "taken"]
     \/ /\ chan[r] \in {"err", "cancelled"}
        /\ fut' = [fut EXCEPT ![r] = "failed"]
        /\ chan' = [chan EXCEPT ![r] = IF @ = "err" THEN "taken" ELSE @]
  /\ UNCHANGED <<conn, active, onDrop, subId, sub, calls, unsub>>

(* Mutant: a collision keeps the old entry and unsubscribes it.            *)
AddKeepingOld(r) ==
  LET s == SessionOf[r]  old == active[s][Key(r)]
  IN  /\ fut[r] = "adding"
      /\ active' = [active EXCEPT ![s][Key(r)] = IF old = NoRequest THEN r ELSE old]
      /\ CallUnsubscribe({old} \ {NoRequest}, "pool")
      /\ fut' = [fut EXCEPT ![r] = "resolved"]
      /\ UNCHANGED <<conn, onDrop, chan, subId, sub>>

(***************************************************************************)
(* Session::add_subscription, still in the poll that took the id: insert,  *)
(* and call the remove closure of an entry this replaced.                  *)
(***************************************************************************)
AddSubscription(r) ==
  LET s == SessionOf[r]  old == active[s][Key(r)]
  IN  /\ fut[r] = "adding"
      /\ active' = [active EXCEPT ![s][Key(r)] = r]
      /\ CallUnsubscribe({old} \ {NoRequest}, "pool")
      /\ fut' = [fut EXCEPT ![r] = "resolved"]
      /\ UNCHANGED <<conn, onDrop, chan, subId, sub>>

(***************************************************************************)
(* The transport sends the response.  It may do so long after the poll: in *)
(* a batch the response waits for every other call of the batch.           *)
(***************************************************************************)
Respond(r) ==
  /\ fut[r] \in {"resolved", "failed"}
  /\ conn[SessionOf[r]] = "open"
  /\ fut' = [fut EXCEPT ![r] = "responded"]
  /\ UNCHANGED <<conn, active, onDrop, chan, subId, sub, calls, unsub>>

(* Mutant: futures still waiting for their handler are not dropped.        *)
DropResolvedFuture(r) ==
  /\ fut[r] \in {"resolved", "failed"}
  /\ conn[SessionOf[r]] = "closed"
  /\ fut' = [fut EXCEPT ![r] = "dropped"]
  /\ UNCHANGED <<conn, active, onDrop, chan, subId, sub, calls, unsub>>

(***************************************************************************)
(* The transport drops the futures of a closed connection; a future that   *)
(* is being polled cannot be dropped.                                      *)
(***************************************************************************)
DropFuture(r) ==
  /\ fut[r] \in {"pending", "resolved", "failed"}
  /\ conn[SessionOf[r]] = "closed"
  /\ fut' = [fut EXCEPT ![r] = "dropped"]
  /\ UNCHANGED <<conn, active, onDrop, chan, subId, sub, calls, unsub>>

(* Mutant: the entry is looked up, not removed.                            *)
UnsubscribeKeepingEntry(s, k) ==
  /\ conn[s] = "open"
  /\ active[s][k] # NoRequest
  /\ CallUnsubscribe({active[s][k]}, "client")
  /\ UNCHANGED <<conn, active, onDrop, fut, chan, subId, sub>>

(***************************************************************************)
(* Unsubscribe::call for id and name k.  remove_subscription decides under *)
(* the session's lock; an unknown or malformed id is only an error reply.  *)
(***************************************************************************)
Unsubscribe(s, k) ==
  /\ conn[s] = "open"
  /\ active[s][k] # NoRequest
  /\ active' = [active EXCEPT ![s][k] = NoRequest]
  /\ CallUnsubscribe({active[s][k]}, "client")
  /\ UNCHANGED <<conn, onDrop, fut, chan, subId, sub>>

(***************************************************************************)
(* A future of the unsubscribe handler completes.  The one of a client's   *)
(* request is dropped, unfinished, with the connection.                    *)
(***************************************************************************)
UnsubscribeDone(r) ==
  /\ unsub[r] \in {"client", "pool"}
  /\ unsub' = [unsub EXCEPT ![r] = "done"]
  /\ UNCHANGED <<conn, active, onDrop, fut, chan, subId, sub, calls>>

UnsubscribeDropped(r) ==
  /\ unsub[r] = "client"
  /\ conn[SessionOf[r]] = "closed"
  /\ unsub' = [unsub EXCEPT ![r] = "cancelled"]
  /\ UNCHANGED <<conn, active, onDrop, fut, chan, subId, sub, calls>>

(***************************************************************************)
(* Session::on_drop, called by whoever holds the session's metadata.       *)
(***************************************************************************)
OnDrop(s) ==
  /\ s \in PubSubSessions
  /\ conn[s] = "open"
  /\ onDrop[s] = "none"
  /\ onDrop' = [onDrop EXCEPT ![s] = "registered"]
  /\ UNCHANGED <<conn, active, fut, chan, subId, sub, calls, unsub>>

(***************************************************************************)
(* The transport is done with the connection and gives up its metadata.    *)
(***************************************************************************)
CloseConnection(s) ==
  /\ conn[s] = "open"
  /\ conn' = [conn EXCEPT ![s] = "closed"]
  /\ UNCHANGED <<active, onDrop, fut, chan, subId, sub, calls, unsub>>

(* Mutant: request futures hold weak references to the session.            *)
WeakReferences(s) == {}

(***************************************************************************)
(* Arc<Session> references of the connection's requests: an unresolved     *)
(* subscribe future, and the metadata given to the unsubscribe handler.    *)
(***************************************************************************)
References(s) ==
  {r \in Requests : /\ SessionOf[r] = s
                    /\ fut[r] \in {"pending", "adding"} \/ unsub[r] = "client"}

(* Mutant: Drop runs the callbacks but does not drain the map.             *)
DropWithoutDrain(s) ==
  /\ conn[s] = "closed"
  /\ References(s) = {}
  /\ conn' = [conn EXCEPT ![s] = "dropped"]
  /\ onDrop' = [onDrop EXCEPT ![s] = IF @ = "registered" THEN "called" ELSE @]
  /\ UNCHANGED <<active, fut, chan, subId, sub, calls, unsub>>

(***************************************************************************)
(* Drop for Session: drains the map, calling every remove closure, then    *)
(* runs the on_drop callbacks.                                             *)
(***************************************************************************)
DropSession(s) ==
  /\ conn[s] = "closed"
  /\ References(s) = {}
  /\ conn' = [conn EXCEPT ![s] = "dropped"]
  /\ active' = [active EXCEPT ![s] = NoActive]
  /\ CallUnsubscribe({active[s][k] : k \in Keys} \ {NoRequest}, "pool")
  /\ onDrop' = [onDrop EXCEPT ![s] = IF @ = "registered" THEN "called" ELSE @]
  /\ UNCHANGED <<fut, chan, subId, sub>>

-----------------------------------------------------------------------------
Handler(r) ==
  \/ \E i \in Ids : assign_id(r, i) \/ assign_id_async(r, i)
  \/ reject(r)
  \/ reject_async(r)
  \/ DropSubscriber(r)
  \/ ReceiptArrives(r)

Future(r) == Poll(r) \/ AddSubscription(r) \/ Respond(r) \/ DropFuture(r)

Session(s) ==
  \/ \E k \in Keys : Unsubscribe(s, k)
  \/ OnDrop(s)
  \/ CloseConnection(s)
  \/ DropSession(s)

Next ==
  \/ \E r \in Requests : \/ Subscribe(r)
                         \/ Handler(r)
                         \/ Future(r)
                         \/ UnsubscribeDone(r)
                         \/ UnsubscribeDropped(r)
  \/ \E s \in Sessions : Session(s)

(***************************************************************************)
(* The executor keeps polling ready tasks and drops those of a closed      *)
(* connection, the pool runs its tasks, and Drop follows the last          *)
(* reference.  Clients, handlers and the transport owe nothing.            *)
(***************************************************************************)
Fairness ==
  /\ \A r \in Requests : WF_vars(Poll(r) \/ AddSubscription(r) \/ DropFuture(r))
  /\ \A r \in Requests : WF_vars(UnsubscribeDone(r) \/ UnsubscribeDropped(r))
  /\ \A r \in Requests : WF_vars(ReceiptArrives(r))
  /\ \A s \in Sessions : WF_vars(DropSession(s))

Spec == Init /\ [][Next]_vars

FairSpec == Spec /\ Fairness

-----------------------------------------------------------------------------
(***************************************************************************)
(* An id was taken out of the channel and its entry inserted.              *)
(***************************************************************************)
Registered(r) == chan[r] = "taken" /\ subId[r] # NoId /\ fut[r] # "adding"

IsActive(r) == subId[r] # NoId /\ active[SessionOf[r]][Key(r)] = r

(***************************************************************************)
(* Every registered subscription is in the session's map or had its        *)
(* unsubscribe handler called, exactly once: by the client, by a collision *)
(* or by Drop for Session, however those interleave.  A call that was      *)
(* never registered is never unsubscribed.                                 *)
(***************************************************************************)
UnsubscribedOnce ==
  \A r \in Requests :
    calls[r] = IF Registered(r) /\ ~IsActive(r) THEN 1 ELSE 0

(***************************************************************************)
(* A Sink obtained from assign_id_async outlives its session only if the   *)
(* unsubscribe handler was called: Session "keeps track of active          *)
(* subscriptions and unsubscribes from them upon dropping".                *)
(***************************************************************************)
AwaitedSinkUnsubscribed ==
  \A r \in Requests :
    sub[r] = "sink" /\ conn[SessionOf[r]] = "dropped" => calls[r] = 1

(***************************************************************************)
(* A handler told that the request has terminated (Err of assign_id and of *)
(* assign_id_async) has no subscription: none is active for its call, and  *)
(* the unsubscribe handler is never called for it.                         *)
(***************************************************************************)
ErrMeansUnregistered ==
  \A r \in Requests :
    sub[r] = "closed" => ~IsActive(r) /\ calls[r] = 0

(***************************************************************************)
(* The same for every Sink, those of assign_id included.                   *)
(***************************************************************************)
EverySinkUnsubscribed ==
  \A r \in Requests :
    sub[r] \in {"sink", "sinkNow"} /\ conn[SessionOf[r]] = "dropped" => calls[r] = 1

(***************************************************************************)
(* The future of reject_async "resolves when the rejection is sent to the  *)
(* client": on an open connection not before the response was sent.        *)
(***************************************************************************)
RejectionSent ==
  [][ \A r \in Requests :
        sub[r] = "rejecting" /\ sub'[r] = "closed" /\ conn[SessionOf[r]] = "open"
          => fut[r] = "responded" ]_vars

(***************************************************************************)
(* A closed connection's session is eventually dropped, its on_drop        *)
(* callback called, and the unsubscribe handler of every subscription it   *)
(* still tracked runs to completion.                                       *)
(***************************************************************************)
ClosedSessionIsCleaned ==
  \A s \in Sessions :
    conn[s] = "closed" ~>
      /\ conn[s] = "dropped"
      /\ onDrop[s] # "registered"
      /\ \A r \in Requests :
           SessionOf[r] = s /\ Registered(r) => unsub[r] \in {"done", "cancelled"}

-----------------------------------------------------------------------------
(***************************************************************************)
(* The rendezvous keeps its three parties in step: what the handler holds  *)
(* determines what is in the channel, and a value is taken out of it only  *)
(* by the poll that goes on to insert the entry.                           *)
(***************************************************************************)
RendezvousInv ==
  \A r \in Requests :
    /\ fut[r] = "none" => sub[r] = "none"
    /\ fut[r] = "adding" => chan[r] = "taken" /\ subId[r] # NoId
    /\ chan[r] = "ok" => subId[r] # NoId
    /\ chan[r] \in {"empty", "err", "cancelled"} => subId[r] = NoId
    /\ chan[r] = "taken" => fut[r] \notin {"none", "pending"}
    /\ sub[r] \in {"none", "held"} => chan[r] = "empty"
    /\ sub[r] = "waiting" => chan[r] \in {"ok", "taken"} /\ subId[r] # NoId
    /\ sub[r] = "rejecting" => subId[r] = NoId
    /\ sub[r] = "sink" => chan[r] = "taken" /\ subId[r] # NoId
    /\ sub[r] = "closed" => subId[r] = NoId \/ (fut[r] = "dropped" /\ chan[r] # "taken")

(***************************************************************************)
(* An entry of a session's map belongs to a registered call of that very   *)
(* session and key; a dropped session has no entry and no unresolved call. *)
(***************************************************************************)
EntryInv ==
  /\ \A s \in Sessions, k \in Keys :
       active[s][k] # NoRequest =>
         /\ SessionOf[active[s][k]] = s
         /\ Key(active[s][k]) = k
         /\ Registered(active[s][k])
  /\ \A s \in Sessions : conn[s] = "dropped" => active[s] = NoActive
  /\ \A r \in Requests :
       conn[SessionOf[r]] = "dropped" => fut[r] \notin {"pending", "adding"}

(***************************************************************************)
(* The inductive invariant of the proofs.                                  *)
(***************************************************************************)
IInv == TypeOK /\ RendezvousInv /\ EntryInv /\ UnsubscribedOnce

-----------------------------------------------------------------------------
(***************************************************************************)
(* What the session promises, see module Subscriptions.                    *)
(***************************************************************************)
Lifecycle ==
  [r \in Requests |->
     IF ~Registered(r) THEN "absent" ELSE IF IsActive(r) THEN "active" ELSE "ended"]

Abstract == INSTANCE Subscriptions WITH
  Subscriptions <- Requests,
  state <- Lifecycle,
  live <- {s \in Sessions : conn[s] # "dropped"},
  key <- [r \in Requests |-> Key(r)]

RefinesSubscriptions == Abstract!Spec
=============================================================================
