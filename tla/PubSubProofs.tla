---------------------------- MODULE PubSubProofs ----------------------------
(***************************************************************************)
(* Proofs about PubSub, for any number of sessions, calls, ids and names,  *)
(* and about SubscriptionManager, for both id providers and with ids that  *)
(* wrap around or collide.                                                 *)
(***************************************************************************)
EXTENDS SubscriptionManager, FiniteSetTheorems, TLAPS

(***************************************************************************)
(* Type correctness is preserved by every action.                          *)
(***************************************************************************)
LEMMA TypeStep == ASSUME TypeOK, [Next]_vars PROVE TypeOK'
<1> USE DEF TypeOK, FutureStates, ChannelStates, HandlerStates, UnsubStates
<1>1. ASSUME NEW r \in Requests, Subscribe(r) PROVE TypeOK'
  BY <1>1 DEF Subscribe
<1>2. ASSUME NEW r \in Requests, Handler(r) PROVE TypeOK'
  <2>1. CASE \E i \in Ids : assign_id(r, i) \/ assign_id_async(r, i)
    BY <2>1 DEF assign_id, assign_id_async, Send
  <2>2. CASE reject(r) \/ reject_async(r) \/ DropSubscriber(r)
    BY <2>2, ZenonT(60) DEF reject, reject_async, DropSubscriber, Send
  <2>3. CASE ReceiptArrives(r)
    BY <2>3, Zenon DEF ReceiptArrives
  <2> QED BY <1>2, <2>1, <2>2, <2>3, Zenon DEF Handler
<1>3. ASSUME NEW r \in Requests, Future(r) PROVE TypeOK'
  <2>1. CASE Poll(r)
    BY <2>1, ZenonT(30) DEF Poll
  <2>2. CASE AddSubscription(r)
    <3>1. active' \in [Sessions -> [Keys -> Requests \cup {NoRequest}]]
      BY <2>2, Zenon DEF AddSubscription
    <3>2. calls' \in [Requests -> Nat] /\ unsub' \in [Requests -> UnsubStates]
      BY <2>2 DEF AddSubscription, CallUnsubscribe
    <3>3. fut' \in [Requests -> FutureStates]
      BY <2>2, Zenon DEF AddSubscription
    <3> QED BY <2>2, <3>1, <3>2, <3>3, Zenon DEF AddSubscription
  <2>3. CASE Respond(r) \/ DropFuture(r)
    BY <2>3 DEF Respond, DropFuture
  <2> QED BY <1>3, <2>1, <2>2, <2>3, Zenon DEF Future
<1>4. ASSUME NEW r \in Requests, UnsubscribeDone(r) \/ UnsubscribeDropped(r) PROVE TypeOK'
  BY <1>4 DEF UnsubscribeDone, UnsubscribeDropped
<1>5. ASSUME NEW s \in Sessions, Session(s) PROVE TypeOK'
  <2>1. CASE \E k \in Keys : Unsubscribe(s, k)
    BY <2>1 DEF Unsubscribe, CallUnsubscribe
  <2>2. CASE OnDrop(s) \/ CloseConnection(s)
    BY <2>2, SMTT(30) DEF OnDrop, CloseConnection
  <2>3. CASE DropSession(s)
    BY <2>3 DEF DropSession, CallUnsubscribe, NoActive
  <2> QED BY <1>5, <2>1, <2>2, <2>3, Zenon DEF Session
<1>6. CASE UNCHANGED vars
  BY <1>6, Zenon DEF vars
<1> QED BY <1>1, <1>2, <1>3, <1>4, <1>5, <1>6, Zenon DEF Next

(***************************************************************************)
(* Type correctness of the pubsub module.                                  *)
(***************************************************************************)
THEOREM TypeCorrect == Spec => []TypeOK
<1>1. Init => TypeOK
  BY PubSubAssumption
     DEF Init, TypeOK, NoActive, FutureStates, ChannelStates, HandlerStates, UnsubStates
<1> QED BY <1>1, TypeStep, PTL DEF Spec

(***************************************************************************)
(* The rendezvous between handler and request future stays in step.        *)
(***************************************************************************)
LEMMA RendezvousStep == ASSUME TypeOK, RendezvousInv, [Next]_vars PROVE RendezvousInv'
<1> USE PubSubAssumption
    DEF TypeOK, RendezvousInv, FutureStates, ChannelStates, HandlerStates
<1>1. ASSUME NEW r \in Requests, Subscribe(r) PROVE RendezvousInv'
  BY <1>1, SMTT(30) DEF Subscribe
<1>2. ASSUME NEW r \in Requests, Handler(r) PROVE RendezvousInv'
  <2>1. CASE \E i \in Ids : assign_id(r, i) \/ assign_id_async(r, i)
    BY <2>1 DEF assign_id, assign_id_async, Send, ReceiverDropped
  <2>2. CASE reject(r) \/ reject_async(r) \/ DropSubscriber(r)
    BY <2>2, SMTT(30) DEF reject, reject_async, DropSubscriber, Send, ReceiverDropped
  <2>3. CASE ReceiptArrives(r)
    BY <2>3 DEF ReceiptArrives, ReceiverDropped
  <2> QED BY <1>2, <2>1, <2>2, <2>3, Zenon DEF Handler
<1>3. ASSUME NEW r \in Requests, Future(r) PROVE RendezvousInv'
  <2>1. CASE Poll(r)
    BY <2>1 DEF Poll
  <2>2. CASE AddSubscription(r)
    BY <2>2, Zenon DEF AddSubscription
  <2>3. CASE Respond(r) \/ DropFuture(r)
    BY <2>3 DEF Respond, DropFuture
  <2> QED BY <1>3, <2>1, <2>2, <2>3, Zenon DEF Future
<1>4. ASSUME NEW r \in Requests, UnsubscribeDone(r) \/ UnsubscribeDropped(r) PROVE RendezvousInv'
  BY <1>4 DEF UnsubscribeDone, UnsubscribeDropped
<1>5. ASSUME NEW s \in Sessions, Session(s) PROVE RendezvousInv'
  BY <1>5, ZenonT(60) DEF Session, Unsubscribe, OnDrop, CloseConnection, DropSession
<1>6. CASE UNCHANGED vars
  BY <1>6, Zenon DEF vars
<1> QED BY <1>1, <1>2, <1>3, <1>4, <1>5, <1>6, Zenon DEF Next

(***************************************************************************)
(* A registered call has an id, so its key is one of the map's keys, and   *)
(* a call with an entry in the map is registered.                          *)
(***************************************************************************)
LEMMA KeyInKeys ==
  ASSUME TypeOK, NEW r \in Requests, subId[r] # NoId
  PROVE  Key(r) \in Keys /\ SessionOf[r] \in Sessions
BY PubSubAssumption, Zenon DEF TypeOK, Key, Keys

LEMMA ActiveIsRegistered ==
  ASSUME TypeOK, EntryInv, NEW r \in Requests, IsActive(r)
  PROVE  Registered(r)
<1>1. Key(r) \in Keys /\ SessionOf[r] \in Sessions
  BY KeyInKeys, Zenon DEF IsActive
<1>2. active[SessionOf[r]][Key(r)] = r /\ r # NoRequest
  BY PubSubAssumption, Zenon DEF IsActive
<1> QED BY <1>1, <1>2 DEF EntryInv

(***************************************************************************)
(* Steps that leave the maps alone, and the calls of the unsubscribe       *)
(* handler, and make no call registered or unregistered.                   *)
(***************************************************************************)
MapsUntouched ==
  /\ UNCHANGED <<active, calls>>
  /\ \A r \in Requests : Registered(r)' <=> Registered(r)
  /\ \A r \in Requests : Registered(r) => subId'[r] = subId[r]

LEMMA UntouchedSteps ==
  ASSUME TypeOK, RendezvousInv, NEW r \in Requests,
         \/ Subscribe(r) \/ Handler(r) \/ Poll(r) \/ Respond(r) \/ DropFuture(r)
         \/ UnsubscribeDone(r) \/ UnsubscribeDropped(r)
  PROVE  MapsUntouched
<1> USE DEF MapsUntouched, Registered, RendezvousInv, TypeOK
<1>1. CASE Subscribe(r)
  BY <1>1 DEF Subscribe
<1>2. CASE \E i \in Ids : assign_id(r, i) \/ assign_id_async(r, i)
  BY <1>2, ZenonT(60) DEF assign_id, assign_id_async, Send
<1>3. CASE reject(r) \/ reject_async(r) \/ DropSubscriber(r)
  BY <1>3 DEF reject, reject_async, DropSubscriber, Send
<1>4. CASE ReceiptArrives(r)
  BY <1>4, Zenon DEF ReceiptArrives
<1>5. CASE Poll(r)
  BY <1>5, ZenonT(60) DEF Poll
<1>6. CASE Respond(r) \/ DropFuture(r)
  BY <1>6 DEF Respond, DropFuture
<1>7. CASE UnsubscribeDone(r) \/ UnsubscribeDropped(r)
  BY <1>7, Zenon DEF UnsubscribeDone, UnsubscribeDropped
<1> QED BY <1>1, <1>2, <1>3, <1>4, <1>5, <1>6, <1>7, Zenon DEF Handler

(***************************************************************************)
(* Such steps make no subscription active or inactive.                     *)
(***************************************************************************)
LEMMA UntouchedActive ==
  ASSUME TypeOK, RendezvousInv, EntryInv, TypeOK', MapsUntouched, NEW r \in Requests
  PROVE  IsActive(r)' <=> IsActive(r)
<1>1. ASSUME IsActive(r) PROVE IsActive(r)'
  <2>1. Registered(r)
    BY <1>1, ActiveIsRegistered, Zenon
  <2> QED BY <1>1, <2>1, Zenon DEF MapsUntouched, IsActive, Key
<1>2. ASSUME IsActive(r)' PROVE IsActive(r)
  <2>1. Key(r)' \in Keys /\ SessionOf[r] \in Sessions
    BY <1>2, PubSubAssumption, Zenon DEF IsActive, TypeOK, Key, Keys
  <2>2. active[SessionOf[r]][Key(r)'] = r /\ r # NoRequest
    BY <1>2, PubSubAssumption, Zenon DEF IsActive, MapsUntouched
  <2>3. Registered(r)
    BY <2>1, <2>2 DEF EntryInv
  <2> QED BY <1>2, <2>3, Zenon DEF MapsUntouched, IsActive, Key
<1> QED BY <1>1, <1>2, Zenon

(***************************************************************************)
(* The effect of add_subscription: the call is registered, its entry is    *)
(* in the map, and no other entry has changed.                             *)
(***************************************************************************)
LEMMA AddEffect ==
  ASSUME IInv, NEW r \in Requests, AddSubscription(r)
  PROVE  /\ Key(r) \in Keys /\ SessionOf[r] \in Sessions
         /\ ~Registered(r) /\ ~IsActive(r)
         /\ \A x \in Requests : Registered(x)' <=> (Registered(x) \/ x = r)
         /\ subId' = subId /\ chan' = chan /\ conn' = conn
         /\ fut'[r] = "resolved"
         /\ \A x \in Requests \ {r} : fut'[x] = fut[x]
         /\ active'[SessionOf[r]][Key(r)] = r
         /\ \A s \in Sessions, k \in Keys :
              (s # SessionOf[r] \/ k # Key(r)) => active'[s][k] = active[s][k]
<1> USE DEF IInv
<1>1. fut[r] = "adding" /\ chan[r] = "taken" /\ subId[r] # NoId
  BY Zenon DEF AddSubscription, RendezvousInv
<1>2. Key(r) \in Keys /\ SessionOf[r] \in Sessions
  BY <1>1, KeyInKeys, Zenon
<1>3. ~Registered(r) /\ ~IsActive(r)
  BY <1>1, ActiveIsRegistered, Zenon DEF Registered
<1>4. /\ active'[SessionOf[r]][Key(r)] = r
      /\ \A s \in Sessions, k \in Keys :
           (s # SessionOf[r] \/ k # Key(r)) => active'[s][k] = active[s][k]
  BY <1>2, Zenon DEF AddSubscription, TypeOK
<1>5. \A x \in Requests : Registered(x)' <=> (Registered(x) \/ x = r)
  <2>1. subId' = subId /\ chan' = chan /\ fut' = [fut EXCEPT ![r] = "resolved"]
    BY Zenon DEF AddSubscription
  <2> QED BY <1>1, <2>1, Zenon DEF Registered, TypeOK
<1> QED BY <1>2, <1>3, <1>4, <1>5, Zenon DEF AddSubscription, TypeOK

(***************************************************************************)
(* Entries stay with registered calls of their own session and key.        *)
(***************************************************************************)
LEMMA EntryStep == ASSUME IInv, [Next]_vars PROVE EntryInv'
<1> USE DEF IInv
<1>t. TypeOK'
  BY TypeStep, SMTT(20)
<1>1. ASSUME MapsUntouched,
             \A s \in Sessions : conn'[s] = "dropped" => conn[s] = "dropped",
             \A r \in Requests : conn[SessionOf[r]] = "dropped" =>
                                   fut'[r] \notin {"pending", "adding"}
      PROVE  EntryInv'
  <2>1. ASSUME NEW s \in Sessions, NEW k \in Keys, active'[s][k] # NoRequest
        PROVE  /\ SessionOf[active'[s][k]] = s
               /\ Key(active[s][k])' = k
               /\ Registered(active[s][k])'
               /\ active'[s][k] = active[s][k]
    BY <1>1, <2>1 DEF EntryInv, MapsUntouched, TypeOK, Key
  <2>2. \A r \in Requests : SessionOf[r] \in Sessions
    BY PubSubAssumption, Zenon
  <2> QED BY <1>1, <2>1, <2>2 DEF EntryInv, MapsUntouched, Key, Registered
<1>2. ASSUME NEW r \in Requests,
             \/ Subscribe(r) \/ Handler(r) \/ Poll(r) \/ Respond(r) \/ DropFuture(r)
             \/ UnsubscribeDone(r) \/ UnsubscribeDropped(r)
      PROVE  EntryInv'
  <2>1. MapsUntouched
    BY <1>2, UntouchedSteps, Zenon
  <2>2. conn' = conn
    BY <1>2, Zenon DEF Subscribe, Handler, assign_id, assign_id_async, reject, reject_async,
                DropSubscriber, Send, ReceiptArrives, Poll, Respond, DropFuture,
                UnsubscribeDone, UnsubscribeDropped
  <2>3. \A x \in Requests : conn[SessionOf[x]] = "dropped" =>
                              fut'[x] \notin {"pending", "adding"}
    BY <1>2, SMTT(20) DEF EntryInv, TypeOK, Subscribe, Handler, assign_id, assign_id_async, reject,
                reject_async, DropSubscriber, Send, ReceiptArrives, Poll, Respond,
                DropFuture, UnsubscribeDone, UnsubscribeDropped
  <2> QED BY <1>1, <2>1, <2>2, <2>3, Zenon
<1>3. ASSUME NEW r \in Requests, AddSubscription(r) PROVE EntryInv'
  <2>1. ASSUME NEW s \in Sessions, NEW k \in Keys, active'[s][k] # NoRequest
        PROVE  /\ SessionOf[active'[s][k]] = s
               /\ Key(active[s][k])' = k
               /\ Registered(active[s][k])'
    <3>1. CASE s = SessionOf[r] /\ k = Key(r)
      <4>1. active'[s][k] = r
        BY <1>3, <3>1, AddEffect, Zenon
      <4>2. Key(r)' = Key(r) /\ Registered(r)'
        BY <1>3, AddEffect, Zenon DEF Key, Registered, AddSubscription, RendezvousInv
      <4> QED BY <3>1, <4>1, <4>2, Zenon DEF Key, Registered
    <3>2. CASE s # SessionOf[r] \/ k # Key(r)
      <4>1. active'[s][k] = active[s][k] /\ active[s][k] \in Requests
        BY <1>3, <2>1, <3>2, AddEffect DEF TypeOK
      <4>2. /\ SessionOf[active[s][k]] = s
            /\ Key(active[s][k]) = k
            /\ Registered(active[s][k])
        BY <2>1, <4>1, Zenon DEF EntryInv
      <4>3. active[s][k] # r
        BY <1>3, <4>2, AddEffect
      <4>4. subId' = subId /\ chan' = chan /\ fut'[active[s][k]] = fut[active[s][k]]
        BY <1>3, <4>1, <4>3, AddEffect, Zenon
      <4> QED BY <4>1, <4>2, <4>4, Zenon DEF Key, Registered
    <3> QED BY <3>1, <3>2, Zenon
  <2>2. conn[SessionOf[r]] # "dropped"
    BY <1>3, Zenon DEF AddSubscription, EntryInv
  <2>3. \A s \in Sessions : conn'[s] = "dropped" => active'[s] = NoActive
    BY <1>3, <2>2, AddEffect DEF EntryInv, AddSubscription, TypeOK
  <2>4. \A x \in Requests : conn'[SessionOf[x]] = "dropped" =>
                              fut'[x] \notin {"pending", "adding"}
    BY <1>3, AddEffect, Zenon DEF EntryInv
  <2> QED BY <2>1, <2>3, <2>4, Zenon DEF EntryInv, Key, Registered, NoActive
<1>4. ASSUME NEW s \in Sessions, OnDrop(s) \/ CloseConnection(s) PROVE EntryInv'
  <2>1. MapsUntouched
    BY <1>4, Zenon DEF MapsUntouched, Registered, OnDrop, CloseConnection
  <2>2. fut' = fut /\ \A t \in Sessions : conn'[t] = "dropped" => conn[t] = "dropped"
    BY <1>4, Zenon DEF OnDrop, CloseConnection, TypeOK
  <2> QED BY <1>1, <2>1, <2>2, Zenon DEF EntryInv
<1>5. ASSUME NEW s \in Sessions, NEW k \in Keys, Unsubscribe(s, k) PROVE EntryInv'
  <2>1. UNCHANGED <<conn, fut, chan, subId>>
    BY <1>5, Zenon DEF Unsubscribe
  <2>2. \A t \in Sessions, j \in Keys :
          active'[t][j] = IF t = s /\ j = k THEN NoRequest ELSE active[t][j]
    BY <1>5, Zenon DEF Unsubscribe, TypeOK
  <2>3. \A t \in Sessions : conn'[t] = "dropped" => active'[t] = NoActive
    BY <1>5, <2>1 DEF Unsubscribe, TypeOK, EntryInv
  <2> QED BY <2>1, <2>2, <2>3 DEF EntryInv, Key, Registered, NoActive
<1>6. ASSUME NEW s \in Sessions, DropSession(s) PROVE EntryInv'
  <2>1. UNCHANGED <<fut, chan, subId>>
    BY <1>6, Zenon DEF DropSession
  <2>2. \A t \in Sessions, j \in Keys :
          active'[t][j] = IF t = s THEN NoRequest ELSE active[t][j]
    BY <1>6, Zenon DEF DropSession, TypeOK, NoActive
  <2>3. \A t \in Sessions : conn'[t] = "dropped" => active'[t] = NoActive
    BY <1>6, SMTT(30) DEF DropSession, TypeOK, EntryInv, NoActive
  <2>4. \A x \in Requests : conn'[SessionOf[x]] = "dropped" =>
                              fut'[x] \notin {"pending", "adding"}
    BY <1>6, <2>1, PubSubAssumption DEF DropSession, TypeOK, EntryInv, References
  <2> QED BY <2>1, <2>2, <2>3, <2>4 DEF EntryInv, Key, Registered, NoActive
<1>7. CASE UNCHANGED vars
  BY <1>7, Zenon DEF vars, EntryInv, Key, Registered, NoActive
<1> QED BY <1>2, <1>3, <1>4, <1>5, <1>6, <1>7, Zenon DEF Next, Future, Session

(***************************************************************************)
(* Which subscriptions are active after each step that touches a map:      *)
(* add_subscription displaces at most the entry of the same key, ...       *)
(***************************************************************************)
LEMMA AddActive ==
  ASSUME IInv, NEW r \in Requests, AddSubscription(r), NEW x \in Requests
  PROVE  LET old == active[SessionOf[r]][Key(r)]
         IN  /\ IsActive(x)' <=> (x = r \/ (IsActive(x) /\ x # old))
             /\ x = old => x # r /\ IsActive(x) /\ Registered(x)
             /\ x = old <=> (IsActive(x) /\ SessionOf[x] = SessionOf[r] /\ Key(x) = Key(r))
<1> DEFINE old == active[SessionOf[r]][Key(r)]
<1> USE DEF IInv
<1>1. Key(r) \in Keys /\ SessionOf[r] \in Sessions /\ x # NoRequest /\ subId[r] # NoId
  BY AddEffect, PubSubAssumption, Zenon DEF AddSubscription, RendezvousInv
<1>2. ASSUME x = old
      PROVE  x # r /\ IsActive(x) /\ Registered(x) /\ SessionOf[x] = SessionOf[r]
             /\ Key(x) = Key(r)
  <2>1. SessionOf[x] = SessionOf[r] /\ Key(x) = Key(r) /\ Registered(x)
    BY <1>1, <1>2, Zenon DEF EntryInv
  <2>2. IsActive(x)
    BY <1>2, <2>1, Zenon DEF IsActive, Registered
  <2> QED BY <2>1, <2>2, AddEffect, Zenon
<1>3. IsActive(x)' <=> (x = r \/ (IsActive(x) /\ x # old))
  <2>1. CASE x = r
    BY <1>1, <2>1, AddEffect, Zenon DEF IsActive, Key
  <2>2. CASE x # r /\ subId[x] = NoId
    BY <2>2, AddEffect, Zenon DEF IsActive
  <2>3. CASE x # r /\ subId[x] # NoId
    <3>1. Key(x) \in Keys /\ SessionOf[x] \in Sessions /\ Key(x)' = Key(x)
      BY <2>3, KeyInKeys, AddEffect, Zenon DEF Key
    <3>2. CASE SessionOf[x] = SessionOf[r] /\ Key(x) = Key(r)
      BY <2>3, <3>1, <3>2, AddEffect, Zenon DEF IsActive
    <3>3. CASE SessionOf[x] # SessionOf[r] \/ Key(x) # Key(r)
      <4>1. active'[SessionOf[x]][Key(x)] = active[SessionOf[x]][Key(x)]
        BY <3>1, <3>3, AddEffect
      <4> QED BY <1>2, <2>3, <3>1, <3>3, <4>1, AddEffect, Zenon DEF IsActive
    <3> QED BY <3>2, <3>3, Zenon
  <2> QED BY <2>1, <2>2, <2>3, Zenon
<1>4. IsActive(x) /\ SessionOf[x] = SessionOf[r] /\ Key(x) = Key(r) => x = old
  BY Zenon DEF IsActive
<1> QED BY <1>2, <1>3, <1>4, Zenon

(***************************************************************************)
(* ... Unsubscribe ends the one it names, ...                              *)
(***************************************************************************)
LEMMA UnsubscribeEffect ==
  ASSUME IInv, NEW s \in Sessions, NEW k \in Keys, Unsubscribe(s, k), NEW x \in Requests
  PROVE  /\ x = active[s][k] => IsActive(x) /\ Registered(x)
         /\ Registered(x)' <=> Registered(x)
         /\ Key(x)' = Key(x)
         /\ IsActive(x)' <=> (IsActive(x) /\ x # active[s][k])
<1> USE DEF IInv
<1>1. ASSUME x = active[s][k]
      PROVE  SessionOf[x] = s /\ Key(x) = k /\ Registered(x) /\ IsActive(x)
  <2>1. SessionOf[x] = s /\ Key(x) = k /\ Registered(x)
    BY <1>1, Zenon DEF Unsubscribe, EntryInv
  <2> QED BY <1>1, <2>1, Zenon DEF IsActive, Registered
<1>2. /\ Registered(x)' <=> Registered(x)
      /\ Key(x)' = Key(x)
      /\ subId'[x] = subId[x]
  BY Zenon DEF Unsubscribe, Registered, Key
<1>3. IsActive(x)' <=> (IsActive(x) /\ x # active[s][k])
  <2>1. CASE subId[x] = NoId
    BY <1>2, <2>1, Zenon DEF IsActive
  <2>2. CASE subId[x] # NoId
    <3>1. Key(x) \in Keys /\ SessionOf[x] \in Sessions
      BY <2>2, KeyInKeys, Zenon
    <3>2. active'[SessionOf[x]][Key(x)] =
            IF SessionOf[x] = s /\ Key(x) = k THEN NoRequest
                                              ELSE active[SessionOf[x]][Key(x)]
      BY <3>1, Zenon DEF Unsubscribe, TypeOK
    <3> QED BY <1>1, <1>2, <2>2, <3>2, PubSubAssumption, Zenon DEF IsActive
  <2> QED BY <2>1, <2>2, Zenon
<1> QED BY <1>1, <1>2, <1>3, Zenon

(***************************************************************************)
(* ... and Drop ends those of its session.                                 *)
(***************************************************************************)
LEMMA DropEffect ==
  ASSUME IInv, NEW s \in Sessions, DropSession(s), NEW x \in Requests
  PROVE  /\ Registered(x)' <=> Registered(x)
         /\ Key(x)' = Key(x)
         /\ IsActive(x)' <=> (IsActive(x) /\ SessionOf[x] # s)
<1> USE DEF IInv
<1>1. /\ Registered(x)' <=> Registered(x)
      /\ Key(x)' = Key(x)
      /\ subId'[x] = subId[x]
  BY Zenon DEF DropSession, Registered, Key
<1>2. CASE subId[x] = NoId
  BY <1>1, <1>2, Zenon DEF IsActive
<1>3. CASE subId[x] # NoId
  <2>1. Key(x) \in Keys /\ SessionOf[x] \in Sessions
    BY <1>3, KeyInKeys, Zenon
  <2>2. active'[SessionOf[x]][Key(x)] =
          IF SessionOf[x] = s THEN NoRequest ELSE active[SessionOf[x]][Key(x)]
    BY <2>1, Zenon DEF DropSession, TypeOK, NoActive
  <2> QED BY <1>1, <1>3, <2>2, PubSubAssumption, Zenon DEF IsActive
<1> QED BY <1>2, <1>3, Zenon

(***************************************************************************)
(* Each registered subscription is active or was unsubscribed once.        *)
(***************************************************************************)
LEMMA OnceStep == ASSUME IInv, [Next]_vars PROVE UnsubscribedOnce'
<1> USE DEF IInv
<1>t. TypeOK' /\ EntryInv'
  BY TypeStep, EntryStep, Zenon
<1>1. ASSUME MapsUntouched PROVE UnsubscribedOnce'
  BY <1>1, <1>t, UntouchedActive, Zenon DEF UnsubscribedOnce, MapsUntouched
<1>2. ASSUME NEW r \in Requests, AddSubscription(r) PROVE UnsubscribedOnce'
  <2> DEFINE old == active[SessionOf[r]][Key(r)]
  <2>1. \A x \in Requests : calls'[x] = IF x = old THEN calls[x] + 1 ELSE calls[x]
    BY <1>2, PubSubAssumption, Zenon DEF AddSubscription, CallUnsubscribe
  <2>2. \A x \in Requests : Registered(x)' <=> (Registered(x) \/ x = r)
    BY <1>2, AddEffect, Zenon
  <2>3. \A x \in Requests : /\ IsActive(x)' <=> (x = r \/ (IsActive(x) /\ x # old))
                            /\ x = old => x # r /\ IsActive(x) /\ Registered(x)
    BY <1>2, AddActive, Zenon
  <2>4. ~Registered(r)
    BY <1>2, AddEffect, Zenon
  <2> HIDE DEF old
  <2> QED BY <2>1, <2>2, <2>3, <2>4 DEF UnsubscribedOnce, TypeOK
<1>3. ASSUME NEW s \in Sessions, NEW k \in Keys, Unsubscribe(s, k) PROVE UnsubscribedOnce'
  <2>1. \A x \in Requests :
          calls'[x] = IF x = active[s][k] THEN calls[x] + 1 ELSE calls[x]
    BY <1>3, SMTT(20) DEF Unsubscribe, CallUnsubscribe
  <2> QED BY <1>3, <2>1, UnsubscribeEffect DEF UnsubscribedOnce, TypeOK
<1>4. ASSUME NEW s \in Sessions, DropSession(s) PROVE UnsubscribedOnce'
  <2>1. ASSUME NEW x \in Requests, NEW k \in Keys, active[s][k] = x
        PROVE  SessionOf[x] = s /\ IsActive(x)
    <3>1. SessionOf[x] = s /\ Key(x) = k /\ Registered(x)
      BY <2>1, PubSubAssumption, Zenon DEF EntryInv
    <3> QED BY <2>1, <3>1, Zenon DEF IsActive, Registered
  <2>2. ASSUME NEW x \in Requests, IsActive(x), SessionOf[x] = s
        PROVE  \E k \in Keys : active[s][k] = x
    BY <2>2, KeyInKeys, Zenon DEF IsActive
  <2>3. \A x \in Requests :
          calls'[x] = IF IsActive(x) /\ SessionOf[x] = s THEN calls[x] + 1 ELSE calls[x]
    BY <1>4, <2>1, <2>2, PubSubAssumption, Zenon DEF DropSession, CallUnsubscribe
  <2> QED BY <1>4, <2>3, DropEffect, ActiveIsRegistered DEF UnsubscribedOnce, TypeOK
<1>5. ASSUME NEW s \in Sessions, OnDrop(s) \/ CloseConnection(s) PROVE UnsubscribedOnce'
  <2>1. MapsUntouched
    BY <1>5, Zenon DEF MapsUntouched, Registered, OnDrop, CloseConnection
  <2> QED BY <1>1, <2>1, Zenon
<1>6. CASE UNCHANGED vars
  BY <1>6, Zenon DEF vars, UnsubscribedOnce, Key, Registered, IsActive
<1> QED BY <1>1, <1>2, <1>3, <1>4, <1>5, <1>6, UntouchedSteps, Zenon DEF Next, Future, Session

(***************************************************************************)
(* The inductive invariant holds in every reachable state.                 *)
(***************************************************************************)
THEOREM Invariance == Spec => []IInv
<1>1. Init => IInv
  BY PubSubAssumption
     DEF Init, IInv, TypeOK, NoActive, FutureStates, ChannelStates, HandlerStates,
         UnsubStates, RendezvousInv, EntryInv, UnsubscribedOnce, Registered, IsActive
<1>2. IInv /\ [Next]_vars => IInv'
  BY TypeStep, RendezvousStep, EntryStep, OnceStep, Zenon DEF IInv
<1> QED BY <1>1, <1>2, PTL DEF Spec

(***************************************************************************)
(* add_subscription, Unsubscribe::call and Drop for Session together call  *)
(* the unsubscribe handler exactly once for each subscription that leaves  *)
(* the map, and never for any other call.                                  *)
(***************************************************************************)
THEOREM ExactlyOnce == Spec => []UnsubscribedOnce
<1>1. IInv => UnsubscribedOnce
  BY Zenon DEF IInv
<1> QED BY <1>1, Invariance, PTL

(***************************************************************************)
(* No Sink obtained from assign_id_async is left without an unsubscribe    *)
(* call once its session is dropped.                                       *)
(***************************************************************************)
THEOREM NoAwaitedSinkLeaks == Spec => []AwaitedSinkUnsubscribed
<1>1. ASSUME IInv PROVE AwaitedSinkUnsubscribed
  <2> SUFFICES ASSUME NEW r \in Requests, sub[r] = "sink", conn[SessionOf[r]] = "dropped"
               PROVE  calls[r] = 1
    BY Zenon DEF AwaitedSinkUnsubscribed
  <2>1. chan[r] = "taken" /\ subId[r] # NoId /\ fut[r] # "adding"
    BY <1>1, Zenon DEF IInv, RendezvousInv, EntryInv
  <2>2. Key(r) \in Keys /\ SessionOf[r] \in Sessions
    BY <1>1, <2>1, KeyInKeys, Zenon DEF IInv
  <2>3. active[SessionOf[r]][Key(r)] = NoRequest
    BY <1>1, <2>2 DEF IInv, EntryInv, NoActive
  <2> QED BY <1>1, <2>1, <2>3, PubSubAssumption, Zenon DEF IInv, UnsubscribedOnce, Registered, IsActive
<1> QED BY <1>1, Invariance, PTL

(***************************************************************************)
(* A handler that was answered Err has no subscription, now or later.      *)
(***************************************************************************)
THEOREM ErrIsFinal == Spec => []ErrMeansUnregistered
<1>1. ASSUME IInv PROVE ErrMeansUnregistered
  <2> SUFFICES ASSUME NEW r \in Requests, sub[r] = "closed"
               PROVE  ~IsActive(r) /\ calls[r] = 0
    BY Zenon DEF ErrMeansUnregistered
  <2>1. ~Registered(r)
    BY <1>1, Zenon DEF IInv, RendezvousInv, Registered
  <2>2. ~IsActive(r)
    BY <1>1, <2>1, ActiveIsRegistered, Zenon DEF IInv
  <2> QED BY <1>1, <2>1, <2>2, Zenon DEF IInv, UnsubscribedOnce
<1> QED BY <1>1, Invariance, PTL

(***************************************************************************)
(* The session implements its abstract specification: every step is a      *)
(* registration, an end, the end of all of a dropped session's             *)
(* subscriptions, the choice of an id, or a stuttering step.               *)
(***************************************************************************)
THEOREM Refinement == Spec => RefinesSubscriptions
<1> USE DEF IInv
<1>1. Init => Abstract!Init
  BY Zenon DEF Init, Abstract!Init, Lifecycle, Registered
<1>2. ASSUME IInv, IInv', [Next]_vars PROVE [Abstract!Next]_(Abstract!abstractVars)
  <2> USE DEF Lifecycle
  <2>1. ASSUME NEW r \in Requests,
               \/ Subscribe(r) \/ Handler(r) \/ Poll(r) \/ Respond(r) \/ DropFuture(r)
               \/ UnsubscribeDone(r) \/ UnsubscribeDropped(r)
        PROVE  Abstract!ChooseKey(r) \/ UNCHANGED Abstract!abstractVars
    <3>1. Lifecycle' = Lifecycle
      BY <1>2, <2>1, UntouchedSteps, UntouchedActive, SMTT(20) DEF MapsUntouched
    <3>2. /\ conn' = conn
          /\ \A y \in Requests \ {r} : subId'[y] = subId[y]
          /\ subId' = subId \/ ~Registered(r)
      BY <1>2, <2>1
         DEF Subscribe, Handler, assign_id, assign_id_async, reject, reject_async,
             DropSubscriber, Send, ReceiptArrives, Poll, Respond, DropFuture,
             UnsubscribeDone, UnsubscribeDropped, RendezvousInv, Registered, TypeOK
    <3>3. CASE subId' = subId
      BY <3>1, <3>2, <3>3, ZenonT(30) DEF Abstract!abstractVars, Key
    <3>4. CASE ~Registered(r)
      BY <3>1, <3>2, <3>4, Zenon DEF Abstract!ChooseKey, Key
    <3> QED BY <3>2, <3>3, <3>4, Zenon
  <2>2. ASSUME NEW r \in Requests, AddSubscription(r) PROVE Abstract!Register(r)
    <3>1. SessionOf[r] \in Sessions /\ conn[SessionOf[r]] # "dropped" /\ ~Registered(r)
      BY <1>2, <2>2, AddEffect, PubSubAssumption, ZenonT(30) DEF EntryInv, AddSubscription
    <3>2. \A x \in Requests : Lifecycle'[x] =
            IF x = r THEN "active"
            ELSE IF Lifecycle[x] = "active" /\ SessionOf[x] = SessionOf[r] /\ Key(x) = Key(r)
                 THEN "ended" ELSE Lifecycle[x]
      BY <1>2, <2>2, AddEffect, AddActive, ActiveIsRegistered, Zenon
    <3>3. conn' = conn /\ \A x \in Requests : Key(x)' = Key(x)
      BY <1>2, <2>2, AddEffect, Zenon DEF Key
    <3> QED BY <3>1, <3>2, <3>3, Zenon DEF Abstract!Register, Abstract!ActiveIn, Abstract!EndAll
  <2>3. ASSUME NEW s \in Sessions, NEW k \in Keys, Unsubscribe(s, k)
        PROVE  active[s][k] \in Requests /\ Abstract!End(active[s][k])
    <3>1. conn' = conn /\ active[s][k] \in Requests
      BY <1>2, <2>3 DEF Unsubscribe, TypeOK
    <3>2. PICK old \in Requests : old = active[s][k]
      BY <3>1, Zenon
    <3>3. Lifecycle[old] = "active"
      BY <1>2, <2>3, <3>2, UnsubscribeEffect, Zenon
    <3>4. \A x \in Requests : /\ Lifecycle'[x] = IF x = old THEN "ended" ELSE Lifecycle[x]
                              /\ Key(x)' = Key(x)
      BY <1>2, <2>3, <3>2, UnsubscribeEffect, Zenon
    <3> QED BY <3>1, <3>2, <3>3, <3>4, Zenon DEF Abstract!End, Abstract!EndAll
  <2>4. ASSUME NEW s \in Sessions, DropSession(s) PROVE Abstract!Drop(s)
    <3>1. /\ conn[s] # "dropped"
          /\ {t \in Sessions : conn'[t] # "dropped"} =
               {t \in Sessions : conn[t] # "dropped"} \ {s}
      BY <1>2, <2>4, Zenon DEF DropSession, TypeOK
    <3>2. \A x \in Requests : Lifecycle'[x] =
            IF Lifecycle[x] = "active" /\ SessionOf[x] = s THEN "ended" ELSE Lifecycle[x]
      BY <1>2, <2>4, DropEffect, Zenon
    <3>3. \A x \in Requests : Key(x)' = Key(x)
      BY <1>2, <2>4, DropEffect, Zenon
    <3> QED BY <3>1, <3>2, <3>3, SMTT(20) DEF Abstract!Drop, Abstract!ActiveIn, Abstract!EndAll
  <2>5. ASSUME NEW s \in Sessions, OnDrop(s) \/ CloseConnection(s)
        PROVE  UNCHANGED Abstract!abstractVars
    <3>1. UNCHANGED <<active, fut, chan, subId>>
      BY <2>5, Zenon DEF OnDrop, CloseConnection
    <3>2. {t \in Sessions : conn'[t] # "dropped"} = {t \in Sessions : conn[t] # "dropped"}
      BY <1>2, <2>5, SMTT(20) DEF OnDrop, CloseConnection, TypeOK
    <3> QED BY <3>1, <3>2, Zenon DEF Abstract!abstractVars, Registered, IsActive, Key
  <2>6. CASE UNCHANGED vars
    BY <2>6, Zenon DEF vars, Abstract!abstractVars, Registered, IsActive, Key
  <2> QED BY <1>2, <2>1, <2>2, <2>3, <2>4, <2>5, <2>6, Zenon
          DEF Next, Future, Session, Abstract!Next
<1> QED BY <1>1, <1>2, Invariance, PTL DEF Spec, RefinesSubscriptions, Abstract!Spec

-----------------------------------------------------------------------------
(* The subscription manager.                                               *)

(***************************************************************************)
(* Every step of the manager is a step of PubSub, or leaves it alone.      *)
(***************************************************************************)
LEMMA ManagerStepsPubSub == ASSUME ManagerTypeOK, [ManagerNext]_allVars PROVE [Next]_vars
<1>1. NextIds \subseteq Ids
  BY Zenon DEF ManagerTypeOK, NextIds
<1>2. ASSUME NEW r \in Requests, AddAssign(r) PROVE [Next]_vars
  BY <1>1, <1>2, Zenon DEF AddAssign, Next, Handler
<1>3. ASSUME NEW r \in Requests, AddInsert(r) \/ AddSpawn(r) \/ TaskFinishes(r) \/ TaskCancelled(r)
      PROVE  [Next]_vars
  BY <1>3, Zenon DEF AddInsert, AddSpawn, TaskFinishes, TaskCancelled
<1>4. ASSUME NEW r \in Requests, Cancel(r) PROVE [Next]_vars
  BY <1>4, Zenon DEF Cancel, Next
<1>5. ASSUME NEW r \in Requests, FutureStep(r) \/ Subscribe(r) PROVE [Next]_vars
  BY <1>5, Zenon DEF FutureStep, Next
<1>6. ASSUME NEW s \in Sessions, Session(s) PROVE [Next]_vars
  BY <1>6, Zenon DEF Next
<1>7. CASE UNCHANGED allVars
  BY <1>7, Zenon DEF allVars
<1> QED BY <1>2, <1>3, <1>4, <1>5, <1>6, <1>7, Zenon DEF ManagerNext

(***************************************************************************)
(* Type correctness of the manager; the numeric counter wraps around.      *)
(***************************************************************************)
LEMMA ManagerTypeStep == ASSUME ManagerTypeOK, [ManagerNext]_allVars PROVE ManagerTypeOK'
<1>1. TypeOK'
  BY ManagerStepsPubSub, TypeStep, Zenon DEF ManagerTypeOK
<1>2. AdvanceCounter => current_id' \in Ids
  <2>1. (current_id + 1) % IdSpace \in 0 .. IdSpace - 1
    BY ManagerAssumption DEF ManagerTypeOK
  <2> QED BY <2>1, ManagerAssumption, Zenon DEF AdvanceCounter, ManagerTypeOK
<1> USE <1>1 DEF ManagerTypeOK
<1>3. ASSUME NEW r \in Requests, AddAssign(r) PROVE ManagerTypeOK'
  BY <1>2, <1>3, Zenon DEF AddAssign
<1>4. ASSUME NEW r \in Requests, AddInsert(r) PROVE ManagerTypeOK'
  BY <1>4, Zenon DEF AddInsert
<1>5. ASSUME NEW r \in Requests, AddSpawn(r) \/ TaskFinishes(r) \/ TaskCancelled(r)
      PROVE  ManagerTypeOK'
  BY <1>5, ZenonT(60) DEF AddSpawn, TaskFinishes, TaskCancelled
<1>6. ASSUME NEW r \in Requests, Cancel(r) PROVE ManagerTypeOK'
  BY <1>6, Zenon DEF Cancel
<1>7. CASE UNCHANGED managerVars
  BY <1>7, Zenon DEF managerVars
<1> QED BY <1>3, <1>4, <1>5, <1>6, <1>7, Zenon DEF ManagerNext, FutureStep, allVars

(***************************************************************************)
(* A sender in the map is stored under its call's own id, and its thread   *)
(* is past the insert; a call that is past the assignment has an id; a     *)
(* task about to be spawned, or running, has its sender in the map or has  *)
(* already been told to stop.                                              *)
(***************************************************************************)
SenderInv ==
  /\ \A i \in Ids : tx[i] # NoRequest => /\ subId[tx[i]] = i
                                         /\ adding[tx[i]] \in {"spawn", "returned"}
  /\ \A r \in Requests : /\ adding[r] \in {"insert", "spawn"} => subId[r] \in Ids
                         /\ task[r] = "running" => adding[r] = "returned" /\ subId[r] \in Ids
                         /\ (adding[r] = "spawn" \/ task[r] = "running") /\ signal[r] = "none"
                              => tx[subId[r]] = r

(***************************************************************************)
(* A handler that calls `add` inline has returned from it before the       *)
(* session can hold the entry, and so before anyone can unsubscribe it.    *)
(***************************************************************************)
InlineInv ==
  /\ \A r \in Inline : fut[r] = "adding" \/ unsub[r] # "none" => adding[r] = "returned"
  /\ \A s \in Sessions, k \in Keys : active[s][k] \in Inline => adding[active[s][k]] = "returned"
  /\ CancelReachesInlineTask

ManagerInv == ManagerTypeOK /\ RendezvousInv /\ SenderInv /\ InlineInv

(***************************************************************************)
(* Only AddAssign gives a call its id, and only before `add` has passed    *)
(* the assignment.                                                         *)
(***************************************************************************)
LEMMA SessionStepsKeepIds ==
  ASSUME NEW s \in Sessions, Session(s) PROVE UNCHANGED subId
BY Zenon DEF Session, Unsubscribe, OnDrop, CloseConnection, DropSession

(***************************************************************************)
(* The same for the steps of a call and of its future.                     *)
(***************************************************************************)
LEMMA CallStepsKeepIds ==
  ASSUME NEW r \in Requests, Future(r) \/ Subscribe(r) PROVE UNCHANGED subId
BY Zenon DEF Future, Poll, AddSubscription, Respond, DropFuture, Subscribe

(***************************************************************************)
(* Senders stay under their own ids: insert drops the one it replaces,     *)
(* cancel signals the one it removes.                                      *)
(***************************************************************************)
LEMMA SenderStep == ASSUME ManagerTypeOK, SenderInv, [ManagerNext]_allVars PROVE SenderInv'
<1> USE PubSubAssumption DEF SenderInv
<1>1. ASSUME NEW r \in Requests, AddAssign(r) PROVE SenderInv'
  <2>1. /\ adding[r] = "assign"
        /\ adding' = [adding EXCEPT ![r] = IF sub'[r] = "sinkNow" THEN "insert" ELSE "returned"]
        /\ UNCHANGED <<tx, signal, task>>
    BY <1>1, Zenon DEF AddAssign
  <2>2. \A q \in Requests \ {r} : subId'[q] = subId[q]
    BY <1>1, SMTT(30) DEF AddAssign, assign_id, Send, ManagerTypeOK, TypeOK
  <2>3. sub'[r] = "sinkNow" => subId'[r] \in Ids
    BY <1>1 DEF AddAssign, assign_id, Send, NextIds, ManagerTypeOK, TypeOK
  <2>4. \A i \in Ids : tx[i] # r
    BY <2>1, SMTT(30)
  <2>5. \A i \in Ids : tx'[i] # NoRequest => /\ subId'[tx'[i]] = i
                                             /\ adding'[tx'[i]] \in {"spawn", "returned"}
    BY <2>1, <2>2, <2>4, SMTT(30) DEF ManagerTypeOK
  <2> QED BY <2>1, <2>2, <2>3, <2>5 DEF ManagerTypeOK
<1>2. ASSUME NEW r \in Requests, AddInsert(r) PROVE SenderInv'
  BY <1>2 DEF AddInsert, vars, ManagerTypeOK
<1>3. ASSUME NEW r \in Requests, AddSpawn(r) PROVE SenderInv'
  BY <1>3, SMTT(30) DEF AddSpawn, vars, ManagerTypeOK
<1>4. ASSUME NEW r \in Requests, TaskFinishes(r) \/ TaskCancelled(r) PROVE SenderInv'
  BY <1>4, SMTT(30) DEF TaskFinishes, TaskCancelled, vars, ManagerTypeOK
<1>5. ASSUME NEW r \in Requests, Cancel(r) PROVE SenderInv'
  BY <1>5 DEF Cancel, UnsubscribeDone, ManagerTypeOK, TypeOK
<1>6. CASE UNCHANGED <<managerVars, subId>>
  BY <1>6, Zenon DEF managerVars
<1>7. CASE UNCHANGED allVars
  BY <1>6, <1>7, Zenon DEF allVars, vars
<1> QED BY <1>1, <1>2, <1>3, <1>4, <1>5, <1>6, <1>7, SessionStepsKeepIds, CallStepsKeepIds, Zenon
        DEF ManagerNext, FutureStep

(***************************************************************************)
(* The unsubscribe handler is called only for entries of a session's map.  *)
(***************************************************************************)
LEMMA UnsubscribedWereActive ==
  ASSUME TypeOK, NEW s \in Sessions, Session(s)
  PROVE  /\ UNCHANGED fut
         /\ \A r \in Requests : unsub'[r] # unsub[r] => \E k \in Keys : active[s][k] = r
         /\ \A r \in Requests : unsub'[r] = "done" => unsub[r] = "done"
         /\ \A q \in Sessions, k \in Keys : active'[q][k] \in {active[q][k], NoRequest}
<1>1. CASE \E k \in Keys : Unsubscribe(s, k)
  BY <1>1 DEF Unsubscribe, CallUnsubscribe, TypeOK
<1>2. CASE OnDrop(s) \/ CloseConnection(s)
  BY <1>2, Zenon DEF OnDrop, CloseConnection
<1>3. CASE DropSession(s)
  BY <1>3, SMTT(20) DEF DropSession, CallUnsubscribe, TypeOK, NoActive
<1> QED BY <1>1, <1>2, <1>3, Zenon DEF Session

(***************************************************************************)
(* The order of `add` and the request future of an inline handler.         *)
(***************************************************************************)
LEMMA InlineStep ==
  ASSUME ManagerInv, [ManagerNext]_allVars PROVE InlineInv'
<1> USE ManagerAssumption, PubSubAssumption DEF ManagerInv, InlineInv, CancelReachesInlineTask
<1> ManagerTypeOK /\ TypeOK
  BY Zenon DEF ManagerTypeOK
<1>1. ASSUME NEW r \in Requests, AddAssign(r) PROVE InlineInv'
  BY <1>1 DEF AddAssign, assign_id, Send, ManagerTypeOK
<1>2. ASSUME NEW r \in Requests, AddInsert(r) PROVE InlineInv'
  BY <1>2, Zenon DEF AddInsert, vars, ManagerTypeOK
<1>3. ASSUME NEW r \in Requests, AddSpawn(r) PROVE InlineInv'
  BY <1>3, Zenon DEF AddSpawn, vars, ManagerTypeOK
<1>4. ASSUME NEW r \in Requests, TaskFinishes(r) \/ TaskCancelled(r) PROVE InlineInv'
  BY <1>4, SMTT(30) DEF TaskFinishes, TaskCancelled, vars, ManagerTypeOK
<1>5. ASSUME NEW r \in Requests, Cancel(r) PROVE InlineInv'
  BY <1>5 DEF Cancel, UnsubscribeDone, SenderInv, ManagerTypeOK, TypeOK
<1>6. ASSUME NEW r \in Requests, FutureStep(r) PROVE InlineInv'
  <2>1. UNCHANGED managerVars /\ (r \in Inline => adding[r] = "returned")
    BY <1>6, SMTT(20) DEF FutureStep
  <2>2. CASE AddSubscription(r)
    <3> DEFINE s == SessionOf[r]  old == active[SessionOf[r]][Key(r)]
    <3>1. \A q \in Sessions, k \in Keys : active'[q][k] \in {active[q][k], r}
      BY <2>2, Zenon DEF AddSubscription, TypeOK
    <3>2. \A q \in Requests : unsub'[q] # unsub[q] => q = old /\ unsub'[q] = "pool"
      BY <2>2, Zenon DEF AddSubscription, CallUnsubscribe, TypeOK
    <3>3. old \in Inline => adding[old] = "returned"
      <4>1. Key(r) \in Keys /\ s \in Sessions
        BY <2>2, KeyInKeys, Zenon DEF AddSubscription, RendezvousInv
      <4> QED BY <4>1, Zenon
    <3>4. \A q \in Requests : fut'[q] = "adding" => fut[q] = "adding"
      BY <2>2, Zenon DEF AddSubscription, TypeOK
    <3>5. adding' = adding /\ task' = task /\ signal' = signal /\ Inline \subseteq Requests
      BY <2>1, Zenon DEF managerVars
    <3>6. \A q \in Inline : fut'[q] = "adding" \/ unsub'[q] # "none" => adding'[q] = "returned"
      BY <3>2, <3>3, <3>4, <3>5, Zenon
    <3>7. ASSUME NEW q \in Sessions, NEW k \in Keys, active'[q][k] \in Inline
          PROVE  adding'[active'[q][k]] = "returned"
      <4>1. CASE active'[q][k] = r
        BY <2>1, <3>5, <3>7, <4>1, Zenon
      <4>2. CASE active'[q][k] = active[q][k]
        BY <3>5, <3>7, <4>2, Zenon
      <4> QED BY <3>1, <4>1, <4>2, Zenon
    <3>8. CancelReachesInlineTask'
      <4>1. \A q \in Requests : unsub'[q] = "done" => unsub[q] = "done"
        BY <3>2, Zenon
      <4> QED BY <3>5, <4>1, Zenon
    <3> QED BY <3>6, <3>7, <3>8, Zenon
  <2>3. CASE Poll(r) \/ Respond(r) \/ DropFuture(r)
    <3>1. /\ active' = active /\ unsub' = unsub
          /\ adding' = adding /\ task' = task /\ signal' = signal /\ Inline \subseteq Requests
      <4>1. CASE Poll(r)
        BY <4>1, <2>1, Zenon DEF Poll, managerVars
      <4>2. CASE Respond(r)
        BY <4>2, <2>1, Zenon DEF Respond, managerVars
      <4>3. CASE DropFuture(r)
        BY <4>3, <2>1, Zenon DEF DropFuture, managerVars
      <4> QED BY <2>3, <4>1, <4>2, <4>3, Zenon
    <3>2. \A q \in Requests : q # r => fut'[q] = fut[q]
      BY <2>3, ZenonT(60) DEF Poll, Respond, DropFuture, TypeOK
    <3>3. ASSUME NEW q \in Inline, fut'[q] = "adding" \/ unsub'[q] # "none"
          PROVE  adding'[q] = "returned"
      <4>1. CASE q = r
        BY <2>1, <3>1, <4>1, Zenon
      <4>2. CASE q # r
        BY <3>1, <3>2, <3>3, <4>2, Zenon
      <4> QED BY <4>1, <4>2, Zenon
    <3>4. \A q \in Sessions, k \in Keys : active'[q][k] \in Inline => adding'[active'[q][k]] = "returned"
      BY <3>1, Zenon
    <3>5. CancelReachesInlineTask'
      BY <3>1, Zenon
    <3> QED BY <3>3, <3>4, <3>5, Zenon
  <2> QED BY <1>6, <2>2, <2>3, Zenon DEF FutureStep, Future
<1>7. ASSUME NEW r \in Requests, Subscribe(r), UNCHANGED managerVars PROVE InlineInv'
  BY <1>7, ZenonT(60) DEF Subscribe, managerVars, TypeOK
<1>8. ASSUME NEW s \in Sessions, Session(s), UNCHANGED managerVars PROVE InlineInv'
  <2>1. /\ fut' = fut
        /\ \A r \in Requests : unsub'[r] # unsub[r] => \E k \in Keys : active[s][k] = r
        /\ \A r \in Requests : unsub'[r] = "done" => unsub[r] = "done"
        /\ \A q \in Sessions, k \in Keys : active'[q][k] \in {active[q][k], NoRequest}
    BY <1>8, UnsubscribedWereActive, Zenon
  <2>2. /\ adding' = adding /\ task' = task /\ signal' = signal
        /\ Inline \subseteq Requests /\ NoRequest \notin Requests
    BY <1>8, Zenon DEF managerVars
  <2>3. ASSUME NEW r \in Inline, fut'[r] = "adding" \/ unsub'[r] # "none"
        PROVE  adding'[r] = "returned"
    <3>1. CASE unsub'[r] = unsub[r]
      BY <2>1, <2>2, <2>3, <3>1, Zenon
    <3>2. CASE unsub'[r] # unsub[r]
      <4>1. PICK k \in Keys : active[s][k] = r
        BY <2>1, <2>2, <3>2, Zenon
      <4> QED BY <2>2, <4>1, Zenon
    <3> QED BY <3>1, <3>2, Zenon
  <2>4. ASSUME NEW q \in Sessions, NEW k \in Keys, active'[q][k] \in Inline
        PROVE  adding'[active'[q][k]] = "returned"
    <3>1. active'[q][k] \in {active[q][k], NoRequest}
      BY <2>1, Zenon
    <3>2. active'[q][k] # NoRequest
      BY <2>2, <2>4, Zenon
    <3>3. active'[q][k] = active[q][k]
      BY <3>1, <3>2, Zenon
    <3> QED BY <2>2, <2>4, <3>3, Zenon
  <2>5. CancelReachesInlineTask'
    BY <2>1, <2>2, Zenon
  <2> QED BY <2>3, <2>4, <2>5, Zenon
<1>9. CASE UNCHANGED allVars
  BY <1>9, Zenon DEF allVars, vars, managerVars
<1> QED BY <1>1, <1>2, <1>3, <1>4, <1>5, <1>6, <1>7, <1>8, <1>9, Zenon DEF ManagerNext

(***************************************************************************)
(* The inductive invariant of SubscriptionManager.                         *)
(***************************************************************************)
THEOREM ManagerInvariance == ManagerSpec => []ManagerInv
<1>1. ManagerInit => ManagerInv
  <2> SUFFICES ASSUME ManagerInit PROVE ManagerInv
    BY Zenon
  <2>1. TypeOK
    BY PubSubAssumption, Zenon
       DEF ManagerInit, Init, TypeOK, NoActive, FutureStates, ChannelStates, HandlerStates, UnsubStates
  <2>2. ManagerTypeOK
    BY <2>1, ManagerAssumption, Zenon DEF ManagerInit, ManagerTypeOK
  <2>3. SenderInv
    BY Zenon DEF ManagerInit, SenderInv
  <2>4. InlineInv
    BY ManagerAssumption, PubSubAssumption, Zenon
       DEF ManagerInit, Init, InlineInv, CancelReachesInlineTask, NoActive
  <2>5. RendezvousInv
    BY Zenon DEF ManagerInit, Init, RendezvousInv
  <2> QED BY <2>2, <2>3, <2>4, <2>5, Zenon DEF ManagerInv
<1>2. ManagerInv /\ [ManagerNext]_allVars => ManagerInv'
  <2> SUFFICES ASSUME ManagerInv, [ManagerNext]_allVars PROVE ManagerInv'
    BY Zenon
  <2>1. RendezvousInv'
    BY ManagerStepsPubSub, RendezvousStep, Zenon DEF ManagerInv, ManagerTypeOK
  <2> QED BY <2>1, ManagerTypeStep, SenderStep, InlineStep, Zenon DEF ManagerInv
<1> QED BY <1>1, <1>2, PTL DEF ManagerSpec

(***************************************************************************)
(* The manager's threads take only the steps PubSub allows, so whatever is *)
(* proved of every behaviour of PubSub holds beside a manager as well.     *)
(***************************************************************************)
THEOREM ManagerImplementsPubSub == ManagerSpec => Spec
<1>1. ManagerInit => Init
  BY Zenon DEF ManagerInit
<1>2. ManagerTypeOK /\ [ManagerNext]_allVars => [Next]_vars
  BY ManagerStepsPubSub, Zenon
<1>3. ManagerInv => ManagerTypeOK
  BY Zenon DEF ManagerInv
<1> QED BY <1>1, <1>2, <1>3, ManagerInvariance, PTL DEF ManagerSpec, Spec

(***************************************************************************)
(* The consequence for the unsubscribe handler.                            *)
(***************************************************************************)
THEOREM ExactlyOnceBesideManager == ManagerSpec => []UnsubscribedOnce
BY ManagerImplementsPubSub, ExactlyOnce, PTL

(***************************************************************************)
(* No task is orphaned, however ids collide or wrap around: the manager    *)
(* holds the sender of every running task that was not told to stop.       *)
(***************************************************************************)
THEOREM TasksAreHeld == ManagerSpec => []NoOrphanTask
<1>1. ManagerInv => NoOrphanTask
  BY Zenon DEF ManagerInv, SenderInv, NoOrphanTask
<1> QED BY <1>1, ManagerInvariance, PTL

(***************************************************************************)
(* cancel reaches the task of every handler that calls `add` before it     *)
(* returns.                                                                *)
(***************************************************************************)
THEOREM InlineTasksAreReached == ManagerSpec => []CancelReachesInlineTask
<1>1. ManagerInv => CancelReachesInlineTask
  BY Zenon DEF ManagerInv, InlineInv
<1> QED BY <1>1, ManagerInvariance, PTL

(***************************************************************************)
(* The manager's state has its types: the numeric id provider stays within *)
(* the width of its counter, which wraps around.                           *)
(***************************************************************************)
THEOREM ManagerTypesHold == ManagerSpec => []ManagerTypeOK
<1>1. ManagerInv => ManagerTypeOK
  BY Zenon DEF ManagerInv
<1> QED BY <1>1, ManagerInvariance, PTL

-----------------------------------------------------------------------------
(***************************************************************************)
(* Ids are unique when they are numeric and the counter does not come      *)
(* round to one it has given out.                                          *)
(***************************************************************************)
UniqueIds == NumericIds /\ IsFiniteSet(Requests) /\ Cardinality(Requests) <= IdSpace

(* The calls whose `add` has taken an id, and the n-th id of the counter.  *)
Assigned == {r \in Requests : adding[r] # "assign"}

Counted(n) == IF FirstId + n < IdSpace THEN FirstId + n ELSE FirstId + n - IdSpace

(***************************************************************************)
(* The counter has advanced once per call, so that all ids in use are      *)
(* behind it and differ; an unsubscription under way was counted.          *)
(***************************************************************************)
UniqueInv ==
  /\ current_id = Counted(Cardinality(Assigned))
  /\ \A r \in Requests : subId[r] # NoId =>
       /\ adding[r] # "assign"
       /\ \E j \in 0 .. Cardinality(Assigned) - 1 : subId[r] = Counted(j)
  /\ \A r, q \in Requests : subId[r] # NoId /\ subId[r] = subId[q] => r = q
  /\ \A r \in Requests : unsub[r] # "none" => calls[r] # 0
  /\ OnlyOwnCancel

(* The counter, one step before the width of an id. *)
LEMMA WrapAround ==
  ASSUME NEW N \in Nat \ {0}, NEW x \in 0 .. N - 1
  PROVE  (x + 1) % N = IF x + 1 = N THEN 0 ELSE x + 1
BY SMT

(* While fewer ids than there are were given, the next one is new. *)
LEMMA CountedIsNew ==
  ASSUME NEW n \in 0 .. IdSpace - 1
  PROVE  /\ Counted(n) \in 0 .. IdSpace - 1
         /\ (Counted(n) + 1) % IdSpace = Counted(n + 1)
         /\ \A j \in 0 .. n - 1 : Counted(j) # Counted(n)
<1>1. IdSpace \in Nat \ {0} /\ FirstId \in 0 .. IdSpace - 1
  BY ManagerAssumption
<1>2. Counted(n) \in 0 .. IdSpace - 1
  BY <1>1 DEF Counted
<1>3. (Counted(n) + 1) % IdSpace = IF Counted(n) + 1 = IdSpace THEN 0 ELSE Counted(n) + 1
  BY <1>1, <1>2, WrapAround
<1>4. (IF Counted(n) + 1 = IdSpace THEN 0 ELSE Counted(n) + 1) = Counted(n + 1)
  BY <1>1 DEF Counted
<1>5. \A j \in 0 .. n - 1 : Counted(j) # Counted(n)
  BY <1>1 DEF Counted
<1> QED BY <1>2, <1>3, <1>4, <1>5

(* What a call of `add` does to the number of ids given out. *)
LEMMA AssignedGrows ==
  ASSUME UniqueIds, ManagerTypeOK, NEW r \in Requests, AddAssign(r)
  PROVE  /\ Cardinality(Assigned) \in 0 .. IdSpace - 1
         /\ Cardinality(Assigned)' = Cardinality(Assigned) + 1
<1>1. /\ r \notin Assigned /\ Assigned \in SUBSET (Requests \ {r})
      /\ Assigned' = Assigned \cup {r}
  BY DEF AddAssign, Assigned, ManagerTypeOK
<1>2. IsFiniteSet(Requests) /\ Cardinality(Requests) <= IdSpace /\ Cardinality(Requests) \in Nat
  BY FS_CardinalityType DEF UniqueIds
<1>3. IsFiniteSet(Requests \ {r}) /\ Cardinality(Requests \ {r}) = Cardinality(Requests) - 1
  BY <1>2, FS_RemoveElement
<1>4. IsFiniteSet(Assigned) /\ Cardinality(Assigned) <= Cardinality(Requests \ {r}) /\ Cardinality(Assigned) \in Nat
  BY <1>1, <1>3, FS_Subset, FS_CardinalityType
<1>5. Cardinality(Assigned \cup {r}) = Cardinality(Assigned) + 1
  BY <1>1, <1>4, FS_AddElement
<1> QED BY <1>1, <1>2, <1>3, <1>4, <1>5, ManagerAssumption

(***************************************************************************)
(* What the session's own steps may do to ids, calls and unsubscriptions.  *)
(***************************************************************************)
LEMMA CallsAreCounted ==
  ASSUME IInv, UNCHANGED managerVars,
         \/ \E r \in Requests : FutureStep(r) \/ Subscribe(r)
         \/ \E s \in Sessions : Session(s)
  PROVE  /\ UNCHANGED subId
         /\ \A q \in Requests : /\ calls'[q] = calls[q] \/ calls'[q] = calls[q] + 1
                                /\ unsub'[q] # unsub[q] => calls'[q] = calls[q] + 1
<1>1. TypeOK
  BY Zenon DEF IInv
<1>2. UNCHANGED subId
  BY SessionStepsKeepIds, CallStepsKeepIds, Zenon DEF FutureStep
<1>3. ASSUME NEW R, NEW how, CallUnsubscribe(R, how), NEW q \in Requests
      PROVE  /\ calls'[q] = calls[q] \/ calls'[q] = calls[q] + 1
             /\ unsub'[q] # unsub[q] => calls'[q] = calls[q] + 1
  BY <1>3, Zenon DEF CallUnsubscribe
<1>4. UNCHANGED <<calls, unsub>> \/ \E R, how : CallUnsubscribe(R, how)
  BY Zenon DEF FutureStep, Future, Poll, AddSubscription, Respond, DropFuture, Subscribe,
               Session, Unsubscribe, OnDrop, CloseConnection, DropSession
<1> QED BY <1>2, <1>3, <1>4, Zenon

(***************************************************************************)
(* A sender that insert finds, or that cancel uses, belongs to the call    *)
(* whose id it is looked up with.                                          *)
(***************************************************************************)
LEMMA FoundIsOwn ==
  ASSUME ManagerTypeOK, SenderInv, UniqueInv, NEW r \in Requests, subId[r] \in Ids
  PROVE  tx[subId[r]] \in {NoRequest, r}
<1> DEFINE q == tx[subId[r]]
<1>1. q \in Requests \cup {NoRequest}
  BY Zenon DEF ManagerTypeOK
<1>2. q # NoRequest => subId[q] = subId[r] /\ subId[r] # NoId
  BY PubSubAssumption, Zenon DEF SenderInv
<1> QED BY <1>1, <1>2, Zenon DEF UniqueInv

(***************************************************************************)
(* Ids stay unique, and signals stay with the calls they are for.          *)
(***************************************************************************)
LEMMA UniqueStep ==
  ASSUME UniqueIds, ManagerInv, IInv, IInv', UniqueInv, [ManagerNext]_allVars
  PROVE  UniqueInv'
<1>1. ManagerTypeOK /\ TypeOK /\ SenderInv
  BY Zenon DEF ManagerInv, ManagerTypeOK
<1>2. ASSUME NEW r \in Requests, AddAssign(r) PROVE UniqueInv'
  <2>1. PICK n \in 0 .. IdSpace - 1 : n = Cardinality(Assigned)
    BY <1>1, <1>2, AssignedGrows, Zenon
  <2>2. Cardinality(Assigned)' = n + 1
    BY <1>1, <1>2, <2>1, AssignedGrows
  <2>3. current_id = Counted(n) /\ current_id' = (current_id + 1) % IdSpace
    BY <1>2, <2>1, Zenon DEF UniqueIds, UniqueInv, AddAssign, AdvanceCounter
  <2>4. current_id' = Counted(n + 1)
    BY <2>3, CountedIsNew, SMTT(30)
  <2>5. /\ \A q \in Requests \ {r} : subId'[q] = subId[q] /\ adding'[q] = adding[q]
        /\ subId'[r] \in {current_id, NoId} /\ adding'[r] # "assign"
        /\ UNCHANGED <<calls, unsub, signal>>
    <3>1. subId[r] = NoId
      BY <1>2, Zenon DEF UniqueInv, AddAssign
    <3>2. PICK i \in NextIds : assign_id(r, i)
      BY <1>2, Zenon DEF AddAssign
    <3>3. i = current_id
      BY <3>2, Zenon DEF NextIds, UniqueIds
    <3>4. /\ subId' = [subId EXCEPT ![r] = i] \/ subId' = subId
          /\ UNCHANGED <<calls, unsub>>
      BY <3>2, Zenon DEF assign_id, Send
    <3>5. /\ \A q \in Requests \ {r} : adding'[q] = adding[q]
          /\ adding'[r] # "assign" /\ UNCHANGED signal
      BY <1>1, <1>2, Zenon DEF AddAssign, ManagerTypeOK
    <3> QED BY <1>1, <3>1, <3>3, <3>4, <3>5, Zenon DEF TypeOK
  <2>6. \A q \in Requests : subId[q] # NoId => /\ q # r
                                              /\ \E j \in 0 .. n - 1 : subId[q] = Counted(j)
    BY <1>2, <2>1, Zenon DEF UniqueInv, AddAssign
  <2>7. \A q \in Requests : subId[q] # NoId => subId[q] # current_id
    BY <2>3, <2>6, CountedIsNew, Zenon
  <2>8. \A q \in Requests : subId'[q] # NoId =>
          /\ adding'[q] # "assign"
          /\ \E j \in 0 .. n : subId'[q] = Counted(j)
    <3>1. n \in 0 .. n /\ \A j \in 0 .. n - 1 : j \in 0 .. n
      OBVIOUS
    <3>2. ASSUME NEW q \in Requests, subId'[q] # NoId, q # r
          PROVE  adding'[q] # "assign" /\ \E j \in 0 .. n : subId'[q] = Counted(j)
      BY <2>5, <2>6, <3>1, <3>2, Zenon DEF UniqueInv
    <3>3. subId'[r] # NoId => adding'[r] # "assign" /\ \E j \in 0 .. n : subId'[r] = Counted(j)
      BY <2>3, <2>5, <3>1, Zenon
    <3> QED BY <3>2, <3>3, Zenon
  <2>9. ASSUME NEW p \in Requests, NEW q \in Requests, subId'[p] # NoId, subId'[p] = subId'[q]
        PROVE  p = q
    <3>1. CASE p # r /\ q # r
      BY <2>5, <2>9, <3>1, Zenon DEF UniqueInv
    <3>2. CASE p = r \/ q = r
      <4>1. subId'[r] = current_id
        BY <2>5, <2>9, <3>2, Zenon
      <4> QED BY <2>5, <2>7, <2>9, <3>2, <4>1, Zenon
    <3> QED BY <3>1, <3>2, Zenon
  <2>10. \A q \in Requests : unsub'[q] # "none" => calls'[q] # 0
    BY <2>5, Zenon DEF UniqueInv
  <2>11. OnlyOwnCancel'
    BY <2>5, Zenon DEF UniqueInv, OnlyOwnCancel
  <2>12. 0 .. n = 0 .. Cardinality(Assigned)' - 1
    BY <2>2
  <2> QED BY <2>2, <2>4, <2>8, <2>9, <2>10, <2>11, <2>12, Zenon DEF UniqueInv
<1>3. ASSUME UNCHANGED <<subId, current_id>>,
             \A q \in Requests : (adding'[q] = "assign") <=> (adding[q] = "assign"),
             \A q \in Requests : unsub'[q] # "none" => calls'[q] # 0,
             OnlyOwnCancel'
      PROVE  UniqueInv'
  <2>1. Assigned' = Assigned
    BY <1>3, Zenon DEF Assigned
  <2>2. current_id' = Counted(Cardinality(Assigned'))
    BY <1>3, <2>1, Zenon DEF UniqueInv
  <2> QED BY <1>3, <2>1, <2>2, Zenon DEF UniqueInv
<1>4. ASSUME NEW r \in Requests, AddInsert(r) PROVE UniqueInv'
  <2>1. subId[r] \in Ids /\ adding[r] = "insert"
    BY <1>1, <1>4, Zenon DEF SenderInv, AddInsert
  <2>2. tx[subId[r]] = NoRequest
    <3>1. tx[subId[r]] # r
      BY <1>1, <2>1, PubSubAssumption DEF SenderInv
    <3> QED BY <1>1, <2>1, <3>1, FoundIsOwn, Zenon
  <2>3. \A q \in Requests : signal'[q] = signal[q]
    BY <1>4, <2>2, PubSubAssumption, Zenon DEF AddInsert
  <2>4. \A q \in Requests : (adding'[q] = "assign") <=> (adding[q] = "assign")
    BY <1>1, <1>4, <2>1 DEF AddInsert, ManagerTypeOK
  <2>5. UNCHANGED <<subId, current_id, calls, unsub>>
    BY <1>4, Zenon DEF AddInsert, vars
  <2> QED BY <1>3, <2>3, <2>4, <2>5, Zenon DEF UniqueInv, OnlyOwnCancel
<1>5. ASSUME NEW r \in Requests, AddSpawn(r) PROVE UniqueInv'
  <2>1. \A q \in Requests : (adding'[q] = "assign") <=> (adding[q] = "assign")
    BY <1>1, <1>5 DEF AddSpawn, ManagerTypeOK
  <2>2. UNCHANGED <<subId, current_id, calls, unsub, signal>>
    BY <1>5, Zenon DEF AddSpawn, vars
  <2> QED BY <1>3, <2>1, <2>2, Zenon DEF UniqueInv, OnlyOwnCancel
<1>6. ASSUME NEW r \in Requests, TaskFinishes(r) \/ TaskCancelled(r) PROVE UniqueInv'
  <2>1. UNCHANGED <<subId, current_id, calls, unsub, signal, adding>>
    BY <1>6, Zenon DEF TaskFinishes, TaskCancelled, vars
  <2> QED BY <1>3, <2>1, Zenon DEF UniqueInv, OnlyOwnCancel
<1>7. ASSUME NEW r \in Requests, Cancel(r) PROVE UniqueInv'
  <2>1. unsub[r] # "none" /\ UNCHANGED <<subId, current_id, calls, adding>>
    BY <1>7, Zenon DEF Cancel, UnsubscribeDone
  <2>2. calls[r] = 1 /\ subId[r] # NoId
    BY <2>1, Zenon DEF UniqueInv, IInv, UnsubscribedOnce, Registered
  <2>3. subId[r] \in Ids
    BY <1>1, <2>2, Zenon DEF TypeOK
  <2>4. tx[subId[r]] \in {NoRequest, r}
    BY <1>1, <2>3, FoundIsOwn, Zenon
  <2>5. \A q \in Requests : signal'[q] = signal[q] \/ (q = r /\ signal'[q] = "sent")
    BY <1>7, <2>4, PubSubAssumption, Zenon DEF Cancel
  <2>6. OnlyOwnCancel'
    BY <2>1, <2>2, <2>5, Zenon DEF UniqueInv, OnlyOwnCancel
  <2>7. \A q \in Requests : unsub'[q] # "none" => calls'[q] # 0
    <3>1. \A q \in Requests \ {r} : unsub'[q] = unsub[q]
      BY <1>1, <1>7, Zenon DEF Cancel, UnsubscribeDone, TypeOK
    <3>2. calls'[r] # 0
      BY <2>1, <2>2
    <3> QED BY <2>1, <3>1, <3>2, Zenon DEF UniqueInv
  <2> QED BY <1>3, <2>1, <2>6, <2>7, Zenon
<1>8. ASSUME UNCHANGED managerVars,
             \/ \E r \in Requests : FutureStep(r) \/ Subscribe(r)
             \/ \E s \in Sessions : Session(s)
      PROVE  UniqueInv'
  <2>1. /\ UNCHANGED subId
        /\ \A q \in Requests : /\ calls'[q] = calls[q] \/ calls'[q] = calls[q] + 1
                               /\ unsub'[q] # unsub[q] => calls'[q] = calls[q] + 1
    BY <1>8, CallsAreCounted, Zenon
  <2>2. \A q \in Requests : calls[q] \in {0, 1} /\ calls'[q] \in {0, 1}
    <3>1. UnsubscribedOnce /\ UnsubscribedOnce'
      BY Zenon DEF IInv
    <3>2. \A q \in Requests : calls[q] \in {0, 1}
      BY <3>1 DEF UnsubscribedOnce
    <3>3. \A q \in Requests : calls'[q] \in {0, 1}
      BY <3>1 DEF UnsubscribedOnce
    <3> QED BY <3>2, <3>3, Zenon
  <2>3. \A q \in Requests : calls[q] = 1 => calls'[q] = 1
    BY <2>1, <2>2
  <2>4. OnlyOwnCancel'
    BY <1>8, <2>3, SMTT(30) DEF managerVars, UniqueInv, OnlyOwnCancel
  <2>5. \A q \in Requests : unsub'[q] # "none" => calls'[q] # 0
    BY <2>1, <2>2 DEF UniqueInv
  <2> QED BY <1>3, <1>8, <2>1, <2>4, <2>5, Zenon DEF managerVars
<1>9. CASE UNCHANGED allVars
  <2>1. UNCHANGED <<subId, current_id, calls, unsub, signal, adding>>
    BY <1>9, Zenon DEF allVars, vars, managerVars
  <2> QED BY <1>3, <2>1, Zenon DEF UniqueInv, OnlyOwnCancel
<1>10. ASSUME NEW r \in Requests, FutureStep(r) PROVE UNCHANGED managerVars
  BY <1>10, Zenon DEF FutureStep
<1> QED BY <1>2, <1>4, <1>5, <1>6, <1>7, <1>8, <1>9, <1>10, Zenon DEF ManagerNext

(***************************************************************************)
(* cancel stops only what was unsubscribed: with unique ids a task gets    *)
(* the signal after the unsubscribe handler was called for its own         *)
(* subscription, and insert never displaces the sender of another.         *)
(***************************************************************************)
THEOREM CancelsOnlyItsOwn ==
  ASSUME UniqueIds PROVE ManagerSpec => []OnlyOwnCancel
<1>1. ManagerInit => UniqueInv
  <2> SUFFICES ASSUME ManagerInit PROVE UniqueInv
    BY Zenon
  <2>1. Assigned = {}
    BY Zenon DEF ManagerInit, Assigned
  <2>2. Cardinality(Assigned) = 0
    BY <2>1, FS_EmptySet
  <2>3. Counted(0) = FirstId
    BY ManagerAssumption DEF Counted
  <2>4. current_id = Counted(Cardinality(Assigned))
    BY <2>2, <2>3, Zenon DEF ManagerInit
  <2> QED BY <2>4, Zenon DEF UniqueInv, OnlyOwnCancel, ManagerInit, Init
<1>2. ManagerInv /\ IInv /\ IInv' /\ UniqueInv /\ [ManagerNext]_allVars => UniqueInv'
  BY UniqueStep, Zenon
<1>3. UniqueInv => OnlyOwnCancel
  BY Zenon DEF UniqueInv
<1> QED BY <1>1, <1>2, <1>3, ManagerInvariance, ManagerImplementsPubSub, Invariance, PTL DEF ManagerSpec
=============================================================================
