---------------------------- MODULE DuplexProofs ----------------------------
(***************************************************************************)
(* Proofs about Duplex, for any number of users, names and subscription    *)
(* ids, a sink of any capacity, and any number of notifications and odd    *)
(* messages from the server.                                               *)
(***************************************************************************)
EXTENDS Duplex, TLAPS
-----------------------------------------------------------------------------
(***************************************************************************)
(* The inductive invariant, and the steps that keep it: those on the way   *)
(* of a request, from a user through the client channel, the pending       *)
(* requests and the sink to the server, and those that handle a message of *)
(* the server.                                                             *)
(***************************************************************************)

(***************************************************************************)
(* Id i was given to user u (to no user, for an unsubscribe request): it   *)
(* is pending for u, or no longer pending.                                 *)
(***************************************************************************)
Given(i, u) == i \in DOMAIN pending /\ pending[i] \in {u, NoUser}

Notes == {<<"note", b, k>> : b \in Subscribers, k \in 1 .. MaxNotes}

(***************************************************************************)
(* Requests on their way: each carries the id its user was given.          *)
(***************************************************************************)
GoodRequest(q) ==
  \/ q.kind = "notify" /\ q.id = NoRequestId
  \/ q.kind = "call" /\ q.user \in Calls /\ Given(q.id, q.user)
  \/ q.kind = "subscribe" /\ q.user \in Subscribers /\ Given(q.id, q.user)
  \/ q.kind = "accepted" /\ q.user \in Subscribers /\ Given(q.id, q.user) /\ q.sid \in Sids
  \/ q.kind = "unsubscribe" /\ q.user \in Subscribers /\ Given(q.id, NoUser)

GoodRequests ==
  {q \in [kind : {"notify", "call", "subscribe", "accepted", "unsubscribe"},
          id : Nat \cup {NoRequestId}, user : Users, sid : Sids \cup {NoSid}] : GoodRequest(q)}

(***************************************************************************)
(* Messages on their way: a notification of a subscription, a message      *)
(* without an id, or the answer to the user its id was given to.           *)
(***************************************************************************)
GoodMessage(m) ==
  \/ m.id = NoRequestId /\ m.method = NoName
  \/ m.id = NoRequestId /\ m.method \in Names /\ m.sid \in Sids /\ m.value \in Notes
  \/ /\ m.method = NoName
     /\ \/ \E u \in Calls : Given(m.id, u) /\ m.value \in {<<"ok", u>>, <<"err", u>>}
        \/ \E u \in Subscribers :
             /\ Given(m.id, u)
             /\ \/ m.value = <<"err", u>>
                \/ \E x \in Sids : m.value = <<"sid", x>>
        \/ Given(m.id, NoUser)

Payloads ==
  Values \cup {<<"sid", x>> : x \in Sids} \cup {<<"err", NoUser>>, <<"garbage">>}

GoodMessages ==
  {m \in [id : Nat \cup {NoRequestId}, value : Payloads, method : Names \cup {NoName},
          sid : Sids \cup {NoSid}] : GoodMessage(m)}

(***************************************************************************)
(* The types, with what is on its way in either direction.                 *)
(***************************************************************************)
TrafficInv ==
  /\ outgoing \in Seq(GoodRequests) /\ sink \in Seq(GoodRequests)
  /\ requests \subseteq GoodRequests
  /\ wire \in Seq(GoodMessages) /\ incoming \in Seq(GoodMessages)

DuplexTypeOK ==
  /\ next_id \in Nat
  /\ pending \in [0 .. next_id - 1 -> Calls \cup Subscribers \cup {NoUser}]
  /\ subscriptions \in [MapKeys -> Subscribers \cup {NoUser}]
  /\ queue \in Seq(Users)
  /\ user \in [Users -> {"idle", "waiting", "done", "failed", "gone"}]
  /\ got \in [Users -> Seq(Values)]
  /\ live \in [Subscribers -> Sids \cup {NoSid}]
  /\ notes \in 0 .. MaxNotes

(***************************************************************************)
(* Where a user is: in the client channel, pending, or in the map, in one  *)
(* of them only and there only once, and then it has asked and its future  *)
(* or stream is open or was dropped by the user.                           *)
(***************************************************************************)
Open == {"waiting", "gone"}

PlaceInv ==
  /\ \A i, j \in DOMAIN queue : queue[i] = queue[j] => i = j
  /\ \A i \in DOMAIN queue : /\ user[queue[i]] # "idle"
                             /\ queue[i] \notin Notifiers => user[queue[i]] \in Open
                             /\ \A j \in DOMAIN pending : pending[j] # queue[i]
                             /\ \A k \in MapKeys : subscriptions[k] # queue[i]
  /\ \A i \in DOMAIN pending : pending[i] # NoUser => user[pending[i]] \in Open
  /\ \A i, j \in DOMAIN pending : pending[i] = pending[j] /\ pending[i] # NoUser => i = j
  /\ MapHoldsOpenStreams

(***************************************************************************)
(* A call that has not been answered has received nothing.                 *)
(***************************************************************************)
AnswerInv ==
  /\ OwnAnswer
  /\ \A c \in Calls : user[c] \in {"idle", "waiting"} => got[c] = <<>>

DuplexInv == DuplexTypeOK /\ TrafficInv /\ PlaceInv /\ AnswerInv

-----------------------------------------------------------------------------
(***************************************************************************)
(* An id given to a user stays given to it; so messages stay good.         *)
(***************************************************************************)
PendingShrinks ==
  /\ DOMAIN pending \subseteq DOMAIN pending'
  /\ \A i \in DOMAIN pending : pending'[i] \in {pending[i], NoUser}

LEMMA GoodStays ==
  ASSUME PendingShrinks
  PROVE  /\ GoodRequests \subseteq GoodRequests'
         /\ GoodMessages \subseteq GoodMessages'
         /\ \A s \in Seq(GoodRequests) : s \in Seq(GoodRequests')
         /\ \A s \in Seq(GoodMessages) : s \in Seq(GoodMessages')
<1>1. ASSUME NEW i, NEW u, Given(i, u) PROVE Given(i, u)'
  BY <1>1, Zenon DEF Given, PendingShrinks
<1>2. GoodRequests \subseteq GoodRequests'
  BY <1>1, Zenon DEF GoodRequests, GoodRequest
<1>3. ASSUME NEW m, GoodMessage(m) PROVE GoodMessage(m)'
  BY <1>1, <1>3, Zenon DEF GoodMessage
<1>4. GoodMessages \subseteq GoodMessages'
  BY <1>3, Zenon DEF GoodMessages
<1> QED BY <1>2, <1>4

(***************************************************************************)
(* Sequences at their ends.                                                *)
(***************************************************************************)
LEMMA TailOfSeq ==
  ASSUME NEW S, NEW s \in Seq(S), s # <<>>
  PROVE  /\ Head(s) \in S /\ Tail(s) \in Seq(S)
         /\ 1 \in DOMAIN s /\ Head(s) = s[1]
         /\ \A i \in DOMAIN Tail(s) : i + 1 \in DOMAIN s /\ i \in Nat \ {0} /\ Tail(s)[i] = s[i + 1]
OBVIOUS

(***************************************************************************)
(* Appending keeps a sequence over its set, with one new last element.     *)
(***************************************************************************)
LEMMA AppendToSeq ==
  ASSUME NEW S, NEW s \in Seq(S), NEW e \in S
  PROVE  /\ Append(s, e) \in Seq(S)
         /\ \A i \in DOMAIN Append(s, e) : \/ i \in DOMAIN s /\ Append(s, e)[i] = s[i]
                                           \/ i = Len(s) + 1 /\ Append(s, e)[i] = e
         /\ Len(s) + 1 \notin DOMAIN s
OBVIOUS

(***************************************************************************)
(* Steps that leave what the invariant speaks of alone.                    *)
(***************************************************************************)
ControlStep ==
  UNCHANGED <<next_id, pending, subscriptions, queue, user, got, live, notes,
              outgoing, sink, requests, wire, incoming>>

LEMMA ControlSteps ==
  \/ DropHandles \/ NoMoreRequests \/ StreamPending \/ IncomingHandled \/ PollAgain
  \/ ServerCloses \/ UNCHANGED linkVars
  => ControlStep
BY Zenon DEF DropHandles, NoMoreRequests, StreamPending, IncomingHandled, PollAgain,
       ServerCloses, linkVars, duplexVars, serverVars, ControlStep

(***************************************************************************)
(* So they keep the invariant.                                             *)
(***************************************************************************)
LEMMA ControlKeeps == ASSUME DuplexInv, ControlStep PROVE DuplexInv'
<1>1. /\ GoodRequests' = GoodRequests
      /\ GoodMessages' = GoodMessages
  BY DEF ControlStep, GoodRequests, GoodRequest, GoodMessages, GoodMessage, Given
<1>2. TrafficInv'
  BY <1>1, Zenon DEF DuplexInv, TrafficInv, ControlStep
<1>3. DuplexTypeOK'
  BY Zenon DEF DuplexInv, DuplexTypeOK, ControlStep
<1>4. PlaceInv'
  BY Zenon DEF DuplexInv, PlaceInv, MapHoldsOpenStreams, Open, ControlStep
<1>5. AnswerInv'
  BY Zenon DEF DuplexInv, AnswerInv, OwnAnswer, ControlStep
<1> QED BY <1>2, <1>3, <1>4, <1>5, Zenon DEF DuplexInv

(***************************************************************************)
(* A user asks, or gives up.                                               *)
(***************************************************************************)
LEMMA AskKeeps == ASSUME DuplexInv, NEW u \in Users, Ask(u) PROVE DuplexInv'
<1> USE DEF DuplexInv
<1>1. /\ UNCHANGED <<next_id, pending, subscriptions, got, live, notes, outgoing, sink,
                     requests, wire, incoming>>
      /\ user[u] = "idle"
  BY Zenon DEF Ask, serverVars
<1>2. TrafficInv'
  <2>1. GoodRequests' = GoodRequests /\ GoodMessages' = GoodMessages
    BY <1>1, Zenon DEF GoodRequests, GoodRequest, GoodMessages, GoodMessage, Given
  <2> QED BY <1>1, <2>1, Zenon DEF TrafficInv
<1>3. /\ queue' \in Seq(Users)
      /\ user' \in [Users -> {"idle", "waiting", "done", "failed", "gone"}]
      /\ \A v \in Users \ {u} : user'[v] = user[v]
      /\ user'[u] # "idle"
      /\ \/ queue' = Append(queue, u) /\ (u \notin Notifiers => user'[u] = "waiting")
         \/ queue' = queue
  <2>1. CASE phase # "ended"
    <3>1. /\ queue' = Append(queue, u)
          /\ user' = [user EXCEPT ![u] = IF u \in Notifiers THEN "done" ELSE "waiting"]
      BY <2>1, Zenon DEF Ask
    <3>2. queue' \in Seq(Users)
      BY <3>1, AppendToSeq, Zenon DEF DuplexTypeOK
    <3> QED BY <3>1, <3>2, Zenon DEF DuplexTypeOK
  <2>2. CASE phase = "ended"
    BY <2>2, Zenon DEF Ask, DuplexTypeOK
  <2> QED BY <2>1, <2>2, Zenon
<1>4. DuplexTypeOK'
  BY <1>1, <1>3, Zenon DEF DuplexTypeOK
<1>5. /\ \A i \in DOMAIN queue : queue[i] # u /\ queue[i] \in Users
      /\ \A i \in DOMAIN pending : pending[i] # u
      /\ \A k \in MapKeys : subscriptions[k] # u
  <2>1. u # NoUser
    BY DuplexAssumption, Zenon
  <2>2. \A i \in DOMAIN queue : queue[i] \in Users
    BY DEF DuplexTypeOK
  <2> QED BY <1>1, <2>1, <2>2 DEF PlaceInv, MapHoldsOpenStreams, Open
<1>6. PlaceInv'
  <2>1. \A i \in DOMAIN queue' : \/ i \in DOMAIN queue /\ queue'[i] = queue[i]
                                 \/ /\ i = Len(queue) + 1 /\ i \notin DOMAIN queue
                                    /\ queue'[i] = u /\ (u \notin Notifiers => user'[u] \in Open)
    <3>1. CASE queue' = Append(queue, u) /\ (u \notin Notifiers => user'[u] = "waiting")
      BY <3>1, AppendToSeq DEF DuplexTypeOK, Open
    <3>2. CASE queue' = queue
      BY <3>2, Zenon
    <3> QED BY <1>3, <3>1, <3>2, Zenon
  <2>2. \A v \in Users : user[v] \in Open => user'[v] \in Open
    BY <1>1, <1>3, Zenon DEF Open
  <2>3. \A i, j \in DOMAIN queue' : queue'[i] = queue'[j] => i = j
    BY <1>5, <2>1 DEF PlaceInv
  <2>4. \A i \in DOMAIN queue' : /\ user'[queue'[i]] # "idle"
                                 /\ queue'[i] \notin Notifiers => user'[queue'[i]] \in Open
    BY <1>3, <1>5, <2>1, <2>2, Zenon DEF PlaceInv, Open
  <2>5. \A i \in DOMAIN queue' : /\ \A j \in DOMAIN pending' : pending'[j] # queue'[i]
                                 /\ \A k \in MapKeys : subscriptions'[k] # queue'[i]
    BY <1>1, <1>5, <2>1 DEF PlaceInv
  <2>6. \A i \in DOMAIN pending' : pending'[i] # NoUser => user'[pending'[i]] \in Open
    BY <1>1, <2>2, ZenonT(30) DEF PlaceInv, DuplexTypeOK, Users
  <2>7. MapHoldsOpenStreams'
    BY <1>1, <2>2, Zenon DEF PlaceInv, MapHoldsOpenStreams, DuplexTypeOK, Users, Open
  <2> QED BY <1>1, <2>3, <2>4, <2>5, <2>6, <2>7, Zenon DEF PlaceInv, Open
<1>7. AnswerInv'
  BY <1>1, <1>3, Zenon DEF AnswerInv, OwnAnswer, Users
<1> QED BY <1>2, <1>4, <1>6, <1>7, Zenon

(***************************************************************************)
(* A user that gives up keeps its place: its entry is found later.         *)
(***************************************************************************)
LEMMA GiveUpKeeps == ASSUME DuplexInv, NEW u \in Users, GiveUp(u) PROVE DuplexInv'
<1> USE DEF DuplexInv
<1>1. /\ UNCHANGED <<next_id, pending, subscriptions, queue, got, live, notes, outgoing,
                     sink, requests, wire, incoming>>
      /\ user[u] = "waiting"
      /\ user' = [user EXCEPT ![u] = "gone"]
  BY Zenon DEF GiveUp, serverVars
<1>2. TrafficInv'
  <2>1. GoodRequests' = GoodRequests /\ GoodMessages' = GoodMessages
    BY <1>1, Zenon DEF GoodRequests, GoodRequest, GoodMessages, GoodMessage, Given
  <2> QED BY <1>1, <2>1, Zenon DEF TrafficInv
<1>3. DuplexTypeOK'
  BY <1>1, Zenon DEF DuplexTypeOK
<1>4. \A v \in Users : /\ user[v] \in Open => user'[v] \in Open
                       /\ user'[v] = "idle" => user[v] = "idle"
  BY <1>1, Zenon DEF DuplexTypeOK, Open
<1>5. \A i \in DOMAIN queue : queue[i] \in Users
  BY DEF DuplexTypeOK
<1>6. PlaceInv'
  BY <1>1, <1>4, <1>5 DEF PlaceInv, MapHoldsOpenStreams, DuplexTypeOK, Users, Open
<1>7. AnswerInv'
  BY <1>1 DEF AnswerInv, OwnAnswer, DuplexTypeOK
<1> QED BY <1>2, <1>3, <1>6, <1>7, Zenon

(***************************************************************************)
(* The task ends: nobody is anywhere any more.                             *)
(***************************************************************************)
LEMMA EndKeeps == ASSUME DuplexInv, End PROVE DuplexInv'
<1> USE DEF DuplexInv
<1>1. PendingShrinks
  BY Zenon DEF End, PendingShrinks
<1>2. TrafficInv'
  <2>1. UNCHANGED <<sink, requests, wire>> /\ outgoing' = <<>> /\ incoming' = <<>>
    BY Zenon DEF End, serverVars
  <2> QED BY <1>1, <2>1, GoodStays DEF TrafficInv
<1>3. DuplexTypeOK'
  BY DEF End, serverVars, DuplexTypeOK
<1>4. PlaceInv'
  BY DEF End, PlaceInv, MapHoldsOpenStreams
<1>5. AnswerInv'
  BY Zenon DEF End, AnswerInv, OwnAnswer, Users
<1> QED BY <1>2, <1>3, <1>4, <1>5, Zenon

(***************************************************************************)
(* The next id is new, and it is given to the user it is taken for.        *)
(***************************************************************************)
LEMMA IdTaken ==
  ASSUME DuplexTypeOK, NEW u \in Calls \cup Subscribers \cup {NoUser}, TakeId(u)
  PROVE  /\ PendingShrinks
         /\ next_id' \in Nat
         /\ pending' \in [0 .. next_id' - 1 -> Calls \cup Subscribers \cup {NoUser}]
         /\ next_id \in DOMAIN pending'
         /\ next_id \notin DOMAIN pending
         /\ \A i \in DOMAIN pending' : \/ i \in DOMAIN pending /\ pending'[i] = pending[i]
                                       \/ i = next_id /\ pending'[i] = u
<1>1. DOMAIN pending = 0 .. next_id - 1 /\ next_id \in Nat
  BY Zenon DEF DuplexTypeOK
<1>2. DOMAIN pending' = 0 .. next_id /\ next_id' = next_id + 1
  BY Zenon DEF TakeId
<1>3. \A i \in 0 .. next_id : pending'[i] = IF i = next_id THEN u ELSE pending[i]
  BY Zenon DEF TakeId
<1>4. pending' \in [0 .. next_id' - 1 -> Calls \cup Subscribers \cup {NoUser}]
  BY <1>1 DEF TakeId, DuplexTypeOK
<1>5. \A i \in 0 .. next_id : i \in 0 .. next_id - 1 \/ i = next_id
  BY <1>1
<1>6. \A i \in DOMAIN pending' : \/ i \in DOMAIN pending /\ pending'[i] = pending[i]
                                 \/ i = next_id /\ pending'[i] = u
  BY <1>1, <1>2, <1>3, <1>5, Zenon
<1>7. DOMAIN pending \subseteq DOMAIN pending' /\ next_id \notin DOMAIN pending
  BY <1>1, <1>2
<1>8. next_id' \in Nat /\ next_id \in DOMAIN pending'
  BY <1>1, <1>2
<1> QED BY <1>4, <1>6, <1>7, <1>8, Zenon DEF PendingShrinks

(***************************************************************************)
(* A message is taken from the client channel.                             *)
(***************************************************************************)
LEMMA TakeRequestKeeps == ASSUME DuplexInv, TakeRequest PROVE DuplexInv'
<1> USE DEF DuplexInv
<1>1. /\ UNCHANGED <<subscriptions, user, got, live, notes, sink, requests, wire, incoming>>
      /\ queue # <<>> /\ queue' = Tail(queue)
  BY Zenon DEF TakeRequest, serverVars
<1>0. PICK u : u = Head(queue)
  BY Zenon
<1>2. /\ queue \in Seq(Users) /\ u \in Users /\ queue' \in Seq(Users)
      /\ 1 \in DOMAIN queue /\ u = queue[1]
      /\ \A i \in DOMAIN queue' : /\ i + 1 \in DOMAIN queue /\ i \in Nat \ {0}
                                  /\ queue'[i] = queue[i + 1] /\ queue'[i] # u
  <2>1. queue \in Seq(Users)
    BY Zenon DEF DuplexTypeOK
  <2>2. /\ u \in Users /\ Tail(queue) \in Seq(Users) /\ 1 \in DOMAIN queue /\ u = queue[1]
        /\ \A i \in DOMAIN Tail(queue) :
             i + 1 \in DOMAIN queue /\ i \in Nat \ {0} /\ Tail(queue)[i] = queue[i + 1]
    BY <1>0, <1>1, <2>1, TailOfSeq
  <2>3. \A i \in DOMAIN Tail(queue) : i + 1 # 1
    BY <2>2
  <2> QED BY <1>1, <2>1, <2>2, <2>3, Zenon DEF PlaceInv
<1>3. \/ /\ u \in Notifiers
         /\ outgoing' = Append(outgoing, Request("notify", NoRequestId, u))
         /\ UNCHANGED <<next_id, pending>>
      \/ /\ u \in Calls \cup Subscribers
         /\ outgoing' = Append(outgoing,
              Request(IF u \in Calls THEN "call" ELSE "subscribe", next_id, u))
         /\ TakeId(u)
  BY <1>0, Zenon DEF TakeRequest
<1>4. \A i, j \in DOMAIN queue' : queue'[i] = queue'[j] => i = j
  BY <1>2, SMTT(30) DEF PlaceInv
<1>5. AnswerInv'
  BY <1>1, Zenon DEF AnswerInv, OwnAnswer
<1>6. CASE /\ u \in Notifiers
           /\ outgoing' = Append(outgoing, Request("notify", NoRequestId, u))
           /\ UNCHANGED <<next_id, pending>>
  <2>1. Request("notify", NoRequestId, u) \in GoodRequests
    BY <1>2, Zenon DEF Request, GoodRequests, GoodRequest
  <2>2. GoodRequests' = GoodRequests /\ GoodMessages' = GoodMessages
    BY <1>6 DEF GoodRequests, GoodRequest, GoodMessages, GoodMessage, Given
  <2>3. TrafficInv'
    BY <1>1, <1>6, <2>1, <2>2, AppendToSeq, Zenon DEF TrafficInv
  <2>4. DuplexTypeOK'
    BY <1>1, <1>2, <1>6, Zenon DEF DuplexTypeOK
  <2>5. PlaceInv'
    BY <1>1, <1>2, <1>4, <1>6 DEF PlaceInv, MapHoldsOpenStreams
  <2> QED BY <1>5, <2>3, <2>4, <2>5, Zenon
<1>7. CASE /\ u \in Calls \cup Subscribers
           /\ outgoing' = Append(outgoing,
                Request(IF u \in Calls THEN "call" ELSE "subscribe", next_id, u))
           /\ TakeId(u)
  <2>1. /\ PendingShrinks
        /\ next_id' \in Nat
        /\ pending' \in [0 .. next_id' - 1 -> Calls \cup Subscribers \cup {NoUser}]
        /\ next_id \in DOMAIN pending'
        /\ next_id \notin DOMAIN pending
        /\ \A i \in DOMAIN pending' : \/ i \in DOMAIN pending /\ pending'[i] = pending[i]
                                      \/ i = next_id /\ pending'[i] = u
    BY <1>7, IdTaken, Zenon
  <2>2. PICK q : q = Request(IF u \in Calls THEN "call" ELSE "subscribe", next_id, u)
    BY Zenon
  <2>7. q \in GoodRequests'
    <3>1. next_id \in Nat /\ pending'[next_id] = u
      BY <2>1, Zenon DEF DuplexTypeOK
    <3>2. q.id = next_id /\ q.user = u /\ q.kind \in {"call", "subscribe"} /\ (q.kind = "call" <=> u \in Calls)
      BY <2>2, Zenon DEF Request
    <3>3. GoodRequest(q)'
      BY <1>7, <2>1, <3>1, <3>2, Zenon DEF GoodRequest, Given
    <3>4. q \in [kind : {"notify", "call", "subscribe", "accepted", "unsubscribe"},
                 id : Nat \cup {NoRequestId}, user : Users, sid : Sids \cup {NoSid}]
      BY <1>2, <2>2, <3>1, Zenon DEF Request
    <3> QED BY <3>3, <3>4, Zenon DEF GoodRequests
  <2>3. TrafficInv'
    <3>1. outgoing \in Seq(GoodRequests')
      BY <2>1, GoodStays, Zenon DEF TrafficInv
    <3>2. outgoing' \in Seq(GoodRequests')
      BY <1>7, <2>2, <2>7, <3>1, AppendToSeq, Zenon
    <3> QED BY <1>1, <2>1, <3>2, GoodStays, Zenon DEF TrafficInv
  <2>4. DuplexTypeOK'
    BY <1>1, <1>2, <2>1, Zenon DEF DuplexTypeOK
  <2>5. /\ u # NoUser /\ user[u] \in Open
        /\ \A i \in DOMAIN pending : pending[i] # u
        /\ \A k \in MapKeys : subscriptions[k] # u
    BY <1>2, <1>7, DuplexAssumption, Zenon DEF PlaceInv
  <2>6. PlaceInv'
    <3>1. \A i \in DOMAIN queue' : /\ user'[queue'[i]] # "idle"
                                   /\ queue'[i] \notin Notifiers => user'[queue'[i]] \in Open
                                   /\ \A j \in DOMAIN pending' : pending'[j] # queue'[i]
                                   /\ \A k \in MapKeys : subscriptions'[k] # queue'[i]
      BY <1>1, <1>2, <2>1, SMTT(30) DEF PlaceInv
    <3>2. \A i \in DOMAIN pending' : pending'[i] # NoUser => user'[pending'[i]] \in Open
      BY <1>1, <2>1, <2>5, Zenon DEF PlaceInv
    <3>3. \A i, j \in DOMAIN pending' :
            pending'[i] = pending'[j] /\ pending'[i] # NoUser => i = j
      BY <2>1, <2>5 DEF PlaceInv
    <3>4. MapHoldsOpenStreams'
      BY <1>1, <2>1, <2>5 DEF PlaceInv, MapHoldsOpenStreams
    <3> QED BY <1>4, <3>1, <3>2, <3>3, <3>4, Zenon DEF PlaceInv
  <2> QED BY <1>5, <2>3, <2>4, <2>6, Zenon
<1> QED BY <1>3, <1>6, <1>7, Zenon

(***************************************************************************)
(* What is on its way moves, is answered or is added to; ids, the map and  *)
(* the users are left alone.                                               *)
(***************************************************************************)
UsersUntouched == UNCHANGED <<next_id, pending, subscriptions, queue, user, got>>

LEMMA TrafficKeeps ==
  ASSUME DuplexInv, UsersUntouched,
         outgoing' \in Seq(GoodRequests), sink' \in Seq(GoodRequests),
         requests' \subseteq GoodRequests,
         wire' \in Seq(GoodMessages), incoming' \in Seq(GoodMessages),
         live' \in [Subscribers -> Sids \cup {NoSid}], notes' \in 0 .. MaxNotes
  PROVE  DuplexInv'
<1>1. GoodRequests' = GoodRequests /\ GoodMessages' = GoodMessages
  BY Zenon DEF UsersUntouched, GoodRequests, GoodRequest, GoodMessages, GoodMessage, Given
<1>2. TrafficInv'
  BY <1>1, Zenon DEF TrafficInv
<1>3. DuplexTypeOK'
  BY Zenon DEF DuplexInv, DuplexTypeOK, UsersUntouched
<1>4. PlaceInv'
  BY Zenon DEF DuplexInv, PlaceInv, MapHoldsOpenStreams, UsersUntouched
<1>5. AnswerInv'
  BY Zenon DEF DuplexInv, AnswerInv, OwnAnswer, UsersUntouched
<1> QED BY <1>2, <1>3, <1>4, <1>5, SMTT(20) DEF DuplexInv

(***************************************************************************)
(* The moves of a message from one queue to the next are of that kind.     *)
(***************************************************************************)
LEMMA MoveKeeps ==
  ASSUME DuplexInv, ReadMessage \/ SendRequest \/ SinkWrites
  PROVE  DuplexInv'
<1>1. /\ outgoing \in Seq(GoodRequests) /\ sink \in Seq(GoodRequests)
      /\ requests \subseteq GoodRequests
      /\ wire \in Seq(GoodMessages) /\ incoming \in Seq(GoodMessages)
      /\ live \in [Subscribers -> Sids \cup {NoSid}] /\ notes \in 0 .. MaxNotes
  BY Zenon DEF DuplexInv, TrafficInv, DuplexTypeOK
<1>2. CASE ReadMessage
  <2>1. /\ wire # <<>> /\ wire' = Tail(wire) /\ incoming' = Append(incoming, Head(wire))
        /\ UNCHANGED <<outgoing, sink, requests, live, notes>> /\ UsersUntouched
    BY <1>2, Zenon DEF ReadMessage, UsersUntouched
  <2>2. Head(wire) \in GoodMessages /\ wire' \in Seq(GoodMessages)
    BY <1>1, <2>1, TailOfSeq, Zenon
  <2>3. incoming' \in Seq(GoodMessages)
    BY <1>1, <2>1, <2>2, AppendToSeq, Zenon
  <2> QED BY <1>1, <2>1, <2>2, <2>3, TrafficKeeps, Zenon
<1>3. CASE SendRequest
  <2>1. /\ outgoing # <<>> /\ outgoing' = Tail(outgoing) /\ sink' = Append(sink, Head(outgoing))
        /\ UNCHANGED <<requests, wire, incoming, live, notes>> /\ UsersUntouched
    BY <1>3, Zenon DEF SendRequest, serverVars, UsersUntouched
  <2>2. Head(outgoing) \in GoodRequests /\ outgoing' \in Seq(GoodRequests)
    BY <1>1, <2>1, TailOfSeq, Zenon
  <2>3. sink' \in Seq(GoodRequests)
    BY <1>1, <2>1, <2>2, AppendToSeq, Zenon
  <2> QED BY <1>1, <2>1, <2>2, <2>3, TrafficKeeps, Zenon
<1>4. CASE SinkWrites
  <2>1. /\ sink # <<>> /\ sink' = Tail(sink) /\ requests' \subseteq requests \cup {Head(sink)}
        /\ UNCHANGED <<outgoing, wire, incoming, live, notes>> /\ UsersUntouched
    BY <1>4, Zenon DEF SinkWrites, UsersUntouched
  <2>2. Head(sink) \in GoodRequests /\ sink' \in Seq(GoodRequests)
    BY <1>1, <2>1, TailOfSeq, Zenon
  <2>3. requests' \subseteq GoodRequests
    BY <1>1, <2>1, <2>2, Zenon
  <2> QED BY <1>1, <2>1, <2>2, <2>3, TrafficKeeps, Zenon
<1> QED BY <1>2, <1>3, <1>4, Zenon

(***************************************************************************)
(* What the server sends is good: it answers a request under its id.       *)
(***************************************************************************)
LEMMA ServerKeeps == ASSUME DuplexInv, Server PROVE DuplexInv'
<1>1. /\ outgoing \in Seq(GoodRequests) /\ sink \in Seq(GoodRequests)
      /\ requests \subseteq GoodRequests
      /\ wire \in Seq(GoodMessages) /\ incoming \in Seq(GoodMessages)
      /\ live \in [Subscribers -> Sids \cup {NoSid}] /\ notes \in 0 .. MaxNotes
  BY Zenon DEF DuplexInv, TrafficInv, DuplexTypeOK
<1>2. ASSUME NEW m \in GoodMessages, ServerSends(m)
      PROVE  /\ wire' \in Seq(GoodMessages)
             /\ UNCHANGED <<outgoing, sink, incoming>> /\ UsersUntouched
  BY <1>1, <1>2, AppendToSeq, Zenon DEF ServerSends, duplexVars, UsersUntouched
<1>3. ASSUME NEW q \in requests, AnswerRequest(q) PROVE DuplexInv'
  <2>1. PICK outcome \in {"ok", "err"} : ServerSends(Response(q.id, <<outcome, q.user>>))
    BY <1>3, Zenon DEF AnswerRequest
  <2>2. /\ q.id \in Nat \cup {NoRequestId} /\ q.user \in Users /\ q.kind \in {"call", "unsubscribe"}
        /\ GoodRequest(q)
    BY <1>1, <1>3, Zenon DEF AnswerRequest, GoodRequests
  <2>3. PICK m : m = Response(q.id, <<outcome, q.user>>)
    BY Zenon
  <2>4. /\ m.id = q.id /\ m.value = <<outcome, q.user>> /\ m.method = NoName
        /\ m \in [id : Nat \cup {NoRequestId}, value : Payloads, method : Names \cup {NoName},
                  sid : Sids \cup {NoSid}]
    BY <2>2, <2>3 DEF Response, Payloads, Values
  <2>5. GoodMessage(m)
    BY <2>2, <2>4, Zenon DEF GoodRequest, GoodMessage
  <2>6. m \in GoodMessages
    BY <2>4, <2>5, Zenon DEF GoodMessages
  <2>7. /\ wire' \in Seq(GoodMessages)
        /\ UNCHANGED <<outgoing, sink, incoming>> /\ UsersUntouched
    BY <1>2, <2>1, <2>3, <2>6, Zenon
  <2>8. requests' \subseteq GoodRequests /\ notes' \in 0 .. MaxNotes
    BY <1>1, <1>3, Zenon DEF AnswerRequest
  <2>9. live' \in [Subscribers -> Sids \cup {NoSid}]
    BY <1>1, <1>3, Zenon DEF AnswerRequest
  <2> QED BY <1>1, <2>7, <2>8, <2>9, TrafficKeeps, Zenon
<1>4. ASSUME NEW q \in requests, TakeNotification(q) PROVE DuplexInv'
  <2>1. UsersUntouched /\ UNCHANGED <<outgoing, sink, wire, incoming, live, notes>>
    BY <1>4, Zenon DEF TakeNotification, duplexVars, UsersUntouched
  <2>2. requests' \subseteq GoodRequests
    BY <1>1, <1>4, Zenon DEF TakeNotification
  <2> QED BY <1>1, <2>1, <2>2, TrafficKeeps, Zenon
<1>5. ASSUME NEW q \in requests, AcceptSubscription(q) PROVE DuplexInv'
  <2>1. UsersUntouched /\ UNCHANGED <<outgoing, sink, wire, incoming, notes>>
    BY <1>5, Zenon DEF AcceptSubscription, duplexVars, UsersUntouched
  <2>2. PICK x \in Sids :
          /\ live' = [b \in Subscribers |->
                       IF b = q.user THEN x
                       ELSE IF live[b] = x /\ NameOf[b] = NameOf[q.user] THEN NoSid
                       ELSE live[b]]
          /\ requests' = (requests \ {q}) \cup {[q EXCEPT !.kind = "accepted", !.sid = x]}
    BY <1>5, Zenon DEF AcceptSubscription
  <2>3. q \in GoodRequests /\ q.kind = "subscribe"
    BY <1>1, <1>5, Zenon DEF AcceptSubscription
  <2>4. [q EXCEPT !.kind = "accepted", !.sid = x] \in GoodRequests
    BY <2>3, Zenon DEF GoodRequests, GoodRequest
  <2>5. requests' \subseteq GoodRequests
    BY <1>1, <2>2, <2>4, Zenon
  <2>6. live' \in [Subscribers -> Sids \cup {NoSid}]
    BY <1>1, <2>2, Zenon
  <2> QED BY <1>1, <2>1, <2>5, <2>6, TrafficKeeps, Zenon
<1>6. ASSUME NEW q \in requests, AnswerSubscription(q) PROVE DuplexInv'
  <2>1. PICK v : /\ ServerSends(Response(q.id, v))
                 /\ \/ q.kind = "accepted" /\ v = <<"sid", q.sid>>
                    \/ q.kind = "subscribe" /\ v = <<"err", q.user>>
    BY <1>6, Zenon DEF AnswerSubscription
  <2>2. q.id \in Nat \cup {NoRequestId} /\ q.user \in Users /\ GoodRequest(q)
    BY <1>1, Zenon DEF GoodRequests
  <2>3. PICK m : m = Response(q.id, v)
    BY Zenon
  <2>4. /\ q.user \in Subscribers /\ Given(q.id, q.user)
        /\ v = <<"err", q.user>> \/ \E x \in Sids : v = <<"sid", x>>
    BY <2>1, <2>2, Zenon DEF GoodRequest
  <2>5. v \in Payloads
    BY <2>4 DEF Payloads, Values, Users
  <2>6. /\ m.id = q.id /\ m.value = v /\ m.method = NoName
        /\ m \in [id : Nat \cup {NoRequestId}, value : Payloads, method : Names \cup {NoName},
                  sid : Sids \cup {NoSid}]
    BY <2>2, <2>3, <2>5, Zenon DEF Response
  <2>7. m \in GoodMessages
    BY <2>4, <2>6, Zenon DEF GoodMessage, GoodMessages
  <2>8. /\ wire' \in Seq(GoodMessages)
        /\ UNCHANGED <<outgoing, sink, incoming>> /\ UsersUntouched
    BY <1>2, <2>1, <2>3, <2>7, Zenon
  <2>9. requests' \subseteq GoodRequests /\ UNCHANGED <<live, notes>>
    BY <1>1, <1>6, Zenon DEF AnswerSubscription
  <2> QED BY <1>1, <2>8, <2>9, TrafficKeeps, Zenon
<1>7. ASSUME NEW b \in Subscribers, Notify(b) PROVE DuplexInv'
  <2>1. PICK m : m = Notification(b, live[b], notes + 1)
    BY Zenon
  <2>2. notes + 1 \in 1 .. MaxNotes /\ live[b] \in Sids /\ NameOf[b] \in Names
    BY <1>1, <1>7, DuplexAssumption DEF Notify
  <2>3. <<"note", b, notes + 1>> \in Notes /\ Notes \subseteq Payloads
    BY <2>2 DEF Notes, Payloads, Values
  <2>4. m \in GoodMessages
    BY <2>1, <2>2, <2>3, Zenon DEF Notification, GoodMessage, GoodMessages
  <2>5. /\ wire' \in Seq(GoodMessages)
        /\ UNCHANGED <<outgoing, sink, incoming>> /\ UsersUntouched
    BY <1>2, <1>7, <2>1, <2>4, Zenon DEF Notify
  <2>6. UNCHANGED <<requests, live>> /\ notes' \in 0 .. MaxNotes
    BY <1>1, <1>7, DuplexAssumption DEF Notify
  <2> QED BY <1>1, <2>5, <2>6, TrafficKeeps, Zenon
<1>8. CASE SendOdd
  <2>1. PICK m \in {Response(NoRequestId, <<"err", NoUser>>), Garbage} : ServerSends(m)
    BY <1>8, SMTT(20) DEF SendOdd
  <2>2. m \in GoodMessages
    BY DEF Garbage, Response, Payloads, GoodMessage, GoodMessages
  <2>3. /\ wire' \in Seq(GoodMessages)
        /\ UNCHANGED <<outgoing, sink, incoming>> /\ UsersUntouched
    BY <1>2, <2>1, <2>2, Zenon
  <2>4. UNCHANGED <<requests, live, notes>>
    BY <1>8, Zenon DEF SendOdd
  <2> QED BY <1>1, <2>3, <2>4, TrafficKeeps, Zenon
<1>9. CASE ServerCloses
  BY <1>9, ControlSteps, ControlKeeps, Zenon
<1> QED BY <1>3, <1>4, <1>5, <1>6, <1>7, <1>8, <1>9, Zenon DEF Server, ServerAnswers

-----------------------------------------------------------------------------
(* The messages of the server.                                             *)

(***************************************************************************)
(* The message at the head of incoming is consumed.                        *)
(***************************************************************************)
LEMMA ConsumeEffect ==
  ASSUME DuplexInv, incoming # <<>>, NEW m, m = Head(incoming), Consume(m)
  PROVE  /\ m \in GoodMessages /\ incoming' \in Seq(GoodMessages)
         /\ UNCHANGED <<queue, sink, requests, wire, live, notes>>
BY TailOfSeq, Zenon DEF DuplexInv, TrafficInv, Consume, serverVars

(***************************************************************************)
(* Consuming a message leaves the rest of the traffic good.                *)
(***************************************************************************)
LEMMA ConsumeTraffic ==
  ASSUME DuplexInv, incoming' \in Seq(GoodMessages), PendingShrinks,
         UNCHANGED <<sink, requests, wire>>, outgoing' \in Seq(GoodRequests')
  PROVE  TrafficInv'
BY GoodStays, Zenon DEF DuplexInv, TrafficInv

(***************************************************************************)
(* The answered request is no longer pending; it was its user's only one.  *)
(***************************************************************************)
LEMMA ResolveEffect ==
  ASSUME DuplexInv, NEW m, NEW u \in Calls \cup Subscribers, Answers(m, u), Resolve(m)
  PROVE  /\ PendingShrinks
         /\ UNCHANGED <<next_id, outgoing>>
         /\ outgoing' \in Seq(GoodRequests')
         /\ pending' \in [0 .. next_id - 1 -> Calls \cup Subscribers \cup {NoUser}]
         /\ DOMAIN pending' = DOMAIN pending
         /\ \A i \in DOMAIN pending : /\ pending'[i] # u
                                      /\ pending'[i] = pending[i] \/ pending'[i] = NoUser
         /\ u \in Users /\ u # NoUser /\ user[u] \in Open
         /\ \A i \in DOMAIN queue : queue[i] # u
         /\ \A k \in MapKeys : subscriptions[k] # u
<1>1. /\ m.id \in DOMAIN pending /\ pending[m.id] = u
      /\ pending' = [pending EXCEPT ![m.id] = NoUser] /\ UNCHANGED <<next_id, outgoing>>
  BY Zenon DEF Answers, Resolve
<1>2. u \in Users /\ u # NoUser
  BY DuplexAssumption, Zenon DEF Users
<1>3. /\ user[u] \in Open
      /\ \A i \in DOMAIN queue : queue[i] # u
      /\ \A i \in DOMAIN pending : pending[i] = u => i = m.id
      /\ \A k \in MapKeys : subscriptions[k] # u
  BY <1>1, <1>2, Zenon DEF DuplexInv, PlaceInv, MapHoldsOpenStreams
<1>4. /\ pending' \in [0 .. next_id - 1 -> Calls \cup Subscribers \cup {NoUser}]
      /\ DOMAIN pending' = DOMAIN pending
      /\ \A i \in DOMAIN pending : pending'[i] = IF i = m.id THEN NoUser ELSE pending[i]
  BY <1>1, Zenon DEF DuplexInv, DuplexTypeOK
<1>5. PendingShrinks
  BY <1>4, Zenon DEF PendingShrinks
<1>6. outgoing' \in Seq(GoodRequests')
  BY <1>1, <1>5, GoodStays, Zenon DEF DuplexInv, TrafficInv
<1> QED BY <1>1, <1>2, <1>3, <1>4, <1>5, <1>6, Zenon

(***************************************************************************)
(* A user leaves its place with its answer, or a displaced one the map.    *)
(***************************************************************************)
LEMMA AnsweredPlaces ==
  ASSUME DuplexInv, UNCHANGED <<queue, subscriptions>>, NEW u,
         DOMAIN pending' = DOMAIN pending,
         \A i \in DOMAIN pending : /\ pending'[i] # u
                                   /\ pending'[i] = pending[i] \/ pending'[i] = NoUser,
         \A i \in DOMAIN queue : queue[i] # u,
         \A k \in MapKeys : subscriptions[k] # u,
         \A v \in Users \ {u} : user'[v] = user[v]
  PROVE  PlaceInv'
<1> USE DEF DuplexInv
<1>1. \A i \in DOMAIN queue : queue[i] \in Users
  BY DEF DuplexTypeOK
<1>2. \A k \in MapKeys : subscriptions[k] \in Users \cup {NoUser}
  BY Zenon DEF DuplexTypeOK, Users
<1>3. \A i \in DOMAIN pending : pending[i] \in Users \cup {NoUser}
  BY Zenon DEF DuplexTypeOK, Users
<1>4. \A i \in DOMAIN queue' : /\ user'[queue'[i]] # "idle"
                               /\ queue'[i] \notin Notifiers => user'[queue'[i]] \in Open
  BY <1>1, Zenon DEF PlaceInv
<1>5. \A i \in DOMAIN queue' : /\ \A j \in DOMAIN pending' : pending'[j] # queue'[i]
                               /\ \A k \in MapKeys : subscriptions'[k] # queue'[i]
  BY <1>1, DuplexAssumption DEF PlaceInv
<1>6. \A i \in DOMAIN pending' : pending'[i] # NoUser => user'[pending'[i]] \in Open
  BY <1>3, Zenon DEF PlaceInv
<1>7. \A i, j \in DOMAIN pending' : pending'[i] = pending'[j] /\ pending'[i] # NoUser => i = j
  BY Zenon DEF PlaceInv
<1>8. MapHoldsOpenStreams'
  BY <1>2 DEF PlaceInv, MapHoldsOpenStreams
<1> QED BY <1>4, <1>5, <1>6, <1>7, <1>8, Zenon DEF PlaceInv

(***************************************************************************)
(* What answers a call: its own result or error.                           *)
(***************************************************************************)
LEMMA CallAnswers ==
  ASSUME DuplexInv, NEW m \in GoodMessages, NEW u \in Calls, Answers(m, u)
  PROVE  m.value \in {<<"ok", u>>, <<"err", u>>}
<1>1. m.id \in Nat /\ pending[m.id] = u
  BY DEF Answers, DuplexInv, DuplexTypeOK
<1>2. m.id # NoRequestId /\ u # NoUser /\ u \notin Subscribers
  BY <1>1, DuplexAssumption, Zenon DEF Users
<1>3. \A v : Given(m.id, v) => v = u
  BY <1>1, <1>2, Zenon DEF Given
<1> QED BY <1>2, <1>3, Zenon DEF GoodMessages, GoodMessage

(***************************************************************************)
(* A call is given its answer, or was given up: its entry goes.            *)
(***************************************************************************)
LEMMA AnswerCallKeeps ==
  ASSUME DuplexInv, incoming # <<>>, NEW m, m = Head(incoming), AnswerCall(m)
  PROVE  DuplexInv'
<1>1. PICK u \in Calls : /\ Answers(m, u) /\ user[u] # "gone" /\ Give(u, m.value, TRUE)
                         /\ Resolve(m) /\ Consume(m) /\ UNCHANGED subscriptions
  BY Zenon DEF AnswerCall
<1>2. /\ m \in GoodMessages /\ incoming' \in Seq(GoodMessages)
      /\ UNCHANGED <<queue, sink, requests, wire, live, notes>>
  BY <1>1, ConsumeEffect, Zenon
<1>3. /\ PendingShrinks
      /\ UNCHANGED <<next_id, outgoing>>
      /\ outgoing' \in Seq(GoodRequests')
      /\ pending' \in [0 .. next_id - 1 -> Calls \cup Subscribers \cup {NoUser}]
      /\ DOMAIN pending' = DOMAIN pending
      /\ \A i \in DOMAIN pending : /\ pending'[i] # u
                                   /\ pending'[i] = pending[i] \/ pending'[i] = NoUser
      /\ u \in Users /\ u # NoUser /\ user[u] \in Open
      /\ \A i \in DOMAIN queue : queue[i] # u
      /\ \A k \in MapKeys : subscriptions[k] # u
  BY <1>1, ResolveEffect, Zenon
<1>4. user[u] = "waiting" /\ got[u] = <<>>
  BY <1>1, <1>3, Zenon DEF Open, DuplexInv, AnswerInv
<1>5. m.value \in {<<"ok", u>>, <<"err", u>>}
  BY <1>1, <1>2, CallAnswers, Zenon
<1>6. /\ got' = [got EXCEPT ![u] = Append(@, m.value)]
      /\ user' = [user EXCEPT ![u] = "done"]
  BY <1>1, <1>4, Zenon DEF Give
<1>7. TrafficInv'
  BY <1>2, <1>3, ConsumeTraffic, Zenon
<1>8. /\ got[u] \in Seq(Values) /\ m.value \in Values
      /\ got \in [Users -> Seq(Values)]
  BY <1>3, <1>5 DEF DuplexInv, DuplexTypeOK, Values
<1>9. DuplexTypeOK'
  <2>1. Append(got[u], m.value) \in Seq(Values)
    BY <1>8, AppendToSeq, Zenon
  <2>2. got' \in [Users -> Seq(Values)]
    BY <1>6, <1>8, <2>1, Zenon
  <2> QED BY <1>1, <1>2, <1>3, <1>6, <2>2, Zenon DEF DuplexInv, DuplexTypeOK
<1>10. PlaceInv'
  BY <1>1, <1>2, <1>3, <1>6, AnsweredPlaces, Zenon DEF DuplexInv, DuplexTypeOK
<1>11. AnswerInv'
  <2>1. Append(got[u], m.value) = <<m.value>>
    BY <1>4
  <2>2. got'[u] \in {<< <<"ok", u>> >>, << <<"err", u>> >>}
    BY <1>5, <1>6, <1>8, <1>3, <2>1, Zenon
  <2>3. \A c \in Calls \ {u} : got'[c] = got[c] /\ user'[c] = user[c]
    BY <1>6, <1>8, Zenon DEF DuplexInv, DuplexTypeOK, Users
  <2>4. user'[u] = "done"
    BY <1>3, <1>6, Zenon DEF DuplexInv, DuplexTypeOK
  <2> QED BY <2>2, <2>3, <2>4, Zenon DEF DuplexInv, AnswerInv, OwnAnswer
<1> QED BY <1>7, <1>9, <1>10, <1>11, Zenon DEF DuplexInv

(***************************************************************************)
(* What answers a subscribe request: an id or a rejection.                 *)
(***************************************************************************)
LEMMA SubscribeAnswers ==
  ASSUME DuplexInv, NEW m \in GoodMessages, NEW u \in Subscribers, Answers(m, u)
  PROVE  m.value = <<"err", u>> \/ \E x \in Sids : m.value = <<"sid", x>>
<1>1. m.id \in Nat /\ pending[m.id] = u
  BY DEF Answers, DuplexInv, DuplexTypeOK
<1>2. m.id # NoRequestId /\ u # NoUser /\ u \notin Calls
  BY <1>1, DuplexAssumption, Zenon DEF Users
<1>3. \A v : Given(m.id, v) => v = u
  BY <1>1, <1>2, Zenon DEF Given
<1> QED BY <1>2, <1>3, Zenon DEF GoodMessages, GoodMessage

(***************************************************************************)
(* Results and errors are values a user may receive.                       *)
(***************************************************************************)
LEMMA AnswersAreValues == \A u \in Users : <<"ok", u>> \in Values /\ <<"err", u>> \in Values
BY DEF Values

(***************************************************************************)
(* A subscribe request is answered with an error: its entry goes.          *)
(***************************************************************************)
LEMMA RejectedKeeps ==
  ASSUME DuplexInv, incoming # <<>>, NEW m, m = Head(incoming), SubscriptionRejected(m)
  PROVE  DuplexInv'
<1>1. PICK u \in Subscribers : /\ Answers(m, u) /\ m.value[1] # "sid"
                               /\ Give(u, m.value, TRUE)
                               /\ Resolve(m) /\ Consume(m) /\ UNCHANGED subscriptions
  BY Zenon DEF SubscriptionRejected
<1>2. /\ m \in GoodMessages /\ incoming' \in Seq(GoodMessages)
      /\ UNCHANGED <<queue, sink, requests, wire, live, notes>>
  BY <1>1, ConsumeEffect, Zenon
<1>3. /\ PendingShrinks
      /\ UNCHANGED <<next_id, outgoing>>
      /\ outgoing' \in Seq(GoodRequests')
      /\ pending' \in [0 .. next_id - 1 -> Calls \cup Subscribers \cup {NoUser}]
      /\ DOMAIN pending' = DOMAIN pending
      /\ \A i \in DOMAIN pending : /\ pending'[i] # u
                                   /\ pending'[i] = pending[i] \/ pending'[i] = NoUser
      /\ u \in Users /\ u # NoUser /\ user[u] \in Open
      /\ \A i \in DOMAIN queue : queue[i] # u
      /\ \A k \in MapKeys : subscriptions[k] # u
  BY <1>1, ResolveEffect, Zenon
<1>4. m.value \in Values
  <2>1. m.value = <<"err", u>>
    BY <1>1, <1>2, SubscribeAnswers
  <2> QED BY <1>3, <2>1, AnswersAreValues, Zenon
<1>5. /\ got \in [Users -> Seq(Values)] /\ got[u] \in Seq(Values)
      /\ user \in [Users -> {"idle", "waiting", "done", "failed", "gone"}]
  BY <1>3, Zenon DEF DuplexInv, DuplexTypeOK
<1>6. /\ got' \in [Users -> Seq(Values)]
      /\ user' \in [Users -> {"idle", "waiting", "done", "failed", "gone"}]
      /\ \A v \in Users \ {u} : got'[v] = got[v] /\ user'[v] = user[v]
  <2>1. Append(got[u], m.value) \in Seq(Values)
    BY <1>4, <1>5, AppendToSeq, Zenon
  <2>2. CASE user[u] = "waiting"
    <3>1. /\ got' = [got EXCEPT ![u] = Append(got[u], m.value)]
          /\ user' = [user EXCEPT ![u] = "done"]
      BY <1>1, <2>2, Zenon DEF Give
    <3> QED BY <1>5, <2>1, <3>1, Zenon
  <2>3. CASE user[u] # "waiting"
    BY <1>1, <1>5, <2>3, Zenon DEF Give
  <2> QED BY <2>2, <2>3, Zenon
<1>7. TrafficInv'
  BY <1>2, <1>3, ConsumeTraffic, Zenon
<1>8. DuplexTypeOK'
  BY <1>1, <1>2, <1>3, <1>6, Zenon DEF DuplexInv, DuplexTypeOK
<1>9. PlaceInv'
  BY <1>1, <1>2, <1>3, <1>6, AnsweredPlaces, Zenon
<1>10. AnswerInv'
  <2>1. \A c \in Calls : c # u /\ c \in Users
    BY DuplexAssumption, Zenon DEF Users
  <2> QED BY <1>6, <2>1, Zenon DEF DuplexInv, AnswerInv, OwnAnswer
<1> QED BY <1>7, <1>8, <1>9, <1>10, Zenon DEF DuplexInv

(***************************************************************************)
(* A subscribe request is answered with an id: the stream enters the map,  *)
(* and takes the place of the one that was there under the same id.        *)
(***************************************************************************)
LEMMA SubscribedKeeps ==
  ASSUME DuplexInv, incoming # <<>>, NEW m, m = Head(incoming), Subscribed(m)
  PROVE  DuplexInv'
<1>1. PICK u \in Subscribers :
        /\ Answers(m, u) /\ m.value[1] = "sid"
        /\ LET k == <<m.value[2], NameOf[u]>>
               old == subscriptions[k]
           IN  /\ subscriptions' = [subscriptions EXCEPT ![k] = u]
               /\ user' = [v \in Users |->
                             IF v = old /\ user[v] = "waiting" THEN "failed" ELSE user[v]]
        /\ Resolve(m) /\ Consume(m) /\ UNCHANGED got
  BY Zenon DEF Subscribed
<1>2. /\ m \in GoodMessages /\ incoming' \in Seq(GoodMessages)
      /\ UNCHANGED <<queue, sink, requests, wire, live, notes>>
  BY <1>1, ConsumeEffect, Zenon
<1>3. /\ PendingShrinks
      /\ UNCHANGED <<next_id, outgoing>>
      /\ outgoing' \in Seq(GoodRequests')
      /\ pending' \in [0 .. next_id - 1 -> Calls \cup Subscribers \cup {NoUser}]
      /\ DOMAIN pending' = DOMAIN pending
      /\ \A i \in DOMAIN pending : /\ pending'[i] # u
                                   /\ pending'[i] = pending[i] \/ pending'[i] = NoUser
      /\ u \in Users /\ u # NoUser /\ user[u] \in Open
      /\ \A i \in DOMAIN queue : queue[i] # u
      /\ \A k \in MapKeys : subscriptions[k] # u
  BY <1>1, ResolveEffect, Zenon
<1>4. PICK k : k = <<m.value[2], NameOf[u]>>
  BY Zenon
<1>5. k \in MapKeys
  <2>1. PICK x \in Sids : m.value = <<"sid", x>>
    BY <1>1, <1>2, SubscribeAnswers
  <2>2. NameOf[u] \in Names
    BY DuplexAssumption, Zenon
  <2> QED BY <1>4, <2>1, <2>2 DEF MapKeys
<1>6. PICK old : old = subscriptions[k]
  BY Zenon
<1>7. /\ subscriptions' = [subscriptions EXCEPT ![k] = u]
      /\ user' = [v \in Users |->
                    IF v = old /\ user[v] = "waiting" THEN "failed" ELSE user[v]]
  BY <1>1, <1>4, <1>6, Zenon
<1>8. /\ subscriptions \in [MapKeys -> Subscribers \cup {NoUser}]
      /\ user \in [Users -> {"idle", "waiting", "done", "failed", "gone"}]
      /\ \A i \in DOMAIN queue : queue[i] \in Users
      /\ \A i \in DOMAIN pending : pending[i] \in Users \cup {NoUser}
  BY DEF DuplexInv, DuplexTypeOK, Users
<1>9. /\ old # u /\ old \in Subscribers \cup {NoUser}
      /\ \A i \in DOMAIN queue : queue[i] # old
      /\ old # NoUser => \A i \in DOMAIN pending : pending[i] # old
      /\ old # NoUser => \A j \in MapKeys : subscriptions[j] = old => j = k
  BY <1>3, <1>5, <1>6, <1>8, Zenon DEF DuplexInv, PlaceInv, MapHoldsOpenStreams
<1>10. /\ subscriptions' \in [MapKeys -> Subscribers \cup {NoUser}]
       /\ user' \in [Users -> {"idle", "waiting", "done", "failed", "gone"}]
       /\ \A v \in Users \ {old} : user'[v] = user[v]
       /\ subscriptions'[k] = u
       /\ \A j \in MapKeys \ {k} : subscriptions'[j] = subscriptions[j]
  BY <1>5, <1>7, <1>8, Zenon
<1>11. TrafficInv'
  BY <1>2, <1>3, ConsumeTraffic, Zenon
<1>12. DuplexTypeOK'
  BY <1>1, <1>2, <1>3, <1>10, SMTT(20) DEF DuplexInv, DuplexTypeOK
<1>13. PlaceInv'
  <2>1. \A i \in DOMAIN queue' : /\ user'[queue'[i]] # "idle"
                                 /\ queue'[i] \notin Notifiers => user'[queue'[i]] \in Open
    BY <1>2, <1>8, <1>9, <1>10, SMTT(20) DEF DuplexInv, PlaceInv
  <2>2. \A i \in DOMAIN queue' : /\ \A j \in DOMAIN pending' : pending'[j] # queue'[i]
                                 /\ \A j \in MapKeys : subscriptions'[j] # queue'[i]
    BY <1>2, <1>3, <1>8, <1>10, DuplexAssumption DEF DuplexInv, PlaceInv
  <2>3. \A i \in DOMAIN pending' : pending'[i] # NoUser => user'[pending'[i]] \in Open
    BY <1>3, <1>8, <1>9, <1>10 DEF DuplexInv, PlaceInv
  <2>4. \A i, j \in DOMAIN pending' : pending'[i] = pending'[j] /\ pending'[i] # NoUser => i = j
    BY <1>3, Zenon DEF DuplexInv, PlaceInv
  <2>5. \A j \in MapKeys : subscriptions'[j] # NoUser => user'[subscriptions'[j]] \in Open
    <3>1. user'[u] \in Open
      BY <1>3, <1>9, <1>10, Zenon
    <3>2. \A j \in MapKeys \ {k} : subscriptions[j] # NoUser =>
                                 subscriptions[j] \in Users \ {old} /\ user[subscriptions[j]] \in Open
      BY <1>6, <1>8, <1>9, Zenon DEF DuplexInv, PlaceInv, MapHoldsOpenStreams, Users, Open
    <3> QED BY <1>10, <3>1, <3>2, Zenon
  <2>6. \A i, j \in MapKeys : subscriptions'[i] # NoUser /\ subscriptions'[i] = subscriptions'[j] => i = j
    BY <1>3, <1>10 DEF DuplexInv, PlaceInv, MapHoldsOpenStreams
  <2>7. \A j \in MapKeys, i \in DOMAIN pending' :
          subscriptions'[j] # NoUser => pending'[i] # subscriptions'[j]
    BY <1>3, <1>10 DEF DuplexInv, PlaceInv, MapHoldsOpenStreams
  <2>8. MapHoldsOpenStreams'
    BY <2>5, <2>6, <2>7, Zenon DEF MapHoldsOpenStreams, Open
  <2>9. \A i, j \in DOMAIN queue' : queue'[i] = queue'[j] => i = j
    BY <1>2, Zenon DEF DuplexInv, PlaceInv
  <2> QED BY <2>1, <2>2, <2>3, <2>4, <2>8, <2>9, SMTT(20) DEF PlaceInv
<1>14. AnswerInv'
  <2>1. \A c \in Calls : c # old /\ c \in Users
    BY <1>9, DuplexAssumption, Zenon DEF Users
  <2> QED BY <1>1, <1>10, <2>1, Zenon DEF DuplexInv, AnswerInv, OwnAnswer
<1> QED BY <1>11, <1>12, <1>13, <1>14, Zenon DEF DuplexInv

(***************************************************************************)
(* A notification reaches its stream; when the stream was dropped it leaves*)
(* the map and an unsubscribe request is sent under a new id.              *)
(***************************************************************************)
LEMMA DeliverKeeps ==
  ASSUME DuplexInv, incoming # <<>>, NEW m, m = Head(incoming), Deliver(m)
  PROVE  DuplexInv'
<1>1. PICK u \in Subscribers :
        /\ AnswersNothing(m) /\ m.method # NoName
        /\ subscriptions[<<m.sid, m.method>>] = u
        /\ Give(u, m.value, FALSE)
        /\ \/ /\ user[u] # "gone"
              /\ UNCHANGED <<next_id, pending, outgoing, subscriptions>>
           \/ /\ user[u] = "gone"
              /\ subscriptions' = [subscriptions EXCEPT ![<<m.sid, m.method>>] = NoUser]
              /\ outgoing' = Append(outgoing,
                   [Request("unsubscribe", next_id, u) EXCEPT !.sid = m.sid])
              /\ TakeId(NoUser)
        /\ Consume(m)
  BY Zenon DEF Deliver
<1>2. /\ m \in GoodMessages /\ incoming' \in Seq(GoodMessages)
      /\ UNCHANGED <<queue, sink, requests, wire, live, notes>>
  BY <1>1, ConsumeEffect, Zenon
<1>3. /\ m.value \in Notes /\ m.sid \in Sids /\ m.method \in Names
  BY <1>1, <1>2, Zenon DEF GoodMessages, GoodMessage
<1>4. m.value \in Values
  BY <1>3 DEF Notes, Values
<1>5. /\ got \in [Users -> Seq(Values)] /\ u \in Users
      /\ subscriptions \in [MapKeys -> Subscribers \cup {NoUser}]
      /\ \A i \in DOMAIN queue : queue[i] \in Users
      /\ \A i \in DOMAIN pending : pending[i] \in Users \cup {NoUser}
  BY DEF DuplexInv, DuplexTypeOK, Users
<1>6. /\ got' \in [Users -> Seq(Values)] /\ user' = user
      /\ \A v \in Users \ {u} : got'[v] = got[v]
  <2>1. user' = user
    BY <1>1, Zenon DEF Give
  <2>2. CASE user[u] = "waiting"
    <3>1. got' = [got EXCEPT ![u] = Append(got[u], m.value)]
      BY <1>1, <2>2, Zenon DEF Give
    <3>2. Append(got[u], m.value) \in Seq(Values)
      BY <1>4, <1>5, AppendToSeq, Zenon
    <3> QED BY <1>5, <2>1, <3>1, <3>2, Zenon
  <2>3. CASE user[u] # "waiting"
    BY <1>1, <1>5, <2>1, <2>3, Zenon DEF Give
  <2> QED BY <2>2, <2>3, Zenon
<1>7. AnswerInv'
  <2>1. \A c \in Calls : c # u /\ c \in Users
    BY DuplexAssumption, Zenon DEF Users
  <2> QED BY <1>6, <2>1, Zenon DEF DuplexInv, AnswerInv, OwnAnswer
<1>8. CASE UNCHANGED <<next_id, pending, outgoing, subscriptions>>
  <2>1. PendingShrinks
    BY <1>8, Zenon DEF PendingShrinks
  <2>2. TrafficInv'
    BY <1>2, <1>8, <2>1, GoodStays, ConsumeTraffic, Zenon DEF DuplexInv, TrafficInv
  <2>3. DuplexTypeOK'
    BY <1>2, <1>6, <1>8, Zenon DEF DuplexInv, DuplexTypeOK
  <2>4. PlaceInv'
    BY <1>2, <1>6, <1>8 DEF DuplexInv, PlaceInv, MapHoldsOpenStreams
  <2> QED BY <1>7, <2>2, <2>3, <2>4, Zenon DEF DuplexInv
<1>9. CASE /\ subscriptions' = [subscriptions EXCEPT ![<<m.sid, m.method>>] = NoUser]
           /\ outgoing' = Append(outgoing,
                [Request("unsubscribe", next_id, u) EXCEPT !.sid = m.sid])
           /\ TakeId(NoUser)
  <2>1. /\ PendingShrinks
        /\ next_id' \in Nat
        /\ pending' \in [0 .. next_id' - 1 -> Calls \cup Subscribers \cup {NoUser}]
        /\ next_id \in DOMAIN pending'
        /\ next_id \notin DOMAIN pending
        /\ \A i \in DOMAIN pending' : \/ i \in DOMAIN pending /\ pending'[i] = pending[i]
                                      \/ i = next_id /\ pending'[i] = NoUser
    BY <1>9, IdTaken, Zenon DEF DuplexInv
  <2>2. PICK q : q = [Request("unsubscribe", next_id, u) EXCEPT !.sid = m.sid]
    BY Zenon
  <2>3. q \in GoodRequests'
    <3>1. next_id \in Nat /\ pending'[next_id] = NoUser
      BY <2>1, Zenon DEF DuplexInv, DuplexTypeOK
    <3>2. q = [kind |-> "unsubscribe", id |-> next_id, user |-> u, sid |-> m.sid]
      BY <2>2, Zenon DEF Request
    <3>3. GoodRequest(q)'
      BY <2>1, <3>1, <3>2, Zenon DEF GoodRequest, Given
    <3>4. q \in [kind : {"notify", "call", "subscribe", "accepted", "unsubscribe"},
                 id : Nat \cup {NoRequestId}, user : Users, sid : Sids \cup {NoSid}]
      BY <1>3, <1>5, <3>1, <3>2, Zenon
    <3> QED BY <3>3, <3>4, Zenon DEF GoodRequests
  <2>4. TrafficInv'
    <3>1. outgoing \in Seq(GoodRequests')
      BY <2>1, GoodStays, Zenon DEF DuplexInv, TrafficInv
    <3>2. outgoing' \in Seq(GoodRequests')
      BY <1>9, <2>2, <2>3, <3>1, AppendToSeq, Zenon
    <3> QED BY <1>2, <2>1, <3>2, ConsumeTraffic, Zenon
  <2>5. /\ subscriptions' \in [MapKeys -> Subscribers \cup {NoUser}]
        /\ \A k \in MapKeys : subscriptions'[k] = subscriptions[k] \/ subscriptions'[k] = NoUser
    BY <1>5, <1>9, Zenon
  <2>6. DuplexTypeOK'
    BY <1>2, <1>6, <2>1, <2>5, ZenonT(30) DEF DuplexInv, DuplexTypeOK
  <2>7. PlaceInv'
    <3>1. \A i \in DOMAIN queue' : /\ user'[queue'[i]] # "idle"
                                   /\ queue'[i] \notin Notifiers => user'[queue'[i]] \in Open
      BY <1>2, <1>6, Zenon DEF DuplexInv, PlaceInv
    <3>5. NoUser \notin Users
      BY DuplexAssumption, Zenon
    <3>6. \A i \in DOMAIN queue' : \A j \in DOMAIN pending' : pending'[j] # queue'[i]
      BY <1>2, <1>5, <2>1, <3>5, SMTT(20) DEF DuplexInv, PlaceInv
    <3>7. \A i \in DOMAIN queue' : \A k \in MapKeys : subscriptions'[k] # queue'[i]
      BY <1>2, <1>5, <2>5, <3>5, SMTT(20) DEF DuplexInv, PlaceInv
    <3>2. \A i \in DOMAIN pending' : pending'[i] # NoUser => user'[pending'[i]] \in Open
      BY <1>6, <2>1, Zenon DEF DuplexInv, PlaceInv
    <3>3. \A i, j \in DOMAIN pending' :
            pending'[i] = pending'[j] /\ pending'[i] # NoUser => i = j
      BY <2>1, Zenon DEF DuplexInv, PlaceInv
    <3>4. MapHoldsOpenStreams'
      <4>1. \A k \in MapKeys : subscriptions'[k] # NoUser => subscriptions'[k] = subscriptions[k]
        BY <2>5, SMTT(20)
      <4>2. \A k \in MapKeys : subscriptions'[k] # NoUser =>
              /\ user'[subscriptions'[k]] \in {"waiting", "gone"}
              /\ \A j \in MapKeys : subscriptions'[j] = subscriptions'[k] => j = k
        BY <1>6, <4>1 DEF DuplexInv, PlaceInv, MapHoldsOpenStreams
      <4>3. \A k \in MapKeys : subscriptions'[k] # NoUser =>
              \A i \in DOMAIN pending' : pending'[i] # subscriptions'[k]
        BY <2>1, <4>1 DEF DuplexInv, PlaceInv, MapHoldsOpenStreams
      <4> QED BY <4>2, <4>3, Zenon DEF MapHoldsOpenStreams
    <3> QED BY <1>2, <3>1, <3>2, <3>3, <3>4, <3>6, <3>7, Zenon DEF DuplexInv, PlaceInv
  <2> QED BY <1>7, <2>4, <2>6, <2>7, Zenon DEF DuplexInv
<1> QED BY <1>1, <1>8, <1>9, Zenon

(***************************************************************************)
(* A message that matches nothing is only consumed.                        *)
(***************************************************************************)
LEMMA UnexpectedKeeps ==
  ASSUME DuplexInv, incoming # <<>>, NEW m, m = Head(incoming), Unexpected(m)
  PROVE  DuplexInv'
<1>1. Consume(m) /\ UNCHANGED <<next_id, pending, outgoing, subscriptions, user, got>>
  BY Zenon DEF Unexpected
<1>2. /\ incoming' \in Seq(GoodMessages)
      /\ UNCHANGED <<queue, sink, requests, wire, live, notes>>
  BY <1>1, ConsumeEffect, Zenon
<1>3. UsersUntouched
  BY <1>1, <1>2, Zenon DEF UsersUntouched
<1> QED BY <1>1, <1>2, <1>3, TrafficKeeps, Zenon DEF DuplexInv, TrafficInv, DuplexTypeOK

(***************************************************************************)
(* Every branch of the handler of incoming messages keeps the invariant.   *)
(***************************************************************************)
LEMMA IncomingKeeps == ASSUME DuplexInv, HandleIncoming PROVE DuplexInv'
<1>1. PICK m : m = Head(incoming)
  BY Zenon
<1>2. incoming # <<>> /\ \/ AnswerCall(m) \/ AnswerNobody(m) \/ Subscribed(m)
                         \/ SubscriptionRejected(m) \/ Deliver(m) \/ Unexpected(m)
  BY <1>1, Zenon DEF HandleIncoming
<1>3. CASE AnswerNobody(m)
  BY <1>3, EndKeeps, Zenon DEF AnswerNobody
<1> QED BY <1>1, <1>2, <1>3, AnswerCallKeeps, SubscribedKeeps, RejectedKeeps, DeliverKeeps,
           UnexpectedKeeps, Zenon
-----------------------------------------------------------------------------

(***************************************************************************)
(* The inductive invariant of Duplex.                                      *)
(***************************************************************************)
THEOREM DuplexInvariance == DuplexSpec => []DuplexInv
<1>1. DuplexInit => DuplexInv
  <2> SUFFICES ASSUME DuplexInit PROVE DuplexInv
    BY Zenon
  <2>1. DuplexTypeOK
    BY DuplexAssumption DEF DuplexInit, DuplexTypeOK
  <2>2. TrafficInv
    BY DEF DuplexInit, TrafficInv
  <2>3. PlaceInv
    BY DEF DuplexInit, PlaceInv, MapHoldsOpenStreams
  <2>4. AnswerInv
    BY Zenon DEF DuplexInit, AnswerInv, OwnAnswer, Users
  <2> QED BY <2>1, <2>2, <2>3, <2>4, Zenon DEF DuplexInv
<1>2. DuplexInv /\ [DuplexNext]_linkVars => DuplexInv'
  <2> SUFFICES ASSUME DuplexInv, [DuplexNext]_linkVars PROVE DuplexInv'
    BY Zenon
  <2>1. CASE \E u \in Users : Ask(u) \/ GiveUp(u)
    BY <2>1, AskKeeps, GiveUpKeeps, Zenon
  <2>2. CASE \/ DropHandles \/ NoMoreRequests \/ StreamPending \/ IncomingHandled \/ PollAgain
             \/ UNCHANGED linkVars
    BY <2>2, ControlSteps, ControlKeeps, Zenon
  <2>3. CASE TakeRequest
    BY <2>3, TakeRequestKeeps, Zenon
  <2>4. CASE ReadMessage \/ SendRequest \/ SinkWrites
    BY <2>4, MoveKeeps, Zenon
  <2>5. CASE ParseError \/ StreamClosed \/ SinkFails
    BY <2>5, EndKeeps, Zenon DEF ParseError, StreamClosed, SinkFails
  <2>6. CASE HandleIncoming
    BY <2>6, IncomingKeeps, Zenon
  <2>7. CASE FinishPoll
    <3>1. CASE End
      BY <3>1, EndKeeps, Zenon
    <3>2. CASE ~End
      BY <2>7, <3>2, ControlKeeps, Zenon DEF FinishPoll, ControlStep, serverVars
    <3> QED BY <3>1, <3>2, Zenon
  <2>8. CASE Server
    BY <2>8, ServerKeeps, Zenon
  <2> QED BY <2>1, <2>2, <2>3, <2>4, <2>5, <2>6, <2>7, <2>8, Zenon DEF DuplexNext, PollClient
<1> QED BY <1>1, <1>2, PTL DEF DuplexSpec

(***************************************************************************)
(* Whatever order the server answers in, a call gets its own answer only.  *)
(***************************************************************************)
THEOREM CallsGetTheirAnswer == DuplexSpec => []OwnAnswer
<1>1. DuplexInv => OwnAnswer
  BY Zenon DEF DuplexInv, AnswerInv
<1> QED BY <1>1, DuplexInvariance, PTL

(***************************************************************************)
(* The map of subscriptions holds open or dropped streams only, each once: *)
(* the `expect` of the unsubscribe path never fails.                       *)
(***************************************************************************)
THEOREM MapIsExact == DuplexSpec => []MapHoldsOpenStreams
<1>1. DuplexInv => MapHoldsOpenStreams
  BY Zenon DEF DuplexInv, PlaceInv
<1> QED BY <1>1, DuplexInvariance, PTL
-----------------------------------------------------------------------------
(***************************************************************************)
(* Steps as RpcCalls sees them: a user receives, a stream is displaced, or *)
(* nothing happens.                                                        *)
(***************************************************************************)
LEMMA GiveMaps ==
  ASSUME DuplexTypeOK, NEW u \in Users, NEW value \in Values, NEW last \in BOOLEAN,
         Give(u, value, last), phase # "ended", UNCHANGED phase
  PROVE  Promise!Receive(u) \/ UNCHANGED Promise!clientVars
<1>1. CASE user[u] = "waiting"
  <2>1. got' = [got EXCEPT ![u] = Append(@, value)]
    BY <1>1, Zenon DEF Give
  <2>2. \E s \in {"waiting", "done"} : user' = [user EXCEPT ![u] = s]
    <3>1. CASE last
      BY <1>1, <3>1, Zenon DEF Give
    <3>2. CASE ~last
      <4>1. user' = user /\ user = [user EXCEPT ![u] = "waiting"]
        BY <1>1, <3>2, Zenon DEF Give, DuplexTypeOK
      <4> QED BY <4>1, Zenon
    <3> QED BY <3>1, <3>2, Zenon
  <2> QED BY <1>1, <2>1, <2>2, Zenon DEF Promise!Receive
<1>2. CASE user[u] # "waiting"
  BY <1>2, Zenon DEF Give, Promise!clientVars
<1> QED BY <1>1, <1>2, Zenon

(***************************************************************************)
(* Every branch of the handler of incoming messages is a step of RpcCalls. *)
(***************************************************************************)
LEMMA IncomingMaps ==
  ASSUME DuplexInv, HandleIncoming
  PROVE  [Promise!Next]_(Promise!clientVars)
<1>1. PICK m : m = Head(incoming)
  BY Zenon
<1>2. phase = "incoming" /\ incoming # <<>>
  BY Zenon DEF HandleIncoming
<1>3. m \in GoodMessages /\ DuplexTypeOK
  BY <1>1, <1>2, TailOfSeq, Zenon DEF DuplexInv, TrafficInv
<1>4. Calls \subseteq Users /\ Subscribers \subseteq Users
  BY Zenon DEF Users
<1>5. ASSUME NEW u \in Users, NEW value \in Values, NEW last \in BOOLEAN,
             Give(u, value, last), UNCHANGED phase
      PROVE  [Promise!Next]_(Promise!clientVars)
  BY <1>2, <1>3, <1>5, GiveMaps, Zenon DEF Promise!Next
<1>6. CASE AnswerCall(m)
  <2>1. PICK u \in Calls : Answers(m, u) /\ Give(u, m.value, TRUE) /\ Consume(m)
    BY <1>6, Zenon DEF AnswerCall
  <2>2. m.value \in Values
    BY <1>3, <1>4, <2>1, CallAnswers, AnswersAreValues, Zenon
  <2> QED BY <1>4, <1>5, <2>1, <2>2, Zenon DEF Consume
<1>7. CASE AnswerNobody(m)
  BY <1>2, <1>7, Zenon DEF AnswerNobody, End, Promise!End, Promise!Next
<1>8. CASE Subscribed(m)
  <2>1. PICK u \in Subscribers :
          /\ user' = [v \in Users |->
                        IF v = subscriptions[<<m.value[2], NameOf[u]>>] /\ user[v] = "waiting"
                        THEN "failed" ELSE user[v]]
          /\ Consume(m) /\ UNCHANGED got
    BY <1>8, Zenon DEF Subscribed
  <2>2. PICK old : old = subscriptions[<<m.value[2], NameOf[u]>>]
    BY Zenon
  <2>3. CASE old \in Users /\ user[old] = "waiting"
    <3>1. user' = [user EXCEPT ![old] = "failed"]
      BY <1>3, <2>1, <2>2, <2>3, Zenon DEF DuplexTypeOK
    <3> QED BY <1>2, <2>1, <2>3, <3>1, Zenon DEF Consume, Promise!Displace, Promise!Next
  <2>4. CASE ~(old \in Users /\ user[old] = "waiting")
    <3>1. user' = user
      BY <1>3, <2>1, <2>2, <2>4, Zenon DEF DuplexTypeOK
    <3> QED BY <2>1, <3>1, Zenon DEF Consume, Promise!clientVars
  <2> QED BY <2>3, <2>4, Zenon
<1>9. CASE SubscriptionRejected(m)
  <2>1. PICK u \in Subscribers : /\ Answers(m, u) /\ m.value[1] # "sid"
                                 /\ Give(u, m.value, TRUE) /\ Consume(m)
    BY <1>9, Zenon DEF SubscriptionRejected
  <2>2. m.value = <<"err", u>>
    BY <1>3, <2>1, SubscribeAnswers
  <2>3. m.value \in Values
    BY <1>4, <2>2, AnswersAreValues, Zenon
  <2> QED BY <1>4, <1>5, <2>1, <2>3, Zenon DEF Consume
<1>10. CASE Deliver(m)
  <2>1. PICK u \in Subscribers : m.method # NoName /\ Give(u, m.value, FALSE) /\ Consume(m)
    BY <1>10, Zenon DEF Deliver
  <2>2. m.value \in Notes
    BY <1>3, <2>1, Zenon DEF GoodMessages, GoodMessage
  <2>3. m.value \in Values
    BY <2>2 DEF Notes, Values
  <2> QED BY <1>4, <1>5, <2>1, <2>3, Zenon DEF Consume
<1>11. CASE Unexpected(m)
  BY <1>11, Zenon DEF Unexpected, Consume, Promise!clientVars
<1> QED BY <1>1, <1>6, <1>7, <1>8, <1>9, <1>10, <1>11, Zenon DEF HandleIncoming

(***************************************************************************)
(* Duplex implements RpcCalls: whatever the server and the transport do,   *)
(* users see a client that gives waiting users values, and that leaves     *)
(* nobody waiting when it ends.                                            *)
(***************************************************************************)
THEOREM ClientKeepsPromise == DuplexSpec => RefinesRpcCalls
<1>1. DuplexInit => Promise!Init
  BY Zenon DEF DuplexInit, Promise!Init
<1>2. ASSUME DuplexInv, [DuplexNext]_linkVars PROVE [Promise!Next]_(Promise!clientVars)
  <2>1. ASSUME NEW u \in Users, Ask(u) PROVE Promise!Ask(u)
    <3>1. CASE phase # "ended"
      BY <2>1, <3>1, Zenon DEF Ask, Promise!Ask
    <3>2. CASE phase = "ended"
      BY <2>1, <3>2, Zenon DEF Ask, Promise!Ask
    <3> QED BY <3>1, <3>2, Zenon
  <2>2. ASSUME NEW u \in Users, GiveUp(u) PROVE Promise!GiveUp(u)
    BY <2>2, Zenon DEF GiveUp, Promise!GiveUp
  <2>3. ASSUME End, phase # "ended" PROVE Promise!End
    BY <2>3, Zenon DEF End, Promise!End
  <2>4. CASE \/ DropHandles \/ TakeRequest \/ ReadMessage \/ SendRequest \/ SinkWrites
    BY <2>4, Zenon DEF DropHandles, TakeRequest, ReadMessage, SendRequest, SinkWrites, Promise!clientVars
  <2>5. CASE NoMoreRequests \/ StreamPending \/ IncomingHandled \/ PollAgain
    BY <2>5, Zenon DEF NoMoreRequests, StreamPending, IncomingHandled, PollAgain, Promise!clientVars
  <2>6. CASE ParseError \/ StreamClosed \/ SinkFails
    BY <2>3, <2>6, Zenon DEF ParseError, StreamClosed, SinkFails, Promise!Next
  <2>7. CASE HandleIncoming
    BY <1>2, <2>7, IncomingMaps, Zenon
  <2>8. CASE FinishPoll
    <3>1. CASE End
      BY <2>3, <2>8, <3>1, Zenon DEF FinishPoll, Promise!Next
    <3>2. CASE ~End
      BY <2>8, <3>2, Zenon DEF FinishPoll, Promise!clientVars
    <3> QED BY <3>1, <3>2, Zenon
  <2>9. CASE Server
    <3>1. UNCHANGED duplexVars
      BY <2>9, Zenon DEF Server, ServerAnswers, AnswerRequest, TakeNotification, AcceptSubscription,
                  AnswerSubscription, Notify, SendOdd, ServerCloses, ServerSends
    <3> QED BY <3>1, Zenon DEF duplexVars, Promise!clientVars
  <2>10. CASE UNCHANGED linkVars
    BY <2>10, Zenon DEF linkVars, duplexVars, Promise!clientVars
  <2> QED BY <1>2, <2>1, <2>2, <2>4, <2>5, <2>6, <2>7, <2>8, <2>9, <2>10, Zenon
          DEF DuplexNext, PollClient, Promise!Next
<1> QED BY <1>1, <1>2, DuplexInvariance, PTL DEF DuplexSpec, RefinesRpcCalls, Promise!Spec

-----------------------------------------------------------------------------
(***************************************************************************)
(* The parts of CallTracked: the request with id i, or its answer, is      *)
(* under way; call c is in the client channel, or pending and under way.   *)
(***************************************************************************)
UnderWay(i) == (\E q \in Traffic : q.id = i) \/ (\E m \in Messages : m.id = i)

Tracked(c) ==
  \/ c \in Range(queue)
  \/ \E i \in DOMAIN pending : pending[i] = c /\ UnderWay(i)

LEMMA CallTrackedParts ==
  CallTracked <=> /\ Len(sink) <= SinkCapacity
                  /\ \A c \in Calls : user[c] = "waiting" /\ ~closed => Tracked(c)
BY Zenon DEF CallTracked, Tracked, UnderWay

(***************************************************************************)
(* What a queue holds after a message is added at its end ...              *)
(***************************************************************************)
LEMMA RangeOfAppend ==
  ASSUME NEW S, NEW s \in Seq(S), NEW e
  PROVE  Range(Append(s, e)) = Range(s) \cup {e}
<1>1. DOMAIN Append(s, e) = 1 .. Len(s) + 1 /\ DOMAIN s = 1 .. Len(s) /\ Len(s) \in Nat
  OBVIOUS
<1>2. \A i \in 1 .. Len(s) + 1 : Append(s, e)[i] = IF i = Len(s) + 1 THEN e ELSE s[i]
  OBVIOUS
<1>3. \A x : x \in Range(Append(s, e)) <=> \E i \in 1 .. Len(s) + 1 : Append(s, e)[i] = x
  BY <1>1, Zenon DEF Range
<1>4. \A x : x \in Range(s) <=> \E i \in 1 .. Len(s) : s[i] = x
  BY <1>1, Zenon DEF Range
<1>5. Append(s, e)[Len(s) + 1] = e /\ Len(s) + 1 \in 1 .. Len(s) + 1
  BY <1>1, <1>2
<1>6. \A i \in 1 .. Len(s) : i \in 1 .. Len(s) + 1 /\ Append(s, e)[i] = s[i]
  BY <1>1, <1>2
<1>7. \A i \in 1 .. Len(s) + 1 : i \in 1 .. Len(s) \/ i = Len(s) + 1
  BY <1>1
<1> QED BY <1>3, <1>4, <1>5, <1>6, <1>7, Zenon

(***************************************************************************)
(* ... or taken from its head.                                             *)
(***************************************************************************)
LEMMA RangeOfTail ==
  ASSUME NEW S, NEW s \in Seq(S), s # <<>>
  PROVE  Range(s) = {Head(s)} \cup Range(Tail(s))
<1>1. /\ DOMAIN s = 1 .. Len(s) /\ Len(s) \in Nat \ {0} /\ Head(s) = s[1]
      /\ DOMAIN Tail(s) = 1 .. Len(s) - 1
      /\ \A i \in 1 .. Len(s) - 1 : Tail(s)[i] = s[i + 1]
  OBVIOUS
<1>2. \A x : x \in Range(s) <=> \E i \in 1 .. Len(s) : s[i] = x
  BY <1>1, Zenon DEF Range
<1>3. \A x : x \in Range(Tail(s)) <=> \E i \in 1 .. Len(s) - 1 : s[i + 1] = x
  BY <1>1, Zenon DEF Range
<1>4. \A i \in 1 .. Len(s) : i = 1 \/ (i - 1 \in 1 .. Len(s) - 1 /\ (i - 1) + 1 = i)
  BY <1>1
<1>5. \A i \in 1 .. Len(s) - 1 : i + 1 \in 1 .. Len(s)
  BY <1>1
<1>6. 1 \in 1 .. Len(s)
  BY <1>1
<1> QED BY <1>1, <1>2, <1>3, <1>4, <1>5, <1>6, ZenonT(30)

(***************************************************************************)
(* A step that gives up no entry and no traffic keeps calls tracked, if it *)
(* makes no other call wait and leaves the sink within its capacity.       *)
(***************************************************************************)
LEMMA TrackedStays ==
  ASSUME CallTracked, Len(sink') <= SinkCapacity, closed => closed',
         \A c \in Calls : user'[c] = "waiting" => user[c] = "waiting",
         Range(queue) \subseteq Range(queue'),
         DOMAIN pending \subseteq DOMAIN pending',
         \A i \in DOMAIN pending : pending'[i] = pending[i] \/ pending[i] \notin Calls,
         \A i \in DOMAIN pending : UnderWay(i) /\ ~closed' => UnderWay(i)'
  PROVE  CallTracked'
<1>1. /\ Len(sink) <= SinkCapacity
      /\ \A c \in Calls : user[c] = "waiting" /\ ~closed => Tracked(c)
  BY CallTrackedParts, Zenon
<1>2. ASSUME NEW c \in Calls, user'[c] = "waiting", ~closed' PROVE Tracked(c)'
  BY <1>1, <1>2, Zenon DEF Tracked
<1>3. CallTracked' <=> /\ Len(sink') <= SinkCapacity
                       /\ \A c \in Calls : user'[c] = "waiting" /\ ~closed' => Tracked(c)'
  BY Zenon DEF CallTracked, Tracked, UnderWay
<1> QED BY <1>2, <1>3, Zenon

(***************************************************************************)
(* So do steps that only move a message on, or change the control.         *)
(***************************************************************************)
LEMMA TrackMoves ==
  ASSUME DuplexInv, CallTracked, ReadMessage \/ SendRequest \/ SinkWrites
  PROVE  CallTracked'
<1>1. /\ outgoing \in Seq(GoodRequests) /\ sink \in Seq(GoodRequests)
      /\ wire \in Seq(GoodMessages) /\ incoming \in Seq(GoodMessages)
      /\ Len(sink) <= SinkCapacity /\ SinkCapacity \in Nat
  BY CallTrackedParts, DuplexAssumption, Zenon DEF DuplexInv, TrafficInv
<1>2. UsersUntouched /\ UNCHANGED closed
  BY Zenon DEF ReadMessage, SendRequest, SinkWrites, UsersUntouched, serverVars
<1>3. CASE ReadMessage
  <2>1. /\ wire # <<>> /\ wire' = Tail(wire) /\ incoming' = Append(incoming, Head(wire))
        /\ UNCHANGED <<outgoing, sink, requests>>
    BY <1>3, Zenon DEF ReadMessage
  <2>2. Messages' = Messages /\ Traffic' = Traffic
    BY <1>1, <2>1, RangeOfTail, RangeOfAppend DEF Messages, Traffic
  <2> QED BY <1>1, <1>2, <2>1, <2>2, TrackedStays, Zenon DEF UsersUntouched, UnderWay
<1>4. CASE SendRequest
  <2>1. /\ outgoing # <<>> /\ outgoing' = Tail(outgoing) /\ sink' = Append(sink, Head(outgoing))
        /\ Len(sink) < SinkCapacity /\ UNCHANGED <<requests, wire, incoming>>
    BY <1>4, Zenon DEF SendRequest, serverVars
  <2>2. Messages' = Messages /\ Traffic' = Traffic
    BY <1>1, <2>1, RangeOfTail, RangeOfAppend DEF Messages, Traffic
  <2>3. Len(sink') <= SinkCapacity
    BY <1>1, <2>1
  <2> QED BY <1>2, <2>2, <2>3, TrackedStays, Zenon DEF UsersUntouched, UnderWay
<1>5. CASE SinkWrites
  <2>1. /\ sink # <<>> /\ sink' = Tail(sink)
        /\ requests' = IF closed THEN requests ELSE requests \cup {Head(sink)}
        /\ UNCHANGED <<outgoing, wire, incoming>>
    BY <1>5, Zenon DEF SinkWrites
  <2>2. Messages' = Messages /\ (~closed => Traffic' = Traffic)
    BY <1>1, <2>1, RangeOfTail DEF Messages, Traffic
  <2>3. Len(sink') <= SinkCapacity
    BY <1>1, <2>1
  <2> QED BY <1>2, <2>2, <2>3, TrackedStays, Zenon DEF UsersUntouched, UnderWay
<1> QED BY <1>3, <1>4, <1>5, Zenon

(***************************************************************************)
(* After the end no call waits.                                            *)
(***************************************************************************)
LEMMA TrackEnd == ASSUME CallTracked, End PROVE CallTracked'
<1>1. Len(sink') <= SinkCapacity
  BY CallTrackedParts, Zenon DEF End
<1>2. \A c \in Calls : user'[c] # "waiting"
  BY Zenon DEF End, Users
<1> QED BY <1>1, <1>2, Zenon DEF CallTracked

(***************************************************************************)
(* A call is asked, or given up.                                           *)
(***************************************************************************)
LEMMA TrackUsers ==
  ASSUME DuplexInv, CallTracked, NEW u \in Users, Ask(u) \/ GiveUp(u)
  PROVE  CallTracked'
<1>1. /\ UNCHANGED <<pending, closed>> /\ Traffic' = Traffic /\ Messages' = Messages
      /\ sink' = sink
  BY Zenon DEF Ask, GiveUp, serverVars, Traffic, Messages
<1>2. queue \in Seq(Users) /\ user \in [Users -> {"idle", "waiting", "done", "failed", "gone"}]
  BY Zenon DEF DuplexInv, DuplexTypeOK
<1>3. /\ Range(queue) \subseteq Range(queue')
      /\ \A c \in Users : user'[c] = "waiting" => user[c] = "waiting" \/ c \in Range(queue')
  <2>1. CASE Ask(u) /\ phase # "ended"
    <3>1. /\ queue' = Append(queue, u)
          /\ user' = [user EXCEPT ![u] = IF u \in Notifiers THEN "done" ELSE "waiting"]
      BY <2>1, Zenon DEF Ask
    <3>2. Range(queue') = Range(queue) \cup {u}
      BY <1>2, <3>1, RangeOfAppend, Zenon
    <3> QED BY <1>2, <3>1, <3>2, Zenon
  <2>2. CASE Ask(u) /\ phase = "ended"
    BY <1>2, <2>2, Zenon DEF Ask
  <2>3. CASE GiveUp(u)
    BY <1>2, <2>3, Zenon DEF GiveUp
  <2> QED BY <2>1, <2>2, <2>3, Zenon
<1>4. ASSUME NEW c \in Calls, user'[c] = "waiting", ~closed' PROVE Tracked(c)'
  <2>1. CASE c \in Range(queue')
    BY <2>1, Zenon DEF Tracked
  <2>2. CASE user[c] = "waiting"
    <3>1. Tracked(c)
      BY <1>1, <1>4, <2>2, CallTrackedParts, Zenon
    <3> QED BY <1>1, <1>3, <3>1, Zenon DEF Tracked, UnderWay
  <2> QED BY <1>3, <1>4, <2>1, <2>2, Zenon DEF Users
<1>5. Len(sink') <= SinkCapacity
  BY <1>1, CallTrackedParts, Zenon
<1> QED BY <1>4, <1>5, Zenon DEF CallTracked, Tracked, UnderWay

(***************************************************************************)
(* A call goes from the client channel to the pending requests together    *)
(* with a request under its new id.                                        *)
(***************************************************************************)
LEMMA TrackTakeRequest == ASSUME DuplexInv, CallTracked, TakeRequest PROVE CallTracked'
<1>1. /\ UNCHANGED <<user, closed, sink, requests, wire, incoming>>
      /\ queue # <<>> /\ queue' = Tail(queue)
  BY Zenon DEF TakeRequest, serverVars
<1>2. PICK u : u = Head(queue)
  BY Zenon
<1>3. queue \in Seq(Users) /\ Range(queue) = {u} \cup Range(queue')
  BY <1>1, <1>2, RangeOfTail, Zenon DEF DuplexInv, DuplexTypeOK
<1>4. PICK q : /\ outgoing' = Append(outgoing, q)
               /\ \/ u \in Notifiers /\ UNCHANGED pending
                  \/ u \in Calls \cup Subscribers /\ TakeId(u) /\ q.id = next_id
  BY <1>2 DEF TakeRequest, Request
<1>5. Traffic' = Traffic \cup {q} /\ Messages' = Messages
  BY <1>1, <1>4, RangeOfAppend DEF Traffic, Messages, DuplexInv, TrafficInv
<1>6. \A i : UnderWay(i) => UnderWay(i)'
  BY <1>5, Zenon DEF UnderWay
<1>7. /\ DOMAIN pending \subseteq DOMAIN pending'
      /\ \A i \in DOMAIN pending : pending'[i] = pending[i]
      /\ u \in Calls => \E i \in DOMAIN pending' : pending'[i] = u /\ UnderWay(i)'
  <2>1. CASE u \in Notifiers /\ UNCHANGED pending
    BY <2>1, DuplexAssumption, Zenon
  <2>2. CASE u \in Calls \cup Subscribers /\ TakeId(u) /\ q.id = next_id
    <3>1. /\ DOMAIN pending \subseteq DOMAIN pending' /\ next_id \in DOMAIN pending'
          /\ next_id \notin DOMAIN pending
          /\ \A i \in DOMAIN pending' : \/ i \in DOMAIN pending /\ pending'[i] = pending[i]
                                        \/ i = next_id /\ pending'[i] = u
      BY <2>2, IdTaken, Zenon DEF DuplexInv, PendingShrinks
    <3>2. PICK n : n = next_id
      BY Zenon
    <3>3. UnderWay(n)'
      BY <1>5, <2>2, <3>2, Zenon DEF UnderWay
    <3> QED BY <3>1, <3>2, <3>3, Zenon
  <2> QED BY <1>4, <2>1, <2>2, Zenon
<1>8. ASSUME NEW c \in Calls, user'[c] = "waiting", ~closed' PROVE Tracked(c)'
  <2>1. Tracked(c)
    BY <1>1, <1>8, CallTrackedParts, Zenon
  <2>2. CASE c = u
    BY <1>7, <1>8, <2>2, Zenon DEF Tracked
  <2>3. CASE c # u
    BY <1>3, <1>6, <1>7, <2>1, <2>3, Zenon DEF Tracked
  <2> QED BY <2>2, <2>3, Zenon
<1>9. Len(sink') <= SinkCapacity
  BY <1>1, CallTrackedParts, Zenon
<1> QED BY <1>8, <1>9, Zenon DEF CallTracked, Tracked, UnderWay

(***************************************************************************)
(* Only the answer to a call is consumed with the call's entry.            *)
(***************************************************************************)
LEMMA TrackIncoming == ASSUME DuplexInv, CallTracked, HandleIncoming PROVE CallTracked'
<1>1. PICK m : m = Head(incoming)
  BY Zenon
<1>2. incoming # <<>> /\ incoming \in Seq(GoodMessages) /\ outgoing \in Seq(GoodRequests)
  BY Zenon DEF HandleIncoming, DuplexInv, TrafficInv
<1>3. Range(incoming) = {m} \cup Range(Tail(incoming))
  BY <1>1, <1>2, RangeOfTail, Zenon
<1>4. ASSUME Consume(m), Range(outgoing) \subseteq Range(outgoing'),
             DOMAIN pending \subseteq DOMAIN pending',
             \A i \in DOMAIN pending : pending'[i] = pending[i] \/ i = m.id,
             \A c \in Calls : user'[c] = "waiting" => user[c] = "waiting",
             \A c \in Calls : user'[c] = "waiting" => ~Answers(m, c)
      PROVE  CallTracked'
  <2>1. /\ UNCHANGED <<queue, sink, requests, wire, closed>> /\ incoming' = Tail(incoming)
    BY <1>4, Zenon DEF Consume, serverVars
  <2>2. Traffic \subseteq Traffic' /\ Messages \subseteq Messages' \cup {m}
    BY <1>3, <1>4, <2>1, Zenon DEF Traffic, Messages
  <2>3. \A i : UnderWay(i) /\ i # m.id => UnderWay(i)'
    BY <2>2, Zenon DEF UnderWay
  <2>4. ASSUME NEW c \in Calls, user'[c] = "waiting", ~closed' PROVE Tracked(c)'
    <3>1. Tracked(c) /\ ~Answers(m, c)
      BY <1>4, <2>1, <2>4, CallTrackedParts, Zenon
    <3>2. CASE c \in Range(queue)
      BY <2>1, <3>2, Zenon DEF Tracked
    <3>3. CASE \E i \in DOMAIN pending : pending[i] = c /\ UnderWay(i)
      <4>1. PICK i \in DOMAIN pending : pending[i] = c /\ UnderWay(i)
        BY <3>3, Zenon
      <4>2. i # m.id
        BY <3>1, <4>1, Zenon DEF Answers
      <4>3. i \in DOMAIN pending' /\ pending'[i] = c /\ UnderWay(i)'
        BY <1>4, <2>3, <4>1, <4>2, Zenon
      <4> QED BY <4>3, Zenon DEF Tracked
    <3> QED BY <3>1, <3>2, <3>3, Zenon DEF Tracked
  <2>5. Len(sink') <= SinkCapacity
    BY <2>1, CallTrackedParts, Zenon
  <2> QED BY <2>4, <2>5, Zenon DEF CallTracked, Tracked, UnderWay
<1>5. ASSUME Resolve(m), NEW u, Answers(m, u)
      PROVE  /\ Range(outgoing) \subseteq Range(outgoing')
             /\ DOMAIN pending \subseteq DOMAIN pending'
             /\ \A i \in DOMAIN pending : pending'[i] = pending[i] \/ i = m.id
             /\ \A c : Answers(m, c) => c = u
  BY <1>5, Zenon DEF Resolve, Answers
<1>6. user \in [Users -> {"idle", "waiting", "done", "failed", "gone"}] /\ Calls \subseteq Users
  BY Zenon DEF DuplexInv, DuplexTypeOK, Users
<1>7. CASE AnswerCall(m)
  <2>1. PICK u \in Calls : /\ Answers(m, u) /\ user[u] # "gone" /\ Give(u, m.value, TRUE)
                           /\ Resolve(m) /\ Consume(m)
    BY <1>7, Zenon DEF AnswerCall
  <2>2. user'[u] # "waiting" /\ \A c \in Calls : user'[c] = "waiting" => user[c] = "waiting"
    BY <1>6, <2>1, Zenon DEF Give
  <2> QED BY <1>4, <1>5, <2>1, <2>2
<1>8. CASE AnswerNobody(m)
  BY <1>8, TrackEnd, SMTT(20) DEF AnswerNobody
<1>9. CASE Subscribed(m) \/ SubscriptionRejected(m)
  <2>1. PICK u \in Subscribers : Answers(m, u) /\ Resolve(m) /\ Consume(m)
    BY <1>9, Zenon DEF Subscribed, SubscriptionRejected
  <2>2. \A c \in Calls : user'[c] = "waiting" => user[c] = "waiting"
    BY <1>6, <1>9, ZenonT(30) DEF Subscribed, SubscriptionRejected, Give
  <2>3. \A c \in Calls : ~Answers(m, c)
    BY <1>5, <2>1, DuplexAssumption, Zenon
  <2> QED BY <1>4, <1>5, <2>1, <2>2, <2>3, Zenon
<1>10. ASSUME AnswersNothing(m) PROVE \A c \in Calls : ~Answers(m, c)
  BY <1>10, DuplexAssumption, Zenon DEF AnswersNothing, Answers, Users
<1>11. CASE Deliver(m)
  <2>1. PICK u \in Subscribers :
          /\ AnswersNothing(m) /\ Give(u, m.value, FALSE) /\ Consume(m)
          /\ \/ UNCHANGED <<pending, outgoing>>
             \/ /\ outgoing' = Append(outgoing,
                     [Request("unsubscribe", next_id, u) EXCEPT !.sid = m.sid])
                /\ TakeId(NoUser)
    BY <1>11, Zenon DEF Deliver
  <2>2. user' = user
    BY <2>1, Zenon DEF Give
  <2>3. TakeId(NoUser) => /\ DOMAIN pending \subseteq DOMAIN pending'
                          /\ \A i \in DOMAIN pending : pending'[i] = pending[i]
    BY IdTaken, Zenon DEF DuplexInv, PendingShrinks
  <2>4. \A e : Range(Append(outgoing, e)) = Range(outgoing) \cup {e}
    BY <1>2, RangeOfAppend, Zenon
  <2>5. Range(outgoing) \subseteq Range(outgoing')
    <3>1. CASE outgoing' = outgoing
      BY <3>1, Zenon
    <3>2. CASE \E e : outgoing' = Append(outgoing, e)
      BY <2>4, <3>2, Zenon
    <3> QED BY <2>1, <3>1, <3>2, Zenon
  <2> QED BY <1>4, <1>10, <2>1, <2>2, <2>3, <2>5, Zenon
<1>12. CASE Unexpected(m)
  BY <1>4, <1>10, <1>12, Zenon DEF Unexpected
<1> QED BY <1>1, <1>7, <1>8, <1>9, <1>11, <1>12, Zenon DEF HandleIncoming

(***************************************************************************)
(* The server takes a request away only with its answer.                   *)
(***************************************************************************)
LEMMA TrackServer == ASSUME DuplexInv, CallTracked, Server PROVE CallTracked'
<1>1. UNCHANGED duplexVars /\ (closed => closed')
  <2>1. CASE ServerCloses
    BY <2>1, Zenon DEF ServerCloses
  <2>2. CASE ~ServerCloses
    <3>1. UNCHANGED <<duplexVars, closed>>
      BY <2>2, ZenonT(30) DEF Server, ServerAnswers, AnswerRequest, TakeNotification, AcceptSubscription,
                  AnswerSubscription, Notify, SendOdd, ServerSends
    <3> QED BY <3>1, Zenon
  <2> QED BY <2>1, <2>2, Zenon
<1>2. ASSUME \A i \in DOMAIN pending : UnderWay(i) /\ ~closed' => UnderWay(i)'
      PROVE  CallTracked'
  BY <1>1, <1>2, TrackedStays, CallTrackedParts, Zenon DEF duplexVars
<1>3. wire \in Seq(GoodMessages) /\ requests \subseteq GoodRequests
  BY Zenon DEF DuplexInv, TrafficInv
<1>4. ASSUME NEW m, ServerSends(m)
      PROVE  Messages' = Messages \cup {m} /\ Range(outgoing') = Range(outgoing) /\ sink' = sink
  BY <1>3, <1>4, RangeOfAppend DEF ServerSends, duplexVars, Messages
<1>5. ASSUME NEW q \in requests, AnswerRequest(q) \/ AnswerSubscription(q)
      PROVE  CallTracked'
  <2>1. PICK v : ServerSends(Response(q.id, v))
    BY <1>5, Zenon DEF AnswerRequest, AnswerSubscription
  <2>2. PICK m : m = Response(q.id, v)
    BY Zenon
  <2>3. m.id = q.id /\ requests' = requests \ {q}
    BY <1>5, <2>2, Zenon DEF Response, AnswerRequest, AnswerSubscription
  <2>4. Messages' = Messages \cup {m} /\ Traffic \subseteq Traffic' \cup {q}
    BY <1>4, <2>1, <2>2, <2>3, Zenon DEF Traffic
  <2> QED BY <1>2, <2>3, <2>4, Zenon DEF UnderWay
<1>6. ASSUME NEW q \in requests, TakeNotification(q) PROVE CallTracked'
  <2>1. q.id = NoRequestId
    BY <1>3, <1>6, Zenon DEF TakeNotification, GoodRequests, GoodRequest
  <2>2. \A i \in DOMAIN pending : i # NoRequestId
    BY DuplexAssumption DEF DuplexInv, DuplexTypeOK
  <2>3. Messages' = Messages /\ Traffic \subseteq Traffic' \cup {q}
    BY <1>6, Zenon DEF TakeNotification, duplexVars, Messages, Traffic
  <2> QED BY <1>2, <2>1, <2>2, <2>3, Zenon DEF UnderWay
<1>7. ASSUME NEW q \in requests, AcceptSubscription(q) PROVE CallTracked'
  <2>1. PICK x \in Sids :
          requests' = (requests \ {q}) \cup {[q EXCEPT !.kind = "accepted", !.sid = x]}
    BY <1>7, Zenon DEF AcceptSubscription
  <2>2. PICK a : a = [q EXCEPT !.kind = "accepted", !.sid = x]
    BY Zenon
  <2>3. a.id = q.id
    BY <1>3, <2>2, Zenon DEF GoodRequests
  <2>4. Messages' = Messages /\ Traffic \subseteq Traffic' \cup {q} /\ a \in Traffic'
    BY <1>7, <2>1, <2>2, Zenon DEF AcceptSubscription, duplexVars, Messages, Traffic
  <2> QED BY <1>2, <2>3, <2>4, Zenon DEF UnderWay
<1>8. ASSUME NEW m, ServerSends(m), UNCHANGED requests PROVE CallTracked'
  BY <1>2, <1>4, <1>8, Zenon DEF UnderWay, Traffic
<1>9. CASE (\E b \in Subscribers : Notify(b)) \/ SendOdd
  BY <1>8, <1>9, Zenon DEF Notify, SendOdd
<1>10. CASE ServerCloses
  BY <1>2, <1>10, Zenon DEF ServerCloses
<1> QED BY <1>5, <1>6, <1>7, <1>9, <1>10, Zenon DEF Server, ServerAnswers

(***************************************************************************)
(* No call is lost inside the client, and nothing is pushed into a sink    *)
(* that is not ready, whatever its capacity.                               *)
(***************************************************************************)
THEOREM NoCallIsLost == DuplexSpec => []CallTracked
<1>1. DuplexInit => CallTracked
  BY DuplexAssumption DEF DuplexInit, CallTracked, Users
<1>2. ASSUME DuplexInv, CallTracked, [DuplexNext]_linkVars PROVE CallTracked'
  <2>1. ASSUME UNCHANGED <<user, queue, pending, outgoing, sink, requests, wire, incoming, closed>>
        PROVE  CallTracked'
    BY <1>2, <2>1 DEF CallTracked, Traffic, Messages
  <2>2. CASE DropHandles \/ NoMoreRequests \/ StreamPending \/ IncomingHandled \/ PollAgain
    BY <2>1, <2>2, Zenon DEF DropHandles, NoMoreRequests, StreamPending, IncomingHandled, PollAgain,
                      serverVars
  <2>3. CASE ParseError \/ StreamClosed \/ SinkFails
    BY <1>2, <2>3, TrackEnd, Zenon DEF ParseError, StreamClosed, SinkFails
  <2>4. CASE FinishPoll
    <3>1. CASE End
      BY <1>2, <3>1, TrackEnd, Zenon
    <3>2. CASE ~End
      BY <2>1, <2>4, <3>2, Zenon DEF FinishPoll, serverVars
    <3> QED BY <3>1, <3>2, Zenon
  <2>5. CASE UNCHANGED linkVars
    BY <2>1, <2>5, Zenon DEF linkVars, duplexVars, serverVars
  <2> QED BY <1>2, <2>2, <2>3, <2>4, <2>5, TrackUsers, TrackTakeRequest, TrackMoves,
             TrackIncoming, TrackServer, Zenon DEF DuplexNext, PollClient
<1> QED BY <1>1, <1>2, DuplexInvariance, PTL DEF DuplexSpec

-----------------------------------------------------------------------------
(***************************************************************************)
(* The two ways as one queue each: requests on their way to the transport, *)
(* and messages on their way to a user.                                    *)
(***************************************************************************)
Up == sink \o outgoing

Down == incoming \o wire

IsNote(m) == m.method # NoName

(***************************************************************************)
(* Request q subscribes b, message m answers it, and b has a request that  *)
(* the server has not answered yet.                                        *)
(***************************************************************************)
Subscribes(q, b) == q.kind \in {"subscribe", "accepted"} /\ q.user = b

AnswersTo(p, m, b) == m.id \in DOMAIN p /\ p[m.id] = b

Sent(b) ==
  \/ \E i \in DOMAIN Up : Subscribes(Up[i], b)
  \/ \E q \in requests : Subscribes(q, b)

(***************************************************************************)
(* A subscriber has one request at most.                                   *)
(***************************************************************************)
SentOnce(b) ==
  /\ \A i, j \in DOMAIN Up : Subscribes(Up[i], b) /\ Subscribes(Up[j], b) => i = j
  /\ \A q, r \in requests : Subscribes(q, b) /\ Subscribes(r, b) => q = r
  /\ \A i \in DOMAIN Up, q \in requests : ~(Subscribes(Up[i], b) /\ Subscribes(q, b))

(***************************************************************************)
(* The stages of a subscription: b has not asked, has asked, is answered,  *)
(* is in the map.  The server has it live only under the id it answers.    *)
(***************************************************************************)
Stage(b) ==
  /\ user[b] = "idle" \/ b \in Range(queue) => got[b] = <<>> /\ live[b] = NoSid /\ ~Sent(b)
  /\ Sent(b) => /\ got[b] = <<>>
                /\ \A i \in DOMAIN Down : ~AnswersTo(pending, Down[i], b)
                /\ \A k \in MapKeys : subscriptions[k] # b
  /\ \A i \in DOMAIN Up : Subscribes(Up[i], b) => live[b] = NoSid
  /\ \A q \in requests : Subscribes(q, b) => live[b] \in {q.sid, NoSid}
  /\ \A i \in DOMAIN pending : pending[i] = b => got[b] = <<>>
  /\ \A i \in DOMAIN Down : AnswersTo(pending, Down[i], b) /\ Down[i].value[1] = "sid"
                              => live[b] \in {Down[i].value[2], NoSid}
  /\ \A k \in MapKeys : subscriptions[k] = b => /\ k[2] = NameOf[b]
                                             /\ live[b] \in {k[1], NoSid}
                                             /\ \A i \in DOMAIN got[b] : got[b][i][1] = "note"

(***************************************************************************)
(* While b is live, what reached it is its own.  A notification of another *)
(* subscription with b's id and name was sent before the answer to b: b is *)
(* not in the map yet, and its answer is behind that notification.         *)
(***************************************************************************)
Foreign(x, m, b) ==
  IsNote(m) /\ m.sid = x /\ m.method = NameOf[b] /\ m.value[2] # b

Own(b) ==
  live[b] # NoSid =>
    /\ \A i \in DOMAIN got[b] : got[b][i][2] = b
    /\ \A j \in DOMAIN Down : Foreign(live[b], Down[j], b) =>
         /\ \A k \in MapKeys : subscriptions[k] # b
         /\ \A i \in DOMAIN Down : i <= j => ~AnswersTo(pending, Down[i], b)

(***************************************************************************)
(* Notifications are numbered in the order they are sent; what b received  *)
(* is in that order, and before what is on its way.                        *)
(***************************************************************************)
Ordered(b) ==
  /\ \A i \in DOMAIN got[b] :
       got[b][i][1] = "note" =>
         /\ got[b][i][3] <= notes
         /\ \A j \in DOMAIN Down : IsNote(Down[j]) => got[b][i][3] < Down[j].value[3]
  /\ \A i, j \in DOMAIN got[b] :
       i < j => got[b][i][1] = "note" /\ got[b][j][1] = "note" /\ got[b][i][3] < got[b][j][3]

DownOrdered ==
  /\ \A j \in DOMAIN Down : IsNote(Down[j]) => Down[j].value[3] <= notes
  /\ \A i, j \in DOMAIN Down :
       i < j /\ IsNote(Down[i]) /\ IsNote(Down[j]) => Down[i].value[3] < Down[j].value[3]

OneLive ==
  \A b, c \in Subscribers :
    live[b] = live[c] /\ live[b] # NoSid /\ NameOf[b] = NameOf[c] => b = c

NoteInv ==
  /\ \A b \in Subscribers : SentOnce(b) /\ Stage(b) /\ Own(b) /\ Ordered(b)
  /\ \A i \in DOMAIN Up : Up[i].kind # "accepted"
  /\ DownOrdered /\ OneLive

(***************************************************************************)
(* The types of the two queues, and of the notifications in them.          *)
(***************************************************************************)
LEMMA QueueTypes ==
  ASSUME DuplexInv
  PROVE  /\ Up \in Seq(GoodRequests) /\ Down \in Seq(GoodMessages)
         /\ incoming \in Seq(GoodMessages) /\ wire \in Seq(GoodMessages)
         /\ sink \in Seq(GoodRequests) /\ outgoing \in Seq(GoodRequests)
BY DEF DuplexInv, TrafficInv, Up, Down

LEMMA QueueTypesNext ==
  ASSUME DuplexInv'
  PROVE  Up' \in Seq(GoodRequests') /\ Down' \in Seq(GoodMessages')
BY DEF DuplexInv, TrafficInv, Up, Down

LEMMA NoteNumbers ==
  /\ \A m \in GoodMessages : IsNote(m) => /\ m.value[1] = "note" /\ m.value[3] \in 1 .. MaxNotes
                                          /\ m.sid \in Sids /\ m.method \in Names
                                          /\ m.value \in Values
  /\ \A v \in Values : v[1] = "note" => v[3] \in 1 .. MaxNotes
<1>1. \A v \in Notes : v[1] = "note" /\ v[3] \in 1 .. MaxNotes /\ v \in Values
  <2> TAKE v \in Notes
  <2>1. PICK b \in Subscribers, k \in 1 .. MaxNotes : v = <<"note", b, k>>
    BY DEF Notes
  <2>2. v \in Values
    BY DEF Notes, Values
  <2> QED BY <2>1, <2>2, Zenon
<1>2. ASSUME NEW m \in GoodMessages, IsNote(m)
      PROVE  m.value \in Notes /\ m.sid \in Sids /\ m.method \in Names
  BY <1>2, Zenon DEF GoodMessages, GoodMessage, IsNote
<1>3. ASSUME NEW v \in Values, v[1] = "note" PROVE v \in Notes
  <2>1. CASE v \in {<<o, u>> : o \in {"ok", "err"}, u \in Users}
    <3>1. PICK o \in {"ok", "err"}, u \in Users : v = <<o, u>>
      BY <2>1
    <3>2. v[1] = o
      BY <3>1, Zenon
    <3> QED BY <1>3, <3>2, Zenon
  <2>2. v \in {<<o, u>> : o \in {"ok", "err"}, u \in Users} \/ v \in Notes
    BY DEF Values, Notes
  <2> QED BY <2>1, <2>2
<1> QED BY <1>1, <1>2, <1>3, Zenon

(***************************************************************************)
(* How the steps move the two queues.                                      *)
(***************************************************************************)
LEMMA AppendLast ==
  ASSUME NEW S, NEW s \in Seq(S), NEW t \in Seq(S), NEW e
  PROVE  s \o Append(t, e) = Append(s \o t, e)
OBVIOUS

LEMMA Concatenations ==
  ASSUME NEW S, NEW s \in Seq(S), NEW t \in Seq(S)
  PROVE  /\ t # <<>> => Append(s, Head(t)) \o Tail(t) = s \o t
         /\ s # <<>> => /\ s \o t # <<>> /\ Head(s \o t) = Head(s)
                       /\ Tail(s) \o t = Tail(s \o t)
         /\ Len(s) \in Nat
         /\ \A i \in DOMAIN t : i + Len(s) \in DOMAIN (s \o t) /\ t[i] = (s \o t)[i + Len(s)]
         /\ \A i \in DOMAIN s : i \in DOMAIN (s \o t) /\ s[i] = (s \o t)[i]
<1>2. ASSUME t # <<>> PROVE Append(s, Head(t)) \o Tail(t) = s \o t
  BY <1>2, SMTT(30)
<1>3. ASSUME s # <<>> PROVE /\ s \o t # <<>> /\ Head(s \o t) = Head(s)
                            /\ Tail(s) \o t = Tail(s \o t)
  BY <1>3
<1>4. /\ Len(s) \in Nat /\ DOMAIN s = 1 .. Len(s) /\ DOMAIN t = 1 .. Len(t) /\ Len(t) \in Nat
      /\ DOMAIN (s \o t) = 1 .. Len(s) + Len(t)
  OBVIOUS
<1>5. ASSUME NEW i \in 1 .. Len(t)
      PROVE  i + Len(s) \in 1 .. Len(s) + Len(t) /\ t[i] = (s \o t)[i + Len(s)]
  BY <1>4
<1>6. ASSUME NEW i \in 1 .. Len(s)
      PROVE  i \in 1 .. Len(s) + Len(t) /\ s[i] = (s \o t)[i]
  BY <1>4
<1> QED BY <1>2, <1>3, <1>4, <1>5, <1>6, Zenon

(***************************************************************************)
(* A step brings subscriber b nothing new: it takes d messages away, and   *)
(* those it adds neither answer b nor are foreign to it.                   *)
(***************************************************************************)
NothingNew(b, d) ==
  /\ user'[b] = "idle" => user[b] = "idle"
  /\ b \in Range(queue') => b \in Range(queue) \/ user[b] = "idle"
  /\ got'[b] = got[b]
  /\ live'[b] \in {live[b], NoSid}
  /\ \A k \in MapKeys : subscriptions'[k] = b => subscriptions[k] = b
  /\ \A i \in DOMAIN pending' : pending'[i] = b => i \in DOMAIN pending /\ pending[i] = b
  /\ \A i \in DOMAIN Up' : Subscribes(Up'[i], b) => \E j \in DOMAIN Up : Up[j] = Up'[i]
  /\ \A q \in requests' : Subscribes(q, b) => q \in requests \/ \E j \in DOMAIN Up : Up[j] = q
  /\ \A i \in DOMAIN Down' :
       \/ i + d \in DOMAIN Down /\ Down'[i] = Down[i + d]
       \/ ~AnswersTo(pending', Down'[i], b) /\ ~Foreign(live'[b], Down'[i], b)

LEMMA StageStays ==
  ASSUME NEW b \in Subscribers, NEW d \in Nat, Stage(b), NothingNew(b, d)
  PROVE  Stage(b)'
<1>1. Sent(b)' => Sent(b)
  BY Zenon DEF NothingNew, Sent
<1>2. ASSUME NEW i \in DOMAIN Down', AnswersTo(pending', Down'[i], b)
      PROVE  i + d \in DOMAIN Down /\ Down'[i] = Down[i + d] /\ AnswersTo(pending, Down[i + d], b)
  BY <1>2, Zenon DEF NothingNew, AnswersTo
<1>3. (user'[b] = "idle" \/ b \in Range(queue')) => got'[b] = <<>> /\ live'[b] = NoSid /\ ~Sent(b)'
  BY <1>1, Zenon DEF NothingNew, Stage
<1>4. Sent(b)' => /\ got'[b] = <<>>
                  /\ \A i \in DOMAIN Down' : ~AnswersTo(pending', Down'[i], b)
                  /\ \A k \in MapKeys : subscriptions'[k] # b
  BY <1>1, <1>2, Zenon DEF NothingNew, Stage
<1>5. \A i \in DOMAIN Up' : Subscribes(Up'[i], b) => live'[b] = NoSid
  BY Zenon DEF NothingNew, Stage
<1>6. \A q \in requests' : Subscribes(q, b) => live'[b] \in {q.sid, NoSid}
  BY Zenon DEF NothingNew, Stage
<1>7. \A i \in DOMAIN pending' : pending'[i] = b => got'[b] = <<>>
  BY Zenon DEF NothingNew, Stage
<1>8. ASSUME NEW i \in DOMAIN Down', AnswersTo(pending', Down'[i], b), Down'[i].value[1] = "sid"
      PROVE  live'[b] \in {Down'[i].value[2], NoSid}
  <2>1. i + d \in DOMAIN Down /\ Down'[i] = Down[i + d] /\ AnswersTo(pending, Down[i + d], b)
    BY <1>2, <1>8, Zenon
  <2>2. live[b] \in {Down[i + d].value[2], NoSid}
    BY <1>8, <2>1, Zenon DEF Stage
  <2> QED BY <2>1, <2>2, Zenon DEF NothingNew
<1>9. \A k \in MapKeys : subscriptions'[k] = b =>
                        /\ k[2] = NameOf[b] /\ live'[b] \in {k[1], NoSid}
                        /\ \A i \in DOMAIN got'[b] : got'[b][i][1] = "note"
  BY Zenon DEF NothingNew, Stage
<1> QED BY <1>3, <1>4, <1>5, <1>6, <1>7, <1>8, <1>9, Zenon DEF Stage

LEMMA OwnStays ==
  ASSUME DuplexInv, DuplexInv', NEW b \in Subscribers, NEW d \in Nat, Own(b), NothingNew(b, d)
  PROVE  Own(b)'
<1> SUFFICES ASSUME live'[b] # NoSid PROVE Own(b)'
  BY Zenon DEF Own
<1>1. live'[b] = live[b] /\ got'[b] = got[b] /\ live[b] # NoSid
  BY Zenon DEF NothingNew
<1>2. ASSUME NEW j \in DOMAIN Down', Foreign(live'[b], Down'[j], b)
      PROVE  j + d \in DOMAIN Down /\ Foreign(live[b], Down[j + d], b)
  BY <1>1, <1>2, Zenon DEF NothingNew, Foreign
<1>3. ASSUME NEW i \in DOMAIN Down', AnswersTo(pending', Down'[i], b)
      PROVE  i + d \in DOMAIN Down /\ AnswersTo(pending, Down[i + d], b)
  BY <1>3, Zenon DEF NothingNew, AnswersTo
<1>4. \A i \in DOMAIN Down' : i \in Nat
  BY QueueTypesNext
<1>5. ASSUME NEW j \in DOMAIN Down', Foreign(live'[b], Down'[j], b)
      PROVE  /\ \A k \in MapKeys : subscriptions'[k] # b
             /\ \A i \in DOMAIN Down' : i <= j => ~AnswersTo(pending', Down'[i], b)
  <2>1. j + d \in DOMAIN Down /\ Foreign(live[b], Down[j + d], b)
    BY <1>2, <1>5, Zenon
  <2>2. /\ \A k \in MapKeys : subscriptions[k] # b
        /\ \A i \in DOMAIN Down : i <= j + d => ~AnswersTo(pending, Down[i], b)
    BY <1>1, <2>1, Zenon DEF Own
  <2>3. \A i \in DOMAIN Down' : i <= j => i + d <= j + d
    BY <1>4
  <2> QED BY <1>3, <2>2, <2>3, Zenon DEF NothingNew
<1>6. \A i \in DOMAIN got'[b] : got'[b][i][2] = b
  BY <1>1, Zenon DEF Own
<1> QED BY <1>5, <1>6, Zenon DEF Own

(***************************************************************************)
(* Messages keep their order where a step takes some away and adds none    *)
(* that is a notification; nor does it disturb what b received.            *)
(***************************************************************************)
NoNewNote(d) ==
  /\ notes' = notes
  /\ \A i \in DOMAIN Down' : IsNote(Down'[i]) => i + d \in DOMAIN Down /\ Down'[i] = Down[i + d]

LEMMA OrderStays ==
  ASSUME DuplexInv', NEW d \in Nat, NoNewNote(d)
  PROVE  /\ DownOrdered => DownOrdered'
         /\ \A b \in Subscribers : Ordered(b) /\ got'[b] = got[b] => Ordered(b)'
<1>1. \A i, j \in DOMAIN Down' : i < j => i + d < j + d
  BY QueueTypesNext
<1>2. ASSUME DownOrdered PROVE DownOrdered'
  BY <1>1, <1>2, Zenon DEF NoNewNote, DownOrdered
<1>3. ASSUME NEW b \in Subscribers, Ordered(b), got'[b] = got[b] PROVE Ordered(b)'
  BY <1>3, Zenon DEF NoNewNote, Ordered
<1> QED BY <1>2, <1>3, Zenon

(***************************************************************************)
(* Queue t is what is left of s after d elements, and e perhaps.           *)
(***************************************************************************)
Left(t, s, d) == \A i \in DOMAIN t : i + d \in DOMAIN s /\ t[i] = s[i + d]

LeftAnd(t, s, d, e) == \A i \in DOMAIN t : (i + d \in DOMAIN s /\ t[i] = s[i + d]) \/ t[i] = e

LEMMA Shifts ==
  ASSUME NEW S, NEW s \in Seq(S), NEW e
  PROVE  /\ Left(s, s, 0)
         /\ s # <<>> => Left(Tail(s), s, 1)
         /\ LeftAnd(Append(s, e), s, 0, e)
         /\ DOMAIN Append(s, e) = 1 .. Len(s) + 1 /\ DOMAIN s = 1 .. Len(s) /\ Len(s) \in Nat
         /\ Append(s, e)[Len(s) + 1] = e /\ \A i \in DOMAIN s : Append(s, e)[i] = s[i]
<1>1. \A i \in DOMAIN s : i + 0 = i
  OBVIOUS
<1>2. Left(s, s, 0)
  BY <1>1, Zenon DEF Left
<1>3. ASSUME s # <<>> PROVE Left(Tail(s), s, 1)
  <2>1. \A i \in DOMAIN Tail(s) : i + 1 \in DOMAIN s /\ Tail(s)[i] = s[i + 1]
    BY <1>3, TailOfSeq
  <2> QED BY <2>1, Zenon DEF Left
<1>4. ASSUME NEW i \in DOMAIN Append(s, e)
      PROVE  (i + 0 \in DOMAIN s /\ Append(s, e)[i] = s[i + 0]) \/ Append(s, e)[i] = e
  OBVIOUS
<1>5. LeftAnd(Append(s, e), s, 0, e)
  BY <1>4, Zenon DEF LeftAnd
<1> QED BY <1>2, <1>3, <1>5

(***************************************************************************)
(* A step that brings no subscriber anything new, and no new request of    *)
(* one: it takes d messages and e requests away.                           *)
(***************************************************************************)
Quiet(d, e) ==
  /\ \A b \in Subscribers : NothingNew(b, d)
  /\ NoNewNote(d)
  /\ \A i \in DOMAIN Up' : Up'[i].kind \in {"subscribe", "accepted"} =>
       i + e \in DOMAIN Up /\ Up'[i] = Up[i + e]
  /\ requests' \subseteq requests

LEMMA QuietKeeps ==
  ASSUME DuplexInv, DuplexInv', NoteInv, NEW d \in Nat, NEW e \in Nat, Quiet(d, e)
  PROVE  NoteInv'
<1>1. ASSUME NEW b \in Subscribers PROVE Stage(b)' /\ Own(b)' /\ Ordered(b)'
  <2>1. NothingNew(b, d) /\ NoNewNote(d) /\ Stage(b) /\ Own(b) /\ Ordered(b) /\ got'[b] = got[b]
    BY Zenon DEF Quiet, NoteInv, NothingNew
  <2> QED BY <2>1, StageStays, OwnStays, OrderStays, Zenon
<1>2. DownOrdered'
  BY OrderStays, Zenon DEF Quiet, NoteInv
<1>3. OneLive'
  <2>1. \A b \in Subscribers : live'[b] \in {live[b], NoSid}
    BY Zenon DEF Quiet, NothingNew
  <2> QED BY <2>1, Zenon DEF NoteInv, OneLive
<1>4. \A i \in DOMAIN Up' : Up'[i].kind # "accepted"
  BY Zenon DEF Quiet, NoteInv
<1>5. ASSUME NEW b \in Subscribers PROVE SentOnce(b)'
  <2>1. SentOnce(b)
    BY Zenon DEF NoteInv
  <2>2. \A i \in DOMAIN Up' : Subscribes(Up'[i], b) => i + e \in DOMAIN Up /\ Up'[i] = Up[i + e]
    BY Zenon DEF Quiet, Subscribes
  <2>3. \A i, j \in DOMAIN Up' : i + e = j + e => i = j
    BY QueueTypesNext
  <2>4. \A i, j \in DOMAIN Up' : Subscribes(Up'[i], b) /\ Subscribes(Up'[j], b) => i = j
    BY <2>1, <2>2, <2>3, Zenon DEF SentOnce
  <2>5. \A q, r \in requests' : Subscribes(q, b) /\ Subscribes(r, b) => q = r
    BY <2>1, Zenon DEF SentOnce, Quiet
  <2>6. \A i \in DOMAIN Up', q \in requests' : ~(Subscribes(Up'[i], b) /\ Subscribes(q, b))
    BY <2>1, <2>2, Zenon DEF SentOnce, Quiet
  <2> QED BY <2>4, <2>5, <2>6, Zenon DEF SentOnce
<1> QED BY <1>1, <1>2, <1>3, <1>4, <1>5, Zenon DEF NoteInv

(***************************************************************************)
(* The quiet steps.  First those that leave both queues as they are.       *)
(***************************************************************************)
LEMMA NothingMoves ==
  ASSUME DuplexInv, DuplexInv', NoteInv, Up' = Up, Down' = Down, requests' \subseteq requests,
         UNCHANGED <<got, live, notes, subscriptions, pending>>,
         \A b \in Subscribers : user'[b] = "idle" => user[b] = "idle",
         \A b \in Subscribers : b \in Range(queue') => b \in Range(queue) \/ user[b] = "idle"
  PROVE  NoteInv'
<1>1. Left(Up', Up, 0) /\ Left(Down', Down, 0)
  BY QueueTypes, Shifts, Zenon
<1>2. ASSUME NEW b \in Subscribers PROVE NothingNew(b, 0)
  BY <1>1, Zenon DEF NothingNew, Left
<1>3. NoNewNote(0)
  BY <1>1, Zenon DEF NoNewNote, Left
<1>4. Quiet(0, 0)
  BY <1>1, <1>2, <1>3, Zenon DEF Quiet, Left
<1>5. 0 \in Nat
  BY Zenon
<1> QED BY <1>4, <1>5, QuietKeeps, Zenon

LEMMA NoteMoves ==
  ASSUME DuplexInv, DuplexInv', NoteInv,
         \/ \E u \in Users : Ask(u) \/ GiveUp(u)
         \/ ControlStep
         \/ SendRequest \/ ReadMessage
         \/ ServerCloses
         \/ \E q \in requests : TakeNotification(q)
  PROVE  NoteInv'
<1>1. /\ queue \in Seq(Users) /\ user \in [Users -> {"idle", "waiting", "done", "failed", "gone"}]
      /\ Subscribers \subseteq Users
  BY Zenon DEF DuplexInv, DuplexTypeOK, Users
<1>2. CASE \E u \in Users : Ask(u) \/ GiveUp(u)
  <2>1. PICK u \in Users : Ask(u) \/ GiveUp(u)
    BY <1>2, Zenon
  <2>2. /\ Up' = Up /\ Down' = Down /\ requests' \subseteq requests
        /\ UNCHANGED <<got, live, notes, subscriptions, pending>>
    BY <2>1, Zenon DEF Ask, GiveUp, serverVars, Up, Down
  <2>3. \A b \in Subscribers : user'[b] = "idle" => user[b] = "idle"
    BY <1>1, <2>1, Zenon DEF Ask, GiveUp
  <2>4. queue' = queue \/ (queue' = Append(queue, u) /\ user[u] = "idle")
    BY <2>1, Zenon DEF Ask, GiveUp
  <2>5. Range(Append(queue, u)) = Range(queue) \cup {u}
    BY <1>1, RangeOfAppend, Zenon
  <2>6. \A b \in Subscribers : b \in Range(queue') => b \in Range(queue) \/ user[b] = "idle"
    BY <2>4, <2>5, Zenon
  <2> QED BY <2>2, <2>3, <2>6, NothingMoves, Zenon
<1>3. CASE ControlStep
  <2>1. Up' = Up /\ Down' = Down /\ requests' \subseteq requests
    BY <1>3, Zenon DEF ControlStep, Up, Down
  <2> QED BY <1>3, <2>1, NothingMoves, Zenon DEF ControlStep
<1>4. CASE SendRequest \/ ReadMessage
  <2>1. \/ /\ outgoing # <<>> /\ sink' = Append(sink, Head(outgoing)) /\ outgoing' = Tail(outgoing)
           /\ UNCHANGED <<incoming, wire>>
        \/ /\ wire # <<>> /\ incoming' = Append(incoming, Head(wire)) /\ wire' = Tail(wire)
           /\ UNCHANGED <<sink, outgoing>>
    BY <1>4, Zenon DEF SendRequest, ReadMessage, serverVars
  <2>2. Up' = Up /\ Down' = Down
    BY <2>1, QueueTypes, Concatenations, ZenonT(60) DEF Up, Down
  <2>3. UNCHANGED <<got, live, notes, subscriptions, pending, requests, user, queue>>
    BY <1>4, Zenon DEF SendRequest, ReadMessage, serverVars
  <2> QED BY <2>2, <2>3, NothingMoves, Zenon
<1>5. CASE ServerCloses \/ \E q \in requests : TakeNotification(q)
  <2>1. /\ UNCHANGED <<got, live, notes, subscriptions, pending, user, queue, sink, outgoing,
                       incoming, wire>>
        /\ requests' \subseteq requests
    BY <1>5, Zenon DEF ServerCloses, TakeNotification, duplexVars
  <2>2. Up' = Up /\ Down' = Down
    BY <2>1, Zenon DEF Up, Down
  <2> QED BY <2>1, <2>2, NothingMoves, Zenon
<1> QED BY <1>2, <1>3, <1>4, <1>5, Zenon

(***************************************************************************)
(* The end of the task drops what it holds.                                *)
(***************************************************************************)
LEMMA NoteEnd == ASSUME DuplexInv, DuplexInv', NoteInv, End PROVE NoteInv'
<1> DEFINE d == Len(incoming)
<1>1. /\ UNCHANGED <<sink, wire, requests, got, live, notes>>
      /\ outgoing' = <<>> /\ incoming' = <<>> /\ queue' = <<>>
      /\ user' = [u \in Users |-> IF user[u] = "waiting" THEN "failed" ELSE user[u]]
      /\ pending' = [i \in DOMAIN pending |-> NoUser]
      /\ subscriptions' = [k \in MapKeys |-> NoUser]
  BY Zenon DEF End, serverVars
<1>2. Up' = sink /\ Down' = wire /\ d \in Nat
  BY <1>1, QueueTypes DEF Up, Down
<1>3. Left(Down', Down, d) /\ \A i \in DOMAIN Up' : i \in DOMAIN Up /\ Up'[i] = Up[i]
  BY <1>2, QueueTypes, Concatenations, ZenonT(60) DEF Left, Up, Down
<1>4. \A i \in DOMAIN Up' : i + 0 = i
  BY QueueTypesNext
<1>5. NoUser \notin Subscribers /\ Subscribers \subseteq Users
  BY DuplexAssumption, Zenon DEF Users
<1>6. ASSUME NEW b \in Subscribers PROVE NothingNew(b, d)
  <2>1. user'[b] = "idle" => user[b] = "idle"
    BY <1>1, <1>5, Zenon
  <2>2. b \notin Range(queue')
    BY <1>1 DEF Range
  <2>3. /\ \A k \in MapKeys : subscriptions'[k] # b
        /\ \A i \in DOMAIN pending' : pending'[i] # b
    BY <1>1, <1>5, Zenon
  <2> HIDE DEF d
  <2> QED BY <1>1, <1>3, <2>1, <2>2, <2>3, Zenon DEF NothingNew, Left
<1> HIDE DEF d
<1>7. NoNewNote(d)
  BY <1>1, <1>3, Zenon DEF NoNewNote, Left
<1>8. Quiet(d, 0) /\ 0 \in Nat
  BY <1>1, <1>3, <1>4, <1>6, <1>7, Zenon DEF Quiet
<1> QED BY <1>2, <1>8, QuietKeeps, Zenon

(***************************************************************************)
(* The ids in use are below the next one.                                  *)
(***************************************************************************)
LEMMA NextIdIsNew ==
  ASSUME DuplexInv
  PROVE  /\ \A i \in DOMAIN Down : Down[i].id # next_id
         /\ next_id \notin DOMAIN pending
<1>1. DOMAIN pending = 0 .. next_id - 1 /\ next_id \in Nat /\ next_id \notin DOMAIN pending
  BY DEF DuplexInv, DuplexTypeOK
<1>2. \A m \in GoodMessages : m.id = NoRequestId \/ m.id \in DOMAIN pending
  BY Zenon DEF GoodMessages, GoodMessage, Given
<1>3. \A i \in DOMAIN Down : Down[i] \in GoodMessages
  BY QueueTypes
<1>4. NoRequestId # next_id
  BY <1>1, DuplexAssumption, Zenon
<1> QED BY <1>1, <1>2, <1>3, <1>4, Zenon

(***************************************************************************)
(* A request is taken from the client channel.  Only that of a subscriber  *)
(* is more than a quiet step: it is the first of that subscriber.          *)
(***************************************************************************)
LEMMA NoteTakeRequest == ASSUME DuplexInv, DuplexInv', NoteInv, TakeRequest PROVE NoteInv'
<1>1. /\ queue # <<>> /\ queue' = Tail(queue)
      /\ UNCHANGED <<subscriptions, incoming, sink, user, got, requests, wire, live, notes>>
  BY Zenon DEF TakeRequest, serverVars
<1>2. /\ queue \in Seq(Users) /\ Subscribers \subseteq Users /\ DuplexTypeOK
      /\ NoUser \notin Subscribers
      /\ Calls \cap Subscribers = {} /\ Notifiers \cap (Calls \cup Subscribers) = {}
  BY DuplexAssumption, Zenon DEF DuplexInv, DuplexTypeOK, Users
<1>3. PICK u \in Users : u = Head(queue)
  BY <1>1, <1>2, TailOfSeq, Zenon
<1>4. PICK r : /\ outgoing' = Append(outgoing, r)
               /\ \/ u \notin Subscribers /\ r.kind \notin {"subscribe", "accepted"}
                  \/ u \in Subscribers /\ r = Request("subscribe", next_id, u)
               /\ UNCHANGED <<next_id, pending>> \/ (u \in Calls \cup Subscribers /\ TakeId(u))
  <2>1. CASE u \in Notifiers
    <3>1. outgoing' = Append(outgoing, Request("notify", NoRequestId, u)) /\ UNCHANGED <<next_id, pending>>
      BY <1>2, <1>3, <2>1, Zenon DEF TakeRequest
    <3>2. Request("notify", NoRequestId, u).kind \notin {"subscribe", "accepted"}
      BY Zenon DEF Request
    <3> QED BY <1>2, <2>1, <3>1, <3>2, Zenon
  <2>2. CASE u \in Calls
    <3>1. outgoing' = Append(outgoing, Request("call", next_id, u)) /\ TakeId(u)
      BY <1>2, <1>3, <2>2, Zenon DEF TakeRequest
    <3>2. Request("call", next_id, u).kind \notin {"subscribe", "accepted"}
      BY Zenon DEF Request
    <3> QED BY <1>2, <2>2, <3>1, <3>2, Zenon
  <2>3. CASE u \in Subscribers
    <3>1. outgoing' = Append(outgoing, Request("subscribe", next_id, u)) /\ TakeId(u)
      BY <1>2, <1>3, <2>3, Zenon DEF TakeRequest
    <3> QED BY <1>2, <2>3, <3>1, Zenon
  <2> QED BY <2>1, <2>2, <2>3, Zenon DEF Users
<1>5. Up' = Append(Up, r) /\ Down' = Down
  BY <1>1, <1>4, QueueTypes, AppendLast DEF Up, Down
<1>6. Left(Down', Down, 0) /\ LeftAnd(Up', Up, 0, r)
  BY <1>5, QueueTypes, Shifts, Zenon
<1>7. Range(queue) = {u} \cup Range(queue')
  BY <1>1, <1>2, <1>3, RangeOfTail, Zenon
<1>8. \A i \in DOMAIN pending' : \/ i \in DOMAIN pending /\ pending'[i] = pending[i]
                                 \/ i = next_id /\ pending'[i] = u
  BY <1>2, <1>4, IdTaken, Zenon
<1>9. \A i \in DOMAIN Up : i + 0 = i /\ i \in Nat
  BY QueueTypes
<1>10. ASSUME NEW b \in Subscribers, b # u PROVE NothingNew(b, 0)
  <2>1. ~Subscribes(r, b)
    BY <1>4, <1>10 DEF Subscribes, Request
  <2>2. \A i \in DOMAIN Up' : Subscribes(Up'[i], b) => \E j \in DOMAIN Up : Up[j] = Up'[i]
    BY <1>6, <1>9, <2>1, Zenon DEF LeftAnd
  <2> QED BY <1>1, <1>6, <1>7, <1>8, <1>10, <2>2, Zenon DEF NothingNew, Left
<1>11. NoNewNote(0)
  BY <1>1, <1>6, Zenon DEF NoNewNote, Left
<1>12. 0 \in Nat
  BY Zenon
<1>13. CASE u \notin Subscribers
  <2>1. Quiet(0, 0)
    BY <1>1, <1>4, <1>6, <1>10, <1>11, <1>13, Zenon DEF Quiet, LeftAnd
  <2> QED BY <1>12, <2>1, QuietKeeps, Zenon
<1>14. CASE u \in Subscribers
  <2>1. r = Request("subscribe", next_id, u) /\ ~(r.kind = "accepted")
    BY <1>4, <1>14 DEF Request
  <2>2. /\ u \in Range(queue) /\ got[u] = <<>> /\ live[u] = NoSid /\ ~Sent(u)
    BY <1>7, <1>14, Zenon DEF NoteInv, Stage
  <2>3. PICK h \in DOMAIN queue : h = 1 /\ queue[h] = u
    BY <1>1, <1>2, <1>3, TailOfSeq, Zenon
  <2>4. /\ user[u] # "idle"
        /\ \A k \in MapKeys : subscriptions[k] # u
        /\ \A j \in DOMAIN pending : pending[j] # u
    BY <2>3, Zenon DEF DuplexInv, PlaceInv
  <2>5. u \notin Range(queue')
    <3>1. \A j \in DOMAIN queue' : j + 1 \in DOMAIN queue /\ queue'[j] = queue[j + 1] /\ j + 1 # 1
      BY <1>1, <1>2, TailOfSeq
    <3>2. \A i, j \in DOMAIN queue : queue[i] = queue[j] => i = j
      BY Zenon DEF DuplexInv, PlaceInv
    <3>3. \A j \in DOMAIN queue' : queue'[j] # u
      BY <2>3, <3>1, <3>2, Zenon
    <3> QED BY <3>3, Zenon DEF Range
  <2>6. \A i \in DOMAIN Down' : ~AnswersTo(pending', Down'[i], u)
    BY <1>5, <1>8, <2>4, NextIdIsNew, Zenon DEF AnswersTo
  <2>7. Stage(u)'
    BY <1>1, <2>2, <2>4, <2>5, <2>6, Zenon DEF Stage
  <2>8. Own(u)'
    BY <1>1, <2>2, Zenon DEF Own
  <2>9. ASSUME NEW b \in Subscribers PROVE Stage(b)' /\ Own(b)' /\ Ordered(b)'
    BY <1>1, <1>10, <1>11, <1>12, <2>7, <2>8, StageStays, OwnStays, OrderStays, Zenon DEF NoteInv
  <2>10. DownOrdered' /\ OneLive'
    BY <1>1, <1>11, <1>12, OrderStays, Zenon DEF NoteInv, OneLive
  <2>11. \A i \in DOMAIN Up' : \/ i \in DOMAIN Up /\ Up'[i] = Up[i]
                               \/ i = Len(Up) + 1 /\ Up'[i] = r
    BY <1>5, QueueTypes
  <2>12. \A i \in DOMAIN Up' : Up'[i].kind # "accepted"
    BY <2>1, <2>11, Zenon DEF NoteInv
  <2>13. ASSUME NEW b \in Subscribers PROVE SentOnce(b)'
    <3>1. Subscribes(r, b) => ~Sent(b)
      BY <2>1, <2>2, Zenon DEF Subscribes, Request
    <3>2. SentOnce(b)
      BY Zenon DEF NoteInv
    <3>3. \A i, j \in DOMAIN Up' : Subscribes(Up'[i], b) /\ Subscribes(Up'[j], b) => i = j
      BY <2>11, <3>1, <3>2, Zenon DEF SentOnce, Sent
    <3>4. \A i \in DOMAIN Up', q \in requests' : ~(Subscribes(Up'[i], b) /\ Subscribes(q, b))
      BY <1>1, <2>11, <3>1, <3>2, Zenon DEF SentOnce, Sent
    <3> QED BY <1>1, <3>2, <3>3, <3>4, Zenon DEF SentOnce
  <2> QED BY <2>9, <2>10, <2>12, <2>13, Zenon DEF NoteInv
<1> QED BY <1>13, <1>14, Zenon

(***************************************************************************)
(* A message is consumed.  Users, queue and map after it, for those of b.  *)
(***************************************************************************)
LEMMA ConsumeMoves ==
  ASSUME DuplexInv, incoming # <<>>, NEW m, m = Head(incoming), Consume(m)
  PROVE  /\ m \in GoodMessages /\ Down # <<>> /\ m = Down[1] /\ 1 \in DOMAIN Down
         /\ Down' = Tail(Down) /\ Left(Down', Down, 1)
         /\ UNCHANGED <<queue, sink, requests, live, notes>>
<1>1. /\ UNCHANGED <<queue, sink, requests, wire, live, notes>> /\ incoming' = Tail(incoming)
  BY Zenon DEF Consume, serverVars
<1>2. Down # <<>> /\ Head(Down) = m /\ Down' = Tail(Down)
  BY <1>1, QueueTypes, Concatenations, ZenonT(60) DEF Down
<1>3. 1 \in DOMAIN Down /\ m = Down[1] /\ m \in GoodMessages
  BY <1>2, QueueTypes, TailOfSeq
<1> QED BY <1>1, <1>2, <1>3, QueueTypes, Shifts, Zenon

(***************************************************************************)
(* The quiet ones: a call is answered, a message is ignored, and the map   *)
(* loses the subscription of a stream that was dropped.                    *)
(***************************************************************************)
LEMMA NoteConsume ==
  ASSUME DuplexInv, DuplexInv', NoteInv, incoming # <<>>, NEW m, m = Head(incoming), Consume(m),
         \A b \in Subscribers : got'[b] = got[b] /\ (user'[b] = "idle" => user[b] = "idle"),
         \A b \in Subscribers, k \in MapKeys : subscriptions'[k] = b => subscriptions[k] = b,
         \A b \in Subscribers : \A i \in DOMAIN pending' : pending'[i] = b =>
           i \in DOMAIN pending /\ pending[i] = b,
         NEW r, r.kind \notin {"subscribe", "accepted"},
         outgoing' = outgoing \/ outgoing' = Append(outgoing, r)
  PROVE  NoteInv'
<1>1. /\ Left(Down', Down, 1) /\ UNCHANGED <<queue, sink, requests, live, notes>>
  BY ConsumeMoves, Zenon
<1>2. sink \o Append(outgoing, r) = Append(sink \o outgoing, r)
  <2>1. sink \in Seq(GoodRequests) /\ outgoing \in Seq(GoodRequests)
    BY QueueTypes, Zenon
  <2> QED BY <2>1, AppendLast
<1>3. LeftAnd(Up', Up, 0, r)
  <2>1. CASE Up' = Up
    <3>1. Left(Up, Up, 0)
      BY QueueTypes, Shifts, Zenon
    <3> QED BY <2>1, <3>1, Zenon DEF Left, LeftAnd
  <2>2. CASE Up' = Append(Up, r)
    BY <2>2, QueueTypes, Shifts, Zenon
  <2> QED BY <1>1, <1>2, <2>1, <2>2, Zenon DEF Up
<1>5. ASSUME NEW b \in Subscribers PROVE NothingNew(b, 1)
  <2>1. \A i \in DOMAIN Up' : Subscribes(Up'[i], b) => \E j \in DOMAIN Up : Up[j] = Up'[i]
    BY <1>3, ZenonT(60) DEF LeftAnd, Subscribes
  <2> QED BY <1>1, <2>1, Zenon DEF NothingNew, Left
<1>6. NoNewNote(1)
  BY <1>1, Zenon DEF NoNewNote, Left
<1>7. Quiet(1, 0) /\ 0 \in Nat /\ 1 \in Nat
  <2>1. Quiet(1, 0)
    BY <1>1, <1>3, <1>5, <1>6, Zenon DEF Quiet, LeftAnd
  <2> QED BY <2>1, Zenon
<1> QED BY <1>7, QuietKeeps, Zenon

(***************************************************************************)
(* The others concern one subscriber u.                                    *)
(***************************************************************************)
LEMMA NoteConsumeFor ==
  ASSUME DuplexInv, DuplexInv', NoteInv, incoming # <<>>, NEW m, m = Head(incoming), Consume(m),
         UNCHANGED outgoing, NEW u,
         \A b \in Subscribers \ {u} : got'[b] = got[b],
         \A b \in Subscribers : user'[b] = "idle" => user[b] = "idle",
         \A b \in Subscribers \ {u}, k \in MapKeys : subscriptions'[k] = b => subscriptions[k] = b,
         \A b \in Subscribers : \A i \in DOMAIN pending' : pending'[i] = b =>
           i \in DOMAIN pending /\ pending[i] = b,
         Stage(u)', Own(u)', Ordered(u)'
  PROVE  NoteInv'
<1>1. /\ Left(Down', Down, 1) /\ UNCHANGED <<queue, sink, requests, live, notes>>
  BY ConsumeMoves, Zenon
<1>2. Up' = Up
  BY <1>1, Zenon DEF Up
<1>3. ASSUME NEW b \in Subscribers \ {u} PROVE NothingNew(b, 1)
  BY <1>1, <1>2, Zenon DEF NothingNew, Left
<1>4. NoNewNote(1)
  BY <1>1, Zenon DEF NoNewNote, Left
<1>5. 1 \in Nat
  BY Zenon
<1>6. ASSUME NEW b \in Subscribers PROVE Stage(b)' /\ Own(b)' /\ Ordered(b)'
  <2>1. CASE b = u
    BY <2>1, Zenon
  <2>2. CASE b # u
    <3>1. NothingNew(b, 1) /\ Stage(b) /\ Own(b) /\ Ordered(b) /\ got'[b] = got[b]
      BY <1>3, <2>2, Zenon DEF NoteInv
    <3> QED BY <1>4, <1>5, <3>1, StageStays, OwnStays, OrderStays, Zenon
  <2> QED BY <2>1, <2>2, Zenon
<1>7. ASSUME NEW b \in Subscribers PROVE SentOnce(b)'
  BY <1>1, <1>2, Zenon DEF SentOnce, NoteInv
<1>8. DownOrdered' /\ OneLive'
  BY <1>1, <1>4, <1>5, OrderStays, Zenon DEF NoteInv, OneLive
<1> QED BY <1>2, <1>6, <1>7, <1>8, Zenon DEF NoteInv

(***************************************************************************)
(* A subscription is answered: its request was the only one, and it has    *)
(* received nothing yet.                                                   *)
(***************************************************************************)
LEMMA NoteAnswered ==
  ASSUME DuplexInv, NoteInv, incoming # <<>>, NEW m, m = Head(incoming), Consume(m),
         NEW u \in Subscribers, Answers(m, u), Resolve(m)
  PROVE  /\ AnswersTo(pending, Down[1], u) /\ got[u] = <<>> /\ ~Sent(u) /\ ~Sent(u)'
         /\ \A i \in DOMAIN pending' : pending'[i] # u
         /\ \A b \in Subscribers : \A i \in DOMAIN pending' : pending'[i] = b =>
              i \in DOMAIN pending /\ pending[i] = b
         /\ u \notin Range(queue') /\ user[u] \in Open /\ u \in Users
         /\ \A k \in MapKeys : subscriptions[k] # u
         /\ UNCHANGED outgoing
<1>1. /\ m \in GoodMessages /\ m = Down[1] /\ 1 \in DOMAIN Down
      /\ UNCHANGED <<queue, sink, requests>>
  BY ConsumeMoves, Zenon
<1>2. /\ UNCHANGED outgoing
      /\ DOMAIN pending' = DOMAIN pending
      /\ \A i \in DOMAIN pending : /\ pending'[i] # u
                                   /\ pending'[i] = pending[i] \/ pending'[i] = NoUser
      /\ u \in Users /\ user[u] \in Open
      /\ \A i \in DOMAIN queue : queue[i] # u
      /\ \A k \in MapKeys : subscriptions[k] # u
  BY ResolveEffect, Zenon
<1>3. AnswersTo(pending, Down[1], u) /\ got[u] = <<>>
  BY <1>1, Zenon DEF Answers, AnswersTo, NoteInv, Stage
<1>4. ~Sent(u)
  BY <1>1, <1>3, Zenon DEF NoteInv, Stage
<1>5. ~Sent(u)'
  BY <1>1, <1>2, <1>4, Zenon DEF Sent, Up
<1>6. u \notin Range(queue')
  BY <1>1, <1>2, Zenon DEF Range
<1>7. NoUser \notin Subscribers
  BY DuplexAssumption, Zenon DEF Users
<1>8. \A b \in Subscribers : \A i \in DOMAIN pending' : pending'[i] = b =>
        i \in DOMAIN pending /\ pending[i] = b
  BY <1>2, <1>7, Zenon
<1> QED BY <1>2, <1>3, <1>4, <1>5, <1>6, <1>8, Zenon

LEMMA NoteSubscribed ==
  ASSUME DuplexInv, DuplexInv', NoteInv, incoming # <<>>, NEW m, m = Head(incoming), Subscribed(m)
  PROVE  NoteInv'
<1>1. PICK u \in Subscribers :
        /\ Answers(m, u) /\ m.value[1] = "sid" /\ Resolve(m) /\ Consume(m) /\ UNCHANGED got
        /\ subscriptions' = [subscriptions EXCEPT ![<<m.value[2], NameOf[u]>>] = u]
        /\ user' = [v \in Users |-> IF v = subscriptions[<<m.value[2], NameOf[u]>>]
                                         /\ user[v] = "waiting" THEN "failed" ELSE user[v]]
  BY Zenon DEF Subscribed
<1>2. /\ m \in GoodMessages /\ m = Down[1] /\ 1 \in DOMAIN Down /\ Left(Down', Down, 1)
      /\ UNCHANGED <<queue, sink, requests, live, notes>>
  BY <1>1, ConsumeMoves, Zenon
<1>3. /\ AnswersTo(pending, Down[1], u) /\ got[u] = <<>> /\ ~Sent(u) /\ ~Sent(u)'
      /\ \A i \in DOMAIN pending' : pending'[i] # u
      /\ \A b \in Subscribers : \A i \in DOMAIN pending' : pending'[i] = b =>
           i \in DOMAIN pending /\ pending[i] = b
      /\ u \notin Range(queue') /\ user[u] \in Open /\ u \in Users
      /\ \A k \in MapKeys : subscriptions[k] # u
      /\ UNCHANGED outgoing
  BY <1>1, NoteAnswered, Zenon
<1>4. PICK x \in Sids : m.value = <<"sid", x>>
  <2>1. m.value # <<"err", u>>
    BY <1>1
  <2> QED BY <1>1, <1>2, <2>1, SubscribeAnswers, Zenon
<1>5. m.value[1] = "sid" /\ m.value[2] = x /\ NameOf[u] \in Names
  <2>1. NameOf[u] \in Names
    BY DuplexAssumption, Zenon
  <2> QED BY <1>4, <2>1
<1>6. live[u] \in {x, NoSid}
  <2>1. Down[1].value[1] = "sid" /\ Down[1].value[2] = x
    BY <1>2, <1>5, Zenon
  <2>2. Stage(u)
    BY Zenon DEF NoteInv
  <2> QED BY <1>2, <1>3, <2>1, <2>2, Zenon DEF Stage
<1>7. PICK k \in MapKeys : k = <<x, NameOf[u]>> /\ k[1] = x /\ k[2] = NameOf[u]
  <2>1. <<x, NameOf[u]>> \in MapKeys
    BY <1>5, Zenon DEF MapKeys
  <2> QED BY <2>1, Zenon
<1>8. subscriptions' = [subscriptions EXCEPT ![k] = u] /\ DOMAIN subscriptions = MapKeys
  BY <1>1, <1>5, <1>7, Zenon DEF DuplexInv, DuplexTypeOK
<1>9. \A j \in MapKeys : subscriptions'[j] = u => j = k
  BY <1>3, <1>8, Zenon
<1>10. \A b \in Subscribers \ {u}, j \in MapKeys : subscriptions'[j] = b => subscriptions[j] = b
  BY <1>8, Zenon
<1>11. \A v \in Users : user'[v] = "idle" => user[v] = "idle"
  BY <1>1, Zenon
<1>12. user'[u] # "idle"
  BY <1>3, <1>11, Zenon DEF Open
<1>13. DOMAIN got'[u] = {}
  <2>1. DOMAIN <<>> = {}
    OBVIOUS
  <2> QED BY <1>1, <1>3, <2>1, Zenon
<1>14. \A i \in DOMAIN Down' : ~AnswersTo(pending', Down'[i], u)
  BY <1>3, Zenon DEF AnswersTo
<1>15. Stage(u)'
  <2>1. \A j \in MapKeys : subscriptions'[j] = u =>
                          /\ j[2] = NameOf[u] /\ live'[u] \in {j[1], NoSid}
                          /\ \A i \in DOMAIN got'[u] : got'[u][i][1] = "note"
    <3>1. live' = live
      BY <1>2, Zenon
    <3> QED BY <1>6, <1>7, <1>9, <1>13, <3>1, Zenon
  <2>2. \A i \in DOMAIN Up' : ~Subscribes(Up'[i], u)
    BY <1>3, Zenon DEF Sent, Subscribes
  <2>3. \A q \in requests' : ~Subscribes(q, u)
    BY <1>3, Zenon DEF Sent, Subscribes
  <2> QED BY <1>3, <1>12, <1>14, <2>1, <2>2, <2>3, Zenon DEF Stage
<1>16. Own(u)'
  <2> SUFFICES ASSUME live'[u] # NoSid PROVE Own(u)'
    BY Zenon DEF Own
  <2>1. ASSUME NEW j \in DOMAIN Down', Foreign(live'[u], Down'[j], u) PROVE FALSE
    <3>1. j + 1 \in DOMAIN Down /\ Foreign(live[u], Down[j + 1], u) /\ live[u] # NoSid
      BY <1>2, <2>1, Zenon DEF Left
    <3>2. 1 <= j + 1
      BY QueueTypesNext, SMTT(30)
    <3> QED BY <1>2, <1>3, <3>1, <3>2, Zenon DEF NoteInv, Own
  <2>2. \A i \in DOMAIN got'[u] : got'[u][i][2] = u
    BY <1>13, Zenon
  <2> QED BY <2>1, <2>2, Zenon DEF Own
<1>17. Ordered(u)'
  BY <1>13, Zenon DEF Ordered
<1>18. Subscribers \subseteq Users
  BY Zenon DEF Users
<1> QED BY <1>1, <1>3, <1>10, <1>11, <1>15, <1>16, <1>17, <1>18, NoteConsumeFor, Zenon

LEMMA NoteRejected ==
  ASSUME DuplexInv, DuplexInv', NoteInv, incoming # <<>>, NEW m, m = Head(incoming),
         SubscriptionRejected(m)
  PROVE  NoteInv'
<1>1. PICK u \in Subscribers :
        /\ Answers(m, u) /\ m.value[1] # "sid" /\ Resolve(m) /\ Consume(m)
        /\ Give(u, m.value, TRUE) /\ UNCHANGED subscriptions
  BY Zenon DEF SubscriptionRejected
<1>2. /\ m \in GoodMessages /\ m = Down[1] /\ 1 \in DOMAIN Down /\ Left(Down', Down, 1)
      /\ UNCHANGED <<queue, sink, requests, live, notes>>
  BY <1>1, ConsumeMoves, Zenon
<1>3. /\ AnswersTo(pending, Down[1], u) /\ got[u] = <<>> /\ ~Sent(u) /\ ~Sent(u)'
      /\ \A i \in DOMAIN pending' : pending'[i] # u
      /\ \A b \in Subscribers : \A i \in DOMAIN pending' : pending'[i] = b =>
           i \in DOMAIN pending /\ pending[i] = b
      /\ u \notin Range(queue') /\ user[u] \in Open /\ u \in Users
      /\ \A k \in MapKeys : subscriptions[k] # u
      /\ UNCHANGED outgoing
  BY <1>1, NoteAnswered, Zenon
<1>4. m.value = <<"err", u>>
  <2>1. \A x \in Sids : <<"sid", x>>[1] = "sid"
    BY Zenon
  <2> QED BY <1>1, <1>2, <2>1, SubscribeAnswers, Zenon
<1>5. /\ got \in [Users -> Seq(Values)] /\ Subscribers \subseteq Users
      /\ user \in [Users -> {"idle", "waiting", "done", "failed", "gone"}]
  BY Zenon DEF Users, DuplexInv, DuplexTypeOK
<1>6. /\ \A b \in Subscribers \ {u} : got'[b] = got[b]
      /\ \A b \in Subscribers : user'[b] = "idle" => user[b] = "idle"
      /\ got'[u] = <<>> \/ got'[u] = << <<"err", u>> >>
  <2>1. /\ got' = IF user[u] = "waiting" THEN [got EXCEPT ![u] = Append(@, <<"err", u>>)] ELSE got
        /\ user' = IF user[u] = "waiting" THEN [user EXCEPT ![u] = "done"] ELSE user
    BY <1>1, <1>4, Zenon DEF Give
  <2>2. Append(got[u], <<"err", u>>) = << <<"err", u>> >>
    BY <1>3
  <2>3. /\ \A b \in Subscribers \ {u} : got'[b] = got[b]
        /\ got'[u] = got[u] \/ got'[u] = Append(got[u], <<"err", u>>)
    BY <1>3, <1>5, <2>1, Zenon
  <2>4. \A b \in Subscribers : user'[b] = "idle" => user[b] = "idle"
    BY <1>5, <2>1, Zenon
  <2> QED BY <1>3, <2>2, <2>3, <2>4, Zenon
<1>7. user'[u] # "idle"
  BY <1>3, <1>6, Zenon DEF Open
<1>8. \A i \in DOMAIN Down' : ~AnswersTo(pending', Down'[i], u)
  BY <1>3, Zenon DEF AnswersTo
<1>9. Stage(u)'
  <2>1. \A i \in DOMAIN Up' : ~Subscribes(Up'[i], u)
    BY <1>3, Zenon DEF Sent, Subscribes
  <2>2. \A q \in requests' : ~Subscribes(q, u)
    BY <1>3, Zenon DEF Sent, Subscribes
  <2> QED BY <1>1, <1>3, <1>7, <1>8, <2>1, <2>2, Zenon DEF Stage
<1>10. /\ \A i \in DOMAIN got'[u] : got'[u][i][2] = u /\ got'[u][i][1] # "note"
       /\ \A i, j \in DOMAIN got'[u] : ~(i < j)
  <2>1. CASE got'[u] = <<>>
    BY <2>1
  <2>2. CASE got'[u] = << <<"err", u>> >>
    BY <2>2
  <2> QED BY <1>6, <2>1, <2>2, Zenon
<1>11. Own(u)' /\ Ordered(u)'
  BY <1>1, <1>3, <1>8, <1>10, Zenon DEF Own, Ordered
<1> QED BY <1>1, <1>3, <1>6, <1>9, <1>11, NoteConsumeFor, Zenon

(***************************************************************************)
(* A notification reaches the stream of u: it is u's own as long as u is   *)
(* live, and later than all u has received.                                *)
(***************************************************************************)
LEMMA NoteReceived ==
  ASSUME DuplexInv, DuplexInv', NoteInv, incoming # <<>>, NEW m, m = Head(incoming), Consume(m),
         NEW u \in Subscribers, IsNote(m), subscriptions[<<m.sid, m.method>>] = u,
         UNCHANGED <<next_id, pending, outgoing, subscriptions, user>>,
         got' = [got EXCEPT ![u] = Append(@, m.value)]
  PROVE  NoteInv'
<1>1. /\ m \in GoodMessages /\ m = Down[1] /\ 1 \in DOMAIN Down /\ Left(Down', Down, 1)
      /\ UNCHANGED <<queue, sink, requests, live, notes>>
  BY ConsumeMoves, Zenon
<1>2. Stage(u) /\ Own(u) /\ Ordered(u) /\ DownOrdered
  BY Zenon DEF NoteInv
<1>3. /\ got \in [Users -> Seq(Values)] /\ u \in Users /\ u # NoUser
      /\ \A k \in MapKeys : subscriptions[k] # NoUser => subscriptions[k] \in Users
      /\ queue \in Seq(Users)
      /\ Subscribers \subseteq Users
      /\ user \in [Users -> {"idle", "waiting", "done", "failed", "gone"}]
  BY DuplexAssumption, Zenon DEF DuplexInv, DuplexTypeOK, Users
<1>4. /\ m.value[1] = "note" /\ m.value[3] \in 1 .. MaxNotes
      /\ m.sid \in Sids /\ m.method \in Names
  BY <1>1, NoteNumbers, Zenon
<1>5. PICK k \in MapKeys : k = <<m.sid, m.method>> /\ k[1] = m.sid /\ k[2] = m.method
  <2>1. <<m.sid, m.method>> \in MapKeys
    BY <1>4, Zenon DEF MapKeys
  <2> QED BY <2>1, Zenon
<1>6. subscriptions[k] = u
  BY <1>5, Zenon
<1>7. /\ user[u] \in Open
      /\ \A i \in DOMAIN pending : pending[i] # u
      /\ \A i \in DOMAIN queue : queue[i] # u
  <2>1. \A i \in DOMAIN queue : queue[i] # u
    BY <1>6, Zenon DEF DuplexInv, PlaceInv
  <2>2. user[subscriptions[k]] \in Open /\ \A i \in DOMAIN pending : pending[i] # subscriptions[k]
    BY <1>3, <1>6, Zenon DEF DuplexInv, PlaceInv, MapHoldsOpenStreams, Open
  <2> QED BY <1>6, <2>1, <2>2, Zenon
<1>8. ~Sent(u)
  BY <1>2, <1>6, Zenon DEF Stage
<1>9. ~Sent(u)'
  BY <1>1, <1>8, Zenon DEF Sent, Up
<1>10. /\ live[u] \in {m.sid, NoSid} /\ m.method = NameOf[u]
       /\ \A i \in DOMAIN got[u] : got[u][i][1] = "note"
  <2>1. /\ live[u] \in {k[1], NoSid} /\ k[2] = NameOf[u]
        /\ \A i \in DOMAIN got[u] : got[u][i][1] = "note"
    BY <1>2, <1>6, Zenon DEF Stage
  <2> QED BY <1>5, <2>1, Zenon
<1>11. /\ \A b \in Subscribers \ {u} : got'[b] = got[b]
       /\ got'[u] = Append(got[u], m.value) /\ got[u] \in Seq(Values)
  BY <1>3, Zenon
<1>12. \A i \in DOMAIN got'[u] : \/ i \in DOMAIN got[u] /\ got'[u][i] = got[u][i]
                                 \/ i = Len(got[u]) + 1 /\ got'[u][i] = m.value
  BY <1>11
<1>13. Stage(u)'
  <2>1. \A i \in DOMAIN Down' : ~AnswersTo(pending', Down'[i], u)
    BY <1>7, Zenon DEF AnswersTo
  <2>2. \A i \in DOMAIN got'[u] : got'[u][i][1] = "note"
    BY <1>4, <1>10, <1>12, ZenonT(60)
  <2>3. \A i \in DOMAIN Up' : ~Subscribes(Up'[i], u)
    BY <1>9, Zenon DEF Sent, Subscribes
  <2>4. \A q \in requests' : ~Subscribes(q, u)
    BY <1>9, Zenon DEF Sent, Subscribes
  <2>5. u \notin Range(queue') /\ user'[u] # "idle"
    <3>1. u \notin Range(queue')
      BY <1>1, <1>7, Zenon DEF Range
    <3> QED BY <1>7, <3>1, Zenon DEF Open
  <2>6. \A j \in MapKeys : subscriptions'[j] = u => /\ j[2] = NameOf[u]
                                                /\ live'[u] \in {j[1], NoSid}
    BY <1>1, <1>2, Zenon DEF Stage
  <2>7. \A i \in DOMAIN pending' : pending'[i] # u
    BY <1>7, Zenon
  <2> QED BY <1>9, <2>1, <2>2, <2>3, <2>4, <2>5, <2>6, <2>7, Zenon DEF Stage
<1>14. Own(u)'
  <2> SUFFICES ASSUME live'[u] # NoSid PROVE Own(u)'
    BY Zenon DEF Own
  <2>1. live[u] # NoSid /\ live[u] = m.sid /\ live'[u] = live[u]
    BY <1>1, <1>10, Zenon
  <2>2. \A j \in DOMAIN Down : ~Foreign(live[u], Down[j], u)
    BY <1>2, <1>6, <2>1, Zenon DEF Own
  <2>3. m.value[2] = u
    BY <1>1, <1>10, <2>1, <2>2, Zenon DEF Foreign
  <2>4. \A i \in DOMAIN got'[u] : got'[u][i][2] = u
    BY <1>2, <1>12, <2>1, <2>3, Zenon DEF Own
  <2>5. \A j \in DOMAIN Down' : ~Foreign(live'[u], Down'[j], u)
    BY <1>1, <2>1, <2>2, Zenon DEF Left
  <2> QED BY <2>4, <2>5, Zenon DEF Own
<1>15. Ordered(u)'
  <2>1. \A j \in DOMAIN Down' : IsNote(Down'[j]) =>
          /\ m.value[3] < Down'[j].value[3]
          /\ \A i \in DOMAIN got[u] : got[u][i][3] < Down'[j].value[3]
    <3> TAKE j \in DOMAIN Down'
    <3> HAVE IsNote(Down'[j])
    <3>1. j + 1 \in DOMAIN Down /\ Down'[j] = Down[j + 1]
      BY <1>1, Zenon DEF Left
    <3>2. 1 < j + 1
      BY QueueTypesNext
    <3> QED BY <1>1, <1>2, <1>10, <3>1, <3>2, Zenon DEF DownOrdered, Ordered
  <2>2. \A i \in DOMAIN got[u] : got[u][i][3] < m.value[3] /\ got[u][i][3] <= notes
    BY <1>1, <1>2, <1>10, Zenon DEF Ordered
  <2>3. m.value[3] <= notes
    BY <1>1, <1>2, Zenon DEF DownOrdered
  <2>4. \A i, j \in DOMAIN got'[u] : i < j =>
          i \in DOMAIN got[u] /\ (j \in DOMAIN got[u] \/ j = Len(got[u]) + 1)
    BY <1>11
  <2>5. \A i \in DOMAIN got[u] : i # Len(got[u]) + 1
    BY <1>11
  <2>6. ASSUME NEW i \in DOMAIN got'[u], NEW j \in DOMAIN got'[u], i < j
        PROVE  got'[u][i][3] < got'[u][j][3]
    <3>1. CASE j \in DOMAIN got[u]
      BY <1>2, <1>12, <2>4, <2>5, <2>6, <3>1, Zenon DEF Ordered
    <3>2. CASE j = Len(got[u]) + 1
      BY <1>12, <2>2, <2>4, <2>5, <2>6, <3>2, Zenon
    <3> QED BY <2>4, <2>6, <3>1, <3>2, Zenon
  <2>7. \A i \in DOMAIN got'[u] : got'[u][i][1] = "note"
    BY <1>4, <1>10, <1>12, ZenonT(60)
  <2>8. \A i \in DOMAIN got'[u] :
          /\ got'[u][i][3] <= notes'
          /\ \A j \in DOMAIN Down' : IsNote(Down'[j]) => got'[u][i][3] < Down'[j].value[3]
    BY <1>1, <1>12, <2>1, <2>2, <2>3, Zenon
  <2> QED BY <2>6, <2>7, <2>8, Zenon DEF Ordered
<1> QED BY <1>11, <1>13, <1>14, <1>15, NoteConsumeFor, Zenon

LEMMA NoteIncoming == ASSUME DuplexInv, DuplexInv', NoteInv, HandleIncoming PROVE NoteInv'
<1>1. PICK m : m = Head(incoming) /\ incoming # <<>> /\
        (\/ AnswerCall(m) \/ AnswerNobody(m) \/ Subscribed(m) \/ SubscriptionRejected(m)
         \/ Deliver(m) \/ Unexpected(m))
  BY Zenon DEF HandleIncoming
<1>2. PICK r : r.kind \notin {"subscribe", "accepted"}
  <2>1. [kind |-> "notify"].kind \notin {"subscribe", "accepted"}
    BY Zenon
  <2> QED BY <2>1, Zenon
<1>3. /\ Subscribers \subseteq Users /\ Calls \subseteq Users /\ Calls \cap Subscribers = {}
      /\ NoUser \notin Subscribers
      /\ got \in [Users -> Seq(Values)]
      /\ user \in [Users -> {"idle", "waiting", "done", "failed", "gone"}]
      /\ subscriptions \in [MapKeys -> Subscribers \cup {NoUser}]
  BY DuplexAssumption, Zenon DEF Users, DuplexInv, DuplexTypeOK
<1>4. CASE AnswerCall(m)
  <2>1. PICK u \in Calls : /\ Answers(m, u) /\ Give(u, m.value, TRUE) /\ Resolve(m) /\ Consume(m)
                           /\ UNCHANGED subscriptions
    BY <1>4, Zenon DEF AnswerCall
  <2>2. /\ UNCHANGED outgoing /\ DOMAIN pending' = DOMAIN pending
        /\ \A i \in DOMAIN pending : pending'[i] = pending[i] \/ pending'[i] = NoUser
    BY <2>1, ResolveEffect, Zenon
  <2>3. \A b \in Subscribers : got'[b] = got[b] /\ user'[b] = user[b]
    BY <1>3, <2>1, Zenon DEF Give
  <2> QED BY <1>1, <1>2, <1>3, <2>1, <2>2, <2>3, NoteConsume, Zenon
<1>5. CASE AnswerNobody(m)
  BY <1>5, NoteEnd, Zenon DEF AnswerNobody
<1>6. CASE Subscribed(m)
  BY <1>1, <1>6, NoteSubscribed, Zenon
<1>7. CASE SubscriptionRejected(m)
  BY <1>1, <1>7, NoteRejected, Zenon
<1>8. CASE Deliver(m)
  <2>1. PICK u \in Subscribers :
          /\ m.method # NoName /\ subscriptions[<<m.sid, m.method>>] = u
          /\ Give(u, m.value, FALSE)
          /\ \/ /\ user[u] # "gone"
                /\ UNCHANGED <<next_id, pending, outgoing, subscriptions>>
             \/ /\ user[u] = "gone"
                /\ subscriptions' = [subscriptions EXCEPT ![<<m.sid, m.method>>] = NoUser]
                /\ outgoing' = Append(outgoing,
                     [Request("unsubscribe", next_id, u) EXCEPT !.sid = m.sid])
                /\ TakeId(NoUser)
          /\ Consume(m)
    BY <1>8, Zenon DEF Deliver
  <2>2. user' = user /\ (user[u] # "waiting" => got' = got)
    BY <2>1, Zenon DEF Give
  <2>3. CASE user[u] = "gone"
    <3>1. PICK s : /\ s.kind \notin {"subscribe", "accepted"} /\ outgoing' = Append(outgoing, s)
      <4>1. [Request("unsubscribe", next_id, u) EXCEPT !.sid = m.sid].kind = "unsubscribe"
        BY Zenon DEF Request
      <4>2. [Request("unsubscribe", next_id, u) EXCEPT !.sid = m.sid].kind \notin {"subscribe", "accepted"}
        BY <4>1, Zenon
      <4> QED BY <2>1, <2>3, <4>2, Zenon
    <3>2. \A b \in Subscribers : \A i \in DOMAIN pending' : pending'[i] = b =>
            i \in DOMAIN pending /\ pending[i] = b
      BY <1>3, <2>1, <2>3, IdTaken, Zenon DEF DuplexInv
    <3>3. \A b \in Subscribers, k \in MapKeys : subscriptions'[k] = b => subscriptions[k] = b
      BY <1>3, <2>1, <2>3, Zenon
    <3>4. got' = got
      BY <2>2, <2>3, Zenon
    <3> QED BY <1>1, <2>1, <2>2, <3>1, <3>2, <3>3, <3>4, NoteConsume, Zenon
  <2>4. CASE user[u] = "waiting"
    <3>1. /\ UNCHANGED <<next_id, pending, outgoing, subscriptions>>
          /\ got' = [got EXCEPT ![u] = Append(@, m.value)]
      BY <2>1, <2>4, Zenon DEF Give
    <3> QED BY <1>1, <2>1, <2>2, <3>1, NoteReceived, Zenon DEF IsNote
  <2>5. CASE user[u] \notin {"gone", "waiting"}
    <3>1. UNCHANGED <<next_id, pending, outgoing, subscriptions, got, user>>
      BY <2>1, <2>2, <2>5, Zenon
    <3> QED BY <1>1, <1>2, <2>1, <3>1, NoteConsume, Zenon
  <2> QED BY <2>3, <2>4, <2>5, Zenon
<1>9. CASE Unexpected(m)
  BY <1>1, <1>2, <1>9, NoteConsume, Zenon DEF Unexpected
<1> QED BY <1>1, <1>4, <1>5, <1>6, <1>7, <1>8, <1>9, Zenon

(***************************************************************************)
(* A request leaves the sink.                                              *)
(***************************************************************************)
LEMMA NoteSinkWrites == ASSUME DuplexInv, DuplexInv', NoteInv, SinkWrites PROVE NoteInv'
<1>1. /\ sink # <<>> /\ sink' = Tail(sink)
      /\ requests' = IF closed THEN requests ELSE requests \cup {Head(sink)}
      /\ UNCHANGED <<outgoing, queue, pending, subscriptions, incoming, user, got, wire, live, notes>>
  BY Zenon DEF SinkWrites
<1>2. Up # <<>> /\ Up' = Tail(Up) /\ Head(Up) = Head(sink) /\ Down' = Down
  BY <1>1, QueueTypes, Concatenations, ZenonT(60) DEF Up, Down
<1>3. 1 \in DOMAIN Up /\ Up[1] = Head(Up)
  BY <1>2, QueueTypes, TailOfSeq, Zenon
<1>4. requests' \subseteq requests \cup {Up[1]}
  BY <1>1, <1>2, <1>3, Zenon
<1>5. Left(Up', Up, 1) /\ Left(Down', Down, 0)
  BY <1>2, QueueTypes, Shifts, Zenon
<1>6. ASSUME NEW b \in Subscribers PROVE NothingNew(b, 0)
  BY <1>1, <1>3, <1>4, <1>5, Zenon DEF NothingNew, Left
<1>7. NoNewNote(0)
  BY <1>1, <1>5, Zenon DEF NoNewNote, Left
<1>8. 0 \in Nat
  BY Zenon
<1>9. ASSUME NEW b \in Subscribers PROVE Stage(b)' /\ Own(b)' /\ Ordered(b)'
  BY <1>1, <1>6, <1>7, <1>8, StageStays, OwnStays, OrderStays, Zenon DEF NoteInv
<1>10. \A i, j \in DOMAIN Up' : (i + 1 = j + 1 => i = j) /\ i + 1 # 1
  BY QueueTypesNext
<1>11. ASSUME NEW b \in Subscribers PROVE SentOnce(b)'
  <2>1. SentOnce(b)
    BY Zenon DEF NoteInv
  <2>2. \A i, j \in DOMAIN Up' : Subscribes(Up'[i], b) /\ Subscribes(Up'[j], b) => i = j
    BY <1>5, <1>10, <2>1, Zenon DEF SentOnce, Left
  <2>3. \A q, r \in requests' : Subscribes(q, b) /\ Subscribes(r, b) => q = r
    BY <1>3, <1>4, <2>1, Zenon DEF SentOnce
  <2>4. \A i \in DOMAIN Up', q \in requests' : ~(Subscribes(Up'[i], b) /\ Subscribes(q, b))
    <3> SUFFICES ASSUME NEW i \in DOMAIN Up', NEW q \in requests',
                        Subscribes(Up'[i], b), Subscribes(q, b)
                 PROVE  FALSE
      BY Zenon
    <3>1. i + 1 \in DOMAIN Up /\ Subscribes(Up[i + 1], b) /\ i + 1 # 1
      BY <1>5, <1>10, Zenon DEF Left
    <3>2. q \in requests \/ q = Up[1]
      BY <1>4, Zenon
    <3> QED BY <1>3, <2>1, <3>1, <3>2, Zenon DEF SentOnce
  <2> QED BY <2>2, <2>3, <2>4, Zenon DEF SentOnce
<1>12. \A i \in DOMAIN Up' : Up'[i].kind # "accepted"
  BY <1>5, Zenon DEF Left, NoteInv
<1>13. DownOrdered' /\ OneLive'
  BY <1>1, <1>7, <1>8, OrderStays, Zenon DEF NoteInv, OneLive
<1> QED BY <1>9, <1>11, <1>12, <1>13, Zenon DEF NoteInv

(***************************************************************************)
(* The server sends a message.                                             *)
(***************************************************************************)
LEMMA ServerMoves ==
  ASSUME DuplexInv, NEW m, ServerSends(m)
  PROVE  /\ Up' = Up /\ Down' = Append(Down, m) /\ LeftAnd(Down', Down, 0, m)
         /\ UNCHANGED <<queue, pending, subscriptions, user, got>>
<1>1. /\ UNCHANGED <<queue, pending, subscriptions, user, got, sink, outgoing, incoming>>
      /\ wire' = Append(wire, m)
  BY Zenon DEF ServerSends, duplexVars
<1>2. Up' = Up
  BY <1>1, Zenon DEF Up
<1>3. Down' = Append(Down, m)
  <2>1. incoming \in Seq(GoodMessages) /\ wire \in Seq(GoodMessages)
    BY QueueTypes, Zenon
  <2>2. incoming \o Append(wire, m) = Append(incoming \o wire, m)
    BY <2>1, AppendLast
  <2> QED BY <1>1, <2>2, Zenon DEF Down
<1> QED BY <1>1, <1>2, <1>3, QueueTypes, Shifts, Zenon

(***************************************************************************)
(* It is a quiet step unless it is a notification or answers a subscriber. *)
(***************************************************************************)
LEMMA NoteQuietServer ==
  ASSUME DuplexInv, DuplexInv', NoteInv, NEW m, ServerSends(m), ~IsNote(m),
         \A b \in Subscribers : ~AnswersTo(pending, m, b),
         \A b \in Subscribers : live'[b] \in {live[b], NoSid},
         requests' \subseteq requests, UNCHANGED notes
  PROVE  NoteInv'
<1>1. /\ Up' = Up /\ LeftAnd(Down', Down, 0, m)
      /\ UNCHANGED <<queue, pending, subscriptions, user, got>>
  BY ServerMoves, Zenon
<1>2. Left(Up', Up, 0) /\ 0 \in Nat
  <2>1. Left(Up, Up, 0)
    BY QueueTypes, Shifts, Zenon
  <2> QED BY <1>1, <2>1, Zenon
<1>3. ASSUME NEW b \in Subscribers PROVE NothingNew(b, 0)
  BY <1>1, Zenon DEF NothingNew, LeftAnd, Foreign
<1>4. NoNewNote(0)
  BY <1>1, Zenon DEF NoNewNote, LeftAnd
<1>5. Quiet(0, 0)
  BY <1>2, <1>3, <1>4, Zenon DEF Quiet, Left
<1> QED BY <1>2, <1>5, QuietKeeps, Zenon

LEMMA NoteAnswerRequest ==
  ASSUME DuplexInv, DuplexInv', NoteInv, (\E q \in requests : AnswerRequest(q)) \/ SendOdd
  PROVE  NoteInv'
<1>1. DOMAIN pending \subseteq Nat /\ NoRequestId \notin DOMAIN pending /\ NoUser \notin Subscribers
      /\ Calls \cap Subscribers = {}
  <2>1. NoRequestId \notin Nat /\ NoUser \notin Subscribers /\ Calls \cap Subscribers = {}
    BY DuplexAssumption, Zenon DEF Users
  <2>2. DOMAIN pending \subseteq Nat
    BY DEF DuplexInv, DuplexTypeOK
  <2> QED BY <2>1, <2>2, Zenon
<1>2. ASSUME NEW i, NEW v
      PROVE  Response(i, v).id = i /\ ~IsNote(Response(i, v))
  BY Zenon DEF Response, IsNote
<1>3. CASE \E q \in requests : AnswerRequest(q)
  <2>1. PICK q \in requests : AnswerRequest(q)
    BY <1>3, Zenon
  <2>2. PICK m : ServerSends(m) /\ m.id = q.id /\ ~IsNote(m)
    BY <1>2, <2>1, Zenon DEF AnswerRequest
  <2>3. q \in GoodRequests
    BY Zenon DEF DuplexInv, TrafficInv
  <2>4. q.kind \in {"call", "unsubscribe"}
    BY <2>1, Zenon DEF AnswerRequest
  <2>5. (q.user \in Calls /\ Given(q.id, q.user)) \/ Given(q.id, NoUser)
    <3>1. GoodRequest(q)
      BY <2>3, Zenon DEF GoodRequests
    <3> QED BY <2>4, <3>1, Zenon DEF GoodRequest
  <2>6. \A b \in Subscribers : ~AnswersTo(pending, m, b)
    BY <1>1, <2>2, <2>5, Zenon DEF AnswersTo, Given
  <2>7. \A b \in Subscribers : live'[b] \in {live[b], NoSid}
    BY <2>1, Zenon DEF AnswerRequest
  <2>8. requests' \subseteq requests /\ UNCHANGED notes
    BY <2>1, Zenon DEF AnswerRequest
  <2> QED BY <2>2, <2>6, <2>7, <2>8, NoteQuietServer, Zenon
<1>4. CASE SendOdd
  <2>1. PICK m : ServerSends(m) /\ m.id = NoRequestId /\ ~IsNote(m)
    BY <1>2, <1>4, Zenon DEF SendOdd, Garbage
  <2>2. \A b \in Subscribers : ~AnswersTo(pending, m, b)
    BY <1>1, <2>1, Zenon DEF AnswersTo
  <2>3. UNCHANGED <<requests, live, notes>>
    BY <1>4, Zenon DEF SendOdd
  <2> QED BY <2>1, <2>2, <2>3, NoteQuietServer, Zenon
<1> QED BY <1>3, <1>4, Zenon

(***************************************************************************)
(* The server takes up a subscription: it is u's first id, nothing has     *)
(* reached u yet, and no answer is under way.                              *)
(***************************************************************************)
LEMMA NoteAccept ==
  ASSUME DuplexInv, DuplexInv', NoteInv, NEW q \in requests, AcceptSubscription(q)
  PROVE  NoteInv'
<1>1. PICK x \in Sids :
        /\ live' = [b \in Subscribers |->
                      IF b = q.user THEN x
                      ELSE IF live[b] = x /\ NameOf[b] = NameOf[q.user] THEN NoSid ELSE live[b]]
        /\ requests' = (requests \ {q}) \cup {[q EXCEPT !.kind = "accepted", !.sid = x]}
  BY Zenon DEF AcceptSubscription
<1>2. /\ UNCHANGED <<queue, pending, subscriptions, user, got, sink, outgoing, incoming, wire, notes>>
      /\ q.kind = "subscribe"
  BY Zenon DEF AcceptSubscription, duplexVars
<1>3. Up' = Up /\ Down' = Down
  BY <1>2, Zenon DEF Up, Down
<1>4. q \in GoodRequests
  BY Zenon DEF DuplexInv, TrafficInv
<1>5. PICK u \in Subscribers : u = q.user
  <2>1. GoodRequest(q)
    BY <1>4, Zenon DEF GoodRequests
  <2> QED BY <1>2, <2>1, Zenon DEF GoodRequest
<1>6. PICK a : /\ a = [q EXCEPT !.kind = "accepted", !.sid = x]
               /\ a.kind = "accepted" /\ a.user = u /\ a.sid = x
  <2>1. q \in [kind : {"notify", "call", "subscribe", "accepted", "unsubscribe"},
              id : Nat \cup {NoRequestId}, user : Users, sid : Sids \cup {NoSid}]
    BY <1>4, Zenon DEF GoodRequests
  <2>2. PICK a : a = [q EXCEPT !.kind = "accepted", !.sid = x]
    BY Zenon
  <2>3. a.kind = "accepted" /\ a.user = q.user /\ a.sid = x
    BY <2>1, <2>2, Zenon
  <2> QED BY <1>5, <2>2, <2>3, Zenon
<1>7. /\ requests' = (requests \ {q}) \cup {a} /\ Subscribes(q, u)
      /\ \A b \in Subscribers : Subscribes(a, b) => b = u
  BY <1>1, <1>2, <1>5, <1>6, Zenon DEF Subscribes
<1>8. /\ live'[u] = x
      /\ \A b \in Subscribers \ {u} : /\ live'[b] \in {live[b], NoSid}
                                      /\ NameOf[b] = NameOf[u] => live'[b] # x
  <2>1. NoSid # x
    BY DuplexAssumption, Zenon
  <2> QED BY <1>1, <1>5, <2>1, Zenon
<1>9. Left(Up', Up, 0) /\ Left(Down', Down, 0) /\ 0 \in Nat
  <2>1. Left(Up, Up, 0) /\ Left(Down, Down, 0)
    BY QueueTypes, Shifts, Zenon
  <2> QED BY <1>3, <2>1, Zenon
<1>10. ASSUME NEW b \in Subscribers \ {u} PROVE NothingNew(b, 0)
  <2>1. \A r \in requests' : Subscribes(r, b) => r \in requests
    BY <1>7, Zenon
  <2> QED BY <1>2, <1>8, <1>9, <2>1, Zenon DEF NothingNew, Left
<1>11. /\ Sent(u) /\ Stage(u) /\ SentOnce(u) /\ got[u] = <<>>
       /\ \A i \in DOMAIN Down : ~AnswersTo(pending, Down[i], u)
       /\ \A k \in MapKeys : subscriptions[k] # u
       /\ user[u] # "idle" /\ u \notin Range(queue)
  <2>1. Sent(u) /\ Stage(u) /\ SentOnce(u)
    BY <1>7, Zenon DEF Sent, NoteInv
  <2> QED BY <2>1, Zenon DEF Stage
<1>12. \A r \in requests' : Subscribes(r, u) => r = a
  BY <1>7, <1>11, Zenon DEF SentOnce
<1>13. \A i \in DOMAIN Up' : ~Subscribes(Up'[i], u)
  BY <1>3, <1>7, <1>11, Zenon DEF SentOnce
<1>14. Stage(u)'
  <2>1. \A r \in requests' : Subscribes(r, u) => live'[u] \in {r.sid, NoSid}
    BY <1>6, <1>8, <1>12, Zenon
  <2> QED BY <1>2, <1>3, <1>11, <1>13, <2>1, Zenon DEF Stage
<1>15. Own(u)'
  <2>1. \A i \in DOMAIN got'[u] : got'[u][i][2] = u
    BY <1>2, <1>11
  <2> QED BY <1>2, <1>3, <1>11, <2>1, Zenon DEF Own
<1>16. NoNewNote(0)
  BY <1>2, <1>9, Zenon DEF NoNewNote, Left
<1>17. ASSUME NEW b \in Subscribers PROVE Stage(b)' /\ Own(b)' /\ Ordered(b)'
  <2>1. Ordered(b)' /\ Stage(b) /\ Own(b)
    BY <1>2, <1>9, <1>16, OrderStays, Zenon DEF NoteInv
  <2>2. CASE b = u
    BY <1>14, <1>15, <2>1, <2>2, Zenon
  <2>3. CASE b # u
    BY <1>9, <1>10, <2>1, <2>3, StageStays, OwnStays, Zenon
  <2> QED BY <2>2, <2>3, Zenon
<1>18. DownOrdered' /\ \A i \in DOMAIN Up' : Up'[i].kind # "accepted"
  BY <1>3, <1>9, <1>16, OrderStays, Zenon DEF NoteInv
<1>19. OneLive'
  BY <1>8, Zenon DEF NoteInv, OneLive
<1>20. ASSUME NEW b \in Subscribers PROVE SentOnce(b)'
  <2>1. SentOnce(b)
    BY Zenon DEF NoteInv
  <2>2. CASE b = u
    BY <1>3, <1>12, <1>13, <2>1, <2>2, Zenon DEF SentOnce
  <2>3. CASE b # u
    <3>1. \A r \in requests' : Subscribes(r, b) => r \in requests
      BY <1>7, <2>3, Zenon
    <3> QED BY <1>3, <2>1, <3>1, Zenon DEF SentOnce
  <2> QED BY <2>2, <2>3, Zenon
<1> QED BY <1>17, <1>18, <1>19, <1>20, Zenon DEF NoteInv

(***************************************************************************)
(* The server answers a subscription, behind all it has notified so far.   *)
(***************************************************************************)
LEMMA NoteAnswerSubscription ==
  ASSUME DuplexInv, DuplexInv', NoteInv, NEW q \in requests, AnswerSubscription(q)
  PROVE  NoteInv'
<1>1. /\ UNCHANGED <<live, notes>> /\ requests' = requests \ {q}
      /\ q.kind \in {"accepted", "subscribe"}
  BY Zenon DEF AnswerSubscription
<1>2. PICK m : /\ ServerSends(m) /\ m.id = q.id /\ ~IsNote(m)
               /\ m.value[1] = "sid" => m.value[2] = q.sid
  <2>1. CASE q.kind = "accepted"
    <3>1. ServerSends(Response(q.id, <<"sid", q.sid>>))
      BY <2>1, Zenon DEF AnswerSubscription
    <3>2. PICK m : m = Response(q.id, <<"sid", q.sid>>)
      BY Zenon
    <3>3. m.id = q.id /\ ~IsNote(m) /\ m.value[2] = q.sid
      BY <3>2, Zenon DEF Response, IsNote
    <3> QED BY <3>1, <3>2, <3>3, Zenon
  <2>2. CASE q.kind # "accepted"
    <3>1. ServerSends(Response(q.id, <<"err", q.user>>))
      BY <2>2, Zenon DEF AnswerSubscription
    <3>2. PICK m : m = Response(q.id, <<"err", q.user>>)
      BY Zenon
    <3>3. m.id = q.id /\ ~IsNote(m) /\ m.value[1] # "sid"
      BY <3>2, Zenon DEF Response, IsNote
    <3> QED BY <3>1, <3>2, <3>3, Zenon
  <2> QED BY <2>1, <2>2, Zenon
<1>3. /\ Up' = Up /\ Down' = Append(Down, m) /\ LeftAnd(Down', Down, 0, m)
      /\ UNCHANGED <<queue, pending, subscriptions, user, got>>
  BY <1>2, ServerMoves, Zenon
<1>4. PICK u \in Subscribers : u = q.user /\ Given(q.id, u)
  <2>1. q \in GoodRequests
    BY Zenon DEF DuplexInv, TrafficInv
  <2>2. GoodRequest(q)
    BY <2>1, Zenon DEF GoodRequests
  <2> QED BY <1>1, <2>2, Zenon DEF GoodRequest
<1>5. Subscribes(q, u) /\ NoUser \notin Subscribers
  BY <1>1, <1>4, DuplexAssumption, Zenon DEF Subscribes, Users
<1>6. \A b \in Subscribers \ {u} : ~AnswersTo(pending, m, b)
  BY <1>2, <1>4, <1>5, Zenon DEF AnswersTo, Given
<1>7. NoNewNote(0) /\ 0 \in Nat
  <2>1. NoNewNote(0)
    BY <1>1, <1>2, <1>3, Zenon DEF NoNewNote, LeftAnd
  <2> QED BY <2>1, Zenon
<1>8. ASSUME NEW b \in Subscribers \ {u} PROVE NothingNew(b, 0)
  <2>1. \A i \in DOMAIN Up' : Subscribes(Up'[i], b) => \E j \in DOMAIN Up : Up[j] = Up'[i]
    BY <1>3, Zenon
  <2>2. \A i \in DOMAIN Down' :
          \/ i + 0 \in DOMAIN Down /\ Down'[i] = Down[i + 0]
          \/ ~AnswersTo(pending', Down'[i], b) /\ ~Foreign(live'[b], Down'[i], b)
    BY <1>2, <1>3, <1>6, <1>8, Zenon DEF LeftAnd, Foreign
  <2>3. requests' \subseteq requests
    BY <1>1, Zenon
  <2> QED BY <1>1, <1>3, <2>1, <2>2, <2>3, Zenon DEF NothingNew
<1>9. /\ Sent(u) /\ Stage(u) /\ SentOnce(u) /\ Own(u)
      /\ user[u] # "idle" /\ u \notin Range(queue)
      /\ live[u] \in {q.sid, NoSid}
  <2>1. Sent(u) /\ Stage(u) /\ SentOnce(u) /\ Own(u)
    BY <1>5, Zenon DEF Sent, NoteInv
  <2> QED BY <1>5, <2>1, Zenon DEF Stage
<1>10. ~Sent(u)' /\ (\A i \in DOMAIN Up' : ~Subscribes(Up'[i], u))
       /\ (\A r \in requests' : ~Subscribes(r, u))
  <2>1. /\ \A i \in DOMAIN Up' : ~Subscribes(Up'[i], u)
        /\ \A r \in requests' : ~Subscribes(r, u)
    BY <1>1, <1>3, <1>5, <1>9, Zenon DEF SentOnce
  <2> QED BY <2>1, Zenon DEF Sent, Subscribes
<1>11. \A i \in DOMAIN Down' : i + 0 = i
  BY QueueTypesNext
<1>12. Stage(u)'
  <2>1. ASSUME NEW i \in DOMAIN Down', AnswersTo(pending', Down'[i], u), Down'[i].value[1] = "sid"
        PROVE  live'[u] \in {Down'[i].value[2], NoSid}
    <3>1. CASE Down'[i] = m
      BY <1>1, <1>2, <1>9, <2>1, <3>1, Zenon
    <3>2. CASE i + 0 \in DOMAIN Down /\ Down'[i] = Down[i + 0]
      <4>1. i \in DOMAIN Down /\ Down'[i] = Down[i] /\ Down[i].value[1] = "sid"
        BY <1>11, <2>1, <3>2, Zenon
      <4>2. AnswersTo(pending, Down[i], u)
        BY <1>3, <2>1, <4>1, Zenon
      <4>3. live[u] \in {Down[i].value[2], NoSid}
        BY <1>9, <4>1, <4>2, Zenon DEF Stage
      <4> QED BY <1>1, <4>1, <4>3, Zenon
    <3> QED BY <1>3, <3>1, <3>2, Zenon DEF LeftAnd
  <2> QED BY <1>1, <1>3, <1>9, <1>10, <2>1, Zenon DEF Stage
<1>13. Own(u)'
  <2> SUFFICES ASSUME live'[u] # NoSid PROVE Own(u)'
    BY Zenon DEF Own
  <2>1. ASSUME NEW j \in DOMAIN Down', Foreign(live'[u], Down'[j], u)
        PROVE  /\ \A k \in MapKeys : subscriptions'[k] # u
               /\ \A i \in DOMAIN Down' : i <= j => ~AnswersTo(pending', Down'[i], u)
    <3>1. Down'[j] # m
      BY <1>2, <2>1, Zenon DEF Foreign
    <3>2. j \in DOMAIN Down /\ Down'[j] = Down[j]
      BY <1>3, <1>11, <3>1, Zenon DEF LeftAnd
    <3>3. /\ \A k \in MapKeys : subscriptions[k] # u
          /\ \A i \in DOMAIN Down : i <= j => ~AnswersTo(pending, Down[i], u)
      BY <1>1, <1>9, <2>1, <3>2, Zenon DEF Own
    <3>4. \A i \in DOMAIN Down' : i <= j => i \in DOMAIN Down /\ Down'[i] = Down[i]
      <4>1. Down \in Seq(GoodMessages)
        BY QueueTypes, Zenon
      <4> QED BY <1>3, <3>2, <4>1
    <3> QED BY <1>3, <3>3, <3>4, Zenon
  <2>2. \A i \in DOMAIN got'[u] : got'[u][i][2] = u
    BY <1>1, <1>3, <1>9, Zenon DEF Own
  <2> QED BY <2>1, <2>2, Zenon DEF Own
<1>14. ASSUME NEW b \in Subscribers PROVE Stage(b)' /\ Own(b)' /\ Ordered(b)'
  <2>1. Ordered(b)' /\ Stage(b) /\ Own(b)
    BY <1>3, <1>7, OrderStays, Zenon DEF NoteInv
  <2>2. CASE b = u
    BY <1>12, <1>13, <2>1, <2>2, Zenon
  <2>3. CASE b # u
    BY <1>7, <1>8, <2>1, <2>3, StageStays, OwnStays, Zenon
  <2> QED BY <2>2, <2>3, Zenon
<1>15. DownOrdered' /\ \A i \in DOMAIN Up' : Up'[i].kind # "accepted"
  BY <1>3, <1>7, OrderStays, Zenon DEF NoteInv
<1>16. OneLive'
  BY <1>1, Zenon DEF NoteInv, OneLive
<1>17. ASSUME NEW b \in Subscribers PROVE SentOnce(b)'
  BY <1>1, <1>3, Zenon DEF SentOnce, NoteInv
<1> QED BY <1>14, <1>15, <1>16, <1>17, Zenon DEF NoteInv

(***************************************************************************)
(* A live subscription notifies: no other has its id and name.             *)
(***************************************************************************)
LEMMA NoteNotify ==
  ASSUME DuplexInv, DuplexInv', NoteInv, NEW c \in Subscribers, Notify(c)
  PROVE  NoteInv'
<1>1. /\ live[c] # NoSid /\ notes' = notes + 1 /\ UNCHANGED <<requests, live>>
      /\ ServerSends(Notification(c, live[c], notes + 1))
  BY Zenon DEF Notify
<1>2. PICK m : m = Notification(c, live[c], notes + 1)
  BY Zenon
<1>3. /\ m.id = NoRequestId /\ m.sid = live[c] /\ m.method = NameOf[c]
      /\ m.value[2] = c /\ m.value[3] = notes + 1
  BY <1>2, Zenon DEF Notification
<1>4. /\ Up' = Up /\ Down' = Append(Down, m) /\ LeftAnd(Down', Down, 0, m)
      /\ UNCHANGED <<queue, pending, subscriptions, user, got>>
  BY <1>1, <1>2, ServerMoves, Zenon
<1>5. NoRequestId \notin DOMAIN pending /\ notes \in Nat
  BY DuplexAssumption DEF DuplexInv, DuplexTypeOK
<1>6. ASSUME NEW b \in Subscribers PROVE NothingNew(b, 0)
  <2>1. ~AnswersTo(pending', m, b)
    BY <1>3, <1>4, <1>5, Zenon DEF AnswersTo
  <2>2. ~Foreign(live'[b], m, b)
    BY <1>1, <1>3, Zenon DEF Foreign, NoteInv, OneLive
  <2>3. \A i \in DOMAIN Down' :
          \/ i + 0 \in DOMAIN Down /\ Down'[i] = Down[i + 0]
          \/ ~AnswersTo(pending', Down'[i], b) /\ ~Foreign(live'[b], Down'[i], b)
    BY <1>4, <2>1, <2>2, Zenon DEF LeftAnd
  <2> QED BY <1>1, <1>4, <2>3, Zenon DEF NothingNew
<1>7. \A j \in DOMAIN Down : IsNote(Down[j]) => Down[j].value[3] \in Nat /\ Down[j].value[3] <= notes
  <2>1. \A j \in DOMAIN Down : Down[j] \in GoodMessages
    BY QueueTypes
  <2>2. \A j \in DOMAIN Down : IsNote(Down[j]) => Down[j].value[3] \in 1 .. MaxNotes
    BY <2>1, NoteNumbers, Zenon
  <2>3. \A j \in DOMAIN Down : IsNote(Down[j]) => Down[j].value[3] <= notes
    BY Zenon DEF NoteInv, DownOrdered
  <2> QED BY <2>2, <2>3
<1>8. \A j \in DOMAIN Down' : \/ j \in DOMAIN Down /\ Down'[j] = Down[j]
                              \/ Down'[j] = m /\ j \notin DOMAIN Down /\ j = Len(Down) + 1
  <2>1. Down \in Seq(GoodMessages)
    BY QueueTypes, Zenon
  <2> QED BY <1>4, <2>1
<1>9. DownOrdered'
  <2>1. \A j \in DOMAIN Down' : IsNote(Down'[j]) => Down'[j].value[3] <= notes'
    BY <1>1, <1>3, <1>5, <1>7, <1>8
  <2>2. ASSUME NEW i \in DOMAIN Down', NEW j \in DOMAIN Down', i < j,
               IsNote(Down'[i]), IsNote(Down'[j])
        PROVE  Down'[i].value[3] < Down'[j].value[3]
    <3>1. i \in DOMAIN Down /\ Down'[i] = Down[i]
      <4>1. Down \in Seq(GoodMessages)
        BY QueueTypes, Zenon
      <4> QED BY <1>4, <1>8, <2>2, <4>1
    <3>2. CASE j \in DOMAIN Down /\ Down'[j] = Down[j]
      BY <2>2, <3>1, <3>2, Zenon DEF NoteInv, DownOrdered
    <3>3. CASE Down'[j] = m
      BY <1>3, <1>5, <1>7, <2>2, <3>1, <3>3
    <3> QED BY <1>8, <3>2, <3>3, Zenon
  <2> QED BY <2>1, <2>2, Zenon DEF DownOrdered
<1>10. ASSUME NEW b \in Subscribers PROVE Ordered(b)'
  <2>1. Ordered(b) /\ got'[b] = got[b]
    BY <1>4, Zenon DEF NoteInv
  <2>2. \A i \in DOMAIN got[b] : got[b][i][1] = "note" => got[b][i][3] \in Nat /\ got[b][i][3] <= notes
    <3>1. \A i \in DOMAIN got[b] : got[b][i] \in Values
      <4>1. got[b] \in Seq(Values)
        BY Zenon DEF DuplexInv, DuplexTypeOK, Users
      <4> QED BY <4>1
    <3>2. \A i \in DOMAIN got[b] : got[b][i][1] = "note" => got[b][i][3] \in 1 .. MaxNotes
      BY <3>1, NoteNumbers, Zenon
    <3>3. \A i \in DOMAIN got[b] : got[b][i][1] = "note" => got[b][i][3] <= notes
      BY <2>1, Zenon DEF Ordered
    <3> QED BY <3>2, <3>3
  <2>3. ASSUME NEW i \in DOMAIN got'[b], got'[b][i][1] = "note"
        PROVE  /\ got'[b][i][3] <= notes'
               /\ \A j \in DOMAIN Down' : IsNote(Down'[j]) => got'[b][i][3] < Down'[j].value[3]
    <3>1. got[b][i][3] \in Nat /\ got[b][i][3] <= notes /\ i \in DOMAIN got[b]
      BY <2>1, <2>2, <2>3, Zenon
    <3>2. got[b][i][3] <= notes + 1 /\ got[b][i][3] < notes + 1
      BY <1>5, <3>1
    <3>3. \A j \in DOMAIN Down : IsNote(Down[j]) => got[b][i][3] < Down[j].value[3]
      BY <2>1, <2>3, <3>1, Zenon DEF Ordered
    <3>4. \A j \in DOMAIN Down' : IsNote(Down'[j]) => got[b][i][3] < Down'[j].value[3]
      BY <1>3, <1>8, <3>2, <3>3, Zenon
    <3> QED BY <1>1, <2>1, <3>2, <3>4, Zenon
  <2> QED BY <2>1, <2>3, Zenon DEF Ordered
<1>11. 0 \in Nat
  BY Zenon
<1>12. ASSUME NEW b \in Subscribers PROVE Stage(b)' /\ Own(b)'
  BY <1>6, <1>11, StageStays, OwnStays, Zenon DEF NoteInv
<1>13. OneLive' /\ \A i \in DOMAIN Up' : Up'[i].kind # "accepted"
  BY <1>1, <1>4, Zenon DEF NoteInv, OneLive
<1>14. ASSUME NEW b \in Subscribers PROVE SentOnce(b)'
  BY <1>1, <1>4, Zenon DEF SentOnce, NoteInv
<1> QED BY <1>9, <1>10, <1>12, <1>13, <1>14, Zenon DEF NoteInv

(***************************************************************************)
(* A stream carries notifications in the order the server sent them, none  *)
(* of them twice, or its one rejection, and only its own while the server  *)
(* has its subscription: Subscribed and Deliver, for any number of         *)
(* subscribers, names, ids and notifications.                              *)
(***************************************************************************)
THEOREM StreamsAreInOrder == DuplexSpec => []OwnNotifications
<1>1. DuplexInit => NoteInv
  <2> SUFFICES ASSUME DuplexInit PROVE NoteInv
    BY Zenon
  <2>1. /\ Up = <<>> /\ Down = <<>> /\ requests = {}
    BY DEF DuplexInit, Up, Down
  <2>2. /\ DOMAIN Up = {} /\ DOMAIN Down = {} /\ DOMAIN queue = {} /\ DOMAIN pending = {}
    BY <2>1 DEF DuplexInit
  <2>3. \A b \in Subscribers : got[b] = <<>> /\ DOMAIN got[b] = {} /\ live[b] = NoSid
    BY DEF DuplexInit, Users
  <2>4. NoUser \notin Subscribers /\ \A k \in MapKeys : subscriptions[k] = NoUser
    BY DuplexAssumption, Zenon DEF DuplexInit, Users
  <2>5. \A b \in Subscribers : SentOnce(b) /\ ~Sent(b)
    BY <2>1, <2>2, Zenon DEF SentOnce, Sent
  <2>6. \A b \in Subscribers : Stage(b)
    BY <2>1, <2>2, <2>3, <2>4, <2>5, Zenon DEF Stage
  <2>7. \A b \in Subscribers : Own(b) /\ Ordered(b)
    BY <2>2, <2>3, Zenon DEF Own, Ordered
  <2>8. DownOrdered /\ OneLive
    BY <2>2, <2>3, Zenon DEF DownOrdered, OneLive
  <2> QED BY <2>2, <2>5, <2>6, <2>7, <2>8, Zenon DEF NoteInv
<1>2. ASSUME DuplexInv, DuplexInv', NoteInv, [DuplexNext]_linkVars PROVE NoteInv'
  <2>1. CASE \E u \in Users : Ask(u) \/ GiveUp(u)
    BY <1>2, <2>1, NoteMoves, Zenon
  <2>2. CASE \/ DropHandles \/ NoMoreRequests \/ StreamPending \/ IncomingHandled \/ PollAgain
             \/ UNCHANGED linkVars
    BY <1>2, <2>2, ControlSteps, NoteMoves, Zenon
  <2>3. CASE ParseError \/ StreamClosed \/ SinkFails
    BY <1>2, <2>3, NoteEnd, Zenon DEF ParseError, StreamClosed, SinkFails
  <2>4. CASE FinishPoll
    <3>1. CASE End
      BY <1>2, <3>1, NoteEnd, Zenon
    <3>2. CASE ~End
      <4>1. ControlStep
        BY <2>4, <3>2, Zenon DEF FinishPoll, ControlStep, serverVars
      <4> QED BY <1>2, <4>1, NoteMoves, Zenon
    <3> QED BY <3>1, <3>2, Zenon
  <2>5. CASE Server
    BY <1>2, <2>5, NoteMoves, NoteAnswerRequest, NoteAccept, NoteAnswerSubscription, NoteNotify, Zenon
       DEF Server, ServerAnswers
  <2>6. CASE SendRequest \/ ReadMessage
    BY <1>2, <2>6, NoteMoves, Zenon
  <2> QED BY <1>2, <2>1, <2>2, <2>3, <2>4, <2>5, <2>6, NoteTakeRequest, NoteIncoming, NoteSinkWrites,
             Zenon DEF DuplexNext, PollClient
<1>3. NoteInv => OwnNotifications
  BY Zenon DEF NoteInv, Own, Ordered, OwnNotifications
<1> QED BY <1>1, <1>2, <1>3, DuplexInvariance, PTL DEF DuplexSpec
=============================================================================
