--------------------------- MODULE Subscriptions ---------------------------
(***************************************************************************)
(* What a pubsub Session promises, without channels, futures or threads:   *)
(* a subscription becomes active once, in a live session, displacing an    *)
(* active one of the same id and name; it ends once; and a session that    *)
(* goes away ends whatever it still has.                                   *)
(***************************************************************************)
CONSTANTS Sessions, Subscriptions, SessionOf

VARIABLES
  state,  \* [Subscriptions -> {"absent", "active", "ended"}]
  live,   \* the sessions that have not been dropped
  key     \* the id and name of a subscription, fixed once it is active

abstractVars == <<state, live, key>>

ActiveIn(s) == {x \in Subscriptions : SessionOf[x] = s /\ state[x] = "active"}

EndAll(X) == [x \in Subscriptions |-> IF x \in X THEN "ended" ELSE state[x]]

Init ==
  /\ state = [x \in Subscriptions |-> "absent"]
  /\ live = Sessions

Register(x) ==
  LET displaced == {y \in ActiveIn(SessionOf[x]) : key[y] = key[x]}
  IN  /\ state[x] = "absent"
      /\ SessionOf[x] \in live
      /\ state' = [EndAll(displaced) EXCEPT ![x] = "active"]
      /\ UNCHANGED <<live, key>>

End(x) ==
  /\ state[x] = "active"
  /\ state' = EndAll({x})
  /\ UNCHANGED <<live, key>>

Drop(s) ==
  /\ s \in live
  /\ live' = live \ {s}
  /\ state' = EndAll(ActiveIn(s))
  /\ UNCHANGED key

ChooseKey(x) ==
  /\ state[x] = "absent"
  /\ \A y \in Subscriptions \ {x} : key'[y] = key[y]
  /\ UNCHANGED <<state, live>>

Next ==
  \/ \E x \in Subscriptions : Register(x) \/ End(x) \/ ChooseKey(x)
  \/ \E s \in Sessions : Drop(s)

Spec == Init /\ [][Next]_abstractVars
=============================================================================
