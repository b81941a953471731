------------------------------ MODULE RpcCalls ------------------------------
(***************************************************************************)
(* What a JSON-RPC client promises to those who use it, without ids,       *)
(* queues or a wire: a user that is waiting gets what was sent to it, in   *)
(* order, and stops waiting when its answer is complete, when it loses     *)
(* interest, or when the client ends; an ended client leaves nobody        *)
(* waiting.                                                                *)
(***************************************************************************)
EXTENDS Sequences

CONSTANTS Users, Values

VARIABLES
  user,     \* [Users -> {"idle", "waiting", "done", "failed", "gone"}]
  got,      \* what each user has received
  running   \* whether the client still runs

clientVars == <<user, got, running>>

Init ==
  /\ user = [u \in Users |-> "idle"]
  /\ got = [u \in Users |-> <<>>]
  /\ running = TRUE

Ask(u) ==
  /\ user[u] = "idle"
  /\ \E s \in IF running THEN {"waiting", "done"} ELSE {"failed"} :
       user' = [user EXCEPT ![u] = s]
  /\ UNCHANGED <<got, running>>

Receive(u) ==
  /\ running
  /\ user[u] = "waiting"
  /\ \E v \in Values : got' = [got EXCEPT ![u] = Append(@, v)]
  /\ \E s \in {"waiting", "done"} : user' = [user EXCEPT ![u] = s]
  /\ UNCHANGED running

(* A subscription whose id the server gave away ends without its client.   *)
Displace(u) ==
  /\ running
  /\ user[u] = "waiting"
  /\ user' = [user EXCEPT ![u] = "failed"]
  /\ UNCHANGED <<got, running>>

GiveUp(u) ==
  /\ user[u] = "waiting"
  /\ user' = [user EXCEPT ![u] = "gone"]
  /\ UNCHANGED <<got, running>>

End ==
  /\ running
  /\ running' = FALSE
  /\ user' = [u \in Users |-> IF user[u] = "waiting" THEN "failed" ELSE user[u]]
  /\ UNCHANGED got

Next ==
  \/ \E u \in Users : Ask(u) \/ Receive(u) \/ Displace(u) \/ GiveUp(u)
  \/ End

Spec == Init /\ [][Next]_clientVars
=============================================================================
