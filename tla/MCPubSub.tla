------------------------------ MODULE MCPubSub ------------------------------
(***************************************************************************)
(* Instances of PubSub for TLC: two calls that may collide on one          *)
(* connection, and a third call on a connection without a session.         *)
(***************************************************************************)
EXTENDS PubSub, TLC

CONSTANTS s1, s2, r1, r2, r3, n1

TwoSessions == (r1 :> s1) @@ (r2 :> s1) @@ (r3 :> s2)

OneName == (r1 :> n1) @@ (r2 :> n1) @@ (r3 :> n1)

PairSession == (r1 :> s1) @@ (r2 :> s1)

PairName == (r1 :> n1) @@ (r2 :> n1)
=============================================================================
