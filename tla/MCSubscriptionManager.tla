----------------------- MODULE MCSubscriptionManager -----------------------
(***************************************************************************)
(* The instance of SubscriptionManager for TLC: two calls on one           *)
(* connection.                                                             *)
(***************************************************************************)
EXTENDS SubscriptionManager, TLC

CONSTANTS s1, r1, r2, n1

OneSession == (r1 :> s1) @@ (r2 :> s1)

OneName == (r1 :> n1) @@ (r2 :> n1)

MCIds == 0 .. IdSpace - 1
=============================================================================
