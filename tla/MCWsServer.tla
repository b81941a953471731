----------------------------- MODULE MCWsServer -----------------------------
(***************************************************************************)
(* Instances of WsServer for TLC.                                          *)
(***************************************************************************)
EXTENDS WsServer, TLC

CONSTANTS c1, t1, t2

OneConnection == (t1 :> c1) @@ (t2 :> c1)
=============================================================================
