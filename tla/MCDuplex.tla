------------------------------ MODULE MCDuplex ------------------------------
(***************************************************************************)
(* Instances of Duplex for TLC.                                            *)
(***************************************************************************)
EXTENDS Duplex, TLC

CONSTANTS b1, b2, n1, x1, x2

NoSubscriber == <<>>

SameName == (b1 :> n1) @@ (b2 :> n1)

(***************************************************************************)
(* Both subscribers use one notification name, so they are interchangeable *)
(* and so are the ids the server gives out.                                *)
(***************************************************************************)
Symmetry == Permutations({b1, b2}) \cup Permutations({x1, x2})
=============================================================================
