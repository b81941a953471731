------------------------------- MODULE MCCore -------------------------------
(***************************************************************************)
(* An instance of Core for TLC.                                            *)
(***************************************************************************)
EXTENDS Core

CONSTANTS m1, m2, m3, s1, s2, r1, r2, n1
-----------------------------------------------------------------------------
(***************************************************************************)
(* A delegate with a method, an alias of it and an alias of the alias; two *)
(* delegates in one go that share names, one of them with a subscription;  *)
(* a notification and its alias that take the place of some of these.      *)
(***************************************************************************)
MCRegistrations ==
  LET own == IoDelegate("handler")
  IN  { << add_alias(add_alias(add_method(IoDelegate("api"), m1), m2, m1), m3, m2).methods >>,
        << add_subscription(IoDelegate("api"), m1, m2).methods,
           add_method(add_notification(IoDelegate("other"), m1), m3).methods >>,
        << add_alias(add_notification(own, m1), m3, m1).methods >> }

Noop == [requests |-> {}, names |-> {}, value |-> "none"]

(***************************************************************************)
(* None; two that want the same name, the outer one without an output; one *)
(* that answers batches.                                                   *)
(***************************************************************************)
MCMiddlewares ==
  { << Noop >>,
    << Noop, [Noop EXCEPT !.names = {m1}], [Noop EXCEPT !.names = {m1, m3}, !.value = "cached"] >>,
    << [Noop EXCEPT !.requests = {"batch"}, !.value = "limited"],
       [Noop EXCEPT !.names = {m2}, !.value = "cached"] >> }

(* The version of each call is checked on its own: one call shows that.    *)
MCMaxBatch == [c \in {"V1", "V2"} |-> 1] @@ ("Both" :> 2)
-----------------------------------------------------------------------------
(* Two calls, on two connections. *)

TwoSessions == (r1 :> s1) @@ (r2 :> s2)

OneName == (r1 :> n1) @@ (r2 :> n1)

MCIds == 0 .. IdSpace - 1
-----------------------------------------------------------------------------
(* A client with two calls and a notification. *)

NoSubscriber == <<>>
=============================================================================
