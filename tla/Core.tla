-------------------------------- MODULE Core --------------------------------
(***************************************************************************)
(* A process with the parts that need no transport: the handler of         *)
(* requests, a SubscriptionManager over the sessions of its connections,   *)
(* and a client.  They share no state, so it is enough that one of them is *)
(* used at a time: which one is chosen in the initial state, and the       *)
(* others stay as they are.                                                *)
(***************************************************************************)
EXTENDS IoHandler, SubscriptionManager, Duplex

VARIABLE used  \* handler, manager or client

coreVars == <<used, ioVars, allVars, linkVars>>

CoreInit ==
  /\ used \in {"handler", "manager", "client"}
  /\ IoInit /\ ManagerInit /\ DuplexInit
  /\ used # "handler" => compatibility = "Both" /\ middleware = CHOOSE ms \in Middlewares : TRUE

CoreNext ==
  /\ UNCHANGED used
  /\ \/ used = "handler" /\ IoNext /\ UNCHANGED <<allVars, linkVars>>
     \/ used = "manager" /\ ManagerNext /\ UNCHANGED <<ioVars, linkVars>>
     \/ used = "client" /\ DuplexNext /\ UNCHANGED <<ioVars, allVars>>

(***************************************************************************)
(* What is owed is what each part's own fairness asks for.  No part can go *)
(* back to an earlier state, so its steps need not be told apart.          *)
(***************************************************************************)
CoreFairness ==
  /\ WF_ioVars(used = "handler" /\ (FinishRequest \/ \E i \in DOMAIN futures : CallCompletes(i)))
  /\ WF_allVars(/\ used = "manager"
                /\ \E r \in Requests : AddInsert(r) \/ AddSpawn(r) \/ Cancel(r) \/ TaskCancelled(r))
  /\ WF_linkVars(used = "client" /\ (PollClient \/ SinkWrites \/ ServerAnswers))

CoreSpec == CoreInit /\ [][CoreNext]_coreVars /\ CoreFairness
=============================================================================
