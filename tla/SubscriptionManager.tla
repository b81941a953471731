------------------------ MODULE SubscriptionManager ------------------------
(***************************************************************************)
(* SubscriptionManager of jsonrpc-pubsub, composed with the sessions whose *)
(* subscriptions it serves: a subscribe handler gives its Subscriber to    *)
(* `add`, the unsubscribe handler calls `cancel`.  `add` takes no lock     *)
(* between its steps, so other threads run between any two of them; the    *)
(* unsubscribe handler runs after the session has let go of its map.       *)
(***************************************************************************)
EXTENDS PubSub, Integers

CONSTANTS
  NumericIds,  \* NumericIdProvider, otherwise RandomStringIdProvider
  IdSpace,     \* number of ids: usize values, or strings of the chosen length
  FirstId,     \* where the numeric provider starts
  Inline       \* calls whose handler runs `add` before it returns to Subscribe::call

ASSUME ManagerAssumption ==
  /\ NumericIds \in BOOLEAN
  /\ IdSpace \in Nat \ {0}
  /\ Ids = 0 .. IdSpace - 1
  /\ FirstId \in Ids
  /\ Inline \subseteq Requests

VARIABLES
  current_id,  \* counter of the numeric provider
  tx,          \* active_subscriptions: id |-> the call whose sender is stored
  adding,      \* where the thread in `add` is
  signal,      \* what the task's receiver sees: nothing, () or a dropped sender
  task         \* the task that drives the sink

managerVars == <<current_id, tx, adding, signal, task>>

allVars == <<vars, managerVars>>

ManagerTypeOK ==
  /\ TypeOK
  /\ current_id \in Ids
  /\ tx \in [Ids -> Requests \cup {NoRequest}]
  /\ adding \in [Requests -> {"assign", "insert", "spawn", "returned"}]
  /\ signal \in [Requests -> {"none", "sent", "dropped"}]
  /\ task \in [Requests -> {"none", "running", "finished", "cancelled", "unspawned"}]

ManagerInit ==
  /\ Init
  /\ current_id = FirstId
  /\ tx = [i \in Ids |-> NoRequest]
  /\ adding = [r \in Requests |-> "assign"]
  /\ signal = [r \in Requests |-> "none"]
  /\ task = [r \in Requests |-> "none"]

(***************************************************************************)
(* IdProvider::next_id: the counter before it is advanced, or any string.  *)
(***************************************************************************)
NextIds == IF NumericIds THEN {current_id} ELSE Ids

(* Mutant: the counter is read without being advanced.                     *)
CounterStuck == UNCHANGED current_id

(* Mutant: the counter does not wrap around at the width of usize.         *)
CounterUnbounded ==
  current_id' = IF NumericIds THEN current_id + 1 ELSE current_id

AdvanceCounter ==
  current_id' = IF NumericIds THEN (current_id + 1) % IdSpace ELSE current_id

-----------------------------------------------------------------------------
(***************************************************************************)
(* add, up to assign_id: without a Sink there is nothing more to do.       *)
(***************************************************************************)
AddAssign(r) ==
  /\ adding[r] = "assign"
  /\ \E i \in NextIds : assign_id(r, i)
  /\ AdvanceCounter
  /\ adding' = [adding EXCEPT ![r] = IF sub'[r] = "sinkNow" THEN "insert" ELSE "returned"]
  /\ UNCHANGED <<tx, signal, task>>

(* Mutant: the sender is stored under a second id of the provider.         *)
InsertUnderNextId(r) ==
  LET old == tx[current_id]
  IN  /\ adding[r] = "insert"
      /\ tx' = [tx EXCEPT ![current_id] = r]
      /\ signal' = [x \in Requests |-> IF x = old THEN "dropped" ELSE signal[x]]
      /\ adding' = [adding EXCEPT ![r] = "spawn"]
      /\ UNCHANGED <<vars, current_id, task>>

(***************************************************************************)
(* add: active_subscriptions.lock().insert(id, tx).  A sender this         *)
(* replaces is dropped, which its receiver sees.                           *)
(***************************************************************************)
AddInsert(r) ==
  LET old == tx[subId[r]]
  IN  /\ adding[r] = "insert"
      /\ tx' = [tx EXCEPT ![subId[r]] = r]
      /\ signal' = [x \in Requests |-> IF x = old THEN "dropped" ELSE signal[x]]
      /\ adding' = [adding EXCEPT ![r] = "spawn"]
      /\ UNCHANGED <<vars, current_id, task>>

(***************************************************************************)
(* add: spawn_obj.  A failure is only logged; the entry stays.             *)
(***************************************************************************)
AddSpawn(r) ==
  /\ adding[r] = "spawn"
  /\ \E outcome \in {"running", "unspawned"} : task' = [task EXCEPT ![r] = outcome]
  /\ adding' = [adding EXCEPT ![r] = "returned"]
  /\ UNCHANGED <<vars, current_id, tx, signal>>

(* Mutant: cancel only looks whether the id is there.                      *)
CancelLooksUp(r) ==
  /\ UnsubscribeDone(r)
  /\ UNCHANGED managerVars

(***************************************************************************)
(* The unsubscribe handler: cancel(id) removes the sender and uses it, and *)
(* does nothing for an id it does not know.                                *)
(***************************************************************************)
Cancel(r) ==
  LET found == tx[subId[r]]
  IN  /\ UnsubscribeDone(r)
      /\ tx' = [tx EXCEPT ![subId[r]] = NoRequest]
      /\ signal' = [x \in Requests |-> IF x = found THEN "sent" ELSE signal[x]]
      /\ UNCHANGED <<current_id, adding, task>>

(* Mutant: the task joins its two futures instead of selecting.            *)
TaskJoins(r) ==
  /\ task[r] = "finished"
  /\ signal[r] # "none"
  /\ task' = [task EXCEPT ![r] = "cancelled"]
  /\ UNCHANGED <<vars, current_id, tx, adding, signal>>

(***************************************************************************)
(* The select! of the task: the user's future completes, or the receiver   *)
(* does, with () or with the error of a dropped sender.                    *)
(***************************************************************************)
TaskFinishes(r) ==
  /\ task[r] = "running"
  /\ task' = [task EXCEPT ![r] = "finished"]
  /\ UNCHANGED <<vars, current_id, tx, adding, signal>>

TaskCancelled(r) ==
  /\ task[r] = "running"
  /\ signal[r] # "none"
  /\ task' = [task EXCEPT ![r] = "cancelled"]
  /\ UNCHANGED <<vars, current_id, tx, adding, signal>>

(***************************************************************************)
(* The request future of an inline handler exists only after `add`.        *)
(***************************************************************************)
FutureStep(r) ==
  /\ r \in Inline => adding[r] = "returned"
  /\ Future(r)
  /\ UNCHANGED managerVars

ManagerNext ==
  \/ \E r \in Requests : \/ AddAssign(r)
                         \/ AddInsert(r)
                         \/ AddSpawn(r)
                         \/ Cancel(r)
                         \/ TaskFinishes(r)
                         \/ TaskCancelled(r)
                         \/ FutureStep(r)
                         \/ Subscribe(r) /\ UNCHANGED managerVars
  \/ \E s \in Sessions : Session(s) /\ UNCHANGED managerVars

(***************************************************************************)
(* The thread in `add` and the unsubscribe handler run to their end; the   *)
(* executor polls a task whose receiver is ready.  Nothing else is owed.   *)
(***************************************************************************)
ManagerFairness ==
  \A r \in Requests : /\ WF_allVars(AddInsert(r) \/ AddSpawn(r))
                      /\ WF_allVars(Cancel(r))
                      /\ WF_allVars(TaskCancelled(r))

ManagerSpec == ManagerInit /\ [][ManagerNext]_allVars /\ ManagerFairness

-----------------------------------------------------------------------------
(***************************************************************************)
(* A task that runs and was not told to stop can be told to: the manager   *)
(* holds its sender under its id.  Holds when ids collide, too, since      *)
(* insert drops the sender it replaces.                                    *)
(***************************************************************************)
NoOrphanTask ==
  \A r \in Requests :
    task[r] = "running" /\ signal[r] = "none" => tx[subId[r]] = r

(***************************************************************************)
(* cancel stops only what was unsubscribed: while ids are unique, a task   *)
(* gets the signal after its own session called the unsubscribe handler    *)
(* for its own subscription, and no insert displaces a sender.             *)
(***************************************************************************)
OnlyOwnCancel ==
  \A r \in Requests :
    signal[r] # "none" => signal[r] = "sent" /\ calls[r] = 1

(***************************************************************************)
(* An unsubscription that is under way when `add` has returned stops the   *)
(* task, whether the client, a collision or the end of the session asked   *)
(* for it.                                                                 *)
(***************************************************************************)
UnsubscribeStopsTask ==
  \A r \in Requests :
    (adding[r] = "returned" /\ unsub[r] \in {"client", "pool"}) ~> task[r] # "running"

(***************************************************************************)
(* Once the unsubscribe handler has called cancel for a subscription, its  *)
(* task has the signal or does not run, provided that its subscribe        *)
(* handler called `add` before it returned.                                *)
(***************************************************************************)
CancelReachesInlineTask ==
  \A r \in Inline :
    unsub[r] = "done" /\ task[r] = "running" => signal[r] # "none"

(***************************************************************************)
(* "A way to cancel any currently active subscription": the same for every *)
(* subscription, wherever its handler calls `add`.                         *)
(***************************************************************************)
CancelReachesTask ==
  \A r \in Requests :
    unsub[r] = "done" /\ task[r] = "running" => signal[r] # "none"
=============================================================================
