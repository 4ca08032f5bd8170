----------------------------- MODULE TurnQueue -----------------------------
(***************************************************************************)
(* What snooper.OrderedProcessor promises to the loggers that use it: each *)
(* task takes a ticket, tasks get their turn in the order of their         *)
(* tickets, and a task may give up waiting and go ahead "late", or leave   *)
(* without having had a turn.  It has no counters of turns, no wait set    *)
(* and no channels: those are OrderedProcessor's, which implements it.     *)
(***************************************************************************)
EXTENDS Naturals

CONSTANT Tasks      \* the goroutines that log a request, a response or an event

VARIABLES stage,    \* what each task is doing, one of Stages
          ticket,   \* the ticket each task drew, 0 before it draws one
          issued    \* the last ticket drawn

queueVars == <<stage, ticket, issued>>

Stages == {"idle", "queued", "turn", "late", "done"}

QueueTypeOK == /\ stage \in [Tasks -> Stages]
               /\ ticket \in [Tasks -> Nat]
               /\ issued \in Nat

QueueInit == /\ stage = [t \in Tasks |-> "idle"]
             /\ ticket = [t \in Tasks |-> 0]
             /\ issued = 0

(* The tasks that drew a ticket before t did. *)
Ahead(t) == {u \in Tasks : ticket[u] \in 1..(ticket[t] - 1)}

Take(t) == /\ stage[t] = "idle"
           /\ issued' = issued + 1
           /\ ticket' = [ticket EXCEPT ![t] = issued + 1]
           /\ stage' = [stage EXCEPT ![t] = "queued"]

Enter(t) == /\ stage[t] = "queued"
            /\ \A u \in Ahead(t) : stage[u] = "done"
            /\ stage' = [stage EXCEPT ![t] = "turn"]
            /\ UNCHANGED <<ticket, issued>>

Overtake(t) == /\ stage[t] = "queued"
               /\ stage' = [stage EXCEPT ![t] = "late"]
               /\ UNCHANGED <<ticket, issued>>

Leave(t) == /\ stage[t] \in {"queued", "turn", "late"}
            /\ stage' = [stage EXCEPT ![t] = "done"]
            /\ UNCHANGED <<ticket, issued>>

QueueNext == \E t \in Tasks : Take(t) \/ Enter(t) \/ Overtake(t) \/ Leave(t)

QueueSpec == QueueInit /\ [][QueueNext]_queueVars
============================================================================
