-------------------------- MODULE OrderedProcessor --------------------------
(***************************************************************************)
(* src/snooper/ordered_processor.go: the mutex-protected sequencer every   *)
(* logging goroutine passes through.  A task is one such goroutine: it     *)
(* calls GetNextSequence once, then WaitForSequence (unless it gives up    *)
(* before, on a decompression error), works in its section, and            *)
(* CompleteSequence runs as a deferred call whatever happened.             *)
(* The code holds the mutex for the whole of every action below, so each   *)
(* is one step; the select of WaitForSequence is one action per case.      *)
(***************************************************************************)
EXTENDS Naturals

CONSTANTS Tasks,     \* goroutines that use the processor, each once
          Stalled    \* those that may hang inside their section for ever (a
                     \* module's WebSocket write has no deadline)

ASSUME StalledAssumption == Stalled \subseteq Tasks

VARIABLES sequenceCounter,  \* last number given out
          nextSequence,     \* first number not known to be completed
          activeSequences,  \* numbers given out and not completed (true keys)
          waiters,          \* numbers that have an open waiter channel in the map
          closed,           \* numbers whose waiter channel was closed
          stopChan,         \* TRUE once stopChan is closed
          pc,               \* where each task stands, one of Places
          seq               \* the number a task holds, 0 before it has one

vars == <<sequenceCounter, nextSequence, activeSequences, waiters, closed,
          stopChan, pc, seq>>

(* "waiting" is the select, "expired" a select that chose the timer and     *)
(* still has to take the mutex.  WaitForSequence returns true into "turn"   *)
(* and "late" alike; the two keep apart how it came about.  It returns      *)
(* false into "leaving", where only the deferred CompleteSequence is left.  *)
Places == {"new", "numbered", "waiting", "expired", "turn", "late",
           "leaving", "done"}

Section == {"turn", "late"}

TypeOK == /\ sequenceCounter \in Nat
          /\ nextSequence \in 1..(sequenceCounter + 1)
          /\ activeSequences \subseteq 1..sequenceCounter
          /\ waiters \subseteq 1..sequenceCounter
          /\ closed \subseteq 1..sequenceCounter
          /\ stopChan \in BOOLEAN
          /\ pc \in [Tasks -> Places]
          /\ seq \in [Tasks -> 0..sequenceCounter]

(* Definitions named X_Slip... are X with a plausible mistake.  The          *)
(* specification does not use them: each stands in for X to show that a     *)
(* property notices (README, "Slips").                                      *)

Init_SlipZero == /\ sequenceCounter = 0
                 /\ nextSequence = 0
                 /\ activeSequences = {} /\ waiters = {} /\ closed = {}
                 /\ stopChan = FALSE
                 /\ pc = [t \in Tasks |-> "new"]
                 /\ seq = [t \in Tasks |-> 0]

Init == /\ sequenceCounter = 0
        /\ nextSequence = 1
        /\ activeSequences = {}
        /\ waiters = {}
        /\ closed = {}
        /\ stopChan = FALSE
        /\ pc = [t \in Tasks |-> "new"]
        /\ seq = [t \in Tasks |-> 0]

-----------------------------------------------------------------------------
(* Where the loop of skipCompletedSequences stops when the given numbers    *)
(* are active: the first active one, or one past the last number given out. *)
Skipped(active) ==
  {n \in nextSequence..(sequenceCounter + 1) :
     /\ \A m \in nextSequence..(n - 1) : m \notin active
     /\ n \in active \/ n = sequenceCounter + 1}

(* Looks for the waiter before it advances. *)
Woken_SlipBefore(n) == {s \in waiters : nextSequence <= s /\ s < n}

(* The waiters the loop wakes on its way from nextSequence to n. *)
Woken(n) == {s \in waiters : nextSequence < s /\ s <= n}

(* The loop as a whole: advance to n, close and delete the waiters passed.  *)
SkipTo(n) == /\ nextSequence' = n
             /\ closed' = closed \cup Woken(n)

(* Does not mark the number active. *)
GetNextSequence_SlipMark(t) ==
  /\ pc[t] = "new"
  /\ sequenceCounter' = sequenceCounter + 1
  /\ seq' = [seq EXCEPT ![t] = sequenceCounter + 1]
  /\ pc' = [pc EXCEPT ![t] = "numbered"]
  /\ UNCHANGED <<nextSequence, activeSequences, waiters, closed, stopChan>>

GetNextSequence(t) ==
  /\ pc[t] = "new"
  /\ sequenceCounter' = sequenceCounter + 1
  /\ seq' = [seq EXCEPT ![t] = sequenceCounter + 1]
  /\ activeSequences' = activeSequences \cup {sequenceCounter + 1}
  /\ pc' = [pc EXCEPT ![t] = "numbered"]
  /\ UNCHANGED <<nextSequence, waiters, closed, stopChan>>

(* Completes by hand on the path that works only: the early return does not. *)
Abandon_SlipNoDefer(t) ==
  /\ pc[t] = "numbered"
  /\ pc' = [pc EXCEPT ![t] = "done"]
  /\ UNCHANGED <<sequenceCounter, nextSequence, activeSequences, waiters,
                 closed, stopChan, seq>>

(* The body could not be decompressed: return without waiting. *)
Abandon(t) ==
  /\ pc[t] = "numbered"
  /\ pc' = [pc EXCEPT ![t] = "leaving"]
  /\ UNCHANGED <<sequenceCounter, nextSequence, activeSequences, waiters,
                 closed, stopChan, seq>>

(* Lets the number after the frontier through as well. *)
WaitForSequence_SlipOne(t) ==
  /\ pc[t] = "numbered"
  /\ \E n \in Skipped(activeSequences) :
       /\ SkipTo(n)
       /\ \/ /\ seq[t] <= n + 1
             /\ pc' = [pc EXCEPT ![t] = "turn"]
             /\ waiters' = waiters \ Woken(n)
          \/ /\ seq[t] > n + 1
             /\ pc' = [pc EXCEPT ![t] = "waiting"]
             /\ waiters' = (waiters \ Woken(n)) \cup {seq[t]}
  /\ UNCHANGED <<sequenceCounter, activeSequences, stopChan, seq>>

WaitForSequence(t) ==
  /\ pc[t] = "numbered"
  /\ \E n \in Skipped(activeSequences) :
       /\ SkipTo(n)
       /\ \/ /\ seq[t] <= n
             /\ pc' = [pc EXCEPT ![t] = "turn"]
             /\ waiters' = waiters \ Woken(n)
          \/ /\ seq[t] > n
             /\ pc' = [pc EXCEPT ![t] = "waiting"]
             /\ waiters' = (waiters \ Woken(n)) \cup {seq[t]}
  /\ UNCHANGED <<sequenceCounter, activeSequences, stopChan, seq>>

(* case <-waiter *)
WaiterClosed(t) ==
  /\ pc[t] = "waiting"
  /\ seq[t] \in closed
  /\ pc' = [pc EXCEPT ![t] = "turn"]
  /\ UNCHANGED <<sequenceCounter, nextSequence, activeSequences, waiters,
                 closed, stopChan, seq>>

(* case <-op.stopChan: the waiter stays in the map *)
Stopped(t) ==
  /\ pc[t] = "waiting"
  /\ stopChan
  /\ pc' = [pc EXCEPT ![t] = "leaving"]
  /\ UNCHANGED <<sequenceCounter, nextSequence, activeSequences, waiters,
                 closed, stopChan, seq>>

(* case <-time.After: the select commits to the timer first, even when the  *)
(* waiter was closed meanwhile, and takes the mutex in a second step.       *)
TimerFires(t) ==
  /\ pc[t] = "waiting"
  /\ pc' = [pc EXCEPT ![t] = "expired"]
  /\ UNCHANGED <<sequenceCounter, nextSequence, activeSequences, waiters,
                 closed, stopChan, seq>>

(* Goes back to wait another round instead of going ahead. *)
Expire_SlipAgain(t) ==
  /\ pc[t] = "expired"
  /\ pc' = [pc EXCEPT ![t] = "waiting"]
  /\ UNCHANGED <<sequenceCounter, nextSequence, activeSequences, waiters,
                 closed, stopChan, seq>>

Expire(t) ==
  /\ pc[t] = "expired"
  /\ waiters' = waiters \ {seq[t]}
  /\ pc' = [pc EXCEPT ![t] = "late"]
  /\ UNCHANGED <<sequenceCounter, nextSequence, activeSequences, closed,
                 stopChan, seq>>

(* Closes the channels of the waiters it passes but leaves them in the map. *)
CompleteSequence_SlipKeep(t) ==
  /\ pc[t] \in Section \cup {"leaving"}
  /\ activeSequences' = activeSequences \ {seq[t]}
  /\ \E n \in Skipped(activeSequences') : SkipTo(n)
  /\ pc' = [pc EXCEPT ![t] = "done"]
  /\ UNCHANGED <<sequenceCounter, waiters, stopChan, seq>>

CompleteSequence(t) ==
  /\ pc[t] \in Section \cup {"leaving"}
  /\ activeSequences' = activeSequences \ {seq[t]}
  /\ \E n \in Skipped(activeSequences') :
       /\ SkipTo(n)
       /\ waiters' = waiters \ Woken(n)
  /\ pc' = [pc EXCEPT ![t] = "done"]
  /\ UNCHANGED <<sequenceCounter, stopChan, seq>>

(* Shutdown; a second call would close a closed channel and panic. *)
Stop ==
  /\ ~stopChan
  /\ stopChan' = TRUE
  /\ UNCHANGED <<sequenceCounter, nextSequence, activeSequences, waiters,
                 closed, pc, seq>>

Wakes(t) == WaiterClosed(t) \/ Stopped(t)

Timeout(t) == TimerFires(t) \/ Expire(t)

Next == \/ \E t \in Tasks : \/ GetNextSequence(t) \/ Abandon(t)
                            \/ WaitForSequence(t) \/ Wakes(t) \/ Timeout(t)
                            \/ CompleteSequence(t)
        \/ Stop

Spec == Init /\ [][Next]_vars

(* The scheduler runs a goroutine that can run, up to its wait. *)
FairSpec == /\ Spec
            /\ \A t \in Tasks : /\ WF_vars(WaitForSequence(t) \/ Abandon(t))
                                /\ WF_vars(Expire(t))

(* Everyone leaves its section, and nothing forces the timer: what follows  *)
(* from this follows from the wake-ups alone.                               *)
NobodyStalls == \A t \in Tasks : WF_vars(Wakes(t)) /\ WF_vars(CompleteSequence(t))

(* The timer fires after five seconds, but a stalled task need not leave    *)
(* its section.                                                             *)
SomeStall == /\ \A t \in Tasks : WF_vars(Wakes(t) \/ TimerFires(t))
             /\ \A t \in Tasks \ Stalled : WF_vars(CompleteSequence(t))

-----------------------------------------------------------------------------
(* What the log relies on: while a task is in its section by right of turn, *)
(* every task that drew a smaller number has completed.  Late tasks do not  *)
(* disturb it: the turn of a later task still waits for them.               *)
TurnOrder ==
  \A t, u \in Tasks : pc[u] = "turn" /\ seq[t] \in 1..(seq[u] - 1)
                        => pc[t] = "done"

(* The code between WaitForSequence and CompleteSequence is protected like  *)
(* a critical section among the tasks that reached their turn.              *)
TurnExclusive ==
  \A t, u \in Tasks : pc[t] = "turn" /\ pc[u] = "turn" => t = u

(* A goroutine in the select can still be woken: its channel is in the map, *)
(* where skipCompletedSequences will find it before the counter has passed  *)
(* it, or its channel is closed already.  Losing the channel between the    *)
(* test and the select, or skipping past it, would leave it to the timer.   *)
NoLostWakeup ==
  \A t \in Tasks : pc[t] = "waiting" =>
    /\ seq[t] \in waiters \cup closed
    /\ seq[t] \in closed <=> seq[t] <= nextSequence

(* No channel is closed twice (a panic): the map holds only channels the    *)
(* loop has still ahead of it, none of them closed.                         *)
NoDoubleClose == /\ waiters \cap closed = {}
                 /\ \A s \in waiters : nextSequence < s

(* The frontier never passes a number that is still held, so a number is    *)
(* never taken for completed while its task is in its section or waits.     *)
FrontierNotPastHeld ==
  \A t \in Tasks : pc[t] \notin {"new", "done"} =>
    seq[t] \in activeSequences /\ nextSequence <= seq[t]

(* The doc comment of WaitForSequence: "Returns true if sequence was        *)
(* reached".  A task whose wait returned true and that has yet to complete  *)
(* finds its number reached.                                                *)
TrueMeansReached ==
  \A t \in Tasks : pc[t] \in Section => seq[t] <= nextSequence

(* Without the help of the timer, every task that drew a number completes,  *)
(* as long as each one leaves its section.                                  *)
EveryoneCompletes ==
  NobodyStalls => \A t \in Tasks : pc[t] = "numbered" ~> pc[t] = "done"

(* The timer bounds the damage of a task that hangs in its section: every   *)
(* task that does not hang itself completes.                                *)
OthersComplete ==
  SomeStall => \A t \in Tasks \ Stalled : pc[t] = "numbered" ~> pc[t] = "done"

-----------------------------------------------------------------------------
(* The processor implements the queue of turns.  A task that gave up is     *)
(* still queued until its CompleteSequence: its number holds up the others. *)
StageOf(place) == CASE place = "new" -> "idle"
                    [] place \in {"numbered", "waiting", "expired", "leaving"} -> "queued"
                    [] OTHER -> place

Turns == INSTANCE TurnQueue WITH stage <- [t \in Tasks |-> StageOf(pc[t])],
                                 ticket <- seq,
                                 issued <- sequenceCounter

ImplementsTurnQueue == Turns!QueueSpec
=============================================================================
