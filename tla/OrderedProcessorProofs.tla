----------------------- MODULE OrderedProcessorProofs -----------------------
(***************************************************************************)
(* The safety properties of OrderedProcessor for any set of tasks, finite  *)
(* or not, and the refinement of TurnQueue.  The runs of OrderedProcessor  *)
(* check the same formulas for four tasks.                                 *)
(***************************************************************************)
EXTENDS OrderedProcessor, TLAPS

(* A task has a number from GetNextSequence on, and no two share one. *)
Numbering ==
  /\ \A t \in Tasks : pc[t] = "new" <=> seq[t] = 0
  /\ \A t, u \in Tasks : seq[t] = seq[u] /\ seq[t] # 0 => t = u

(* A turn is only entered once the frontier has reached it. *)
TurnReached == \A t \in Tasks : pc[t] = "turn" => seq[t] <= nextSequence

(* The channel of a goroutine in the select is open in the map or closed.   *)
ChannelKept ==
  \A t \in Tasks : pc[t] = "waiting" => seq[t] \in waiters \cup closed

(* Channels are closed by the frontier passing them, and only so. *)
ChannelSides == /\ \A s \in closed : s <= nextSequence
                /\ \A s \in waiters : nextSequence < s

(* The inductive invariant. *)
IInv == /\ TypeOK
        /\ Numbering
        /\ FrontierNotPastHeld
        /\ TurnReached
        /\ ChannelKept
        /\ ChannelSides

-----------------------------------------------------------------------------
(* What the loop of skipCompletedSequences does to the frontier: it moves   *)
(* forward, stays within what was given out and stops at or before every    *)
(* active number that is not behind it.                                     *)
LEMMA SkippedBounds ==
  ASSUME sequenceCounter \in Nat,
         nextSequence \in 1..(sequenceCounter + 1),
         NEW active,
         NEW n \in Skipped(active)
  PROVE  /\ n \in 1..(sequenceCounter + 1)
         /\ nextSequence <= n
         /\ \A s \in active \cap Nat : nextSequence <= s => n <= s
BY DEF Skipped

(* The waiters that a move of the frontier to n leaves in the map, and the  *)
(* channels it closes, are on their sides of n again.                       *)
LEMMA SkipToSides ==
  ASSUME TypeOK, ChannelSides,
         NEW n \in Nat, nextSequence <= n, SkipTo(n),
         waiters' = waiters \ Woken(n)
  PROVE  ChannelSides'
<1>1. closed' = closed \cup Woken(n) /\ nextSequence' = n
  BY DEF SkipTo
<1>2. closed \subseteq Nat /\ waiters \subseteq Nat /\ nextSequence \in Nat
  BY DEF TypeOK
<1>3. \A s \in closed' : s <= nextSequence'
  BY <1>1, <1>2 DEF ChannelSides, Woken
<1>4. \A s \in waiters' : nextSequence' < s
  BY <1>1, <1>2 DEF ChannelSides, Woken
<1> QED BY <1>3, <1>4 DEF ChannelSides

-----------------------------------------------------------------------------
(* The inductive invariant holds initially: nothing is numbered.            *)
LEMMA InitIInv == Init => IInv
<1> SUFFICES ASSUME Init PROVE IInv
  OBVIOUS
<1>1. pc \in [Tasks -> Places] /\ seq \in [Tasks -> 0..sequenceCounter]
  BY DEF Init, Places
<1>2. /\ sequenceCounter = 0 /\ nextSequence = 1 /\ stopChan \in BOOLEAN
      /\ activeSequences = {} /\ waiters = {} /\ closed = {}
  BY DEF Init
<1>3. TypeOK
  BY <1>1, <1>2 DEF TypeOK
<1>4. Numbering /\ FrontierNotPastHeld /\ TurnReached /\ ChannelKept
  BY DEF Init, Numbering, FrontierNotPastHeld, TurnReached, ChannelKept
<1>5. ChannelSides
  BY <1>2 DEF ChannelSides
<1> QED BY <1>3, <1>4, <1>5 DEF IInv

(* Drawing a number keeps the inductive invariant: the number is new.       *)
LEMMA GetNextSequenceIInv ==
  ASSUME IInv, NEW t \in Tasks, GetNextSequence(t)
  PROVE  IInv'
<1> USE DEF IInv, GetNextSequence
<1>1. TypeOK'
  BY DEF TypeOK, Places
<1>2. Numbering'
  BY DEF TypeOK, Numbering
<1>3. FrontierNotPastHeld'
  BY DEF TypeOK, FrontierNotPastHeld
<1>4. TurnReached' /\ ChannelKept' /\ ChannelSides'
  BY DEF TypeOK, TurnReached, ChannelKept, ChannelSides
<1> QED BY <1>1, <1>2, <1>3, <1>4

(* Waiting keeps the inductive invariant: the frontier moves over completed *)
(* numbers only, and a task waits only for a number ahead of it.            *)
LEMMA WaitForSequenceIInv ==
  ASSUME IInv, NEW t \in Tasks, WaitForSequence(t)
  PROVE  IInv'
<1>1. PICK n \in Skipped(activeSequences) :
        /\ SkipTo(n)
        /\ \/ /\ seq[t] <= n
              /\ pc' = [pc EXCEPT ![t] = "turn"]
              /\ waiters' = waiters \ Woken(n)
           \/ /\ seq[t] > n
              /\ pc' = [pc EXCEPT ![t] = "waiting"]
              /\ waiters' = (waiters \ Woken(n)) \cup {seq[t]}
  BY DEF WaitForSequence
<1>2. /\ pc[t] = "numbered"
      /\ UNCHANGED <<sequenceCounter, activeSequences, stopChan, seq>>
  BY DEF WaitForSequence
<1>3. /\ n \in 1..(sequenceCounter + 1)
      /\ nextSequence <= n
      /\ \A s \in activeSequences \cap Nat : nextSequence <= s => n <= s
  BY <1>1, SkippedBounds DEF IInv, TypeOK
<1>4. nextSequence' = n /\ closed' = closed \cup Woken(n) /\ Woken(n) \subseteq waiters
  BY <1>1 DEF SkipTo, Woken
<1>5. seq[t] \in 1..sequenceCounter
  BY <1>2 DEF IInv, TypeOK, Numbering
<1>6. TypeOK'
  BY <1>1, <1>2, <1>3, <1>4, <1>5 DEF IInv, TypeOK, Places
<1>7. Numbering'
  BY <1>1, <1>2 DEF IInv, TypeOK, Numbering
<1>8. FrontierNotPastHeld'
  BY <1>1, <1>2, <1>3, <1>4 DEF IInv, TypeOK, FrontierNotPastHeld
<1>9. TurnReached'
  BY <1>1, <1>2, <1>3, <1>4 DEF IInv, TypeOK, TurnReached
<1>10. ChannelKept'
  BY <1>1, <1>2, <1>4 DEF IInv, TypeOK, ChannelKept
<1>11. ChannelSides'
  <2>1. \A s \in closed' : s <= nextSequence'
    BY <1>3, <1>4 DEF IInv, TypeOK, ChannelSides, Woken
  <2>2. \A s \in waiters \ Woken(n) : n < s
    BY <1>3 DEF IInv, TypeOK, ChannelSides, Woken
  <2> QED BY <1>1, <1>4, <1>5, <2>1, <2>2 DEF ChannelSides
<1> QED BY <1>6, <1>7, <1>8, <1>9, <1>10, <1>11 DEF IInv

(* Completing keeps the inductive invariant: the frontier stops at the next *)
(* number that is still held, and the waiters it passes are woken.          *)
LEMMA CompleteSequenceIInv ==
  ASSUME IInv, NEW t \in Tasks, CompleteSequence(t)
  PROVE  IInv'
<1>1. PICK n \in Skipped(activeSequences') : SkipTo(n) /\ waiters' = waiters \ Woken(n)
  BY DEF CompleteSequence
<1>2. /\ pc[t] \notin {"new", "done"}
      /\ activeSequences' = activeSequences \ {seq[t]}
      /\ pc' = [pc EXCEPT ![t] = "done"]
      /\ UNCHANGED <<sequenceCounter, stopChan, seq>>
  BY DEF CompleteSequence, Section
<1>3. /\ n \in 1..(sequenceCounter + 1)
      /\ nextSequence <= n
      /\ \A s \in activeSequences' \cap Nat : nextSequence <= s => n <= s
  BY <1>1, SkippedBounds DEF IInv, TypeOK
<1>4. nextSequence' = n /\ closed' = closed \cup Woken(n) /\ Woken(n) \subseteq waiters
  BY <1>1 DEF SkipTo, Woken
<1>5. TypeOK'
  BY <1>1, <1>2, <1>3, <1>4 DEF IInv, TypeOK, Places
<1>6. Numbering'
  BY <1>2 DEF IInv, TypeOK, Numbering
<1>7. FrontierNotPastHeld'
  <2> SUFFICES ASSUME NEW u \in Tasks, pc'[u] \notin {"new", "done"}
               PROVE  seq[u] \in activeSequences' /\ n <= seq[u]
    BY <1>2, <1>4 DEF FrontierNotPastHeld
  <2>1. u # t /\ pc[u] \notin {"new", "done"}
    BY <1>2 DEF IInv, TypeOK
  <2>2. seq[u] \in activeSequences /\ nextSequence <= seq[u] /\ seq[u] \in Nat
    BY <2>1 DEF IInv, TypeOK, FrontierNotPastHeld
  <2>3. seq[u] # seq[t]
    BY <2>1, <1>2 DEF IInv, TypeOK, Numbering
  <2> QED BY <1>2, <1>3, <2>2, <2>3
<1>8. TurnReached'
  BY <1>2, <1>3, <1>4 DEF IInv, TypeOK, TurnReached
<1>9. ChannelKept'
  BY <1>1, <1>2, <1>4 DEF IInv, TypeOK, ChannelKept
<1>10. ChannelSides'
  BY <1>1, <1>3, SkipToSides DEF IInv
<1> QED BY <1>5, <1>6, <1>7, <1>8, <1>9, <1>10 DEF IInv

(* A step that only moves a task that holds a number, and not back into the *)
(* select, keeps the inductive invariant: Abandon and the cases of the      *)
(* select.                                                                  *)
LEMMA MoveIInv ==
  ASSUME IInv, NEW t \in Tasks, NEW place \in Places \ {"new", "waiting", "done"},
         pc[t] \notin {"new", "done"},
         pc' = [pc EXCEPT ![t] = place],
         place = "turn" => seq[t] <= nextSequence,
         UNCHANGED <<sequenceCounter, nextSequence, activeSequences, waiters,
                     closed, seq>>,
         stopChan' \in BOOLEAN
  PROVE  IInv'
<1>1. TypeOK'
  BY DEF IInv, TypeOK
<1>2. Numbering' /\ TurnReached'
  BY DEF IInv, TypeOK, Numbering, TurnReached
<1>3. FrontierNotPastHeld' /\ ChannelKept' /\ ChannelSides'
  BY DEF IInv, TypeOK, FrontierNotPastHeld, ChannelKept, ChannelSides
<1> QED BY <1>1, <1>2, <1>3 DEF IInv

(* Deleting its own waiter keeps the inductive invariant: the task is not   *)
(* in the select any more, and no other one waits for that number.          *)
LEMMA ExpireIInv ==
  ASSUME IInv, NEW t \in Tasks, Expire(t)
  PROVE  IInv'
<1> USE DEF Expire
<1>1. TypeOK'
  BY DEF IInv, TypeOK, Places
<1>2. Numbering' /\ FrontierNotPastHeld' /\ TurnReached' /\ ChannelSides'
  BY DEF IInv, TypeOK, Numbering, FrontierNotPastHeld, TurnReached, ChannelSides
<1>3. ChannelKept'
  <2> SUFFICES ASSUME NEW u \in Tasks, pc'[u] = "waiting"
               PROVE  seq[u] \in waiters' \cup closed
    BY DEF ChannelKept
  <2>1. u # t /\ pc[u] = "waiting"
    BY DEF IInv, TypeOK
  <2>2. seq[u] # seq[t] /\ seq[u] \in waiters \cup closed
    BY <2>1 DEF IInv, TypeOK, Numbering, ChannelKept
  <2> QED BY <2>2
<1> QED BY <1>1, <1>2, <1>3 DEF IInv

(* Every step keeps the inductive invariant. *)
LEMMA NextIInv == IInv /\ [Next]_vars => IInv'
<1> SUFFICES ASSUME IInv, [Next]_vars PROVE IInv'
  OBVIOUS
<1>1. ASSUME NEW t \in Tasks, GetNextSequence(t) PROVE IInv'
  BY <1>1, GetNextSequenceIInv
<1>2. ASSUME NEW t \in Tasks, Abandon(t) PROVE IInv'
  BY <1>2, MoveIInv DEF Abandon, Places, IInv, TypeOK
<1>3. ASSUME NEW t \in Tasks, WaitForSequence(t) PROVE IInv'
  BY <1>3, WaitForSequenceIInv
<1>4. ASSUME NEW t \in Tasks, WaiterClosed(t) PROVE IInv'
  <2>1. seq[t] <= nextSequence
    BY <1>4 DEF WaiterClosed, IInv, ChannelSides
  <2> QED BY <1>4, <2>1, MoveIInv DEF WaiterClosed, Places, IInv, TypeOK
<1>5. ASSUME NEW t \in Tasks, Stopped(t) PROVE IInv'
  BY <1>5, MoveIInv DEF Stopped, Places, IInv, TypeOK
<1>6. ASSUME NEW t \in Tasks, TimerFires(t) PROVE IInv'
  BY <1>6, MoveIInv DEF TimerFires, Places, IInv, TypeOK
<1>7. ASSUME NEW t \in Tasks, Expire(t) PROVE IInv'
  BY <1>7, ExpireIInv
<1>8. ASSUME NEW t \in Tasks, CompleteSequence(t) PROVE IInv'
  BY <1>8, CompleteSequenceIInv
<1>9. ASSUME Stop PROVE IInv'
  BY <1>9 DEF Stop, IInv, TypeOK, Numbering, FrontierNotPastHeld, TurnReached,
              ChannelKept, ChannelSides
<1>10. ASSUME UNCHANGED vars PROVE IInv'
  BY <1>10 DEF vars, IInv, TypeOK, Numbering, FrontierNotPastHeld, TurnReached,
               ChannelKept, ChannelSides
<1> QED BY <1>1, <1>2, <1>3, <1>4, <1>5, <1>6, <1>7, <1>8, <1>9, <1>10
        DEF Next, Wakes, Timeout

(* The inductive invariant holds in every reachable state. *)
THEOREM Inductive == Spec => []IInv
BY InitIInv, NextIInv, PTL DEF Spec

-----------------------------------------------------------------------------
(* The variables have their types: no number is beyond the counter, the     *)
(* frontier is at most one past it.                                         *)
THEOREM TypeCorrect == Spec => []TypeOK
<1>1. IInv => TypeOK
  BY DEF IInv
<1> QED BY <1>1, Inductive, PTL

(* A task in its section by right of turn has nobody before it who has not  *)
(* completed (WaitForSequence, CompleteSequence).                           *)
LEMMA InvTurnOrder == IInv => TurnOrder
<1> SUFFICES ASSUME IInv, NEW t \in Tasks, NEW u \in Tasks, pc[u] = "turn",
                    seq[t] \in 1..(seq[u] - 1), pc[t] # "done"
             PROVE  FALSE
  BY DEF TurnOrder
<1>1. seq[u] <= nextSequence
  BY DEF IInv, TurnReached
<1>2. pc[t] # "new"
  BY DEF IInv, Numbering
<1>3. nextSequence <= seq[t]
  BY <1>2 DEF IInv, FrontierNotPastHeld
<1> QED BY <1>1, <1>3 DEF IInv, TypeOK

THEOREM TurnsInOrder == Spec => []TurnOrder
BY InvTurnOrder, Inductive, PTL

(* At most one task is in its section by right of turn: the loggers that    *)
(* were not late work one at a time.                                        *)
LEMMA InvTurnExclusive == IInv => TurnExclusive
<1> SUFFICES ASSUME IInv, NEW t \in Tasks, NEW u \in Tasks,
                    pc[t] = "turn", pc[u] = "turn"
             PROVE  t = u
  BY DEF TurnExclusive
<1>1. /\ seq[t] <= nextSequence /\ nextSequence <= seq[t]
      /\ seq[u] <= nextSequence /\ nextSequence <= seq[u]
  BY DEF IInv, TurnReached, FrontierNotPastHeld
<1>2. seq[t] = seq[u] /\ seq[t] # 0
  BY <1>1 DEF IInv, TypeOK, Numbering
<1> QED BY <1>2 DEF IInv, Numbering

THEOREM TurnsExclusive == Spec => []TurnExclusive
BY InvTurnExclusive, Inductive, PTL

(* Whoever is in the select has its channel in the map ahead of the         *)
(* frontier, or closed (the skip and the registration in WaitForSequence,   *)
(* the wake-up in skipCompletedSequences).                                  *)
LEMMA InvNoLostWakeup == IInv => NoLostWakeup
<1> SUFFICES ASSUME IInv, NEW t \in Tasks, pc[t] = "waiting"
             PROVE  /\ seq[t] \in waiters \cup closed
                    /\ seq[t] \in closed <=> seq[t] <= nextSequence
  BY DEF NoLostWakeup
<1>1. seq[t] \in waiters \cup closed
  BY DEF IInv, ChannelKept
<1>2. seq[t] \in closed => seq[t] <= nextSequence
  BY DEF IInv, ChannelSides
<1>3. seq[t] \in waiters => ~(seq[t] <= nextSequence)
  BY DEF IInv, TypeOK, ChannelSides
<1> QED BY <1>1, <1>2, <1>3

THEOREM WakeupsKept == Spec => []NoLostWakeup
BY InvNoLostWakeup, Inductive, PTL

(* The loop of skipCompletedSequences never closes a closed channel.        *)
LEMMA InvNoDoubleClose == IInv => NoDoubleClose
BY DEF IInv, TypeOK, ChannelSides, NoDoubleClose

THEOREM ClosedOnce == Spec => []NoDoubleClose
BY InvNoDoubleClose, Inductive, PTL

(* The frontier does not pass a number that is held.                        *)
THEOREM FrontierBehindHeld == Spec => []FrontierNotPastHeld
<1>1. IInv => FrontierNotPastHeld
  BY DEF IInv
<1> QED BY <1>1, Inductive, PTL

-----------------------------------------------------------------------------
(* Who drew a number before t, in the queue of turns. *)
LEMMA AheadOf ==
  ASSUME TypeOK, NEW t \in Tasks
  PROVE  Turns!Ahead(t) = {u \in Tasks : seq[u] \in 1..(seq[t] - 1)}
BY DEF Turns!Ahead

(* A task whose number the frontier has reached has only completed tasks    *)
(* ahead of it: the guard of Enter.                                         *)
LEMMA ReachedHasNobodyAhead ==
  ASSUME IInv, NEW t \in Tasks, NEW n \in Nat, seq[t] <= n,
         \A s \in activeSequences \cap Nat : nextSequence <= s => n <= s,
         NEW u \in Tasks, seq[u] \in 1..(seq[t] - 1)
  PROVE  pc[u] = "done"
<1> SUFFICES ASSUME pc[u] # "done" PROVE FALSE
  OBVIOUS
<1>1. pc[u] # "new"
  BY DEF IInv, Numbering
<1>2. seq[u] \in activeSequences /\ nextSequence <= seq[u]
  BY <1>1 DEF IInv, FrontierNotPastHeld
<1>3. n <= seq[u]
  BY <1>2
<1> QED BY <1>3 DEF IInv, TypeOK

(* Changing the place of one task changes its stage alone. *)
LEMMA StageMoves ==
  ASSUME TypeOK, NEW t \in Tasks, NEW place \in Places,
         pc' = [pc EXCEPT ![t] = place]
  PROVE  [u \in Tasks |-> StageOf(pc'[u])]
           = [[u \in Tasks |-> StageOf(pc[u])] EXCEPT ![t] = StageOf(place)]
BY DEF TypeOK

(* The stages of the places. *)
LEMMA StageValues ==
  /\ StageOf("new") = "idle"
  /\ StageOf("numbered") = "queued" /\ StageOf("waiting") = "queued"
  /\ StageOf("expired") = "queued" /\ StageOf("leaving") = "queued"
  /\ StageOf("turn") = "turn" /\ StageOf("late") = "late"
  /\ StageOf("done") = "done"
BY DEF StageOf

LEMMA InitRefines == Init => Turns!QueueInit
BY StageValues DEF Init, Turns!QueueInit

(* Each step of the processor is a step of the queue of turns or leaves its *)
(* state alone; which one, for the modules that put the processor to use.   *)

LEMMA GetNextSequenceTakes ==
  ASSUME IInv, NEW t \in Tasks, GetNextSequence(t)
  PROVE  Turns!Take(t)
<1> DEFINE stage == [u \in Tasks |-> StageOf(pc[u])]
<1>1. stage[t] = "idle" /\ stage' = [stage EXCEPT ![t] = "queued"]
  BY StageMoves, StageValues DEF GetNextSequence, Places, IInv
<1> QED BY <1>1 DEF GetNextSequence, Turns!Take

(* Giving up before or in the wait leaves the task queued, and so does the  *)
(* timer's first half.                                                      *)
LEMMA StaysQueued ==
  ASSUME IInv, NEW t \in Tasks, Abandon(t) \/ Stopped(t) \/ TimerFires(t)
  PROVE  UNCHANGED Turns!queueVars
<1> DEFINE stage == [u \in Tasks |-> StageOf(pc[u])]
<1>1. PICK place \in {"leaving", "expired"} : pc' = [pc EXCEPT ![t] = place]
  BY DEF Abandon, Stopped, TimerFires
<1>2. pc[t] \in {"numbered", "waiting"} /\ UNCHANGED <<seq, sequenceCounter>>
  BY DEF Abandon, Stopped, TimerFires
<1>3. stage' = [stage EXCEPT ![t] = "queued"] /\ stage[t] = "queued"
  BY <1>1, <1>2, StageMoves, StageValues DEF Places, IInv
<1> QED BY <1>2, <1>3 DEF Turns!queueVars

LEMMA WaitForSequenceEnters ==
  ASSUME IInv, NEW t \in Tasks, WaitForSequence(t)
  PROVE  Turns!Enter(t) \/ UNCHANGED Turns!queueVars
<1> DEFINE stage == [u \in Tasks |-> StageOf(pc[u])]
<1>1. PICK n \in Skipped(activeSequences) :
        \/ seq[t] <= n /\ pc' = [pc EXCEPT ![t] = "turn"]
        \/ pc' = [pc EXCEPT ![t] = "waiting"]
  BY DEF WaitForSequence
<1>2. TypeOK /\ pc[t] = "numbered" /\ UNCHANGED <<seq, sequenceCounter>>
  BY DEF WaitForSequence, IInv
<1>3. CASE pc' = [pc EXCEPT ![t] = "waiting"]
  <2>1. stage' = [stage EXCEPT ![t] = "queued"] /\ stage[t] = "queued"
    BY <1>2, <1>3, StageMoves, StageValues DEF Places
  <2> QED BY <1>2, <2>1 DEF Turns!queueVars
<1>4. CASE seq[t] <= n /\ pc' = [pc EXCEPT ![t] = "turn"]
  <2>1. stage' = [stage EXCEPT ![t] = "turn"] /\ stage[t] = "queued"
    BY <1>2, <1>4, StageMoves, StageValues DEF Places
  <2>2. n \in Nat /\ \A s \in activeSequences \cap Nat : nextSequence <= s => n <= s
    BY <1>1, <1>2, SkippedBounds DEF TypeOK
  <2>3. \A u \in Turns!Ahead(t) : pc[u] = "done"
    BY <1>2, <1>4, <2>2, AheadOf, ReachedHasNobodyAhead
  <2>4. \A u \in Turns!Ahead(t) : stage[u] = "done"
    BY <2>3, StageValues DEF Turns!Ahead
  <2> QED BY <1>2, <2>1, <2>4 DEF Turns!Enter
<1> QED BY <1>1, <1>3, <1>4

LEMMA WaiterClosedEnters ==
  ASSUME IInv, NEW t \in Tasks, WaiterClosed(t)
  PROVE  Turns!Enter(t)
<1> DEFINE stage == [u \in Tasks |-> StageOf(pc[u])]
<1>1. /\ TypeOK /\ pc[t] = "waiting" /\ pc' = [pc EXCEPT ![t] = "turn"]
      /\ UNCHANGED <<seq, sequenceCounter>>
  BY DEF WaiterClosed, IInv
<1>2. stage' = [stage EXCEPT ![t] = "turn"] /\ stage[t] = "queued"
  BY <1>1, StageMoves, StageValues DEF Places
<1>3. seq[t] <= nextSequence /\ nextSequence \in Nat
  BY DEF WaiterClosed, IInv, TypeOK, ChannelSides
<1>4. \A u \in Turns!Ahead(t) : pc[u] = "done"
  BY <1>1, <1>3, AheadOf, ReachedHasNobodyAhead
<1>5. \A u \in Turns!Ahead(t) : stage[u] = "done"
  BY <1>4, StageValues DEF Turns!Ahead
<1> QED BY <1>1, <1>2, <1>5 DEF Turns!Enter

LEMMA ExpireOvertakes ==
  ASSUME IInv, NEW t \in Tasks, Expire(t)
  PROVE  Turns!Overtake(t)
<1> DEFINE stage == [u \in Tasks |-> StageOf(pc[u])]
<1>1. stage' = [stage EXCEPT ![t] = "late"] /\ stage[t] = "queued"
  BY StageMoves, StageValues DEF Expire, Places, IInv
<1> QED BY <1>1 DEF Expire, Turns!Overtake

LEMMA CompleteSequenceLeaves ==
  ASSUME IInv, NEW t \in Tasks, CompleteSequence(t)
  PROVE  Turns!Leave(t)
<1> DEFINE stage == [u \in Tasks |-> StageOf(pc[u])]
<1>1. stage' = [stage EXCEPT ![t] = "done"] /\ stage[t] \in {"queued", "turn", "late"}
  BY StageMoves, StageValues DEF CompleteSequence, Section, Places, IInv
<1> QED BY <1>1 DEF CompleteSequence, Turns!Leave

LEMMA NextRefines == IInv /\ [Next]_vars => [Turns!QueueNext]_(Turns!queueVars)
<1> SUFFICES ASSUME IInv, [Next]_vars
             PROVE  Turns!QueueNext \/ UNCHANGED Turns!queueVars
  OBVIOUS
<1>1. ASSUME Stop \/ UNCHANGED vars PROVE UNCHANGED Turns!queueVars
  BY <1>1 DEF Stop, vars, Turns!queueVars
<1> QED BY <1>1, GetNextSequenceTakes, StaysQueued, WaitForSequenceEnters, WaiterClosedEnters,
           ExpireOvertakes, CompleteSequenceLeaves
        DEF Next, Wakes, Timeout, Turns!QueueNext

(* The processor implements the queue of turns: tickets in the order they   *)
(* are drawn, turns in the order of the tickets, for any set of tasks.      *)
THEOREM Refinement == Spec => ImplementsTurnQueue
BY Inductive, InitRefines, NextRefines, PTL DEF Spec, Turns!QueueSpec, ImplementsTurnQueue
=============================================================================
