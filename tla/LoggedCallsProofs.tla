------------------------- MODULE LoggedCallsProofs -------------------------
(***************************************************************************)
(* CallLogging is what calls and their loggers do on the ordered processor *)
(* itself, for any calls and events.  Nothing new is invariant here: what  *)
(* CallLoggingProofs and OrderedProcessorProofs keep, each for its part,   *)
(* is enough to take every step over.                                      *)
(***************************************************************************)
EXTENDS LoggedCalls, TLAPS

Ordered == INSTANCE OrderedProcessorProofs WITH Tasks <- Loggers, closed <- closedWaiters

Logged == INSTANCE CallLoggingProofs
            WITH stage <- Stage, ticket <- seq, issued <- sequenceCounter

-----------------------------------------------------------------------------
(* The parts are the same modules by either way they are brought in. *)

LEMMA SameOrdered ==
  /\ Processor!Init <=> Ordered!Init
  /\ \A l \in Loggers :
       /\ Processor!GetNextSequence(l) <=> Ordered!GetNextSequence(l)
       /\ Processor!Abandon(l) <=> Ordered!Abandon(l)
       /\ Processor!WaitForSequence(l) <=> Ordered!WaitForSequence(l)
       /\ Processor!Wakes(l) <=> Ordered!Wakes(l)
       /\ Processor!Timeout(l) <=> Ordered!Timeout(l)
       /\ Processor!CompleteSequence(l) <=> Ordered!CompleteSequence(l)
  /\ Processor!Stop <=> Ordered!Stop
<1>1. Processor!Init <=> Ordered!Init
  BY DEF Processor!Init, Ordered!Init
<1>2. ASSUME NEW l \in Loggers PROVE Processor!GetNextSequence(l) <=> Ordered!GetNextSequence(l)
  BY DEF Processor!GetNextSequence, Ordered!GetNextSequence
<1>3. ASSUME NEW l \in Loggers PROVE Processor!Abandon(l) <=> Ordered!Abandon(l)
  BY DEF Processor!Abandon, Ordered!Abandon
<1>4. ASSUME NEW l \in Loggers PROVE Processor!WaitForSequence(l) <=> Ordered!WaitForSequence(l)
  BY DEF Processor!WaitForSequence, Ordered!WaitForSequence,
         Processor!Skipped, Ordered!Skipped, Processor!SkipTo, Ordered!SkipTo,
         Processor!Woken, Ordered!Woken
<1>5. ASSUME NEW l \in Loggers PROVE Processor!Wakes(l) <=> Ordered!Wakes(l)
  BY DEF Processor!Wakes, Ordered!Wakes, Processor!WaiterClosed, Ordered!WaiterClosed,
         Processor!Stopped, Ordered!Stopped
<1>6. ASSUME NEW l \in Loggers PROVE Processor!Timeout(l) <=> Ordered!Timeout(l)
  BY DEF Processor!Timeout, Ordered!Timeout, Processor!TimerFires, Ordered!TimerFires,
         Processor!Expire, Ordered!Expire
<1>7. ASSUME NEW l \in Loggers PROVE Processor!CompleteSequence(l) <=> Ordered!CompleteSequence(l)
  BY DEF Processor!CompleteSequence, Ordered!CompleteSequence,
         Processor!Skipped, Ordered!Skipped, Processor!SkipTo, Ordered!SkipTo,
         Processor!Woken, Ordered!Woken, Processor!Section, Ordered!Section
<1>8. Processor!Stop <=> Ordered!Stop
  BY DEF Processor!Stop, Ordered!Stop
<1>. QED
  BY <1>1, <1>2, <1>3, <1>4, <1>5, <1>6, <1>7, <1>8

LEMMA SameLoggers ==
  /\ Calling!Loggers = Loggers /\ Logged!Loggers = Loggers
  /\ Calling!RequestLoggers = RequestLoggers /\ Logged!RequestLoggers = RequestLoggers
  /\ Calling!Closers = Closers /\ Logged!Closers = Closers
BY DEF Closers, Calling!Closers, Logged!Closers,
       RequestLoggers, Calling!RequestLoggers, Logged!RequestLoggers,
       ResponseLoggers, Calling!ResponseLoggers, Logged!ResponseLoggers,
       EventLoggers, Calling!EventLoggers, Logged!EventLoggers,
       Loggers, Calling!Loggers, Logged!Loggers

LEMMA SameLogged ==
  /\ Calling!CallInit <=> Logged!CallInit
  /\ \A c \in Calls : Calling!HandlerStep(c) <=> Logged!HandlerStep(c)
  /\ \A c \in Calls, k \in Closers : Calling!CloseStep(c, k) <=> Logged!CloseStep(c, k)
  /\ \A l \in Loggers : /\ Calling!Begins(l) <=> Logged!Begins(l)
                        /\ Calling!Ends(l) <=> Logged!Ends(l)
                        /\ Calling!Collapses(l) <=> Logged!Collapses(l)
                        /\ Calling!SignalSent(l) <=> Logged!SignalSent(l)
<1>1. Calling!CallInit <=> Logged!CallInit
  BY SameLoggers DEF Calling!CallInit, Logged!CallInit
<1>2. ASSUME NEW c \in Calls PROVE Calling!HandlerStep(c) <=> Logged!HandlerStep(c)
  <2> USE DEF Calling!HandlerMoves, Logged!HandlerMoves, Calling!queueVars, Logged!queueVars
  <2>1. /\ Calling!Forward(c) <=> Logged!Forward(c)
        /\ Calling!DoFails(c) <=> Logged!DoFails(c)
        /\ Calling!DoSucceeds(c) <=> Logged!DoSucceeds(c)
        /\ Calling!CopyEnds(c) <=> Logged!CopyEnds(c)
    BY DEF Calling!Forward, Logged!Forward, Calling!DoFails, Logged!DoFails,
           Calling!DoSucceeds, Logged!DoSucceeds, Calling!CopyEnds, Logged!CopyEnds
  <2>2. /\ Calling!CloseResponse(c) <=> Logged!CloseResponse(c)
        /\ Calling!StreamEnds(c) <=> Logged!StreamEnds(c)
        /\ Calling!Return(c) <=> Logged!Return(c)
    BY DEF Calling!CloseResponse, Logged!CloseResponse, Calling!StreamEnds, Logged!StreamEnds,
           Calling!Return, Logged!Return
  <2>3. \A e \in Events : Calling!LogEvent(c, e) <=> Logged!LogEvent(c, e)
    BY DEF Calling!LogEvent, Logged!LogEvent
  <2>4. Calling!EventLogged(c) <=> Logged!EventLogged(c)
    BY DEF Calling!EventLogged, Logged!EventLogged
  <2> QED BY <2>1, <2>2, <2>3, <2>4 DEF Calling!HandlerStep, Logged!HandlerStep
<1>3. ASSUME NEW c \in Calls, NEW k \in Closers
      PROVE  Calling!CloseStep(c, k) <=> Logged!CloseStep(c, k)
  BY DEF Calling!CloseStep, Logged!CloseStep, Calling!TestClosed, Logged!TestClosed,
              Calling!MarkClosed, Logged!MarkClosed,
              Calling!CloseRequest, Logged!CloseRequest, Calling!queueVars, Logged!queueVars
<1>4. ASSUME NEW l \in Loggers
      PROVE  /\ Calling!Begins(l) <=> Logged!Begins(l)
             /\ Calling!Ends(l) <=> Logged!Ends(l)
             /\ Calling!Collapses(l) <=> Logged!Collapses(l)
             /\ Calling!SignalSent(l) <=> Logged!SignalSent(l)
  <2> USE DEF Calling!LoggerMoves, Logged!LoggerMoves, Calling!callVars, Logged!callVars,
              Calling!queueVars, Logged!queueVars
  <2>1. Calling!Begins(l) <=> Logged!Begins(l)
    BY DEF Calling!Begins, Logged!Begins
  <2>2. Calling!Ends(l) <=> Logged!Ends(l)
    BY SameLoggers DEF Calling!Ends, Logged!Ends, Calling!AfterLogging, Logged!AfterLogging
  <2>3. Calling!Collapses(l) <=> Logged!Collapses(l)
    BY DEF Calling!Collapses, Logged!Collapses
  <2>4. Calling!SignalSent(l) <=> Logged!SignalSent(l)
    BY DEF Calling!SignalSent, Logged!SignalSent
  <2> QED BY <2>1, <2>2, <2>3, <2>4
<1> QED BY <1>1, <1>2, <1>3, <1>4

(* The queue of turns that the processor implements is the one that the     *)
(* loggers use.                                                             *)
LEMMA SameQueue ==
  ASSUME NEW l \in Loggers
  PROVE  /\ Ordered!Turns!Take(l) <=> Logged!Queue!Take(l)
         /\ Ordered!Turns!Enter(l) <=> Logged!Queue!Enter(l)
         /\ Ordered!Turns!Overtake(l) <=> Logged!Queue!Overtake(l)
         /\ Ordered!Turns!Leave(l) <=> Logged!Queue!Leave(l)
<1>1. /\ Stage = [t \in Loggers |-> Ordered!StageOf(pc[t])]
      /\ Stage' = [t \in Loggers |-> Ordered!StageOf(pc'[t])]
  BY DEF Stage, Processor!StageOf, Ordered!StageOf
<1>2. Ordered!Turns!Take(l) <=> Logged!Queue!Take(l)
  BY <1>1 DEF Ordered!Turns!Take, Logged!Queue!Take
<1>3. Ordered!Turns!Enter(l) <=> Logged!Queue!Enter(l)
  <2>1. Ordered!Turns!Ahead(l) = Logged!Queue!Ahead(l)
    BY SameLoggers DEF Ordered!Turns!Ahead, Logged!Queue!Ahead
  <2> QED BY <1>1, <2>1 DEF Ordered!Turns!Enter, Logged!Queue!Enter
<1>4. /\ Ordered!Turns!Overtake(l) <=> Logged!Queue!Overtake(l)
      /\ Ordered!Turns!Leave(l) <=> Logged!Queue!Leave(l)
  BY <1>1 DEF Ordered!Turns!Overtake, Logged!Queue!Overtake,
              Ordered!Turns!Leave, Logged!Queue!Leave
<1> QED BY <1>2, <1>3, <1>4

-----------------------------------------------------------------------------
(* What the two parts keep, each for itself. *)
Kept == Ordered!IInv /\ Logged!IInv

(* The sections of the processor are those of the queue. *)
LEMMA StageTells ==
  ASSUME Ordered!IInv, NEW l \in Loggers
  PROVE  /\ pc[l] \in Processor!Section => Stage[l] \in Logged!Section
         /\ pc[l] \in {"numbered", "waiting", "expired", "leaving"} => Stage[l] = "queued"
BY Ordered!StageValues, SameLoggers
   DEF Stage, Processor!StageOf, Ordered!StageOf, Processor!Section, Logged!Section

LEMMA InitKept == Init => Logged!Init /\ Kept
<1> SUFFICES ASSUME Init PROVE Logged!Init /\ Kept
  OBVIOUS
<1>1. Ordered!Init /\ Logged!CallInit
  BY SameOrdered, SameLogged DEF Init
<1>2. Ordered!Turns!QueueInit
  BY <1>1, Ordered!InitRefines, LoggersAssumption
<1>3. Logged!Queue!QueueInit
  BY <1>2, SameLoggers
     DEF Ordered!Turns!QueueInit, Logged!Queue!QueueInit, Stage, Processor!StageOf, Ordered!StageOf
<1>4. Logged!Init
  BY <1>1, <1>3 DEF Logged!Init
<1> QED BY <1>1, <1>4, Ordered!InitIInv, Logged!InitIInv, LoggersAssumption, SameLoggers DEF Kept

(* Handler, transport and signal: the same step, the queue stands still.    *)
LEMMA CallStepMaps ==
  ASSUME NEW c \in Calls, HandlerStep(c) \/ TransportStep(c) PROVE Logged!Next
<1>1. Calling!HandlerStep(c) \/ \E k \in Closers : Calling!CloseStep(c, k)
  BY DEF HandlerStep, TransportStep, Closers
<1> QED BY <1>1, SameLogged, SameLoggers DEF Logged!Next

LEMMA SignalMaps == ASSUME NEW l \in Loggers, SignalSent(l) PROVE Logged!Next
<1>1. Logged!Signal(l)
  BY SameLogged, SameLoggers DEF SignalSent, Calling!Signal, Logged!Signal
<1> QED BY <1>1, SameLoggers DEF Logged!Next

(* GetNextSequence takes the ticket. *)
LEMMA GetNextSequenceMaps ==
  ASSUME Kept, NEW l \in Loggers, GetNextSequence(l) PROVE Logged!Next
<1>1. Ordered!GetNextSequence(l) /\ Logged!Begins(l)
  BY SameOrdered, SameLogged DEF GetNextSequence
<1>2. Logged!Queue!Take(l)
  BY <1>1, Ordered!GetNextSequenceTakes, SameQueue, LoggersAssumption DEF Kept
<1> QED BY <1>1, <1>2, SameLoggers DEF Logged!Take, Logged!Next

(* WaitForSequence enters or overtakes, or leaves the logger queued. *)
LEMMA WaitStepMaps ==
  ASSUME Kept, NEW l \in Loggers, WaitStep(l)
  PROVE  Logged!Next \/ UNCHANGED Logged!vars
<1>1. UNCHANGED <<Logged!callVars, logger>>
  BY DEF WaitStep, callVars, Logged!callVars
<1>2. \/ Ordered!Abandon(l) \/ Ordered!Stopped(l) \/ Ordered!TimerFires(l)
      \/ Ordered!WaitForSequence(l) \/ Ordered!WaiterClosed(l) \/ Ordered!Expire(l)
  BY SameOrdered DEF WaitStep, Ordered!Wakes, Ordered!Timeout
<1>3. pc[l] \in {"numbered", "waiting", "expired"}
  BY <1>2 DEF Ordered!Abandon, Ordered!Stopped, Ordered!TimerFires, Ordered!WaitForSequence,
              Ordered!WaiterClosed, Ordered!Expire
<1>4. logger[l] = "logging"
  BY <1>3, StageTells, SameLoggers DEF Kept, Logged!IInv, Logged!Linked
<1>5. Ordered!Turns!Enter(l) \/ Ordered!Turns!Overtake(l) \/ UNCHANGED Ordered!Turns!queueVars
  BY <1>2, Ordered!StaysQueued, Ordered!WaitForSequenceEnters, Ordered!WaiterClosedEnters,
     Ordered!ExpireOvertakes, LoggersAssumption DEF Kept
<1>6. CASE UNCHANGED Ordered!Turns!queueVars
  BY <1>1, <1>6
     DEF Ordered!Turns!queueVars, Logged!vars, Logged!queueVars, Stage, Processor!StageOf,
         Ordered!StageOf
<1>7. CASE Ordered!Turns!Enter(l) \/ Ordered!Turns!Overtake(l)
  <2>1. Logged!Wait(l)
    BY <1>1, <1>4, <1>7, SameQueue DEF Logged!Wait, Logged!Enter, Logged!Overtake
  <2> QED BY <2>1, SameLoggers DEF Logged!Next
<1> QED BY <1>5, <1>6, <1>7

(* CompleteSequence leaves the queue, without a section or from one.        *)
LEMMA CompleteMaps ==
  ASSUME Kept, NEW l \in Loggers, CompleteUnlogged(l) \/ CompleteSequence(l)
  PROVE  Logged!Next
<1>1. Ordered!CompleteSequence(l)
  BY SameOrdered DEF CompleteUnlogged, CompleteSequence
<1>2. Logged!Queue!Leave(l)
  BY <1>1, Ordered!CompleteSequenceLeaves, SameQueue, LoggersAssumption DEF Kept
<1>3. CASE CompleteUnlogged(l)
  <2>1. Logged!GiveUp(l)
    BY <1>2, <1>3, SameLogged, StageTells DEF CompleteUnlogged, Logged!GiveUp, Kept
  <2> QED BY <2>1, SameLoggers DEF Logged!Next, Logged!Wait
<1>4. CASE CompleteSequence(l)
  <2>1. Logged!Complete(l) \/ Logged!Panic(l)
    BY <1>2, <1>4, SameLogged, StageTells DEF CompleteSequence, Logged!Complete, Logged!Panic, Kept
  <2> QED BY <2>1, SameLoggers DEF Logged!Next, Logged!Finish
<1> QED BY <1>3, <1>4

(* Every step of the stack is one of CallLogging, or none. *)
LEMMA NextMaps == Kept /\ [Next]_vars => [Logged!Next]_(Logged!vars)
<1> SUFFICES ASSUME Kept, [Next]_vars PROVE Logged!Next \/ UNCHANGED Logged!vars
  OBVIOUS
<1>1. ASSUME Stop \/ UNCHANGED vars PROVE UNCHANGED Logged!vars
  BY <1>1 DEF Stop, Processor!Stop, vars, callVars, processorVars, Logged!vars, Logged!callVars,
              Logged!queueVars, Stage
<1> QED BY <1>1, CallStepMaps, SignalMaps, GetNextSequenceMaps, WaitStepMaps, CompleteMaps
        DEF Next, LoggerStep

(* Every step of the stack is one of the processor, or leaves it alone.     *)
LEMMA NextProcesses == [Next]_vars => [Ordered!Next]_(Ordered!vars)
<1>1. ASSUME \/ \E c \in Calls : HandlerStep(c) \/ TransportStep(c)
             \/ \E l \in Loggers : SignalSent(l)
             \/ UNCHANGED vars
      PROVE  UNCHANGED Ordered!vars
  BY <1>1 DEF HandlerStep, TransportStep, SignalSent, vars, processorVars, Ordered!vars
<1>2. ASSUME NEW l \in Loggers,
             \/ GetNextSequence(l) \/ WaitStep(l)
             \/ CompleteUnlogged(l) \/ CompleteSequence(l)
      PROVE  Ordered!Next
  BY <1>2, SameOrdered
     DEF GetNextSequence, WaitStep, CompleteUnlogged, CompleteSequence, Ordered!Next
<1>3. Stop => Ordered!Next
  BY SameOrdered DEF Stop, Ordered!Next
<1> QED BY <1>1, <1>2, <1>3 DEF Next, LoggerStep

LEMMA NextKept == Kept /\ [Next]_vars => Kept'
BY NextMaps, NextProcesses, Ordered!NextIInv, Logged!NextIInv, SameLoggers, LoggersAssumption
   DEF Kept

THEOREM Inductive == Spec => []Kept
BY InitKept, NextKept, PTL DEF Spec

-----------------------------------------------------------------------------
(* CallLogging again, by the name that the runs check. *)
LEMMA SameSpec == Logged!Spec <=> Calling!Spec
<1>1. /\ Calling!Queue!QueueInit <=> Logged!Queue!QueueInit
      /\ \A l \in Loggers : /\ Calling!Queue!Take(l) <=> Logged!Queue!Take(l)
                            /\ Calling!Queue!Enter(l) <=> Logged!Queue!Enter(l)
                            /\ Calling!Queue!Overtake(l) <=> Logged!Queue!Overtake(l)
                            /\ Calling!Queue!Leave(l) <=> Logged!Queue!Leave(l)
  BY SameLoggers
     DEF Calling!Queue!QueueInit, Logged!Queue!QueueInit, Calling!Queue!Take, Logged!Queue!Take,
         Calling!Queue!Enter, Logged!Queue!Enter, Calling!Queue!Ahead, Logged!Queue!Ahead,
         Calling!Queue!Overtake, Logged!Queue!Overtake, Calling!Queue!Leave, Logged!Queue!Leave
<1>2. Calling!Init <=> Logged!Init
  BY <1>1, SameLogged DEF Logged!Init, Calling!Init
<1>3. UNCHANGED Calling!vars <=> UNCHANGED Logged!vars
  BY DEF Calling!vars, Logged!vars, Calling!callVars, Logged!callVars,
         Calling!queueVars, Logged!queueVars
<1>4. ASSUME NEW l \in Loggers
      PROVE  (Calling!Take(l) \/ Calling!Wait(l) \/ Calling!Finish(l) \/ Calling!Signal(l))
               <=> (Logged!Take(l) \/ Logged!Wait(l) \/ Logged!Finish(l) \/ Logged!Signal(l))
  <2>1. Calling!Take(l) <=> Logged!Take(l)
    BY <1>1, SameLogged DEF Calling!Take, Logged!Take
  <2>2. Calling!Wait(l) <=> Logged!Wait(l)
    BY <1>1, SameLogged
       DEF Calling!Wait, Logged!Wait, Calling!Enter, Logged!Enter, Calling!Overtake,
           Logged!Overtake, Calling!GiveUp, Logged!GiveUp, Calling!callVars, Logged!callVars
  <2>3. Calling!Finish(l) <=> Logged!Finish(l)
    BY <1>1, SameLogged
       DEF Calling!Finish, Logged!Finish, Calling!Complete, Logged!Complete, Calling!Panic,
           Logged!Panic, Calling!Section, Logged!Section
  <2>4. Calling!Signal(l) <=> Logged!Signal(l)
    BY SameLogged, SameLoggers DEF Calling!Signal, Logged!Signal
  <2> QED BY <2>1, <2>2, <2>3, <2>4
<1>5. Calling!Next <=> Logged!Next
  BY <1>4, SameLogged, SameLoggers DEF Calling!Next, Logged!Next
<1> QED BY <1>2, <1>3, <1>5, PTL DEF Calling!Spec, Logged!Spec

(* What calls and their loggers do on the ordered processor is what         *)
(* CallLogging says, for any calls and events.                              *)
THEOREM StackIsCallLogging == Spec => Logged!Spec
BY InitKept, NextMaps, Inductive, PTL DEF Spec, Logged!Spec

THEOREM Refinement == Spec => ImplementsCallLogging
BY StackIsCallLogging, SameSpec, PTL DEF ImplementsCallLogging

(* So all that is proved of CallLogging is true on the processor itself.    *)

(* The names of sections, loggers and states, once more the same.           *)
LEMMA SameProperties ==
  /\ Logged!DataRaceNeedsLate => DataRaceNeedsLate
  /\ Logged!ResponseAfterRequest => ResponseAfterRequest
  /\ Logged!DurationBeforeResponse => DurationBeforeResponse
<1>1. Logged!DataRaceNeedsLate => DataRaceNeedsLate
  BY SameLoggers
     DEF Logged!DataRaceNeedsLate, DataRaceNeedsLate, Calling!DataRaceNeedsLate,
         Logged!Section, Calling!Section
<1>2. Logged!ResponseAfterRequest => ResponseAfterRequest
  BY SameLoggers
     DEF Logged!ResponseAfterRequest, ResponseAfterRequest, Calling!ResponseAfterRequest
<1>3. Logged!DurationBeforeResponse => DurationBeforeResponse
  BY DEF Logged!DurationBeforeResponse, DurationBeforeResponse, Calling!DurationBeforeResponse,
         Logged!Section, Calling!Section
<1> QED BY <1>1, <1>2, <1>3

(* Two loggers of a call that touch its data at once (SetData and GetData   *)
(* without a lock) did not both come out of WaitForSequence by their turn.  *)
THEOREM DataRacesNeedLate == Spec => []DataRaceNeedsLate
<1>1. Logged!Spec => []Logged!DataRaceNeedsLate
  BY Logged!DataRacesNeedLate, SameLoggers, LoggersAssumption
<1> QED BY <1>1, StackIsCallLogging, SameProperties, PTL

(* A response logger draws its number after a request logger of its call    *)
(* has closed reqSentChan and ended.                                        *)
THEOREM ResponsesAfterRequests == Spec => []ResponseAfterRequest
<1>1. Logged!Spec => []Logged!ResponseAfterRequest
  BY Logged!ResponsesAfterRequests, SameLoggers, LoggersAssumption
<1> QED BY <1>1, StackIsCallLogging, SameProperties, PTL

(* The response logger is in its section only after callDuration is set.    *)
THEOREM DurationsTaken == Spec => []DurationBeforeResponse
<1>1. Logged!Spec => []Logged!DurationBeforeResponse
  BY Logged!DurationsTaken, SameLoggers, LoggersAssumption
<1> QED BY <1>1, StackIsCallLogging, SameProperties, PTL

(* After the handler has returned, reqSentChan is closed, or a Close that   *)
(* still drains the upload will start a request logger, or one is on its    *)
(* way to close the channel, unless it panicked: no early return from       *)
(* logRequest, by a timer, by Shutdown or for want of decompression, takes  *)
(* the signal with it.                                                      *)
THEOREM SignalsKept == Spec => []Logged!NoSignalLost
<1>1. Logged!Spec => []Logged!NoSignalLost
  BY Logged!SignalsKept, SameLoggers, LoggersAssumption
<1> QED BY <1>1, StackIsCallLogging, PTL
=============================================================================
