---------------------------- MODULE LoggedCalls ----------------------------
(***************************************************************************)
(* The loggers of CallLogging on the ordered processor as it is, with its  *)
(* counters, channels and timers in place of the queue of turns.  Each     *)
(* step is one of the calls, or one of the processor together with what    *)
(* its caller does then.                                                   *)
(***************************************************************************)
EXTENDS LoggingTasks

VARIABLES handler, closer, closed, reqSent, duration, logger

VARIABLES sequenceCounter, nextSequence, activeSequences, waiters,
          closedWaiters,     \* closed of OrderedProcessor
          stopChan, pc, seq

callVars == <<handler, closer, closed, reqSent, duration, logger>>
processorVars == <<sequenceCounter, nextSequence, activeSequences, waiters,
                   closedWaiters, stopChan, pc, seq>>
vars == <<callVars, processorVars>>

Processor == INSTANCE OrderedProcessor WITH Tasks <- Loggers, closed <- closedWaiters

(* The queue of turns that CallLogging sees. *)
Stage == [l \in Loggers |-> Processor!StageOf(pc[l])]

Calling == INSTANCE CallLogging WITH stage <- Stage, ticket <- seq, issued <- sequenceCounter

Init == Calling!CallInit /\ Processor!Init

-----------------------------------------------------------------------------
(* The handler with its Close, the transport's Close and the signal do not  *)
(* touch the processor.                                                     *)
HandlerStep(c) == /\ UNCHANGED processorVars
                  /\ Calling!HandlerStep(c) \/ Calling!CloseStep(c, "handler")

TransportStep(c) == UNCHANGED processorVars /\ Calling!CloseStep(c, "transport")

SignalSent(l) == UNCHANGED processorVars /\ Calling!Signal(l)

(* A call of the processor together with what its caller does then.         *)
GetNextSequence(l) == Processor!GetNextSequence(l) /\ Calling!Begins(l)

(* In WaitForSequence, or on the way back from it. *)
WaitStep(l) == /\ \/ Processor!Abandon(l) \/ Processor!WaitForSequence(l)
                  \/ Processor!Wakes(l) \/ Processor!Timeout(l)
               /\ UNCHANGED callVars

(* The deferred CompleteSequence of a logger without a section. *)
CompleteUnlogged(l) == /\ pc[l] = "leaving"
                       /\ Processor!CompleteSequence(l)
                       /\ Calling!Ends(l)

(* The section ends, or panics, and the deferred CompleteSequence runs.     *)
CompleteSequence(l) == /\ pc[l] \in Processor!Section
                       /\ Processor!CompleteSequence(l)
                       /\ Calling!Ends(l) \/ Calling!Collapses(l)

Stop == Processor!Stop /\ UNCHANGED callVars

(* All a logger does but finish its section. *)
LoggerStep(l) == GetNextSequence(l) \/ WaitStep(l) \/ CompleteUnlogged(l) \/ SignalSent(l)

Next == \/ \E c \in Calls : HandlerStep(c) \/ TransportStep(c)
        \/ \E l \in Loggers : LoggerStep(l) \/ CompleteSequence(l)
        \/ Stop

Spec == Init /\ [][Next]_vars

(* A goroutine that can run does: the handler with its Close, the           *)
(* transport's Close, each logger.  The timer of a wait fires.  Clients and *)
(* origins are assumed to end what they send and to take what is sent to    *)
(* them, so that draining, copying and streaming end: CallContext shows     *)
(* when they do.  Only a stalled logger need not finish its section, and    *)
(* nobody need shut the server down.                                        *)
FairSpec ==
  /\ Spec
  /\ \A c \in Calls : WF_vars(HandlerStep(c)) /\ WF_vars(TransportStep(c))
  /\ \A l \in Loggers \ Stalled : WF_vars(LoggerStep(l) \/ CompleteSequence(l))
  /\ \A l \in Stalled : WF_vars(LoggerStep(l))

-----------------------------------------------------------------------------
(* On the processor itself, the loggers do what CallLogging says.           *)
ImplementsCallLogging == Calling!Spec

(* Two loggers of a call that touch the map of its data at once did not     *)
(* both get there by the processor's turn.                                  *)
DataRaceNeedsLate == Calling!DataRaceNeedsLate

(* A response draws its number after a request logger of its call is        *)
(* through, whatever the timers and Shutdown did.                           *)
ResponseAfterRequest == Calling!ResponseAfterRequest

(* The duration that the response logger reports was taken before.          *)
DurationBeforeResponse == Calling!DurationBeforeResponse

(* What the test TestLogOrderingPreserved says of the log: no request line  *)
(* of a call follows its response line.                                     *)
RequestLogsFirst == Calling!RequestLogsFirst

(* A response logger ends unless the request logger panicked or hangs; the  *)
(* processor's wake-ups and timers, and Shutdown, leave nobody behind.      *)
EveryResponseLogged == Calling!EveryResponseLogged

(* A handler returns although loggers hang in their sections. *)
HandlersReturn == Calling!HandlersReturn
=============================================================================
