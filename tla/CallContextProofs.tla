------------------------- MODULE CallContextProofs -------------------------
(***************************************************************************)
(* What holds of a call at any moment, whatever the room in updateChan.    *)
(***************************************************************************)
EXTENDS CallContext, TLAPS

(* The watcher tells the handler before it leaves, and leaves only for a    *)
(* cancelled context: a handler that tests cancelled after that goes no     *)
(* further.                                                                 *)
LeavesMarked ==
  /\ watcher \in {"timedOut", "marking"} => ctxDone
  /\ watcher \in {"closing", "gone"} => ctxDone /\ cancelled
  /\ cancelled => ctxDone

(* Where the handler passes the response on. *)
Answering == {"opening", "flushingHeader", "reading", "writing", "logging", "flushing",
              "testing", "sending", "copying", "copyWriting", "closingResponse"}

(* The body belongs to whoever got the response: it is there once           *)
(* client.Do has returned it, and only then may it be stored.               *)
BodyThere ==
  /\ reader = "set" => body # "none"
  /\ handler \in {"checking", "storing"} \cup Answering => body # "none"
  /\ handler \in Answering => reader = "set"

(* The handler leaves neither the context nor its request stream open, and  *)
(* the stream's flag is set before the upload is drained.                   *)
ReturnsClean ==
  /\ handler \in {"failing", "draining", "cancelling", "returned"} => reqClosed
  /\ handler = "returned" => ctxDone

IInv == TypeOK /\ LeavesMarked /\ BodyThere /\ ReturnsClean

LEMMA InitInv == Init => IInv
<1>. SUFFICES ASSUME Init PROVE IInv
  OBVIOUS
<1>1. TypeOK
  <2>1. 0 \in 0..Capacity
    BY CapacityAssumption
  <2>. QED
    BY <2>1 DEF Init, TypeOK, HandlerPlaces, WatcherPlaces
<1>2. BodyThere
  BY DEF Init, BodyThere, Answering
<1>3. LeavesMarked /\ ReturnsClean
  BY DEF Init, LeavesMarked, ReturnsClean
<1>. QED
  BY <1>1, <1>2, <1>3 DEF IInv

LEMMA WatchInv ==
  ASSUME IInv, Watch \/ TimerFires
  PROVE  IInv'
<1>. USE DEF IInv, TypeOK, WatcherPlaces, LeavesMarked, BodyThere, ReturnsClean, WatcherMoves,
             context, client
<1>1. CASE TakeUpdate
  BY <1>1, CapacityAssumption DEF TakeUpdate
<1>2. CASE SeeDone \/ TimedOut
  BY <1>2 DEF SeeDone, TimedOut
<1>3. CASE MarkCancelled
  BY <1>3 DEF MarkCancelled
<1>4. CASE CloseReader
  BY <1>4 DEF CloseReader
<1>5. CASE TimerFires
  BY <1>5 DEF TimerFires
<1>. QED
  BY <1>1, <1>2, <1>3, <1>4, <1>5 DEF Watch

(* Steps that only move the handler.  None enters a place whose promise has *)
(* to be made first.                                                        *)
LEMMA OnlyMovesInv ==
  ASSUME IInv, HandlerOnly, handler' \in HandlerPlaces,
         handler' \in {"checking", "storing"} \cup Answering => handler \in Answering,
         handler' \in {"failing", "draining", "cancelling", "returned"} => handler = "draining",
         handler' # "returned"
  PROVE  IInv'
<1>. USE DEF IInv, HandlerOnly, context, client
<1>1. TypeOK' /\ LeavesMarked'
  BY DEF TypeOK, LeavesMarked
<1>2. BodyThere'
  BY DEF BodyThere
<1>3. ReturnsClean'
  BY DEF ReturnsClean
<1>. QED
  BY <1>1, <1>2, <1>3

Moves == \/ DoFails \/ DialReturns \/ Flush \/ ReadLine \/ ReadEnds \/ WriteLine \/ EventLogged
         \/ CheckAfterEvent \/ CopyRead \/ CopyWrite \/ CopyEnds \/ WriteFails \/ DrainRequest

LEMMA MovesInv == ASSUME IInv, Moves PROVE IInv'
<1>. USE DEF HandlerMoves, HandlerPlaces, Answering
<1>1. CASE DoFails \/ DialReturns \/ DrainRequest
  BY <1>1, OnlyMovesInv DEF DoFails, DialReturns, DrainRequest
<1>2. CASE ReadLine \/ ReadEnds \/ WriteLine
  BY <1>2, OnlyMovesInv DEF ReadLine, ReadEnds, WriteLine
<1>3. CASE Flush \/ EventLogged \/ CheckAfterEvent
  BY <1>3, OnlyMovesInv DEF Flush, EventLogged, CheckAfterEvent
<1>4. CASE CopyRead \/ CopyWrite \/ CopyEnds \/ WriteFails
  BY <1>4, OnlyMovesInv DEF CopyRead, CopyWrite, CopyEnds, WriteFails
<1>. QED
  BY <1>1, <1>2, <1>3, <1>4 DEF Moves

LEMMA HandleInv ==
  ASSUME IInv, Handle \/ Origin \/ ClientTakes \/ EventLogged
  PROVE  IInv'
<1>. USE DEF IInv, TypeOK, HandlerPlaces, LeavesMarked, BodyThere, ReturnsClean, Answering,
             HandlerMoves, context, client
<1>1. CASE Moves
  BY <1>1, MovesInv
<1>2. CASE DialFails
  BY <1>2 DEF DialFails
<1>3. CASE DoSucceeds
  BY <1>3 DEF DoSucceeds
<1>4. CASE CheckAfterDo
  BY <1>4 DEF CheckAfterDo
<1>5. CASE StoreReader
  BY <1>5 DEF StoreReader
<1>6. CASE SendUpdate
  BY <1>6, CapacityAssumption DEF SendUpdate
<1>7. CASE CloseResponse
  BY <1>7 DEF CloseResponse
<1>8. CASE CloseRequest
  BY <1>8 DEF CloseRequest
<1>9. CASE Cancel
  BY <1>9 DEF Cancel
<1>. QED
  BY <1>1, <1>2, <1>3, <1>4, <1>5, <1>6, <1>7, <1>8, <1>9
  DEF Handle, Origin, ClientTakes, Moves, DoAborts, ReadAborts, CopyAborts, DrainAborts

LEMMA EnvironmentInv == ASSUME IInv, Environment PROVE IInv'
<1>. USE DEF IInv, TypeOK, LeavesMarked, BodyThere, ReturnsClean, context, client
<1>1. CASE Disconnect
  BY <1>1 DEF Disconnect
<1>2. CASE NoticeDisconnect
  BY <1>2 DEF NoticeDisconnect
<1>3. CASE UploadEnds
  BY <1>3 DEF UploadEnds
<1>4. CASE TransportCloses
  BY <1>4 DEF TransportCloses
<1>. QED
  BY <1>1, <1>2, <1>3, <1>4 DEF Environment

LEMMA NextInv == IInv /\ [Next]_vars => IInv'
<1>. SUFFICES ASSUME IInv, [Next]_vars PROVE IInv'
  OBVIOUS
<1>1. CASE Handle \/ Origin \/ ClientTakes \/ EventLogged
  BY <1>1, HandleInv
<1>2. CASE Watch \/ TimerFires
  BY <1>2, WatchInv
<1>3. CASE Environment
  BY <1>3, EnvironmentInv
<1>4. CASE UNCHANGED vars
  BY <1>4 DEF vars, context, client, IInv, TypeOK, LeavesMarked, BodyThere, ReturnsClean
<1>. QED
  BY <1>1, <1>2, <1>3, <1>4 DEF Next

LEMMA Invariant == Spec => []IInv
BY InitInv, NextInv, PTL DEF Spec

(* The state of a call stays in its types: in particular updateChan is      *)
(* never handed more than it has room for.                                  *)
THEOREM TypeCorrect == Spec => []TypeOK
<1>1. IInv => TypeOK
  BY DEF IInv
<1>. QED
  BY Invariant, <1>1, PTL

(* processCallContext leaves only with the context cancelled and the flag   *)
(* set, and nothing else sets the flag: a handler that finds the flag set   *)
(* has a context that is cancelled.                                         *)
THEOREM WatcherTells == Spec => []LeavesMarked
<1>1. IInv => LeavesMarked
  BY DEF IInv
<1>. QED
  BY Invariant, <1>1, PTL

(* However processProxyCall comes to its end, the request stream was closed *)
(* and the context cancelled, so that the watcher can see that the call is  *)
(* over; a handler that drains the upload has set the closed flag before,   *)
(* so that nobody else will drain it in its place.                          *)
THEOREM CallLeavesClean == Spec => []ReturnsClean
<1>1. IInv => ReturnsClean
  BY DEF IInv
<1>. QED
  BY Invariant, <1>1, PTL
=============================================================================
