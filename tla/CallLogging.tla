---------------------------- MODULE CallLogging ----------------------------
(***************************************************************************)
(* How a proxied call is logged (src/snooper/proxycall.go, logging.go).    *)
(* The request body is read through a logReadCloser that the HTTP client's *)
(* transport closes when it has sent the body and that the handler closes  *)
(* again when it returns; its Close starts the goroutine that logs the     *)
(* request.  The response body has one of its own, closed by the handler   *)
(* alone, and its goroutine first waits for reqSentChan.  The events of an *)
(* event stream are logged by the handler itself.  All of them pass        *)
(* through the ordered processor, taken here as the queue of turns that    *)
(* OrderedProcessor is shown to implement.                                 *)
(***************************************************************************)
EXTENDS Naturals, LoggingTasks

VARIABLES handler,    \* where processProxyCall stands for each call
          closer,     \* how far each closer is in Close of the request stream
          closed,     \* the closed flag of the request stream
          reqSent,    \* reqSentChan is closed
          duration,   \* callDuration is set
          logger,     \* what each logging goroutine is doing
          stage, ticket, issued   \* the queue of turns

callVars == <<handler, closer, closed, reqSent, duration>>
queueVars == <<stage, ticket, issued>>
vars == <<callVars, logger, queueVars>>

Queue == INSTANCE TurnQueue WITH Tasks <- Loggers

(* "copied" has read the whole response, "returning" runs the deferred      *)
(* Close of the request stream, "inEvent" logs an event.                    *)
HandlerPlaces == {"new", "sending", "copying", "copied", "streaming",
                  "inEvent", "returning", "returned"}

(* "checked" has read the closed flag and found it unset, "draining" has    *)
(* set it and reads what is left of the stream.                             *)
CloserPlaces == {"idle", "open", "checked", "draining", "done"}

(* "logging" is between GetNextSequence and CompleteSequence, and the stage *)
(* says how far; "signalling" is about to close reqSentChan.                *)
LoggerPlaces == {"none", "started", "logging", "signalling", "ended", "panicked"}

Section == {"turn", "late"}

TypeOK == /\ handler \in [Calls -> HandlerPlaces]
          /\ closer \in [RequestLoggers -> CloserPlaces]
          /\ closed \in [Calls -> BOOLEAN]
          /\ reqSent \in [Calls -> BOOLEAN]
          /\ duration \in [Calls -> BOOLEAN]
          /\ logger \in [Loggers -> LoggerPlaces]
          /\ \A l \in Loggers \ RequestLoggers : logger[l] # "signalling"
          /\ Queue!QueueTypeOK

(* As in OrderedProcessor, X_Slip... is X with a plausible mistake. *)

CallInit == /\ handler = [c \in Calls |-> "new"]
            /\ closer = [k \in RequestLoggers |-> "idle"]
            /\ closed = [c \in Calls |-> FALSE]
            /\ reqSent = [c \in Calls |-> FALSE]
            /\ duration = [c \in Calls |-> FALSE]
            /\ logger = [l \in Loggers |-> "none"]

Init == CallInit /\ Queue!QueueInit

-----------------------------------------------------------------------------
(* The handler and the transport. *)

HandlerMoves(c, from, to) == /\ handler[c] = from
                             /\ handler' = [handler EXCEPT ![c] = to]

(* client.Do: the transport starts to read the request stream.  (A URL that *)
(* does not parse ends the call before there is a stream to log.)           *)
Forward(c) ==
  /\ HandlerMoves(c, "new", "sending")
  /\ closer' = [closer EXCEPT ![<<c, "transport">>] = "open"]
  /\ UNCHANGED <<closed, reqSent, duration, logger, queueVars>>

(* client.Do fails, or returns after the call was cancelled. *)
DoFails(c) ==
  /\ HandlerMoves(c, "sending", "returning")
  /\ closer' = [closer EXCEPT ![<<c, "handler">>] = "open"]
  /\ UNCHANGED <<closed, reqSent, duration, logger, queueVars>>

(* client.Do returns a response, which may be before the whole request was  *)
(* sent.                                                                    *)
DoSucceeds(c) ==
  /\ \/ c \in Streams /\ HandlerMoves(c, "sending", "streaming")
     \/ c \in Plain /\ HandlerMoves(c, "sending", "copying")
  /\ UNCHANGED <<closer, closed, reqSent, duration, logger, queueVars>>

(* io.Copy has returned, with or without an error. *)
CopyEnds(c) ==
  /\ HandlerMoves(c, "copying", "copied")
  /\ duration' = [duration EXCEPT ![c] = TRUE]
  /\ UNCHANGED <<closer, closed, reqSent, logger, queueVars>>

(* Closes the response stream before the duration is taken. *)
CloseResponse_SlipEarly(c) ==
  /\ HandlerMoves(c, "copying", "returning")
  /\ closer' = [closer EXCEPT ![<<c, "handler">>] = "open"]
  /\ logger' = [logger EXCEPT ![<<c, "response">>] = "started"]
  /\ UNCHANGED <<closed, reqSent, duration, queueVars>>

(* The deferred Close of the response stream starts the response logger. *)
CloseResponse(c) ==
  /\ HandlerMoves(c, "copied", "returning")
  /\ closer' = [closer EXCEPT ![<<c, "handler">>] = "open"]
  /\ logger' = [logger EXCEPT ![<<c, "response">>] = "started"]
  /\ UNCHANGED <<closed, reqSent, duration, queueVars>>

(* An event came in: logEventResponse runs in the handler's goroutine. *)
LogEvent(c, e) ==
  /\ HandlerMoves(c, "streaming", "inEvent")
  /\ logger[<<c, e>>] = "none"
  /\ logger' = [logger EXCEPT ![<<c, e>>] = "started"]
  /\ UNCHANGED <<closer, closed, reqSent, duration, queueVars>>

(* It returned; a panic in it unwinds the handler. *)
EventLogged(c) ==
  LET places == {logger[<<c, e>>] : e \in Events} IN
  /\ c \in Streams
  /\ places \cap {"started", "logging"} = {}
  /\ \/ /\ "panicked" \notin places
        /\ HandlerMoves(c, "inEvent", "streaming")
        /\ UNCHANGED closer
     \/ /\ "panicked" \in places
        /\ HandlerMoves(c, "inEvent", "returning")
        /\ closer' = [closer EXCEPT ![<<c, "handler">>] = "open"]
  /\ UNCHANGED <<closed, reqSent, duration, logger, queueVars>>

(* The stream ends: by the origin, the client, or the cancelled context. *)
StreamEnds(c) ==
  /\ HandlerMoves(c, "streaming", "returning")
  /\ closer' = [closer EXCEPT ![<<c, "handler">>] = "open"]
  /\ UNCHANGED <<closed, reqSent, duration, logger, queueVars>>

(* Close logs in the caller's goroutine instead of one of its own. *)
Return_SlipSync(c) ==
  /\ closer[<<c, "handler">>] = "done"
  /\ logger[<<c, "handler">>] \notin {"started", "logging"}
  /\ HandlerMoves(c, "returning", "returned")
  /\ UNCHANGED <<closer, closed, reqSent, duration, logger, queueVars>>

(* processProxyCall returns after the last deferred Close. *)
Return(c) ==
  /\ closer[<<c, "handler">>] = "done"
  /\ HandlerMoves(c, "returning", "returned")
  /\ UNCHANGED <<closer, closed, reqSent, duration, logger, queueVars>>

-----------------------------------------------------------------------------
(* Close of the request stream, by either closer.  Nothing protects the     *)
(* flag: one closer may test it before the other sets it.  Once it is set   *)
(* the other one does nothing, though the request logger only starts when   *)
(* the stream is drained.                                                   *)

TestClosed(c, k) ==
  /\ closer[<<c, k>>] = "open"
  /\ closer' = [closer EXCEPT ![<<c, k>>] = IF closed[c] THEN "done" ELSE "checked"]
  /\ UNCHANGED <<handler, closed, reqSent, duration, logger, queueVars>>

MarkClosed(c, k) ==
  /\ closer[<<c, k>>] = "checked"
  /\ closer' = [closer EXCEPT ![<<c, k>>] = "draining"]
  /\ closed' = [closed EXCEPT ![c] = TRUE]
  /\ UNCHANGED <<handler, reqSent, duration, logger, queueVars>>

(* The stream is drained: close it, start the request logger. *)
CloseRequest(c, k) ==
  /\ closer[<<c, k>>] = "draining"
  /\ closer' = [closer EXCEPT ![<<c, k>>] = "done"]
  /\ logger' = [logger EXCEPT ![<<c, k>>] = "started"]
  /\ UNCHANGED <<handler, closed, reqSent, duration, queueVars>>

-----------------------------------------------------------------------------
(* The loggers. *)

LoggerMoves(l, from, to) == /\ logger[l] = from
                            /\ logger' = [logger EXCEPT ![l] = to]

(* Does not wait for the request to be logged. *)
Begins_SlipAtOnce(l) == LoggerMoves(l, "started", "logging") /\ UNCHANGED callVars

(* What a logger does besides its calls of the processor.  A response       *)
(* logger first receives from reqSentChan.                                  *)
Begins(l) == /\ LoggerMoves(l, "started", "logging")
             /\ l[2] = "response" => reqSent[l[1]]
             /\ UNCHANGED callVars

(* What a logger does once CompleteSequence has run: the request logger     *)
(* still has to signal that the request is logged.                          *)
AfterLogging(l) == IF l \in RequestLoggers THEN "signalling" ELSE "ended"

(* Does not come back to the signal when it gives up. *)
Ends_SlipSilent(l) ==
  /\ LoggerMoves(l, "logging", IF stage[l] = "queued" THEN "ended" ELSE AfterLogging(l))
  /\ UNCHANGED callVars

Ends(l) == LoggerMoves(l, "logging", AfterLogging(l)) /\ UNCHANGED callVars

(* It panics: the deferred CompleteSequence runs, nothing after. *)
Collapses(l) == LoggerMoves(l, "logging", "panicked") /\ UNCHANGED callVars

(* GetNextSequence. *)
Take(l) == Begins(l) /\ Queue!Take(l)

(* WaitForSequence returns true, in turn or by its timer. *)
Enter(l) == logger[l] = "logging" /\ Queue!Enter(l) /\ UNCHANGED <<callVars, logger>>

Overtake(l) == logger[l] = "logging" /\ Queue!Overtake(l) /\ UNCHANGED <<callVars, logger>>

(* Return without logging: the body does not decompress, or the processor   *)
(* was stopped.                                                             *)
GiveUp(l) == stage[l] = "queued" /\ Ends(l) /\ Queue!Leave(l)

(* The section is over: data set, modules called, line written. *)
Complete(l) == stage[l] \in Section /\ Ends(l) /\ Queue!Leave(l)

Panic(l) == stage[l] \in Section /\ Collapses(l) /\ Queue!Leave(l)

(* close(reqSentChan): closing it a second time panics, and is recovered. *)
SignalSent(l) ==
  LET c == l[1] IN
  /\ LoggerMoves(l, "signalling", IF reqSent[c] THEN "panicked" ELSE "ended")
  /\ reqSent' = [reqSent EXCEPT ![c] = TRUE]
  /\ UNCHANGED <<handler, closer, closed, duration, queueVars>>

-----------------------------------------------------------------------------
HandlerStep(c) == \/ Forward(c) \/ DoFails(c) \/ DoSucceeds(c) \/ CopyEnds(c)
                  \/ CloseResponse(c) \/ StreamEnds(c) \/ Return(c)
                  \/ \E e \in Events : LogEvent(c, e)
                  \/ EventLogged(c)

CloseStep(c, k) == TestClosed(c, k) \/ MarkClosed(c, k) \/ CloseRequest(c, k)

Wait(l) == Enter(l) \/ Overtake(l) \/ GiveUp(l)

Finish(l) == Complete(l) \/ Panic(l)

Signal(l) == l \in RequestLoggers /\ SignalSent(l)

Next == \/ \E c \in Calls : HandlerStep(c) \/ \E k \in Closers : CloseStep(c, k)
        \/ \E l \in Loggers : Take(l) \/ Wait(l) \/ Finish(l) \/ Signal(l)

Spec == Init /\ [][Next]_vars

-----------------------------------------------------------------------------
(* The data of a call is a plain map: the request logger writes it, the     *)
(* others read it, without a lock (SetData, GetData).  As long as every     *)
(* logger that overlaps got there by its turn, the sections keep them       *)
(* apart; only one that went ahead by its timer can collide.                *)
DataRaceNeedsLate ==
  \A l \in RequestLoggers, m \in Loggers :
    /\ l # m /\ l[1] = m[1]
    /\ stage[l] \in Section /\ stage[m] \in Section
    => "late" \in {stage[l], stage[m]}

(* A response is logged after a request logger of the call is through, and  *)
(* behind it in the order of the log, whatever the timers did.  (The event  *)
(* of a stream may well be logged before the request.)                      *)
ResponseAfterRequest ==
  \A c \in Plain : LET rsp == <<c, "response">> IN
    stage[rsp] # "idle" =>
      \E k \in Closers : /\ logger[<<c, k>>] = "ended"
                         /\ ticket[<<c, k>>] < ticket[rsp]

(* The duration that the response logger reports was taken before: the      *)
(* comment at proxycall.go:235 relies on the order of the deferred calls.   *)
DurationBeforeResponse ==
  \A c \in Plain : stage[<<c, "response">>] \in Section => duration[c]

(* What the test TestLogOrderingPreserved says of the log: no request line  *)
(* of a call follows its response line.                                     *)
RequestLogsFirst ==
  \A c \in Plain : stage[<<c, "response">>] \in Section =>
    \A k \in Closers : logger[<<c, k>>] \in {"none", "ended", "panicked"}

(* Both closers are through and no request logger of the call will signal   *)
(* any more: each one panicked, or hangs in its section.                    *)
NeverSignalled(c) ==
  /\ handler[c] = "returned" /\ closer[<<c, "transport">>] = "done"
  /\ ~reqSent[c]
  /\ \A k \in Closers : \/ logger[<<c, k>>] \in {"none", "panicked"}
                        \/ <<c, k>> \in Stalled /\ stage[<<c, k>>] \in Section

(* A response logger ends (in particular after a request that could not be  *)
(* decompressed) unless the request logger panicked or hangs, which is the  *)
(* one way to leave it waiting on reqSentChan for ever.                     *)
EveryResponseLogged ==
  \A c \in Plain : LET rsp == <<c, "response">> IN
    rsp \notin Stalled =>
      (logger[rsp] = "started" ~> logger[rsp] \in {"ended", "panicked"} \/ NeverSignalled(c))

(* A handler returns although the loggers of its call, or of any other,     *)
(* hang: only an event logger runs in its own goroutine, and that one waits *)
(* for the others no longer than its timer.  (What else may hold a handler, *)
(* the client or a full updateChan, is CallContext's.)                      *)
HandlersReturn ==
  \A c \in Calls : ({c} \X Events) \cap Stalled = {} =>
    (handler[c] = "sending" ~> handler[c] = "returned")
============================================================================
