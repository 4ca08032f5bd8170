---------------------------- MODULE CallContext ----------------------------
(***************************************************************************)
(* The life of one proxied call (src/snooper/proxycall.go): the handler    *)
(* goroutine of processProxyCall and the watcher goroutine of              *)
(* processCallContext, which share the context, the cancelled flag, the    *)
(* response body as streamReader, and updateChan, on which every event of  *)
(* a stream extends the deadline.  Calls share none of this with each      *)
(* other.  What the loggers do is CallLogging's.                           *)
(***************************************************************************)
EXTENDS Naturals

CONSTANT Capacity     \* of updateChan, 5 in the code

ASSUME CapacityAssumption == Capacity \in Nat \ {0}

VARIABLES handler,    \* where processProxyCall stands
          watcher,    \* where processCallContext stands
          ctxDone,    \* the call's context is cancelled
          cancelled,  \* the flag the watcher sets and the handler tests
          updates,    \* how many messages are in updateChan
          reader,     \* streamReader: "nil" or "set"
          body,       \* the response body: "none", "open" or "closed"
          upload,     \* the request body: "open" until the client ends it
          dropped,    \* the client's connection is gone
          reqClosed   \* the closed flag of the request stream

client == <<upload, dropped>>
context == <<ctxDone, cancelled>>
vars == <<handler, watcher, context, updates, reader, body, client, reqClosed>>

(* "doing" is in client.Do, and in "failing" that drains the upload before  *)
(* it returns an error; "checking" is before the test of cancelled and      *)
(* "storing" after it.  Of an event stream, the first update is sent in     *)
(* "opening" and the header flushed; then lines are read and written until  *)
(* an event is whole, it is logged and flushed, cancelled is tested, the    *)
(* next update sent.  Anything else is copied: read and written in turns.   *)
(* Then the deferred calls.                                                 *)
HandlerPlaces == {"doing", "failing", "checking", "storing",
                  "opening", "flushingHeader", "reading", "writing", "logging",
                  "flushing", "testing", "sending", "copying", "copyWriting",
                  "closingResponse", "closingRequest", "draining", "cancelling",
                  "returned"}

(* "timedOut" has cancelled the context, "marking" has left the loop,       *)
(* "closing" is about to test streamReader.                                 *)
WatcherPlaces == {"select", "timedOut", "marking", "closing", "gone"}

TypeOK == /\ handler \in HandlerPlaces
          /\ watcher \in WatcherPlaces
          /\ ctxDone \in BOOLEAN /\ cancelled \in BOOLEAN
          /\ dropped \in BOOLEAN /\ reqClosed \in BOOLEAN
          /\ updates \in 0..Capacity
          /\ reader \in {"nil", "set"}
          /\ body \in {"none", "open", "closed"}
          /\ upload \in {"open", "ended"}

Init == /\ handler = "doing" /\ watcher = "select"
        /\ ctxDone = FALSE /\ cancelled = FALSE
        /\ dropped = FALSE /\ reqClosed = FALSE
        /\ updates = 0
        /\ reader = "nil" /\ body = "none" /\ upload = "open"

(* The response body fails to read: its context is cancelled (the HTTP      *)
(* client drops the connection) or the watcher closed it.                   *)
BodyFails == ctxDone \/ body = "closed"

(* Reading the upload comes to an end. *)
UploadOver == upload = "ended" \/ dropped

-----------------------------------------------------------------------------
(* The client and the transport of the HTTP client. *)

(* The client's connection drops, *)
Disconnect == /\ ~dropped /\ dropped' = TRUE
              /\ UNCHANGED <<handler, watcher, context, updates, reader, body, upload, reqClosed>>

(* and the server notices, which it looks for once the request body is      *)
(* read, and cancels the parent of the call's context.                      *)
NoticeDisconnect ==
  /\ dropped /\ upload = "ended" /\ handler # "returned"
  /\ ctxDone' = TRUE
  /\ UNCHANGED <<handler, watcher, cancelled, updates, reader, body, client, reqClosed>>

(* The request body ends, or fails because the connection dropped. *)
UploadEnds == /\ upload = "open" /\ upload' = "ended"
              /\ UNCHANGED <<handler, watcher, context, updates, reader, body, dropped, reqClosed>>

(* The transport closes the request stream when it is through with it, in   *)
(* a goroutine of its own: Close sets the flag first, the draining is the   *)
(* transport's to wait for.                                                 *)
TransportCloses == /\ ~reqClosed /\ reqClosed' = TRUE
                   /\ UNCHANGED <<handler, watcher, context, updates, reader, body, client>>

-----------------------------------------------------------------------------
(* The watcher. *)

WatcherMoves(from, to) == watcher = from /\ watcher' = to

(* case newTimeout := <-updateChan *)
TakeUpdate == /\ WatcherMoves("select", "select")
              /\ updates > 0
              /\ updates' = updates - 1
              /\ UNCHANGED <<handler, context, reader, body, client, reqClosed>>

(* case <-context.Done() *)
SeeDone == /\ WatcherMoves("select", "marking")
           /\ ctxDone
           /\ UNCHANGED <<handler, context, updates, reader, body, client, reqClosed>>

(* Sets the flag without cancelling the context. *)
TimerFires_SlipFlagOnly ==
  /\ WatcherMoves("select", "timedOut")
  /\ UNCHANGED <<handler, context, updates, reader, body, client, reqClosed>>

(* case <-time.After: an update may be waiting as well, the select picks    *)
(* any case that is ready.                                                  *)
TimerFires == /\ WatcherMoves("select", "timedOut")
              /\ ctxDone' = TRUE
              /\ UNCHANGED <<handler, cancelled, updates, reader, body, client, reqClosed>>

(* After the 10 ms nap the loop goes round once more. *)
TimedOut == /\ WatcherMoves("timedOut", "select")
            /\ cancelled' = TRUE
            /\ UNCHANGED <<handler, ctxDone, updates, reader, body, client, reqClosed>>

(* Leaves the select but not the loop. *)
MarkCancelled_SlipLoop ==
  /\ WatcherMoves("marking", "select")
  /\ cancelled' = TRUE
  /\ UNCHANGED <<handler, ctxDone, updates, reader, body, client, reqClosed>>

MarkCancelled == /\ WatcherMoves("marking", "closing")
                 /\ cancelled' = TRUE
                 /\ UNCHANGED <<handler, ctxDone, updates, reader, body, client, reqClosed>>

(* Leaves the stream to the handler. *)
CloseReader_SlipSkip ==
  /\ WatcherMoves("closing", "gone")
  /\ UNCHANGED <<handler, context, updates, reader, body, client, reqClosed>>

CloseReader == /\ WatcherMoves("closing", "gone")
               /\ body' = IF reader = "set" THEN "closed" ELSE body
               /\ UNCHANGED <<handler, context, updates, reader, client, reqClosed>>

Watch == TakeUpdate \/ SeeDone \/ TimedOut \/ MarkCancelled \/ CloseReader

-----------------------------------------------------------------------------
(* The handler. *)

HandlerMoves(from, to) == handler = from /\ handler' = to

(* It does nothing else that others see. *)
HandlerOnly == UNCHANGED <<watcher, context, updates, reader, body, client, reqClosed>>

(* client.Do returns an error, of the origin's making *)
DoFails == HandlerMoves("doing", "closingRequest") /\ HandlerOnly

(* Sends the request without the call's context. *)
DoAborts_SlipNoContext == FALSE /\ UNCHANGED vars

(* or because the context is cancelled, *)
DoAborts == ctxDone /\ DoFails

(* or for want of a connection: then the transport closes the request body  *)
(* in the caller's goroutine, and that drains it,                           *)
DialFails == /\ HandlerMoves("doing", "failing")
             /\ ~reqClosed /\ reqClosed' = TRUE
             /\ UNCHANGED <<watcher, context, updates, reader, body, client>>

DialReturns == UploadOver /\ HandlerMoves("failing", "closingRequest") /\ HandlerOnly

(* or a response. *)
DoSucceeds == /\ HandlerMoves("doing", "checking")
              /\ body' = "open"
              /\ UNCHANGED <<watcher, context, updates, reader, client, reqClosed>>

CheckAfterDo == /\ \/ cancelled /\ HandlerMoves("checking", "closingRequest") /\ body' = "closed"
                   \/ ~cancelled /\ HandlerMoves("checking", "storing") /\ UNCHANGED body
                /\ UNCHANGED <<watcher, context, updates, reader, client, reqClosed>>

(* An event stream goes on to its first update, anything else to the copy. *)
StoreReader == /\ HandlerMoves("storing", "opening") \/ HandlerMoves("storing", "copying")
               /\ reader' = "set"
               /\ UNCHANGED <<watcher, context, updates, body, client, reqClosed>>

(* Sends without looking whether there is room. *)
SendUpdate_SlipUnbounded ==
  /\ HandlerMoves("opening", "flushingHeader") \/ HandlerMoves("sending", "reading")
  /\ updates' = updates + 1
  /\ UNCHANGED <<watcher, context, reader, body, client, reqClosed>>

(* updateChan <- CallTimeout blocks while the channel is full. *)
SendUpdate ==
  /\ HandlerMoves("opening", "flushingHeader") \/ HandlerMoves("sending", "reading")
  /\ updates < Capacity
  /\ updates' = updates + 1
  /\ UNCHANGED <<watcher, context, reader, body, client, reqClosed>>

(* Flush, before the first event and after each: its errors are ignored. *)
Flush == /\ \/ HandlerMoves("flushingHeader", "reading")
            \/ HandlerMoves("flushing", "testing")
         /\ HandlerOnly

(* A line: those already buffered arrive even from a closed body. *)
ReadLine == HandlerMoves("reading", "writing") /\ HandlerOnly

(* The stream ends, or has a line that the buffer does not hold. *)
ReadEnds == HandlerMoves("reading", "closingRequest") /\ HandlerOnly

ReadAborts == BodyFails /\ ReadEnds

(* The empty line ends an event.  (One without content is not logged.) *)
WriteLine == /\ \/ HandlerMoves("writing", "reading")
                \/ HandlerMoves("writing", "logging")
                \/ HandlerMoves("writing", "flushing")
             /\ HandlerOnly

(* logEventResponse returns, or panics, which unwinds the handler.          *)
EventLogged == /\ \/ HandlerMoves("logging", "flushing")
                  \/ HandlerMoves("logging", "closingRequest")
               /\ HandlerOnly

CheckAfterEvent == /\ \/ cancelled /\ HandlerMoves("testing", "closingRequest")
                      \/ ~cancelled /\ HandlerMoves("testing", "sending")
                   /\ HandlerOnly

(* io.Copy reads a piece of the body and writes it, *)
CopyRead == HandlerMoves("copying", "copyWriting") /\ HandlerOnly

CopyWrite == HandlerMoves("copyWriting", "copying") /\ HandlerOnly

(* until the body ends. *)
CopyEnds == HandlerMoves("copying", "closingResponse") /\ HandlerOnly

CopyAborts == BodyFails /\ CopyEnds

(* Writes to a dropped connection fail. *)
WriteFails == /\ dropped
              /\ \/ HandlerMoves("writing", "closingRequest")
                 \/ HandlerMoves("copyWriting", "closingResponse")
              /\ HandlerOnly

(* The deferred Close of the response stream drains it first. *)
CloseResponse == /\ HandlerMoves("closingResponse", "closingRequest")
                 /\ body' = "closed"
                 /\ UNCHANGED <<watcher, context, updates, reader, client, reqClosed>>

DrainAborts == BodyFails /\ CloseResponse

(* The deferred Close of the request stream: nothing to do if the flag is   *)
(* set.  (That the transport may set it between the test and the handler's  *)
(* own write makes no difference here: the handler drains all the same.)    *)
CloseRequest == /\ \/ reqClosed /\ HandlerMoves("closingRequest", "cancelling")
                   \/ ~reqClosed /\ HandlerMoves("closingRequest", "draining")
                /\ reqClosed' = TRUE
                /\ UNCHANGED <<watcher, context, updates, reader, body, client>>

(* Once the flag is set nobody else can free the handler: it reads the      *)
(* client's upload to the end.  Neither the timer nor the context ends that *)
(* read.                                                                    *)
DrainRequest == UploadOver /\ HandlerMoves("draining", "cancelling") /\ HandlerOnly

(* The deferred cancelFn. *)
Cancel == /\ HandlerMoves("cancelling", "returned")
          /\ ctxDone' = TRUE
          /\ UNCHANGED <<watcher, cancelled, updates, reader, body, client, reqClosed>>

(* What the handler does without the help of origin, client or modules. *)
Handle == \/ DoAborts \/ DialReturns \/ CheckAfterDo \/ StoreReader \/ SendUpdate
          \/ ReadAborts \/ CheckAfterEvent \/ CopyAborts \/ WriteFails
          \/ (dropped /\ Flush) \/ DrainAborts \/ CloseRequest \/ DrainRequest \/ Cancel

(* What depends on the origin, *)
Origin == \/ DoFails \/ DialFails \/ DoSucceeds \/ ReadLine \/ ReadEnds
          \/ CopyRead \/ CopyEnds \/ CloseResponse

(* on the client that takes what is written to it, *)
ClientTakes == WriteLine \/ Flush \/ CopyWrite

Environment == Disconnect \/ NoticeDisconnect \/ UploadEnds \/ TransportCloses

(* and on the modules that EventLogged writes to. *)
Next == Handle \/ Watch \/ TimerFires \/ Origin \/ ClientTakes \/ EventLogged \/ Environment

Spec == Init /\ [][Next]_vars

(* Goroutines that can run do.  The select chooses at random among its      *)
(* ready cases, so it does not pass over the cancelled context for ever.    *)
(* The timer need only fire when no update comes in.  A body that fails has *)
(* no more to give than was buffered.  Nothing is assumed of the origin, of *)
(* the client or of the modules.                                            *)
FairSpec == /\ Spec
            /\ WF_vars(Handle) /\ SF_vars(ReadAborts \/ CopyAborts)
            /\ WF_vars(Watch) /\ SF_vars(SeeDone)
            /\ WF_vars(updates = 0 /\ TimerFires)

-----------------------------------------------------------------------------
(* The handler waits for ever: the channel is full and its reader has gone. *)
Wedged == handler = "sending" /\ updates = Capacity /\ watcher = "gone"

(* Its waits that neither the timer nor the cancelled context ends: for a   *)
(* client that does not take what is written (the server sets no write      *)
(* timeout),                                                                *)
WaitsForClient ==
  handler \in {"flushingHeader", "writing", "flushing", "copyWriting"} /\ ~dropped

(* for a client that does not end its upload,                               *)
WaitsForUpload == handler \in {"failing", "draining"} /\ ~UploadOver

(* and in logEventResponse, for its turn or in the write to a module.       *)
WaitsInLogger == handler = "logging"

(* None of them lasts for ever. *)
OthersMove == []<>~WaitsForClient /\ []<>~WaitsForUpload /\ []<>~WaitsInLogger

(* After a disconnect that was noticed, or a timeout, the handler returns,  *)
(* if client and modules let it; or the watcher left with the channel full  *)
(* while the handler was past its test of cancelled.  There is no other     *)
(* way to hang: neither the origin nor its body can hold the handler.       *)
DoneReturns == OthersMove => (ctxDone ~> handler = "returned" \/ Wedged)

(* A call whose origin goes quiet is ended by its timer, wherever it is     *)
(* waiting: for the response, for the next line of a stream, for the rest   *)
(* of a body.  What comes in meanwhile is on its way to the client.         *)
QuietCallEnds ==
  OthersMove =>
    (handler \in {"doing", "reading", "copying", "closingResponse"} ~>
       handler \in {"writing", "copyWriting", "returned"})

(* No watcher outlives its call. *)
WatcherEnds == handler = "returned" ~> watcher = "gone"

(* The body of a response that the handler stored before the watcher looked *)
(* is closed once the call is over: an event stream has nobody else to      *)
(* close it.                                                                *)
WatcherClosesBody ==
  (reader = "set" /\ ctxDone /\ watcher # "gone") ~> body = "closed"
============================================================================
