# rpc-snooper: TLA+ development

rpc-snooper is a proxy between Ethereum clients: it forwards HTTP calls to one
origin and logs them, and lets *hook modules*, registered over WebSocket
connections, watch the calls.  Forwarding must never wait for logging, the log
must be in order although every line of it is written by a goroutine of its
own, and clients, origin and hook connections come and go at any time.  That is
what this development is about.  All paths below are relative to the
repository's root (`src/` here).

## 1. Inventory

| component | state it keeps | operations | interacts with |
|---|---|---|---|
| ordered processor (`snooper/ordered_processor.go`) | counters, active numbers, waiter channels, stop channel | GetNextSequence, WaitForSequence, CompleteSequence, Stop | called by every logging goroutine; Stop by Shutdown |
| proxy call (`snooper/proxycall.go`) | per call: context, deadline, `cancelled`, `streamReader`, `updateChan`, `reqSentChan`, `callDuration`, data map | processProxyCall, processEventStreamResponse, processCallContext, SetData/GetData | HTTP server and client, logging, flow flags |
| call logging (`snooper/logging.go`) | tee buffer and `closed` flag per stream | logReadCloser.Close, logRequest, logResponse, logEventResponse, decompressBody | ordered processor, module manager, data map |
| module manager (`modules/manager.go`) | modules, filters, connections, per connection `modules`, `done`, write lock | HandleWebSocket, handleConnection, (un)registration, ProcessRequest, ProcessResponse | hook modules, filter engine, WebSocket peers |
| filter engine (`modules/filters.go`, `types/types.go`) | compiled JSON queries | CompileFilter, ShouldProcess…Filter | module manager |
| hook modules (`modules/builtin/`) | a counter; data extracted per call | OnRequest, OnResponse | connection's SendMessage, call data; the xatu module: router |
| flow control API (`snooper/api.go`) | flowEnabled, flowBlocked | start, stop, block, unblock, status | every call reads the flags once |
| servers and shutdown (`snooper/snooper.go`) | | NewSnooper, StartServer…, Shutdown | everything |
| execution metadata fetcher (`snooper/execution_metadata.go`) | metadata, ready, done, wait group | Start, Stop, fetch with retries, refresh loop, Update | xatu publisher; client-version handler |
| xatu service, router, publisher (`xatu/`) | started, sinks, handlers | Start, Stop, Publish, RouteRequest | sinks (a library), handlers |
| xatu event handlers (`xatu/engine_*.go`) | pending requests by call number | HandleRequest, HandleResponse, cleanupStale | publisher, metadata fetcher |
| hook client (`cmd/snooper-hook`) | pending requests | sendRequest, handleMessages | module manager, by WebSocket |
| truncation, hex encoder | none | pure functions over strings and readers | logging (the encoder has no caller) |
| metrics, formatter, configuration, command line | | | wiring and presentation |

What makes the system hard:

* every call has up to five goroutines of its own: handler, watcher, the HTTP
  transport's, a request logger, a response logger; they share plain fields
  (`closed`, `cancelled`, `streamReader`, `callDuration`, the data map) and are
  kept apart only by channels, by the order of deferred calls and by the
  ordered processor;
* the ordered processor gives up on order after five seconds, and its mutex,
  channels and timers race each other;
* a logger may panic, fail to decompress, or hang in a WebSocket write;
* connections drop between any two steps of a registration or a dispatch.

What makes each component correct: *processor* – turns in the order of the
numbers, no lost or double wake-up, everyone gets through; *call* – it ends when
it is cancelled or quiet, and its goroutines with it; *logging* – a response
behind its request, data and duration read after they are written, nobody
waiting for a signal that cannot come; *manager* – no module without a
connection that will remove it, filters honoured; *flow* – no call admitted
after stop; *fetcher, xatu* – stopped means stopped, no event without metadata,
each response matched with its request.

`PROJECT.json` lists the hazards at their lines and the properties that cover
them.

## 2. Plan

1. **Core (done):** OrderedProcessor with its abstract TurnQueue; CallLogging,
   composed with the queue; LoggedCalls, the same loggers on the processor;
   CallContext; ModuleManager; proofs.
2. **Event publishing (done):** MetadataFetcher, composed with the service, the
   publisher and the handlers in XatuEvents.
3. **Hook sessions (done):** MessageChannel, implemented by HookSession (write
   lock, announced binary frames, the read loops at both ends, the client's
   registration and its end).
4. **What a call carries (done):** Filters and BodyViews as pure operators;
   CallPath puts them between the flow control and the log, the modules and the
   metrics.
5. **Proofs (done):** an inductive invariant of each component, three
   refinements; every safety property of a run is a theorem.
6. **Left:** an abstract ordered log, implemented by CallLogging; more of
   `CallContext`'s safety (when the stored stream has somebody left to close it)
   and of `MetadataFetcher` as theorems.

## 3. Modules

| module | what it is | code |
|---|---|---|
| `TurnQueue` | abstract: tasks draw tickets, enter when all before them have left, or overtake | what the processor promises |
| `OrderedProcessor` | the processor, one action per critical section and per case of the select | `ordered_processor.go` |
| `LoggingTasks` | the goroutines that log, by name | `logging.go` |
| `CallLogging` | handler, transport, both closers of the request stream, all loggers of calls, over an instance of `TurnQueue` | `proxycall.go`, `logging.go` |
| `LoggedCalls` (`MCLoggedCalls`) | the steps of `CallLogging` joined with those of `OrderedProcessor`; implements `CallLogging` | the three files together |
| `CallContext` | handler and watcher of one call, client and origin | `proxycall.go` |
| `ModuleManager` (`MCModuleManager`) | connections, registry, dispatches | `manager.go`, `builtin/` |
| `MetadataFetcher` | Start, the refresh loop, Update and Stop, with upgrades of the execution client | `execution_metadata.go` |
| `XatuEvents` (`MCXatuEvents`) | service, sinks, handlers and publishing, extends MetadataFetcher | `xatu/`, `builtin/xatu.go`, `snooper.go` |
| `MessageChannel` | abstract: whole messages, in order, the last ones perhaps never | what the control protocol promises |
| `HookSession` | one session of the hook client with the manager's end of its connection | `cmd/snooper-hook/main.go`, `manager.go` |
| `Filters` | what a filter's JSON becomes and which requests and responses it fits | `filters.go`, `parseFilter` |
| `BodyViews` | what of a body is printed and what is given to modules | `truncate.go`, `logging.go` |
| `CallPath` (`MCCallPath`) | calls between the flow control and the log, one module and the metrics | `api.go`, `proxycall.go`, `logging.go`, `builtin/`, `metrics.go` |
| `…Proofs` | theorems and proofs of the module they are named after | |

How state and steps correspond to the code:

* **OrderedProcessor.**  The code holds `op.mutex` for the whole of
  GetNextSequence, CompleteSequence and the first half of WaitForSequence, so
  each is one action.  The select is the place `"waiting"` with an action per
  case; its timer case needs the mutex again and is two actions (`TimerFires`,
  `Expire`), so that a waiter may be closed in between.  `"turn"` and `"late"`
  are the same place in the code (between WaitForSequence and CompleteSequence);
  they record which case let the task through.  `closed` is the set of numbers
  whose channel was closed.  A task is used once: a goroutine draws one number.
  `Skipped` gives the place where the loop of skipCompletedSequences stops,
  `Woken` the waiters it closes on the way.  `Stop` can come at any time.
* **CallLogging.**  `closer` follows the two callers of the request stream's
  Close: the transport, from the moment it has the request, and the handler's
  deferred call.  The flag is tested in one step and set in another because no
  lock or channel orders the two callers.  `closed` is a Go data race, and the
  interleavings of single reads and writes are its outcomes for a boolean.
  Close sets the flag (`MarkClosed`), drains and closes the stream, and only then
  starts a request logger, named after the closer (`CloseRequest`): while one
  closer drains, the other finds the flag set and does nothing, so a handler may
  return before any request logger exists.  A logger's ticket and stage are
  `TurnQueue`'s, which `OrderedProcessor` is proved to implement.  `GiveUp` is a
  return before the section (decompression, Stop), `Complete` a section that
  ends, `Panic` one that panics: the deferred CompleteSequence runs, the signal
  on `reqSentChan` does not.  Event loggers run in the handler's goroutine.
  The watcher appears as the freedom of `DoFails`, `CopyEnds`, `StreamEnds`.
  What a logger does besides its calls of the processor is in `Begins`, `Ends`
  and `Collapses`.
* **LoggedCalls.**  The tasks of the processor are the loggers.  A step is one
  of a call, one of the processor's inside WaitForSequence, or a call of
  GetNextSequence or CompleteSequence together with `Begins`, `Ends` or
  `Collapses`; `Stop` comes at any time.  Nothing is modelled twice: the actions
  are those of the two modules, brought in by INSTANCE.  `CallLogging` sees the
  stages that `Stage` makes of the processor's `pc`.  `CompleteUnlogged` is the
  deferred CompleteSequence after a return without a section, which a stalled
  logger still gets to.
* **CallContext.**  `ctxDone` is the cancelled context, whoever cancelled it.
  `body` is the response body; reading it fails once the context is cancelled
  or the body closed (`BodyFails`, the HTTP client's behaviour).  A server only
  notices a dropped connection after the request body is read
  (`NoticeDisconnect`).  `dropped` is that connection's end, upon which writes
  and reads of it fail.  Reading a line or a piece of the body, writing it to
  the client, logging an event and flushing are places of their own, because
  each waits for somebody else: the origin, the client (the server sets no
  write timeout), the modules.  Close of the request stream sets the flag
  (`CloseRequest`), then drains the upload (`DrainRequest`); where the transport
  gets no connection it does so in the handler's goroutine (`DialFails`).
  `cancelled` and `streamReader` are unsynchronised; a read sees the value of
  some earlier write, which the interleavings give; torn reads of the interface
  value are not modelled.
* **ModuleManager.**  The manager's lock is held per map access, so a dispatch
  is a snapshot (`Start`) followed by one step per module with a look-up of its
  filters at that moment.  `Register` and `FinishRegister` are separate: between
  them the module is in the registry and not in `connMgr.modules`.  A filter is
  the set of calls it accepts.  `sent` and `rejected` are history variables.
  Event streams are calls whose responses do not wait for the request.
* **MetadataFetcher.**  A version is the number of the upgrade that brought it,
  0 is none.  An answer is taken when the execution client gives it (`Answered`)
  and stored later (`Store`): in between it may grow old.  `tick` is the
  ticker's channel, of capacity one.  `Launch` is what Start does after the
  first fetch; Stop may already have returned then.  The back-off is left out,
  as delays have no length.  The module has no specification of its own: who
  calls Start, Update and Stop is in XatuEvents.
* **XatuEvents.**  `pending` stands for the maps of both handlers, which have
  the same code (each module's lines are mapped once, to one or the other);
  `OfSameHandler` is one map.  `aged` are requests older than 30 seconds.  The
  publisher's lock is held from `Publish` to `EndPublish` by readers and in
  `"stopping"` by its Stop.  `held` is `p.sinks`, which Stop takes down one by
  one; nobody sees it before Stop is done.  The service's lock is what keeps
  `ServiceStop` out while the server is `"starting"`.  Loggers run one at a
  time unless they are late; the model lets all calls run at once.

* **HookSession.**  The connection is the sequence `toClient` of frames, with
  room for `Capacity` of them; a write waits for room.  `place` follows each
  call of SendMessage or SendMessageWithBinary: one step takes `writeMu`, one
  writes each frame.  A binary frame carries nothing that names its message, so
  the client's `announced` is all that pairs them (`number` is history and no
  action looks at it).  `Unencodable` events are those with extracted data that
  `encoding/json` refuses: `WriteJSON` of the WebSocket library then closes a
  frame without content.  `main`, `reader` and `CloseWhenCancelled` are the
  client's three goroutines; `pending` and `answered` are the entry of its only
  request and the channel in it.  `Interrupt` is a signal, `SnooperEnds` the end
  of the other process, `Cut` a network that drops everything and tells nobody.
  The manager reads one request from this client, which is all it sends.
* **Filters, BodyViews.**  A list is the set of its entries, a content type the
  set of the strings that filters and loggers look for in it, a query its
  results for each kind of data (what gojq computes is a parameter).  A body is
  its kind, its size and one string in it; of the string the length matters and
  whether it looks like hex.  The two ways of cutting hex, of bytes before
  encoding and of characters after, are modelled as the code has them.
* **CallPath.**  `flowEnabled` and `flowBlocked` are the API's state; each
  request to the API, and the check of a call, is one action because each holds
  the flow lock throughout.  `history` records the API's requests, `window` the
  moments of a call's arrival and verdict.  Each logger is one action: inside
  the processor's section nothing else of the call's data is written, and how
  the loggers of a call may interleave is CallLogging's; a response is logged
  behind its request as `ResponseDue` has it, an event whenever it comes.  One
  module with one configuration is chosen at the start, because modules do not
  affect each other except by errors (ModuleManager).  `data` is the call's data
  map.  Loggers that panic, and lateness, are left to CallLogging.

Definitions named **`X_Slip…`** are X with a plausible mistake (a dropped guard,
a missing reset, a swapped order).  No specification uses them.  Put in the
place of X, each makes a property fail in the run of that property
(`mutants` in `PROJECT.json`), which shows that the property can tell.

## 4. Runs

| run | instance | question | result |
|---|---|---|---|
| `processor_wakes` | 4 tasks | turns in order, wake-ups, refinement of `TurnQueue`; completion without the timer when nobody hangs, and with it when some do | holds |
| `processor_timeout` | 2 tasks | does *true* mean *reached* | violated |
| `call_logging` | 1 call, any kind of answer, 2 events, a request logger may hang, on the processor itself | refinement of `CallLogging`; order of the log, data, waiting | holds |
| `call_log_order` | 1 plain call | no request line behind the response line | violated |
| `call_context` | updateChan of 5; client, origin and event loggers as they please | does a call end, with its goroutines and body | holds |
| `module_manager` | 2 connections, 2 modules, a request with its response | registry, filters, clean-up | holds |
| `manager_failure` | the same, a stream | is a module's failure its own | violated |
| `hook_session` | 4 events, 2 with a body, 1 unencodable; room for 2 frames | pairing, refinement of `MessageChannel`; the answer, blocked writers, the end of the session | holds |
| `call_path` | 1 call, 2 requests to the API, 9 configurations of a module, 3 of the snooper | flow control, filters, what is logged, sent and counted | holds |
| `filter_config` | the same | do criteria at the top level of a configuration count | violated |
| `xatu_events` | 2 calls of a handler, 1 for the version, 2 sinks, 1 upgrade | events, clean-up, metadata, shutdown | holds |
| `xatu_metadata` | the same, 1 sink | does every event carry the metadata | violated |

**Bounds.**  Four tasks are the smallest number with one in its section, one
completed out of order behind it, one waiting and one drawing a number.  One
call in `LoggedCalls` has up to five loggers (two request loggers, a response,
two events), which draw, wait, time out and complete in every order; calls meet
only in the processor, and what follows for any number of them is proved.  `updateChan` has its real capacity.  Two connections with one module
each, or one with both, give every order of registration, mutual
unregistration and teardown; the module numbers are bounded by `MaxModules`,
named in the guards.  Two calls of one handler are what a clean-up needs; one
upgrade (`MaxVersion` 2) makes an answer old; of two sinks the second may fail
to start, or to stop, after the first.  In `hook_session` two events with a
body may be mixed up with each other, one without a body comes between them,
one breaks the connection; with room for two frames a message with a body fills
it and the next write blocks.  In `call_path` the threshold has its real value
256: bodies of 127 to 129 bytes and hex values of 256 to 258 characters lie on
both sides of the two limits.  Routes are nested, so that one block may hide
the lifting of another; two requests to the API (`MaxAsked`) are stop and start,
or block and unblock, around a call's check.  The configurations have every
criterion with both verdicts, entries of another JSON type, queries that fail
before and after a result, and the hook client's own example, with criteria
where the parser does not look for them.
Theorems (section 6) remove the bounds for the safety
properties they cover.

**CHECK_DEADLOCK FALSE** everywhere: all tasks done, or the call over, is the
normal end; nobody being stuck is stated by the leads-to properties.

### Disagreements with comments and tests

* `TrueMeansReached`: WaitForSequence's comment says true means the sequence was
  reached; after five seconds it returns true regardless, and all callers go
  ahead out of order.
* `RequestLogsFirst`: the transport's and the handler's Close may both pass the
  unprotected test of `closed`; the second request logger logs after the
  response, and its close of `reqSentChan` panics (recovered).
* `FailureIsolated`: a failed send is returned as an error, and the error ends
  the dispatch for the modules after it.
* `PublishedWithMetadata`: a handler puts the metadata in its event, then calls
  Publish, which tests it again; a first fetch that ends in between lets an
  event without metadata pass.
* `FiltersAsDocumented`: the hook client's README registers a request_snooper
  "with filtering configuration" (`src/cmd/snooper-hook/README.md:42`) by
  criteria at the top level of the configuration.  `parseFilterConfig` looks for
  `request_filter` and `response_filter` only: the criteria are ignored, and the
  module is sent everything.

Three more, which have no run of their own:

* The response filter, "Response status codes to filter on (for responses)"
  (`src/types/types.go:57`): response_snooper and response_tracer set
  `wants_response` on every request they see, and that is looked at before the
  response filter (`manager.go:239`), which therefore never applies to them for
  these calls.  `ResponseAccepted`, in `ModuleManager` and in `CallPath`, has
  that order.
* The metrics "request size in bytes" and "response size in bytes"
  (`src/metrics/metrics.go:46`, `:51`): `collectMetrics` makes a request context
  without a body, so the first is always 0, and the second counts the hex text of
  a binary body, twice its bytes.  `CollectMetrics` does so; `ModulesUnaffected`
  asks the response's size of the metrics for textual bodies only, and says
  nothing of the request's.
* `--truncate`, "Truncate large hex values in log output"
  (`src/cmd/snooper/main.go:218`): an event of a stream that does not parse is
  printed as it is.  `LogAsConfigured` exempts such events.

## 5. Fairness

* A goroutine that can run is run (weak fairness per goroutine).  This is the Go
  scheduler's.
* `OrderedProcessor.FairSpec` says nothing of the timer.  `EveryoneCompletes`
  is an implication whose premise is that nobody hangs in its section
  (`NobodyStalls`): it follows from the wake-ups alone.  `OthersComplete` has the
  premise that the timer fires and that the tasks that may stall are the only
  ones that hang (`SomeStall`).
* `LoggedCalls.FairSpec`: each goroutine of a call runs, in the call and in the
  processor; waits end by turn, timer or stop.  Clients take what
  is written to them and end their uploads, and origins end their answers: what
  happens when they do not is `CallContext`'s.  A stalled logger's section may last for ever
  (`CompleteSequence` is no part of its fairness), and Shutdown need not come.
* `CallContext.FairSpec`: the select chooses uniformly among its ready cases, so
  it does not pass over a cancelled context for ever (strong fairness of
  `SeeDone`); the timer must fire only while no update is waiting; a body that
  fails has no more to give than was buffered (strong fairness of `ReadAborts`
  and `CopyAborts`).  Nothing is assumed of client, origin and modules: what
  waits for them has no fairness.  `DoneReturns` and `QuietCallEnds` have the
  premise `OthersMove`: the handler does not wait for ever for a client that does
  not read (`WaitsForClient`), for one that does not end its upload
  (`WaitsForUpload`), or in an event logger (`WaitsInLogger`).
* `ModuleManager.FairSpec`: the read on a dropped connection fails, and the
  connection's goroutines run.  A write to a dropped connection fails in the
  end, so the answer to a registration does not hold up the read loop for ever.
  Dispatches have no fairness.
* `HookSession.FairSpec`: the goroutines of both ends run, the read loops take
  what arrives, the client's ten seconds pass.  The end of a process closes its
  connection, and the other end notices, unless the network was cut; a write
  into a connection that nobody empties may block for ever, and the properties
  say when.
* `XatuEvents.FairSpec`: goroutines run, the ticker ticks, sinks take their
  calls in bounded time.  The execution client answers again and again and some
  answers are stored (strong fairness; otherwise metadata cannot be fresh, and
  a fetch ends by its timeout in any case).  Shutdown, upgrades and calls are
  free.

What the liveness properties concede is as telling as what they promise.
`DoneReturns` names the one way in which the handler and its own watcher leave
a call hanging, `Wedged` (updateChan full and the watcher gone after the
handler's test of `cancelled`), and, in its premise, the three waits for others
that neither the timer nor the cancelled context ends: in a write to the
client, in the drain of its upload, and in a module's write inside an event
logger.
`EveryResponseLogged` names the one way a response logger waits for ever: the
request loggers panicked or hang.  `WatcherClosesBody` speaks of a stream stored
before the watcher looked; one stored later stays open until the client's
transport drops it.

## 6. Proofs

All checked by TLAPS, for every value of the constants.

* **OrderedProcessorProofs.**  None of `TurnOrder`, `NoLostWakeup`,
  `NoDoubleClose` is inductive: each depends on numbers being unique and held
  numbers being active and not behind the frontier.  `IInv` is the type
  invariant with `Numbering`, `FrontierNotPastHeld`, `TurnReached`,
  `ChannelKept` and `ChannelSides` (closed channels at or behind the frontier,
  channels in the map ahead of it); one lemma per action.  `TurnOrder` follows:
  a turn is at or before the frontier, and everything held is not behind it.
  `Refinement` maps every step to a step of `TurnQueue` or to a stutter, with
  `pc` mapped to stages by `StageOf` – `Stop`, the timer's first half and the
  return without a turn change nothing there.
  One lemma per action (`GetNextSequenceTakes`, `WaitForSequenceEnters`, …), to
  be cited where the processor is put to use.
* **CallLoggingProofs.**  `QInv` is what the queue of turns keeps whatever its
  users do: unique tickets, and a turn has only finished loggers ahead of it;
  hence turns are exclusive (`TurnAlone`).  `IInv` adds how a logger's place and
  its stage belong together (`Linked`), that a request logger starts at the end
  of its Close and a Close is pending before (`CloseFirst`), that the response
  logger starts after the copy (`CopyFirst`), and that the signal was given by a
  logger that ended (`SignalledByEnded`).  Assumption: the names of events are
  none of "transport", "handler", "response".
  `SignalsKept` is the part of `EveryResponseLogged` that is safety: when the
  handler has returned, the signal is given, or a request logger is still to
  give it or has panicked, or a closer has set the flag and still drains: the
  handler may have skipped its own Close for it, and no request logger exists
  yet.  It rests on closers draining or being done only with the flag set
  (`Closes`), on the flag set only by a Close that has started a logger or still
  drains (`ClosedStarts`), and on loggers that end by signalling
  (`EndedSignalled`).
* **LoggedCallsProofs.**  What was proved of the two parts is put together: the
  invariant is `OrderedProcessorProofs`' and `CallLoggingProofs`' (`Kept`), and
  no other is needed.  A step of the stack is one of the processor or leaves it
  alone (`NextProcesses`), so the processor's invariant is kept; with it, and
  with `Linked`, the step is one of `CallLogging` or a stutter (`NextMaps`: the
  processor only lets a logger enter, overtake or leave that is logging).
  `StackIsCallLogging` then hands every theorem of `CallLogging` down to the
  processor with its channels and timers: `Refinement`, `DataRacesNeedLate`,
  `ResponsesAfterRequests`, `DurationsTaken` and `SignalsKept`.  The lemmas `Same…` say that a
  module brought in by two INSTANCEs is the same one.
* **ModuleManagerProofs.**  `NoOrphans`, `RequestFilterHonoured` and
  `RejectedNotAnswered` for any connections, calls and modules.  `IInv` adds
  that the two maps have the same keys (`Entered`, or a registered module might
  be passed an unfiltered request), that a dispatch knows only numbers already
  given out (`KnownOnly`, or a later registration might change a module it has
  sent to), and that a request is decided once per module, its rejection
  remembered, and over before its response starts (`DecidedOnce`).  Steps of
  connections leave the dispatches alone (`DispatchesAlone`) and the other way
  round (`MapsAlone`, `WithinIInv`), so each lemma argues about one side.

* **CallContextProofs.**  `TypeOK`, which bounds `updateChan`; that the watcher
  leaves only with the context cancelled and the flag set (`WatcherTells`); that
  a handler that has returned has set the flag of its request stream and
  cancelled the context (`CallLeavesClean`), which is what ends the watcher.  (It
  has drained that stream only if it set the flag itself; otherwise the transport
  may still be at it.)
* **HookSessionProofs.**  That a client pairs bodies and messages rightly hangs
  on every frame in the connection: `IInv` says which frame may follow which
  (`Follows`), what the last one allows the writers (`LastFits`) and the first
  one the reader (`HeadFits`), and that the messages still to come continue what
  was handled (`FrameFits`, `Quiet`).  From it `Refinement` maps a frame that
  completes a message to the channel's Send or Receive and every other step to a
  stutter.  `AnswerIsKept` needs that the request is entered before it is sent.
* **CallPathProofs.**  `FlowRight` by an invariant that ties the flags and the
  blocked routes to the last requests in `history`; a verdict keeps its
  moment, as `history` only grows.  `LogRight` by one that keeps each line tied
  to the message its call still carries; the arithmetic is in `HexCutAlike`:
  cutting bytes above half the threshold and cutting characters above it treat
  the same bodies alike (this needs an even preview and the room
  `PreviewAssumption` states).  `CarriedAssumption` gives requests, responses
  and events their types.
  `FilterMeansItsJSON` compares, for any JSON and any request, what filters.go
  decides on the filter parseFilter made with what the JSON says; `FiltersRight`,
  for configurations without criteria outside their filters, carries it through a run by `FilterInv`: what was sent for a request was sent
  once it was logged, and by the verdict of the registered filter.
  `ModulesRight` rests on `ModuleInv`, which is stronger than the property in
  two ways: it speaks of the call data too, in which a request's extracts wait
  for the response (`DataRight`), and it says of everything sent and counted
  that the message it speaks of is the call's for good.
  `QueriesAssumption`: a query gives for each body that decodes a sequence of
  results, and for null none that has a value of the body (there is none);
  `MethodAssumption`: a request has a method, as the HTTP server takes no other,
  and the empty string is in every content type.
* **XatuEventsProofs.**  `TypeOK` and the four safety properties of service,
  handlers and fetcher.  `Once` adds where a call may stand while its request is
  pending, `Running` that only publishers under way have sinks left and that
  there are none while the service stops, `Stopping` that the refresh loop
  exists only after Start's end and gets no tick once Stop has returned.

Only model-checked: everything under fairness (`EveryoneCompletes`,
`OthersComplete`, `EveryResponseLogged`, `HandlersReturn`, `DroppedCleaned`,
`MetadataFresh`, `ShutdownEnds`, `SessionEnds`, `WritersReturn`, and the
liveness properties of `CallContext`), which is out of the prover's reach.  That
the refinements preserve fairness is not claimed either: `call_logging` checks
the leads-to properties on the processor itself.

## 7. Not modelled

* What lines of the log look like, header and URL handling, the labels of the
  metrics, the fields of published events: presentation.
* Command line and configuration (flags, wiring, validation), the password
  check, the set-up of the HTTP servers: no state that interacts.
* The hex encoder and `ConnectionManager.WaitForResponse` with its pending
  requests: nothing calls them.  The manager's handling of binary frames that a
  client sends: the hook client sends none.
* A second Shutdown, which would panic: only tests call it, and once.
* A sink that fails to start leaves the ones before it running, and no one stops
  them; this is modelled, but StartServer returns the error and the process
  ends, so no property claims otherwise.
* Time is not measured: a timer may fire whenever it is armed.

Worth knowing, without a statement in the repository that a run could refute:

* The sizes of binary bodies given to modules are those of their hex text, twice
  the bytes; modules are given no bytes of a stream's events.
* A module that is unregistered while a request is dispatched may be passed it
  although its filter rejects it: the filter is looked up, and gone.
  `RequestFilterHonoured` speaks of registered modules.
* `CallPath` leaves out that loggers give up when the processor is stopped;
  `LoggedCalls` has it.
* An event of a stream may be handled before its request is logged; it then
  carries nothing of the request.
* An event whose data cannot be encoded ends the hook client's session, as the
  client's read loop takes the frame without content for an error.
