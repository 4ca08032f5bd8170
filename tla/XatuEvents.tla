---------------------------- MODULE XatuEvents ----------------------------
(***************************************************************************)
(* src/xatu with src/modules/builtin/xatu.go: the requests that a handler  *)
(* matches are kept until their response comes, and then published to the  *)
(* sinks, provided that the metadata of the execution client is known.     *)
(* StartServer starts the service and the fetcher of the metadata,         *)
(* Shutdown stops them.  Handlers are called by the loggers of the calls;  *)
(* those run one at a time, or any number of them when they went ahead by  *)
(* their timers.                                                           *)
(***************************************************************************)
EXTENDS MetadataFetcher

CONSTANTS Calls,    \* calls that a handler matches
          Handler,  \* the handler of each
          Outputs   \* number of outputs configured

ASSUME EventsAssumption ==
  /\ Handler \in [Calls -> {"newPayload", "getBlobs", "clientVersion"}]
  /\ Outputs \in Nat \ {0}

Sinks == 1..Outputs

(* Calls that are published; the others are observed for their version. *)
Published == {c \in Calls : Handler[c] # "clientVersion"}

VARIABLES server,   \* where StartServer stands
          started,  \* the service's flag
          held,     \* p.sinks
          sink,     \* what became of each sink
          closing,  \* where service.Stop stands
          at,       \* where each call stands
          pending,  \* the keys of the handlers' pending maps
          aged,     \* requests older than 30 seconds
          carries,  \* the metadata in the event of a call; the version in
                    \* the answer to a call for the version
          toSend,   \* the sinks that a Publish under way has not come to
          events    \* history: number of events built for a call

service == <<server, started, held, sink, closing>>
handlers == <<at, pending, aged, carries, toSend, events>>
vars == <<fetcher, service, handlers>>

(* "early": a response went ahead of the request's logger. *)
CallPlaces == {"new", "early", "requested", "replied", "building", "built", "sending", "answered"}

TypeOK ==
  /\ FetcherTypeOK
  /\ server \in {"new", "starting", "serving", "failed"}
  /\ started \in BOOLEAN
  /\ held \subseteq Sinks
  /\ sink \in [Sinks -> {"none", "running", "stopped", "broken"}]
  /\ closing \in {"no", "stopping", "over"}
  /\ at \in [Calls -> CallPlaces]
  /\ pending \subseteq Published /\ aged \subseteq Published
  /\ carries \in [Calls -> {0} \cup Versions]
  /\ toSend \in [Calls -> SUBSET Sinks]
  /\ events \in [Calls -> 0..2]

Init ==
  /\ FetcherInit
  /\ server = "new" /\ started = FALSE
  /\ held = {} /\ sink = [i \in Sinks |-> "none"]
  /\ closing = "no"
  /\ at = [c \in Calls |-> "new"]
  /\ pending = {} /\ aged = {}
  /\ carries = [c \in Calls |-> 0]
  /\ toSend = [c \in Calls |-> {}]
  /\ events = [c \in Calls |-> 0]

-----------------------------------------------------------------------------
(* The service and its sinks. *)

(* service.Start takes the service's lock, and publisher.Start its own. *)
BeginStart ==
  /\ server = "new" /\ closing # "stopping"
  /\ server' = "starting"
  /\ UNCHANGED <<started, held, sink, closing, fetcher, handlers>>

(* The next sink is created and started, or StartServer returns the error   *)
(* and leaves the sinks before it as they are.                              *)
StartSink(i) ==
  /\ server = "starting" /\ i \in Sinks \ held /\ \A j \in Sinks \ held : i <= j
  /\ \/ /\ held' = held \cup {i}
        /\ sink' = [sink EXCEPT ![i] = "running"]
        /\ UNCHANGED server
     \/ /\ server' = "failed"
        /\ UNCHANGED <<held, sink>>
  /\ UNCHANGED <<started, closing, fetcher, handlers>>

(* The fetcher is started in the background, and the server listens. *)
Serve ==
  /\ server = "starting" /\ held = Sinks
  /\ server' = "serving" /\ started' = TRUE
  /\ Goes("start", "idle", "try")
  /\ UNCHANGED <<held, sink, closing, handlers>>
  /\ UNCHANGED <<el, metadata, answer, tick, ready, done, stopper>>

(* The lock of the publisher is shared by those who publish. *)
Publishing == \E c \in Calls : at[c] = "sending"

(* Does not take the lock of the publisher. *)
ServiceStop_SlipNoLock ==
  /\ stopper = "returned" /\ closing = "no" /\ server # "starting"
  /\ closing' = IF started THEN "stopping" ELSE "over"
  /\ UNCHANGED <<server, started, held, sink, fetcher, handlers>>

(* Shutdown stops the service after the fetcher. *)
ServiceStop ==
  /\ stopper = "returned" /\ closing = "no" /\ server # "starting"
  /\ IF started THEN ~Publishing /\ closing' = "stopping" ELSE closing' = "over"
  /\ UNCHANGED <<server, started, held, sink, fetcher, handlers>>

StopSink(i) ==
  /\ closing = "stopping" /\ i \in held /\ \A j \in held : i <= j
  /\ held' = held \ {i}
  /\ \E outcome \in {"stopped", "broken"} : sink' = [sink EXCEPT ![i] = outcome]
  /\ UNCHANGED <<server, started, closing, fetcher, handlers>>

(* Waits until every sink is stopped, which one that broke never is. *)
ServiceStopped_SlipBroken ==
  /\ closing = "stopping" /\ held = {} /\ \A i \in Sinks : sink[i] # "broken"
  /\ closing' = "over"
  /\ started' = FALSE
  /\ UNCHANGED <<server, held, sink, fetcher, handlers>>

(* The flag stays when a sink could not be stopped. *)
ServiceStopped ==
  /\ closing = "stopping" /\ held = {}
  /\ closing' = "over"
  /\ started' = \E i \in Sinks : sink[i] = "broken"
  /\ UNCHANGED <<server, held, sink, fetcher, handlers>>

-----------------------------------------------------------------------------
(* The handlers. *)

CallGoes(c, from, to) == at[c] \in from /\ at' = [at EXCEPT ![c] = to]

OfSameHandler(c) == {b \in pending : Handler[b] = Handler[c]}

(* Cleans up what is not stale. *)
HandleRequest_SlipFresh(c) ==
  /\ server = "serving"
  /\ CallGoes(c, {"new", "early"}, IF at[c] = "new" THEN "requested" ELSE "answered")
  /\ pending' = IF c \in Published THEN (pending \ (OfSameHandler(c) \ aged)) \cup {c} ELSE pending
  /\ UNCHANGED <<aged, carries, toSend, events, service, fetcher>>

(* OnRequest, RouteRequest and HandleRequest, which first cleans up what is *)
(* stale.  A response that went ahead found no handler in the call data.    *)
HandleRequest(c) ==
  /\ server = "serving"
  /\ CallGoes(c, {"new", "early"}, IF at[c] = "new" THEN "requested" ELSE "answered")
  /\ pending' = IF c \in Published THEN (pending \ (OfSameHandler(c) \cap aged)) \cup {c} ELSE pending
  /\ UNCHANGED <<aged, carries, toSend, events, service, fetcher>>

(* 30 seconds pass. *)
Age(c) ==
  /\ c \in pending
  /\ aged' = aged \cup {c}
  /\ UNCHANGED <<at, pending, carries, toSend, events, service, fetcher>>

(* OnResponse before OnRequest. *)
EarlyResponse(c) ==
  /\ server = "serving"
  /\ CallGoes(c, {"new"}, "early")
  /\ UNCHANGED <<pending, aged, carries, toSend, events, service, fetcher>>

(* Leaves the request pending. *)
HandleResponse_SlipKeep(c) ==
  /\ c \in pending
  /\ CallGoes(c, {"requested", "answered"}, "building")
  /\ aged' = aged \ {c}
  /\ UNCHANGED <<pending, carries, toSend, events, service, fetcher>>

(* OnResponse and HandleResponse of a call that is published.  More         *)
(* responses may follow, when they are the events of a stream.              *)
HandleResponse(c) ==
  /\ c \in pending
  /\ CallGoes(c, {"requested", "answered"}, "building")
  /\ pending' = pending \ {c} /\ aged' = aged \ {c}
  /\ UNCHANGED <<carries, toSend, events, service, fetcher>>

NothingPending(c) ==
  /\ c \in Published \ pending
  /\ CallGoes(c, {"requested"}, "answered")
  /\ aged' = aged \ {c}
  /\ UNCHANGED <<pending, carries, toSend, events, service, fetcher>>

(* ClientMeta is put in the event. *)
Build(c) ==
  /\ closing # "stopping"
  /\ CallGoes(c, {"building"}, "built")
  /\ carries' = [carries EXCEPT ![c] = metadata]
  /\ events' = [events EXCEPT ![c] = @ + 1]
  /\ UNCHANGED <<pending, aged, toSend, service, fetcher>>

(* Publish drops the event, or hands it to one sink after the other. *)
Publish(c) ==
  /\ closing # "stopping"
  /\ IF metadata = 0
     THEN CallGoes(c, {"built"}, "answered") /\ UNCHANGED toSend
     ELSE CallGoes(c, {"built"}, "sending") /\ toSend' = [toSend EXCEPT ![c] = held]
  /\ UNCHANGED <<pending, aged, carries, events, service, fetcher>>

(* A sink that refuses the event keeps it from no other. *)
Deliver(c, i) ==
  /\ i \in toSend[c] /\ \A j \in toSend[c] : i <= j
  /\ toSend' = [toSend EXCEPT ![c] = @ \ {i}]
  /\ UNCHANGED <<at, pending, aged, carries, events, service, fetcher>>

EndPublish(c) ==
  /\ toSend[c] = {}
  /\ CallGoes(c, {"sending"}, "answered")
  /\ carries' = [carries EXCEPT ![c] = 0]
  /\ UNCHANGED <<pending, aged, toSend, events, service, fetcher>>

-----------------------------------------------------------------------------
(* The handler of engine_getClientVersion. *)

(* The execution client answers; a logger is handed the answer later. *)
Reply(c) ==
  /\ c \notin Published
  /\ CallGoes(c, {"requested"}, "replied")
  /\ carries' = [carries EXCEPT ![c] = el]
  /\ UNCHANGED <<pending, aged, toSend, events, service, fetcher>>

(* An error, or an update. *)
ObserveVersion(c) ==
  /\ CallGoes(c, {"replied"}, "answered")
  /\ carries' = [carries EXCEPT ![c] = 0]
  /\ Update(carries[c]) \/ UNCHANGED fetcher
  /\ UNCHANGED <<pending, aged, toSend, events, service>>

-----------------------------------------------------------------------------
ServiceStep ==
  \/ BeginStart \/ Serve \/ ServiceStop \/ ServiceStopped
  \/ \E i \in Sinks : StartSink(i) \/ StopSink(i)

PublishStep(c) ==
  Build(c) \/ Publish(c) \/ (\E i \in Sinks : Deliver(c, i)) \/ EndPublish(c)

CallStep(c) ==
  \/ HandleRequest(c) \/ Age(c) \/ EarlyResponse(c)
  \/ HandleResponse(c) \/ NothingPending(c)
  \/ Reply(c) \/ ObserveVersion(c)
  \/ PublishStep(c)

Next ==
  \/ FetcherStep /\ UNCHANGED <<service, handlers>>
  \/ ServiceStep
  \/ \E c \in Calls : CallStep(c)

Spec == Init /\ [][Next]_vars

(* Goroutines run, the ticker ticks, sinks start, stop and take events in   *)
(* bounded time (their contexts have deadlines).  The execution client      *)
(* answers again and again, and some of its answers are stored.  Nothing is *)
(* assumed of Shutdown's being called, of the calls, or of upgrades.        *)
FairSpec ==
  /\ Spec
  /\ WF_vars(StartStep /\ UNCHANGED <<service, handlers>>)
  /\ WF_vars(LoopStep /\ UNCHANGED <<service, handlers>>)
  /\ WF_vars(StopReturns /\ UNCHANGED <<service, handlers>>)
  /\ \A w \in Fetchers : /\ SF_vars(Answered(w) /\ UNCHANGED <<service, handlers>>)
                         /\ SF_vars(Store(w) /\ UNCHANGED <<service, handlers>>)
  /\ WF_vars(\/ Serve \/ ServiceStop \/ ServiceStopped
             \/ \E i \in Sinks : StartSink(i) \/ StopSink(i))
  /\ \A c \in Calls : WF_vars(PublishStep(c))

-----------------------------------------------------------------------------
(* However many responses a call has, at most one event is built for it.    *)
OneEventPerCall == \A c \in Calls : events[c] <= 1

(* A sink is not handed events before it runs or when it is being stopped,  *)
(* by publishers that run while the service is stopped.                     *)
RunningSinksOnly == \A c \in Calls : \A i \in toSend[c] : sink[i] = "running"

(* The clean-up of one request loses no other call's event, unless that     *)
(* call took 30 seconds.                                                    *)
FreshPendingKept == \A c \in Published : at[c] = "requested" => c \in pending \cup aged

(* Once Shutdown has closed done, the fetcher's goroutines end, publishers  *)
(* let the service be stopped, and Shutdown returns.                        *)
ShutdownEnds ==
  stopper = "waiting" ~> /\ closing = "over"
                         /\ \A w \in Fetchers : place[w] \in {"idle", "ended"}

(* publisher.go:123, "Events are dropped if execution metadata is not yet   *)
(* available": what is published carries the metadata.                      *)
PublishedWithMetadata == \A c \in Calls : at[c] = "sending" => carries[c] # 0
============================================================================
