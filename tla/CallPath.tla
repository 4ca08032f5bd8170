------------------------------ MODULE CallPath ------------------------------
(***************************************************************************)
(* What becomes of calls and of what they carry: the flow control lets a   *)
(* call through or refuses it (src/snooper/api.go, proxycall.go), and the  *)
(* loggers turn its request, its response and its events into log lines,   *)
(* module events and metrics (logging.go, src/modules/filters.go and       *)
(* src/modules/builtin).  In which order the loggers run is CallLogging's, *)
(* who is registered meanwhile is ModuleManager's: here one module is, and *)
(* what is sent to it arrives.                                             *)
(***************************************************************************)
EXTENDS BodyViews, Filters

CONSTANTS Calls,
          MaxAsked,      \* bound on the requests to the flow control API
          Routes,        \* paths of calls, and routes that are blocked
          PrefixOf,      \* <<r, s>> when r is a prefix of s
          Requests, Responses, EventsOf,  \* what calls carry
          Options,       \* how the snooper may be started: hide, truncate, metrics
          Modules        \* what may be registered: type and configuration

ASSUME PrefixAssumption == PrefixOf \subseteq Routes \X Routes
ASSUME MaxAskedAssumption == MaxAsked \in Nat

(* Of a message a logger knows the content type and the body; it may not    *)
(* decompress, and its length may be given as 0.                            *)
ASSUME CarriedAssumption ==
  /\ Requests \subseteq [path : Routes, method : STRING, rpc : STRING, contentType : SUBSET STRING,
                          body : Bodies, unpacks : BOOLEAN, empty : BOOLEAN]
  /\ Responses \subseteq [status : Nat, contentType : SUBSET STRING,
                           body : Bodies, unpacks : BOOLEAN, empty : BOOLEAN]
  /\ EventsOf \subseteq [whole : BOOLEAN, leaf : [len : Nat, hex : BOOLEAN]]
  /\ Options \subseteq [hide : BOOLEAN, truncate : BOOLEAN, metrics : BOOLEAN]

(* A query yields something for all that decodes, and an HTTP request has   *)
(* a method.                                                                *)
ASSUME QueriesAssumption ==
  /\ Undecodable \notin Decodable
  /\ \A m \in Modules :
       /\ \A key \in {"request_select", "response_select"} \cap DOMAIN m.config :
            m.config[key] \in Queries
       /\ \A key \in {"request_filter", "response_filter"} \cap DOMAIN m.config :
            "json_query" \in DOMAIN m.config[key] => m.config[key].json_query \in Queries
ASSUME MethodAssumption ==
  \A r \in Requests : Fold(r.method) # Fold("") /\ "" \in r.contentType

None == [none |-> TRUE]

(* As in OrderedProcessor, X_Slip... is X with a plausible mistake. *)

VARIABLES options,       \* set before serving
          flowEnabled,
          flowBlocked,   \* the keys of the map
          module,        \* the registered module
          call,          \* where each call stands
          request, response, event,  \* what each call carries, once known
          logged,        \* which of them the loggers are through with
          data,          \* the call data, and None before the request logger
          log,           \* lines, as pairs of a message's place and its body
          sent,          \* events sent to the module
          metrics,       \* entries counted
          history,       \* history: what the API was asked, as it took effect
          window         \* history: how much of it when a call came, and when
                         \* it was let through or refused

flow == <<flowEnabled, flowBlocked, history>>
path == <<call, window>>
carried == <<request, response, event>>
results == <<logged, data, log, sent, metrics>>
vars == <<options, module, flow, path, carried, results>>

(* handleModuleRegistration: parseFilterConfig looks for the two filters,   *)
(* Configure of the tracer for the two queries.                             *)
FilterIn(config, key) == IF key \in DOMAIN config THEN ParseFilter(config[key]) ELSE None
QueryIn(config, key) == IF key \in DOMAIN config THEN config[key] ELSE NoQuery

Register(type, config) ==
  [type           |-> type,
   config         |-> config,
   requestFilter  |-> FilterIn(config, "request_filter"),
   responseFilter |-> FilterIn(config, "response_filter"),
   requestQuery   |-> QueryIn(config, "request_select"),
   responseQuery  |-> QueryIn(config, "response_select")]

Init ==
  /\ options \in Options
  /\ \E m \in Modules : module = Register(m.type, m.config)
  /\ flowEnabled = TRUE /\ flowBlocked = {}
  /\ call = [c \in Calls |-> "new"]
  /\ request = [c \in Calls |-> None]
  /\ response = [c \in Calls |-> None]
  /\ event = [c \in Calls |-> None]
  /\ logged = {} /\ log = {} /\ sent = {} /\ metrics = {}
  /\ data = [c \in Calls |-> None]
  /\ history = <<>>
  /\ window = [c \in Calls |-> [from |-> 0, to |-> 0]]

-----------------------------------------------------------------------------
(* The flow control API: a handler's critical section. *)

Handle(demand) ==
  /\ Len(history) < MaxAsked
  /\ history' = Append(history, demand)
  /\ UNCHANGED <<options, module, path, carried, results>>

HandleStart == /\ Handle([verb |-> "start"])
               /\ flowEnabled' = TRUE
               /\ UNCHANGED flowBlocked

HandleStop == /\ Handle([verb |-> "stop"])
              /\ flowEnabled' = FALSE
              /\ UNCHANGED flowBlocked

HandleBlock(r) == /\ Handle([verb |-> "block", route |-> r])
                  /\ flowBlocked' = flowBlocked \cup {r}
                  /\ UNCHANGED flowEnabled

(* Lifts the blocks of the routes under this one as well. *)
HandleUnblock_SlipUnder(r) ==
  /\ Handle([verb |-> "unblock", route |-> r])
  /\ flowBlocked' = {s \in flowBlocked : <<r, s>> \notin PrefixOf}
  /\ UNCHANGED flowEnabled

HandleUnblock(r) == /\ Handle([verb |-> "unblock", route |-> r])
                    /\ flowBlocked' = flowBlocked \ {r}
                    /\ UNCHANGED flowEnabled

FlowControl == \/ HandleStart \/ HandleStop
               \/ \E r \in Routes : HandleBlock(r) \/ HandleUnblock(r)

-----------------------------------------------------------------------------
(* Calls. *)

Arrive(c, r) ==
  /\ call[c] = "new"
  /\ call' = [call EXCEPT ![c] = "arrived"]
  /\ request' = [request EXCEPT ![c] = r]
  /\ window' = [window EXCEPT ![c].from = Len(history)]
  /\ UNCHANGED <<options, module, flow, response, event, results>>

(* The route of one call is a prefix of its path. *)
Blocked(c) == \E r \in flowBlocked : <<r, request[c].path>> \in PrefixOf

(* processProxyCall looks at both under one lock. *)
CheckFlow(c) ==
  /\ call[c] = "arrived"
  /\ call' = [call EXCEPT ![c] = IF flowEnabled /\ ~Blocked(c) THEN "forwarded" ELSE "refused"]
  /\ window' = [window EXCEPT ![c].to = Len(history)]
  /\ UNCHANGED <<options, module, flow, carried, results>>

(* The origin answers, or begins a stream. *)
Respond(c, r) ==
  /\ call[c] = "forwarded"
  /\ call' = [call EXCEPT ![c] = "answered"]
  /\ response' = [response EXCEPT ![c] = r]
  /\ UNCHANGED <<options, module, flow, window, request, event, results>>

Stream(c, e) ==
  /\ call[c] = "forwarded"
  /\ call' = [call EXCEPT ![c] = "streaming"]
  /\ event' = [event EXCEPT ![c] = e]
  /\ UNCHANGED <<options, module, flow, window, request, response, results>>

-----------------------------------------------------------------------------
(* The loggers.  Each works for one message in its turn. *)

Through(c, k) == /\ <<c, k>> \notin logged
                 /\ logged' = logged \cup {<<c, k>>}
                 /\ UNCHANGED <<options, module, flow, path, carried>>

(* Only calls that were let through are logged, and a response after its    *)
(* request.                                                                 *)
RequestDue(c) == call[c] \in {"forwarded", "answered", "streaming"}
ResponseDue(c) == call[c] = "answered" /\ <<c, "request">> \in logged

(* decompressBody fails, and the logger returns. *)
GiveUp(c, k) ==
  /\ \/ k = "request" /\ RequestDue(c) /\ ~request[c].unpacks
     \/ k = "response" /\ ResponseDue(c) /\ ~response[c].unpacks
  /\ Through(c, k)
  /\ UNCHANGED <<data, log, sent, metrics>>

(* What a query or a JSON parser finds in the body a module is given; a     *)
(* string is parsed again, and what it says is no JSON.                     *)
Decoded(view) == IF (view.form = "tree" /\ view.kind # "text") \/ view.kind = "null"
                 THEN view.kind ELSE Undecodable

(* A value a query found: of the data, or one of its own. *)
Value(result, leaf) == IF result = "leaf" THEN leaf ELSE [json |-> result]

(* extractData: the results that are no errors, kept by their places, and   *)
(* nothing for one null.                                                    *)
ExtractData(query, contentType, view) ==
  IF query = NoQuery \/ "json" \notin contentType \/ Decoded(view) = Undecodable THEN <<>>
  ELSE LET yields == query[Decoded(view)]
           found == {i \in DOMAIN yields : yields[i] # "error"}
       IN IF \E i \in found : found = {i} /\ yields[i] = "null" THEN <<>>
          ELSE [i \in found |-> Value(yields[i], view.leaf)]

RequestAccepted(r, view) ==
  \/ module.requestFilter = None
  \/ ShouldProcessRequestFilter(module.requestFilter, r.method, r.contentType, Decoded(view))

(* An event for the module: its own or a hook's, which is followed by the   *)
(* bytes.                                                                   *)
Event(c, k, bytes, details) == [call |-> c, of |-> k, bytes |-> bytes, details |-> details]

OnRequest(c, view) ==
  IF module.type = "request_snooper" THEN {Event(c, "request", view.size, None)}
  ELSE IF module.type = "request_counter" THEN {Event(c, "request", 0, None)}
  ELSE {}

(* What the logger and the module note for the response. *)
Noted(r, view) ==
  LET accepted == RequestAccepted(r, view) IN
  [size      |-> view.size,
   method    |-> IF options.metrics /\ view.kind = "object" THEN r.rpc ELSE "",
   skip      |-> ~accepted,
   wants     |-> accepted /\ module.type \in {"response_snooper", "response_tracer"},
   extracted |-> IF accepted /\ module.type = "response_tracer"
                 THEN ExtractData(module.requestQuery, r.contentType, view) ELSE <<>>]

Line(c, k, body) == [call |-> c, of |-> k, body |-> body]

(* Hands the modules what was made for the log. *)
LogRequest_SlipShared(c) ==
  LET r == request[c]
      view == ModuleBody([r EXCEPT !.body = BeautifyJSONForLog(options.truncate, @)])
  IN /\ RequestDue(c) /\ r.unpacks
     /\ Through(c, "request")
     /\ log' = log \cup {Line(c, "request", LoggedBody(options, r))}
     /\ data' = [data EXCEPT ![c] = Noted(r, view)]
     /\ sent' = sent \cup IF RequestAccepted(r, view) THEN OnRequest(c, view) ELSE {}
     /\ UNCHANGED metrics

LogRequest(c) ==
  LET r == request[c]
      view == ModuleBody(r)
  IN /\ RequestDue(c) /\ r.unpacks
     /\ Through(c, "request")
     /\ log' = log \cup {Line(c, "request", LoggedBody(options, r))}
     /\ data' = [data EXCEPT ![c] = Noted(r, view)]
     /\ sent' = sent \cup IF RequestAccepted(r, view) THEN OnRequest(c, view) ELSE {}
     /\ UNCHANGED metrics

(* shouldProcessResponse, with what is noted if the request was logged. *)
ResponseAccepted(c, status, contentType, view) ==
  \/ data[c] # None /\ data[c].wants
  \/ /\ data[c] # None => ~data[c].skip
     /\ \/ module.responseFilter = None
        \/ ShouldProcessResponseFilter(module.responseFilter, status, contentType, Decoded(view))

OnResponse(c, k, status, contentType, bytes, view) ==
  IF ~ResponseAccepted(c, status, contentType, view) THEN {}
  ELSE IF module.type = "response_snooper" THEN {Event(c, k, bytes, None)}
  ELSE IF module.type = "response_tracer"
  THEN {Event(c, k, bytes,
          [status       |-> status,
           requestSize  |-> IF data[c] = None THEN 0 ELSE data[c].size,
           requestData  |-> IF data[c] = None THEN <<>> ELSE data[c].extracted,
           responseData |-> ExtractData(module.responseQuery, contentType, view)])}
  ELSE {}

(* collectMetrics makes a request context of its own, without a body. *)
CollectMetrics(c, bytes) ==
  IF ~options.metrics THEN {}
  ELSE {[call |-> c, method |-> IF data[c] = None THEN "" ELSE data[c].method,
         received |-> 0, sent |-> bytes]}

LogResponse(c) ==
  LET r == response[c]
      view == ModuleBody(r)
  IN /\ ResponseDue(c) /\ r.unpacks
     /\ Through(c, "response")
     /\ log' = log \cup {Line(c, "response", LoggedBody(options, r))}
     /\ sent' = sent \cup OnResponse(c, "response", r.status, r.contentType, view.size, view)
     /\ metrics' = metrics \cup CollectMetrics(c, view.size)
     /\ UNCHANGED data

(* An event of at least two fields is logged like a tree, another one as it *)
(* is.  Modules are given no bytes of either, and the request may be logged *)
(* later.                                                                   *)
LogEvent(c) ==
  LET e == event[c]
      view == IF e.whole THEN [form |-> "tree", kind |-> "object", leaf |-> e.leaf]
                         ELSE [form |-> "bytes", kind |-> "other"]
  IN /\ call[c] = "streaming"
     /\ Through(c, "event")
     /\ log' = log \cup {Line(c, "event",
          IF options.hide THEN [type |-> "none"]
          ELSE IF e.whole
               THEN [type |-> "json", value |-> BeautifyJSONForLog(options.truncate, e).leaf]
               ELSE [type |-> "raw", value |-> e.leaf])}
     /\ sent' = sent \cup OnResponse(c, "event", 200, {"", "text/event-stream"}, 0, view)
     /\ UNCHANGED <<data, metrics>>

-----------------------------------------------------------------------------
Log(c) == \/ LogRequest(c) \/ LogResponse(c) \/ LogEvent(c)
          \/ \E k \in {"request", "response"} : GiveUp(c, k)

Next ==
  \/ FlowControl
  \/ \E c \in Calls : \/ \E r \in Requests : Arrive(c, r)
                      \/ CheckFlow(c)
                      \/ \E r \in Responses : Respond(c, r)
                      \/ \E e \in EventsOf : Stream(c, e)
                      \/ Log(c)

Spec == Init /\ [][Next]_vars

-----------------------------------------------------------------------------
(* What the flow control was last told. *)
StoppedBy(h) == \E i \in DOMAIN h : /\ h[i].verb = "stop"
                                    /\ \A j \in (i + 1)..Len(h) : h[j].verb # "start"

BlockedBy(h, r) ==
  \E i \in DOMAIN h : /\ h[i].verb = "block" /\ h[i].route = r
                      /\ \A j \in (i + 1)..Len(h) : h[j].verb = "unblock" => h[j].route # r

Refuses(h, p) == StoppedBy(h) \/ \E r \in Routes : BlockedBy(h, r) /\ <<r, p>> \in PrefixOf

(* A call is refused or let through as the requests to the API say that     *)
(* took effect up to some moment between its arrival and its verdict: one   *)
(* that arrives after /stop has returned does not get through before a      *)
(* /start, nor one under a route that stays blocked, and unblocking a route *)
(* lifts no other block.                                                    *)
FlowObeyed ==
  \A c \in Calls : call[c] \notin {"new", "arrived"} =>
    \E k \in window[c].from..window[c].to :
      call[c] = "refused" <=> Refuses(SubSeq(history, 1, k), request[c].path)

(* The filter as its JSON says it: one entry of each list that is there has *)
(* to fit.  An entry of another type fits any content type and nothing      *)
(* else.                                                                    *)
Fits(filter, key, Test(_)) ==
  key \in DOMAIN filter /\ filter[key] # {} => \E e \in filter[key] : Test(e)

RequestFits(filter, r) ==
  /\ Fits(filter, "methods", LAMBDA e : e # Wrong /\ Fold(e) = Fold(r.method))
  /\ Fits(filter, "content_types", LAMBDA e : e = Wrong \/ e \in r.contentType)
  /\ "json_query" \in DOMAIN filter /\ "json" \in r.contentType =>
       /\ ~r.empty /\ "application/octet-stream" \notin r.contentType
       /\ r.body.kind \in Decodable
       /\ Truthy(filter.json_query[r.body.kind])

(* A module for requests is sent those, and only those, that its filter     *)
(* lets through, by the filter's own JSON and the request as it was sent.   *)
(* Criteria at the top level of a configuration are FiltersAsDocumented's.  *)
Criteria == {"content_types", "methods", "json_query"}

AskedFor(c) == /\ <<c, "request">> \in logged /\ request[c].unpacks
               /\ module.type \in {"request_snooper", "request_counter"}

FiltersAsAsked ==
  \A c \in Calls :
    AskedFor(c) /\ Criteria \cap DOMAIN module.config = {} =>
      ((\E s \in sent : s.call = c) <=>
        ("request_filter" \in DOMAIN module.config =>
           RequestFits(module.config.request_filter, request[c])))

(* src/cmd/snooper-hook/README.md:42, "Register with filtering               *)
(* configuration", for a request_snooper with content types and methods at  *)
(* the top level of its configuration: what these criteria do not fit is    *)
(* not sent to the module.  parseFilterConfig looks for "request_filter"    *)
(* and "response_filter" and for nothing else.                              *)
FiltersAsDocumented ==
  \A c \in Calls : AskedFor(c) /\ (\E s \in sent : s.call = c) =>
    RequestFits(module.config, request[c])

(* logging.go:41, "Module processing and proxy behavior are completely      *)
(* unaffected": however the log is abridged, hooks are sent the length of   *)
(* the whole body, and what a tracer extracts is of the body as it came.    *)
(* A binary body is sent as hex, and counts as such.  So are the metrics,   *)
(* where the body of the response is text.                                  *)
MessageOf(s) == IF s.of = "request" THEN request[s.call] ELSE response[s.call]

Textual(m) == "application/octet-stream" \notin m.contentType

WholeBody(bytes, m) ==
  bytes = IF m.empty THEN 0 ELSE m.body.size * IF Textual(m) THEN 1 ELSE 2

ComesFrom(found, m) ==
  \A i \in DOMAIN found : found[i] \in {Value(result, m.body.leaf) : result \in Results}

ModulesUnaffected ==
  /\ \A s \in sent : s.of # "event" /\ module.type # "request_counter" =>
       WholeBody(s.bytes, MessageOf(s))
  /\ \A s \in sent : s.details # None =>
       /\ ComesFrom(s.details.requestData, request[s.call])
       /\ s.of = "response" => ComesFrom(s.details.responseData, response[s.call])
  /\ \A e \in metrics : /\ e.method \in {"", request[e.call].rpc}
                        /\ Textual(response[e.call]) => WholeBody(e.sent, response[e.call])

(* main.go:218, 226: with --hide-bodies no body is in the log, and with      *)
(* --truncate a long hex value is cut in the same way wherever it stands,   *)
(* while a value at the threshold, or one that is not hex, stays whole.     *)
(* Events that do not parse are printed as they are.                        *)
Printed(s) == IF options.truncate /\ s.len > Threshold /\ s.hex
              THEN [shown |-> Preview, bytes |-> (s.len - 2) \div 2] ELSE s

LogAsConfigured ==
  \A l \in log :
    IF options.hide THEN l.body.type = "none"
    ELSE CASE l.body.type = "none" -> l.of # "event" /\ MessageOf(l).empty
           [] l.body.type = "raw"  -> l.of = "event" /\ ~event[l.call].whole
           [] l.body.type = "json" ->
                l.body.value = Printed(IF l.of = "event" THEN event[l.call].leaf
                                       ELSE MessageOf(l).body.leaf)
           [] OTHER -> l.body.value = Printed(Hex(MessageOf(l).body.size))
=============================================================================
