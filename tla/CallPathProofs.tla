--------------------------- MODULE CallPathProofs ---------------------------
(***************************************************************************)
(* Calls are let through as the flow control says, and the log shows of    *)
(* them what it is configured to show, for any calls, routes and bodies.   *)
(***************************************************************************)
EXTENDS CallPath, SequenceTheorems, TLAPS

-----------------------------------------------------------------------------
(* The log. *)

(* Both ways to print bytes in hex cut the same bodies to the same text.    *)
LEMMA HexCutAlike ==
  ASSUME NEW truncate \in BOOLEAN, NEW bytes \in Nat
  PROVE  FormatHexBodyForLog(truncate, bytes) =
           IF truncate THEN TruncateHexValue(Hex(bytes)) ELSE Hex(bytes)
<1>1. 2 * (Preview \div 2) = Preview
  BY PreviewAssumption, SMT
<1>2. bytes > Threshold \div 2 => 2 + 2 * bytes > Threshold
  BY PreviewAssumption, SMT
<1>3. ((2 + 2 * bytes) - 2) \div 2 = bytes
  BY SMT
<1>. QED
  BY <1>1, <1>2, <1>3 DEF FormatHexBodyForLog, TruncateHexValue, Hex

(* A line is of a message that its call carries and will keep: the call is  *)
(* past the step that took the message up.                                  *)
LineKept(l) ==
  /\ l.call \in Calls
  /\ \/ l.of = "request" /\ RequestDue(l.call)
     \/ l.of = "response" /\ call[l.call] = "answered"
     \/ l.of = "event" /\ call[l.call] = "streaming" /\ l.body.type \in {"none", "raw", "json"}

LineRight(l) ==
  IF options.hide THEN l.body.type = "none"
  ELSE CASE l.body.type = "none" -> l.of # "event" /\ MessageOf(l).empty
         [] l.body.type = "raw"  -> l.of = "event" /\ ~event[l.call].whole
         [] l.body.type = "json" ->
              l.body.value = Printed(IF l.of = "event" THEN event[l.call].leaf
                                     ELSE MessageOf(l).body.leaf)
         [] OTHER -> l.body.value = Printed(Hex(MessageOf(l).body.size))

Carried ==
  /\ request \in [Calls -> Requests \cup {None}]
  /\ response \in [Calls -> Responses \cup {None}]
  /\ event \in [Calls -> EventsOf \cup {None}]
  /\ call \in [Calls -> {"new", "arrived", "refused", "forwarded", "answered", "streaming"}]
  /\ \A c \in Calls : /\ call[c] # "new" => request[c] \in Requests
                      /\ call[c] = "answered" => response[c] \in Responses
                      /\ call[c] = "streaming" => event[c] \in EventsOf
  /\ options \in Options

LogInv == /\ Carried
          /\ \A l \in log : LineKept(l) /\ LineRight(l)

(* What the loggers print of a message is what the options ask for.         *)
LEMMA LoggedRight ==
  ASSUME NEW m, m.body \in Bodies, m.empty \in BOOLEAN, options \in Options
  PROVE  LET b == LoggedBody(options, m) IN
         IF options.hide THEN b.type = "none"
         ELSE CASE b.type = "none" -> m.empty
                [] b.type = "json" -> b.value = Printed(m.body.leaf)
                [] b.type \in {"ssz", "unknown"} -> b.value = Printed(Hex(m.body.size))
                [] OTHER -> FALSE
<1>1. options.truncate \in BOOLEAN /\ options.hide \in BOOLEAN
  BY CarriedAssumption
<1>2. /\ m.body.size \in Nat
      /\ m.body.leaf \in [len : Nat, hex : BOOLEAN]
      /\ m.body = [kind |-> m.body.kind, size |-> m.body.size, leaf |-> m.body.leaf]
  BY DEF Bodies
<1>3. \A s : (IF options.truncate THEN TruncateHexValue(s) ELSE s) = Printed(s)
  BY <1>1 DEF TruncateHexValue, Printed, Cut
<1>4. FormatHexBodyForLog(options.truncate, m.body.size) = Printed(Hex(m.body.size))
  BY <1>1, <1>2, <1>3, HexCutAlike
<1>5. BeautifyJSONForLog(options.truncate, m.body).leaf = Printed(m.body.leaf)
  BY <1>1, <1>2, <1>3 DEF BeautifyJSONForLog, TruncateHexInTree
<1>. QED
  BY <1>1, <1>4, <1>5 DEF LoggedBody

LEMMA CarriedInit == Init => LogInv
BY DEF Init, LogInv, Carried

(* A step that writes no line and changes no message of a line.             *)
LEMMA LinesStay ==
  ASSUME LogInv, Carried', log' = log, options' = options,
         \A c \in Calls : /\ RequestDue(c) => RequestDue(c)' /\ request'[c] = request[c]
                          /\ call[c] = "answered" => call'[c] = "answered" /\ response'[c] = response[c]
                          /\ call[c] = "streaming" => call'[c] = "streaming" /\ event'[c] = event[c]
  PROVE  LogInv'
<1>1. ASSUME NEW l \in log PROVE LineKept(l)' /\ LineRight(l)'
  <2>1. LineKept(l) /\ LineRight(l) /\ l.call \in Calls
    BY DEF LogInv, LineKept
  <2>2. LineKept(l)'
    BY <2>1 DEF LineKept
  <2>3. CASE l.of = "request"
    <3>1. request'[l.call] = request[l.call]
      BY <2>1, <2>3 DEF LineKept
    <3>. QED
      BY <2>1, <2>2, <2>3, <3>1 DEF LineRight, MessageOf, Printed
  <2>4. CASE l.of = "response"
    <3>1. response'[l.call] = response[l.call]
      BY <2>1, <2>4 DEF LineKept
    <3>. QED
      BY <2>1, <2>2, <2>4, <3>1 DEF LineRight, MessageOf, Printed
  <2>5. CASE l.of = "event"
    <3>1. event'[l.call] = event[l.call]
      BY <2>1, <2>5 DEF LineKept
    <3>. QED
      BY <2>1, <2>2, <2>5, <3>1 DEF LineRight, LineKept, Printed
  <2>. QED
    BY <2>1, <2>3, <2>4, <2>5 DEF LineKept
<1>. QED
  BY <1>1 DEF LogInv

LEMMA KeptStays == ASSUME NEW l, LineKept(l), UNCHANGED call PROVE LineKept(l)'
BY DEF LineKept, RequestDue

(* A step that writes one right line and changes neither calls nor messages. *)
LEMMA LineWritten ==
  ASSUME LogInv, NEW l, log' = log \cup {l}, LineKept(l), LineRight(l),
         UNCHANGED <<options, call, carried>>
  PROVE  LogInv'
<1>1. Carried'
  BY DEF LogInv, Carried, carried
<1>2. ASSUME NEW k \in log' PROVE LineKept(k)' /\ LineRight(k)'
  <2>1. LineKept(k) /\ LineRight(k)
    BY <1>2 DEF LogInv
  <2>2. LineKept(k)'
    BY <2>1, KeptStays
  <2>3. LineRight(k)'
    BY <2>1 DEF LineRight, MessageOf, Printed, carried
  <2>. QED
    BY <2>2, <2>3
<1>. QED
  BY <1>1, <1>2 DEF LogInv

LEMMA MessagesTyped ==
  ASSUME Carried, NEW c \in Calls
  PROVE  /\ call[c] # "new" => request[c].body \in Bodies /\ request[c].empty \in BOOLEAN
         /\ call[c] = "answered" => response[c].body \in Bodies /\ response[c].empty \in BOOLEAN
         /\ call[c] = "streaming" => event[c].whole \in BOOLEAN
BY CarriedAssumption DEF Carried

LEMMA LogRequestRight ==
  ASSUME LogInv, NEW c \in Calls, LogRequest(c)
  PROVE  LogInv'
<1>. DEFINE l == Line(c, "request", LoggedBody(options, request[c]))
<1>1. log' = log \cup {l} /\ UNCHANGED <<options, call, carried>> /\ RequestDue(c)
  BY DEF LogRequest, Through, path
<1>2. /\ l.call = c /\ l.of = "request"
      /\ l.body = LoggedBody(options, request[c])
      /\ MessageOf(l) = request[c]
  BY DEF Line, MessageOf
<1>3. request[c].body \in Bodies /\ request[c].empty \in BOOLEAN /\ options \in Options
  BY <1>1, MessagesTyped DEF LogInv, Carried, RequestDue
<1>4. LineKept(l)
  BY <1>1, <1>2 DEF LineKept
<1>5. LineRight(l)
  BY <1>2, <1>3, LoggedRight DEF LineRight
<1>. QED
  BY <1>1, <1>4, <1>5, LineWritten

LEMMA LogResponseRight ==
  ASSUME LogInv, NEW c \in Calls, LogResponse(c)
  PROVE  LogInv'
<1>. DEFINE l == Line(c, "response", LoggedBody(options, response[c]))
<1>1. log' = log \cup {l} /\ UNCHANGED <<options, call, carried>> /\ call[c] = "answered"
  BY DEF LogResponse, Through, path, ResponseDue
<1>2. /\ l.call = c /\ l.of = "response"
      /\ l.body = LoggedBody(options, response[c])
      /\ MessageOf(l) = response[c]
  BY DEF Line, MessageOf
<1>3. response[c].body \in Bodies /\ response[c].empty \in BOOLEAN /\ options \in Options
  BY <1>1, MessagesTyped DEF LogInv, Carried
<1>4. LineKept(l)
  BY <1>1, <1>2 DEF LineKept
<1>5. LineRight(l)
  BY <1>2, <1>3, LoggedRight DEF LineRight
<1>. QED
  BY <1>1, <1>4, <1>5, LineWritten

LEMMA LogEventRight ==
  ASSUME LogInv, NEW c \in Calls, LogEvent(c)
  PROVE  LogInv'
<1>. DEFINE e == event[c]
            body == IF options.hide THEN [type |-> "none"]
                    ELSE IF e.whole
                         THEN [type |-> "json", value |-> BeautifyJSONForLog(options.truncate, e).leaf]
                         ELSE [type |-> "raw", value |-> e.leaf]
            l == Line(c, "event", body)
<1>1. log' = log \cup {l} /\ UNCHANGED <<options, call, carried>> /\ call[c] = "streaming"
  BY DEF LogEvent, Through, path
<1>2. l.call = c /\ l.of = "event" /\ l.body = body
  BY DEF Line
<1>3. LineKept(l)
  BY <1>1, <1>2 DEF LineKept
<1>4. e \in [whole : BOOLEAN, leaf : [len : Nat, hex : BOOLEAN]]
  BY <1>1, CarriedAssumption DEF LogInv, Carried
<1>5. BeautifyJSONForLog(options.truncate, e).leaf = Printed(e.leaf)
  <2>1. options.truncate \in BOOLEAN
    BY CarriedAssumption DEF LogInv, Carried
  <2>. QED
    BY <1>4, <2>1 DEF BeautifyJSONForLog, TruncateHexInTree, TruncateHexValue, Printed, Cut
<1>6. LineRight(l)
  BY <1>2, <1>4, <1>5 DEF LineRight
<1>. QED
  BY <1>1, <1>3, <1>6, LineWritten

LEMMA LogNext ==
  ASSUME LogInv, [Next]_vars
  PROVE  LogInv'
<1>1. CASE FlowControl
  <2>1. UNCHANGED <<options, call, carried, log>>
    BY <1>1 DEF FlowControl, HandleStart, HandleStop, HandleBlock, HandleUnblock, Handle, path, results
  <2>. QED
    BY <2>1, LinesStay DEF LogInv, Carried, carried, RequestDue
<1>2. ASSUME NEW c \in Calls, NEW r \in Requests, Arrive(c, r) PROVE LogInv'
  BY <1>2, LinesStay DEF Arrive, LogInv, Carried, RequestDue, results
<1>3. ASSUME NEW c \in Calls, CheckFlow(c) PROVE LogInv'
  BY <1>3, LinesStay DEF CheckFlow, LogInv, Carried, RequestDue, results, carried
<1>4. ASSUME NEW c \in Calls, NEW r \in Responses, Respond(c, r) PROVE LogInv'
  BY <1>4, LinesStay DEF Respond, LogInv, Carried, RequestDue, results
<1>5. ASSUME NEW c \in Calls, NEW e \in EventsOf, Stream(c, e) PROVE LogInv'
  BY <1>5, LinesStay DEF Stream, LogInv, Carried, RequestDue, results
<1>6. ASSUME NEW c \in Calls, NEW k, GiveUp(c, k) PROVE LogInv'
  BY <1>6, LinesStay DEF GiveUp, Through, LogInv, Carried, RequestDue, path, carried
<1>7. CASE UNCHANGED vars
  BY <1>7, LinesStay DEF vars, path, carried, results, LogInv, Carried, RequestDue
<1>. QED
  BY <1>1, <1>2, <1>3, <1>4, <1>5, <1>6, <1>7, LogRequestRight, LogResponseRight, LogEventRight
  DEF Next, Log

(* The log is as --hide-bodies and --truncate say, whatever the bodies are  *)
(* and wherever the limits lie.                                             *)
THEOREM LogRight == Spec => []LogAsConfigured
<1>1. LogInv => LogAsConfigured
  BY DEF LogInv, LineRight, LogAsConfigured
<1>. QED
  BY <1>1, CarriedInit, LogNext, PTL DEF Spec

-----------------------------------------------------------------------------
(* The filters. *)

(* What a query finds in the body a module is given is the message's own.   *)
LEMMA DecodedIsBody ==
  ASSUME NEW m, m.body \in Bodies, m.empty \in BOOLEAN
  PROVE  LET found == Decoded(ModuleBody(m)) IN
         /\ found # Undecodable <=>
              /\ ~m.empty /\ "application/octet-stream" \notin m.contentType
              /\ m.body.kind \in Decodable
         /\ found # Undecodable => found = m.body.kind
<1>1. m.body.kind \in {"object", "batch", "text", "null", "other"}
  BY DEF Bodies
<1>2. Undecodable \notin Decodable
  BY QueriesAssumption
<1>3. CASE m.empty \/ "application/octet-stream" \in m.contentType
  BY <1>3 DEF ModuleBody, Decoded
<1>4. CASE ~m.empty /\ "application/octet-stream" \notin m.contentType
  BY <1>1, <1>2, <1>4 DEF ModuleBody, Decoded, Parsed, Decodable
<1>. QED
  BY <1>3, <1>4

LEMMA QueriesAreQueries == NoQuery \notin Queries
BY DEF NoQuery, Queries, Decodable

(* filters.go on what manager.go made of a filter's JSON lets a request     *)
(* through just as the JSON says: entries of another type count as zero     *)
(* values, which fit every content type and no method.                      *)
THEOREM FilterMeansItsJSON ==
  ASSUME NEW filter, "json_query" \in DOMAIN filter => filter.json_query \in Queries,
         NEW r \in Requests
  PROVE  ShouldProcessRequestFilter(ParseFilter(filter), r.method, r.contentType, Decoded(ModuleBody(r)))
           <=> RequestFits(filter, r)
<1>. DEFINE parsed == ParseFilter(filter)
            decoded == Decoded(ModuleBody(r))
<1>1. Fold(r.method) # Fold("") /\ "" \in r.contentType
  BY MethodAssumption
<1>2. MethodMatches(parsed, r.method)
        <=> Fits(filter, "methods", LAMBDA e : e # Wrong /\ Fold(e) = Fold(r.method))
  <2>1. parsed.methods = OrZero(Listed(filter, "methods"), "")
    BY DEF ParseFilter
  <2>. QED
    BY <1>1, <2>1 DEF MethodMatches, Fits, OrZero, Listed
<1>3. ContentTypeMatches(parsed, r.contentType)
        <=> Fits(filter, "content_types", LAMBDA e : e = Wrong \/ e \in r.contentType)
  <2>1. parsed.contentTypes = OrZero(Listed(filter, "content_types"), "")
    BY DEF ParseFilter
  <2>. QED
    BY <1>1, <2>1 DEF ContentTypeMatches, Fits, OrZero, Listed
<1>4. QueryMatches(parsed, r.contentType, decoded) <=>
        ("json_query" \in DOMAIN filter /\ "json" \in r.contentType =>
           /\ ~r.empty /\ "application/octet-stream" \notin r.contentType
           /\ r.body.kind \in Decodable
           /\ Truthy(filter.json_query[r.body.kind]))
  <2>1. parsed.query = IF "json_query" \in DOMAIN filter THEN filter.json_query ELSE NoQuery
    BY DEF ParseFilter
  <2>2. parsed.query # NoQuery <=> "json_query" \in DOMAIN filter
    BY <2>1, QueriesAreQueries
  <2>3. r.body \in Bodies /\ r.empty \in BOOLEAN
    BY CarriedAssumption
  <2>4. EvaluateJSONQuery(filter.json_query, decoded) <=>
          /\ ~r.empty /\ "application/octet-stream" \notin r.contentType
          /\ r.body.kind \in Decodable
          /\ Truthy(filter.json_query[r.body.kind])
    BY <2>3, DecodedIsBody DEF EvaluateJSONQuery
  <2>. QED
    BY <2>1, <2>2, <2>4 DEF QueryMatches
<1>. QED
  BY <1>2, <1>3, <1>4 DEF ShouldProcessRequestFilter, RequestFits

(* What is sent for a request is sent for one that was logged, and for one  *)
(* that was logged it is decided by the filter.                             *)
FilterInv ==
  /\ \E m \in Modules : module = Register(m.type, m.config)
  /\ \A c \in Calls : <<c, "request">> \in logged => RequestDue(c)
  /\ module.type \in {"request_snooper", "request_counter"} =>
       /\ \A s \in sent : <<s.call, "request">> \in logged
       /\ \A c \in Calls : <<c, "request">> \in logged /\ request[c].unpacks =>
            ((\E s \in sent : s.call = c) <=> RequestAccepted(request[c], ModuleBody(request[c])))

LEMMA FilterInit == Init => FilterInv
BY DEF Init, FilterInv

LEMMA RegisteredMeansAsked ==
  ASSUME FilterInv, NEW r \in Requests
  PROVE  RequestAccepted(r, ModuleBody(r)) <=>
           ("request_filter" \in DOMAIN module.config => RequestFits(module.config.request_filter, r))
<1>1. PICK m \in Modules : module = Register(m.type, m.config)
  BY DEF FilterInv
<1>2. module.config = m.config /\ module.requestFilter = FilterIn(m.config, "request_filter")
  BY <1>1 DEF Register
<1>3. CASE "request_filter" \notin DOMAIN m.config
  BY <1>2, <1>3 DEF FilterIn, RequestAccepted
<1>4. CASE "request_filter" \in DOMAIN m.config
  <2>. DEFINE filter == m.config.request_filter
  <2>1. module.requestFilter = ParseFilter(filter)
    BY <1>2, <1>4 DEF FilterIn
  <2>2. module.requestFilter # None
    <3>1. DOMAIN ParseFilter(filter) = {"contentTypes", "methods", "statusCodes", "query"}
      BY DEF ParseFilter
    <3>2. DOMAIN None = {"none"}
      BY DEF None
    <3>. QED
      BY <2>1, <3>1, <3>2
  <2>3. "json_query" \in DOMAIN filter => filter.json_query \in Queries
    BY <1>4, QueriesAssumption
  <2>. QED
    BY <1>2, <1>4, <2>1, <2>2, <2>3, FilterMeansItsJSON DEF RequestAccepted
<1>. QED
  BY <1>3, <1>4

(* A step that logs no request and sends nothing for one.                   *)
LEMMA FilterStays ==
  ASSUME FilterInv, UNCHANGED module,
         \A c \in Calls : /\ RequestDue(c) => RequestDue(c)' /\ request'[c] = request[c]
                          /\ <<c, "request">> \in logged' <=> <<c, "request">> \in logged,
         logged \subseteq logged',
         module.type \in {"request_snooper", "request_counter"} => sent' = sent
  PROVE  FilterInv'
<1>1. \E m \in Modules : module' = Register(m.type, m.config)
  BY DEF FilterInv
<1>2. \A c \in Calls : <<c, "request">> \in logged' => RequestDue(c)'
  BY DEF FilterInv
<1>3. ASSUME module'.type \in {"request_snooper", "request_counter"}
      PROVE  /\ \A s \in sent' : <<s.call, "request">> \in logged'
             /\ \A c \in Calls : <<c, "request">> \in logged' /\ request'[c].unpacks =>
                  ((\E s \in sent' : s.call = c) <=> RequestAccepted(request[c], ModuleBody(request[c]))')
  <2>1. sent' = sent /\ module' = module
    BY <1>3
  <2>2. \A s \in sent' : <<s.call, "request">> \in logged'
    BY <1>3, <2>1 DEF FilterInv
  <2>3. ASSUME NEW c \in Calls, <<c, "request">> \in logged', request'[c].unpacks
        PROVE  (\E s \in sent' : s.call = c) <=> RequestAccepted(request[c], ModuleBody(request[c]))'
    <3>1. request'[c] = request[c] /\ <<c, "request">> \in logged
      BY <2>3 DEF FilterInv
    <3>2. (\E s \in sent : s.call = c) <=> RequestAccepted(request[c], ModuleBody(request[c]))
      BY <1>3, <2>1, <2>3, <3>1 DEF FilterInv
    <3>. QED
      BY <2>1, <3>1, <3>2 DEF RequestAccepted
  <2>. QED
    BY <2>2, <2>3
<1>. QED
  BY <1>1, <1>2, <1>3 DEF FilterInv

(* A request's logger comes once, so that nothing was sent for it before,   *)
(* and what it sends is for its own call only.                              *)
LEMMA FilterDecides ==
  ASSUME FilterInv, NEW c \in Calls, LogRequest(c) \/ GiveUp(c, "request")
  PROVE  FilterInv'
<1>1. /\ RequestDue(c) /\ <<c, "request">> \notin logged
      /\ logged' = logged \cup {<<c, "request">>}
      /\ UNCHANGED <<module, call, request>>
  BY DEF LogRequest, GiveUp, Through, path, carried
<1>2. \E m \in Modules : module' = Register(m.type, m.config)
  BY <1>1 DEF FilterInv
<1>3. \A b \in Calls : <<b, "request">> \in logged' => RequestDue(b)'
  BY <1>1 DEF FilterInv, RequestDue
<1>4. ASSUME module.type \in {"request_snooper", "request_counter"}
      PROVE  /\ \A s \in sent' : <<s.call, "request">> \in logged'
             /\ \A b \in Calls : <<b, "request">> \in logged' /\ request'[b].unpacks =>
                  ((\E s \in sent' : s.call = b) <=> RequestAccepted(request[b], ModuleBody(request[b]))')
  <2>1. ~\E s \in sent : s.call = c
    BY <1>1, <1>4 DEF FilterInv
  <2>2. \A s \in sent' : s \in sent \/ s.call = c
    BY <1>4 DEF LogRequest, GiveUp, OnRequest, Event
  <2>3. sent \subseteq sent'
    BY DEF LogRequest, GiveUp
  <2>4. request[c].unpacks =>
          ((\E s \in sent' : s.call = c) <=> RequestAccepted(request[c], ModuleBody(request[c])))
    <3>1. CASE GiveUp(c, "request")
      BY <3>1 DEF GiveUp
    <3>2. CASE LogRequest(c)
      <4>. DEFINE accepted == RequestAccepted(request[c], ModuleBody(request[c]))
                  own == OnRequest(c, ModuleBody(request[c]))
      <4>1. sent' = sent \cup IF accepted THEN own ELSE {}
        BY <3>2 DEF LogRequest
      <4>2. \E s \in own : s.call = c
        BY <1>4 DEF OnRequest, Event
      <4>. QED
        BY <2>1, <4>1, <4>2
    <3>. QED
      BY <3>1, <3>2
  <2>5. \A s \in sent' : <<s.call, "request">> \in logged'
    BY <1>1, <1>4, <2>2 DEF FilterInv
  <2>6. ASSUME NEW b \in Calls, <<b, "request">> \in logged', request'[b].unpacks
        PROVE  (\E s \in sent' : s.call = b) <=> RequestAccepted(request[b], ModuleBody(request[b]))
    <3>1. CASE b = c
      BY <1>1, <2>4, <2>6, <3>1
    <3>2. CASE b # c
      <4>1. <<b, "request">> \in logged /\ request[b].unpacks
        BY <1>1, <2>6, <3>2
      <4>2. (\E s \in sent' : s.call = b) <=> \E s \in sent : s.call = b
        BY <2>2, <2>3, <3>2
      <4>. QED
        BY <1>4, <4>1, <4>2 DEF FilterInv
    <3>. QED
      BY <3>1, <3>2
  <2>7. \A b \in Calls : RequestAccepted(request[b], ModuleBody(request[b]))'
                           <=> RequestAccepted(request[b], ModuleBody(request[b]))
    BY <1>1 DEF RequestAccepted
  <2>. QED
    BY <2>5, <2>6, <2>7
<1>. QED
  BY <1>1, <1>2, <1>3, <1>4 DEF FilterInv

LEMMA FilterNext ==
  ASSUME Carried, FilterInv, [Next]_vars
  PROVE  FilterInv'
<1>1. CASE FlowControl
  <2>1. UNCHANGED <<module, call, request, logged, sent>>
    BY <1>1 DEF FlowControl, HandleStart, HandleStop, HandleBlock, HandleUnblock, Handle,
                path, carried, results
  <2>. QED
    BY <2>1, FilterStays DEF RequestDue
<1>2. ASSUME NEW c \in Calls, NEW r \in Requests, Arrive(c, r) PROVE FilterInv'
  BY <1>2, FilterStays DEF Arrive, Carried, RequestDue, results
<1>3. ASSUME NEW c \in Calls, CheckFlow(c) PROVE FilterInv'
  BY <1>3, FilterStays DEF CheckFlow, Carried, RequestDue, results, carried
<1>4. ASSUME NEW c \in Calls, NEW r \in Responses, Respond(c, r) PROVE FilterInv'
  BY <1>4, FilterStays DEF Respond, Carried, RequestDue, results
<1>5. ASSUME NEW c \in Calls, NEW e \in EventsOf, Stream(c, e) PROVE FilterInv'
  BY <1>5, FilterStays DEF Stream, Carried, RequestDue, results
<1>6. ASSUME NEW c \in Calls, GiveUp(c, "response") PROVE FilterInv'
  <2>1. UNCHANGED <<module, call, request, sent>> /\ logged' = logged \cup {<<c, "response">>}
    BY <1>6 DEF GiveUp, Through, path, carried
  <2>. QED
    BY <2>1, FilterStays DEF RequestDue
<1>7. ASSUME NEW c \in Calls, LogResponse(c) PROVE FilterInv'
  <2>1. UNCHANGED <<module, call, request>> /\ logged' = logged \cup {<<c, "response">>}
    BY <1>7 DEF LogResponse, Through, path, carried
  <2>2. module.type \in {"request_snooper", "request_counter"} => sent' = sent
    BY <1>7 DEF LogResponse, OnResponse
  <2>. QED
    BY <2>1, <2>2, FilterStays DEF RequestDue
<1>8. ASSUME NEW c \in Calls, LogEvent(c) PROVE FilterInv'
  <2>1. UNCHANGED <<module, call, request>> /\ logged' = logged \cup {<<c, "event">>}
    BY <1>8 DEF LogEvent, Through, path, carried
  <2>2. module.type \in {"request_snooper", "request_counter"} => sent' = sent
    BY <1>8 DEF LogEvent, OnResponse
  <2>. QED
    BY <2>1, <2>2, FilterStays DEF RequestDue
<1>9. CASE UNCHANGED vars
  BY <1>9, FilterStays DEF vars, path, carried, results, RequestDue
<1>. QED
  BY <1>1, <1>2, <1>3, <1>4, <1>5, <1>6, <1>7, <1>8, <1>9, FilterDecides DEF Next, Log

(* A module for requests is sent those that its filter's own JSON lets      *)
(* through, and no others, if it has no criteria elsewhere, whatever modules are registered, whatever the    *)
(* requests carry and however many calls there are.                         *)
THEOREM FiltersRight == Spec => []FiltersAsAsked
<1>1. ASSUME LogInv, FilterInv PROVE FiltersAsAsked
  <2>1. ASSUME NEW c \in Calls, AskedFor(c)
        PROVE  (\E s \in sent : s.call = c) <=>
                 ("request_filter" \in DOMAIN module.config =>
                    RequestFits(module.config.request_filter, request[c]))
    <3>1. request[c] \in Requests
      BY <1>1, <2>1 DEF LogInv, Carried, FilterInv, RequestDue, AskedFor
    <3>2. (\E s \in sent : s.call = c) <=> RequestAccepted(request[c], ModuleBody(request[c]))
      BY <1>1, <2>1 DEF FilterInv, AskedFor
    <3>. QED
      BY <1>1, <3>1, <3>2, RegisteredMeansAsked
  <2>. QED
    BY <2>1 DEF FiltersAsAsked
<1>2. LogInv /\ FilterInv /\ [Next]_vars => LogInv' /\ FilterInv'
  BY LogNext, FilterNext DEF LogInv
<1>. QED
  BY <1>1, <1>2, CarriedInit, FilterInit, PTL DEF Spec

-----------------------------------------------------------------------------
(* What modules are given. *)

(* A module counts the bytes of the whole body, in hex if it is binary.     *)
LEMMA ViewIsWhole ==
  ASSUME NEW m, m.body \in Bodies, m.empty \in BOOLEAN
  PROVE  WholeBody(ModuleBody(m).size, m)
<1>1. m.body.size \in Nat
  BY DEF Bodies
<1>. QED
  BY <1>1 DEF WholeBody, Textual, ModuleBody

(* What a query finds is of the body as it came.                            *)
LEMMA ExtractedIsOwn ==
  ASSUME NEW m, m.body \in Bodies, m.empty \in BOOLEAN, NEW contentType,
         NEW query, query = NoQuery \/ query \in Queries
  PROVE  ComesFrom(ExtractData(query, contentType, ModuleBody(m)), m)
<1>. DEFINE view == ModuleBody(m)
            extracted == ExtractData(query, contentType, view)
<1>1. CASE extracted = <<>>
  BY <1>1 DEF ComesFrom
<1>2. CASE extracted # <<>>
  <2>. DEFINE kind == m.body.kind
              yields == query[kind]
              found == {i \in DOMAIN yields : yields[i] # "error"}
  <2>1. query \in Queries /\ Decoded(view) # Undecodable
    BY <1>2 DEF ExtractData
  <2>2. Decoded(view) = kind /\ kind \in Decodable
    BY <2>1, DecodedIsBody
  <2>3. extracted = [i \in found |-> Value(yields[i], view.leaf)]
    BY <1>2, <2>2 DEF ExtractData
  <2>4. \A i \in DOMAIN yields : yields[i] \in Results
    BY <2>1, <2>2 DEF Queries
  <2>5. kind = "null" => \A i \in DOMAIN yields : yields[i] # "leaf"
    BY <2>1 DEF Queries
  <2>6. kind # "null" => view.leaf = m.body.leaf
    BY <2>1, <2>2, DecodedIsBody DEF ModuleBody, Parsed, Decodable
  <2>7. ASSUME NEW i \in found
        PROVE  extracted[i] = Value(yields[i], m.body.leaf) /\ yields[i] \in Results
    BY <2>3, <2>4, <2>5, <2>6 DEF Value
  <2>8. DOMAIN extracted = found
    BY <2>3
  <2>. HIDE DEF extracted, found, yields
  <2>. QED
    BY <2>7, <2>8 DEF ComesFrom, extracted
<1>. QED
  BY <1>1, <1>2

(* What was noted for the response is the request's.                        *)
DataRight(c) ==
  data[c] # None => /\ RequestDue(c)
                    /\ data[c].method \in {"", request[c].rpc}
                    /\ ComesFrom(data[c].extracted, request[c])

(* An event is of a message that its call carries and will keep.            *)
SentRight(s) ==
  /\ s.call \in Calls
  /\ RequestDue(s.call)
  /\ \/ s.of = "request"
     \/ s.of = "response" /\ call[s.call] = "answered"
     \/ s.of = "event"
  /\ s.of # "event" /\ module.type # "request_counter" => WholeBody(s.bytes, MessageOf(s))
  /\ s.details # None => /\ ComesFrom(s.details.requestData, request[s.call])
                         /\ s.of = "response" => ComesFrom(s.details.responseData, response[s.call])

CountRight(e) ==
  /\ e.call \in Calls /\ call[e.call] = "answered"
  /\ e.method \in {"", request[e.call].rpc}
  /\ Textual(response[e.call]) => WholeBody(e.sent, response[e.call])

ModuleInv ==
  /\ \E m \in Modules : module = Register(m.type, m.config)
  /\ DOMAIN data = Calls
  /\ \A c \in Calls : DataRight(c)
  /\ \A s \in sent : SentRight(s)
  /\ \A e \in metrics : CountRight(e)

LEMMA ModuleInit == Init => ModuleInv
BY DEF Init, ModuleInv, DataRight

LEMMA QueriesRegistered ==
  ASSUME ModuleInv
  PROVE  \A query \in {module.requestQuery, module.responseQuery} :
           query = NoQuery \/ query \in Queries
<1>1. PICK m \in Modules : module = Register(m.type, m.config)
  BY DEF ModuleInv
<1>2. /\ module.requestQuery = QueryIn(m.config, "request_select")
      /\ module.responseQuery = QueryIn(m.config, "response_select")
  BY <1>1 DEF Register
<1>. QED
  BY <1>2, QueriesAssumption DEF QueryIn

(* A step that notes, sends and counts nothing, and leaves the messages of  *)
(* what was.                                                                *)
MessagesStay ==
  \A c \in Calls : /\ RequestDue(c) => RequestDue(c)' /\ request'[c] = request[c]
                   /\ call[c] = "answered" => call'[c] = "answered" /\ response'[c] = response[c]

LEMMA SentStays ==
  ASSUME MessagesStay, UNCHANGED module, NEW s, SentRight(s)
  PROVE  SentRight(s)'
<1>1. s.call \in Calls /\ RequestDue(s.call)' /\ request'[s.call] = request[s.call]
  BY DEF SentRight, MessagesStay
<1>2. s.of = "response" => call'[s.call] = "answered" /\ response'[s.call] = response[s.call]
  BY <1>1 DEF SentRight, MessagesStay
<1>3. s.of # "event" => MessageOf(s)' = MessageOf(s)
  BY <1>1, <1>2 DEF MessageOf, SentRight
<1>. QED
  BY <1>1, <1>2, <1>3 DEF SentRight, WholeBody, Textual, ComesFrom

LEMMA CountStays ==
  ASSUME MessagesStay, NEW e, CountRight(e)
  PROVE  CountRight(e)'
<1>1. /\ e.call \in Calls /\ RequestDue(e.call)
      /\ call'[e.call] = "answered" /\ response'[e.call] = response[e.call]
  BY DEF CountRight, MessagesStay, RequestDue
<1>2. request'[e.call] = request[e.call]
  BY <1>1 DEF MessagesStay
<1>. QED
  BY <1>1, <1>2 DEF CountRight, WholeBody, Textual

LEMMA NotedStays ==
  ASSUME MessagesStay, NEW c \in Calls, DataRight(c), data'[c] = data[c]
  PROVE  DataRight(c)'
BY DEF DataRight, MessagesStay, ComesFrom

LEMMA ModuleStays ==
  ASSUME ModuleInv, MessagesStay, UNCHANGED <<module, data, sent, metrics>>
  PROVE  ModuleInv'
<1>1. ASSUME NEW c \in Calls PROVE DataRight(c)'
  BY NotedStays DEF ModuleInv
<1>2. ASSUME NEW s \in sent' PROVE SentRight(s)'
  BY SentStays DEF ModuleInv
<1>3. ASSUME NEW e \in metrics' PROVE CountRight(e)'
  BY CountStays DEF ModuleInv
<1>. QED
  BY <1>1, <1>2, <1>3 DEF ModuleInv

(* What the loggers add. *)

LEMMA LogRequestGives ==
  ASSUME Carried, ModuleInv, NEW c \in Calls, LogRequest(c)
  PROVE  ModuleInv'
<1>. DEFINE r == request[c]
            view == ModuleBody(r)
<1>1. /\ UNCHANGED <<options, module, call, carried, metrics>> /\ RequestDue(c)
      /\ data' = [data EXCEPT ![c] = Noted(r, view)]
      /\ sent' = sent \cup IF RequestAccepted(r, view) THEN OnRequest(c, view) ELSE {}
  BY DEF LogRequest, Through, path
<1>2. MessagesStay
  BY <1>1 DEF MessagesStay, RequestDue, carried
<1>3. r.body \in Bodies /\ r.empty \in BOOLEAN
  BY <1>1, MessagesTyped DEF RequestDue
<1>4. DataRight(c)'
  <2>1. ComesFrom(Noted(r, view).extracted, r) /\ Noted(r, view).method \in {"", r.rpc}
    <3>1. ComesFrom(ExtractData(module.requestQuery, r.contentType, view), r)
      BY <1>3, QueriesRegistered, ExtractedIsOwn
    <3>2. ComesFrom(<<>>, r)
      BY DEF ComesFrom
    <3>. QED
      BY <3>1, <3>2 DEF Noted
  <2>2. data'[c] = Noted(r, view) /\ request'[c] = r /\ RequestDue(c)'
    BY <1>1, <1>2 DEF ModuleInv, MessagesStay
  <2>. QED
    BY <2>1, <2>2 DEF DataRight, ComesFrom
<1>5. ASSUME NEW b \in Calls \ {c} PROVE DataRight(b)'
  BY <1>1, <1>2, NotedStays DEF ModuleInv
<1>6. ASSUME NEW s \in OnRequest(c, view) PROVE SentRight(s)
  <2>1. /\ s.call = c /\ s.of = "request" /\ s.details = None
        /\ module.type # "request_counter" => s.bytes = view.size
    BY DEF OnRequest, Event
  <2>2. WholeBody(view.size, r)
    BY <1>3, ViewIsWhole
  <2>. QED
    BY <1>1, <2>1, <2>2 DEF SentRight, MessageOf
<1>7. ASSUME NEW s \in sent' PROVE SentRight(s)'
  BY <1>1, <1>2, <1>6, SentStays DEF ModuleInv
<1>8. ASSUME NEW e \in metrics' PROVE CountRight(e)'
  BY <1>1, <1>2, CountStays DEF ModuleInv
<1>. QED
  BY <1>1, <1>4, <1>5, <1>7, <1>8 DEF ModuleInv

(* What is sent for a response or an event.                                 *)
LEMMA ResponseGives ==
  ASSUME ModuleInv, NEW c \in Calls, RequestDue(c), NEW k \in {"response", "event"},
         NEW status, NEW contentType, NEW bytes, NEW view,
         k = "response" => /\ call[c] = "answered"
                           /\ WholeBody(bytes, response[c])
                           /\ ComesFrom(ExtractData(module.responseQuery, contentType, view), response[c]),
         NEW s \in OnResponse(c, k, status, contentType, bytes, view)
  PROVE  SentRight(s)
<1>1. s.call = c /\ s.of = k /\ s.bytes = bytes
  BY DEF OnResponse, Event
<1>2. s.details # None =>
        /\ s.details.requestData = IF data[c] = None THEN <<>> ELSE data[c].extracted
        /\ s.details.responseData = ExtractData(module.responseQuery, contentType, view)
  BY DEF OnResponse, Event
<1>3. ComesFrom(<<>>, request[c])
  BY DEF ComesFrom
<1>4. s.details # None => ComesFrom(s.details.requestData, request[c])
  BY <1>2, <1>3 DEF ModuleInv, DataRight
<1>5. k # "event" => k = "response" /\ MessageOf(s) = response[c]
  BY <1>1 DEF MessageOf
<1>. QED
  BY <1>1, <1>2, <1>4, <1>5 DEF SentRight

LEMMA LogResponseGives ==
  ASSUME Carried, ModuleInv, NEW c \in Calls, LogResponse(c)
  PROVE  ModuleInv'
<1>. DEFINE r == response[c]
            view == ModuleBody(r)
<1>1. /\ UNCHANGED <<options, module, call, carried, data>> /\ call[c] = "answered"
      /\ sent' = sent \cup OnResponse(c, "response", r.status, r.contentType, view.size, view)
      /\ metrics' = metrics \cup CollectMetrics(c, view.size)
  BY DEF LogResponse, Through, path, ResponseDue
<1>2. MessagesStay /\ RequestDue(c)
  BY <1>1 DEF MessagesStay, RequestDue, carried
<1>3. r.body \in Bodies /\ r.empty \in BOOLEAN
  BY <1>1, MessagesTyped
<1>4. WholeBody(view.size, r)
  BY <1>3, ViewIsWhole
<1>5. ComesFrom(ExtractData(module.responseQuery, r.contentType, view), r)
  BY <1>3, QueriesRegistered, ExtractedIsOwn
<1>6. ASSUME NEW s \in OnResponse(c, "response", r.status, r.contentType, view.size, view)
      PROVE  SentRight(s)
  BY <1>1, <1>2, <1>4, <1>5, ResponseGives
<1>7. ASSUME NEW e \in CollectMetrics(c, view.size) PROVE CountRight(e)
  <2>1. e = [call |-> c, method |-> IF data[c] = None THEN "" ELSE data[c].method,
             received |-> 0, sent |-> view.size]
    BY <1>7 DEF CollectMetrics
  <2>2. e.method \in {"", request[c].rpc}
    BY <2>1 DEF ModuleInv, DataRight
  <2>. QED
    BY <1>1, <1>4, <2>1, <2>2 DEF CountRight
<1>8. ASSUME NEW b \in Calls PROVE DataRight(b)'
  BY <1>1, <1>2, NotedStays DEF ModuleInv
<1>9. ASSUME NEW s \in sent' PROVE SentRight(s)'
  BY <1>1, <1>2, <1>6, SentStays DEF ModuleInv
<1>10. ASSUME NEW e \in metrics' PROVE CountRight(e)'
  BY <1>1, <1>2, <1>7, CountStays DEF ModuleInv
<1>. QED
  BY <1>1, <1>8, <1>9, <1>10 DEF ModuleInv

LEMMA LogEventGives ==
  ASSUME ModuleInv, NEW c \in Calls, LogEvent(c)
  PROVE  ModuleInv'
<1>. DEFINE view == IF event[c].whole THEN [form |-> "tree", kind |-> "object", leaf |-> event[c].leaf]
                    ELSE [form |-> "bytes", kind |-> "other"]
            contentType == {"", "text/event-stream"}
<1>1. /\ UNCHANGED <<options, module, call, carried, data, metrics>> /\ call[c] = "streaming"
      /\ sent' = sent \cup OnResponse(c, "event", 200, contentType, 0, view)
  BY DEF LogEvent, Through, path
<1>. HIDE DEF view, contentType
<1>2. MessagesStay /\ RequestDue(c)
  BY <1>1 DEF MessagesStay, RequestDue, carried
<1>3. ASSUME NEW s \in OnResponse(c, "event", 200, contentType, 0, view)
      PROVE  SentRight(s)
  BY <1>2, ResponseGives
<1>4. ASSUME NEW b \in Calls PROVE DataRight(b)'
  BY <1>1, <1>2, NotedStays DEF ModuleInv
<1>5. ASSUME NEW s \in sent' PROVE SentRight(s)'
  BY <1>1, <1>2, <1>3, SentStays DEF ModuleInv
<1>6. ASSUME NEW e \in metrics' PROVE CountRight(e)'
  BY <1>1, <1>2, CountStays DEF ModuleInv
<1>. QED
  BY <1>1, <1>4, <1>5, <1>6 DEF ModuleInv

LEMMA ModuleNext ==
  ASSUME Carried, ModuleInv, [Next]_vars
  PROVE  ModuleInv'
<1>1. CASE FlowControl
  <2>1. UNCHANGED <<module, call, carried, results>>
    BY <1>1 DEF FlowControl, HandleStart, HandleStop, HandleBlock, HandleUnblock, Handle, path
  <2>. QED
    BY <2>1, ModuleStays DEF MessagesStay, RequestDue, carried, results
<1>2. ASSUME NEW c \in Calls, NEW r \in Requests, Arrive(c, r) PROVE ModuleInv'
  BY <1>2, ModuleStays DEF Arrive, Carried, MessagesStay, RequestDue, results
<1>3. ASSUME NEW c \in Calls, CheckFlow(c) PROVE ModuleInv'
  BY <1>3, ModuleStays DEF CheckFlow, Carried, MessagesStay, RequestDue, results, carried
<1>4. ASSUME NEW c \in Calls, NEW r \in Responses, Respond(c, r) PROVE ModuleInv'
  BY <1>4, ModuleStays DEF Respond, Carried, MessagesStay, RequestDue, results
<1>5. ASSUME NEW c \in Calls, NEW e \in EventsOf, Stream(c, e) PROVE ModuleInv'
  BY <1>5, ModuleStays DEF Stream, Carried, MessagesStay, RequestDue, results
<1>6. ASSUME NEW c \in Calls, NEW k, GiveUp(c, k) PROVE ModuleInv'
  BY <1>6, ModuleStays DEF GiveUp, Through, MessagesStay, RequestDue, path, carried
<1>7. CASE UNCHANGED vars
  BY <1>7, ModuleStays DEF vars, path, carried, results, MessagesStay, RequestDue
<1>. QED
  BY <1>1, <1>2, <1>3, <1>4, <1>5, <1>6, <1>7, LogRequestGives, LogResponseGives, LogEventGives
  DEF Next, Log

(* However the log is abridged, modules and metrics are given the sizes and *)
(* the values of the bodies as they came, for any bodies, queries, modules, *)
(* options and calls.                                                       *)
THEOREM ModulesRight == Spec => []ModulesUnaffected
<1>1. ASSUME ModuleInv PROVE ModulesUnaffected
  BY <1>1 DEF ModuleInv, SentRight, CountRight, ModulesUnaffected
<1>2. LogInv /\ ModuleInv /\ [Next]_vars => LogInv' /\ ModuleInv'
  BY LogNext, ModuleNext DEF LogInv
<1>. QED
  BY <1>1, <1>2, CarriedInit, ModuleInit, PTL DEF Spec

-----------------------------------------------------------------------------
(* The flow control. *)

Demands == [verb : {"start", "stop"}] \cup [verb : {"block", "unblock"}, route : Routes]

(* The flags are what the history says, and so is every verdict, for some   *)
(* part of the history that reaches into the call's window.                 *)
Verdict(c) ==
  \E k \in window[c].from..window[c].to :
    call[c] = "refused" <=> Refuses(SubSeq(history, 1, k), request[c].path)

FlowInv ==
  /\ history \in Seq(Demands)
  /\ flowEnabled = ~StoppedBy(history)
  /\ flowBlocked = {r \in Routes : BlockedBy(history, r)}
  /\ call \in [Calls -> {"new", "arrived", "refused", "forwarded", "answered", "streaming"}]
  /\ request \in [Calls -> Requests \cup {None}]
  /\ window \in [Calls -> [from : 0..Len(history), to : 0..Len(history)]]
  /\ \A c \in Calls : call[c] \notin {"new", "arrived"} => Verdict(c)

LEMMA StoppedAppend ==
  ASSUME NEW h \in Seq(Demands), NEW d \in Demands
  PROVE  StoppedBy(Append(h, d)) <=> d.verb = "stop" \/ (d.verb # "start" /\ StoppedBy(h))
<1>. DEFINE g == Append(h, d)
<1>1. /\ Len(g) = Len(h) + 1 /\ Len(h) \in Nat
      /\ DOMAIN g = 1..(Len(h) + 1) /\ DOMAIN h = 1..Len(h)
      /\ \A i \in 1..Len(h) : g[i] = h[i]
      /\ g[Len(h) + 1] = d
  OBVIOUS
<1>. HIDE DEF g
<1>2. ASSUME d.verb = "stop" PROVE StoppedBy(g)
  BY <1>1, <1>2 DEF StoppedBy
<1>3. ASSUME d.verb # "start", StoppedBy(h) PROVE StoppedBy(g)
  <2>1. PICK i \in DOMAIN h : h[i].verb = "stop" /\ \A j \in (i + 1)..Len(h) : h[j].verb # "start"
    BY <1>3 DEF StoppedBy
  <2>2. \A j \in (i + 1)..Len(g) : g[j].verb # "start"
    BY <1>1, <1>3, <2>1
  <2>. QED
    BY <1>1, <2>1, <2>2 DEF StoppedBy
<1>4. ASSUME StoppedBy(g), d.verb # "stop" PROVE d.verb # "start" /\ StoppedBy(h)
  <2>1. PICK i \in DOMAIN g : g[i].verb = "stop" /\ \A j \in (i + 1)..Len(g) : g[j].verb # "start"
    BY <1>4 DEF StoppedBy
  <2>2. i \in DOMAIN h /\ h[i].verb = "stop"
    BY <1>1, <1>4, <2>1
  <2>3. d.verb # "start"
    BY <1>1, <2>1, <2>2
  <2>4. \A j \in (i + 1)..Len(h) : h[j].verb # "start"
    BY <1>1, <2>1, <2>2
  <2>. QED
    BY <2>2, <2>3, <2>4 DEF StoppedBy
<1>. QED
  BY <1>2, <1>3, <1>4 DEF g

LEMMA BlockedAppend ==
  ASSUME NEW h \in Seq(Demands), NEW d \in Demands, NEW r \in Routes
  PROVE  BlockedBy(Append(h, d), r) <=>
           \/ d.verb = "block" /\ d.route = r
           \/ BlockedBy(h, r) /\ (d.verb = "unblock" => d.route # r)
<1>. DEFINE g == Append(h, d)
<1>1. /\ Len(g) = Len(h) + 1 /\ Len(h) \in Nat
      /\ DOMAIN g = 1..(Len(h) + 1) /\ DOMAIN h = 1..Len(h)
      /\ \A i \in 1..Len(h) : g[i] = h[i]
      /\ g[Len(h) + 1] = d
  OBVIOUS
<1>. HIDE DEF g
<1>2. ASSUME d.verb = "block", d.route = r PROVE BlockedBy(g, r)
  BY <1>1, <1>2 DEF BlockedBy
<1>3. ASSUME d.verb = "unblock" => d.route # r, BlockedBy(h, r) PROVE BlockedBy(g, r)
  <2>1. PICK i \in DOMAIN h : /\ h[i].verb = "block" /\ h[i].route = r
                              /\ \A j \in (i + 1)..Len(h) : h[j].verb = "unblock" => h[j].route # r
    BY <1>3 DEF BlockedBy
  <2>2. \A j \in (i + 1)..Len(g) : g[j].verb = "unblock" => g[j].route # r
    BY <1>1, <1>3, <2>1
  <2>. QED
    BY <1>1, <2>1, <2>2 DEF BlockedBy
<1>4. ASSUME BlockedBy(g, r), ~(d.verb = "block" /\ d.route = r)
      PROVE  BlockedBy(h, r) /\ (d.verb = "unblock" => d.route # r)
  <2>1. PICK i \in DOMAIN g : /\ g[i].verb = "block" /\ g[i].route = r
                              /\ \A j \in (i + 1)..Len(g) : g[j].verb = "unblock" => g[j].route # r
    BY <1>4 DEF BlockedBy
  <2>2. i \in DOMAIN h /\ h[i].verb = "block" /\ h[i].route = r
    BY <1>1, <1>4, <2>1
  <2>3. d.verb = "unblock" => d.route # r
    BY <1>1, <2>1, <2>2
  <2>4. \A j \in (i + 1)..Len(h) : h[j].verb = "unblock" => h[j].route # r
    BY <1>1, <2>1, <2>2
  <2>. QED
    BY <2>2, <2>3, <2>4 DEF BlockedBy
<1>. QED
  BY <1>2, <1>3, <1>4 DEF g

LEMMA FlowInit == Init => FlowInv
<1>. SUFFICES ASSUME Init PROVE FlowInv
  OBVIOUS
<1>1. history = <<>> /\ DOMAIN history = {} /\ Len(history) = 0 /\ history \in Seq(Demands)
  BY DEF Init
<1>2. ~StoppedBy(history) /\ \A r \in Routes : ~BlockedBy(history, r)
  BY <1>1 DEF StoppedBy, BlockedBy
<1>3. 0..Len(history) = {0}
  BY <1>1
<1>4. window \in [Calls -> [from : {0}, to : {0}]]
  BY DEF Init
<1>. QED
  BY <1>1, <1>2, <1>3, <1>4 DEF Init, FlowInv

(* A further demand leaves the verdicts that were given.                    *)
LEMMA VerdictsStay ==
  ASSUME FlowInv, NEW d \in Demands, history' = Append(history, d), UNCHANGED <<call, request, window>>
  PROVE  /\ history' \in Seq(Demands)
         /\ window' \in [Calls -> [from : 0..Len(history'), to : 0..Len(history')]]
         /\ \A c \in Calls : call'[c] \notin {"new", "arrived"} => Verdict(c)'
<1>1. history \in Seq(Demands) /\ Len(history) \in Nat /\ Len(history') = Len(history) + 1
  BY DEF FlowInv
<1>2. ASSUME NEW c \in Calls, call[c] \notin {"new", "arrived"} PROVE Verdict(c)'
  <2>1. PICK k \in window[c].from..window[c].to :
               call[c] = "refused" <=> Refuses(SubSeq(history, 1, k), request[c].path)
    BY <1>2 DEF FlowInv, Verdict
  <2>2. k \in 0..Len(history)
    BY <1>1, <2>1 DEF FlowInv
  <2>3. SubSeq(history', 1, k) = SubSeq(history, 1, k)
    BY <1>1, <2>2
  <2>. QED
    BY <2>1, <2>3 DEF Verdict
<1>. QED
  BY <1>1, <1>2 DEF FlowInv

LEMMA ControlObeyed ==
  ASSUME FlowInv, FlowControl
  PROVE  FlowInv'
<1>1. ASSUME NEW d \in Demands, Handle(d) PROVE UNCHANGED <<call, request, window>> /\ history' = Append(history, d)
  BY <1>1 DEF Handle, path, carried
<1>2. history \in Seq(Demands)
  BY DEF FlowInv
<1>3. CASE HandleStart
  <2>. DEFINE d == [verb |-> "start"]
  <2>1. d \in Demands /\ d.verb = "start" /\ Handle(d)
    BY <1>3 DEF HandleStart, Demands
  <2>2. history' = Append(history, d)
    BY <1>1, <2>1
  <2>3. ~StoppedBy(Append(history, d))
    BY <1>2, <2>1, StoppedAppend
  <2>4. ASSUME NEW r \in Routes PROVE BlockedBy(Append(history, d), r) <=> BlockedBy(history, r)
    BY <1>2, <2>1, BlockedAppend
  <2>. QED
    BY <1>1, <1>3, <2>1, <2>2, <2>3, <2>4, VerdictsStay DEF FlowInv, HandleStart
<1>4. CASE HandleStop
  <2>. DEFINE d == [verb |-> "stop"]
  <2>1. d \in Demands /\ d.verb = "stop" /\ Handle(d)
    BY <1>4 DEF HandleStop, Demands
  <2>2. history' = Append(history, d)
    BY <1>1, <2>1
  <2>3. StoppedBy(Append(history, d))
    BY <1>2, <2>1, StoppedAppend
  <2>4. ASSUME NEW r \in Routes PROVE BlockedBy(Append(history, d), r) <=> BlockedBy(history, r)
    BY <1>2, <2>1, BlockedAppend
  <2>. QED
    BY <1>1, <1>4, <2>1, <2>2, <2>3, <2>4, VerdictsStay DEF FlowInv, HandleStop
<1>5. ASSUME NEW s \in Routes, HandleBlock(s) PROVE FlowInv'
  <2>. DEFINE d == [verb |-> "block", route |-> s]
  <2>1. d \in Demands /\ d.verb = "block" /\ d.route = s /\ Handle(d)
    BY <1>5 DEF HandleBlock, Demands
  <2>. HIDE DEF d
  <2>2. history' = Append(history, d)
    BY <1>1, <2>1
  <2>3. StoppedBy(Append(history, d)) <=> StoppedBy(history)
    BY <1>2, <2>1, StoppedAppend
  <2>4. ASSUME NEW r \in Routes PROVE BlockedBy(Append(history, d), r) <=> r = s \/ BlockedBy(history, r)
    BY <1>2, <2>1, BlockedAppend
  <2>. QED
    BY <1>1, <1>5, <2>1, <2>2, <2>3, <2>4, VerdictsStay DEF FlowInv, HandleBlock
<1>6. ASSUME NEW s \in Routes, HandleUnblock(s) PROVE FlowInv'
  <2>. DEFINE d == [verb |-> "unblock", route |-> s]
  <2>1. d \in Demands /\ d.verb = "unblock" /\ d.route = s /\ Handle(d)
    BY <1>6 DEF HandleUnblock, Demands
  <2>. HIDE DEF d
  <2>2. history' = Append(history, d)
    BY <1>1, <2>1
  <2>3. StoppedBy(Append(history, d)) <=> StoppedBy(history)
    BY <1>2, <2>1, StoppedAppend
  <2>4. ASSUME NEW r \in Routes PROVE BlockedBy(Append(history, d), r) <=> r # s /\ BlockedBy(history, r)
    BY <1>2, <2>1, BlockedAppend
  <2>. QED
    BY <1>1, <1>6, <2>1, <2>2, <2>3, <2>4, VerdictsStay DEF FlowInv, HandleUnblock
<1>. QED
  BY <1>3, <1>4, <1>5, <1>6 DEF FlowControl

LEMMA CheckObeyed ==
  ASSUME FlowInv, NEW c \in Calls, CheckFlow(c)
  PROVE  FlowInv'
<1>1. /\ call' = [call EXCEPT ![c] = IF flowEnabled /\ ~Blocked(c) THEN "forwarded" ELSE "refused"]
      /\ window' = [window EXCEPT ![c].to = Len(history)]
      /\ UNCHANGED <<flowEnabled, flowBlocked, history, request>>
  BY DEF CheckFlow, flow, carried
<1>2. Len(history) \in Nat /\ SubSeq(history, 1, Len(history)) = history
  BY DEF FlowInv
<1>3. flowEnabled /\ ~Blocked(c) <=> ~Refuses(history, request[c].path)
  BY DEF FlowInv, Blocked, Refuses
<1>4. Verdict(c)'
  <2>1. window'[c].from..window'[c].to = window[c].from..Len(history) /\ window[c].from \in 0..Len(history)
    BY <1>1 DEF FlowInv
  <2>2. call'[c] = "refused" <=> Refuses(history, request[c].path)
    BY <1>1, <1>3 DEF FlowInv
  <2>3. Len(history) \in window[c].from..Len(history)
    BY <1>2, <2>1
  <2>4. call'[c] = "refused" <=> Refuses(SubSeq(history', 1, Len(history)), request'[c].path)
    BY <1>1, <1>2, <2>2
  <2>. QED
    BY <2>1, <2>3, <2>4 DEF Verdict
<1>5. ASSUME NEW b \in Calls \ {c}, call'[b] \notin {"new", "arrived"} PROVE Verdict(b)'
  <2>1. call'[b] = call[b] /\ window'[b] = window[b] /\ Verdict(b)
    BY <1>1, <1>5 DEF FlowInv
  <2>. QED
    BY <1>1, <2>1 DEF Verdict
<1>6. window' \in [Calls -> [from : 0..Len(history), to : 0..Len(history)]]
  <2>1. Len(history) \in 0..Len(history)
    BY <1>2
  <2>2. window \in [Calls -> [from : 0..Len(history), to : 0..Len(history)]]
    BY DEF FlowInv
  <2>. QED
    BY <1>1, <2>1, <2>2
<1>. QED
  BY <1>1, <1>4, <1>5, <1>6 DEF FlowInv

(* A step that leaves the history alone and moves calls within their        *)
(* verdict.                                                                 *)
LEMMA FlowStays ==
  ASSUME FlowInv, UNCHANGED flow,
         call' \in [Calls -> {"new", "arrived", "refused", "forwarded", "answered", "streaming"}],
         request' \in [Calls -> Requests \cup {None}],
         window' \in [Calls -> [from : 0..Len(history), to : 0..Len(history)]],
         \A c \in Calls : call'[c] \notin {"new", "arrived"} =>
           /\ call[c] \notin {"new", "arrived"}
           /\ call'[c] = "refused" <=> call[c] = "refused"
           /\ window'[c] = window[c] /\ request'[c] = request[c]
  PROVE  FlowInv'
BY DEF FlowInv, flow, Verdict

LEMMA FlowNext ==
  ASSUME FlowInv, [Next]_vars
  PROVE  FlowInv'
<1>1. ASSUME NEW c \in Calls, NEW r \in Requests, Arrive(c, r) PROVE FlowInv'
  <2>1. Len(history) \in 0..Len(history)
    BY DEF FlowInv
  <2>. QED
    BY <1>1, <2>1, FlowStays DEF Arrive, FlowInv
<1>2. ASSUME NEW c \in Calls, NEW r \in Responses, Respond(c, r) PROVE FlowInv'
  BY <1>2, FlowStays DEF Respond, FlowInv
<1>3. ASSUME NEW c \in Calls, NEW e \in EventsOf, Stream(c, e) PROVE FlowInv'
  BY <1>3, FlowStays DEF Stream, FlowInv
<1>4. ASSUME NEW c \in Calls, Log(c) PROVE FlowInv'
  <2>1. UNCHANGED <<flow, path, carried>>
    BY <1>4 DEF Log, LogRequest, LogResponse, LogEvent, GiveUp, Through
  <2>. QED
    BY <2>1, FlowStays DEF path, carried, FlowInv
<1>5. CASE UNCHANGED vars
  BY <1>5, FlowStays DEF vars, path, carried, FlowInv
<1>. QED
  BY <1>1, <1>2, <1>3, <1>4, <1>5, ControlObeyed, CheckObeyed DEF Next

(* Every verdict is that of one moment between the call's arrival and its   *)
(* verdict, for any calls, routes and number of requests to the API.        *)
THEOREM FlowRight == Spec => []FlowObeyed
<1>1. FlowInv => FlowObeyed
  BY DEF FlowInv, Verdict, FlowObeyed
<1>. QED
  BY <1>1, FlowInit, FlowNext, PTL DEF Spec
=============================================================================
