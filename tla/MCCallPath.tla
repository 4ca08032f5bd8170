---------------------------- MODULE MCCallPath ----------------------------
(***************************************************************************)
(* One call, with what it carries chosen around the limits of the log and  *)
(* for both verdicts of each filter.                                       *)
(***************************************************************************)
EXTENDS CallPath

MCFold(method) == CASE method \in {"POST", "post"} -> "post"
                    [] method = "GET" -> "get"
                    [] OTHER -> method

MCRoutes == {"/eth", "/eth/v1"}
MCPrefixOf == {<<"/eth", "/eth">>, <<"/eth", "/eth/v1">>, <<"/eth/v1", "/eth/v1">>}

MCOptions == {[hide |-> FALSE, truncate |-> FALSE, metrics |-> FALSE],
              [hide |-> FALSE, truncate |-> TRUE, metrics |-> TRUE],
              [hide |-> TRUE, truncate |-> TRUE, metrics |-> FALSE]}

-----------------------------------------------------------------------------
(* Bodies: JSON with a hex value at the threshold, one longer by a digit or *)
(* two, and a long value that is not hex; bytes around half of it.          *)

Leaf(len, hex) == [len |-> len, hex |-> hex]
Json(kind, leaf) == [kind |-> kind, size |-> leaf.len + 20, leaf |-> leaf]
Bytes(n) == [kind |-> "other", size |-> n, leaf |-> Leaf(0, FALSE)]
Null == [kind |-> "null", size |-> 4, leaf |-> Leaf(0, FALSE)]

JsonType == {"", "json", "application/json"}
SszType == {"", "application/octet-stream"}
TextType == {"", "text/plain"}

Message(contentType, body) ==
  [contentType |-> contentType, body |-> body, unpacks |-> TRUE, empty |-> FALSE]

Messages ==
  {Message(JsonType, b) : b \in {Json("object", Leaf(257, TRUE)), Json("object", Leaf(256, TRUE)),
                                 Json("text", Leaf(258, TRUE)), Json("batch", Leaf(300, FALSE)),
                                 Null, Bytes(128)}}
  \cup {Message(SszType, Bytes(n)) : n \in 127..129}
  \cup {Message(TextType, Json("object", Leaf(258, TRUE)))}
  \cup {[Message(JsonType, Bytes(0)) EXCEPT !.empty = TRUE],
        [Message(JsonType, Bytes(40)) EXCEPT !.unpacks = FALSE]}

Request(to, method, m) ==
  [path |-> to, method |-> method, rpc |-> "eth_call", contentType |-> m.contentType,
   body |-> m.body, unpacks |-> m.unpacks, empty |-> m.empty]

MCRequests == {Request("/eth/v1", "POST", m) : m \in Messages}
              \cup {Request("/eth", "GET", [Message(JsonType, Bytes(0)) EXCEPT !.empty = TRUE])}

Response(status, m) ==
  [status |-> status, contentType |-> m.contentType,
   body |-> m.body, unpacks |-> m.unpacks, empty |-> m.empty]

MCResponses ==
  {Response(200, Message(JsonType, Json("object", Leaf(257, TRUE)))),
   Response(200, Message(SszType, Bytes(128))),
   Response(404, Message(JsonType, Null)),
   Response(200, [Message(JsonType, Bytes(40)) EXCEPT !.unpacks = FALSE])}

MCEvents == {[whole |-> w, leaf |-> Leaf(258, TRUE)] : w \in BOOLEAN}

-----------------------------------------------------------------------------
(* Modules.  Lists with an entry of another type, queries that find the     *)
(* value, nothing, or something before an error, and the criteria of the    *)
(* hook client's README.md:44, where the parser does not look for them.     *)

Query(object, batch, null) == [object |-> object, batch |-> batch, null |-> null]

Select == Query(<<"leaf">>, <<"leaf", "error", "true">>, <<"null">>)
Errs == Query(<<"true", "error">>, <<"error", "true">>, <<"false", "null">>)

Module(type, config) == [type |-> type, config |-> config]

MCModules ==
  {Module("request_snooper", [request_filter |-> [methods |-> {"post", Wrong}]]),
   Module("request_snooper", [request_filter |-> [methods |-> {Wrong}]]),
   Module("request_snooper", [content_types |-> {"application/json"}, methods |-> {"POST"}]),
   Module("request_counter", [request_filter |-> [content_types |-> {Wrong}, json_query |-> Errs]]),
   Module("request_counter", [request_filter |-> [content_types |-> {"json"}]]),
   Module("response_snooper",
          [request_filter |-> [methods |-> {"GET"}], response_filter |-> [status_codes |-> {404}]]),
   Module("response_snooper",
          [response_filter |-> [status_codes |-> {200, Wrong}, json_query |-> Select]]),
   Module("response_tracer", [request_select |-> Select, response_select |-> Errs]),
   Module("response_tracer",
          [request_filter |-> [json_query |-> Select],
           request_select |-> Select, response_select |-> Select])}
=============================================================================
