------------------------------ MODULE Filters ------------------------------
(***************************************************************************)
(* Which requests and responses a filter lets through                      *)
(* (src/modules/filters.go), and what parseFilter makes of the filter's    *)
(* JSON (src/modules/manager.go).  A list counts as the set of its         *)
(* entries.  A content type is the set of the strings it contains, the     *)
(* empty one among them: strings.Contains is membership.                   *)
(***************************************************************************)
EXTENDS Naturals, Sequences

CONSTANTS Fold(_),       \* two methods are EqualFold when this agrees on them
          Wrong,         \* a list entry of another JSON type
          Undecodable    \* a body that is not JSON

(* A query is what gojq makes of it: for each kind of data the results, up  *)
(* to "leaf", a value of the data itself.  Null has none.                   *)
Results == {"true", "false", "null", "error", "leaf"}
Decodable == {"object", "batch", "null"}
Queries == {q \in [Decodable -> Seq(Results)] : \A i \in DOMAIN q["null"] : q["null"][i] # "leaf"}
NoQuery == [none |-> TRUE]

-----------------------------------------------------------------------------
(* parseFilter. *)

Listed(config, key) == IF key \in DOMAIN config THEN config[key] ELSE {}

(* make() fills the list with zero values, and only entries of the right    *)
(* type are copied.                                                         *)
OrZero(entries, zero) == {IF e = Wrong THEN zero ELSE e : e \in entries}

(* Skips entries of another type. *)
ParseFilter_SlipSkip(config) ==
  [contentTypes |-> Listed(config, "content_types") \ {Wrong},
   methods      |-> Listed(config, "methods") \ {Wrong},
   statusCodes  |-> Listed(config, "status_codes") \ {Wrong},
   query        |-> IF "json_query" \in DOMAIN config THEN config.json_query ELSE NoQuery]

ParseFilter(config) ==
  [contentTypes |-> OrZero(Listed(config, "content_types"), ""),
   methods      |-> OrZero(Listed(config, "methods"), ""),
   statusCodes  |-> OrZero(Listed(config, "status_codes"), 0),
   query        |-> IF "json_query" \in DOMAIN config THEN config.json_query ELSE NoQuery]

-----------------------------------------------------------------------------
(* The criteria.  An empty list asks for nothing. *)

MethodMatches(filter, method) ==
  filter.methods = {} \/ \E m \in filter.methods : Fold(m) = Fold(method)

StatusMatches(filter, status) ==
  filter.statusCodes = {} \/ status \in filter.statusCodes

ContentTypeMatches(filter, contentType) ==
  filter.contentTypes = {} \/ filter.contentTypes \cap contentType # {}

(* evaluateJSONQueryFilter: a truthy result before the first error. *)
Truthy(results) ==
  \E i \in DOMAIN results : /\ results[i] \notin {"false", "null", "error"}
                            /\ \A j \in 1..i : results[j] # "error"

EvaluateJSONQuery(query, data) == data # Undecodable /\ Truthy(query[data])

(* The query counts for JSON only. *)
QueryMatches(filter, contentType, data) ==
  filter.query # NoQuery /\ "json" \in contentType => EvaluateJSONQuery(filter.query, data)

ShouldProcessRequestFilter(filter, method, contentType, data) ==
  /\ MethodMatches(filter, method)
  /\ ContentTypeMatches(filter, contentType)
  /\ QueryMatches(filter, contentType, data)

ShouldProcessResponseFilter(filter, status, contentType, data) ==
  /\ StatusMatches(filter, status)
  /\ ContentTypeMatches(filter, contentType)
  /\ QueryMatches(filter, contentType, data)
============================================================================
