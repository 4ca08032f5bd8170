---------------------------- MODULE LoggingTasks ----------------------------
(***************************************************************************)
(* The goroutines that log calls (src/snooper/logging.go), by name.        *)
(***************************************************************************)

CONSTANTS Calls,     \* calls that pass the flow check
          Streams,   \* those the origin may answer with an event stream
          Plain,     \* those it may answer otherwise; it may fail all of them
          Events,    \* the events of an event stream, by name
          Stalled    \* loggers that may hang in their section for ever

(* Who closes the request stream of a call: the HTTP client's transport,    *)
(* and the handler when it returns.                                         *)
Closers == {"transport", "handler"}

(* A request logger is named after the Close that started it. *)
RequestLoggers == Calls \X Closers
ResponseLoggers == Plain \X {"response"}
EventLoggers == Streams \X Events
Loggers == RequestLoggers \cup ResponseLoggers \cup EventLoggers

ASSUME LoggersAssumption ==
  /\ Events \cap (Closers \cup {"response"}) = {}
  /\ Streams \cup Plain \subseteq Calls
  /\ Stalled \subseteq Loggers
=============================================================================
