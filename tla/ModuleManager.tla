--------------------------- MODULE ModuleManager ---------------------------
(***************************************************************************)
(* src/modules/manager.go with the hook modules of src/modules/builtin:    *)
(* WebSocket connections register modules with filters, the loggers hand   *)
(* each request and response to the modules (a dispatch), and a connection *)
(* that ends takes its modules along.  Connections, and the loggers that   *)
(* dispatch, run concurrently; the manager's mutex is held for one map     *)
(* access at a time and never while a module is called.                    *)
(***************************************************************************)
EXTENDS Naturals

CONSTANTS Conns,        \* WebSocket connections
          Calls,        \* proxied calls
          Streams,      \* those whose responses are events of a stream
          FilterConfigs,  \* the pairs of filters that modules register
          MaxModules    \* bound on the module numbers given out

(* A filter is the set of calls whose request, or response, it accepts; one *)
(* that accepts all of them stands for none as well.                        *)
ASSUME ManagerAssumption ==
  /\ Streams \subseteq Calls
  /\ FilterConfigs \subseteq [request : SUBSET Calls, response : SUBSET Calls]
  /\ MaxModules \in Nat \ {0}

Ids == 1..MaxModules

(* request_snooper and request_counter send from OnRequest;                 *)
(* response_snooper and response_tracer ask for the response in OnRequest   *)
(* and send from OnResponse.                                                *)
Kinds == {"request", "response"}

(* A dispatch is a run of ProcessRequest or ProcessResponse for a call. *)
Requests == Calls \X {"request"}
Responses == Calls \X {"response"}
Dispatches == Requests \cup Responses

(* As in OrderedProcessor, X_Slip... is X with a plausible mistake. *)

VARIABLES moduleCounter,  \* last module number given out
          modules,        \* the keys of the modules map
          filters,        \* the keys of the filters map
          module,         \* each module's kind, connection and filters
          conn,           \* where each connection stands
          connections,    \* the keys of the connections map
          owned,          \* connMgr.modules
          registered,     \* module put in the map, not yet in owned; or 0
          work,           \* where each dispatch stands
          todo,           \* the modules of its snapshot it has not come to
          wants, skip,    \* the call data: pairs of a call and a module
          rejected,       \* history: requests rejected by a module's filter
          sent            \* events sent: dispatch, module, and whether it was
                          \* still registered

registry == <<moduleCounter, modules, filters, module>>
links == <<conn, connections, owned, registered>>
dispatching == <<work, todo, wants, skip, rejected, sent>>
vars == <<registry, links, dispatching>>

NoModule == [kind |-> "none"]

(* "dropped": the peer is gone and the read has not failed yet; "closed":   *)
(* the read loop has ended and closed done; "removing": the deferred        *)
(* clean-up of HandleWebSocket runs.                                        *)
ConnPlaces == {"new", "open", "dropped", "closed", "removing", "gone"}

TypeOK ==
  /\ moduleCounter \in 0..MaxModules
  /\ modules \subseteq 1..moduleCounter
  /\ filters \subseteq 1..moduleCounter
  /\ module \in [Ids -> {NoModule} \cup [kind : Kinds, conn : Conns, filter : FilterConfigs]]
  /\ conn \in [Conns -> ConnPlaces]
  /\ connections \subseteq Conns
  /\ owned \in [Conns -> SUBSET Ids]
  /\ registered \in [Conns -> 0..MaxModules]
  /\ work \in [Dispatches -> {"idle", "running", "done", "failed"}]
  /\ todo \in [Dispatches -> SUBSET Ids]
  /\ wants \subseteq Calls \X Ids
  /\ skip \subseteq Calls \X Ids
  /\ rejected \subseteq Calls \X Ids
  /\ sent \subseteq [by : Dispatches, id : Ids, live : BOOLEAN]

Init ==
  /\ moduleCounter = 0
  /\ modules = {} /\ filters = {}
  /\ module = [i \in Ids |-> NoModule]
  /\ conn = [n \in Conns |-> "new"]
  /\ connections = {}
  /\ owned = [n \in Conns |-> {}]
  /\ registered = [n \in Conns |-> 0]
  /\ work = [d \in Dispatches |-> "idle"]
  /\ todo = [d \in Dispatches |-> {}]
  /\ wants = {} /\ skip = {} /\ rejected = {} /\ sent = {}

-----------------------------------------------------------------------------
(* Connections. *)

ConnMoves(n, from, to) == conn[n] \in from /\ conn' = [conn EXCEPT ![n] = to]

(* HandleWebSocket enters the connection and starts its read loop. *)
Connect(n) ==
  /\ ConnMoves(n, {"new"}, "open")
  /\ connections' = connections \cup {n}
  /\ UNCHANGED <<registry, owned, registered, dispatching>>

Drop(n) ==
  /\ ConnMoves(n, {"open"}, "dropped")
  /\ UNCHANGED <<registry, connections, owned, registered, dispatching>>

(* The read loop, which handles one message at a time, ends with an error   *)
(* of the read or of the JSON; Close closes done and the connection.        *)
EndReadLoop(n) ==
  /\ ConnMoves(n, {"open", "dropped"}, "closed")
  /\ registered[n] = 0
  /\ UNCHANGED <<registry, connections, owned, registered, dispatching>>

(* HandleWebSocket wakes up and takes the connection out of the map. *)
RemoveConnection(n) ==
  /\ ConnMoves(n, {"closed"}, "removing")
  /\ connections' = connections \ {n}
  /\ UNCHANGED <<registry, owned, registered, dispatching>>

-----------------------------------------------------------------------------
(* The registry. *)

(* UnregisterModule: any connection may name any module. *)
Unregister(i) ==
  /\ modules' = modules \ {i}
  /\ filters' = IF i \in modules THEN filters \ {i} ELSE filters
  /\ UNCHANGED <<moduleCounter, module>>

(* Stops after the first module. *)
CleanUp_SlipFirst(n) ==
  /\ ConnMoves(n, {"removing"}, "gone")
  /\ \/ owned[n] = {} /\ UNCHANGED <<registry, owned>>
     \/ \E i \in owned[n] : Unregister(i) /\ owned' = [owned EXCEPT ![n] = @ \ {i}]
  /\ UNCHANGED <<connections, registered, dispatching>>

(* One module of the connection after the other, then done. *)
CleanUp(n) ==
  /\ conn[n] = "removing"
  /\ \/ \E i \in owned[n] : /\ Unregister(i)
                            /\ owned' = [owned EXCEPT ![n] = @ \ {i}]
                            /\ UNCHANGED conn
     \/ /\ owned[n] = {}
        /\ conn' = [conn EXCEPT ![n] = "gone"]
        /\ UNCHANGED <<registry, owned>>
  /\ UNCHANGED <<connections, registered, dispatching>>

(* Takes the number before it increments the counter. *)
Register_SlipNumber(n, kind, filter) ==
  /\ conn[n] \in {"open", "dropped"} /\ registered[n] = 0
  /\ moduleCounter < MaxModules
  /\ moduleCounter' = moduleCounter + 1
  /\ modules' = modules \cup {moduleCounter}
  /\ filters' = filters \cup {moduleCounter}
  /\ module' = [module EXCEPT ![moduleCounter] = [kind |-> kind, conn |-> n, filter |-> filter]]
  /\ registered' = [registered EXCEPT ![n] = moduleCounter]
  /\ UNCHANGED <<conn, connections, owned, dispatching>>

(* Enters the module and leaves its filters for a later step. *)
Register_SlipNoFilter(n, kind, filter) ==
  /\ conn[n] \in {"open", "dropped"} /\ registered[n] = 0
  /\ moduleCounter < MaxModules
  /\ moduleCounter' = moduleCounter + 1
  /\ modules' = modules \cup {moduleCounter'}
  /\ module' = [module EXCEPT ![moduleCounter'] = [kind |-> kind, conn |-> n, filter |-> filter]]
  /\ registered' = [registered EXCEPT ![n] = moduleCounter']
  /\ UNCHANGED <<filters, conn, connections, owned, dispatching>>

(* handleModuleRegistration up to RegisterModule, which enters the module   *)
(* and its filters under one lock.  A message already read is handled even  *)
(* when the peer has dropped.                                               *)
Register(n, kind, filter) ==
  /\ conn[n] \in {"open", "dropped"} /\ registered[n] = 0
  /\ moduleCounter < MaxModules
  /\ moduleCounter' = moduleCounter + 1
  /\ modules' = modules \cup {moduleCounter'}
  /\ filters' = filters \cup {moduleCounter'}
  /\ module' = [module EXCEPT ![moduleCounter'] = [kind |-> kind, conn |-> n, filter |-> filter]]
  /\ registered' = [registered EXCEPT ![n] = moduleCounter']
  /\ UNCHANGED <<conn, connections, owned, dispatching>>

(* Loses the module when the peer has dropped before the answer. *)
FinishRegister_SlipDropped(n) ==
  /\ registered[n] # 0
  /\ owned' = IF conn[n] = "open" THEN [owned EXCEPT ![n] = @ \cup {registered[n]}] ELSE owned
  /\ registered' = [registered EXCEPT ![n] = 0]
  /\ UNCHANGED <<registry, conn, connections, dispatching>>

(* The module is appended to connMgr.modules and the answer sent. *)
FinishRegister(n) ==
  /\ registered[n] # 0
  /\ owned' = [owned EXCEPT ![n] = @ \cup {registered[n]}]
  /\ registered' = [registered EXCEPT ![n] = 0]
  /\ UNCHANGED <<registry, conn, connections, dispatching>>

(* An unknown type, a filter that does not compile, a bad configuration:    *)
(* the number is used up.                                                   *)
RegisterFails(n) ==
  /\ conn[n] \in {"open", "dropped"} /\ registered[n] = 0
  /\ moduleCounter < MaxModules
  /\ moduleCounter' = moduleCounter + 1
  /\ UNCHANGED <<modules, filters, module, links, dispatching>>

(* handleModuleUnregistration. *)
UnregisterMessage(n, i) ==
  /\ conn[n] \in {"open", "dropped"} /\ registered[n] = 0
  /\ i \in 1..moduleCounter
  /\ Unregister(i)
  /\ owned' = [owned EXCEPT ![n] = @ \ {i}]
  /\ UNCHANGED <<conn, connections, registered, dispatching>>

-----------------------------------------------------------------------------
(* Dispatches. *)

(* Responses are handed out after the request; events at any time. *)
MayStart(d) == d \in Requests \/ d[1] \in Streams \/ work[<<d[1], "request">>] \in {"done", "failed"}

(* The snapshot of the modules map. *)
Start(d) ==
  /\ work[d] = "idle" /\ MayStart(d)
  /\ work' = [work EXCEPT ![d] = "running"]
  /\ todo' = [todo EXCEPT ![d] = modules]
  /\ UNCHANGED <<registry, links, wants, skip, rejected, sent>>

(* The loop comes to module i, in no particular order. *)
Reach(d, i) == /\ work[d] = "running" /\ i \in todo[d]
               /\ todo' = [todo EXCEPT ![d] = @ \ {i}]

(* SendMessage or SendMessageWithBinary succeeds, or fails and with it the  *)
(* whole dispatch.                                                          *)
Send(d, i) ==
  \/ /\ conn[module[i].conn] \in {"open", "dropped"}
     /\ sent' = sent \cup {[by |-> d, id |-> i, live |-> i \in modules]}
     /\ UNCHANGED work
  \/ /\ conn[module[i].conn] # "open"
     /\ work' = [work EXCEPT ![d] = "failed"]
     /\ UNCHANGED sent

(* shouldProcessRequest looks the filters up when the loop comes to the     *)
(* module, and lets everything pass when it finds none.                     *)
RequestAccepted(c, i) == i \in filters => c \in module[i].filter.request

(* Does not remember that the request was rejected. *)
RejectRequest_SlipForget(c, i) ==
  LET d == <<c, "request">> IN
  /\ Reach(d, i)
  /\ ~RequestAccepted(c, i)
  /\ rejected' = rejected \cup {<<c, i>>}
  /\ UNCHANGED <<registry, links, work, wants, skip, sent>>

RejectRequest(c, i) ==
  LET d == <<c, "request">> IN
  /\ Reach(d, i)
  /\ ~RequestAccepted(c, i)
  /\ skip' = skip \cup {<<c, i>>}
  /\ rejected' = rejected \cup {<<c, i>>}
  /\ UNCHANGED <<registry, links, work, wants, sent>>

(* OnRequest *)
OnRequest(c, i) ==
  LET d == <<c, "request">> IN
  /\ Reach(d, i)
  /\ RequestAccepted(c, i)
  /\ \/ /\ module[i].kind = "request"
        /\ Send(d, i)
        /\ UNCHANGED wants
     \/ /\ module[i].kind = "response"
        /\ wants' = wants \cup {<<c, i>>}
        /\ UNCHANGED <<work, sent>>
  /\ UNCHANGED <<registry, links, skip, rejected>>

(* shouldProcessResponse: a module that asked for the response gets it      *)
(* whatever its response filter says.                                       *)
ResponseAccepted(c, i) ==
  \/ <<c, i>> \in wants
  \/ <<c, i>> \notin skip /\ (i \in filters => c \in module[i].filter.response)

(* A response that is not accepted, or a module that does nothing with it. *)
PassResponse(c, i) ==
  /\ Reach(<<c, "response">>, i)
  /\ ~ResponseAccepted(c, i) \/ module[i].kind = "request"
  /\ UNCHANGED <<registry, links, work, wants, skip, rejected, sent>>

(* OnResponse *)
OnResponse(c, i) ==
  LET d == <<c, "response">> IN
  /\ Reach(d, i)
  /\ ResponseAccepted(c, i) /\ module[i].kind = "response"
  /\ Send(d, i)
  /\ UNCHANGED <<registry, links, wants, skip, rejected>>

End(d) ==
  /\ work[d] = "running" /\ todo[d] = {}
  /\ work' = [work EXCEPT ![d] = "done"]
  /\ UNCHANGED <<registry, links, todo, wants, skip, rejected, sent>>

-----------------------------------------------------------------------------
ConnStep(n) ==
  \/ Connect(n) \/ Drop(n) \/ EndReadLoop(n) \/ RemoveConnection(n) \/ CleanUp(n)
  \/ \E kind \in Kinds, filter \in FilterConfigs : Register(n, kind, filter)
  \/ FinishRegister(n) \/ RegisterFails(n)
  \/ \E i \in Ids : UnregisterMessage(n, i)

CallStep(c, i) ==
  RejectRequest(c, i) \/ OnRequest(c, i) \/ PassResponse(c, i) \/ OnResponse(c, i)

Next == \/ \E n \in Conns : ConnStep(n)
        \/ \E c \in Calls, i \in Ids : CallStep(c, i)
        \/ \E d \in Dispatches : Start(d) \/ End(d)

Spec == Init /\ [][Next]_vars

(* The read of a dropped connection fails and the goroutines of a           *)
(* connection run; a dispatch may hang in a send for ever.                  *)
FairSpec ==
  /\ Spec
  /\ \A n \in Conns : WF_vars(\/ conn[n] = "dropped" /\ EndReadLoop(n)
                              \/ RemoveConnection(n) \/ CleanUp(n) \/ FinishRegister(n))

-----------------------------------------------------------------------------
(* A module in the map belongs to a connection that will still unregister   *)
(* it, through any order of registering, dropping, cleaning up and          *)
(* unregistering each other's modules; and filters go with their modules.   *)
NoOrphans ==
  /\ \A i \in modules :
       LET n == module[i].conn IN
       /\ conn[n] \in {"open", "dropped", "closed", "removing"}
       /\ i \in owned[n] \/ (i = registered[n] /\ conn[n] \in {"open", "dropped"})
  /\ filters \subseteq modules

(* A registered module sees no request that its filter rejects.  (One that  *)
(* was unregistered between the snapshot and its turn may: its filter is    *)
(* gone.)                                                                   *)
RequestFilterHonoured ==
  \A s \in sent : s.by \in Requests /\ s.live => s.by[1] \in module[s.id].filter.request

(* A module whose filter rejected the request of a call gets no response    *)
(* of it.  (Events of a stream may come before the request.)                *)
RejectedNotAnswered ==
  \A s \in sent : s.by \in Responses /\ s.by[1] \notin Streams /\ s.live
                    => <<s.by[1], s.id>> \notin rejected

(* When a connection drops, its modules are unregistered and stay so, also  *)
(* while dispatches hang.                                                   *)
DroppedCleaned ==
  \A n \in Conns : conn[n] = "dropped" ~>
    conn[n] = "gone" /\ \A i \in modules : module[i].conn # n

(* counter.go:46, "Log error but don't fail the request processing": a      *)
(* module that cannot be reached does not keep the call from another one    *)
(* whose connection is open.                                                *)
FailureIsolated ==
  \A d \in Dispatches : work[d] \in {"done", "failed"} =>
    \A i \in todo[d] \cap modules : conn[module[i].conn] # "open"
============================================================================
