------------------------ MODULE ModuleManagerProofs ------------------------
(***************************************************************************)
(* The safety properties of ModuleManager for any number of connections,   *)
(* calls and modules.                                                      *)
(***************************************************************************)
EXTENDS ModuleManager, TLAPS

(* What is in the maps was entered by Register, module and filters at once. *)
Entered ==
  /\ filters = modules
  /\ \A i \in modules : module[i] \in [kind : Kinds, conn : Conns, filter : FilterConfigs]

(* A dispatch that has not started has nothing to do and has sent nothing,  *)
(* and none knows of a number that was not given out.                       *)
KnownOnly ==
  /\ \A d \in Dispatches : /\ todo[d] \subseteq 1..moduleCounter
                           /\ work[d] = "idle" => todo[d] = {}
  /\ \A s \in sent : s.id \in 1..moduleCounter /\ work[s.by] # "idle"

(* A request is accepted or rejected by a module at most once, the          *)
(* rejection is remembered, and the response comes after it.                *)
DecidedOnce ==
  /\ rejected = skip
  /\ wants \cap skip = {}
  /\ \A p \in wants \cup skip : LET d == <<p[1], "request">> IN
       work[d] # "idle" /\ p[2] \notin todo[d]
  /\ \A c \in Calls \ Streams :
       work[<<c, "response">>] # "idle" => work[<<c, "request">>] \in {"done", "failed"}

(* The inductive invariant. *)
IInv == /\ TypeOK
        /\ Entered
        /\ NoOrphans
        /\ KnownOnly
        /\ DecidedOnce
        /\ RequestFilterHonoured
        /\ RejectedNotAnswered

-----------------------------------------------------------------------------
LEMMA InitIInv == Init => IInv
<1> SUFFICES ASSUME Init PROVE IInv
  OBVIOUS
<1>1. TypeOK
  BY ManagerAssumption DEF Init, TypeOK, ConnPlaces, Ids
<1>2. Entered /\ NoOrphans /\ KnownOnly /\ DecidedOnce
  BY DEF Init, Entered, NoOrphans, KnownOnly, DecidedOnce, Dispatches, Requests, Responses
<1>3. RequestFilterHonoured /\ RejectedNotAnswered
  BY DEF Init, RequestFilterHonoured, RejectedNotAnswered
<1> QED BY <1>1, <1>2, <1>3 DEF IInv

-----------------------------------------------------------------------------
(* The steps of the connections.  They leave the dispatches alone, and the  *)
(* modules that have a number.                                              *)
LEMMA DispatchesAlone ==
  ASSUME IInv, moduleCounter' \in Nat, moduleCounter <= moduleCounter',
         \A i \in 1..moduleCounter : module'[i] = module[i],
         UNCHANGED dispatching
  PROVE  KnownOnly' /\ DecidedOnce' /\ RequestFilterHonoured' /\ RejectedNotAnswered'
<1>1. moduleCounter \in Nat
  BY DEF IInv, TypeOK
<1>2. KnownOnly'
  BY <1>1 DEF IInv, KnownOnly, dispatching
<1>3. DecidedOnce' /\ RejectedNotAnswered'
  BY DEF IInv, DecidedOnce, RejectedNotAnswered, dispatching
<1>4. RequestFilterHonoured'
  BY DEF IInv, KnownOnly, RequestFilterHonoured, dispatching
<1> QED BY <1>2, <1>3, <1>4

(* A connection that is not cleaned up yet moves on. *)
LEMMA MoveConnIInv ==
  ASSUME IInv, NEW n \in Conns,
         Connect(n) \/ Drop(n) \/ EndReadLoop(n) \/ RemoveConnection(n)
  PROVE  IInv'
<1>1. /\ UNCHANGED <<registry, owned, registered, dispatching>>
      /\ connections' \subseteq connections \cup {n}
      /\ \E place \in ConnPlaces \ {"new", "gone"} : conn' = [conn EXCEPT ![n] = place]
  BY DEF Connect, Drop, EndReadLoop, RemoveConnection, ConnMoves, ConnPlaces
<1>2. TypeOK'
  BY <1>1 DEF IInv, TypeOK, registry, dispatching
<1>3. Entered'
  BY <1>1 DEF IInv, Entered, registry
<1>4. NoOrphans'
  <2> SUFFICES ASSUME NEW i \in modules, NEW m, m = module[i].conn
               PROVE  /\ conn'[m] \in {"open", "dropped", "closed", "removing"}
                      /\ i \in owned[m] \/ (i = registered[m] /\ conn'[m] \in {"open", "dropped"})
    BY <1>1 DEF IInv, NoOrphans, registry
  <2>1. m \in Conns /\ i # 0
    BY DEF IInv, TypeOK, Entered
  <2>2. /\ conn[m] \in {"open", "dropped", "closed", "removing"}
        /\ i \in owned[m] \/ (i = registered[m] /\ conn[m] \in {"open", "dropped"})
    BY DEF IInv, NoOrphans
  <2>3. CASE m = n
    BY <1>1, <2>1, <2>2, <2>3
       DEF IInv, TypeOK, Connect, Drop, EndReadLoop, RemoveConnection, ConnMoves, ConnPlaces
  <2>4. CASE m # n
    BY <1>1, <2>1, <2>2, <2>4 DEF IInv, TypeOK
  <2> QED BY <2>3, <2>4
<1>5. KnownOnly' /\ DecidedOnce' /\ RequestFilterHonoured' /\ RejectedNotAnswered'
  BY <1>1, DispatchesAlone DEF IInv, TypeOK, registry
<1> QED BY <1>2, <1>3, <1>4, <1>5 DEF IInv

(* Unregistering takes a module from the maps and from an owner's list.     *)
LEMMA UnregisterIInv ==
  ASSUME IInv, NEW n \in Conns, NEW i, Unregister(i),
         owned' = [owned EXCEPT ![n] = @ \ {i}],
         UNCHANGED <<conn, connections, registered, dispatching>>
  PROVE  IInv'
<1>1. modules' = modules \ {i} /\ filters' = modules' /\ UNCHANGED <<moduleCounter, module>>
  BY DEF Unregister, IInv, Entered
<1>2. TypeOK'
  BY <1>1 DEF IInv, TypeOK, dispatching
<1>3. Entered'
  BY <1>1 DEF IInv, Entered
<1>4. NoOrphans'
  <2>1. filters' \subseteq modules'
    BY <1>1
  <2>2. ASSUME NEW j \in modules', NEW m, m = module[j].conn
        PROVE  /\ conn[m] \in {"open", "dropped", "closed", "removing"}
               /\ j \in owned'[m] \/ (j = registered[m] /\ conn[m] \in {"open", "dropped"})
    <3>1. j \in modules /\ j # i
      BY <1>1
    <3>2. m \in Conns
      BY <2>2, <3>1 DEF IInv, Entered
    <3> QED BY <2>2, <3>1, <3>2 DEF IInv, TypeOK, NoOrphans
  <2> QED BY <1>1, <2>1, <2>2 DEF NoOrphans
<1>5. KnownOnly' /\ DecidedOnce' /\ RequestFilterHonoured' /\ RejectedNotAnswered'
  BY <1>1, DispatchesAlone DEF IInv, TypeOK
<1> QED BY <1>2, <1>3, <1>4, <1>5 DEF IInv

(* A connection that owns nothing any more has no module in the map.        *)
LEMMA CleanUpIInv == ASSUME IInv, NEW n \in Conns, CleanUp(n) PROVE IInv'
<1>1. CASE \E i \in owned[n] : /\ Unregister(i)
                               /\ owned' = [owned EXCEPT ![n] = @ \ {i}]
                               /\ UNCHANGED conn
  BY <1>1, UnregisterIInv DEF CleanUp
<1>2. CASE /\ owned[n] = {}
           /\ conn' = [conn EXCEPT ![n] = "gone"]
           /\ UNCHANGED <<registry, owned>>
  <2>1. conn[n] = "removing" /\ UNCHANGED <<connections, registered, dispatching>>
    BY DEF CleanUp
  <2>2. TypeOK'
    BY <1>2, <2>1 DEF IInv, TypeOK, ConnPlaces, registry, dispatching
  <2>3. Entered'
    BY <1>2 DEF IInv, Entered, registry
  <2>4. \A i \in modules : module[i].conn \in Conns /\ module[i].conn # n
    BY <1>2, <2>1 DEF IInv, Entered, NoOrphans
  <2>5. NoOrphans'
    BY <1>2, <2>1, <2>4 DEF IInv, TypeOK, NoOrphans, registry
  <2>6. KnownOnly' /\ DecidedOnce' /\ RequestFilterHonoured' /\ RejectedNotAnswered'
    BY <1>2, <2>1, DispatchesAlone DEF IInv, TypeOK, registry
  <2> QED BY <2>2, <2>3, <2>5, <2>6 DEF IInv
<1> QED BY <1>1, <1>2 DEF CleanUp

(* A new module has a number of its own.                                    *)
LEMMA RegisterIInv ==
  ASSUME IInv, NEW n \in Conns, NEW kind \in Kinds, NEW filter \in FilterConfigs,
         Register(n, kind, filter)
  PROVE  IInv'
<1> DEFINE new == moduleCounter + 1
<1>1. /\ conn[n] \in {"open", "dropped"} /\ registered[n] = 0
      /\ moduleCounter < MaxModules /\ moduleCounter' = new
      /\ modules' = modules \cup {new} /\ filters' = filters \cup {new}
      /\ module' = [module EXCEPT ![new] = [kind |-> kind, conn |-> n, filter |-> filter]]
      /\ registered' = [registered EXCEPT ![n] = new]
      /\ UNCHANGED <<conn, connections, owned, dispatching>>
  BY DEF Register
<1>2. moduleCounter \in Nat /\ new \in Ids /\ new # 0 /\ new \notin 1..moduleCounter
  BY <1>1, ManagerAssumption DEF IInv, TypeOK, Ids
<1>3. \A i \in 1..moduleCounter : i # 0 /\ i # new /\ i \in Ids /\ module'[i] = module[i]
  BY <1>1, <1>2, ManagerAssumption DEF IInv, TypeOK, Ids
<1>4. module'[new] = [kind |-> kind, conn |-> n, filter |-> filter]
  BY <1>1, <1>2 DEF IInv, TypeOK
<1>5. TypeOK'
  <2>1. modules' \subseteq 1..moduleCounter' /\ filters' \subseteq 1..moduleCounter'
    BY <1>1, <1>2 DEF IInv, TypeOK
  <2>2. /\ moduleCounter' \in 0..MaxModules
        /\ module' \in [Ids -> {NoModule} \cup [kind : Kinds, conn : Conns, filter : FilterConfigs]]
        /\ registered' \in [Conns -> 0..MaxModules]
    BY <1>1, <1>2, ManagerAssumption DEF IInv, TypeOK, Ids
  <2> QED BY <1>1, <2>1, <2>2 DEF IInv, TypeOK, dispatching
<1>6. Entered'
  BY <1>1, <1>3, <1>4 DEF IInv, TypeOK, Entered
<1>7. NoOrphans'
  <2>1. ASSUME NEW i \in modules, NEW m, m = module[i].conn
        PROVE  /\ conn[m] \in {"open", "dropped", "closed", "removing"}
               /\ i \in owned[m] \/ (i = registered'[m] /\ conn[m] \in {"open", "dropped"})
    <3>1. m \in Conns /\ i # 0
      BY <1>3, <2>1 DEF IInv, TypeOK, Entered
    <3> QED BY <1>1, <2>1, <3>1 DEF IInv, TypeOK, NoOrphans
  <2>2. new = registered'[n]
    BY <1>1 DEF IInv, TypeOK
  <2>3. \A i \in modules : module'[i] = module[i]
    BY <1>3 DEF IInv, TypeOK
  <2> QED BY <1>1, <1>4, <2>1, <2>2, <2>3 DEF IInv, NoOrphans
<1>8. KnownOnly' /\ DecidedOnce' /\ RequestFilterHonoured' /\ RejectedNotAnswered'
  BY <1>1, <1>2, <1>3, DispatchesAlone
<1> QED BY <1>5, <1>6, <1>7, <1>8 DEF IInv

LEMMA FinishRegisterIInv ==
  ASSUME IInv, NEW n \in Conns, FinishRegister(n)
  PROVE  IInv'
<1>1. /\ registered[n] # 0
      /\ owned' = [owned EXCEPT ![n] = @ \cup {registered[n]}]
      /\ registered' = [registered EXCEPT ![n] = 0]
      /\ UNCHANGED <<registry, conn, connections, dispatching>>
  BY DEF FinishRegister
<1>2. registered[n] \in Ids
  BY <1>1, ManagerAssumption DEF IInv, TypeOK, Ids
<1>3. TypeOK'
  <2>1. owned' \in [Conns -> SUBSET Ids] /\ registered' \in [Conns -> 0..MaxModules]
    BY <1>1, <1>2, ManagerAssumption DEF IInv, TypeOK
  <2> QED BY <1>1, <2>1 DEF IInv, TypeOK, registry, dispatching
<1>4. Entered'
  BY <1>1 DEF IInv, Entered, registry
<1>5. NoOrphans'
  <2> SUFFICES ASSUME NEW i \in modules, NEW m, m = module[i].conn
               PROVE  /\ conn[m] \in {"open", "dropped", "closed", "removing"}
                      /\ i \in owned'[m] \/ (i = registered'[m] /\ conn[m] \in {"open", "dropped"})
    BY <1>1 DEF IInv, NoOrphans, registry
  <2>1. m \in Conns
    BY DEF IInv, Entered
  <2> QED BY <1>1, <2>1 DEF IInv, TypeOK, NoOrphans
<1>6. KnownOnly' /\ DecidedOnce' /\ RequestFilterHonoured' /\ RejectedNotAnswered'
  BY <1>1, DispatchesAlone DEF IInv, TypeOK, registry
<1> QED BY <1>3, <1>4, <1>5, <1>6 DEF IInv

LEMMA RegisterFailsIInv ==
  ASSUME IInv, NEW n \in Conns, RegisterFails(n)
  PROVE  IInv'
<1>1. /\ moduleCounter < MaxModules /\ moduleCounter' = moduleCounter + 1
      /\ UNCHANGED <<modules, filters, module, links, dispatching>>
  BY DEF RegisterFails
<1>2. moduleCounter \in Nat /\ moduleCounter' \in 0..MaxModules
  BY <1>1, ManagerAssumption DEF IInv, TypeOK
<1>3. 1..moduleCounter \subseteq 1..moduleCounter'
  BY <1>1, <1>2
<1>4. TypeOK'
  BY <1>1, <1>2, <1>3 DEF IInv, TypeOK, links, dispatching
<1>5. Entered' /\ NoOrphans'
  BY <1>1 DEF IInv, Entered, NoOrphans, links
<1>6. KnownOnly' /\ DecidedOnce' /\ RequestFilterHonoured' /\ RejectedNotAnswered'
  BY <1>1, <1>2, DispatchesAlone
<1> QED BY <1>4, <1>5, <1>6 DEF IInv

(* Any connection may unregister any module; the lemma above is about the   *)
(* sender's list, and CleanUp's module is in its own.                       *)
LEMMA UnregisterMessageIInv ==
  ASSUME IInv, NEW n \in Conns, NEW i \in Ids, UnregisterMessage(n, i)
  PROVE  IInv'
BY UnregisterIInv DEF UnregisterMessage

-----------------------------------------------------------------------------
(* The steps of the dispatches.  They leave the maps and the connections    *)
(* alone.                                                                   *)
LEMMA MapsAlone ==
  ASSUME IInv, UNCHANGED <<registry, links>>
  PROVE  Entered' /\ NoOrphans'
BY DEF IInv, Entered, NoOrphans, registry, links

LEMMA DispatchKinds ==
  /\ \A c \in Calls : /\ <<c, "request">> \in Dispatches /\ <<c, "request">> \in Requests
                      /\ <<c, "response">> \in Dispatches /\ <<c, "response">> \in Responses
                      /\ <<c, "request">> \notin Responses /\ <<c, "response">> \notin Requests
  /\ \A d \in Requests : d[1] \in Calls /\ d = <<d[1], "request">>
  /\ \A d \in Responses : d[1] \in Calls /\ d = <<d[1], "response">>
BY DEF Dispatches, Requests, Responses

(* A dispatch starts or ends.                                               *)
LEMMA StartIInv == ASSUME IInv, NEW d \in Dispatches, Start(d) PROVE IInv'
<1>1. /\ work[d] = "idle" /\ MayStart(d)
      /\ work' = [work EXCEPT ![d] = "running"]
      /\ todo' = [todo EXCEPT ![d] = modules]
      /\ UNCHANGED <<registry, links, wants, skip, rejected, sent>>
  BY DEF Start
<1>2. modules \subseteq Ids /\ modules \subseteq 1..moduleCounter
  BY ManagerAssumption DEF IInv, TypeOK, Ids
<1>3. TypeOK'
  BY <1>1, <1>2 DEF IInv, TypeOK, registry, links
<1>4. Entered' /\ NoOrphans'
  BY <1>1, MapsAlone
<1>5. KnownOnly'
  BY <1>1, <1>2 DEF IInv, TypeOK, KnownOnly, registry
<1>6. DecidedOnce'
  <2>1. rejected' = skip' /\ wants' \cap skip' = {}
    BY <1>1 DEF IInv, DecidedOnce
  <2>2. ASSUME NEW p \in wants \cup skip
        PROVE  work'[<<p[1], "request">>] # "idle" /\ p[2] \notin todo'[<<p[1], "request">>]
    <3>1. <<p[1], "request">> \in Dispatches
      BY DispatchKinds DEF IInv, TypeOK
    <3> QED BY <1>1, <3>1 DEF IInv, TypeOK, DecidedOnce
  <2>3. ASSUME NEW c \in Calls \ Streams, work'[<<c, "response">>] # "idle"
        PROVE  work'[<<c, "request">>] \in {"done", "failed"}
    <3>1. CASE d = <<c, "response">>
      <4>1. work[<<c, "request">>] \in {"done", "failed"}
        BY <1>1, <3>1, DispatchKinds DEF MayStart
      <4> QED BY <1>1, <3>1, <4>1 DEF IInv, TypeOK
    <3>2. CASE d # <<c, "response">>
      <4>1. work[<<c, "request">>] \in {"done", "failed"}
        BY <1>1, <2>3, <3>2, DispatchKinds DEF IInv, TypeOK, DecidedOnce
      <4> QED BY <1>1, <4>1, DispatchKinds DEF IInv, TypeOK
    <3> QED BY <3>1, <3>2
  <2> QED BY <1>1, <2>1, <2>2, <2>3 DEF DecidedOnce
<1>7. RequestFilterHonoured' /\ RejectedNotAnswered'
  BY <1>1 DEF IInv, RequestFilterHonoured, RejectedNotAnswered, registry
<1> QED BY <1>3, <1>4, <1>5, <1>6, <1>7 DEF IInv

(* What a step within a dispatch keeps: it may end there, and has one       *)
(* module less to come to.                                                  *)
WithinDispatch(d) ==
  /\ work[d] = "running"
  /\ \E place \in {"running", "done", "failed"} : work' = [work EXCEPT ![d] = place]
  /\ \E rest \in SUBSET todo[d] : todo' = [todo EXCEPT ![d] = rest]
  /\ UNCHANGED <<registry, links>>

LEMMA WithinKeeps ==
  ASSUME IInv, NEW d \in Dispatches, WithinDispatch(d)
  PROVE  /\ work' \in [Dispatches -> {"idle", "running", "done", "failed"}]
         /\ todo' \in [Dispatches -> SUBSET Ids]
         /\ \A e \in Dispatches : /\ todo'[e] \subseteq todo[e]
                                  /\ work'[e] = "idle" <=> work[e] = "idle"
                                  /\ work[e] \in {"done", "failed"} => work'[e] = work[e]
BY DEF IInv, TypeOK, WithinDispatch

(* Such a step keeps what it does not touch.                                *)
LEMMA WithinIInv ==
  ASSUME IInv, NEW d \in Dispatches, WithinDispatch(d),
         wants' \subseteq Calls \X Ids, skip' \subseteq Calls \X Ids,
         rejected' = skip', wants' \cap skip' = {},
         \A p \in (wants' \cup skip') \ (wants \cup skip) :
           work[<<p[1], "request">>] = "running" /\ p[2] \notin todo'[<<p[1], "request">>],
         sent' \subseteq [by : Dispatches, id : Ids, live : BOOLEAN],
         \A s \in sent' \ sent : s.by = d /\ s.id \in 1..moduleCounter,
         RequestFilterHonoured', RejectedNotAnswered'
  PROVE  IInv'
<1>1. TypeOK'
  BY WithinKeeps DEF IInv, TypeOK, WithinDispatch, registry, links
<1>2. Entered' /\ NoOrphans'
  BY MapsAlone DEF WithinDispatch
<1>3. KnownOnly'
  <2>1. moduleCounter' = moduleCounter
    BY DEF WithinDispatch, registry
  <2>2. ASSUME NEW e \in Dispatches
        PROVE  todo'[e] \subseteq 1..moduleCounter /\ (work'[e] = "idle" => todo'[e] = {})
    BY WithinKeeps DEF IInv, KnownOnly
  <2>3. ASSUME NEW s \in sent' PROVE s.id \in 1..moduleCounter /\ work'[s.by] # "idle"
    <3>1. s.by \in Dispatches
      OBVIOUS
    <3>2. CASE s \in sent
      BY <3>1, <3>2, WithinKeeps DEF IInv, KnownOnly
    <3>3. CASE s \notin sent
      BY <3>1, <3>3, WithinKeeps DEF WithinDispatch
    <3> QED BY <3>2, <3>3
  <2> QED BY <2>1, <2>2, <2>3 DEF KnownOnly
<1>4. DecidedOnce'
  <2>1. ASSUME NEW p \in wants' \cup skip'
        PROVE  work'[<<p[1], "request">>] # "idle" /\ p[2] \notin todo'[<<p[1], "request">>]
    <3>1. <<p[1], "request">> \in Dispatches
      BY DispatchKinds
    <3>2. CASE p \in wants \cup skip
      BY <3>1, <3>2, WithinKeeps DEF IInv, DecidedOnce
    <3>3. CASE p \notin wants \cup skip
      BY <3>1, <3>3, WithinKeeps
    <3> QED BY <3>2, <3>3
  <2>2. \A c \in Calls \ Streams :
          work'[<<c, "response">>] # "idle" => work'[<<c, "request">>] \in {"done", "failed"}
    BY WithinKeeps, DispatchKinds DEF IInv, DecidedOnce
  <2> QED BY <2>1, <2>2 DEF DecidedOnce
<1> QED BY <1>1, <1>2, <1>3, <1>4 DEF IInv

LEMMA EndIInv == ASSUME IInv, NEW d \in Dispatches, End(d) PROVE IInv'
<1>1. /\ work[d] = "running" /\ work' = [work EXCEPT ![d] = "done"]
      /\ UNCHANGED <<registry, links, todo, wants, skip, rejected, sent>>
  BY DEF End
<1>2. WithinDispatch(d)
  BY <1>1 DEF WithinDispatch, IInv, TypeOK
<1>3. RequestFilterHonoured' /\ RejectedNotAnswered'
  BY <1>1 DEF IInv, RequestFilterHonoured, RejectedNotAnswered, registry
<1> QED BY <1>1, <1>2, <1>3, WithinIInv DEF IInv, TypeOK, DecidedOnce

(* A module is reached in a dispatch whose work does not end with it.       *)
LEMMA ReachWithin ==
  ASSUME IInv, NEW d \in Dispatches, NEW i, Reach(d, i),
         \E place \in {"running", "failed"} : work' = [work EXCEPT ![d] = place],
         UNCHANGED <<registry, links>>
  PROVE  WithinDispatch(d) /\ i \in 1..moduleCounter /\ i \in Ids /\ i \notin todo'[d]
BY DEF IInv, TypeOK, KnownOnly, Reach, WithinDispatch

(* The requests: a decision about the request of a call is taken before its *)
(* responses come, and it is the first about the module.                    *)
LEMMA FirstDecision ==
  ASSUME IInv, NEW c \in Calls, NEW i \in Ids, Reach(<<c, "request">>, i)
  PROVE  /\ <<c, i>> \notin wants \cup skip
         /\ c \notin Streams => work[<<c, "response">>] = "idle"
BY DispatchKinds DEF IInv, DecidedOnce, Reach

LEMMA RejectRequestIInv ==
  ASSUME IInv, NEW c \in Calls, NEW i \in Ids, RejectRequest(c, i)
  PROVE  IInv'
<1> DEFINE d == <<c, "request">>
<1>1. /\ Reach(d, i) /\ skip' = skip \cup {<<c, i>>} /\ rejected' = rejected \cup {<<c, i>>}
      /\ UNCHANGED <<registry, links, work, wants, sent>>
  BY DEF RejectRequest
<1>2. d \in Dispatches /\ work' = [work EXCEPT ![d] = "running"]
  BY <1>1, DispatchKinds DEF IInv, TypeOK, Reach
<1>3. WithinDispatch(d) /\ i \notin todo'[d]
  BY <1>1, <1>2, ReachWithin
<1>4. <<c, i>> \notin wants \cup skip
  BY <1>1, FirstDecision
<1>5. RequestFilterHonoured'
  BY <1>1 DEF IInv, RequestFilterHonoured, registry
<1>6. RejectedNotAnswered'
  <2> SUFFICES ASSUME NEW s \in sent, s.by \in Responses, s.by[1] \notin Streams, s.live
               PROVE  <<s.by[1], s.id>> \notin rejected'
    BY <1>1 DEF RejectedNotAnswered
  <2>1. <<s.by[1], s.id>> \notin rejected
    BY DEF IInv, RejectedNotAnswered
  <2>2. work[<<s.by[1], "response">>] # "idle"
    BY DispatchKinds DEF IInv, KnownOnly
  <2>3. s.by[1] # c
    BY <1>1, <2>2, FirstDecision
  <2> QED BY <1>1, <2>1, <2>3
<1>7. wants' \subseteq Calls \X Ids /\ skip' \subseteq Calls \X Ids
      /\ rejected' = skip' /\ wants' \cap skip' = {}
  BY <1>1, <1>4 DEF IInv, TypeOK, DecidedOnce
<1>8. \A p \in (wants' \cup skip') \ (wants \cup skip) :
        work[<<p[1], "request">>] = "running" /\ p[2] \notin todo'[<<p[1], "request">>]
  BY <1>1, <1>3 DEF WithinDispatch
<1> QED BY <1>1, <1>2, <1>3, <1>5, <1>6, <1>7, <1>8, WithinIInv DEF IInv, TypeOK

(* What a send leaves: one event more, or a dispatch that failed.           *)
LEMMA SendSent ==
  ASSUME IInv, NEW d \in Dispatches, NEW i \in Ids, Reach(d, i), Send(d, i)
  PROVE  /\ \E place \in {"running", "failed"} : work' = [work EXCEPT ![d] = place]
         /\ sent' \subseteq sent \cup {[by |-> d, id |-> i, live |-> i \in modules]}
         /\ sent' \subseteq [by : Dispatches, id : Ids, live : BOOLEAN]
<1>1. CASE /\ sent' = sent \cup {[by |-> d, id |-> i, live |-> i \in modules]}
           /\ UNCHANGED work
  <2>1. work' = [work EXCEPT ![d] = "running"]
    BY <1>1 DEF IInv, TypeOK, Reach
  <2>2. (i \in modules) \in BOOLEAN
    OBVIOUS
  <2>3. [by |-> d, id |-> i, live |-> i \in modules] \in [by : Dispatches, id : Ids, live : BOOLEAN]
    BY <2>2
  <2> QED BY <1>1, <2>1, <2>3 DEF IInv, TypeOK
<1>2. CASE work' = [work EXCEPT ![d] = "failed"] /\ UNCHANGED sent
  BY <1>2 DEF IInv, TypeOK
<1> QED BY <1>1, <1>2 DEF Send

LEMMA OnRequestIInv ==
  ASSUME IInv, NEW c \in Calls, NEW i \in Ids, OnRequest(c, i)
  PROVE  IInv'
<1> DEFINE d == <<c, "request">>
           event == [by |-> d, id |-> i, live |-> i \in modules]
<1>1. /\ Reach(d, i) /\ RequestAccepted(c, i)
      /\ \/ Send(d, i) /\ UNCHANGED wants
         \/ wants' = wants \cup {<<c, i>>} /\ UNCHANGED <<work, sent>>
      /\ UNCHANGED <<registry, links, skip, rejected>>
  BY DEF OnRequest
<1>2. d \in Dispatches /\ d \in Requests /\ d \notin Responses /\ d[1] = c
  BY DispatchKinds
<1>3. /\ \E place \in {"running", "failed"} : work' = [work EXCEPT ![d] = place]
      /\ sent' \subseteq sent \cup {event}
      /\ sent' \subseteq [by : Dispatches, id : Ids, live : BOOLEAN]
  <2>1. CASE Send(d, i)
    BY <1>1, <1>2, <2>1, SendSent
  <2>2. CASE UNCHANGED <<work, sent>>
    <3>1. work' = [work EXCEPT ![d] = "running"]
      BY <1>1, <2>2 DEF IInv, TypeOK, Reach
    <3> QED BY <2>2, <3>1 DEF IInv, TypeOK
  <2> QED BY <1>1, <2>1, <2>2
<1>4. WithinDispatch(d) /\ i \in 1..moduleCounter /\ i \notin todo'[d]
  BY <1>1, <1>2, <1>3, ReachWithin
<1>5. <<c, i>> \notin skip
  BY <1>1, FirstDecision
<1>6. RequestFilterHonoured'
  <2>1. event.live => c \in module[i].filter.request
    BY <1>1 DEF RequestAccepted, IInv, Entered
  <2>2. module' = module /\ event.by = d /\ event.id = i
    BY <1>1 DEF registry
  <2> HIDE DEF event
  <2> QED BY <1>2, <1>3, <2>1, <2>2 DEF IInv, RequestFilterHonoured
<1>7. RejectedNotAnswered'
  <2>1. event.by = d
    OBVIOUS
  <2> HIDE DEF event
  <2> QED BY <1>1, <1>2, <1>3, <2>1 DEF IInv, RejectedNotAnswered
<1>8. wants' \subseteq wants \cup {<<c, i>>} /\ skip' = skip /\ rejected' = skip'
  BY <1>1 DEF IInv, DecidedOnce
<1>9. wants' \subseteq Calls \X Ids /\ skip' \subseteq Calls \X Ids /\ wants' \cap skip' = {}
  BY <1>5, <1>8 DEF IInv, TypeOK, DecidedOnce
<1>10. \A p \in (wants' \cup skip') \ (wants \cup skip) :
         work[<<p[1], "request">>] = "running" /\ p[2] \notin todo'[<<p[1], "request">>]
  BY <1>4, <1>8 DEF WithinDispatch
<1>11. \A s \in sent' \ sent : s.by = d /\ s.id \in 1..moduleCounter
  BY <1>3, <1>4
<1> QED BY <1>2, <1>3, <1>4, <1>6, <1>7, <1>8, <1>9, <1>10, <1>11, WithinIInv

-----------------------------------------------------------------------------
(* The responses.                                                           *)
LEMMA PassResponseIInv ==
  ASSUME IInv, NEW c \in Calls, NEW i \in Ids, PassResponse(c, i)
  PROVE  IInv'
<1> DEFINE d == <<c, "response">>
<1>1. Reach(d, i) /\ UNCHANGED <<registry, links, work, wants, skip, rejected, sent>>
  BY DEF PassResponse
<1>2. d \in Dispatches /\ work' = [work EXCEPT ![d] = "running"]
  BY <1>1, DispatchKinds DEF IInv, TypeOK, Reach
<1>3. WithinDispatch(d)
  BY <1>1, <1>2, ReachWithin
<1>4. RequestFilterHonoured' /\ RejectedNotAnswered'
  BY <1>1 DEF IInv, RequestFilterHonoured, RejectedNotAnswered, registry
<1> HIDE DEF d
<1> QED BY <1>1, <1>2, <1>3, <1>4, WithinIInv DEF IInv, TypeOK, DecidedOnce

(* A module that asked for the response did not reject the request.         *)
LEMMA OnResponseIInv ==
  ASSUME IInv, NEW c \in Calls, NEW i \in Ids, OnResponse(c, i)
  PROVE  IInv'
<1> DEFINE d == <<c, "response">>
           event == [by |-> d, id |-> i, live |-> i \in modules]
<1>1. /\ Reach(d, i) /\ ResponseAccepted(c, i) /\ Send(d, i)
      /\ UNCHANGED <<registry, links, wants, skip, rejected>>
  BY DEF OnResponse
<1>2. d \in Dispatches /\ d \notin Requests /\ d[1] = c
  BY DispatchKinds
<1>3. /\ \E place \in {"running", "failed"} : work' = [work EXCEPT ![d] = place]
      /\ sent' \subseteq sent \cup {event}
      /\ sent' \subseteq [by : Dispatches, id : Ids, live : BOOLEAN]
  BY <1>1, <1>2, SendSent
<1>4. WithinDispatch(d) /\ i \in 1..moduleCounter
  BY <1>1, <1>2, <1>3, ReachWithin
<1>5. <<c, i>> \notin rejected
  BY <1>1 DEF ResponseAccepted, IInv, DecidedOnce
<1>6. event.by = d /\ event.id = i /\ module' = module
  BY <1>1 DEF registry
<1>7. RequestFilterHonoured' /\ RejectedNotAnswered'
  <2> HIDE DEF event
  <2> QED BY <1>1, <1>2, <1>3, <1>5, <1>6 DEF IInv, RequestFilterHonoured, RejectedNotAnswered
<1>8. \A s \in sent' \ sent : s.by = d /\ s.id \in 1..moduleCounter
  BY <1>3, <1>4
<1> HIDE DEF d
<1> QED BY <1>1, <1>2, <1>3, <1>4, <1>7, <1>8, WithinIInv DEF IInv, TypeOK, DecidedOnce

-----------------------------------------------------------------------------
LEMMA NextIInv == IInv /\ [Next]_vars => IInv'
<1> SUFFICES ASSUME IInv, [Next]_vars PROVE IInv'
  OBVIOUS
<1>1. ASSUME NEW n \in Conns, ConnStep(n) PROVE IInv'
  BY <1>1, MoveConnIInv, CleanUpIInv, RegisterIInv, FinishRegisterIInv, RegisterFailsIInv,
     UnregisterMessageIInv DEF ConnStep
<1>2. ASSUME NEW c \in Calls, NEW i \in Ids, CallStep(c, i) PROVE IInv'
  BY <1>2, RejectRequestIInv, OnRequestIInv, PassResponseIInv, OnResponseIInv DEF CallStep
<1>3. ASSUME NEW d \in Dispatches, Start(d) \/ End(d) PROVE IInv'
  BY <1>3, StartIInv, EndIInv
<1>4. CASE UNCHANGED vars
  BY <1>4 DEF IInv, TypeOK, Entered, NoOrphans, KnownOnly, DecidedOnce, RequestFilterHonoured,
     RejectedNotAnswered, vars, registry, links, dispatching
<1> QED BY <1>1, <1>2, <1>3, <1>4 DEF Next

(* Any number of connections that register, drop, clean up and unregister   *)
(* each other's modules keep the inductive invariant.                       *)
THEOREM Inductive == Spec => []IInv
<1> QED BY InitIInv, NextIInv, PTL DEF Spec

(* The maps and the lists of the manager keep their types.                  *)
THEOREM TypeCorrect == Spec => []TypeOK
<1>1. IInv => TypeOK
  BY DEF IInv
<1> QED BY <1>1, Inductive, PTL

(* No interleaving leaves a module registered that no connection will       *)
(* unregister, or a filter without its module.                              *)
THEOREM NoOrphansEver == Spec => []NoOrphans
<1>1. IInv => NoOrphans
  BY DEF IInv
<1> QED BY <1>1, Inductive, PTL

(* shouldProcessRequest looks at the filters when the module's turn comes,  *)
(* and no registered module sees a request that its filter rejects.         *)
THEOREM RequestFiltersHold == Spec => []RequestFilterHonoured
<1>1. IInv => RequestFilterHonoured
  BY DEF IInv
<1> QED BY <1>1, Inductive, PTL

(* The call data remembers the rejection of a request: no response of the   *)
(* call reaches the module.                                                 *)
THEOREM RejectedUnanswered == Spec => []RejectedNotAnswered
<1>1. IInv => RejectedNotAnswered
  BY DEF IInv
<1> QED BY <1>1, Inductive, PTL
============================================================================
