-------------------------- MODULE XatuEventsProofs --------------------------
(***************************************************************************)
(* The safety of the xatu service and the metadata fetcher, for any calls, *)
(* outputs and upgrades.                                                   *)
(***************************************************************************)
EXTENDS XatuEvents, TLAPS

LEMMA ConstantFacts ==
  /\ 1 \in Versions /\ Versions \subseteq Nat /\ 0 \notin Versions
  /\ \A v \in Versions : v < MaxVersion => v + 1 \in Versions
BY FetcherAssumption DEF Versions

(* A request waits for its response at most until an event is built, and    *)
(* none was built before.                                                   *)
Once ==
  /\ \A c \in pending : at[c] \in {"requested", "answered"} /\ events[c] = 0
  /\ \A c \in Calls : at[c] \in {"new", "early", "requested", "replied", "building"} => events[c] = 0
  /\ OneEventPerCall

(* Only publishers under way have sinks to come to, and they keep the       *)
(* service from being stopped.                                              *)
Running ==
  /\ \A i \in held : sink[i] = "running"
  /\ \A c \in Calls : toSend[c] # {} => at[c] = "sending"
  /\ closing = "stopping" => ~Publishing
  /\ RunningSinksOnly

(* The loop is launched once and by Start's last step, and a tick is for a  *)
(* loop that was launched before Stop.                                      *)
Stopping ==
  /\ stopper # "no" => done
  /\ place["loop"] # "idle" => place["start"] = "ended"
  /\ place["loop"] = "idle" => ~tick
  /\ stopper = "returned" => ~tick \/ place["loop"] = "ended"
  /\ StopWaits

IInv == TypeOK /\ Once /\ Running /\ FreshPendingKept /\ Stopping

LEMMA InitInv == Init => IInv
<1>. SUFFICES ASSUME Init PROVE IInv
  OBVIOUS
<1>1. TypeOK
  <2>1. FetcherTypeOK
    BY ConstantFacts DEF Init, FetcherInit, FetcherTypeOK, Fetchers
  <2>2. /\ server \in {"new", "starting", "serving", "failed"} /\ started \in BOOLEAN
        /\ held \subseteq Sinks /\ sink \in [Sinks -> {"none", "running", "stopped", "broken"}]
        /\ closing \in {"no", "stopping", "over"}
        /\ at \in [Calls -> CallPlaces]
        /\ pending \subseteq Published /\ aged \subseteq Published
    BY DEF Init, CallPlaces
  <2>3. /\ carries \in [Calls -> {0} \cup Versions]
        /\ toSend \in [Calls -> SUBSET Sinks]
    BY DEF Init
  <2>4. events \in [Calls -> 0..2]
    BY DEF Init
  <2>. QED
    BY <2>1, <2>2, <2>3, <2>4 DEF TypeOK
<1>2. Once /\ Running /\ FreshPendingKept
  <2>1. /\ pending = {} /\ held = {} /\ closing = "no"
        /\ \A c \in Calls : at[c] = "new" /\ events[c] = 0 /\ toSend[c] = {}
    BY DEF Init
  <2>2. Once
    BY <2>1 DEF Once, OneEventPerCall
  <2>3. Running
    BY <2>1 DEF Running, RunningSinksOnly, Publishing
  <2>4. FreshPendingKept
    BY <2>1 DEF FreshPendingKept, Published
  <2>. QED
    BY <2>2, <2>3, <2>4
<1>3. Stopping
  BY DEF Init, FetcherInit, Stopping, StopWaits, Fetchers
<1>. QED
  BY <1>1, <1>2, <1>3 DEF IInv

-----------------------------------------------------------------------------
(* The fetcher's own steps. *)

LEMMA FetcherTyped ==
  ASSUME FetcherTypeOK, FetcherStep
  PROVE  FetcherTypeOK'
<1>. USE ConstantFacts DEF FetcherTypeOK, Fetchers, Goes
<1>1. CASE Upgrade
  BY <1>1 DEF Upgrade
<1>2. CASE StartStep
  BY <1>2 DEF StartStep, Try, AfterDelay, Launch
<1>3. CASE LoopStep
  BY <1>3 DEF LoopStep, Tick, Refresh, LoopEnds
<1>4. CASE Stop \/ StopReturns
  BY <1>4 DEF Stop, StopReturns
<1>5. ASSUME NEW w \in Fetchers, FetchStep(w) PROVE FetcherTypeOK'
  BY <1>5 DEF FetchStep, Answered, Store, FetchFails, AfterFetch
<1>. QED
  BY <1>1, <1>2, <1>3, <1>4, <1>5 DEF FetcherStep

LEMMA FetcherStops ==
  ASSUME FetcherTypeOK, Stopping, FetcherStep
  PROVE  Stopping'
<1>. USE DEF Stopping, StopWaits, FetcherTypeOK, Fetchers, Goes
<1>1. CASE Upgrade
  BY <1>1 DEF Upgrade
<1>2. CASE Try \/ AfterDelay
  BY <1>2 DEF Try, AfterDelay
<1>3. CASE Launch
  BY <1>3 DEF Launch
<1>4. CASE LoopStep
  BY <1>4 DEF LoopStep, Tick, Refresh, LoopEnds
<1>5. CASE Stop \/ StopReturns
  BY <1>5 DEF Stop, StopReturns
<1>6. ASSUME NEW w \in Fetchers, FetchStep(w) PROVE Stopping'
  BY <1>6 DEF FetchStep, Answered, Store, FetchFails, AfterFetch
<1>. QED
  BY <1>1, <1>2, <1>3, <1>4, <1>5, <1>6 DEF FetcherStep, StartStep

(* What the fetcher does leaves the events alone. *)
LEMMA FetcherInv ==
  ASSUME IInv, FetcherStep, UNCHANGED <<service, handlers>>
  PROVE  IInv'
<1>1. TypeOK'
  BY FetcherTyped DEF IInv, TypeOK, service, handlers
<1>2. Once' /\ Running' /\ FreshPendingKept'
  BY DEF IInv, Once, OneEventPerCall, Running, RunningSinksOnly, Publishing, FreshPendingKept, service, handlers
<1>3. Stopping'
  BY FetcherStops DEF IInv, TypeOK
<1>. QED
  BY <1>1, <1>2, <1>3 DEF IInv

-----------------------------------------------------------------------------
(* The service. *)

LEMMA ServiceInv ==
  ASSUME IInv, ServiceStep
  PROVE  IInv'
<1>1. CASE BeginStart
  BY <1>1 DEF BeginStart, IInv, TypeOK, FetcherTypeOK, fetcher, handlers, Once, OneEventPerCall, Running,
              RunningSinksOnly, Publishing, FreshPendingKept, Stopping, StopWaits
<1>2. ASSUME NEW i \in Sinks, StartSink(i) PROVE IInv'
  <2>1. TypeOK' /\ Once' /\ FreshPendingKept' /\ Stopping'
    BY <1>2 DEF StartSink, IInv, TypeOK, FetcherTypeOK, fetcher, handlers, Once, OneEventPerCall,
                FreshPendingKept, Stopping, StopWaits
  <2>2. Running'
    BY <1>2 DEF StartSink, IInv, TypeOK, handlers, Running, RunningSinksOnly, Publishing
  <2>. QED
    BY <2>1, <2>2 DEF IInv
<1>3. CASE Serve
  <2>1. TypeOK'
    BY <1>3 DEF Serve, Goes, IInv, TypeOK, FetcherTypeOK, Fetchers, handlers
  <2>2. Once' /\ Running' /\ FreshPendingKept'
    BY <1>3 DEF Serve, IInv, handlers, Once, OneEventPerCall, Running, RunningSinksOnly, Publishing, FreshPendingKept
  <2>3. Stopping'
    BY <1>3 DEF Serve, Goes, IInv, TypeOK, FetcherTypeOK, Fetchers, Stopping, StopWaits
  <2>. QED
    BY <2>1, <2>2, <2>3 DEF IInv
<1>4. CASE ServiceStop
  <2>1. TypeOK' /\ Once' /\ FreshPendingKept' /\ Stopping'
    BY <1>4 DEF ServiceStop, IInv, TypeOK, FetcherTypeOK, fetcher, handlers, Once, OneEventPerCall,
                FreshPendingKept, Stopping, StopWaits
  <2>2. Running'
    BY <1>4 DEF ServiceStop, IInv, handlers, Running, RunningSinksOnly, Publishing
  <2>. QED
    BY <2>1, <2>2 DEF IInv
<1>5. ASSUME NEW i \in Sinks, StopSink(i) PROVE IInv'
  <2>1. TypeOK' /\ Once' /\ FreshPendingKept' /\ Stopping'
    BY <1>5 DEF StopSink, IInv, TypeOK, FetcherTypeOK, fetcher, handlers, Once, OneEventPerCall,
                FreshPendingKept, Stopping, StopWaits
  <2>2. \A c \in Calls : toSend[c] = {}
    BY <1>5 DEF StopSink, IInv, Running, Publishing
  <2>3. Running'
    BY <1>5, <2>2 DEF StopSink, IInv, TypeOK, handlers, Running, RunningSinksOnly, Publishing
  <2>. QED
    BY <2>1, <2>3 DEF IInv
<1>6. CASE ServiceStopped
  BY <1>6 DEF ServiceStopped, IInv, TypeOK, FetcherTypeOK, fetcher, handlers, Once, OneEventPerCall, Running,
              RunningSinksOnly, Publishing, FreshPendingKept, Stopping, StopWaits
<1>. QED
  BY <1>1, <1>2, <1>3, <1>4, <1>5, <1>6 DEF ServiceStep

-----------------------------------------------------------------------------
(* The calls. *)

LEMMA HandleRequestInv ==
  ASSUME IInv, NEW c \in Calls, HandleRequest(c)
  PROVE  IInv'
<1>1. TypeOK'
  BY DEF HandleRequest, CallGoes, CallPlaces, IInv, TypeOK, FetcherTypeOK, fetcher, service, Published, OfSameHandler
<1>2. Once'
  BY DEF HandleRequest, CallGoes, IInv, TypeOK, Once, OneEventPerCall, Published, OfSameHandler
<1>3. Running'
  BY DEF HandleRequest, CallGoes, IInv, TypeOK, service, Running, RunningSinksOnly, Publishing
<1>4. FreshPendingKept'
  BY DEF HandleRequest, CallGoes, IInv, TypeOK, FreshPendingKept, Published, OfSameHandler
<1>5. Stopping'
  BY DEF HandleRequest, IInv, fetcher, Stopping, StopWaits
<1>. QED
  BY <1>1, <1>2, <1>3, <1>4, <1>5 DEF IInv

LEMMA HandleResponseInv ==
  ASSUME IInv, NEW c \in Calls, HandleResponse(c)
  PROVE  IInv'
<1>1. TypeOK'
  BY DEF HandleResponse, CallGoes, CallPlaces, IInv, TypeOK, FetcherTypeOK, fetcher, service
<1>2. Once'
  BY DEF HandleResponse, CallGoes, IInv, TypeOK, Once, OneEventPerCall, Published
<1>3. Running'
  BY DEF HandleResponse, CallGoes, IInv, TypeOK, service, Running, RunningSinksOnly, Publishing
<1>4. FreshPendingKept'
  BY DEF HandleResponse, CallGoes, IInv, TypeOK, FreshPendingKept, Published
<1>5. Stopping'
  BY DEF HandleResponse, IInv, fetcher, Stopping, StopWaits
<1>. QED
  BY <1>1, <1>2, <1>3, <1>4, <1>5 DEF IInv

(* What neither starts to wait for a response nor ends it. *)
LEMMA WaitInv ==
  ASSUME IInv, NEW c \in Calls, Age(c) \/ EarlyResponse(c) \/ NothingPending(c) \/ Reply(c)
  PROVE  IInv'
<1>. USE DEF Age, EarlyResponse, NothingPending, Reply, CallGoes, IInv
<1>1. TypeOK'
  <2>1. CASE Age(c) \/ EarlyResponse(c) \/ NothingPending(c)
    BY <2>1 DEF CallPlaces, TypeOK, FetcherTypeOK, fetcher, service
  <2>2. CASE Reply(c)
    BY <2>2 DEF CallPlaces, TypeOK, FetcherTypeOK, fetcher, service
  <2>. QED
    BY <2>1, <2>2
<1>2. Once'
  BY DEF TypeOK, Once, OneEventPerCall, Published
<1>3. Running'
  BY DEF TypeOK, service, Running, RunningSinksOnly, Publishing
<1>4. FreshPendingKept'
  BY DEF TypeOK, FreshPendingKept, Published
<1>5. Stopping'
  BY DEF fetcher, Stopping, StopWaits
<1>. QED
  BY <1>1, <1>2, <1>3, <1>4, <1>5

LEMMA ObserveInv ==
  ASSUME IInv, NEW c \in Calls, ObserveVersion(c)
  PROVE  IInv'
<1>. USE DEF ObserveVersion, CallGoes, Update, IInv
<1>1. TypeOK'
  BY DEF CallPlaces, TypeOK, FetcherTypeOK, fetcher, service
<1>2. Once'
  BY DEF TypeOK, Once, OneEventPerCall, Published
<1>3. Running'
  BY DEF TypeOK, service, Running, RunningSinksOnly, Publishing
<1>4. FreshPendingKept'
  BY DEF TypeOK, FreshPendingKept, Published
<1>5. Stopping'
  BY DEF fetcher, Stopping, StopWaits
<1>. QED
  BY <1>1, <1>2, <1>3, <1>4, <1>5

LEMMA PublishInv ==
  ASSUME IInv, NEW c \in Calls, PublishStep(c)
  PROVE  IInv'
<1>. USE DEF CallGoes, IInv
<1>1. CASE Build(c)
  <2>1. events[c] = 0
    BY <1>1 DEF Build, Once
  <2>2. TypeOK'
    BY <1>1, <2>1 DEF Build, CallPlaces, TypeOK, FetcherTypeOK, fetcher, service
  <2>3. Once' /\ FreshPendingKept'
    BY <1>1, <2>1 DEF Build, TypeOK, Once, OneEventPerCall, FreshPendingKept, Published
  <2>4. Running' /\ Stopping'
    BY <1>1 DEF Build, TypeOK, fetcher, service, Running, RunningSinksOnly, Publishing, Stopping, StopWaits
  <2>. QED
    BY <2>2, <2>3, <2>4
<1>2. CASE Publish(c)
  <2>2. TypeOK'
    BY <1>2 DEF Publish, CallPlaces, TypeOK, FetcherTypeOK, fetcher, service
  <2>3. Once' /\ FreshPendingKept'
    BY <1>2 DEF Publish, TypeOK, Once, OneEventPerCall, FreshPendingKept, Published
  <2>4. Running' /\ Stopping'
    BY <1>2 DEF Publish, TypeOK, fetcher, service, Running, RunningSinksOnly, Publishing, Stopping, StopWaits
  <2>. QED
    BY <2>2, <2>3, <2>4
<1>3. ASSUME NEW i \in Sinks, Deliver(c, i) PROVE IInv'
  <2>2. TypeOK'
    BY <1>3 DEF Deliver, TypeOK, FetcherTypeOK, fetcher, service
  <2>3. Once' /\ FreshPendingKept'
    BY <1>3 DEF Deliver, Once, OneEventPerCall, FreshPendingKept, Published
  <2>4. Running' /\ Stopping'
    BY <1>3 DEF Deliver, TypeOK, fetcher, service, Running, RunningSinksOnly, Publishing, Stopping, StopWaits
  <2>. QED
    BY <2>2, <2>3, <2>4
<1>4. CASE EndPublish(c)
  <2>2. TypeOK'
    BY <1>4 DEF EndPublish, CallPlaces, TypeOK, FetcherTypeOK, fetcher, service
  <2>3. Once' /\ FreshPendingKept'
    BY <1>4 DEF EndPublish, TypeOK, Once, OneEventPerCall, FreshPendingKept, Published
  <2>4. Running' /\ Stopping'
    BY <1>4 DEF EndPublish, TypeOK, fetcher, service, Running, RunningSinksOnly, Publishing, Stopping, StopWaits
  <2>. QED
    BY <2>2, <2>3, <2>4
<1>. QED
  BY <1>1, <1>2, <1>3, <1>4 DEF PublishStep

-----------------------------------------------------------------------------
LEMMA NextInv == IInv /\ [Next]_vars => IInv'
<1>. SUFFICES ASSUME IInv, [Next]_vars PROVE IInv'
  OBVIOUS
<1>1. CASE FetcherStep /\ UNCHANGED <<service, handlers>>
  BY <1>1, FetcherInv
<1>2. CASE ServiceStep
  BY <1>2, ServiceInv
<1>3. ASSUME NEW c \in Calls, CallStep(c) PROVE IInv'
  BY <1>3, HandleRequestInv, HandleResponseInv, WaitInv, ObserveInv, PublishInv DEF CallStep
<1>4. CASE UNCHANGED vars
  BY <1>4 DEF vars, fetcher, service, handlers, IInv, TypeOK, FetcherTypeOK, Once, OneEventPerCall, Running,
              RunningSinksOnly, Publishing, FreshPendingKept, Stopping, StopWaits
<1>. QED
  BY <1>1, <1>2, <1>3, <1>4 DEF Next

(* The state of the service, of the handlers and of the fetcher stays in    *)
(* its types: no call, start or stop leaves them otherwise.                 *)
THEOREM TypeCorrect == Spec => []TypeOK
<1>1. IInv => TypeOK
  BY DEF IInv
<1>. QED
  BY InitInv, NextInv, <1>1, PTL DEF Spec

(* HandleResponse takes the pending request away with its answer: however   *)
(* many events a response streams, one event at most is built for the call. *)
THEOREM OneEvent == Spec => []OneEventPerCall
<1>1. IInv => OneEventPerCall
  BY DEF IInv, Once
<1>. QED
  BY InitInv, NextInv, <1>1, PTL DEF Spec

(* Publish and Stop share the publisher's lock: no sink that was not        *)
(* started, or that is being stopped, is handed an event.                   *)
THEOREM RunningOnly == Spec => []RunningSinksOnly
<1>1. IInv => RunningSinksOnly
  BY DEF IInv, Running
<1>. QED
  BY InitInv, NextInv, <1>1, PTL DEF Spec

(* The clean-up of HandleRequest takes away only requests of the same       *)
(* handler that are 30 seconds old.                                         *)
THEOREM FreshKept == Spec => []FreshPendingKept
<1>1. IInv => FreshPendingKept
  BY DEF IInv
<1>. QED
  BY InitInv, NextInv, <1>1, PTL DEF Spec

(* Once Stop of the fetcher has returned, the refresh loop does not fetch,  *)
(* even when Start launches it only then.                                   *)
THEOREM StopWaitsForLoop == Spec => []StopWaits
<1>1. IInv => StopWaits
  BY DEF IInv, Stopping
<1>. QED
  BY InitInv, NextInv, <1>1, PTL DEF Spec
=============================================================================
