-------------------------- MODULE MetadataFetcher --------------------------
(***************************************************************************)
(* src/snooper/execution_metadata.go: what the snooper knows about the     *)
(* version of the execution client.  Start fetches it until that succeeds  *)
(* and then launches the refresh loop; both run in goroutines of their     *)
(* own.  Update, called by whoever observes an answer, and Stop, called by *)
(* Shutdown, may come at any time.                                         *)
(***************************************************************************)
EXTENDS Naturals

CONSTANT MaxVersion  \* bound on the upgrades of the execution client

ASSUME FetcherAssumption == MaxVersion \in Nat \ {0}

(* Versions are numbered in the order the client runs them; 0 is none. *)
Versions == 1..MaxVersion

(* The goroutine that calls Start, and the one of refreshLoop. *)
Fetchers == {"start", "loop"}

(* As in OrderedProcessor, X_Slip... is X with a plausible mistake. *)

VARIABLES el,        \* version that the execution client runs
          metadata,  \* f.metadata
          place,     \* where each goroutine stands
          answer,    \* answer to its fetch, not stored yet
          tick,      \* the ticker has fired and the loop has not seen it
          ready,     \* the channel ready is closed
          done,      \* the channel done is closed
          stopper    \* where Stop stands

fetcher == <<el, metadata, place, answer, tick, ready, done, stopper>>

FetcherTypeOK ==
  /\ el \in Versions
  /\ metadata \in {0} \cup Versions
  /\ place \in [Fetchers -> {"idle", "try", "fetch", "delay", "fetched", "wait", "ended"}]
  /\ answer \in [Fetchers -> {0} \cup Versions]
  /\ tick \in BOOLEAN /\ ready \in BOOLEAN /\ done \in BOOLEAN
  /\ stopper \in {"no", "waiting", "returned"}

FetcherInit ==
  /\ el = 1 /\ metadata = 0
  /\ place = [w \in Fetchers |-> "idle"]
  /\ answer = [w \in Fetchers |-> 0]
  /\ tick = FALSE /\ ready = FALSE /\ done = FALSE
  /\ stopper = "no"

Goes(w, from, to) == place[w] = from /\ place' = [place EXCEPT ![w] = to]

(* The execution client is restarted with its next version. *)
Upgrade ==
  /\ el < MaxVersion
  /\ el' = el + 1
  /\ UNCHANGED <<metadata, place, answer, tick, ready, done, stopper>>

-----------------------------------------------------------------------------
(* fetch *)

(* The request is answered; the answer is on its way. *)
Answered(w) ==
  /\ place[w] = "fetch" /\ answer[w] = 0
  /\ answer' = [answer EXCEPT ![w] = el]
  /\ UNCHANGED <<el, metadata, place, tick, ready, done, stopper>>

AfterFetch(w) == IF w = "start" THEN "fetched" ELSE "wait"

(* The answer is stored; fetchWithRetries, or the turn of the loop, ends. *)
Store(w) ==
  /\ answer[w] # 0
  /\ Goes(w, "fetch", AfterFetch(w))
  /\ metadata' = answer[w]
  /\ answer' = [answer EXCEPT ![w] = 0]
  /\ UNCHANGED <<el, tick, ready, done, stopper>>

(* The loop ends with the first failure. *)
FetchFails_SlipEnds(w) ==
  /\ Goes(w, "fetch", IF w = "start" THEN "delay" ELSE "ended")
  /\ answer' = [answer EXCEPT ![w] = 0]
  /\ UNCHANGED <<el, metadata, tick, ready, done, stopper>>

(* No connection, five seconds passed, an error, an empty result. *)
FetchFails(w) ==
  /\ Goes(w, "fetch", IF w = "start" THEN "delay" ELSE "wait")
  /\ answer' = [answer EXCEPT ![w] = 0]
  /\ UNCHANGED <<el, metadata, tick, ready, done, stopper>>

-----------------------------------------------------------------------------
(* Start with fetchWithRetries *)

(* The first select looks at done only before a fetch. *)
Try ==
  /\ IF done THEN Goes("start", "try", "ended") ELSE Goes("start", "try", "fetch")
  /\ UNCHANGED <<el, metadata, answer, tick, ready, done, stopper>>

(* The delay is over, or cut short. *)
AfterDelay ==
  /\ \/ Goes("start", "delay", "try")
     \/ done /\ Goes("start", "delay", "ended")
  /\ UNCHANGED <<el, metadata, answer, tick, ready, done, stopper>>

(* ready is closed, the loop counted and started. *)
Launch ==
  /\ place["start"] = "fetched"
  /\ place' = [place EXCEPT !["start"] = "ended", !["loop"] = "wait"]
  /\ ready' = TRUE
  /\ UNCHANGED <<el, metadata, answer, tick, done, stopper>>

-----------------------------------------------------------------------------
(* refreshLoop *)

(* A minute is longer than a fetch may take and than the loop needs to see  *)
(* that done is closed.                                                     *)
Tick ==
  /\ place["loop"] = "wait" /\ ~done
  /\ tick' = TRUE
  /\ UNCHANGED <<el, metadata, place, answer, ready, done, stopper>>

(* The select takes either case when both are ready. *)
Refresh ==
  /\ tick /\ tick' = FALSE
  /\ Goes("loop", "wait", "fetch")
  /\ UNCHANGED <<el, metadata, answer, ready, done, stopper>>

LoopEnds ==
  /\ done
  /\ Goes("loop", "wait", "ended")
  /\ UNCHANGED <<el, metadata, answer, tick, ready, done, stopper>>

-----------------------------------------------------------------------------
(* Stop closes done and waits for the loop if it was counted. *)
Stop ==
  /\ stopper = "no"
  /\ stopper' = "waiting" /\ done' = TRUE
  /\ UNCHANGED <<el, metadata, place, answer, tick, ready>>

(* Does not wait. *)
StopReturns_SlipNoWait ==
  /\ stopper = "waiting"
  /\ stopper' = "returned"
  /\ UNCHANGED <<el, metadata, place, answer, tick, ready, done>>

StopReturns ==
  /\ stopper = "waiting" /\ place["loop"] \in {"idle", "ended"}
  /\ stopper' = "returned"
  /\ UNCHANGED <<el, metadata, place, answer, tick, ready, done>>

(* Update, with the version of an answer that somebody observed. *)
Update(v) ==
  /\ metadata' = v
  /\ UNCHANGED <<el, place, answer, tick, ready, done, stopper>>

-----------------------------------------------------------------------------
StartStep == Try \/ AfterDelay \/ Launch
LoopStep == Tick \/ Refresh \/ LoopEnds
FetchStep(w) == Answered(w) \/ Store(w) \/ FetchFails(w)

(* Everything but the call of Start and of Update, which are others'. *)
FetcherStep ==
  \/ Upgrade \/ StartStep \/ LoopStep \/ Stop \/ StopReturns
  \/ \E w \in Fetchers : FetchStep(w)

-----------------------------------------------------------------------------
(* When Stop has returned, the refresh loop fetches nothing and will not:   *)
(* one that Start launches late finds done closed.                          *)
StopWaits == stopper = "returned" => place["loop"] # "fetch"

(* While the fetcher runs, the metadata catches up with upgrades for good,  *)
(* although a late answer to a fetch, or a late Update, may put an old      *)
(* version back.                                                            *)
MetadataFresh ==
  \/ <>done
  \/ [](place["start"] = "idle")
  \/ <>[](metadata = el)
============================================================================
