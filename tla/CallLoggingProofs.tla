------------------------- MODULE CallLoggingProofs -------------------------
(***************************************************************************)
(* The safety properties of CallLogging for any number of calls and        *)
(* events, on top of what the queue of turns guarantees its users.         *)
(***************************************************************************)
EXTENDS CallLogging, TLAPS

(* Tickets are unique and none is beyond the last one issued; a turn has    *)
(* only finished loggers ahead of it.                                       *)
QInv ==
  /\ Queue!QueueTypeOK
  /\ \A l \in Loggers : /\ ticket[l] <= issued
                        /\ stage[l] = "idle" <=> ticket[l] = 0
  /\ \A l, m \in Loggers : ticket[l] = ticket[m] /\ ticket[l] # 0 => l = m
  /\ \A l \in Loggers : stage[l] = "turn" => \A m \in Queue!Ahead(l) : stage[m] = "done"

(* The place of a logger says how far it is in the queue. *)
Linked ==
  \A l \in Loggers : /\ logger[l] \in {"none", "started"} <=> stage[l] = "idle"
                     /\ logger[l] = "logging" <=> stage[l] \in {"queued", "turn", "late"}

(* A request logger starts at the end of its Close, which starts only when  *)
(* the transport has the request, or the handler is on its way out.         *)
CloseFirst ==
  /\ \A k \in RequestLoggers : closer[k] # "done" => logger[k] = "none"
  /\ \A c \in Calls :
       /\ handler[c] = "new" => closer[<<c, "transport">>] = "idle"
       /\ handler[c] \notin {"returning", "returned"} => closer[<<c, "handler">>] = "idle"

(* The response logger starts when the handler has copied the response, and *)
(* the duration is taken by then.                                           *)
CopyFirst ==
  /\ \A c \in Calls : handler[c] \in {"copying", "copied"} => c \in Plain
  /\ \A c \in Plain :
       /\ handler[c] \in {"new", "sending", "copying", "copied"}
            => logger[<<c, "response">>] = "none"
       /\ handler[c] = "copied" \/ logger[<<c, "response">>] # "none" => duration[c]

(* reqSentChan is closed by a request logger that ended.                    *)
SignalledByEnded ==
  \A c \in Calls : reqSent[c] => \E k \in Closers : logger[<<c, k>>] = "ended"

(* The inductive invariant. *)
IInv == /\ TypeOK
        /\ QInv
        /\ Linked
        /\ CloseFirst
        /\ CopyFirst
        /\ SignalledByEnded
        /\ ResponseAfterRequest

-----------------------------------------------------------------------------
(* The queue of turns: its invariant is kept by each of its steps, whatever *)
(* else happens.                                                            *)

LEMMA QInvInit == Init => QInv
BY DEF Init, QInv, Queue!QueueInit, Queue!QueueTypeOK, Queue!Stages, Queue!Ahead

(* A new ticket is behind every other one. *)
LEMMA QInvTake == ASSUME QInv, NEW l \in Loggers, Queue!Take(l) PROVE QInv'
<1> USE DEF QInv, Queue!Take
<1>1. Queue!QueueTypeOK'
  BY DEF Queue!QueueTypeOK, Queue!Stages
<1>2. \A m \in Loggers : ticket'[m] <= issued' /\ (stage'[m] = "idle" <=> ticket'[m] = 0)
  BY DEF Queue!QueueTypeOK
<1>3. \A m, n \in Loggers : ticket'[m] = ticket'[n] /\ ticket'[m] # 0 => m = n
  BY DEF Queue!QueueTypeOK
<1>4. \A m \in Loggers : stage'[m] = "turn" => \A n \in Queue!Ahead(m)' : stage'[n] = "done"
  BY DEF Queue!QueueTypeOK, Queue!Ahead
<1> QED BY <1>1, <1>2, <1>3, <1>4

(* The other steps leave the tickets alone, and who has finished stays so.  *)
LEMMA QInvMove ==
  ASSUME QInv, NEW l \in Loggers, Queue!Enter(l) \/ Queue!Overtake(l) \/ Queue!Leave(l)
  PROVE  QInv'
<1>1. PICK s \in {"turn", "late", "done"} : stage' = [stage EXCEPT ![l] = s]
  BY DEF Queue!Enter, Queue!Overtake, Queue!Leave
<1>2. UNCHANGED <<ticket, issued>> /\ stage[l] \in {"queued", "turn", "late"}
  BY DEF Queue!Enter, Queue!Overtake, Queue!Leave
<1>3. Queue!QueueTypeOK'
  BY <1>1, <1>2 DEF QInv, Queue!QueueTypeOK, Queue!Stages
<1>4. /\ \A m \in Loggers : ticket'[m] <= issued' /\ (stage'[m] = "idle" <=> ticket'[m] = 0)
      /\ \A m, n \in Loggers : ticket'[m] = ticket'[n] /\ ticket'[m] # 0 => m = n
  BY <1>1, <1>2 DEF QInv, Queue!QueueTypeOK
<1>5. \A m \in Loggers : stage'[m] = "turn" => \A n \in Queue!Ahead(m)' : stage'[n] = "done"
  <2> SUFFICES ASSUME NEW m \in Loggers, stage'[m] = "turn", NEW n \in Queue!Ahead(m)
               PROVE  stage'[n] = "done"
    BY <1>2 DEF Queue!Ahead
  <2>1. CASE m = l
    <3>1. Queue!Enter(l)
      BY <1>2, <2>1 DEF Queue!Overtake, Queue!Leave, QInv, Queue!QueueTypeOK
    <3>2. stage[n] = "done" /\ n # l
      BY <3>1, <2>1 DEF Queue!Enter
    <3> QED BY <3>2, <1>1 DEF Queue!Ahead, QInv, Queue!QueueTypeOK
  <2>2. CASE m # l
    <3>1. stage[n] = "done"
      BY <1>1, <2>2 DEF QInv, Queue!QueueTypeOK
    <3> QED BY <3>1, <1>1, <1>2 DEF Queue!Ahead, QInv, Queue!QueueTypeOK
  <2> QED BY <2>1, <2>2
<1> QED BY <1>3, <1>4, <1>5 DEF QInv

LEMMA QInvStutter == ASSUME QInv, UNCHANGED queueVars PROVE QInv'
BY DEF queueVars, QInv, Queue!QueueTypeOK, Queue!Ahead

(* Two loggers that both have the turn are one. *)
LEMMA TurnAlone ==
  ASSUME QInv, NEW l \in Loggers, NEW m \in Loggers, stage[l] = "turn", stage[m] = "turn"
  PROVE  l = m
<1>1. CASE ticket[l] = ticket[m]
  BY <1>1 DEF QInv
<1>2. CASE ticket[l] < ticket[m]
  <2>1. l \in Queue!Ahead(m)
    BY <1>2 DEF QInv, Queue!QueueTypeOK, Queue!Ahead
  <2> QED BY <2>1 DEF QInv
<1>3. CASE ticket[m] < ticket[l]
  <2>1. m \in Queue!Ahead(l)
    BY <1>3 DEF QInv, Queue!QueueTypeOK, Queue!Ahead
  <2> QED BY <2>1 DEF QInv
<1> QED BY <1>1, <1>2, <1>3 DEF QInv, Queue!QueueTypeOK

-----------------------------------------------------------------------------
(* Which pairs are loggers, and that a name tells the kinds apart. *)
LEMMA LoggerNames ==
  /\ RequestLoggers \subseteq Loggers
  /\ \A c \in Calls, k \in Closers : <<c, k>> \in RequestLoggers
  /\ \A c \in Plain : <<c, "response">> \in Loggers \ RequestLoggers
  /\ \A c \in Calls, e \in Events : <<c, e>> \notin RequestLoggers
  /\ \A c, d : \A e \in Events : <<c, e>> # <<d, "response">>
  /\ \A l \in RequestLoggers : l[1] \in Calls /\ l[2] \in Closers /\ l = <<l[1], l[2]>>
BY LoggersAssumption
   DEF Loggers, RequestLoggers, ResponseLoggers, EventLoggers, Closers

(* Nothing has started. *)
LEMMA InitIInv == Init => IInv
<1> SUFFICES ASSUME Init PROVE IInv
  OBVIOUS
<1>1. QInv
  BY QInvInit
<1>2. TypeOK
  BY <1>1 DEF Init, CallInit, QInv, TypeOK, HandlerPlaces, CloserPlaces, LoggerPlaces
<1>3. Linked
  BY DEF Init, CallInit, Linked, Queue!QueueInit
<1>4. CloseFirst
  BY LoggerNames DEF Init, CallInit, CloseFirst, Closers
<1>5. CopyFirst
  BY LoggerNames, LoggersAssumption DEF Init, CallInit, CopyFirst
<1>6. SignalledByEnded
  BY DEF Init, CallInit, SignalledByEnded
<1>7. ResponseAfterRequest
  BY LoggerNames DEF Init, CallInit, ResponseAfterRequest, Queue!QueueInit
<1> QED BY <1>1, <1>2, <1>3, <1>4, <1>5, <1>6, <1>7 DEF IInv

(* Steps that leave the loggers and the queue alone keep what is said of    *)
(* them.                                                                    *)
LEMMA LoggersAlone ==
  ASSUME IInv, UNCHANGED <<logger, queueVars>>
  PROVE  /\ QInv'
         /\ Linked'
         /\ ResponseAfterRequest'
<1>1. QInv'
  BY QInvStutter DEF IInv
<1>2. Linked' /\ ResponseAfterRequest'
  BY DEF IInv, Linked, ResponseAfterRequest, queueVars
<1> QED BY <1>1, <1>2

(* The handler's steps that start no logger. *)
LEMMA HandlerIInv ==
  ASSUME IInv, NEW c \in Calls,
         \/ Forward(c) \/ DoFails(c) \/ DoSucceeds(c) \/ CopyEnds(c)
         \/ EventLogged(c) \/ StreamEnds(c) \/ Return(c)
  PROVE  IInv'
<1>1. UNCHANGED <<closed, reqSent, logger, queueVars>>
  BY DEF Forward, DoFails, DoSucceeds, CopyEnds, EventLogged, StreamEnds, Return, HandlerMoves
<1>2. QInv' /\ Linked' /\ ResponseAfterRequest'
  BY <1>1, LoggersAlone
<1>3. TypeOK'
  <2>1. handler' \in [Calls -> HandlerPlaces]
    <3>1. \E place \in HandlerPlaces : handler' = [handler EXCEPT ![c] = place]
      BY DEF Forward, DoFails, DoSucceeds, CopyEnds, EventLogged, StreamEnds, Return,
             HandlerMoves, HandlerPlaces
    <3> QED BY <3>1 DEF IInv, TypeOK
  <2>2. closer' \in [RequestLoggers -> CloserPlaces]
    <3>1. \/ closer' = closer
          \/ \E k \in Closers : closer' = [closer EXCEPT ![<<c, k>>] = "open"]
      BY DEF Forward, DoFails, DoSucceeds, CopyEnds, EventLogged, StreamEnds, Return, Closers
    <3> QED BY <3>1 DEF IInv, TypeOK, CloserPlaces
  <2>3. duration' \in [Calls -> BOOLEAN]
    <3>1. duration' = duration \/ duration' = [duration EXCEPT ![c] = TRUE]
      BY DEF Forward, DoFails, DoSucceeds, CopyEnds, EventLogged, StreamEnds, Return
    <3> QED BY <3>1 DEF IInv, TypeOK
  <2> QED BY <1>1, <1>2, <2>1, <2>2, <2>3 DEF IInv, QInv, TypeOK
<1>4. CloseFirst'
  BY <1>1, LoggerNames
     DEF IInv, TypeOK, CloseFirst, Forward, DoFails, DoSucceeds, CopyEnds, EventLogged,
         StreamEnds, Return, HandlerMoves, Closers
<1>5. CopyFirst'
  BY <1>1, LoggersAssumption
     DEF IInv, TypeOK, CopyFirst, Forward, DoFails, DoSucceeds, CopyEnds, EventLogged,
         StreamEnds, Return, HandlerMoves
<1>6. SignalledByEnded'
  BY <1>1 DEF IInv, SignalledByEnded
<1> QED BY <1>2, <1>3, <1>4, <1>5, <1>6 DEF IInv

(* Testing the closed flag, and setting it. *)
LEMMA FlagIInv ==
  ASSUME IInv, NEW c \in Calls, NEW k \in Closers, TestClosed(c, k) \/ MarkClosed(c, k)
  PROVE  IInv'
<1>1. UNCHANGED <<handler, reqSent, duration, logger, queueVars>>
  BY DEF TestClosed, MarkClosed
<1>2. QInv' /\ Linked' /\ ResponseAfterRequest'
  BY <1>1, LoggersAlone
<1>3. closer[<<c, k>>] \in {"open", "checked"} /\ <<c, k>> \in RequestLoggers
  BY LoggerNames DEF TestClosed, MarkClosed
<1>4. TypeOK'
  <2>1. closer' \in [RequestLoggers -> CloserPlaces]
    <3>1. \E place \in CloserPlaces : closer' = [closer EXCEPT ![<<c, k>>] = place]
      BY DEF TestClosed, MarkClosed, CloserPlaces
    <3> QED BY <3>1 DEF IInv, TypeOK
  <2>2. closed' \in [Calls -> BOOLEAN]
    BY DEF TestClosed, MarkClosed, IInv, TypeOK
  <2> QED BY <1>1, <1>2, <2>1, <2>2 DEF IInv, QInv, TypeOK
<1>5. CloseFirst'
  <2>1. \E place : closer' = [closer EXCEPT ![<<c, k>>] = place]
    BY DEF TestClosed, MarkClosed
  <2>2. \A l \in RequestLoggers : closer[l] = "idle" => closer'[l] = "idle"
    BY <1>3, <2>1 DEF IInv, TypeOK
  <2>3. \A l \in RequestLoggers : closer'[l] # "done" => closer[l] # "done"
    BY <1>3, <2>1 DEF IInv, TypeOK
  <2> QED BY <1>1, <2>2, <2>3, LoggerNames DEF IInv, CloseFirst, Closers
<1>6. CopyFirst' /\ SignalledByEnded'
  BY <1>1 DEF IInv, CopyFirst, SignalledByEnded
<1> QED BY <1>2, <1>4, <1>5, <1>6 DEF IInv

-----------------------------------------------------------------------------
(* The steps that start a logger: its place in the queue is still "idle".   *)
LEMMA StartLinked ==
  ASSUME IInv, NEW l, logger[l] = "none", logger' = [logger EXCEPT ![l] = "started"],
         UNCHANGED queueVars
  PROVE  /\ logger' \in [Loggers -> LoggerPlaces]
         /\ \A m \in Loggers \ RequestLoggers : logger'[m] # "signalling"
         /\ QInv'
         /\ Linked'
         /\ ResponseAfterRequest'
<1>1. QInv'
  BY QInvStutter DEF IInv
<1>2. /\ logger' \in [Loggers -> LoggerPlaces]
      /\ \A m \in Loggers \ RequestLoggers : logger'[m] # "signalling"
  BY DEF IInv, TypeOK, LoggerPlaces
<1>3. Linked'
  BY DEF IInv, TypeOK, Linked, queueVars
<1>4. ResponseAfterRequest'
  <2> SUFFICES ASSUME NEW c \in Plain, stage[<<c, "response">>] # "idle"
               PROVE  \E k \in Closers : /\ logger'[<<c, k>>] = "ended"
                                         /\ ticket[<<c, k>>] < ticket[<<c, "response">>]
    BY DEF ResponseAfterRequest, queueVars
  <2>1. PICK k \in Closers : /\ logger[<<c, k>>] = "ended"
                             /\ ticket[<<c, k>>] < ticket[<<c, "response">>]
    BY DEF IInv, ResponseAfterRequest
  <2>2. <<c, k>> \in Loggers
    BY LoggerNames, LoggersAssumption
  <2> QED BY <2>1, <2>2 DEF IInv, TypeOK
<1> QED BY <1>1, <1>2, <1>3, <1>4

(* A request logger that has ended is still there to have signalled.        *)
LEMMA EndedKept ==
  ASSUME IInv, UNCHANGED reqSent,
         \A l \in Loggers : logger[l] = "ended" => logger'[l] = "ended"
  PROVE  SignalledByEnded'
<1> SUFFICES ASSUME NEW c \in Calls, reqSent[c]
             PROVE  \E k \in Closers : logger'[<<c, k>>] = "ended"
  BY DEF SignalledByEnded
<1>1. PICK k \in Closers : logger[<<c, k>>] = "ended"
  BY DEF IInv, SignalledByEnded
<1>2. <<c, k>> \in Loggers
  BY LoggerNames
<1> QED BY <1>1, <1>2

(* The response is copied, so its logger has not started.                   *)
LEMMA CloseResponseIInv ==
  ASSUME IInv, NEW c \in Plain, CloseResponse(c)
  PROVE  IInv'
<1> DEFINE rsp == <<c, "response">>
<1>1. c \in Calls /\ rsp \in Loggers \ RequestLoggers
  BY LoggerNames, LoggersAssumption
<1>2. /\ handler[c] = "copied" /\ handler' = [handler EXCEPT ![c] = "returning"]
      /\ closer' = [closer EXCEPT ![<<c, "handler">>] = "open"]
      /\ logger' = [logger EXCEPT ![rsp] = "started"]
      /\ UNCHANGED <<closed, reqSent, duration, queueVars>>
  BY DEF CloseResponse, HandlerMoves
<1>3. logger[rsp] = "none" /\ duration[c] /\ closer[<<c, "handler">>] = "idle"
  BY <1>1, <1>2 DEF IInv, CopyFirst, CloseFirst
<1>4. /\ logger' \in [Loggers -> LoggerPlaces]
      /\ \A m \in Loggers \ RequestLoggers : logger'[m] # "signalling"
      /\ QInv' /\ Linked' /\ ResponseAfterRequest'
  BY <1>2, <1>3, StartLinked
<1>5. TypeOK'
  BY <1>1, <1>2, <1>4, LoggerNames DEF IInv, QInv, TypeOK, HandlerPlaces, CloserPlaces, Closers
<1>6. CloseFirst'
  BY <1>1, <1>2, <1>3, LoggerNames DEF IInv, TypeOK, CloseFirst, Closers
<1>7. CopyFirst'
  <2>1. \A d \in Calls : handler'[d] \in {"copying", "copied"} => d \in Plain
    BY <1>1, <1>2 DEF IInv, TypeOK, CopyFirst
  <2>2. ASSUME NEW d \in Plain
        PROVE  /\ handler'[d] \in {"new", "sending", "copying", "copied"}
                    => logger'[<<d, "response">>] = "none"
               /\ handler'[d] = "copied" \/ logger'[<<d, "response">>] # "none" => duration'[d]
    <3>1. CASE d = c
      BY <1>1, <1>2, <1>3, <3>1 DEF IInv, TypeOK
    <3>2. CASE d # c
      BY <1>1, <1>2, <3>2 DEF IInv, TypeOK, CopyFirst
    <3> QED BY <3>1, <3>2
  <2> QED BY <2>1, <2>2 DEF CopyFirst
<1>8. SignalledByEnded'
  BY <1>1, <1>2, <1>3, EndedKept DEF IInv, TypeOK
<1> QED BY <1>4, <1>5, <1>6, <1>7, <1>8 DEF IInv

LEMMA LogEventIInv ==
  ASSUME IInv, NEW c \in Calls, NEW e \in Events, LogEvent(c, e)
  PROVE  IInv'
<1>1. /\ handler[c] = "streaming" /\ handler' = [handler EXCEPT ![c] = "inEvent"]
      /\ logger[<<c, e>>] = "none"
      /\ logger' = [logger EXCEPT ![<<c, e>>] = "started"]
      /\ UNCHANGED <<closer, closed, reqSent, duration, queueVars>>
  BY DEF LogEvent, HandlerMoves
<1>2. /\ logger' \in [Loggers -> LoggerPlaces]
      /\ \A m \in Loggers \ RequestLoggers : logger'[m] # "signalling"
      /\ QInv' /\ Linked' /\ ResponseAfterRequest'
  BY <1>1, StartLinked
<1>3. TypeOK'
  BY <1>1, <1>2 DEF IInv, QInv, TypeOK, HandlerPlaces
<1>4. CloseFirst'
  BY <1>1, LoggerNames DEF IInv, TypeOK, CloseFirst
<1>5. CopyFirst'
  BY <1>1, LoggerNames, LoggersAssumption DEF IInv, TypeOK, CopyFirst
<1>6. SignalledByEnded'
  BY <1>1, EndedKept DEF IInv, TypeOK
<1> QED BY <1>2, <1>3, <1>4, <1>5, <1>6 DEF IInv

LEMMA CloseRequestIInv ==
  ASSUME IInv, NEW c \in Calls, NEW k \in Closers, CloseRequest(c, k)
  PROVE  IInv'
<1>1. <<c, k>> \in RequestLoggers
  BY LoggerNames
<1>2. /\ closer[<<c, k>>] = "draining" /\ closer' = [closer EXCEPT ![<<c, k>>] = "done"]
      /\ logger' = [logger EXCEPT ![<<c, k>>] = "started"]
      /\ UNCHANGED <<handler, closed, reqSent, duration, queueVars>>
  BY DEF CloseRequest
<1>3. logger[<<c, k>>] = "none"
  BY <1>1, <1>2 DEF IInv, CloseFirst
<1>4. /\ logger' \in [Loggers -> LoggerPlaces]
      /\ \A m \in Loggers \ RequestLoggers : logger'[m] # "signalling"
      /\ QInv' /\ Linked' /\ ResponseAfterRequest'
  BY <1>2, <1>3, StartLinked
<1>5. TypeOK'
  BY <1>2, <1>4 DEF IInv, QInv, TypeOK, CloserPlaces
<1>6. CloseFirst'
  BY <1>1, <1>2, LoggerNames DEF IInv, TypeOK, CloseFirst, Closers
<1>7. CopyFirst'
  BY <1>1, <1>2, LoggerNames DEF IInv, TypeOK, CopyFirst
<1>8. SignalledByEnded'
  BY <1>2, <1>3, EndedKept DEF IInv, TypeOK
<1> QED BY <1>4, <1>5, <1>6, <1>7, <1>8 DEF IInv

-----------------------------------------------------------------------------
(* The steps of a logger: they leave the handler and the closers alone, and *)
(* a logger that ended, or has not started, where it is.                    *)
LEMMA LoggerKeeps ==
  ASSUME IInv, NEW l \in Loggers, NEW place \in LoggerPlaces,
         logger[l] \notin {"none", "ended"}, place # "none",
         logger' = [logger EXCEPT ![l] = place],
         UNCHANGED callVars
  PROVE  CloseFirst' /\ CopyFirst' /\ SignalledByEnded'
<1>1. CloseFirst'
  BY LoggerNames DEF IInv, TypeOK, CloseFirst, callVars
<1>2. CopyFirst'
  BY LoggerNames DEF IInv, TypeOK, CopyFirst, callVars
<1>3. SignalledByEnded'
  BY EndedKept DEF IInv, TypeOK, callVars
<1> QED BY <1>1, <1>2, <1>3

LEMMA TakeIInv == ASSUME IInv, NEW l \in Loggers, Take(l) PROVE IInv'
<1>1. /\ logger[l] = "started" /\ logger' = [logger EXCEPT ![l] = "logging"]
      /\ l[2] = "response" => reqSent[l[1]]
      /\ UNCHANGED callVars
  BY DEF Take, Begins, LoggerMoves
<1>2. /\ stage[l] = "idle" /\ stage' = [stage EXCEPT ![l] = "queued"]
      /\ issued' = issued + 1 /\ ticket' = [ticket EXCEPT ![l] = issued + 1]
  BY DEF Take, Queue!Take
<1>3. QInv'
  BY QInvTake DEF IInv, Take
<1>4. TypeOK'
  BY <1>1, <1>3 DEF IInv, QInv, TypeOK, LoggerPlaces, callVars
<1>5. Linked'
  BY <1>1, <1>2 DEF IInv, TypeOK, Linked, Queue!QueueTypeOK
<1>6. CloseFirst' /\ CopyFirst' /\ SignalledByEnded'
  BY <1>1, LoggerKeeps DEF LoggerPlaces
<1>7. ResponseAfterRequest'
  <2> SUFFICES ASSUME NEW c \in Plain, stage'[<<c, "response">>] # "idle"
               PROVE  \E k \in Closers : /\ logger'[<<c, k>>] = "ended"
                                         /\ ticket'[<<c, k>>] < ticket'[<<c, "response">>]
    BY DEF ResponseAfterRequest
  <2>1. c \in Calls /\ <<c, "response">> \in Loggers
    BY LoggerNames, LoggersAssumption
  <2>2. CASE l = <<c, "response">>
    <3>1. PICK k \in Closers : logger[<<c, k>>] = "ended"
      BY <1>1, <2>1, <2>2 DEF IInv, SignalledByEnded
    <3>2. <<c, k>> \in Loggers /\ <<c, k>> # l
      BY <2>1, <2>2, <3>1, <1>1, LoggerNames
    <3>3. ticket[<<c, k>>] <= issued /\ ticket[<<c, k>>] \in Nat /\ issued \in Nat
      BY <3>2 DEF IInv, QInv, TypeOK, Queue!QueueTypeOK
    <3> QED BY <1>1, <1>2, <2>2, <3>1, <3>2, <3>3 DEF IInv, TypeOK, Queue!QueueTypeOK
  <2>3. CASE l # <<c, "response">>
    <3>1. stage[<<c, "response">>] # "idle"
      BY <1>2, <2>1, <2>3 DEF IInv, TypeOK, Queue!QueueTypeOK
    <3>2. PICK k \in Closers : /\ logger[<<c, k>>] = "ended"
                               /\ ticket[<<c, k>>] < ticket[<<c, "response">>]
      BY <3>1 DEF IInv, ResponseAfterRequest
    <3>3. <<c, k>> \in Loggers /\ <<c, k>> # l
      BY <2>1, <3>2, <1>1, LoggerNames
    <3> QED BY <1>1, <1>2, <2>1, <2>3, <3>2, <3>3 DEF IInv, TypeOK, Queue!QueueTypeOK
  <2> QED BY <2>2, <2>3
<1> QED BY <1>3, <1>4, <1>5, <1>6, <1>7 DEF IInv

(* Whatever the logger does with its ticket, the order of the tickets and   *)
(* the loggers that ended stay.                                             *)
LEMMA BehindKept ==
  ASSUME IInv, UNCHANGED ticket,
         \A m \in Loggers : stage'[m] # "idle" => stage[m] # "idle",
         \A m \in Loggers : logger[m] = "ended" => logger'[m] = "ended"
  PROVE  ResponseAfterRequest'
<1> SUFFICES ASSUME NEW c \in Plain, stage'[<<c, "response">>] # "idle"
             PROVE  \E k \in Closers : /\ logger'[<<c, k>>] = "ended"
                                       /\ ticket'[<<c, k>>] < ticket'[<<c, "response">>]
  BY DEF ResponseAfterRequest
<1>1. c \in Calls /\ <<c, "response">> \in Loggers
  BY LoggerNames, LoggersAssumption
<1>2. PICK k \in Closers : /\ logger[<<c, k>>] = "ended"
                           /\ ticket[<<c, k>>] < ticket[<<c, "response">>]
  BY <1>1 DEF IInv, ResponseAfterRequest
<1>3. <<c, k>> \in Loggers
  BY <1>1, LoggerNames
<1> QED BY <1>2, <1>3

LEMMA EnterIInv == ASSUME IInv, NEW l \in Loggers, Enter(l) \/ Overtake(l) PROVE IInv'
<1>1. logger[l] = "logging" /\ UNCHANGED <<callVars, logger>>
  BY DEF Enter, Overtake
<1>2. /\ stage[l] = "queued" /\ UNCHANGED <<ticket, issued>>
      /\ \E s \in {"turn", "late"} : stage' = [stage EXCEPT ![l] = s]
  BY DEF Enter, Overtake, Queue!Enter, Queue!Overtake
<1>3. QInv'
  BY QInvMove DEF IInv, Enter, Overtake
<1>4. TypeOK'
  BY <1>1, <1>3 DEF IInv, QInv, TypeOK, callVars
<1>5. Linked'
  BY <1>1, <1>2 DEF IInv, TypeOK, Linked, Queue!QueueTypeOK
<1>6. CloseFirst' /\ CopyFirst' /\ SignalledByEnded'
  BY <1>1 DEF IInv, CloseFirst, CopyFirst, SignalledByEnded, callVars
<1>7. ResponseAfterRequest'
  BY <1>1, <1>2, BehindKept DEF IInv, TypeOK, Queue!QueueTypeOK
<1> QED BY <1>3, <1>4, <1>5, <1>6, <1>7 DEF IInv

LEMMA LeaveIInv ==
  ASSUME IInv, NEW l \in Loggers, GiveUp(l) \/ Complete(l) \/ Panic(l)
  PROVE  IInv'
<1>1. PICK place \in {"signalling", "ended", "panicked"} :
        logger' = [logger EXCEPT ![l] = place] /\ (place = "signalling" => l \in RequestLoggers)
  BY DEF GiveUp, Complete, Panic, Ends, Collapses, LoggerMoves, AfterLogging
<1>2. logger[l] = "logging" /\ UNCHANGED callVars /\ Queue!Leave(l)
  BY DEF GiveUp, Complete, Panic, Ends, Collapses, LoggerMoves
<1>3. stage' = [stage EXCEPT ![l] = "done"] /\ UNCHANGED <<ticket, issued>>
  BY <1>2 DEF Queue!Leave
<1>4. QInv'
  BY <1>2, QInvMove DEF IInv
<1>5. TypeOK'
  BY <1>1, <1>2, <1>4 DEF IInv, QInv, TypeOK, LoggerPlaces, callVars
<1>6. Linked'
  BY <1>1, <1>2, <1>3 DEF IInv, TypeOK, Linked, Queue!QueueTypeOK
<1>7. CloseFirst' /\ CopyFirst' /\ SignalledByEnded'
  BY <1>1, <1>2, LoggerKeeps DEF LoggerPlaces
<1>8. ResponseAfterRequest'
  <2>1. stage[l] # "idle"
    BY <1>2 DEF IInv, Linked
  <2> QED BY <1>1, <1>2, <1>3, <2>1, BehindKept DEF IInv, TypeOK, Queue!QueueTypeOK
<1> QED BY <1>4, <1>5, <1>6, <1>7, <1>8 DEF IInv

(* Closing reqSentChan: by this logger, which ends, or by one that had      *)
(* ended before.                                                            *)
LEMMA SignalIInv == ASSUME IInv, NEW l \in RequestLoggers, SignalSent(l) PROVE IInv'
<1> DEFINE c == l[1]
<1>1. /\ logger[l] = "signalling"
      /\ logger' = [logger EXCEPT ![l] = IF reqSent[c] THEN "panicked" ELSE "ended"]
      /\ reqSent' = [reqSent EXCEPT ![c] = TRUE]
      /\ UNCHANGED <<handler, closer, closed, duration, queueVars>>
  BY DEF SignalSent, LoggerMoves
<1>2. l \in Loggers /\ c \in Calls /\ l[2] \in Closers /\ l = <<c, l[2]>>
  BY LoggerNames
<1>3. QInv'
  BY <1>1, QInvStutter DEF IInv
<1>4. TypeOK'
  BY <1>1, <1>2, <1>3 DEF IInv, QInv, TypeOK, LoggerPlaces
<1>5. Linked'
  BY <1>1, <1>2 DEF IInv, TypeOK, Linked, queueVars
<1>6. CloseFirst'
  BY <1>1, <1>2, LoggerNames DEF IInv, TypeOK, CloseFirst
<1>7. CopyFirst'
  BY <1>1, <1>2, LoggerNames DEF IInv, TypeOK, CopyFirst
<1>8. SignalledByEnded'
  <2> SUFFICES ASSUME NEW d \in Calls, reqSent'[d]
               PROVE  \E k \in Closers : logger'[<<d, k>>] = "ended"
    BY DEF SignalledByEnded
  <2>1. CASE reqSent[d]
    <3>1. PICK k \in Closers : logger[<<d, k>>] = "ended"
      BY <2>1 DEF IInv, SignalledByEnded
    <3>2. <<d, k>> \in Loggers
      BY LoggerNames
    <3> QED BY <1>1, <3>1, <3>2 DEF IInv, TypeOK
  <2>2. CASE ~reqSent[d]
    <3>1. d = c
      BY <1>1, <1>2, <2>2 DEF IInv, TypeOK
    <3> QED BY <1>1, <1>2, <2>2, <3>1 DEF IInv, TypeOK
  <2> QED BY <2>1, <2>2
<1>9. ResponseAfterRequest'
  BY <1>1, <1>2, BehindKept DEF IInv, TypeOK, queueVars
<1> QED BY <1>3, <1>4, <1>5, <1>6, <1>7, <1>8, <1>9 DEF IInv

-----------------------------------------------------------------------------
(* The invariant is inductive: one step per action. *)
LEMMA NextIInv == IInv /\ [Next]_vars => IInv'
<1> SUFFICES ASSUME IInv, [Next]_vars PROVE IInv'
  OBVIOUS
<1>1. CASE UNCHANGED vars
  <2>1. QInv' /\ Linked' /\ ResponseAfterRequest'
    BY <1>1, LoggersAlone DEF vars
  <2>2. TypeOK'
    BY <1>1, <2>1 DEF IInv, QInv, TypeOK, vars, callVars
  <2>3. CloseFirst' /\ CopyFirst' /\ SignalledByEnded'
    BY <1>1 DEF IInv, CloseFirst, CopyFirst, SignalledByEnded, vars, callVars
  <2> QED BY <2>1, <2>2, <2>3 DEF IInv
<1>2. ASSUME NEW c \in Calls, HandlerStep(c) PROVE IInv'
  <2>1. CASE CloseResponse(c)
    <3>1. c \in Plain
      BY <2>1 DEF CloseResponse, HandlerMoves, IInv, CopyFirst
    <3> QED BY <2>1, <3>1, CloseResponseIInv
  <2>2. CASE \E e \in Events : LogEvent(c, e)
    BY <2>2, LogEventIInv
  <2> QED BY <1>2, <2>1, <2>2, HandlerIInv DEF HandlerStep
<1>3. ASSUME NEW c \in Calls, NEW k \in Closers, CloseStep(c, k) PROVE IInv'
  BY <1>3, FlagIInv, CloseRequestIInv DEF CloseStep
<1>4. ASSUME NEW l \in Loggers, Take(l) \/ Wait(l) \/ Finish(l) \/ Signal(l) PROVE IInv'
  BY <1>4, TakeIInv, EnterIInv, LeaveIInv, SignalIInv DEF Wait, Finish, Signal
<1> QED BY <1>1, <1>2, <1>3, <1>4 DEF Next

THEOREM Inductive == Spec => []IInv
BY InitIInv, NextIInv, PTL DEF Spec

(* Tickets are unique, and a logger that has the turn has only finished     *)
(* loggers ahead of it, of any call.                                        *)
THEOREM QueueSafe == Spec => []QInv
<1>1. IInv => QInv
  BY DEF IInv
<1> QED BY <1>1, Inductive, PTL

(* The type invariant of a call's logging. *)
THEOREM TypeCorrect == Spec => []TypeOK
<1>1. IInv => TypeOK
  BY DEF IInv
<1> QED BY <1>1, Inductive, PTL

(* No response is logged before, or with a number smaller than, a request   *)
(* logger of its call that has ended.                                       *)
THEOREM ResponsesAfterRequests == Spec => []ResponseAfterRequest
<1>1. IInv => ResponseAfterRequest
  BY DEF IInv
<1> QED BY <1>1, Inductive, PTL

(* The response logger reads callDuration after the handler has set it.     *)
THEOREM DurationsTaken == Spec => []DurationBeforeResponse
<1>1. IInv => DurationBeforeResponse
  BY LoggerNames DEF IInv, DurationBeforeResponse, Linked, CopyFirst, Section
<1> QED BY <1>1, Inductive, PTL

(* Two loggers of a call that touch its data at once did not both get there *)
(* by their turn.                                                           *)
THEOREM DataRacesNeedLate == Spec => []DataRaceNeedsLate
<1>1. IInv => DataRaceNeedsLate
  <2> SUFFICES ASSUME IInv, NEW l \in RequestLoggers, NEW m \in Loggers, l # m,
                      stage[l] \in Section, stage[m] \in Section,
                      "late" \notin {stage[l], stage[m]}
               PROVE  FALSE
    BY DEF DataRaceNeedsLate
  <2>1. l \in Loggers /\ stage[l] = "turn" /\ stage[m] = "turn"
    BY LoggerNames DEF Section
  <2> QED BY <2>1, TurnAlone DEF IInv, QInv
<1> QED BY <1>1, Inductive, PTL

-----------------------------------------------------------------------------
(* When a handler has returned, reqSentChan is closed; or a Close that set  *)
(* the closed flag still drains the upload, and will start a request logger *)
(* though no other closer may any more; or a request logger is on its way   *)
(* to close the channel; unless it panicked.  A response logger never waits *)
(* for a signal that nobody is left to give, whichever closer passed the    *)
(* test of the flag, though the handler may skip its Close before any       *)
(* logger has started, and though a logger may give up before its section.  *)
NoSignalLost ==
  \A c \in Calls : handler[c] = "returned" =>
    \/ reqSent[c]
    \/ \E k \in Closers :
         \/ closer[<<c, k>>] = "draining"
         \/ logger[<<c, k>>] \in {"started", "logging", "signalling", "panicked"}

(* A handler returns after its Close, and a closer is only draining or done *)
(* with the flag set.                                                       *)
Closes ==
  /\ \A c \in Calls : handler[c] = "returned" => closer[<<c, "handler">>] = "done"
  /\ \A k \in RequestLoggers : closer[k] \in {"draining", "done"} => closed[k[1]]

(* A flag that is set was set by a Close that starts a logger, or will once *)
(* the stream is drained.                                                   *)
Starts(k) == closer[k] = "draining" \/ logger[k] # "none"

ClosedStarts == \A c \in Calls : closed[c] => \E k \in Closers : Starts(<<c, k>>)

(* A request logger only ends by signalling. *)
EndedSignalled == \A k \in RequestLoggers : logger[k] = "ended" => reqSent[k[1]]

SignalInv == Closes /\ ClosedStarts /\ EndedSignalled

LEMMA SignalInit == Init => SignalInv
BY LoggerNames DEF Init, CallInit, SignalInv, Closes, ClosedStarts, EndedSignalled

(* The handler's steps and the test of the flag: nobody starts but a logger *)
(* of another kind, and no flag changes.                                    *)
LEMMA SignalHandler ==
  ASSUME IInv, SignalInv, NEW c \in Calls, HandlerStep(c)
  PROVE  SignalInv'
<1>1. UNCHANGED <<closed, reqSent>>
  BY DEF HandlerStep, Forward, DoFails, DoSucceeds, CopyEnds, CloseResponse, StreamEnds,
         Return, LogEvent, EventLogged
<1>2. ASSUME NEW k \in RequestLoggers PROVE logger'[k] = logger[k]
  <2>1. \/ logger' = logger
        \/ CloseResponse(c)
        \/ \E e \in Events : LogEvent(c, e)
    BY DEF HandlerStep, Forward, DoFails, DoSucceeds, CopyEnds, StreamEnds, Return, EventLogged
  <2>2. k # <<c, "response">> /\ \A e \in Events : k # <<c, e>>
    <3>1. <<c, "response">> \notin RequestLoggers
      BY DEF RequestLoggers, Closers
    <3>2. \A e \in Events : <<c, e>> \notin RequestLoggers
      BY LoggerNames
    <3> QED BY <3>1, <3>2
  <2>3. k \in Loggers
    BY LoggerNames
  <2> QED BY <2>1, <2>2, <2>3 DEF CloseResponse, LogEvent, IInv, TypeOK
<1>3. EndedSignalled'
  BY <1>1, <1>2 DEF SignalInv, EndedSignalled
<1>4. \/ closer' = closer
      \/ \E j \in Closers : closer' = [closer EXCEPT ![<<c, j>>] = "open"]
  BY DEF HandlerStep, Forward, DoFails, DoSucceeds, CopyEnds, CloseResponse, StreamEnds,
         Return, LogEvent, EventLogged, Closers
<1>5. handler[c] # "returned" /\ (handler'[c] = "returned" => Return(c))
  BY DEF HandlerStep, HandlerMoves, Forward, DoFails, DoSucceeds, CopyEnds, CloseResponse,
         StreamEnds, Return, LogEvent, EventLogged, IInv, TypeOK
<1>6. \A d \in Calls : d # c => handler'[d] = handler[d]
  <2>1. \E place : handler' = [handler EXCEPT ![c] = place]
    BY DEF HandlerStep, HandlerMoves, Forward, DoFails, DoSucceeds, CopyEnds, CloseResponse,
           StreamEnds, Return, LogEvent, EventLogged
  <2> QED BY <2>1 DEF IInv, TypeOK
<1>7. ASSUME NEW k \in RequestLoggers, closer[k] = "draining" PROVE closer'[k] = "draining"
  <2>1. /\ handler[c] \notin {"returning", "returned"} => closer[<<c, "handler">>] = "idle"
        /\ handler[c] = "new" => closer[<<c, "transport">>] = "idle"
    BY DEF IInv, CloseFirst
  <2>2. \/ closer' = closer
        \/ \E j \in Closers : /\ closer' = [closer EXCEPT ![<<c, j>>] = "open"]
                             /\ closer[<<c, j>>] = "idle"
    BY <2>1
       DEF HandlerStep, HandlerMoves, Forward, DoFails, DoSucceeds, CopyEnds, CloseResponse,
           StreamEnds, Return, LogEvent, EventLogged, Closers
  <2> QED BY <1>7, <2>2 DEF IInv, TypeOK
<1>8. ClosedStarts'
  <2> SUFFICES ASSUME NEW d \in Calls, closed[d]
               PROVE  \E k \in Closers : Starts(<<d, k>>)'
    BY <1>1 DEF ClosedStarts
  <2>1. PICK k \in Closers : Starts(<<d, k>>)
    BY DEF SignalInv, ClosedStarts
  <2>2. <<d, k>> \in RequestLoggers
    BY LoggerNames
  <2> QED BY <1>2, <1>7, <2>1, <2>2 DEF Starts
<1>9. Closes'
  <2>1. ASSUME NEW d \in Calls, handler'[d] = "returned"
        PROVE  closer'[<<d, "handler">>] = "done"
    <3>1. <<d, "handler">> \in RequestLoggers
      BY LoggerNames DEF Closers
    <3>2. CASE d = c
      BY <1>5, <2>1, <3>2 DEF Return
    <3>3. CASE d # c
      <4>1. closer[<<d, "handler">>] = "done"
        BY <1>6, <2>1, <3>3 DEF SignalInv, Closes
      <4> QED BY <1>4, <3>1, <3>3, <4>1 DEF IInv, TypeOK
    <3> QED BY <3>2, <3>3
  <2>2. ASSUME NEW k \in RequestLoggers, closer'[k] \in {"draining", "done"} PROVE closed'[k[1]]
    <3>1. closer[k] \in {"draining", "done"}
      BY <1>4, <2>2 DEF IInv, TypeOK
    <3> QED BY <1>1, <3>1 DEF SignalInv, Closes
  <2> QED BY <2>1, <2>2 DEF Closes
<1> QED BY <1>3, <1>9, <1>8 DEF SignalInv

LEMMA SignalClose ==
  ASSUME IInv, SignalInv, NEW c \in Calls, NEW k \in Closers, CloseStep(c, k)
  PROVE  SignalInv'
<1>1. /\ <<c, k>> \in RequestLoggers /\ <<c, k>> \in Loggers
      /\ \A l \in RequestLoggers : l[1] \in Calls
  BY LoggerNames
<1>2. CASE TestClosed(c, k)
  <2>1. UNCHANGED <<handler, closed, reqSent, logger>>
    BY <1>2 DEF TestClosed
  <2>2. EndedSignalled'
    BY <2>1 DEF SignalInv, EndedSignalled
  <2>3. closer[<<c, k>>] = "open" /\ \E place \in {"done", "checked"} :
          closer' = [closer EXCEPT ![<<c, k>>] = place] /\ (place = "done" => closed[c])
    BY <1>2 DEF TestClosed
  <2>4. Closes'
    BY <1>1, <2>1, <2>3 DEF SignalInv, Closes, IInv, TypeOK
  <2>5. ClosedStarts'
    BY <2>1, <2>3 DEF SignalInv, ClosedStarts, Starts, IInv, TypeOK
  <2> QED BY <2>2, <2>4, <2>5 DEF SignalInv
<1>3. CASE MarkClosed(c, k)
  <2>1. /\ closer[<<c, k>>] = "checked"
        /\ closer' = [closer EXCEPT ![<<c, k>>] = "draining"]
        /\ closed' = [closed EXCEPT ![c] = TRUE]
        /\ UNCHANGED <<handler, reqSent, logger>>
    BY <1>3 DEF MarkClosed
  <2>2. EndedSignalled'
    BY <2>1 DEF SignalInv, EndedSignalled
  <2>3. Closes'
    BY <1>1, <2>1 DEF SignalInv, Closes, IInv, TypeOK
  <2>4. ClosedStarts'
    <3> SUFFICES ASSUME NEW d \in Calls, closed'[d]
                 PROVE  \E j \in Closers : Starts(<<d, j>>)'
      BY DEF ClosedStarts
    <3>1. CASE d = c
      BY <1>1, <2>1, <3>1 DEF Starts, IInv, TypeOK
    <3>2. CASE d # c
      <4>1. PICK j \in Closers : Starts(<<d, j>>)
        BY <2>1, <3>2 DEF SignalInv, ClosedStarts, IInv, TypeOK
      <4> QED BY <2>1, <3>2, <4>1 DEF Starts, IInv, TypeOK
    <3> QED BY <3>1, <3>2
  <2> QED BY <2>2, <2>3, <2>4 DEF SignalInv
<1>4. CASE CloseRequest(c, k)
  <2>1. /\ closer[<<c, k>>] = "draining"
        /\ closer' = [closer EXCEPT ![<<c, k>>] = "done"]
        /\ logger' = [logger EXCEPT ![<<c, k>>] = "started"]
        /\ UNCHANGED <<handler, closed, reqSent>>
    BY <1>4 DEF CloseRequest
  <2>2. Closes'
    BY <1>1, <2>1 DEF SignalInv, Closes, IInv, TypeOK
  <2>3. EndedSignalled'
    BY <1>1, <2>1 DEF SignalInv, EndedSignalled, IInv, TypeOK
  <2>4. ASSUME NEW l \in RequestLoggers, Starts(l) PROVE Starts(l)'
    BY <1>1, <2>1, <2>4, LoggerNames DEF Starts, IInv, TypeOK
  <2>5. ClosedStarts'
    <3> SUFFICES ASSUME NEW d \in Calls, closed[d]
                 PROVE  \E j \in Closers : Starts(<<d, j>>)'
      BY <2>1 DEF ClosedStarts
    <3>1. PICK j \in Closers : Starts(<<d, j>>)
      BY DEF SignalInv, ClosedStarts
    <3> QED BY <2>4, <3>1, LoggerNames
  <2> QED BY <2>2, <2>3, <2>5 DEF SignalInv
<1> QED BY <1>2, <1>3, <1>4 DEF CloseStep

(* A request logger goes on to signal, and signals before it ends.          *)
LEMMA SignalLogger ==
  ASSUME IInv, SignalInv, NEW l \in Loggers, Take(l) \/ Wait(l) \/ Finish(l) \/ Signal(l)
  PROVE  SignalInv'
<1>1. UNCHANGED <<handler, closer, closed>>
  BY DEF Take, Begins, Wait, Enter, Overtake, GiveUp, Ends, Finish, Complete, Panic, Collapses,
         Signal, SignalSent, callVars
<1>2. Closes'
  BY <1>1 DEF SignalInv, Closes
<1>3. \/ logger' = logger
      \/ \E place \in LoggerPlaces \ {"none"} : logger' = [logger EXCEPT ![l] = place]
  BY DEF Take, Begins, Wait, Enter, Overtake, GiveUp, Ends, AfterLogging, Finish, Complete,
         Panic, Collapses, Signal, SignalSent, LoggerMoves, LoggerPlaces
<1>4. ClosedStarts'
  <2> SUFFICES ASSUME NEW c \in Calls, closed[c]
               PROVE  \E k \in Closers : Starts(<<c, k>>)'
    BY <1>1 DEF ClosedStarts
  <2>1. PICK k \in Closers : Starts(<<c, k>>)
    BY DEF SignalInv, ClosedStarts
  <2>2. <<c, k>> \in Loggers
    BY LoggerNames
  <2> QED BY <1>1, <1>3, <2>1, <2>2 DEF Starts, IInv, TypeOK
<1>5. EndedSignalled'
  <2> SUFFICES ASSUME NEW k \in RequestLoggers, logger'[k] = "ended" PROVE reqSent'[k[1]]
    BY DEF EndedSignalled
  <2>1. k \in Loggers /\ k[1] \in Calls
    BY LoggerNames
  <2>2. CASE Signal(l)
    <3>1. /\ reqSent' = [reqSent EXCEPT ![l[1]] = TRUE]
          /\ \E place : logger' = [logger EXCEPT ![l] = place]
      BY <2>2 DEF Signal, SignalSent, LoggerMoves
    <3>2. CASE k = l
      BY <2>1, <3>1, <3>2 DEF IInv, TypeOK
    <3>3. CASE k # l
      <4>1. reqSent[k[1]]
        BY <2>1, <3>1, <3>3 DEF SignalInv, EndedSignalled, IInv, TypeOK
      <4> QED BY <2>1, <3>1, <4>1 DEF IInv, TypeOK
    <3> QED BY <3>2, <3>3
  <2>3. CASE ~Signal(l)
    <3>1. reqSent' = reqSent
      BY <2>3 DEF Take, Begins, Wait, Enter, Overtake, GiveUp, Ends, Finish, Complete, Panic,
                  Collapses, callVars
    <3>2. \/ logger' = logger
          \/ \E place \in {"logging", "panicked", AfterLogging(l)} :
               logger' = [logger EXCEPT ![l] = place]
      BY <2>3 DEF Take, Begins, Wait, Enter, Overtake, GiveUp, Ends, Finish, Complete, Panic,
                  Collapses, LoggerMoves
    <3>3. logger[k] = "ended"
      BY <2>1, <3>2 DEF AfterLogging, IInv, TypeOK
    <3> QED BY <3>1, <3>3 DEF SignalInv, EndedSignalled
  <2> QED BY <2>2, <2>3
<1> QED BY <1>2, <1>4, <1>5 DEF SignalInv

LEMMA SignalNext == IInv /\ SignalInv /\ [Next]_vars => SignalInv'
<1>1. ASSUME SignalInv, UNCHANGED vars PROVE SignalInv'
  BY <1>1 DEF SignalInv, Closes, ClosedStarts, Starts, EndedSignalled, vars, callVars
<1> QED BY <1>1, SignalHandler, SignalClose, SignalLogger DEF Next

(* The signal a response logger waits for is given or still to come, but    *)
(* for panics: a Close that is still draining will start who gives it.      *)
THEOREM SignalsKept == Spec => []NoSignalLost
<1>1. Spec => []SignalInv
  BY SignalInit, SignalNext, Inductive, PTL DEF Spec
<1>2. IInv /\ SignalInv => NoSignalLost
  <2> SUFFICES ASSUME IInv, SignalInv, NEW c \in Calls, handler[c] = "returned", ~reqSent[c]
               PROVE  \E k \in Closers :
                        \/ closer[<<c, k>>] = "draining"
                        \/ logger[<<c, k>>] \in {"started", "logging", "signalling", "panicked"}
    BY DEF NoSignalLost
  <2>1. closer[<<c, "handler">>] = "done" /\ <<c, "handler">> \in RequestLoggers
    BY LoggerNames DEF SignalInv, Closes, Closers
  <2>2. closed[c]
    BY <2>1 DEF SignalInv, Closes
  <2>3. PICK k \in Closers : Starts(<<c, k>>)
    BY <2>2 DEF SignalInv, ClosedStarts
  <2>4. <<c, k>> \in RequestLoggers /\ <<c, k>> \in Loggers
    BY LoggerNames
  <2>5. logger[<<c, k>>] # "ended"
    BY <2>4 DEF SignalInv, EndedSignalled
  <2> QED BY <2>3, <2>4, <2>5 DEF Starts, IInv, TypeOK, LoggerPlaces
<1> QED BY <1>1, <1>2, Inductive, PTL
============================================================================
