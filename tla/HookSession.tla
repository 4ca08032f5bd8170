---------------------------- MODULE HookSession ----------------------------
(***************************************************************************)
(* One session of the hook client (src/cmd/snooper-hook/main.go) with the  *)
(* manager's end of its WebSocket (src/modules/manager.go).  The client    *)
(* registers a module and waits for the answer while its read loop already *)
(* handles what comes in.  At the other end the read loop answers, and     *)
(* dispatches send the module's events, all under writeMu.  An event with  *)
(* a body is two frames, the second of which says nothing of the first;    *)
(* the client pairs them by their order.                                   *)
(***************************************************************************)
EXTENDS Naturals, Sequences

CONSTANTS Events,       \* events that dispatches have for the module
          Binary,       \* those sent with a body (SendMessageWithBinary)
          Unencodable,  \* those whose extracted data JSON cannot express
          Answer,       \* the answer to register_module
          Capacity      \* frames the connection holds before a write blocks

ASSUME SessionAssumption ==
  /\ Binary \subseteq Events
  /\ Unencodable \subseteq Events \ Binary
  /\ Answer \notin Events
  /\ Capacity \in Nat \ {0}

Writers == Events \cup {Answer}

(* As in OrderedProcessor, X_Slip... is X with a plausible mistake. *)

VARIABLES place,       \* where each writer stands in its Send call
          writeMu,     \* its holder: no writer or one
          serverEnd,   \* the manager's end of the connection
          registered,  \* what became of the registration
          toServer,    \* "none", "request" on its way, or "taken"
          toClient,    \* frames on their way to the client
          main,        \* where the client's main goroutine stands
          pending,     \* the request is in pendingRequests
          answered,    \* its channel holds the answer
          reader,      \* the client's read loop: "off", "reading" or "ended"
          announced,   \* lastJSONMessage while expectingBinary, or none
          clientEnd,   \* the client's end of the connection
          cancelled,   \* the client's context
          cut,         \* the network lost the connection and told nobody
          sent,        \* history: messages written completely
          handled      \* history: messages the client handled

server == <<place, writeMu, serverEnd, registered, sent>>
client == <<main, pending, answered, reader, announced, clientEnd, cancelled, handled>>
wires == <<toServer, toClient, cut>>
vars == <<server, client, wires>>

(* A text frame with a message, a binary frame, or the text frame without   *)
(* content that WriteJSON leaves behind when it cannot encode.  Number is   *)
(* history: how many messages had been written before, and one.             *)
Frames == [of : Writers, kind : {"json", "body", "empty"}, number : Nat \ {0}]

(* What a reader makes of frames: a message and the body it was given. *)
Parcels == [of : Writers, body : SUBSET Events]

Whole(w) == [of |-> w, body |-> IF w \in Binary THEN {w} ELSE {}]

TypeOK ==
  /\ place \in [Writers -> {"idle", "locked", "announced", "sent", "failed"}]
  /\ writeMu \subseteq Writers /\ announced \subseteq Binary
  /\ serverEnd \in {"none", "open", "broken", "closed"}
  /\ clientEnd \in {"none", "open", "closed"}
  /\ registered \in {"no", "yes", "refused"}
  /\ toServer \in {"none", "request", "taken"}
  /\ toClient \in Seq(Frames)
  /\ main \in {"new", "connected", "sending", "waiting", "registered", "exited"}
  /\ reader \in {"off", "reading", "ended"}
  /\ pending \in BOOLEAN /\ answered \in BOOLEAN /\ cancelled \in BOOLEAN /\ cut \in BOOLEAN
  /\ sent \in Seq(Parcels) /\ handled \in Seq(Parcels)

Init ==
  /\ place = [w \in Writers |-> "idle"]
  /\ writeMu = {} /\ announced = {}
  /\ serverEnd = "none" /\ clientEnd = "none"
  /\ registered = "no"
  /\ toServer = "none" /\ toClient = <<>>
  /\ main = "new" /\ reader = "off"
  /\ pending = FALSE /\ answered = FALSE /\ cancelled = FALSE /\ cut = FALSE
  /\ sent = <<>> /\ handled = <<>>

(* The connection cannot carry what this end writes. *)
ClientGone == clientEnd = "closed" \/ cut
ServerGone == serverEnd = "closed" \/ cut

-----------------------------------------------------------------------------
(* The manager's end: SendMessage and SendMessageWithBinary. *)

(* A dispatch has an event once the module is in the registry, which is     *)
(* before the answer is sent; the read loop has the answer.                 *)
MaySend(w) == IF w = Answer THEN toServer = "taken" ELSE registered = "yes"

Returned(w) == place[w] \in {"sent", "failed"}

Lock(w) ==
  /\ place[w] = "idle" /\ MaySend(w)
  /\ writeMu = {}
  /\ writeMu' = {w}
  /\ place' = [place EXCEPT ![w] = "locked"]
  /\ UNCHANGED <<serverEnd, registered, sent, client, wires>>

(* A frame is written when there is room; a write into a connection whose   *)
(* peer has gone may still succeed.                                         *)
Put(w, kind) ==
  /\ serverEnd = "open"
  /\ Len(toClient) < Capacity
  /\ toClient' = Append(toClient, [of |-> w, kind |-> kind, number |-> Len(sent) + 1])
  /\ UNCHANGED <<toServer, cut>>

Return(w, result) == /\ place' = [place EXCEPT ![w] = result]
                     /\ writeMu' = {}

(* Returns, and so unlocks, between the two frames. *)
WriteJSON_SlipUnlock(w) ==
  /\ place[w] = "locked" /\ w \notin Unencodable
  /\ Put(w, "json")
  /\ IF w \in Binary
     THEN /\ place' = [place EXCEPT ![w] = "announced"] /\ writeMu' = {}
          /\ UNCHANGED sent
     ELSE /\ Return(w, "sent") /\ sent' = Append(sent, Whole(w))
  /\ UNCHANGED <<serverEnd, registered, client>>

WriteJSON(w) ==
  /\ place[w] = "locked" /\ w \notin Unencodable
  /\ Put(w, "json")
  /\ \/ /\ w \in Binary
        /\ place' = [place EXCEPT ![w] = "announced"]
        /\ UNCHANGED <<writeMu, sent>>
     \/ /\ w \notin Binary
        /\ Return(w, "sent")
        /\ sent' = Append(sent, Whole(w))
  /\ UNCHANGED <<serverEnd, registered, client>>

(* The encoder fails before it writes, the frame is closed all the same,    *)
(* and the dispatch gets an error.                                          *)
WriteEmpty(w) ==
  /\ place[w] = "locked" /\ w \in Unencodable
  /\ Put(w, "empty")
  /\ Return(w, "failed")
  /\ UNCHANGED <<serverEnd, registered, sent, client>>

WriteBinary(w) ==
  /\ place[w] = "announced"
  /\ Put(w, "body")
  /\ Return(w, "sent")
  /\ sent' = Append(sent, Whole(w))
  /\ UNCHANGED <<serverEnd, registered, client>>

(* Keeps the lock on the way out. *)
WriteFails_SlipKeepLock(w) ==
  /\ place[w] \in {"locked", "announced"}
  /\ serverEnd # "open" \/ ClientGone
  /\ place' = [place EXCEPT ![w] = "failed"]
  /\ serverEnd' = IF serverEnd = "open" THEN "broken" ELSE serverEnd
  /\ UNCHANGED <<writeMu, registered, sent, client, wires>>

(* After a failed write the connection fails all others. *)
WriteFails(w) ==
  /\ place[w] \in {"locked", "announced"}
  /\ serverEnd # "open" \/ ClientGone
  /\ Return(w, "failed")
  /\ serverEnd' = IF serverEnd = "open" THEN "broken" ELSE serverEnd
  /\ UNCHANGED <<registered, sent, client, wires>>

-----------------------------------------------------------------------------
(* The manager's end: the read loop. *)

(* handleModuleRegistration enters the module or refuses it; what follows   *)
(* is the answer, and the loop reads no further before that has returned.   *)
HandleRegistration ==
  /\ serverEnd \in {"open", "broken"} /\ ~cut
  /\ toServer = "request"
  /\ toServer' = "taken"
  /\ registered' \in {"yes", "refused"}
  /\ UNCHANGED <<place, writeMu, serverEnd, sent, client, toClient, cut>>

(* The read fails and the deferred Close closes the connection. *)
ServerReadFails ==
  /\ serverEnd \in {"open", "broken"}
  /\ ClientGone
  /\ toServer = "taken" => Returned(Answer)
  /\ serverEnd' = "closed"
  /\ UNCHANGED <<place, writeMu, registered, sent, client, wires>>

-----------------------------------------------------------------------------
(* The client's read loop. *)

(* handleJSONMessage: the answer goes into the channel of its request, if   *)
(* that still waits; an event is printed.                                   *)
Handle(w, body) ==
  /\ handled' = Append(handled, [of |-> w, body |-> body])
  /\ answered' = (answered \/ (w = Answer /\ pending))

Take == /\ reader = "reading" /\ clientEnd = "open" /\ ~cut
        /\ toClient # <<>>
        /\ toClient' = Tail(toClient)
        /\ UNCHANGED <<server, main, pending, cancelled, toServer, cut>>

(* Takes every message for an announcement. *)
ReadText_SlipAlways ==
  /\ Take /\ Head(toClient).kind = "json"
  /\ announced' = {Head(toClient).of}
  /\ UNCHANGED <<answered, handled, reader, clientEnd>>

ReadText ==
  LET f == Head(toClient) IN
  /\ Take /\ f.kind = "json"
  /\ IF f.of \in Binary
     THEN announced' = {f.of} /\ UNCHANGED <<answered, handled>>
     ELSE Handle(f.of, {}) /\ UNCHANGED announced
  /\ UNCHANGED <<reader, clientEnd>>

(* A binary frame nobody announced is dropped. *)
ReadBinary ==
  LET f == Head(toClient) IN
  /\ Take /\ f.kind = "body"
  /\ \/ announced = {} /\ UNCHANGED <<answered, handled>>
     \/ \E w \in announced : Handle(w, {f.of})
  /\ announced' = {}
  /\ UNCHANGED <<reader, clientEnd>>

(* Not JSON: the loop returns, closing the connection, and leaves the       *)
(* context alone.                                                           *)
ReadGarbage ==
  /\ Take /\ Head(toClient).kind = "empty"
  /\ reader' = "ended" /\ clientEnd' = "closed"
  /\ UNCHANGED <<answered, announced, handled>>

(* The read fails: the connection is closed at either end or lost.  The     *)
(* loop cancels the context and returns.                                    *)
ReadFails ==
  /\ reader = "reading"
  /\ clientEnd = "closed" \/ ServerGone
  /\ reader' = "ended" /\ clientEnd' = "closed" /\ cancelled' = TRUE
  /\ UNCHANGED <<server, main, pending, answered, announced, handled, wires>>

(* Leaves it to the loop to notice. *)
CloseWhenCancelled_SlipNone == FALSE /\ UNCHANGED vars

(* The goroutine that closes the connection when the context is cancelled.  *)
CloseWhenCancelled ==
  /\ cancelled /\ reader # "off" /\ clientEnd = "open"
  /\ clientEnd' = "closed"
  /\ UNCHANGED <<server, main, pending, answered, reader, announced, cancelled, handled, wires>>

-----------------------------------------------------------------------------
(* The client's main goroutine. *)

(* The process ends, its connection with it. *)
Exit == /\ main' = "exited"
        /\ reader' = "ended" /\ clientEnd' = "closed"

Connect ==
  /\ main = "new"
  /\ main' = "connected"
  /\ reader' = "reading" /\ clientEnd' = "open" /\ serverEnd' = "open"
  /\ UNCHANGED <<place, writeMu, registered, sent, pending, answered, announced, cancelled, handled, wires>>

ConnectFails ==
  /\ main = "new" /\ Exit
  /\ UNCHANGED <<server, pending, answered, announced, cancelled, handled, wires>>

(* Leaves the channel to be entered once the request is out. *)
Prepare_SlipLate ==
  /\ main = "connected" /\ main' = "sending"
  /\ UNCHANGED <<server, pending, answered, reader, announced, clientEnd, cancelled, handled, wires>>

(* sendRequest enters the channel before it sends. *)
Prepare ==
  /\ main = "connected" /\ main' = "sending"
  /\ pending' = TRUE
  /\ UNCHANGED <<server, answered, reader, announced, clientEnd, cancelled, handled, wires>>

SendRequest ==
  /\ main = "sending" /\ clientEnd = "open"
  /\ main' = "waiting"
  /\ toServer' = "request"
  /\ UNCHANGED <<server, pending, answered, reader, announced, clientEnd, cancelled, handled, toClient, cut>>

(* RegisterModule returns an error, which is fatal. *)
Fail == Exit /\ pending' = FALSE /\ UNCHANGED <<server, answered, announced, cancelled, handled, wires>>

SendFails == main = "sending" /\ (clientEnd = "closed" \/ ServerGone) /\ Fail

(* Reads the answer without looking at what it says. *)
TakeAnswer_SlipBlind ==
  /\ main = "waiting" /\ answered
  /\ main' = "registered" /\ pending' = FALSE
  /\ UNCHANGED <<server, answered, reader, announced, clientEnd, cancelled, handled, wires>>

TakeAnswer ==
  /\ main = "waiting" /\ answered
  /\ registered = "yes"
  /\ main' = "registered" /\ pending' = FALSE
  /\ UNCHANGED <<server, answered, reader, announced, clientEnd, cancelled, handled, wires>>

TakeRefusal == main = "waiting" /\ answered /\ registered = "refused" /\ Fail

(* Ten seconds are over; the answer may be in the channel as well. *)
TimeOut == main = "waiting" /\ Fail

SeeCancelled == cancelled /\ TimeOut

(* main waits for the read loop and no more. *)
Finish ==
  /\ main = "registered" /\ reader = "ended" /\ Exit
  /\ UNCHANGED <<server, pending, answered, announced, cancelled, handled, wires>>

-----------------------------------------------------------------------------
(* The environment. *)

Interrupt ==
  /\ main # "exited" /\ ~cancelled
  /\ cancelled' = TRUE
  /\ UNCHANGED <<server, main, pending, answered, reader, announced, clientEnd, handled, wires>>

(* The snooper's process ends. *)
SnooperEnds ==
  /\ serverEnd \in {"open", "broken"}
  /\ serverEnd' = "closed"
  /\ UNCHANGED <<place, writeMu, registered, sent, client, wires>>

Cut ==
  /\ main # "new" /\ ~cut
  /\ cut' = TRUE
  /\ UNCHANGED <<server, client, toServer, toClient>>

-----------------------------------------------------------------------------
Write(w) == WriteJSON(w) \/ WriteEmpty(w) \/ WriteBinary(w)
Read == ReadText \/ ReadBinary \/ ReadGarbage
Main == \/ Connect \/ ConnectFails \/ Prepare \/ SendRequest \/ SendFails
        \/ TakeAnswer \/ TakeRefusal \/ SeeCancelled \/ Finish

Next ==
  \/ \E w \in Writers : Lock(w) \/ Write(w) \/ WriteFails(w)
  \/ HandleRegistration \/ ServerReadFails
  \/ Read \/ ReadFails \/ CloseWhenCancelled
  \/ Main \/ TimeOut
  \/ Interrupt \/ SnooperEnds \/ Cut

Spec == Init /\ [][Next]_vars

(* Goroutines that can run do, the read loops take what arrives, and the    *)
(* timer fires.  The end of a process reaches the other end, unless the     *)
(* network has lost the connection: then nothing is assumed.                *)
FairSpec ==
  /\ Spec
  /\ \A w \in Writers : /\ WF_vars(Write(w))
                        /\ WF_vars((serverEnd # "open" \/ ~cut) /\ WriteFails(w))
  /\ WF_vars(Lock(Answer))
  /\ WF_vars(HandleRegistration)
  /\ WF_vars(~cut /\ ServerReadFails)
  /\ WF_vars(Read)
  /\ WF_vars((clientEnd = "closed" \/ ~cut) /\ ReadFails)
  /\ WF_vars(CloseWhenCancelled)
  /\ WF_vars(Main) /\ WF_vars(TimeOut)

-----------------------------------------------------------------------------
(* An answer that is handled while RegisterModule waits is in the channel   *)
(* of its request, however early it came, and it answers what the manager   *)
(* did: a client that goes on to listen has its module in the registry.     *)
AnswerKept ==
  /\ main = "waiting" /\ (\E i \in DOMAIN handled : handled[i].of = Answer) => answered
  /\ main = "registered" => registered = "yes"

(* The client handles whole messages in the order the manager sent them:    *)
(* no body goes to another event's announcement, whichever dispatches and   *)
(* answers write at once.                                                   *)
Channel == INSTANCE MessageChannel WITH Messages <- Parcels, received <- handled

ImplementsChannel == Channel!Spec

(* Whatever ends the session ends both ends: an interrupt, the end of the   *)
(* client's read loop, the end of the snooper.  A client that ends takes    *)
(* the manager's end along, which then unregisters its module.  Only a      *)
(* network that hides the end of one side keeps the other.                  *)
SessionEnds ==
  /\ cancelled \/ reader = "ended" ~> main = "exited"
  /\ serverEnd = "closed" ~> main = "exited" \/ cut
  /\ main = "exited" ~> serverEnd \in {"none", "closed"} \/ cut

(* No dispatch hangs in a send, holding up the call it works for, as long   *)
(* as the network lets the client read or its end be noticed.               *)
WritersReturn == \A w \in Writers : w \in writeMu ~> w \notin writeMu \/ cut
=============================================================================
