------------------------- MODULE HookSessionProofs -------------------------
(***************************************************************************)
(* The safety properties of HookSession for any set of events and any      *)
(* capacity of the connection, and the refinement of MessageChannel.       *)
(***************************************************************************)
EXTENDS HookSession, TLAPS

(* The writer inside a Send call is the holder of writeMu, and only one     *)
(* with a body stands between two frames.                                   *)
Locking ==
  /\ \A w \in Writers : place[w] \in {"locked", "announced"} => writeMu = {w}
  /\ \A w \in writeMu : place[w] \in {"locked", "announced"}
  /\ \A w \in Writers : place[w] = "announced" => w \in Binary

(* What the client's main goroutine has done fits what the other end did.   *)
Session ==
  /\ main = "new" <=> reader = "off"
  /\ main = "new" => serverEnd = "none" /\ registered = "no" /\ \A w \in Writers : place[w] = "idle"
  /\ main \in {"new", "connected", "sending"} => toServer = "none"
  /\ main = "registered" => toServer = "taken" /\ registered = "yes"
  /\ main \in {"sending", "waiting"} => pending
  /\ answered => toServer = "taken"
  /\ place[Answer] # "idle" => toServer = "taken"
  /\ \A i \in DOMAIN toClient : toClient[i].of = Answer => toServer = "taken"
  /\ \A i \in DOMAIN handled : handled[i].of = Answer => toServer = "taken"
  /\ main = "waiting" /\ (\E i \in DOMAIN handled : handled[i].of = Answer) => answered

(* The frame that completes a message, and the one that announces a body. *)
Final(f) == f.kind = "body" \/ (f.kind = "json" /\ f.of \notin Binary)
Announcement(f) == f.kind = "json" /\ f.of \in Binary

FrameFits(f) ==
  /\ f.kind = "body" => f.of \in Binary
  /\ Final(f) => f.number <= Len(sent) /\ sent[f.number] = Whole(f.of)

(* Frame g comes right after frame f. *)
Follows(f, g) ==
  /\ Final(f) => g.kind # "body" /\ g.number = f.number + 1
  /\ Announcement(f) => g.kind = "body" /\ g.of = f.of /\ g.number = f.number

NobodyBetween == \A w \in Writers : place[w] # "announced"
WriterBetween(w) == place[w] = "announced" \/ serverEnd # "open"

(* Frame f is the last one written. *)
LastFits(f) ==
  /\ ~Announcement(f) => NobodyBetween \/ serverEnd # "open"
  /\ Final(f) => f.number = Len(sent)
  /\ Announcement(f) => f.number = Len(sent) + 1 /\ WriterBetween(f.of)

(* Frame f is the next one for the client to read. *)
HeadFits(f) ==
  \/ f.kind = "empty"
  \/ /\ f.number = Len(handled) + 1
     /\ IF f.kind = "body" THEN announced = {f.of} ELSE announced = {}

(* The client has read all there is. *)
Quiet == /\ Len(handled) = Len(sent)
         /\ \/ announced = {} /\ (NobodyBetween \/ serverEnd # "open")
            \/ \E w \in Binary : announced = {w} /\ WriterBetween(w)

Wire ==
  /\ \A i \in DOMAIN toClient : FrameFits(toClient[i])
  /\ \A i \in DOMAIN toClient : i + 1 \in DOMAIN toClient => Follows(toClient[i], toClient[i + 1])
  /\ toClient # <<>> => LastFits(toClient[Len(toClient)])
  /\ reader = "reading" => IF toClient = <<>> THEN Quiet ELSE HeadFits(toClient[1])
  /\ reader = "off" => toClient = <<>> /\ announced = {} /\ Len(handled) = Len(sent)

(* The inductive invariant. *)
IInv == TypeOK /\ Locking /\ Session /\ Wire

-----------------------------------------------------------------------------
LEMMA AnswerPlain == Answer \in Writers /\ Answer \notin Binary
BY SessionAssumption DEF Writers

LEMMA InitInv == Init => IInv
<1> SUFFICES ASSUME Init PROVE IInv
  OBVIOUS
<1>1. TypeOK
  <2>1. <<>> \in Seq(Frames) /\ <<>> \in Seq(Parcels)
    OBVIOUS
  <2>2. place \in [Writers -> {"idle", "locked", "announced", "sent", "failed"}]
    BY DEF Init
  <2> QED BY <2>1, <2>2 DEF Init, TypeOK
<1>2. Locking
  BY DEF Init, Locking
<1>3. Session
  BY AnswerPlain DEF Init, Session
<1>4. Wire
  BY DEF Init, Wire, Quiet, NobodyBetween
<1> QED BY <1>1, <1>2, <1>3, <1>4 DEF IInv

-----------------------------------------------------------------------------
LEMMA WholeParcel == \A w \in Writers : Whole(w) \in Parcels
BY SessionAssumption DEF Whole, Parcels, Writers

LEMMA HandleType ==
  ASSUME NEW w \in Writers, NEW body \in SUBSET Events, Handle(w, body), handled \in Seq(Parcels)
  PROVE  handled' \in Seq(Parcels) /\ answered' \in BOOLEAN
<1>1. (answered \/ (w = Answer /\ pending)) \in BOOLEAN
  OBVIOUS
<1>2. answered' = (answered \/ (w = Answer /\ pending))
  BY DEF Handle
<1>3. answered' \in BOOLEAN
  BY <1>1, <1>2, Zenon
<1>4. [of |-> w, body |-> body] \in Parcels
  BY DEF Parcels
<1>5. handled' = Append(handled, [of |-> w, body |-> body])
  BY DEF Handle
<1> QED BY <1>3, <1>4, <1>5

LEMMA TypeStep == TypeOK /\ Wire /\ [Next]_vars => TypeOK'
<1> SUFFICES ASSUME TypeOK, Wire, [Next]_vars PROVE TypeOK'
  OBVIOUS
<1> USE DEF TypeOK
<1>1. ASSUME NEW w \in Writers, Lock(w) PROVE TypeOK'
  BY <1>1 DEF Lock, client, wires
<1>2. ASSUME NEW w \in Writers, WriteJSON(w) PROVE TypeOK'
  <2>1. [of |-> w, kind |-> "json", number |-> Len(sent) + 1] \in Frames
    BY DEF Frames
  <2>2. Whole(w) \in Parcels
    BY WholeParcel
  <2>3. toClient' \in Seq(Frames)
    BY <1>2, <2>1 DEF WriteJSON, Put
  <2>5. sent' = sent \/ sent' = Append(sent, Whole(w))
    BY <1>2 DEF WriteJSON
  <2>6. sent' \in Seq(Parcels)
    <3>1. sent \in Seq(Parcels)
      OBVIOUS
    <3>2. Append(sent, Whole(w)) \in Seq(Parcels)
      BY <2>2, <3>1
    <3> QED BY <2>5, <3>1, <3>2
  <2>4. place' \in [Writers -> {"idle", "locked", "announced", "sent", "failed"}] /\ writeMu' \subseteq Writers
    BY <1>2 DEF WriteJSON, Return
  <2> QED BY <1>2, <2>3, <2>4, <2>6 DEF WriteJSON, Put, client
<1>3. ASSUME NEW w \in Writers, WriteEmpty(w) PROVE TypeOK'
  <2>1. [of |-> w, kind |-> "empty", number |-> Len(sent) + 1] \in Frames
    BY DEF Frames
  <2> QED BY <1>3, <2>1 DEF WriteEmpty, Put, Return, client
<1>4. ASSUME NEW w \in Writers, WriteBinary(w) PROVE TypeOK'
  <2>1. [of |-> w, kind |-> "body", number |-> Len(sent) + 1] \in Frames
    BY DEF Frames
  <2> QED BY <1>4, <2>1, WholeParcel DEF WriteBinary, Put, Return, client
<1>5. ASSUME NEW w \in Writers, WriteFails(w) PROVE TypeOK'
  BY <1>5 DEF WriteFails, Return, client, wires
<1>6. ASSUME HandleRegistration \/ ServerReadFails \/ SnooperEnds \/ Interrupt \/ Cut PROVE TypeOK'
  BY <1>6 DEF HandleRegistration, ServerReadFails, SnooperEnds, Interrupt, Cut, client, wires, server
<1>7. ASSUME Read PROVE TypeOK'
  <2> DEFINE f == Head(toClient)
  <2>1. /\ toClient # <<>> /\ toClient' = Tail(toClient)
        /\ UNCHANGED <<server, main, pending, cancelled, toServer, cut>>
    BY <1>7 DEF Read, ReadText, ReadBinary, ReadGarbage, Take
  <2>2. f \in Frames /\ f = toClient[1] /\ 1 \in DOMAIN toClient /\ toClient' \in Seq(Frames)
    BY <2>1
  <2>3. f.of \in Writers /\ (f.kind = "body" => f.of \in Events)
    BY <2>2, SessionAssumption DEF Frames, Wire, FrameFits
  <2>5. CASE ReadText
    <3>1. Handle(f.of, {}) \/ UNCHANGED <<answered, handled>>
      BY <2>5 DEF ReadText
    <3>4. {} \in SUBSET Events /\ f.of \in Writers
      BY <2>3
    <3>2. handled' \in Seq(Parcels) /\ answered' \in BOOLEAN
      BY <3>1, <3>4, HandleType, Zenon
    <3>3. announced' \subseteq Binary
      BY <2>5, <2>3 DEF ReadText
    <3> QED BY <2>5, <2>1, <2>2, <3>2, <3>3 DEF ReadText, server
  <2>6. CASE ReadBinary
    <3>1. (\E m \in announced : Handle(m, {f.of})) \/ UNCHANGED <<answered, handled>>
      BY <2>6, Zenon DEF ReadBinary
    <3>5. announced \subseteq Writers
      BY SessionAssumption DEF Writers
    <3>2. {f.of} \in SUBSET Events
      BY <2>6, <2>3 DEF ReadBinary
    <3>3. handled' \in Seq(Parcels) /\ answered' \in BOOLEAN
      BY <3>1, <3>2, <3>5, HandleType, Zenon
    <3>4. announced' \subseteq Binary
      BY <2>6 DEF ReadBinary
    <3> QED BY <2>6, <2>1, <2>2, <3>3, <3>4 DEF ReadBinary, server
  <2>7. CASE ReadGarbage
    BY <2>7, <2>1, <2>2 DEF ReadGarbage, server
  <2> QED BY <1>7, <2>5, <2>6, <2>7 DEF Read
<1>8. ASSUME ReadFails \/ CloseWhenCancelled PROVE TypeOK'
  BY <1>8 DEF ReadFails, CloseWhenCancelled, server, wires
<1>9. ASSUME Main \/ TimeOut PROVE TypeOK'
  BY <1>9 DEF Main, TimeOut, Connect, ConnectFails, Prepare, SendRequest, SendFails,
     TakeAnswer, TakeRefusal, SeeCancelled, Finish, Fail, Exit, server, wires
<1>10. ASSUME UNCHANGED vars PROVE TypeOK'
  BY <1>10 DEF vars, server, client, wires
<1> QED BY <1>1, <1>2, <1>3, <1>4, <1>5, <1>6, <1>7, <1>8, <1>9, <1>10 DEF Next, Write

-----------------------------------------------------------------------------
LEMMA LockingStep == TypeOK /\ Locking /\ [Next]_vars => Locking'
<1> SUFFICES ASSUME TypeOK, Locking, [Next]_vars PROVE Locking'
  OBVIOUS
<1> USE DEF TypeOK, Locking
<1>1. ASSUME NEW w \in Writers, Lock(w) PROVE Locking'
  BY <1>1 DEF Lock
<1>2. ASSUME NEW w \in Writers, Write(w) \/ WriteFails(w) PROVE Locking'
  BY <1>2 DEF Write, WriteJSON, WriteEmpty, WriteBinary, WriteFails, Return
<1>3. ASSUME UNCHANGED <<place, writeMu>> PROVE Locking'
  BY <1>3
<1> QED BY <1>1, <1>2, <1>3 DEF Next, HandleRegistration, ServerReadFails, Read, ReadText,
     ReadBinary, ReadGarbage, Take, ReadFails, CloseWhenCancelled, Main, TimeOut, Connect,
     ConnectFails, Prepare, SendRequest, SendFails, TakeAnswer, TakeRefusal, SeeCancelled,
     Finish, Fail, Interrupt, SnooperEnds, Cut, vars, server

-----------------------------------------------------------------------------
LEMMA SessionStep == IInv /\ [Next]_vars => Session'
<1> SUFFICES ASSUME IInv, [Next]_vars PROVE Session'
  OBVIOUS
<1>a. TypeOK /\ Session
  BY DEF IInv
<1>1. ASSUME NEW w \in Writers, Lock(w) PROVE Session'
  BY <1>1, <1>a DEF Lock, MaySend, Session, TypeOK, client, wires
<1>2. ASSUME NEW w \in Writers, Write(w) PROVE Session'
  <2>1. PICK kind \in {"json", "body", "empty"} : Put(w, kind)
    BY <1>2 DEF Write, WriteJSON, WriteEmpty, WriteBinary
  <2>2. place[w] \in {"locked", "announced"} /\ UNCHANGED <<registered, serverEnd, client>>
    BY <1>2 DEF Write, WriteJSON, WriteEmpty, WriteBinary
  <2>3. \A v \in Writers : v # w => place'[v] = place[v]
    BY <1>2, <1>a DEF Write, WriteJSON, WriteEmpty, WriteBinary, Return, TypeOK
  <2>4. \A i \in DOMAIN toClient' : toClient'[i].of = Answer => toServer = "taken"
    BY <2>1, <2>2, <1>a DEF Put, Session, TypeOK
  <2>5. toServer' = toServer
    BY <2>1 DEF Put
  <2>6. serverEnd = "open"
    BY <2>1 DEF Put
  <2> QED BY <2>2, <2>3, <2>4, <2>5, <2>6, <1>a, AnswerPlain DEF Session, TypeOK, client
<1>3. ASSUME NEW w \in Writers, WriteFails(w) PROVE Session'
  BY <1>3, <1>a, AnswerPlain DEF WriteFails, Return, Session, TypeOK, client, wires
<1>4. ASSUME HandleRegistration \/ ServerReadFails \/ SnooperEnds \/ Interrupt \/ Cut PROVE Session'
  BY <1>4, <1>a DEF HandleRegistration, ServerReadFails, SnooperEnds, Interrupt, Cut, Session,
     TypeOK, client, wires, server
<1>5. ASSUME Read PROVE Session'
  <2> DEFINE f == toClient[1]
  <2>1. /\ toClient # <<>> /\ toClient' = Tail(toClient) /\ reader = "reading"
        /\ UNCHANGED <<server, main, pending, cancelled, toServer, cut>>
    BY <1>5 DEF Read, ReadText, ReadBinary, ReadGarbage, Take
  <2>2. /\ Head(toClient) = f
        /\ DOMAIN toClient = 1..Len(toClient) /\ DOMAIN toClient' = 1..(Len(toClient) - 1)
        /\ \A i \in DOMAIN toClient' : toClient'[i] = toClient[i + 1]
        /\ Len(toClient) \in Nat \ {0}
    BY <2>1, <1>a DEF TypeOK
  <2>3. \A i \in DOMAIN toClient' : toClient'[i].of = Answer => toServer = "taken"
    BY <2>2, <1>a DEF Session
  <2>4. f.of = Answer => toServer = "taken"
    BY <2>2, <1>a DEF Session
  <2>5. Answer \notin announced
    BY <1>a, AnswerPlain DEF TypeOK
  <2>6. PICK w, body : \/ Handle(w, body) /\ (w = Answer => toServer = "taken")
                       \/ UNCHANGED <<answered, handled>>
    BY <1>5, <2>2, <2>4, <2>5 DEF Read, ReadText, ReadBinary, ReadGarbage
  <2>7. reader' # "off"
    BY <1>5, <2>1 DEF Read, ReadText, ReadBinary, ReadGarbage
  <2>8. CASE UNCHANGED <<answered, handled>>
    BY <2>1, <2>3, <2>7, <2>8, <1>a DEF Session, TypeOK, server
  <2>9. CASE Handle(w, body) /\ (w = Answer => toServer = "taken")
    <3>1. handled' = Append(handled, [of |-> w, body |-> body]) /\ handled \in Seq(Parcels)
      BY <2>9, <1>a DEF Handle, TypeOK
    <3>2. /\ DOMAIN handled' = DOMAIN handled \cup {Len(handled) + 1}
          /\ \A i \in DOMAIN handled : handled'[i] = handled[i]
          /\ handled'[Len(handled) + 1].of = w
      BY <3>1
    <3>3. \A i \in DOMAIN handled' : handled'[i].of = Answer => toServer = "taken"
      BY <3>2, <2>9, <1>a DEF Session
    <3>4. answered' => toServer = "taken"
      BY <2>9, <1>a DEF Session, Handle
    <3>5. main = "waiting" /\ (\E i \in DOMAIN handled' : handled'[i].of = Answer) => answered'
      BY <3>2, <2>9, <1>a DEF Session, Handle
    <3> QED BY <2>1, <2>3, <2>7, <3>3, <3>4, <3>5, <1>a DEF Session, TypeOK, server
  <2> QED BY <2>6, <2>8, <2>9
<1>6. ASSUME ReadFails \/ CloseWhenCancelled PROVE Session'
  BY <1>6, <1>a DEF ReadFails, CloseWhenCancelled, Session, TypeOK, server, wires
<1>7. ASSUME Connect \/ ConnectFails \/ Prepare \/ SendRequest \/ Finish PROVE Session'
  BY <1>7, <1>a DEF Connect, ConnectFails, Prepare, SendRequest, Finish, Exit, Session, TypeOK, server, wires
<1>8. ASSUME TakeAnswer PROVE Session'
  BY <1>8, <1>a DEF TakeAnswer, Session, TypeOK, server, wires
<1>9. ASSUME SendFails \/ TakeRefusal \/ TimeOut PROVE Session'
  BY <1>9, <1>a DEF SendFails, TakeRefusal, TimeOut, Fail, Exit, Session, TypeOK, server, wires
<1>10. ASSUME UNCHANGED vars PROVE Session'
  BY <1>10, <1>a DEF vars, server, client, wires, Session
<1> QED BY <1>1, <1>2, <1>3, <1>4, <1>5, <1>6, <1>7, <1>8, <1>9, <1>10 DEF Next, Main, SeeCancelled

-----------------------------------------------------------------------------
(* What a frame appended by the holder of the lock must be for the wire to  *)
(* stay in order.                                                           *)
LEMMA PutWire ==
  ASSUME IInv, TypeOK', NEW w \in Writers, NEW kind \in {"json", "body", "empty"},
         place[w] \in {"locked", "announced"}, kind = "body" <=> place[w] = "announced",
         Put(w, kind), UNCHANGED <<serverEnd, reader, announced, handled>>,
         NEW g, g = [of |-> w, kind |-> kind, number |-> Len(sent) + 1],
         IF Final(g) THEN sent' = Append(sent, Whole(w)) ELSE sent' = sent,
         LastFits(g)'
  PROVE  Wire'
<1>a. TypeOK /\ Wire /\ Locking /\ Session
  BY DEF IInv
<1> DEFINE n == Len(toClient)
           l == toClient[n]
<1>1. /\ toClient \in Seq(Frames) /\ n \in Nat /\ DOMAIN toClient = 1..n
      /\ toClient' = Append(toClient, g) /\ serverEnd = "open"
  BY <1>a DEF TypeOK, Put
<1>2. /\ Len(toClient') = n + 1 /\ DOMAIN toClient' = 1..(n + 1) /\ toClient' # <<>>
      /\ \A i \in 1..n : toClient'[i] = toClient[i]
      /\ toClient'[n + 1] = g
  <2>1. Len(toClient') = n + 1 /\ DOMAIN toClient' = 1..(n + 1)
    BY <1>1
  <2>2. (\A i \in 1..n : toClient'[i] = toClient[i]) /\ toClient'[n + 1] = g
    BY <1>1
  <2>3. n + 1 \in DOMAIN toClient'
    BY <1>1, <2>1
  <2> QED BY <2>1, <2>2, <2>3
<1>3. g.of = w /\ g.kind = kind /\ g.number = Len(sent) + 1 /\ Len(sent) \in Nat /\ Len(handled) \in Nat
  BY <1>a DEF TypeOK
<1>4. \A v \in Writers : place[v] = "announced" => v = w
  BY <1>a DEF Locking
<1>5. /\ Len(sent) <= Len(sent')
      /\ \A i \in 1..Len(sent) : sent'[i] = sent[i]
      /\ Final(g) => Len(sent') = Len(sent) + 1 /\ sent'[Len(sent) + 1] = Whole(w)
  <2>1. Whole(w) \in Parcels /\ sent \in Seq(Parcels)
    BY WholeParcel, <1>a DEF TypeOK
  <2>2. CASE ~Final(g)
    BY <2>1, <2>2
  <2>3. CASE Final(g)
    <3>1. sent' = Append(sent, Whole(w))
      BY <2>3
    <3> QED BY <2>1, <3>1
  <2> QED BY <2>2, <2>3
<1>6. (\A i \in DOMAIN toClient : FrameFits(toClient[i]))'
  <2>1. FrameFits(g)'
    BY <1>3, <1>5, <1>a DEF FrameFits, Locking, Final
  <2>2. ASSUME NEW i \in 1..n PROVE FrameFits(toClient[i])'
    <3>1. toClient[i] \in Frames /\ FrameFits(toClient[i])
      BY <1>1, <1>a DEF Wire
    <3> QED BY <3>1, <1>2, <1>3, <1>5 DEF FrameFits, Final, Frames
  <2> QED BY <2>1, <2>2, <1>2
<1>7. n > 0 => Follows(l, g)
  <2> SUFFICES ASSUME n > 0 PROVE Follows(l, g)
    OBVIOUS
  <2>1. LastFits(l) /\ l \in Frames
    BY <1>1, <1>a DEF Wire
  <2>2. Announcement(l) => l.of = w /\ place[w] = "announced"
    BY <2>1, <1>1, <1>4 DEF LastFits, WriterBetween, Frames
  <2>3. ~Announcement(l) => place[w] # "announced"
    BY <2>1, <1>1 DEF LastFits, NobodyBetween
  <2> QED BY <2>1, <2>2, <2>3, <1>3 DEF Follows, LastFits, Final, Announcement
<1>8. (\A i \in DOMAIN toClient : i + 1 \in DOMAIN toClient => Follows(toClient[i], toClient[i + 1]))'
  BY <1>1, <1>2, <1>7, <1>a DEF Wire
<1>9. LastFits(toClient[Len(toClient)])'
  BY <1>2
<1>10. (reader = "reading" => HeadFits(toClient[1]))'
  <2> SUFFICES ASSUME reader = "reading" PROVE HeadFits(toClient[1])'
    OBVIOUS
  <2>1. CASE n > 0
    BY <2>1, <1>1, <1>2, <1>a DEF Wire, HeadFits
  <2>2. CASE n = 0
    <3>1. Quiet /\ toClient'[1] = g
      BY <2>2, <1>1, <1>2, <1>a DEF Wire
    <3>2. IF kind = "body" THEN announced = {w} ELSE announced = {}
      BY <3>1, <1>1, <1>4, <1>3, SessionAssumption DEF Quiet, NobodyBetween, WriterBetween, Writers
    <3> QED BY <3>1, <3>2, <1>3 DEF Quiet, HeadFits
  <2> QED BY <2>1, <2>2, <1>1
<1>11. reader # "off"
  BY <1>1, <1>a DEF Session
<1> QED BY <1>2, <1>6, <1>8, <1>9, <1>10, <1>11 DEF Wire

LEMMA WriteWire == ASSUME IInv, TypeOK', NEW w \in Writers, Write(w) PROVE Wire'
<1>a. TypeOK /\ Wire /\ Locking
  BY DEF IInv
<1>1. \A v \in Writers : place[v] = "announced" => v = w
  BY <1>a DEF Write, WriteJSON, WriteEmpty, WriteBinary, Locking
<1>2. Len(sent) \in Nat /\ Whole(w) \in Parcels /\ Len(Append(sent, Whole(w))) = Len(sent) + 1
  BY <1>a, WholeParcel DEF TypeOK
<1>3. ASSUME WriteJSON(w) PROVE Wire'
  <2>f. PICK f : f = [of |-> w, kind |-> "json", number |-> Len(sent) + 1]
    OBVIOUS
  <2>1. /\ place[w] = "locked" /\ Put(w, "json")
        /\ UNCHANGED <<serverEnd, reader, announced, handled>>
    BY <1>3 DEF WriteJSON, client
  <2>2. CASE w \in Binary
    <3>1. ~Final(f) /\ Announcement(f) /\ sent' = sent
      BY <2>2, <1>3, <2>f DEF WriteJSON, Final, Announcement
    <3>2. place'[w] = "announced"
      BY <2>2, <1>3, <1>a DEF WriteJSON, TypeOK
    <3>3. LastFits(f)'
      BY <3>1, <3>2, <2>f DEF LastFits, Final, Announcement, WriterBetween
    <3> QED BY <2>1, <3>1, <3>3, <2>f, PutWire
  <2>3. CASE w \notin Binary
    <3>1. Final(f) /\ ~Announcement(f) /\ sent' = Append(sent, Whole(w))
      BY <2>3, <1>3, <2>f DEF WriteJSON, Final, Announcement
    <3>2. NobodyBetween'
      BY <2>3, <1>3, <1>1, <1>a DEF WriteJSON, Return, TypeOK, NobodyBetween
    <3>3. LastFits(f)'
      BY <3>1, <3>2, <1>2, <2>f DEF LastFits, Final, Announcement
    <3> QED BY <2>1, <3>1, <3>3, <2>f, PutWire
  <2> QED BY <2>2, <2>3
<1>4. ASSUME WriteEmpty(w) PROVE Wire'
  <2>f. PICK f : f = [of |-> w, kind |-> "empty", number |-> Len(sent) + 1]
    OBVIOUS
  <2>1. /\ place[w] = "locked" /\ Put(w, "empty")
        /\ UNCHANGED <<serverEnd, reader, announced, handled>>
    BY <1>4 DEF WriteEmpty, client
  <2>2. ~Final(f) /\ ~Announcement(f) /\ sent' = sent
    BY <1>4, <2>f DEF WriteEmpty, Final, Announcement
  <2>3. NobodyBetween'
    BY <1>4, <1>1, <1>a DEF WriteEmpty, Return, TypeOK, NobodyBetween
  <2>4. LastFits(f)'
    BY <2>2, <2>3, <2>f DEF LastFits, Final, Announcement
  <2> QED BY <2>1, <2>2, <2>4, <2>f, PutWire
<1>5. ASSUME WriteBinary(w) PROVE Wire'
  <2>f. PICK f : f = [of |-> w, kind |-> "body", number |-> Len(sent) + 1]
    OBVIOUS
  <2>1. /\ place[w] = "announced" /\ Put(w, "body")
        /\ UNCHANGED <<serverEnd, reader, announced, handled>>
    BY <1>5 DEF WriteBinary, client
  <2>2. Final(f) /\ ~Announcement(f) /\ sent' = Append(sent, Whole(w))
    BY <1>5, <2>f DEF WriteBinary, Final, Announcement
  <2>3. NobodyBetween'
    BY <1>5, <1>1, <1>a DEF WriteBinary, Return, TypeOK, NobodyBetween
  <2>4. LastFits(f)'
    BY <2>2, <2>3, <1>2, <2>f DEF LastFits, Final, Announcement
  <2> QED BY <2>1, <2>2, <2>4, <2>f, PutWire
<1> QED BY <1>3, <1>4, <1>5 DEF Write

(* What is left on the wire after the first frame is taken. *)
LEMMA TakeWire ==
  ASSUME IInv, Take,
         IF reader' = "reading"
         THEN toClient[1].kind # "empty"
              /\ Len(handled') = Len(handled) + (IF Final(toClient[1]) THEN 1 ELSE 0)
              /\ announced' = (IF Announcement(toClient[1]) THEN {toClient[1].of} ELSE {})
         ELSE reader' = "ended"
  PROVE  Wire'
<1>a. TypeOK /\ Wire /\ reader = "reading"
  BY DEF IInv, Take
<1> DEFINE n == Len(toClient)
           f == toClient[1]
<1>1. /\ n \in Nat \ {0} /\ DOMAIN toClient = 1..n /\ f \in Frames
      /\ Len(toClient') = n - 1 /\ DOMAIN toClient' = 1..(n - 1)
      /\ \A i \in 1..(n - 1) : toClient'[i] = toClient[i + 1]
      /\ n = 1 <=> toClient' = <<>>
      /\ UNCHANGED <<place, serverEnd, sent>>
  <2>1. toClient \in Seq(Frames) /\ toClient # <<>> /\ toClient' = Tail(toClient)
    BY <1>a DEF Take, TypeOK
  <2>2. n \in Nat \ {0} /\ DOMAIN toClient = 1..n /\ f \in Frames
    BY <2>1
  <2>3. /\ Len(toClient') = n - 1 /\ DOMAIN toClient' = 1..(n - 1)
        /\ \A i \in 1..(n - 1) : toClient'[i] = toClient[i + 1]
    BY <2>1
  <2>4. toClient' \in Seq(Frames)
    BY <2>1
  <2>5. n = 1 <=> toClient' = <<>>
    BY <2>2, <2>3, <2>4
  <2>6. UNCHANGED <<place, serverEnd, sent>>
    BY DEF Take, server
  <2> QED BY <2>2, <2>3, <2>5, <2>6
<1>2. (\A i \in DOMAIN toClient : FrameFits(toClient[i]))'
  <2>1. \A i \in 1..n : FrameFits(toClient[i])
    BY <1>1, <1>a DEF Wire
  <2>2. ASSUME NEW i \in 1..(n - 1) PROVE FrameFits(toClient[i + 1])
    BY <1>1, <2>1
  <2>3. ASSUME NEW i \in 1..(n - 1) PROVE FrameFits(toClient[i])'
    <3>1. FrameFits(toClient'[i])
      BY <1>1, <2>2
    <3> QED BY <1>1, <3>1 DEF FrameFits, Final
  <2> QED BY <1>1, <2>3
<1>3. (\A i \in DOMAIN toClient : i + 1 \in DOMAIN toClient => Follows(toClient[i], toClient[i + 1]))'
  <2>1. ASSUME NEW i \in 1..(n - 1), i + 1 \in 1..(n - 1) PROVE Follows(toClient[i + 1], toClient[i + 2])
    <3>1. i + 1 \in 1..n /\ (i + 1) + 1 \in 1..n /\ (i + 1) + 1 = i + 2
      BY <1>1, <2>1
    <3> QED BY <1>1, <1>a, <3>1 DEF Wire
  <2>2. ASSUME NEW i \in 1..(n - 1), i + 1 \in 1..(n - 1) PROVE Follows(toClient'[i], toClient'[i + 1])
    <3>1. toClient'[i] = toClient[i + 1] /\ toClient'[i + 1] = toClient[i + 2]
      BY <1>1, <2>2
    <3> QED BY <2>1, <2>2, <3>1
  <2> QED BY <1>1, <2>2 DEF Follows, Final, Announcement
<1>4. (toClient # <<>> => LastFits(toClient[Len(toClient)]))'
  BY <1>1, <1>a DEF Wire, LastFits, Final, Announcement, NobodyBetween, WriterBetween
<1>5. ASSUME reader' = "reading" PROVE (IF toClient = <<>> THEN Quiet ELSE HeadFits(toClient[1]))'
  <2>1. /\ f.kind # "empty" /\ f.number = Len(handled) + 1
        /\ Len(handled) \in Nat /\ Len(sent) \in Nat
    BY <1>1, <1>5, <1>a DEF Wire, HeadFits, TypeOK
  <2>2. Final(f) \/ Announcement(f)
    BY <2>1, <1>1 DEF Final, Announcement, Frames
  <2>3. ~(Final(f) /\ Announcement(f))
    BY DEF Final, Announcement
  <2>4. CASE n = 1
    <3>1. LastFits(f)
      BY <2>4, <1>1, <1>a DEF Wire
    <3>2. Quiet'
      BY <3>1, <2>1, <2>2, <2>3, <1>1, <1>5
         DEF LastFits, Quiet, NobodyBetween, WriterBetween, Announcement
    <3> QED BY <3>2, <2>4, <1>1
  <2>5. CASE n > 1
    <3>2. 2 \in DOMAIN toClient /\ 1 \in DOMAIN toClient /\ 2 = 1 + 1
      BY <2>5, <1>1
    <3>4. Follows(f, toClient[2])
      BY <3>2, <1>a DEF Wire
    <3>5. toClient[2] \in Frames
      BY <3>2, <1>a DEF TypeOK
    <3>1. Follows(f, toClient[2]) /\ toClient[2] \in Frames
      BY <3>4, <3>5
    <3>3. toClient'[1] = toClient[2]
      BY <2>5, <1>1
    <3> QED BY <3>1, <3>3, <2>1, <2>2, <2>3, <2>5, <1>1, <1>5 DEF Follows, HeadFits
  <2> QED BY <2>4, <2>5, <1>1
<1> QED BY <1>2, <1>3, <1>4, <1>5 DEF Wire

LEMMA WireStep == IInv /\ TypeOK' /\ [Next]_vars => Wire'
<1> SUFFICES ASSUME IInv, TypeOK', [Next]_vars PROVE Wire'
  OBVIOUS
<1>a. TypeOK /\ Wire /\ Locking /\ Session
  BY DEF IInv
<1>1. ASSUME NEW w \in Writers, Lock(w) PROVE Wire'
  <2>1. UNCHANGED <<toClient, sent, handled, reader, announced, serverEnd>>
    BY <1>1 DEF Lock, client, wires
  <2>2. \A v \in Writers : place'[v] = "announced" <=> place[v] = "announced"
    BY <1>1, <1>a DEF Lock, TypeOK
  <2>3. NobodyBetween' = NobodyBetween /\ Quiet' = Quiet
    BY <2>1, <2>2, SessionAssumption DEF NobodyBetween, Quiet, WriterBetween, Writers
  <2>4. toClient # <<>> => LastFits(toClient[Len(toClient)])'
    <3> SUFFICES ASSUME toClient # <<>> PROVE LastFits(toClient[Len(toClient)])'
      OBVIOUS
    <3>1. toClient[Len(toClient)] \in Frames /\ LastFits(toClient[Len(toClient)])
      BY <1>a DEF TypeOK, Wire
    <3> QED BY <3>1, <2>1, <2>2, <2>3 DEF LastFits, WriterBetween, Frames
  <2> QED BY <2>1, <2>3, <2>4, <1>a DEF Wire, FrameFits, HeadFits
<1>2. ASSUME NEW w \in Writers, Write(w) PROVE Wire'
  BY <1>2, WriteWire
<1>3. ASSUME NEW w \in Writers, WriteFails(w) PROVE Wire'
  <2>1. UNCHANGED <<toClient, sent, handled, reader, announced>> /\ serverEnd' # "open"
    BY <1>3 DEF WriteFails, client, wires
  <2> QED BY <2>1, <1>a DEF Wire, FrameFits, LastFits, HeadFits, Quiet, WriterBetween
<1>4. ASSUME HandleRegistration \/ ServerReadFails \/ SnooperEnds \/ Interrupt \/ Cut PROVE Wire'
  <2>1. /\ UNCHANGED <<toClient, sent, handled, reader, announced, place>>
        /\ serverEnd' = serverEnd \/ serverEnd' # "open"
    BY <1>4 DEF HandleRegistration, ServerReadFails, SnooperEnds, Interrupt, Cut, client, wires, server
  <2> QED BY <2>1, <1>a DEF Wire, FrameFits, LastFits, HeadFits, Quiet, WriterBetween, NobodyBetween
<1>5. ASSUME Read PROVE Wire'
  <2> DEFINE f == toClient[1]
  <2>1. Take /\ toClient # <<>> /\ Head(toClient) = f
    BY <1>5, <1>a DEF Read, ReadText, ReadBinary, ReadGarbage, Take, TypeOK
  <2>2. FrameFits(f) /\ HeadFits(f) /\ Len(handled) \in Nat
    BY <2>1, <1>a DEF Wire, Take, TypeOK
  <2>3. ASSUME NEW w, NEW body, Handle(w, body) PROVE Len(handled') = Len(handled) + 1
    BY <2>3, <1>a DEF Handle, TypeOK
  <2>4. CASE ReadText
    <3>1. f.kind = "json" /\ reader' = "reading"
      BY <2>4, <2>1 DEF ReadText, Take
    <3>2. CASE f.of \in Binary
      <4>1. handled' = handled /\ announced' = {f.of}
        BY <2>4, <3>2, <2>1 DEF ReadText
      <4> QED BY <3>1, <3>2, <4>1, <2>1, <2>2, TakeWire DEF Final, Announcement
    <3>3. CASE f.of \notin Binary
      <4>1. Handle(f.of, {}) /\ announced' = announced
        BY <2>4, <3>3, <2>1 DEF ReadText
      <4>2. announced = {}
        BY <3>1, <2>2 DEF HeadFits
      <4>3. Final(f) /\ ~Announcement(f)
        BY <3>1, <3>3 DEF Final, Announcement
      <4> QED BY <3>1, <4>1, <4>2, <4>3, <2>1, <2>2, <2>3, TakeWire
    <3> QED BY <3>2, <3>3
  <2>5. CASE ReadBinary
    <3>1. f.kind = "body" /\ reader' = "reading" /\ announced' = {}
      BY <2>5, <2>1 DEF ReadBinary, Take
    <3>2. announced = {f.of}
      BY <3>1, <2>2 DEF HeadFits
    <3>3. Handle(f.of, {f.of})
      BY <2>5, <2>1, <3>2 DEF ReadBinary
    <3>4. Final(f) /\ ~Announcement(f)
      BY <3>1 DEF Final, Announcement
    <3> QED BY <3>1, <3>3, <3>4, <2>1, <2>2, <2>3, TakeWire
  <2>6. CASE ReadGarbage
    BY <2>6, <2>1, TakeWire DEF ReadGarbage
  <2> QED BY <1>5, <2>4, <2>5, <2>6 DEF Read
<1>6. ASSUME ReadFails \/ CloseWhenCancelled PROVE Wire'
  <2>1. /\ UNCHANGED <<toClient, sent, handled, announced, place, serverEnd>>
        /\ reader' = reader \/ reader' = "ended"
    BY <1>6 DEF ReadFails, CloseWhenCancelled, server, wires
  <2> QED BY <2>1, <1>a DEF Wire, FrameFits, LastFits, HeadFits, Quiet, WriterBetween, NobodyBetween
<1>7. ASSUME Connect PROVE Wire'
  <2>1. UNCHANGED <<toClient, sent, handled, announced, place>> /\ reader' = "reading"
    BY <1>7 DEF Connect, wires
  <2>2. toClient = <<>> /\ announced = {} /\ Len(handled) = Len(sent) /\ NobodyBetween
    BY <1>7, <1>a DEF Connect, Session, Wire, NobodyBetween
  <2> QED BY <2>1, <2>2 DEF Wire, Quiet, NobodyBetween
<1>8. ASSUME (Main /\ ~Connect) \/ TimeOut PROVE Wire'
  <2>1. /\ UNCHANGED <<toClient, sent, handled, announced, place, serverEnd>>
        /\ reader' = reader \/ reader' = "ended"
    BY <1>8 DEF Main, TimeOut, ConnectFails, Prepare, SendRequest, SendFails, TakeAnswer,
       TakeRefusal, SeeCancelled, Finish, Fail, Exit, server, wires
  <2> QED BY <2>1, <1>a DEF Wire, FrameFits, LastFits, HeadFits, Quiet, WriterBetween, NobodyBetween
<1>9. ASSUME UNCHANGED vars PROVE Wire'
  BY <1>9, <1>a DEF vars, server, client, wires, Wire, FrameFits, LastFits, HeadFits, Quiet,
     WriterBetween, NobodyBetween
<1> QED BY <1>1, <1>2, <1>3, <1>4, <1>5, <1>6, <1>7, <1>8, <1>9 DEF Next

-----------------------------------------------------------------------------
(* IInv holds in every state of a session. *)
LEMMA Inductive == Spec => []IInv
<1>1. IInv /\ [Next]_vars => IInv'
  BY TypeStep, LockingStep, SessionStep, WireStep DEF IInv
<1> QED BY <1>1, InitInv, PTL DEF Spec

(* The state has its types, for any events and any capacity. *)
THEOREM TypeCorrect == Spec => []TypeOK
<1>1. IInv => TypeOK
  BY DEF IInv
<1> QED BY <1>1, Inductive, PTL

(* The client does not miss an answer that comes in time, and listens only  *)
(* for a module that was registered.                                        *)
THEOREM AnswerIsKept == Spec => []AnswerKept
<1>1. IInv => AnswerKept
  BY DEF IInv, Session, AnswerKept
<1> QED BY <1>1, Inductive, PTL

-----------------------------------------------------------------------------
LEMMA InitChannel == Init => Channel!Init
BY DEF Init, Channel!Init

(* A frame that completes a message, taken by the client, is the next       *)
(* message of the channel.                                                  *)
LEMMA ReadChannel == IInv /\ Read => Channel!Receive \/ UNCHANGED <<sent, handled>>
<1> SUFFICES ASSUME IInv, Read PROVE Channel!Receive \/ UNCHANGED <<sent, handled>>
  OBVIOUS
<1> DEFINE f == toClient[1]
<1>1. Take /\ toClient # <<>> /\ Head(toClient) = f /\ sent' = sent
  BY DEF Read, ReadText, ReadBinary, ReadGarbage, Take, IInv, TypeOK, server
<1>2. FrameFits(f) /\ HeadFits(f) /\ f \in Frames
  BY <1>1 DEF Wire, Take, IInv, TypeOK
<1>3. CASE handled' = handled
  BY <1>1, <1>3
<1>4. CASE handled' # handled
  <2>1. Final(f) /\ Handle(f.of, IF f.of \in Binary THEN {f.of} ELSE {})
    BY <1>1, <1>2, <1>4 DEF Read, ReadText, ReadBinary, ReadGarbage, Final, HeadFits, FrameFits
  <2>2. f.number = Len(handled) + 1 /\ f.number <= Len(sent) /\ sent[f.number] = Whole(f.of)
    BY <2>1, <1>2 DEF FrameFits, HeadFits, Final
  <2>3. handled' = Append(handled, sent[Len(handled) + 1])
    BY <2>1, <2>2 DEF Handle, Whole
  <2>4. Len(handled) < Len(sent)
    BY <2>2 DEF IInv, TypeOK
  <2> QED BY <1>1, <2>3, <2>4 DEF Channel!Receive
<1> QED BY <1>3, <1>4

(* A step of the session is a step of the channel or none. *)
LEMMA NextChannel == IInv /\ [Next]_vars => [Channel!Next]_(Channel!vars)
<1> SUFFICES ASSUME IInv, [Next]_vars PROVE [Channel!Next]_(Channel!vars)
  OBVIOUS
<1>1. ASSUME NEW w \in Writers, Write(w) PROVE Channel!Send \/ UNCHANGED <<sent, handled>>
  BY <1>1, WholeParcel DEF Write, WriteJSON, WriteEmpty, WriteBinary, Channel!Send, client
<1>2. ASSUME Read PROVE Channel!Receive \/ UNCHANGED <<sent, handled>>
  BY <1>2, ReadChannel
<1>3. ASSUME ~Read, ~\E w \in Writers : Write(w) PROVE UNCHANGED <<sent, handled>>
  BY <1>3 DEF Next, Lock, WriteFails, HandleRegistration, ServerReadFails, ReadFails,
     CloseWhenCancelled, Main, TimeOut, Connect, ConnectFails, Prepare, SendRequest, SendFails,
     TakeAnswer, TakeRefusal, SeeCancelled, Finish, Fail, Interrupt, SnooperEnds, Cut,
     vars, server, client, wires
<1> QED BY <1>1, <1>2, <1>3 DEF Channel!Next, Channel!vars

(* Frames under writeMu and the pairing of the client's read loop implement *)
(* a channel of whole messages, for any events and any capacity.            *)
THEOREM Refinement == Spec => ImplementsChannel
BY Inductive, InitChannel, NextChannel, PTL DEF Spec, Channel!Spec, ImplementsChannel
=============================================================================
