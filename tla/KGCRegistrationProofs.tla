----------------------- MODULE KGCRegistrationProofs -----------------------
(***************************************************************************)
(* Theorems about KGCRegistration, for any number of entities, identifiers *)
(* and repeats, and wherever dials and reads fail.                         *)
(***************************************************************************)
EXTENDS KGCRegistration, TLAPS

\* What the fields of an entity hold while an answer is handled: nothing
\* that a later step reads is nil.
Held(t) ==
    t.at \in Entities =>
        /\ t.pc # "setY" => y[t.at] # Nil
        /\ t.pc \notin {"setY", "verify"} =>
              ua[t.at] # Nil /\ X[t.at] # Nil /\ Y[t.at] # Nil
        /\ t.pc \notin {"setY", "verify", "setS"} => s[t.at] # Nil

TypeInv == TypeOK /\ \A t \in threads : Held(t)

\* No step makes a field nil again.
FieldsStay ==
    \A e \in Entities :
        /\ ua[e] # Nil => ua'[e] # Nil
        /\ X[e] # Nil => X'[e] # Nil
        /\ y[e] # Nil => y'[e] # Nil
        /\ Y[e] # Nil => Y'[e] # Nil
        /\ s[e] # Nil => s'[e] # Nil

----------------------------------------------------------------------------
(* Messages and handlers.                                                  *)

LEMMA RequestThread ==
    ASSUME NEW t, ThreadOK(t), t.msg.type = "REG_RQST"
    PROVE  /\ t = Thread("KGC", t.msg, t.copy, t.pc)
           /\ t.at = "KGC" /\ t.msg \in Requests
           /\ t.copy \in 0 .. MaxCopies /\ t.pc \in {"session", "respond"}
           /\ t.msg.nonce \in Nonces /\ t.msg.UA \in UAs
           /\ t.msg.X \in XPoints \cup {Garbled}
<1>1. t.msg \notin Uploads /\ t.msg \notin Responses
  BY DEF Uploads, Responses
<1>2. t.at = "KGC" /\ t.msg \in Requests /\ t.pc \in {"session", "respond"}
  BY <1>1 DEF ThreadOK
<1>3. t = Thread(t.at, t.msg, t.copy, t.pc) /\ t.copy \in 0 .. MaxCopies
  BY DEF ThreadOK
<1>. QED BY <1>2, <1>3 DEF Requests

LEMMA UploadThread ==
    ASSUME NEW t, ThreadOK(t), t.msg.type = "UPLOAD"
    PROVE  /\ t = Thread("KGC", t.msg, t.copy, t.pc)
           /\ t.at = "KGC" /\ t.msg \in Uploads
           /\ t.copy \in 0 .. MaxCopies /\ t.pc \in {"compare", "publish"}
           /\ t.msg.nonce \in Nonces /\ t.msg.UA \in UAs
           /\ t.msg.X \in XPoints /\ t.msg.Y \in YPoints \cup {Garbled}
<1>1. t.msg \notin Requests /\ t.msg \notin Responses
  BY DEF Requests, Responses
<1>2. t.at = "KGC" /\ t.msg \in Uploads /\ t.pc \in {"compare", "publish"}
  BY <1>1 DEF ThreadOK
<1>3. t = Thread(t.at, t.msg, t.copy, t.pc) /\ t.copy \in 0 .. MaxCopies
  BY DEF ThreadOK
<1>. QED BY <1>2, <1>3 DEF Uploads

LEMMA ResponseThread ==
    ASSUME NEW t, ThreadOK(t), t.msg.type = "REG_RESP"
    PROVE  /\ t = Thread(t.at, t.msg, t.copy, t.pc)
           /\ t.at \in AtPort6001 /\ t.at \in Entities /\ t.at # "KGC"
           /\ t.msg \in Responses
           /\ t.copy \in 0 .. MaxCopies /\ t.pc \in EntityPcs
           /\ t.msg.nonce \in Nonces /\ t.msg.y \in Ys
           /\ t.msg.R \in RPoints \cup {Garbled}
<1>1. t.msg \notin Requests /\ t.msg \notin Uploads
  BY DEF Requests, Uploads
<1>2. t.at \in AtPort6001 /\ t.msg \in Responses /\ t.pc \in EntityPcs
  BY <1>1 DEF ThreadOK
<1>3. t = Thread(t.at, t.msg, t.copy, t.pc) /\ t.copy \in 0 .. MaxCopies
  BY DEF ThreadOK
<1>4. t.at \in Entities /\ t.at # "KGC"
  BY <1>2, RegistrationConstants
<1>. QED BY <1>2, <1>3, <1>4 DEF Responses

\* A handler that moves on from one of its program points to the next.
LEMMA RequestMoves ==
    ASSUME NEW t, ThreadOK(t), t.msg.type = "REG_RQST"
    PROVE  ThreadOK(Thread(t.at, t.msg, t.copy, "respond"))
BY RequestThread DEF ThreadOK, Thread

LEMMA UploadMoves ==
    ASSUME NEW t, ThreadOK(t), t.msg.type = "UPLOAD"
    PROVE  ThreadOK(Thread(t.at, t.msg, t.copy, "publish"))
BY UploadThread DEF ThreadOK, Thread

LEMMA ResponseMoves ==
    ASSUME NEW t, ThreadOK(t), t.msg.type = "REG_RESP", NEW pc \in EntityPcs
    PROVE  ThreadOK(Thread(t.at, t.msg, t.copy, pc))
BY ResponseThread DEF ThreadOK, Thread

LEMMA HeldStays ==
    ASSUME TypeInv, FieldsStay, NEW t \in threads
    PROVE  Held(t)'
BY DEF TypeInv, Held, FieldsStay

\* A message that is sent is a packet of its kind, or the dial failed.
LEMMA TransmitOK ==
    ASSUME TypeOK, NEW to, NEW m, Transmit(to, m),
           to = Nil \/ PacketOK(Packet(m, to, 0, MaxCopies))
    PROVE  /\ dropped' \in Nat /\ cuts' \in 0 .. MaxCuts
           /\ \A w \in wire' : PacketOK(w)
BY DEF TypeOK, Transmit

LEMMA FirstLeft == 0 \in 0 .. MaxCopies /\ MaxCopies \in 0 .. MaxCopies
BY RegistrationConstants

----------------------------------------------------------------------------
(* Types.  Each step keeps the type of what it writes, and what a handler  *)
(* reads next is not nil.                                                  *)

LEMMA TypeStart == Init => TypeInv
<1>. SUFFICES ASSUME Init PROVE TypeInv
  OBVIOUS
<1>1. usedNonces \in [Nodes -> SUBSET Nonces]
  BY DEF Init
<1>2. publicKeys \in
          [UAs -> OrNil([X : XPoints, Y : YPoints \cup {Garbled}])]
  BY DEF Init, OrNil
<1>3. cuts \in 0 .. MaxCuts
  BY RegistrationConstants DEF Init
<1>4. session \in OrNil([UA : UAs, X : XPoints \cup {Garbled}])
  BY DEF Init, OrNil
<1>5. /\ ua \in [Entities -> OrNil(UAs)] /\ X \in [Entities -> OrNil(XPoints)]
      /\ y \in [Entities -> OrNil(Ys)] /\ Y \in [Entities -> OrNil(YPoints)]
      /\ s \in [Entities -> OrNil(Secrets)]
      /\ S \in [Entities -> OrNil([of : Secrets])]
  BY DEF Init, OrNil
<1>6. printed \in [Entities -> SUBSET [UA : UAs, y : Ys, X : XPoints,
                                        Y : YPoints]]
  BY DEF Init
<1>7. /\ status \in [Entities -> {"idle", "up", "down"}]
      /\ dropped \in Nat /\ wire = {} /\ threads = {} /\ issued \subseteq Ys
  BY DEF Init
<1>. QED BY <1>1, <1>2, <1>3, <1>4, <1>5, <1>6, <1>7 DEF TypeInv, TypeOK

\* Accept and replay check, of the message as it was read.
LEMMA HandleType ==
    ASSUME TypeInv, NEW w \in wire, NEW m, Handle(w, m),
           w.msg.type = m.type, w.msg.nonce = m.nonce,
           \/ w.msg \in Requests /\ m \in Requests
           \/ w.msg \in Responses /\ m \in Responses
           \/ w.msg \in Uploads /\ m \in Uploads,
           cuts' \in 0 .. MaxCuts
    PROVE  TypeInv'
<1>1. PacketOK(w)
  BY DEF TypeInv, TypeOK
<1>2. FieldsStay
  BY DEF FieldsStay, Handle, entityState
<1>3. w.to \in Nodes /\ m.nonce \in Nonces
  BY <1>1, RegistrationConstants
     DEF PacketOK, Nodes, ToKGC, Requests, Responses, Uploads
<1>4. usedNonces' \in [Nodes -> SUBSET Nonces]
  BY <1>3 DEF Handle, MarkUsed, TypeInv, TypeOK
<1>5. \A x \in wire' : PacketOK(x)
  BY DEF Handle, TypeInv, TypeOK
<1>. DEFINE new == Thread(w.to, m, w.copy, FirstPc[m.type])
<1>6. ThreadOK(new) /\ Held(new)'
  <2>1. w.copy \in 0 .. MaxCopies
    BY <1>1 DEF PacketOK
  <2>2. new = Thread(new.at, new.msg, new.copy, new.pc)
    BY DEF Thread
  <2>3. CASE w.msg \in Requests /\ m \in Requests
    <3>1. w.to = "KGC" /\ FirstPc[m.type] = "session"
      BY <1>1, <2>3 DEF PacketOK, Requests, Responses, FirstPc
    <3>. QED BY <3>1, <2>1, <2>2, <2>3, RegistrationConstants
             DEF ThreadOK, Held, Thread
  <2>4. CASE w.msg \in Responses /\ m \in Responses
    <3>1. w.to \in AtPort6001 /\ FirstPc[m.type] = "setY"
      BY <1>1, <2>4 DEF PacketOK, Requests, Responses, Uploads, ToKGC, FirstPc
    <3>. QED BY <3>1, <2>1, <2>2, <2>4 DEF ThreadOK, Held, Thread, EntityPcs
  <2>5. CASE w.msg \in Uploads /\ m \in Uploads
    <3>1. w.to = "KGC" /\ FirstPc[m.type] = "compare"
      BY <1>1, <2>5 DEF PacketOK, Uploads, Responses, FirstPc
    <3>. QED BY <3>1, <2>1, <2>2, <2>5, RegistrationConstants
             DEF ThreadOK, Held, Thread
  <2>. QED BY <2>3, <2>4, <2>5
<1>7. threads' \subseteq threads \cup {new}
  BY DEF Handle
<1>8. \A t \in threads' : ThreadOK(t) /\ Held(t)'
  BY <1>2, <1>6, <1>7, HeldStays DEF TypeInv, TypeOK
<1>9. UNCHANGED <<dropped, kgcState, entityState>>
  BY DEF Handle
<1>. QED BY <1>4, <1>5, <1>8, <1>9 DEF TypeInv, TypeOK, kgcState, entityState

LEMMA CutOK ==
    ASSUME NEW m,
           m \in Requests \/ m \in Responses \/ m \in Uploads
    PROVE  /\ Cut(m).type = m.type /\ Cut(m).nonce = m.nonce
           /\ m \in Requests => Cut(m) \in Requests /\ Cut(m).UA = m.UA
                                /\ Cut(m).X = Garbled
           /\ m \in Responses => Cut(m) \in Responses /\ Cut(m).y = m.y
           /\ m \in Uploads => Cut(m) \in Uploads
<1>1. CASE m \in Requests
  <2>1. m.type = "REG_RQST" /\ m \notin Responses /\ m \notin Uploads
    BY <1>1 DEF Requests, Responses, Uploads
  <2>2. Cut(m) = [m EXCEPT !.X = Garbled]
    BY <2>1 DEF Cut
  <2>. QED BY <1>1, <2>1, <2>2 DEF Requests
<1>2. CASE m \in Responses
  <2>1. m.type = "REG_RESP" /\ m \notin Requests /\ m \notin Uploads
    BY <1>2 DEF Requests, Responses, Uploads
  <2>2. Cut(m) = [m EXCEPT !.R = Garbled]
    BY <2>1 DEF Cut
  <2>. QED BY <1>2, <2>1, <2>2 DEF Responses
<1>3. CASE m \in Uploads
  <2>1. m.type = "UPLOAD" /\ m \notin Requests /\ m \notin Responses
    BY <1>3 DEF Requests, Responses, Uploads
  <2>2. Cut(m) = [m EXCEPT !.Y = Garbled]
    BY <2>1 DEF Cut
  <2>. QED BY <1>3, <2>1, <2>2 DEF Uploads
<1>. QED BY <1>1, <1>2, <1>3

LEMMA PacketKinds ==
    ASSUME NEW w, PacketOK(w)
    PROVE  w.msg \in Requests \/ w.msg \in Responses \/ w.msg \in Uploads
BY DEF PacketOK, ToKGC

LEMMA ReceiveType ==
    ASSUME TypeInv, NEW w \in wire, Receive(w) PROVE TypeInv'
<1>1. PacketOK(w) /\ cuts \in 0 .. MaxCuts
  BY DEF TypeInv, TypeOK
<1>. QED BY <1>1, PacketKinds, HandleType DEF Receive

LEMMA ReadShortType ==
    ASSUME TypeInv, NEW w \in wire, ReadShort(w) PROVE TypeInv'
<1>1. PacketOK(w) /\ cuts \in 0 .. MaxCuts
  BY DEF TypeInv, TypeOK
<1>2. cuts' \in 0 .. MaxCuts
  BY <1>1, RegistrationConstants DEF ReadShort
<1>. QED BY <1>1, <1>2, PacketKinds, CutOK, HandleType DEF ReadShort

LEMMA DuplicateType ==
    ASSUME TypeInv, NEW w \in wire, Duplicate(w) PROVE TypeInv'
<1>1. PacketOK(w)
  BY DEF TypeInv, TypeOK
<1>2. w.left - 1 \in 0 .. MaxCopies /\ MaxCopies - w.left + 1 \in 0 .. MaxCopies
  <2>1. w.left \in 0 .. MaxCopies /\ w.left > 0 /\ MaxCopies \in Nat
    BY <1>1, RegistrationConstants DEF PacketOK, Duplicate
  <2>. QED BY <2>1
<1>3. /\ PacketOK(Packet(w.msg, w.to, w.copy, w.left - 1))
      /\ PacketOK(Packet(w.msg, w.to, MaxCopies - w.left + 1, 0))
  BY <1>1, <1>2, FirstLeft DEF PacketOK, Packet
<1>4. \A x \in wire' : PacketOK(x)
  BY <1>3 DEF Duplicate, TypeInv, TypeOK
<1>5. UNCHANGED <<dropped, cuts, threads, usedNonces, kgcState, entityState>>
  BY DEF Duplicate
<1>. QED BY <1>4, <1>5 DEF TypeInv, TypeOK, Held, kgcState, entityState

\* What a step of a handler leaves of the handlers.
LEMMA ThreadsStay ==
    ASSUME TypeInv, FieldsStay,
           NEW u, ThreadOK(u), Held(u)',
           threads' \subseteq threads \cup {u}
    PROVE  \A t \in threads' : ThreadOK(t) /\ Held(t)'
BY HeldStays DEF TypeInv, TypeOK

LEMMA ThreadsEnd ==
    ASSUME TypeInv, FieldsStay, threads' \subseteq threads
    PROVE  \A t \in threads' : ThreadOK(t) /\ Held(t)'
BY HeldStays DEF TypeInv, TypeOK

LEMMA StoreSessionType ==
    ASSUME TypeInv, NEW t \in threads, StoreSession(t) PROVE TypeInv'
<1>1. ThreadOK(t) /\ t.msg.type = "REG_RQST"
  BY DEF TypeInv, TypeOK, StoreSession, At
<1>2. session' \in OrNil([UA : UAs, X : XPoints \cup {Garbled}])
  BY <1>1, RequestThread DEF StoreSession, OrNil
<1>. DEFINE u == Thread(t.at, t.msg, t.copy, "respond")
<1>3. ThreadOK(u) /\ Held(u)'
  <2>1. u.at = "KGC"
    BY <1>1, RequestThread DEF Thread
  <2>. QED BY <2>1, <1>1, RequestMoves, RegistrationConstants DEF Held
<1>4. threads' \subseteq threads \cup {u}
  BY DEF StoreSession, Move
<1>5. UNCHANGED <<link, usedNonces, publicKeys, issued, entityState>>
  BY DEF StoreSession
<1>6. FieldsStay
  BY <1>5 DEF FieldsStay, entityState
<1>7. \A x \in threads' : ThreadOK(x) /\ Held(x)'
  BY <1>3, <1>4, <1>6, ThreadsStay
<1>. QED BY <1>2, <1>5, <1>7 DEF TypeInv, TypeOK, link, entityState

LEMMA RespondType ==
    ASSUME TypeInv, NEW t \in threads, Respond(t)
    PROVE  /\ TypeInv'
           /\ YOf(Scalar(t), H2(t.msg.UA, t.msg.X, Pub(Scalar(t)))) \in Ys
<1>. DEFINE r  == Scalar(t)
            yy == YOf(r, H2(t.msg.UA, t.msg.X, Pub(r)))
            n2 == [n |-> "N2", e |-> t.msg.nonce.e, c |-> t.copy]
            m  == [type |-> "REG_RESP", nonce |-> n2, y |-> yy, R |-> Pub(r)]
<1>1. ThreadOK(t) /\ t.msg.type = "REG_RQST"
  BY DEF TypeInv, TypeOK, Respond, At
<1>2. t.msg.nonce.e \in Entities /\ t.copy \in 0 .. MaxCopies
  BY <1>1, RequestThread DEF Nonces
<1>3. r \in RScalars /\ n2 \in Nonces
  BY <1>2 DEF RScalars, Scalar, Nonces
<1>4. Pub(r) \in RPoints
  BY <1>3 DEF Pub, RPoints
<1>5. yy \in Ys
  BY <1>1, <1>3, <1>4, RequestThread DEF YOf, H2, Ys, Hashes
<1>6. m \in Responses
  BY <1>3, <1>4, <1>5 DEF Responses
<1>7. Listener = Nil \/ Listener \in AtPort6001
  BY DEF Listener
<1>9. Transmit(Listener, m)
  BY DEF Respond
<1>10. /\ dropped' \in Nat /\ cuts' \in 0 .. MaxCuts
       /\ \A w \in wire' : PacketOK(w)
  <2>1. Listener # Nil => PacketOK(Packet(m, Listener, 0, MaxCopies))
    BY <1>6, <1>7, FirstLeft DEF PacketOK, Packet
  <2>. HIDE DEF m
  <2>. QED BY <1>9, <2>1, TransmitOK DEF TypeInv
<1>11. usedNonces' \in [Nodes -> SUBSET Nonces]
  BY <1>3 DEF Respond, MarkUsed, TypeInv, TypeOK, Nodes
<1>12. issued' \subseteq Ys
  BY <1>5 DEF Respond, TypeInv, TypeOK
<1>13. UNCHANGED <<session, publicKeys, entityState>> /\ threads' \subseteq threads
  BY DEF Respond, Finish
<1>14. FieldsStay
  BY <1>13 DEF FieldsStay, entityState
<1>15. \A x \in threads' : ThreadOK(x) /\ Held(x)'
  BY <1>13, <1>14, ThreadsEnd
<1>16. TypeInv'
  BY <1>10, <1>11, <1>12, <1>13, <1>15 DEF TypeInv, TypeOK, entityState
<1>. QED BY <1>5, <1>16

LEMMA CompareUploadType ==
    ASSUME TypeInv, NEW t \in threads, CompareUpload(t) PROVE TypeInv'
<1>1. ThreadOK(t) /\ t.msg.type = "UPLOAD"
  BY DEF TypeInv, TypeOK, CompareUpload, At
<1>. DEFINE u == Thread(t.at, t.msg, t.copy, "publish")
<1>2. ThreadOK(u) /\ Held(u)'
  <2>1. u.at = "KGC"
    BY <1>1, UploadThread DEF Thread
  <2>. QED BY <2>1, <1>1, UploadMoves, RegistrationConstants DEF Held
<1>3. threads' \subseteq threads \cup {u}
  BY DEF CompareUpload, Move, Finish
<1>4. UNCHANGED <<link, usedNonces, kgcState, entityState>>
  BY DEF CompareUpload
<1>5. FieldsStay
  BY <1>4 DEF FieldsStay, entityState
<1>6. \A x \in threads' : ThreadOK(x) /\ Held(x)'
  BY <1>2, <1>3, <1>5, ThreadsStay
<1>. QED BY <1>4, <1>6 DEF TypeInv, TypeOK, link, kgcState, entityState

LEMMA PublishType ==
    ASSUME TypeInv, NEW t \in threads, Publish(t) PROVE TypeInv'
<1>1. ThreadOK(t) /\ t.msg.type = "UPLOAD"
  BY DEF TypeInv, TypeOK, Publish, At
<1>2. [X |-> t.msg.X, Y |-> t.msg.Y] \in
          OrNil([X : XPoints, Y : YPoints \cup {Garbled}])
  BY <1>1, UploadThread DEF OrNil
<1>3. publicKeys' \in
          [UAs -> OrNil([X : XPoints, Y : YPoints \cup {Garbled}])]
  BY <1>1, <1>2, UploadThread DEF Publish, TypeInv, TypeOK
<1>4. session' \in OrNil([UA : UAs, X : XPoints \cup {Garbled}])
  BY DEF Publish, OrNil
<1>5. /\ UNCHANGED <<link, usedNonces, issued, entityState>>
      /\ threads' \subseteq threads
  BY DEF Publish, Finish
<1>6. FieldsStay
  BY <1>5 DEF FieldsStay, entityState
<1>7. \A x \in threads' : ThreadOK(x) /\ Held(x)'
  BY <1>5, <1>6, ThreadsEnd
<1>. QED BY <1>3, <1>4, <1>5, <1>7 DEF TypeInv, TypeOK, link, entityState

LEMMA ListenType ==
    ASSUME TypeInv, NEW e \in Entities, Listen(e) PROVE TypeInv'
<1>1. status' \in [Entities -> {"idle", "up", "down"}]
  BY DEF Listen, TypeInv, TypeOK
<1>2. UNCHANGED <<link, threads, usedNonces, kgcState, ua, X, y, Y, s, S,
                  printed>>
  BY DEF Listen
<1>. QED BY <1>1, <1>2 DEF TypeInv, TypeOK, Held, link, kgcState

LEMMA sendRegRqstType ==
    ASSUME TypeInv, NEW e \in Entities, sendRegRqst(e) PROVE TypeInv'
<1>. DEFINE n1 == [n |-> "N1", e |-> e, c |-> 0]
            m(u) == [type |-> "REG_RQST", nonce |-> n1, UA |-> u, X |-> Pub(e)]
<1>1. PICK u \in UAs : ua' = [ua EXCEPT ![e] = u] /\ Transmit("KGC", m(u))
  BY DEF sendRegRqst
<1>2. n1 \in Nonces /\ Pub(e) \in XPoints
  BY FirstLeft DEF Nonces, Pub, XPoints
<1>3. m(u) \in Requests
  BY <1>2 DEF Requests
<1>4. PacketOK(Packet(m(u), "KGC", 0, MaxCopies))
  BY <1>3, FirstLeft DEF PacketOK, Packet, ToKGC
<1>5. /\ dropped' \in Nat /\ cuts' \in 0 .. MaxCuts
      /\ \A w \in wire' : PacketOK(w)
  <2>. HIDE DEF m
  <2>. QED BY <1>1, <1>4, TransmitOK DEF TypeInv
<1>6. usedNonces' \in [Nodes -> SUBSET Nonces]
  BY <1>2 DEF sendRegRqst, MarkUsed, TypeInv, TypeOK, Nodes
<1>7. X' = [X EXCEPT ![e] = Pub(e)]
  BY DEF sendRegRqst
<1>8. ua' \in [Entities -> OrNil(UAs)] /\ X' \in [Entities -> OrNil(XPoints)]
  BY <1>1, <1>2, <1>7 DEF TypeInv, TypeOK, OrNil
<1>9. UNCHANGED <<threads, kgcState, status, y, Y, s, S, printed>>
  BY DEF sendRegRqst
<1>10. FieldsStay
  <2>1. u # Nil /\ Pub(e) # Nil
    BY <1>2, RegistrationConstants
  <2>. QED BY <1>1, <1>7, <1>9, <2>1 DEF FieldsStay, TypeInv, TypeOK
<1>11. \A x \in threads' : ThreadOK(x) /\ Held(x)'
  BY <1>9, <1>10, ThreadsEnd
<1>. QED BY <1>5, <1>6, <1>8, <1>9, <1>11 DEF TypeInv, TypeOK, kgcState

LEMMA StopType ==
    ASSUME TypeInv, NEW e \in Entities, Stop(e) PROVE TypeInv'
<1>1. status' \in [Entities -> {"idle", "up", "down"}]
  BY DEF Stop, TypeInv, TypeOK
<1>2. /\ UNCHANGED <<dropped, cuts, usedNonces, kgcState, ua, X, y, Y, s, S,
                     printed>>
      /\ wire' \subseteq wire /\ threads' \subseteq threads
  BY DEF Stop
<1>3. \A x \in threads' : ThreadOK(x) /\ Held(x)'
  BY <1>2, ThreadsEnd DEF FieldsStay
<1>. QED BY <1>1, <1>2, <1>3 DEF TypeInv, TypeOK, kgcState

LEMMA SetYType ==
    ASSUME TypeInv, NEW t \in threads, SetY(t) PROVE TypeInv'
<1>1. ThreadOK(t) /\ t.msg.type = "REG_RESP"
  BY DEF TypeInv, TypeOK, SetY, At
<1>2. t.at \in Entities /\ t.msg.y \in Ys /\ t.msg.y # Nil
  BY <1>1, ResponseThread, RegistrationConstants
<1>3. UNCHANGED <<link, usedNonces, kgcState, status, ua, X, Y, s, S, printed>>
  BY DEF SetY
<1>. DEFINE u == Thread(t.at, t.msg, t.copy, "verify")
<1>4. CASE y' = [y EXCEPT ![t.at] = t.msg.y] /\ Move(t, "verify")
  <2>1. y' \in [Entities -> OrNil(Ys)] /\ y'[t.at] # Nil
    BY <1>2, <1>4 DEF TypeInv, TypeOK, OrNil
  <2>2. FieldsStay
    BY <1>2, <1>3, <1>4 DEF FieldsStay, TypeInv, TypeOK
  <2>3. ThreadOK(u) /\ Held(u)'
    BY <1>1, <2>1, ResponseMoves DEF Held, Thread, EntityPcs
  <2>4. \A x \in threads' : ThreadOK(x) /\ Held(x)'
    BY <1>4, <2>2, <2>3, ThreadsStay DEF Move
  <2>. QED BY <1>3, <2>1, <2>4 DEF TypeInv, TypeOK, link, kgcState
<1>5. CASE Finish(t) /\ UNCHANGED y
  <2>1. \A x \in threads' : ThreadOK(x) /\ Held(x)'
    BY <1>3, <1>5, ThreadsEnd DEF FieldsStay, Finish
  <2>. QED BY <1>3, <1>5, <2>1 DEF TypeInv, TypeOK, link, kgcState
<1>. QED BY <1>4, <1>5 DEF SetY

\* An answer that verifies was computed for the UA and the X of the entity.
LEMMA FitsOwn ==
    ASSUME TypeOK, NEW e \in Entities, NEW v \in Ys, NEW R,
           Fits(v, R, H2(ua[e], X[e], R))
    PROVE  v.H.UA = ua[e] /\ v.H.X = X[e] /\ ua[e] \in UAs /\ X[e] \in XPoints
<1>1. v.H.UA = ua[e] /\ v.H.X = X[e]
  BY DEF Fits, H2
<1>2. v.H.UA \in UAs /\ v.H.X \in XPoints \cup {Garbled}
  BY DEF Ys, Hashes
<1>3. Nil # Garbled /\ X[e] \in XPoints \cup {Nil}
  BY RegistrationConstants DEF TypeOK, OrNil
<1>. QED BY <1>1, <1>2, <1>3, RegistrationConstants

LEMMA VerifyRespType ==
    ASSUME TypeInv, NEW t \in threads, VerifyResp(t) PROVE TypeInv'
<1>1. ThreadOK(t) /\ t.msg.type = "REG_RESP" /\ t.pc = "verify" /\ Held(t)
  BY DEF TypeInv, TypeOK, VerifyResp, At
<1>2. t.at \in Entities /\ t.msg.y \in Ys
  BY <1>1, ResponseThread
<1>3. UNCHANGED <<link, usedNonces, kgcState, status, ua, X, y, s, S, printed>>
  BY DEF VerifyResp
<1>. DEFINE u == Thread(t.at, t.msg, t.copy, "setS")
<1>4. CASE Fits(t.msg.y, t.msg.R, H2(ua[t.at], X[t.at], t.msg.R))
  <2>1. Y' = [Y EXCEPT ![t.at] = Pub(t.msg.y)] /\ Move(t, "setS")
    BY <1>4 DEF VerifyResp
  <2>2. Pub(t.msg.y) \in YPoints /\ Pub(t.msg.y) # Nil
    BY <1>2, RegistrationConstants DEF Pub, YPoints
  <2>3. Y' \in [Entities -> OrNil(YPoints)] /\ Y'[t.at] # Nil
    BY <1>2, <2>1, <2>2 DEF TypeInv, TypeOK, OrNil
  <2>4. ua[t.at] # Nil /\ X[t.at] # Nil
    BY <1>2, <1>4, FitsOwn, RegistrationConstants DEF TypeInv
  <2>5. FieldsStay
    BY <1>2, <1>3, <2>1, <2>2 DEF FieldsStay, TypeInv, TypeOK
  <2>6. ThreadOK(u) /\ Held(u)'
    <3>1. ThreadOK(u)
      BY <1>1, ResponseMoves DEF EntityPcs
    <3>2. y[t.at] # Nil
      BY <1>1, <1>2 DEF Held
    <3>. QED BY <1>3, <2>3, <2>4, <3>1, <3>2 DEF Held, Thread
  <2>7. \A x \in threads' : ThreadOK(x) /\ Held(x)'
    BY <2>1, <2>5, <2>6, ThreadsStay DEF Move
  <2>. QED BY <1>3, <2>3, <2>7 DEF TypeInv, TypeOK, link, kgcState
<1>5. CASE ~Fits(t.msg.y, t.msg.R, H2(ua[t.at], X[t.at], t.msg.R))
  <2>1. threads' \subseteq threads /\ UNCHANGED Y
    BY <1>5 DEF VerifyResp, Finish
  <2>2. \A x \in threads' : ThreadOK(x) /\ Held(x)'
    BY <1>3, <2>1, ThreadsEnd DEF FieldsStay
  <2>. QED BY <1>3, <2>1, <2>2 DEF TypeInv, TypeOK, link, kgcState
<1>. QED BY <1>4, <1>5

LEMMA SetSType ==
    ASSUME TypeInv, NEW t \in threads, SetS(t) PROVE TypeInv'
<1>1. ThreadOK(t) /\ t.msg.type = "REG_RESP" /\ t.pc = "setS" /\ Held(t)
  BY DEF TypeInv, TypeOK, SetS, At
<1>2. t.at \in Entities
  BY <1>1, ResponseThread
<1>3. UNCHANGED <<link, usedNonces, kgcState, status, ua, X, y, Y, S, printed>>
  BY DEF SetS
<1>4. s' = [s EXCEPT ![t.at] = [x |-> t.at, y |-> y[t.at]]]
  BY DEF SetS
<1>5. [x |-> t.at, y |-> y[t.at]] \in Secrets
  BY <1>1, <1>2 DEF Held, Secrets, TypeInv, TypeOK, OrNil
<1>6. s' \in [Entities -> OrNil(Secrets)] /\ s'[t.at] # Nil
  BY <1>2, <1>4, <1>5, RegistrationConstants DEF TypeInv, TypeOK, OrNil
<1>7. FieldsStay
  BY <1>2, <1>3, <1>4, <1>5, RegistrationConstants
     DEF FieldsStay, TypeInv, TypeOK
<1>. DEFINE u == Thread(t.at, t.msg, t.copy, "setBigS")
<1>8. ThreadOK(u) /\ Held(u)'
  <2>1. ThreadOK(u)
    BY <1>1, ResponseMoves DEF EntityPcs
  <2>. QED BY <1>1, <1>2, <1>3, <1>6, <2>1 DEF Held, Thread
<1>9. \A x \in threads' : ThreadOK(x) /\ Held(x)'
  BY <1>7, <1>8, ThreadsStay DEF SetS, Move
<1>. QED BY <1>3, <1>6, <1>9 DEF TypeInv, TypeOK, link, kgcState

LEMMA SetBigSType ==
    ASSUME TypeInv, NEW t \in threads, SetBigS(t) PROVE TypeInv'
<1>1. ThreadOK(t) /\ t.msg.type = "REG_RESP" /\ t.pc = "setBigS" /\ Held(t)
  BY DEF TypeInv, TypeOK, SetBigS, At
<1>2. t.at \in Entities
  BY <1>1, ResponseThread
<1>3. UNCHANGED <<link, usedNonces, kgcState, status, ua, X, y, Y, s, printed>>
  BY DEF SetBigS
<1>4. Pub(s[t.at]) \in [of : Secrets]
  BY <1>1, <1>2 DEF Held, Pub, TypeInv, TypeOK, OrNil
<1>5. S' \in [Entities -> OrNil([of : Secrets])]
  BY <1>2, <1>4 DEF SetBigS, TypeInv, TypeOK, OrNil
<1>6. FieldsStay
  BY <1>3 DEF FieldsStay
<1>. DEFINE u == Thread(t.at, t.msg, t.copy, "report")
<1>7. ThreadOK(u) /\ Held(u)'
  <2>1. ThreadOK(u)
    BY <1>1, ResponseMoves DEF EntityPcs
  <2>. QED BY <1>1, <1>2, <1>3, <2>1 DEF Held, Thread
<1>8. \A x \in threads' : ThreadOK(x) /\ Held(x)'
  BY <1>6, <1>7, ThreadsStay DEF SetBigS, Move
<1>. QED BY <1>3, <1>5, <1>8 DEF TypeInv, TypeOK, link, kgcState

\* From the report on, the entity's public fields are there.
LEMMA FieldsThere ==
    ASSUME TypeInv, NEW t \in threads, t.msg.type = "REG_RESP",
           t.pc \in {"report", "upload"}
    PROVE  /\ t.at \in Entities
           /\ ua[t.at] \in UAs /\ X[t.at] \in XPoints
           /\ y[t.at] \in Ys /\ Y[t.at] \in YPoints
<1>1. ThreadOK(t) /\ Held(t)
  BY DEF TypeInv, TypeOK
<1>2. t.at \in Entities
  BY <1>1, ResponseThread
<1>. QED BY <1>1, <1>2 DEF Held, TypeInv, TypeOK, OrNil

LEMMA ReportType ==
    ASSUME TypeInv, NEW t \in threads, Report(t) PROVE TypeInv'
<1>1. ThreadOK(t) /\ t.msg.type = "REG_RESP" /\ t.pc = "report" /\ Held(t)
  BY DEF TypeInv, TypeOK, Report, At
<1>2. UNCHANGED <<link, usedNonces, kgcState, status, ua, X, y, Y, s, S>>
  BY DEF Report
<1>3. printed' \in [Entities -> SUBSET [UA : UAs, y : Ys, X : XPoints,
                                         Y : YPoints]]
  <2>1. [UA |-> ua[t.at], y |-> y[t.at], X |-> X[t.at], Y |-> Y[t.at]]
            \in [UA : UAs, y : Ys, X : XPoints, Y : YPoints]
    BY <1>1, FieldsThere
  <2>. QED BY <1>1, <2>1, FieldsThere DEF Report, TypeInv, TypeOK
<1>4. FieldsStay
  BY <1>2 DEF FieldsStay
<1>. DEFINE u == Thread(t.at, t.msg, t.copy, "upload")
<1>5. ThreadOK(u) /\ Held(u)'
  <2>1. ThreadOK(u)
    BY <1>1, ResponseMoves DEF EntityPcs
  <2>. QED BY <1>1, <1>2, <2>1 DEF Held, Thread
<1>6. \A x \in threads' : ThreadOK(x) /\ Held(x)'
  BY <1>4, <1>5, ThreadsStay DEF Report, Move
<1>. QED BY <1>2, <1>3, <1>6 DEF TypeInv, TypeOK, link, kgcState

LEMMA sendUploadType ==
    ASSUME TypeInv, NEW t \in threads, sendUpload(t) PROVE TypeInv'
<1>. DEFINE n3 == [t.msg.nonce EXCEPT !.n = "N3"]
            m == [type |-> "UPLOAD", nonce |-> n3, UA |-> ua[t.at],
                  X |-> X[t.at], Y |-> Y[t.at]]
<1>1. ThreadOK(t) /\ t.msg.type = "REG_RESP" /\ t.pc = "upload"
  BY DEF TypeInv, TypeOK, sendUpload, At
<1>2. n3 \in Nonces /\ t.at \in Entities
  BY <1>1, ResponseThread DEF Nonces
<1>3. m \in Uploads
  BY <1>1, <1>2, FieldsThere DEF Uploads
<1>4. PacketOK(Packet(m, "KGC", 0, MaxCopies))
  BY <1>3, FirstLeft DEF PacketOK, Packet, ToKGC
<1>5. /\ dropped' \in Nat /\ cuts' \in 0 .. MaxCuts
      /\ \A w \in wire' : PacketOK(w)
  <2>1. Transmit("KGC", m)
    BY DEF sendUpload
  <2>. HIDE DEF m
  <2>. QED BY <1>4, <2>1, TransmitOK DEF TypeInv
<1>6. usedNonces' \in [Nodes -> SUBSET Nonces]
  BY <1>2 DEF sendUpload, MarkUsed, TypeInv, TypeOK, Nodes
<1>7. UNCHANGED <<kgcState, entityState>> /\ threads' \subseteq threads
  BY DEF sendUpload, Finish
<1>8. \A x \in threads' : ThreadOK(x) /\ Held(x)'
  BY <1>7, ThreadsEnd DEF FieldsStay, entityState
<1>. QED BY <1>5, <1>6, <1>7, <1>8 DEF TypeInv, TypeOK, kgcState, entityState

LEMMA TypeStep == TypeInv /\ [Next]_vars => TypeInv'
<1>. SUFFICES ASSUME TypeInv, [Next]_vars PROVE TypeInv'
  OBVIOUS
<1>1. CASE UNCHANGED vars
  BY <1>1 DEF vars, link, kgcState, entityState, TypeInv, TypeOK, Held
<1>2. ASSUME NEW e \in Entities, Listen(e) \/ sendRegRqst(e) \/ Stop(e)
      PROVE  TypeInv'
  BY <1>2, ListenType, sendRegRqstType, StopType
<1>3. ASSUME NEW w \in wire, Receive(w) \/ ReadShort(w) \/ Duplicate(w)
      PROVE  TypeInv'
  BY <1>3, ReceiveType, ReadShortType, DuplicateType
<1>4. ASSUME NEW t \in threads, KGCStep(t) PROVE TypeInv'
  BY <1>4, StoreSessionType, RespondType, CompareUploadType, PublishType
     DEF KGCStep
<1>5. ASSUME NEW t \in threads, EntityStep(t) PROVE TypeInv'
  BY <1>5, SetYType, VerifyRespType, SetSType, SetBigSType, ReportType,
     sendUploadType DEF EntityStep
<1>. QED BY <1>1, <1>2, <1>3, <1>4, <1>5 DEF Next, Work

\* Maps, fields, connections and handlers only hold what they are meant to
\* hold; in particular no handler of the entity reads a field that is nil
\* (entity.go:203).
THEOREM RegistrationTypes == Spec => []TypeOK
<1>1. TypeInv => TypeOK
  BY DEF TypeInv
<1>. QED BY <1>1, TypeStart, TypeStep, PTL DEF Spec

----------------------------------------------------------------------------
(* What messages, handlers and issued keys say of the fields.              *)

N1(e) == [n |-> "N1", e |-> e, c |-> 0]

\* A request holds the fields of the entity that sent it, unless a short read
\* garbled X.
RequestInv(m) ==
    m.type = "REG_RQST" =>
        LET e == m.nonce.e
        IN /\ e \in Entities /\ m.nonce = N1(e)
           /\ X[e] = Pub(e) /\ ua[e] = m.UA
           /\ m.X = X[e] \/ (m.X = Garbled /\ cuts # 0)

ResponseInv(m) == m.type = "REG_RESP" => m.y \in issued

UploadInv(m) ==
    m.type = "UPLOAD" /\ cuts = 0 =>
        \E v \in issued : v.H.UA = m.UA /\ v.H.X = m.X /\ Pub(v) = m.Y

MsgInv(m) == RequestInv(m) /\ ResponseInv(m) /\ UploadInv(m)

IsRequest(t) == t.msg.type = "REG_RQST"

\* A request that is handled was marked as used, and is handled once.
RequestsOnce ==
    /\ \A t \in threads : IsRequest(t) => t.msg.nonce \in usedNonces["KGC"]
    /\ \A t, u \in threads :
          IsRequest(t) /\ IsRequest(u) /\ t.msg.nonce = u.msg.nonce => t = u

\* An issued key answers the one request of an entity.
IssuedFor(v) ==
    LET e == v.r.e
    IN /\ N1(e) \in usedNonces["KGC"]
       /\ X[e] = Pub(e) /\ v.H.UA = ua[e]
       /\ v.H.X = X[e] \/ (v.H.X = Garbled /\ cuts # 0)

IssuedInv ==
    /\ \A v \in issued : IssuedFor(v)
    /\ \A v, w \in issued : v.r.e = w.r.e => v = w
    /\ \A v \in issued : \A t \in threads :
          IsRequest(t) => t.msg.nonce # N1(v.r.e)

KeysInv == OwnKey /\ (cuts = 0 => PublishedWasIssued)

RegInv ==
    /\ TypeInv
    /\ \A w \in wire : MsgInv(w.msg)
    /\ \A t \in threads : MsgInv(t.msg)
    /\ RequestsOnce
    /\ IssuedInv
    /\ KeysInv

\* Steps only add: keys and nonces, and to fields that were nil.
Mono ==
    /\ issued \subseteq issued'
    /\ cuts # 0 => cuts' # 0
    /\ usedNonces["KGC"] \subseteq usedNonces'["KGC"]
    /\ \A e \in Entities : X[e] # Nil => X'[e] = X[e] /\ ua'[e] = ua[e]

\* Handlers move on or end, and none is new.
NoNewThread ==
    /\ \A u \in threads' : \E o \in threads : o.msg = u.msg
    /\ \A a, b \in threads' :
          IsRequest(a) /\ IsRequest(b) /\ a.msg.nonce = b.msg.nonce => a = b

----------------------------------------------------------------------------
LEMMA PubNotNil ==
    \A e \in Entities : Pub(e) \in XPoints /\ Pub(e) # Nil
BY RegistrationConstants DEF Pub, XPoints

LEMMA PubInjective == \A a, b : Pub(a) = Pub(b) => a = b
BY DEF Pub

LEMMA N1Injective == \A a, b : N1(a) = N1(b) => a = b
BY DEF N1

LEMMA IssuedTypes ==
    ASSUME TypeOK, NEW v \in issued
    PROVE  /\ v \in Ys /\ v.r.e \in Entities
           /\ v.H.X \in XPoints \cup {Garbled} /\ v.H.X # Nil
<1>1. v \in Ys
  BY DEF TypeOK
<1>2. v.r.e \in Entities /\ v.H.X \in XPoints \cup {Garbled}
  BY <1>1 DEF Ys, RScalars, Hashes
<1>. QED BY <1>1, <1>2, RegistrationConstants

LEMMA MsgStays ==
    ASSUME Mono, NEW m, MsgInv(m) PROVE MsgInv(m)'
<1>1. RequestInv(m)'
  BY PubNotNil DEF Mono, MsgInv, RequestInv
<1>2. ResponseInv(m)'
  BY DEF Mono, MsgInv, ResponseInv
<1>3. UploadInv(m)'
  BY DEF Mono, MsgInv, UploadInv
<1>. QED BY <1>1, <1>2, <1>3 DEF MsgInv

LEMMA IssuedForStays ==
    ASSUME TypeOK, Mono, NEW v \in issued, IssuedFor(v) PROVE IssuedFor(v)'
BY IssuedTypes, PubNotNil DEF Mono, IssuedFor

LEMMA MoveKeeps ==
    ASSUME RegInv, NEW t \in threads, NEW pc, Move(t, pc)
    PROVE  NoNewThread
<1>. DEFINE n == Thread(t.at, t.msg, t.copy, pc)
<1>1. n.msg = t.msg
  BY DEF Thread
<1>2. threads' = (threads \ {t}) \cup {n}
  BY DEF Move
<1>. HIDE DEF n
<1>3. \A u \in threads' : \E o \in threads : o.msg = u.msg
  BY <1>1, <1>2
<1>4. ASSUME NEW a \in threads', NEW b \in threads',
             IsRequest(a), IsRequest(b), a.msg.nonce = b.msg.nonce
      PROVE  a = b
  BY <1>1, <1>2, <1>4 DEF RegInv, RequestsOnce, IsRequest
<1>. QED BY <1>3, <1>4 DEF NoNewThread

LEMMA EndKeeps ==
    ASSUME RegInv, threads' \subseteq threads PROVE NoNewThread
BY DEF RegInv, RequestsOnce, NoNewThread

LEMMA IssuedStays ==
    ASSUME RegInv, Mono, NoNewThread, UNCHANGED issued PROVE IssuedInv'
<1>1. \A v \in issued : IssuedFor(v)'
  BY IssuedForStays DEF RegInv, TypeInv, IssuedInv
<1>2. \A v \in issued : \A t \in threads' :
          IsRequest(t) => t.msg.nonce # N1(v.r.e)
  BY DEF RegInv, IssuedInv, NoNewThread, IsRequest
<1>3. \A v, w \in issued : v.r.e = w.r.e => v = w
  BY DEF RegInv, IssuedInv
<1>. QED BY <1>1, <1>2, <1>3 DEF IssuedInv

LEMMA KeysStay ==
    ASSUME RegInv, Mono, UNCHANGED <<Y, publicKeys>> PROVE KeysInv'
<1>1. OwnKey'
  <2>. SUFFICES ASSUME NEW e \in Entities, Y[e] # Nil
                PROVE  \E v \in issued' : /\ Pub(v) = Y[e]
                                          /\ v.H.UA = ua'[e] /\ v.H.X = X'[e]
    BY DEF OwnKey
  <2>1. PICK v \in issued : Pub(v) = Y[e] /\ v.H.UA = ua[e] /\ v.H.X = X[e]
    BY DEF RegInv, KeysInv, OwnKey
  <2>2. X[e] # Nil
    BY <2>1, IssuedTypes DEF RegInv, TypeInv
  <2>. QED BY <2>1, <2>2 DEF Mono
<1>2. cuts' = 0 => PublishedWasIssued'
  BY DEF RegInv, KeysInv, Mono, PublishedWasIssued
<1>. QED BY <1>1, <1>2 DEF KeysInv

\* The common part of all steps that start no handler.
LEMMA Preserve ==
    ASSUME RegInv, TypeInv', Mono, NoNewThread,
           \A w \in wire' : (\E x \in wire : x.msg = w.msg) \/ MsgInv(w.msg)',
           IssuedInv', KeysInv'
    PROVE  RegInv'
<1>1. \A w \in wire' : MsgInv(w.msg)'
  BY MsgStays DEF RegInv
<1>2. \A t \in threads' : MsgInv(t.msg)'
  BY MsgStays DEF RegInv, NoNewThread
<1>3. RequestsOnce'
  BY DEF RegInv, RequestsOnce, NoNewThread, Mono, IsRequest
<1>. QED BY <1>1, <1>2, <1>3 DEF RegInv

\* ... and of those that write none of what RegInv speaks of.
LEMMA Quiet ==
    ASSUME RegInv, TypeInv', NoNewThread,
           UNCHANGED <<link, usedNonces, issued, ua, X, Y, publicKeys>>
    PROVE  RegInv'
<1>1. Mono
  BY DEF Mono, link
<1>2. IssuedInv' /\ KeysInv'
  BY <1>1, IssuedStays, KeysStay
<1>3. \A w \in wire' : \E x \in wire : x.msg = w.msg
  BY DEF link
<1>. QED BY <1>1, <1>2, <1>3, Preserve

----------------------------------------------------------------------------
(* The steps.                                                              *)

LEMMA RegStart == Init => RegInv
<1>. SUFFICES ASSUME Init PROVE RegInv
  OBVIOUS
<1>1. TypeInv
  BY TypeStart
<1>2. OwnKey /\ PublishedWasIssued
  BY DEF Init, OwnKey, PublishedWasIssued
<1>. QED BY <1>1, <1>2 DEF Init, RegInv, RequestsOnce, IssuedInv, KeysInv

\* A message that is accepted starts its only handler.
LEMMA HandleInv ==
    ASSUME RegInv, TypeInv', NEW w \in wire, NEW m, Handle(w, m),
           cuts # 0 => cuts' # 0,
           PacketOK(w), w.msg.type = m.type, w.msg.nonce = m.nonce,
           MsgInv(m)'
    PROVE  RegInv'
<1>1. /\ UNCHANGED <<dropped, kgcState, entityState>>
      /\ wire' = wire \ {w}
  BY DEF Handle
<1>2. UNCHANGED <<issued, ua, X, Y, publicKeys>>
  BY <1>1 DEF kgcState, entityState
<1>3. Mono
  <2>1. "KGC" \in Nodes /\ usedNonces \in [Nodes -> SUBSET Nonces]
    BY DEF RegInv, TypeInv, TypeOK, Nodes
  <2>. QED BY <1>2, <2>1 DEF Mono, Handle, MarkUsed
<1>4. KeysInv'
  BY <1>2, <1>3, KeysStay
<1>5. CASE Replayed(w)
  <2>1. UNCHANGED threads
    BY <1>5 DEF Handle
  <2>2. NoNewThread
    BY <2>1, EndKeeps
  <2>3. IssuedInv'
    BY <1>2, <1>3, <2>2, IssuedStays
  <2>. QED BY <1>1, <1>3, <1>4, <2>2, <2>3, Preserve
<1>6. CASE ~Replayed(w)
  <2>. DEFINE n == Thread(w.to, m, w.copy, FirstPc[m.type])
  <2>1. threads' = threads \cup {n} /\ MarkUsed(w.to, m.nonce)
    BY <1>6 DEF Handle
  <2>2. n.msg = m
    BY DEF Thread
  <2>. HIDE DEF n
  <2>3. ASSUME IsRequest(n)
        PROVE  /\ m.nonce \notin usedNonces["KGC"]
               /\ m.nonce \in usedNonces'["KGC"]
    <3>1. w.to = "KGC"
      BY <2>2, <2>3 DEF PacketOK, Responses, IsRequest
    <3>2. "KGC" \in DOMAIN usedNonces
      BY DEF RegInv, TypeInv, TypeOK, Nodes
    <3>. QED BY <1>6, <2>1, <3>1, <3>2 DEF Replayed, MarkUsed
  <2>4. RequestsOnce'
    <3>1. \A t \in threads' : IsRequest(t) => t.msg.nonce \in usedNonces'["KGC"]
      BY <1>3, <2>1, <2>2, <2>3 DEF RegInv, RequestsOnce, Mono
    <3>2. \A t \in threads : IsRequest(t) /\ IsRequest(n)
                                => t.msg.nonce # n.msg.nonce
      BY <2>2, <2>3 DEF RegInv, RequestsOnce
    <3>3. \A t, u \in threads' :
             IsRequest(t) /\ IsRequest(u) /\ t.msg.nonce = u.msg.nonce => t = u
      BY <2>1, <3>2 DEF RegInv, RequestsOnce
    <3>. QED BY <3>1, <3>3 DEF RequestsOnce, IsRequest
  <2>5. IssuedInv'
    <3>1. \A v \in issued : IssuedFor(v)'
      BY <1>3, IssuedForStays DEF RegInv, TypeInv, IssuedInv
    <3>2. \A v \in issued : IsRequest(n) => n.msg.nonce # N1(v.r.e)
      BY <2>2, <2>3 DEF RegInv, IssuedInv, IssuedFor
    <3>3. \A v \in issued : \A t \in threads' :
             IsRequest(t) => t.msg.nonce # N1(v.r.e)
      BY <2>1, <3>2 DEF RegInv, IssuedInv
    <3>4. \A v, x \in issued : v.r.e = x.r.e => v = x
      BY DEF RegInv, IssuedInv
    <3>. QED BY <1>2, <3>1, <3>3, <3>4 DEF IssuedInv, IsRequest
  <2>6. \A x \in wire' : MsgInv(x.msg)'
    BY <1>1, <1>3, MsgStays DEF RegInv
  <2>7. \A t \in threads' : MsgInv(t.msg)'
    BY <1>3, <2>1, <2>2, MsgStays DEF RegInv
  <2>. QED BY <1>4, <2>4, <2>5, <2>6, <2>7 DEF RegInv
<1>. QED BY <1>5, <1>6

LEMMA ReceiveInv ==
    ASSUME RegInv, TypeInv', NEW w \in wire, Receive(w) PROVE RegInv'
<1>1. PacketOK(w) /\ MsgInv(w.msg)
  BY DEF RegInv, TypeInv, TypeOK
<1>2. UNCHANGED <<cuts, issued, ua, X>>
  BY DEF Receive, Handle, kgcState, entityState
<1>3. MsgInv(w.msg)'
  BY <1>1, <1>2 DEF MsgInv, RequestInv, ResponseInv, UploadInv
<1>. QED BY <1>1, <1>2, <1>3, HandleInv DEF Receive

LEMMA ReadShortInv ==
    ASSUME RegInv, TypeInv', NEW w \in wire, ReadShort(w) PROVE RegInv'
<1>. DEFINE m == Cut(w.msg)
<1>1. PacketOK(w) /\ MsgInv(w.msg)
  BY DEF RegInv, TypeInv, TypeOK
<1>2. UNCHANGED <<issued, ua, X>>
  BY DEF ReadShort, Handle, kgcState, entityState
<1>3. cuts' # 0
  <2>1. cuts \in Nat
    BY DEF RegInv, TypeInv, TypeOK
  <2>. QED BY <2>1 DEF ReadShort
<1>4. m.type = w.msg.type /\ m.nonce = w.msg.nonce
  BY <1>1, PacketKinds, CutOK
<1>5. RequestInv(m)'
  <2>. SUFFICES ASSUME m.type = "REG_RQST" PROVE RequestInv(m)'
    BY DEF RequestInv
  <2>1. w.msg \in Requests
    BY <1>1, <1>4, PacketKinds DEF Responses, Uploads
  <2>2. m.UA = w.msg.UA /\ m.X = Garbled
    BY <2>1, CutOK
  <2>. HIDE DEF m
  <2>. QED BY <1>1, <1>2, <1>3, <1>4, <2>2 DEF MsgInv, RequestInv
<1>6. ResponseInv(m)'
  <2>. SUFFICES ASSUME m.type = "REG_RESP" PROVE m.y \in issued'
    BY DEF ResponseInv
  <2>1. w.msg \in Responses
    BY <1>1, <1>4, PacketKinds DEF Requests, Uploads
  <2>2. m.y = w.msg.y
    BY <2>1, CutOK
  <2>. QED BY <1>1, <1>2, <1>4, <2>2 DEF MsgInv, ResponseInv
<1>7. UploadInv(m)'
  BY <1>3 DEF UploadInv
<1>8. MsgInv(m)' /\ Handle(w, m)
  BY <1>5, <1>6, <1>7 DEF MsgInv, ReadShort
<1>. HIDE DEF m
<1>. QED BY <1>1, <1>3, <1>4, <1>8, HandleInv

LEMMA DuplicateInv ==
    ASSUME RegInv, TypeInv', NEW w \in wire, Duplicate(w) PROVE RegInv'
<1>1. UNCHANGED <<dropped, cuts, threads, usedNonces, kgcState, entityState>>
  BY DEF Duplicate
<1>2. NoNewThread
  BY <1>1, EndKeeps
<1>3. \A x \in wire' : \E z \in wire : z.msg = x.msg
  BY DEF Duplicate, Packet
<1>4. Mono
  BY <1>1 DEF Mono, kgcState, entityState
<1>5. IssuedInv' /\ KeysInv'
  BY <1>1, <1>2, <1>4, IssuedStays, KeysStay DEF kgcState, entityState
<1>. QED BY <1>2, <1>3, <1>4, <1>5, Preserve

\* One message is sent at most.
LEMMA TransmitInv ==
    ASSUME NEW to, NEW m, Transmit(to, m), MsgInv(m)'
    PROVE  /\ UNCHANGED cuts
           /\ \A w \in wire' : (\E x \in wire : x.msg = w.msg) \/ MsgInv(w.msg)'
<1>1. UNCHANGED cuts
  BY DEF Transmit
<1>2. \A w \in wire' : w \in wire \/ w = Packet(m, to, 0, MaxCopies)
  BY DEF Transmit
<1>3. Packet(m, to, 0, MaxCopies).msg = m
  BY DEF Packet
<1>. QED BY <1>1, <1>2, <1>3

LEMMA RespondInv ==
    ASSUME RegInv, TypeInv', NEW t \in threads, Respond(t) PROVE RegInv'
<1>. DEFINE r  == Scalar(t)
            yy == YOf(r, H2(t.msg.UA, t.msg.X, Pub(r)))
            n2 == [n |-> "N2", e |-> t.msg.nonce.e, c |-> t.copy]
            m  == [type |-> "REG_RESP", nonce |-> n2, y |-> yy, R |-> Pub(r)]
            e  == t.msg.nonce.e
<1>1. /\ issued' = issued \cup {yy} /\ Transmit(Listener, m)
      /\ MarkUsed("KGC", n2) /\ threads' = threads \ {t}
      /\ UNCHANGED <<session, publicKeys, entityState>>
  BY DEF Respond, Finish
<1>2. IsRequest(t) /\ MsgInv(t.msg)
  BY DEF Respond, At, IsRequest, RegInv
<1>3. yy.r.e = e /\ yy.H.UA = t.msg.UA /\ yy.H.X = t.msg.X
  BY DEF YOf, H2, Scalar
<1>4. m.type = "REG_RESP" /\ m.y = yy
  OBVIOUS
<1>. HIDE DEF yy, m
<1>5. MsgInv(m)'
  BY <1>1, <1>4 DEF MsgInv, RequestInv, ResponseInv, UploadInv
<1>6. UNCHANGED cuts
  BY <1>1, <1>5, TransmitInv
<1>7. Mono
  <2>1. "KGC" \in DOMAIN usedNonces
    BY DEF RegInv, TypeInv, TypeOK, Nodes
  <2>. QED BY <1>1, <1>6, <2>1 DEF Mono, MarkUsed, entityState
<1>8. NoNewThread
  BY <1>1, EndKeeps
<1>9. IssuedInv'
  <2>1. e \in Entities /\ t.msg.nonce = N1(e) /\ X[e] = Pub(e)
        /\ ua[e] = t.msg.UA /\ (t.msg.X = X[e] \/ (t.msg.X = Garbled /\ cuts # 0))
    BY <1>2 DEF MsgInv, RequestInv, IsRequest
  <2>2. N1(e) \in usedNonces["KGC"]
    BY <1>2, <2>1 DEF RegInv, RequestsOnce
  <2>3. IssuedFor(yy)'
    <3>1. X' = X /\ ua' = ua
      BY <1>1 DEF entityState
    <3>. QED BY <1>3, <1>6, <1>7, <2>1, <2>2, <3>1 DEF IssuedFor, Mono
  <2>4. \A v \in issued : IssuedFor(v)'
    BY <1>7, IssuedForStays DEF RegInv, TypeInv, IssuedInv
  <2>5. \A v \in issued : v.r.e # yy.r.e
    BY <1>2, <1>3, <2>1 DEF RegInv, IssuedInv
  <2>6. \A v, w \in issued' : v.r.e = w.r.e => v = w
    BY <1>1, <2>5 DEF RegInv, IssuedInv
  <2>7. \A u \in threads' : IsRequest(u) => u.msg.nonce # N1(yy.r.e)
    BY <1>1, <1>2, <1>3, <2>1 DEF RegInv, RequestsOnce
  <2>8. \A v \in issued' : \A u \in threads' :
           IsRequest(u) => u.msg.nonce # N1(v.r.e)
    BY <1>1, <2>7 DEF RegInv, IssuedInv
  <2>. QED BY <1>1, <2>3, <2>4, <2>6, <2>8 DEF IssuedInv, IsRequest
<1>10. KeysInv'
  BY <1>1, <1>7, KeysStay DEF entityState
<1>11. \A w \in wire' : (\E x \in wire : x.msg = w.msg) \/ MsgInv(w.msg)'
  BY <1>1, <1>5, TransmitInv
<1>. QED BY <1>7, <1>8, <1>9, <1>10, <1>11, Preserve

\* Only what the session and the entity agree on is published.
LEMMA PublishInv ==
    ASSUME RegInv, TypeInv', NEW t \in threads, Publish(t) PROVE RegInv'
<1>1. UNCHANGED <<link, usedNonces, issued, entityState>>
  BY DEF Publish
<1>2. NoNewThread
  BY EndKeeps DEF Publish, Finish
<1>3. Mono
  BY <1>1 DEF Mono, link, entityState
<1>4. IssuedInv'
  BY <1>1, <1>2, <1>3, IssuedStays
<1>5. KeysInv'
  <2>1. OwnKey'
    BY <1>1 DEF RegInv, KeysInv, OwnKey, entityState
  <2>2. ASSUME cuts' = 0 PROVE PublishedWasIssued'
    <3>1. PICK v \in issued : /\ v.H.UA = t.msg.UA /\ v.H.X = t.msg.X
                              /\ Pub(v) = t.msg.Y
      BY <1>1, <2>2 DEF RegInv, MsgInv, UploadInv, Publish, At, link
    <3>2. PublishedWasIssued
      BY <1>1, <2>2 DEF RegInv, KeysInv, link
    <3>3. publicKeys' = [publicKeys EXCEPT ![t.msg.UA] =
                             [X |-> t.msg.X, Y |-> t.msg.Y]]
      BY DEF Publish
    <3>4. publicKeys \in [UAs -> OrNil([X : XPoints, Y : YPoints \cup {Garbled}])]
      BY DEF RegInv, TypeInv, TypeOK
    <3>. QED BY <1>1, <3>1, <3>2, <3>3, <3>4 DEF PublishedWasIssued
  <2>. QED BY <2>1, <2>2 DEF KeysInv
<1>6. \A w \in wire' : \E x \in wire : x.msg = w.msg
  BY <1>1 DEF link
<1>. QED BY <1>2, <1>3, <1>4, <1>5, <1>6, Preserve

LEMMA sendRegRqstInv ==
    ASSUME RegInv, TypeInv', NEW e \in Entities, sendRegRqst(e) PROVE RegInv'
<1>. DEFINE m(u) == [type |-> "REG_RQST", nonce |-> N1(e), UA |-> u,
                     X |-> Pub(e)]
<1>1. PICK u \in UAs : ua' = [ua EXCEPT ![e] = u] /\ Transmit("KGC", m(u))
  BY DEF sendRegRqst, N1
<1>2. /\ X[e] = Nil /\ X' = [X EXCEPT ![e] = Pub(e)] /\ MarkUsed(e, N1(e))
      /\ UNCHANGED <<threads, kgcState, status, y, Y, s, S, printed>>
  BY DEF sendRegRqst, N1
<1>3. X'[e] = Pub(e) /\ ua'[e] = u
  BY <1>1, <1>2 DEF RegInv, TypeInv, TypeOK
<1>4. MsgInv(m(u))'
  <2>1. m(u).type = "REG_RQST" /\ m(u).nonce = N1(e) /\ m(u).nonce.e = e
        /\ m(u).UA = u /\ m(u).X = Pub(e)
    BY DEF N1
  <2>. HIDE DEF m
  <2>. QED BY <1>3, <2>1 DEF MsgInv, RequestInv, ResponseInv, UploadInv
<1>. HIDE DEF m
<1>5. UNCHANGED cuts
  BY <1>1, <1>4, TransmitInv
<1>6. Mono
  <2>1. usedNonces'["KGC"] = usedNonces["KGC"]
    BY <1>2, RegistrationConstants DEF MarkUsed, RegInv, TypeInv, TypeOK, Nodes
  <2>2. \A f \in Entities : X[f] # Nil => X'[f] = X[f] /\ ua'[f] = ua[f]
    BY <1>1, <1>2 DEF RegInv, TypeInv, TypeOK
  <2>. QED BY <1>2, <1>5, <2>1, <2>2 DEF Mono, kgcState
<1>7. NoNewThread
  BY <1>2, EndKeeps
<1>8. IssuedInv' /\ KeysInv'
  BY <1>2, <1>6, <1>7, IssuedStays, KeysStay DEF kgcState
<1>9. \A w \in wire' : (\E x \in wire : x.msg = w.msg) \/ MsgInv(w.msg)'
  BY <1>1, <1>4, TransmitInv
<1>. QED BY <1>6, <1>7, <1>8, <1>9, Preserve

LEMMA StopInv ==
    ASSUME RegInv, TypeInv', NEW e \in Entities, Stop(e) PROVE RegInv'
<1>1. /\ UNCHANGED <<dropped, cuts, usedNonces, kgcState, ua, X, y, Y, s, S,
                     printed>>
      /\ wire' \subseteq wire /\ threads' \subseteq threads
  BY DEF Stop
<1>2. Mono /\ NoNewThread
  BY <1>1, EndKeeps DEF Mono, kgcState
<1>3. IssuedInv' /\ KeysInv'
  BY <1>1, <1>2, IssuedStays, KeysStay DEF kgcState
<1>. QED BY <1>1, <1>2, <1>3, Preserve

\* An entity that takes over a key takes one that was issued for it.
LEMMA VerifyRespInv ==
    ASSUME RegInv, TypeInv', NEW t \in threads, VerifyResp(t) PROVE RegInv'
<1>1. UNCHANGED <<link, usedNonces, kgcState, status, ua, X, y, s, S, printed>>
  BY DEF VerifyResp
<1>2. NoNewThread
  BY MoveKeeps, EndKeeps DEF VerifyResp, Finish
<1>3. CASE Fits(t.msg.y, t.msg.R, H2(ua[t.at], X[t.at], t.msg.R))
  <2>1. t.msg.type = "REG_RESP" /\ t.at \in Entities /\ t.msg.y \in Ys
    BY ResponseThread DEF RegInv, TypeInv, TypeOK, VerifyResp, At
  <2>2. t.msg.y \in issued
    BY <2>1 DEF RegInv, MsgInv, ResponseInv
  <2>3. t.msg.y.H.UA = ua[t.at] /\ t.msg.y.H.X = X[t.at]
    BY <1>3, <2>1, FitsOwn DEF RegInv, TypeInv
  <2>4. Y' = [Y EXCEPT ![t.at] = Pub(t.msg.y)]
    BY <1>3 DEF VerifyResp
  <2>5. Mono
    BY <1>1 DEF Mono, link, kgcState
  <2>6. OwnKey'
    <3>1. Y \in [Entities -> OrNil(YPoints)] /\ OwnKey
      BY DEF RegInv, TypeInv, TypeOK, KeysInv
    <3>2. \A f \in Entities : Y'[f] = IF f = t.at THEN Pub(t.msg.y) ELSE Y[f]
      BY <2>4, <3>1
    <3>. QED BY <1>1, <2>2, <2>3, <3>1, <3>2 DEF OwnKey, kgcState
  <2>7. KeysInv'
    BY <1>1, <2>6 DEF RegInv, KeysInv, PublishedWasIssued, link, kgcState
  <2>8. IssuedInv'
    BY <1>1, <1>2, <2>5, IssuedStays DEF kgcState
  <2>9. \A w \in wire' : \E x \in wire : x.msg = w.msg
    BY <1>1 DEF link
  <2>. QED BY <1>2, <2>5, <2>7, <2>8, <2>9, Preserve
<1>4. CASE ~Fits(t.msg.y, t.msg.R, H2(ua[t.at], X[t.at], t.msg.R))
  <2>1. UNCHANGED Y
    BY <1>4 DEF VerifyResp
  <2>. QED BY <1>1, <1>2, <2>1, Quiet DEF kgcState
<1>. QED BY <1>3, <1>4

\* What is uploaded is what the entity took over.
LEMMA sendUploadInv ==
    ASSUME RegInv, TypeInv', NEW t \in threads, sendUpload(t) PROVE RegInv'
<1>1. t.msg.type = "REG_RESP" /\ t.pc = "upload"
  BY DEF sendUpload, At
<1>2. t.at \in Entities /\ Y[t.at] # Nil /\ t.at # "KGC"
  BY <1>1, FieldsThere, RegistrationConstants DEF RegInv
<1>3. PICK v \in issued : /\ Pub(v) = Y[t.at]
                          /\ v.H.UA = ua[t.at] /\ v.H.X = X[t.at]
  BY <1>2 DEF RegInv, KeysInv, OwnKey
<1>. DEFINE n3 == [t.msg.nonce EXCEPT !.n = "N3"]
<1>m. PICK m : m = [type |-> "UPLOAD", nonce |-> n3, UA |-> ua[t.at],
                     X |-> X[t.at], Y |-> Y[t.at]]
  OBVIOUS
<1>4. /\ Transmit("KGC", m) /\ MarkUsed(t.at, n3) /\ threads' \subseteq threads
      /\ UNCHANGED <<kgcState, entityState>>
  BY <1>m DEF sendUpload, Finish
<1>5. MsgInv(m)'
  <2>1. m.type = "UPLOAD" /\ m.UA = ua[t.at] /\ m.X = X[t.at] /\ m.Y = Y[t.at]
    BY <1>m
  <2>. QED BY <1>3, <1>4, <2>1
           DEF MsgInv, RequestInv, ResponseInv, UploadInv, kgcState
<1>. HIDE DEF n3
<1>6. UNCHANGED cuts
  BY <1>4, <1>5, TransmitInv
<1>7. Mono
  <2>1. usedNonces'["KGC"] = usedNonces["KGC"]
    BY <1>2, <1>4 DEF MarkUsed, RegInv, TypeInv, TypeOK, Nodes
  <2>. QED BY <1>4, <1>6, <2>1 DEF Mono, kgcState, entityState
<1>8. NoNewThread
  BY <1>4, EndKeeps
<1>9. IssuedInv' /\ KeysInv'
  BY <1>4, <1>7, <1>8, IssuedStays, KeysStay DEF kgcState, entityState
<1>10. \A w \in wire' : (\E x \in wire : x.msg = w.msg) \/ MsgInv(w.msg)'
  BY <1>4, <1>5, TransmitInv
<1>. QED BY <1>7, <1>8, <1>9, <1>10, Preserve

LEMMA QuietSteps ==
    ASSUME RegInv, TypeInv', NEW t \in threads,
           \/ StoreSession(t) \/ CompareUpload(t)
           \/ SetY(t) \/ SetS(t) \/ SetBigS(t) \/ Report(t)
    PROVE  RegInv'
<1>1. NoNewThread
  BY MoveKeeps, EndKeeps
     DEF StoreSession, CompareUpload, SetY, SetS, SetBigS, Report, Finish
<1>2. UNCHANGED <<link, usedNonces, issued, ua, X, Y, publicKeys>>
  BY DEF StoreSession, CompareUpload, SetY, SetS, SetBigS, Report, kgcState,
         entityState
<1>. QED BY <1>1, <1>2, Quiet

LEMMA RegStep == RegInv /\ [Next]_vars => RegInv'
<1>. SUFFICES ASSUME RegInv, [Next]_vars PROVE RegInv'
  OBVIOUS
<1>. TypeInv /\ TypeInv'
  BY TypeStep DEF RegInv
<1>1. CASE UNCHANGED vars
  BY <1>1, EndKeeps, Quiet DEF vars, kgcState, entityState
<1>2. ASSUME NEW e \in Entities, Listen(e) PROVE RegInv'
  BY <1>2, EndKeeps, Quiet DEF Listen, kgcState
<1>3. ASSUME NEW e \in Entities, sendRegRqst(e) \/ Stop(e) PROVE RegInv'
  BY <1>3, sendRegRqstInv, StopInv
<1>4. ASSUME NEW w \in wire, Receive(w) \/ ReadShort(w) \/ Duplicate(w)
      PROVE  RegInv'
  BY <1>4, ReceiveInv, ReadShortInv, DuplicateInv
<1>5. ASSUME NEW t \in threads, KGCStep(t) PROVE RegInv'
  BY <1>5, QuietSteps, RespondInv, PublishInv DEF KGCStep
<1>6. ASSUME NEW t \in threads, EntityStep(t) PROVE RegInv'
  BY <1>6, QuietSteps, VerifyRespInv, sendUploadInv DEF EntityStep
<1>. QED BY <1>1, <1>2, <1>3, <1>4, <1>5, <1>6 DEF Next, Work

----------------------------------------------------------------------------
(* Theorems.                                                               *)

LEMMA RegInvariant == Spec => []RegInv
BY RegStart, RegStep, PTL DEF Spec

LEMMA OncePerX == RegInv => IssuedOnce
<1>. SUFFICES ASSUME RegInv, NEW v \in issued, NEW w \in issued,
                     v.H.X = w.H.X, v.H.X # Garbled
              PROVE  v = w
  BY DEF IssuedOnce
<1>1. IssuedFor(v) /\ IssuedFor(w)
  BY DEF RegInv, IssuedInv
<1>2. Pub(v.r.e) = Pub(w.r.e)
  BY <1>1 DEF IssuedFor
<1>. QED BY <1>2, PubInjective DEF RegInv, IssuedInv

\* However often requests are repeated and reads are cut, the KGC issues at
\* most one key per X (kgc.go:309).
THEOREM KeysIssuedOnce == Spec => []IssuedOnce
BY RegInvariant, OncePerX, PTL

\* An entity only takes over a key that was issued for its own UA and X,
\* whichever of the answers to other entities reach it (entity.go:196).
THEOREM KeysAreOwn == Spec => []OwnKey
<1>1. RegInv => OwnKey
  BY DEF RegInv, KeysInv
<1>. QED BY <1>1, RegInvariant, PTL

LEMMA NoCuts == ASSUME MaxCuts = 0 PROVE RegInv => cuts = 0
BY DEF RegInv, TypeInv, TypeOK

\* When messages are read whole, what is published was issued, for this
\* identifier and this X (kgc.go:414).
THEOREM PublishedKeysWereIssued ==
    ASSUME MaxCuts = 0 PROVE Spec => []PublishedWasIssued
<1>1. RegInv => PublishedWasIssued
  BY NoCuts DEF RegInv, KeysInv
<1>. QED BY <1>1, RegInvariant, PTL

----------------------------------------------------------------------------
(* The refinement of KeyDirectory.                                         *)

Issues == {Issue(v) : v \in issued}
Dir == <<Issues, publicKeys>>

LEMMA RespondIssues ==
    ASSUME MaxCuts = 0, RegInv, NEW t \in threads, Respond(t)
    PROVE  Directory!DirectoryNext
<1>. DEFINE r  == Scalar(t)
            yy == YOf(r, H2(t.msg.UA, t.msg.X, Pub(r)))
            e  == t.msg.nonce.e
<1>1. issued' = issued \cup {yy} /\ UNCHANGED publicKeys /\ IsRequest(t)
  BY DEF Respond, At, IsRequest
<1>2. yy.H.X = t.msg.X
  BY DEF YOf, H2
<1>. HIDE DEF yy
<1>3. e \in Entities /\ t.msg.nonce = N1(e) /\ t.msg.X = Pub(e)
  BY <1>1, NoCuts DEF RegInv, MsgInv, RequestInv, IsRequest
<1>4. ASSUME NEW v \in issued PROVE v.H.X # t.msg.X
  <2>1. v.H.X = Pub(v.r.e) /\ v.r.e # e
    BY <1>1, <1>3, NoCuts DEF RegInv, IssuedInv, IssuedFor
  <2>. QED BY <1>3, <2>1, PubInjective
<1>5. \A i \in Issues : i.X # Issue(yy).X
  BY <1>2, <1>4 DEF Issues, Issue
<1>6. Issues' = Issues \cup {Issue(yy)} /\ Issue(yy) \in Issues'
  BY <1>1 DEF Issues
<1>7. Directory!IssueKey(Issue(yy))
  BY <1>1, <1>5, <1>6 DEF Directory!IssueKey, Issues
<1>. QED BY <1>6, <1>7 DEF Directory!DirectoryNext, Issues

LEMMA PublishEnters ==
    ASSUME MaxCuts = 0, RegInv, NEW t \in threads, Publish(t)
    PROVE  Directory!DirectoryNext
<1>1. PICK v \in issued : /\ v.H.UA = t.msg.UA /\ v.H.X = t.msg.X
                          /\ Pub(v) = t.msg.Y
  BY NoCuts DEF RegInv, MsgInv, UploadInv, Publish, At
<1>2. Issue(v) \in Issues
  BY DEF Issues
<1>3. /\ Issue(v).UA = t.msg.UA /\ Issue(v).X = t.msg.X
      /\ Issue(v).Y = t.msg.Y
  BY <1>1 DEF Issue
<1>4. UNCHANGED Issues
  BY DEF Publish, Issues
<1>5. publicKeys' = [publicKeys EXCEPT ![Issue(v).UA] =
                         [X |-> Issue(v).X, Y |-> Issue(v).Y]]
  BY <1>3 DEF Publish
<1>6. Directory!EnterKey(Issue(v))
  BY <1>2, <1>4, <1>5 DEF Directory!EnterKey, Issues
<1>. QED BY <1>2, <1>6 DEF Directory!DirectoryNext, Issues

LEMMA StepIsDirectory ==
    ASSUME MaxCuts = 0
    PROVE  RegInv /\ [Next]_vars => [Directory!DirectoryNext]_Dir
<1>. SUFFICES ASSUME RegInv, [Next]_vars
              PROVE  Directory!DirectoryNext \/ UNCHANGED Dir
  OBVIOUS
<1>1. UNCHANGED <<issued, publicKeys>> => UNCHANGED Dir
  BY DEF Dir, Issues
<1>2. CASE UNCHANGED vars
  BY <1>1, <1>2 DEF vars, kgcState
<1>3. ASSUME NEW e \in Entities, Listen(e) \/ sendRegRqst(e) \/ Stop(e)
      PROVE  UNCHANGED Dir
  BY <1>1, <1>3 DEF Listen, sendRegRqst, Stop, kgcState
<1>4. ASSUME NEW w \in wire, Receive(w) \/ ReadShort(w) \/ Duplicate(w)
      PROVE  UNCHANGED Dir
  BY <1>1, <1>4 DEF Receive, ReadShort, Handle, Duplicate, kgcState
<1>5. ASSUME NEW t \in threads, KGCStep(t)
      PROVE  Directory!DirectoryNext \/ UNCHANGED Dir
  <2>1. CASE StoreSession(t) \/ CompareUpload(t)
    BY <1>1, <2>1 DEF StoreSession, CompareUpload, kgcState
  <2>. QED BY <1>5, <2>1, RespondIssues, PublishEnters DEF KGCStep
<1>6. ASSUME NEW t \in threads, EntityStep(t) PROVE UNCHANGED Dir
  BY <1>1, <1>6 DEF EntityStep, SetY, VerifyResp, SetS, SetBigS, Report,
                    sendUpload, kgcState
<1>. QED BY <1>2, <1>3, <1>4, <1>5, <1>6 DEF Next, Work

\* The KGC and the entities, with any number of registrations under way and
\* messages repeated and lost, keep the promise of KeyDirectory: what handlers
\* compare and publish in two steps acts as one entry of an issued key
\* (kgc.go:405-419).
THEOREM ImplementsDirectory == ASSUME MaxCuts = 0 PROVE Spec => KeepsDirectory
<1>1. Init => Directory!DirectoryInit
  BY DEF Init, Directory!DirectoryInit
<1>2. RegInv /\ [Next]_vars => [Directory!DirectoryNext]_Dir
  BY StepIsDirectory
<1>. QED BY <1>1, <1>2, RegInvariant, PTL
         DEF Spec, KeepsDirectory, Directory!DirectorySpec, Directory!dirVars,
             Dir, Issues

----------------------------------------------------------------------------
(* The keys of an entity, with one entity as main starts it.               *)

Late(t) == t.at \in Entities /\ t.pc \in {"report", "upload"}

\* Whatever the fields hold was computed from issued keys.
PairInv ==
    /\ \A e \in Entities :
          /\ y[e] # Nil => y[e] \in issued
          /\ s[e] # Nil => s[e].x = e /\ s[e].y \in issued
          /\ S[e] # Nil => \E v \in issued : S[e] = Pub([x |-> e, y |-> v])
          /\ \A p \in printed[e] : /\ p.y \in issued
                                   /\ \E v \in issued : p.Y = Pub(v)
          /\ printed[e] # {} => Y[e] # Nil /\ s[e] # Nil /\ S[e] # Nil
    /\ \A t \in threads : Late(t) => S[t.at] # Nil

\* Steps that write none of the key fields and bring no handler to the report.
LEMMA PairStays ==
    ASSUME PairInv, issued \subseteq issued', UNCHANGED <<y, Y, s, S, printed>>,
           \A u \in threads' :
               Late(u) => \E t \in threads : Late(t) /\ t.at = u.at
    PROVE  PairInv'
<1>1. \A e \in Entities :
          /\ y[e] # Nil => y[e] \in issued'
          /\ s[e] # Nil => s[e].x = e /\ s[e].y \in issued'
          /\ S[e] # Nil => \E v \in issued' : S[e] = Pub([x |-> e, y |-> v])
          /\ \A p \in printed[e] : /\ p.y \in issued'
                                   /\ \E v \in issued' : p.Y = Pub(v)
          /\ printed[e] # {} => Y[e] # Nil /\ s[e] # Nil /\ S[e] # Nil
  BY DEF PairInv
<1>2. \A u \in threads' : Late(u) => S[u.at] # Nil
  BY DEF PairInv
<1>. QED BY <1>1, <1>2 DEF PairInv, Late

LEMMA SetYPair ==
    ASSUME RegInv, PairInv, NEW t \in threads, SetY(t) PROVE PairInv'
<1>1. t.msg.type = "REG_RESP" /\ t.at \in Entities /\ t.msg.y \in issued
  BY ResponseThread
     DEF RegInv, TypeInv, TypeOK, SetY, At, MsgInv, ResponseInv
<1>2. UNCHANGED <<issued, s, S, Y, printed>>
  BY DEF SetY, kgcState
<1>3. \A u \in threads' : Late(u) => u \in threads
  BY DEF SetY, Move, Finish, Late, Thread
<1>4. \A e \in Entities : y'[e] # Nil => y'[e] \in issued
  <2>1. y' = y \/ y' = [y EXCEPT ![t.at] = t.msg.y]
    BY DEF SetY
  <2>. QED BY <1>1, <2>1 DEF PairInv, RegInv, TypeInv, TypeOK
<1>. QED BY <1>2, <1>3, <1>4 DEF PairInv, Late

LEMMA VerifyRespPair ==
    ASSUME RegInv, PairInv, NEW t \in threads, VerifyResp(t) PROVE PairInv'
<1>1. t.msg.type = "REG_RESP" /\ t.at \in Entities /\ t.msg.y \in Ys
  BY ResponseThread DEF RegInv, TypeInv, TypeOK, VerifyResp, At
<1>2. UNCHANGED <<issued, y, s, S, printed>>
  BY DEF VerifyResp, kgcState
<1>3. \A u \in threads' : Late(u) => u \in threads
  BY DEF VerifyResp, Move, Finish, Late, Thread
<1>4. \A e \in Entities : Y[e] # Nil => Y'[e] # Nil
  <2>1. Pub(t.msg.y) # Nil
    BY <1>1, RegistrationConstants DEF Pub, YPoints
  <2>2. Y' = Y \/ Y' = [Y EXCEPT ![t.at] = Pub(t.msg.y)]
    BY DEF VerifyResp
  <2>. QED BY <1>1, <2>1, <2>2 DEF RegInv, TypeInv, TypeOK
<1>. QED BY <1>2, <1>3, <1>4 DEF PairInv, Late

LEMMA SetSPair ==
    ASSUME RegInv, PairInv, NEW t \in threads, SetS(t) PROVE PairInv'
<1>1. t.msg.type = "REG_RESP" /\ t.pc = "setS" /\ Held(t) /\ t.at \in Entities
  BY ResponseThread DEF RegInv, TypeInv, TypeOK, SetS, At
<1>2. UNCHANGED <<issued, y, Y, S, printed>>
  BY DEF SetS, kgcState
<1>3. \A u \in threads' : Late(u) => u \in threads
  BY DEF SetS, Move, Late, Thread
<1>4. y[t.at] \in issued /\ y[t.at] \in Ys
  BY <1>1, IssuedTypes DEF Held, PairInv, RegInv, TypeInv
<1>5. [x |-> t.at, y |-> y[t.at]] # Nil
  BY <1>1, <1>4, RegistrationConstants DEF Secrets
<1>6. \A e \in Entities :
          /\ s'[e] # Nil => s'[e].x = e /\ s'[e].y \in issued
          /\ s[e] # Nil => s'[e] # Nil
  <2>1. \A e \in Entities : s'[e] = IF e = t.at
                                    THEN [x |-> t.at, y |-> y[t.at]] ELSE s[e]
    BY DEF SetS, RegInv, TypeInv, TypeOK
  <2>. QED BY <1>4, <1>5, <2>1 DEF PairInv
<1>. QED BY <1>2, <1>3, <1>6 DEF PairInv, Late

LEMMA SetBigSPair ==
    ASSUME RegInv, PairInv, NEW t \in threads, SetBigS(t) PROVE PairInv'
<1>1. t.msg.type = "REG_RESP" /\ t.pc = "setBigS" /\ Held(t)
      /\ t.at \in Entities
  BY ResponseThread DEF RegInv, TypeInv, TypeOK, SetBigS, At
<1>2. UNCHANGED <<issued, y, Y, s, printed>>
  BY DEF SetBigS, kgcState
<1>3. PICK v \in issued : s[t.at] = [x |-> t.at, y |-> v]
  <2>1. s[t.at] \in Secrets
    BY <1>1 DEF Held, RegInv, TypeInv, TypeOK, OrNil
  <2>2. s[t.at].x = t.at /\ s[t.at].y \in issued
    BY <1>1 DEF Held, PairInv
  <2>. QED BY <2>1, <2>2 DEF Secrets
<1>4. Pub(s[t.at]) # Nil
  <2>1. s[t.at] \in Secrets
    BY <1>1 DEF Held, RegInv, TypeInv, TypeOK, OrNil
  <2>2. Pub(s[t.at]) \in [of : Secrets]
    BY <2>1 DEF Pub
  <2>. QED BY <2>2, RegistrationConstants
<1>5. \A e \in Entities :
          /\ S'[e] # Nil => \E x \in issued : S'[e] = Pub([x |-> e, y |-> x])
          /\ S[e] # Nil => S'[e] # Nil
  <2>1. \A e \in Entities : S'[e] = IF e = t.at THEN Pub(s[t.at]) ELSE S[e]
    BY DEF SetBigS, RegInv, TypeInv, TypeOK
  <2>2. ASSUME NEW e \in Entities, S'[e] # Nil
        PROVE  \E x \in issued : S'[e] = Pub([x |-> e, y |-> x])
    <3>1. CASE e = t.at
      BY <1>3, <2>1, <3>1
    <3>2. CASE e # t.at
      BY <2>1, <2>2, <3>2 DEF PairInv
    <3>. QED BY <3>1, <3>2
  <2>3. \A e \in Entities : S[e] # Nil => S'[e] # Nil
    BY <1>4, <2>1
  <2>. QED BY <2>2, <2>3
<1>6. \A u \in threads' : Late(u) => u \in threads \/ u.at = t.at
  BY DEF SetBigS, Move, Late, Thread
<1>7. S'[t.at] # Nil
  BY <1>1, <1>4 DEF SetBigS, RegInv, TypeInv, TypeOK
<1>. QED BY <1>2, <1>5, <1>6, <1>7 DEF PairInv, Late

LEMMA ReportPair ==
    ASSUME RegInv, PairInv, NEW t \in threads, Report(t) PROVE PairInv'
<1>1. t.msg.type = "REG_RESP" /\ t.pc = "report" /\ Held(t) /\ t.at \in Entities
  BY ResponseThread DEF RegInv, TypeInv, TypeOK, Report, At
<1>2. UNCHANGED <<issued, y, Y, s, S>>
  BY DEF Report, kgcState
<1>3. y[t.at] \in issued /\ Y[t.at] # Nil /\ s[t.at] # Nil /\ S[t.at] # Nil
  BY <1>1 DEF Held, Late, PairInv
<1>4. \E v \in issued : Y[t.at] = Pub(v)
  BY <1>1, <1>3 DEF RegInv, KeysInv, OwnKey
<1>5. \A e \in Entities :
          /\ \A p \in printed'[e] : /\ p.y \in issued
                                    /\ \E v \in issued : p.Y = Pub(v)
          /\ printed'[e] # {} => Y[e] # Nil /\ s[e] # Nil /\ S[e] # Nil
  <2>1. \A e \in Entities : printed'[e] =
            IF e = t.at
            THEN printed[e] \cup {[UA |-> ua[e], y |-> y[e], X |-> X[e], Y |-> Y[e]]}
            ELSE printed[e]
    BY DEF Report, RegInv, TypeInv, TypeOK
  <2>2. ASSUME NEW e \in Entities, NEW p \in printed'[e]
        PROVE  p.y \in issued /\ \E v \in issued : p.Y = Pub(v)
    <3>1. CASE p \in printed[e]
      BY <3>1 DEF PairInv
    <3>2. CASE p \notin printed[e]
      <4>1. e = t.at
        BY <2>1, <2>2, <3>2
      <4>2. p = [UA |-> ua[e], y |-> y[e], X |-> X[e], Y |-> Y[e]]
        BY <2>1, <2>2, <3>2, <4>1, Zenon
      <4>3. p.y = y[e] /\ p.Y = Y[e]
        BY <4>2
      <4>. QED BY <1>3, <1>4, <4>1, <4>3
    <3>. QED BY <3>1, <3>2
  <2>3. \A e \in Entities :
           printed'[e] # {} => Y[e] # Nil /\ s[e] # Nil /\ S[e] # Nil
    BY <1>3, <2>1 DEF PairInv
  <2>. QED BY <2>2, <2>3
<1>6. \A u \in threads' : Late(u) => u \in threads \/ u.at = t.at
  BY DEF Report, Move, Late, Thread
<1>. QED BY <1>2, <1>3, <1>5, <1>6 DEF PairInv, Late

LEMMA PairStart == Init => PairInv
BY DEF Init, PairInv

LEMMA PairStep == RegInv /\ PairInv /\ [Next]_vars => PairInv'
<1>. SUFFICES ASSUME RegInv, PairInv, [Next]_vars PROVE PairInv'
  OBVIOUS
<1>1. CASE UNCHANGED vars
  BY <1>1, PairStays DEF vars, kgcState, entityState
<1>2. ASSUME NEW e \in Entities, Listen(e) \/ sendRegRqst(e) \/ Stop(e)
      PROVE  PairInv'
  BY <1>2, PairStays DEF Listen, sendRegRqst, Stop, kgcState
<1>3. ASSUME NEW w \in wire, NEW m, Handle(w, m),
             m.type \in {"REG_RQST", "REG_RESP", "UPLOAD"}
      PROVE  PairInv'
  <2>1. FirstPc[m.type] \notin {"report", "upload"}
    BY <1>3 DEF FirstPc
  <2>2. \A u \in threads' : Late(u) => u \in threads
    BY <1>3, <2>1 DEF Handle, Late, Thread
  <2>. QED BY <1>3, <2>2, PairStays DEF Handle, kgcState, entityState
<1>4. ASSUME NEW w \in wire, Receive(w) \/ ReadShort(w) \/ Duplicate(w)
      PROVE  PairInv'
  <2>1. PacketOK(w)
    BY DEF RegInv, TypeInv, TypeOK
  <2>2. w.msg.type \in {"REG_RQST", "REG_RESP", "UPLOAD"}
        /\ Cut(w.msg).type = w.msg.type
    BY <2>1, PacketKinds, CutOK DEF Requests, Responses, Uploads
  <2>3. CASE Duplicate(w)
    BY <2>3, PairStays DEF Duplicate, kgcState, entityState
  <2>. QED BY <1>3, <1>4, <2>2, <2>3 DEF Receive, ReadShort
<1>5. ASSUME NEW t \in threads, KGCStep(t) PROVE PairInv'
  <2>1. t.at = "KGC"
    BY <1>5, RequestThread, UploadThread
       DEF RegInv, TypeInv, TypeOK, KGCStep, StoreSession, Respond,
           CompareUpload, Publish, At
  <2>2. \A u \in threads' : u \in threads \/ u.at = "KGC"
    BY <1>5, <2>1 DEF KGCStep, StoreSession, Respond, CompareUpload, Publish,
                      Move, Finish, Thread
  <2>3. \A u \in threads' : Late(u) => u \in threads
    BY <2>2, RegistrationConstants DEF Late
  <2>4. issued \subseteq issued' /\ UNCHANGED entityState
    BY <1>5 DEF KGCStep, StoreSession, Respond, CompareUpload, Publish, kgcState
  <2>. QED BY <2>3, <2>4, PairStays DEF entityState
<1>6. ASSUME NEW t \in threads, sendUpload(t) PROVE PairInv'
  BY <1>6, PairStays DEF sendUpload, Finish, kgcState, entityState
<1>7. ASSUME NEW t \in threads, EntityStep(t) PROVE PairInv'
  BY <1>6, <1>7, SetYPair, VerifyRespPair, SetSPair, SetBigSPair, ReportPair
     DEF EntityStep
<1>. QED BY <1>1, <1>2, <1>4, <1>5, <1>7 DEF Next, Work

LEMMA PairInvariant == Spec => [](RegInv /\ PairInv)
<1>1. Init => PairInv
  BY PairStart
<1>. QED BY <1>1, RegInvariant, PairStep, PTL DEF Spec

\* One entity is issued one key.
LEMMA OneKey ==
    ASSUME \A d, e \in Entities : d = e, RegInv
    PROVE  \A v, w \in issued : v = w
BY IssuedTypes DEF RegInv, TypeInv, IssuedInv

\* With one entity, whatever is repeated, lost or cut, the keys it prints as
\* registered are a pair (entity.go:214).
THEOREM PrintedPair ==
    ASSUME \A d, e \in Entities : d = e PROVE Spec => []PrintedKeysFit
<1>1. RegInv /\ PairInv => PrintedKeysFit
  BY OneKey DEF PairInv, PrintedKeysFit
<1>. QED BY <1>1, PairInvariant, PTL

\* ... and its private key belongs to the public keys it uploads
\* (entity.go:203).
THEOREM SecretPair ==
    ASSUME \A d, e \in Entities : d = e PROVE Spec => []SecretKeyFits
<1>1. ASSUME RegInv, PairInv, NEW e \in Entities, printed[e] # {}
      PROVE  /\ s[e] = [x |-> e, y |-> s[e].y] /\ Pub(s[e].y) = Y[e]
             /\ S[e] = Pub(s[e])
  <2>1. s[e] \in Secrets /\ s[e].x = e /\ s[e].y \in issued
    BY <1>1 DEF PairInv, RegInv, TypeInv, TypeOK, OrNil
  <2>2. s[e] = [x |-> e, y |-> s[e].y]
    BY <2>1 DEF Secrets
  <2>3. Pub(s[e].y) = Y[e]
    <3>1. PICK v \in issued : Pub(v) = Y[e]
      BY <1>1 DEF PairInv, RegInv, KeysInv, OwnKey
    <3>. QED BY <1>1, <2>1, <3>1, OneKey
  <2>4. S[e] = Pub(s[e])
    <3>1. PICK v \in issued : S[e] = Pub([x |-> e, y |-> v])
      BY <1>1 DEF PairInv
    <3>. QED BY <1>1, <2>1, <2>2, <3>1, OneKey
  <2>. QED BY <2>2, <2>3, <2>4
<1>2. RegInv /\ PairInv => SecretKeyFits
  BY <1>1 DEF SecretKeyFits
<1>. QED BY <1>2, PairInvariant, PTL

----------------------------------------------------------------------------
(* The end of a registration, with one entity as main starts it.           *)

\* No registration is left half-way: when nothing is under way any more and no
\* dial or read failed, each entity that asked has its keys and the KGC has
\* published them, however messages were repeated (kgc.go:414).
RegisteredAtRest ==
    Quiescent /\ dropped = 0 /\ cuts = 0 =>
        \A e \in Entities : status[e] = "up" /\ X[e] # Nil => Entered(e)

Single == \A d, e \in Entities : d = e

IsResponse(t) == t.msg.type = "REG_RESP"

\* The nonce of the upload that follows an answer.
ForUpload(n) == [n EXCEPT !.n = "N3"]

\* An answer has a nonce of its own kind and fits what was issued; an upload
\* has the nonce its entity marked, and was sent by one that has its key.
AnswerInv(m) ==
    /\ m.type = "REG_RESP" =>
          m.nonce.n = "N2" /\ (cuts = 0 => m.R = Pub(m.y.r))
    /\ m.type = "UPLOAD" =>
          /\ m.nonce.n = "N3"
          /\ \A e \in Entities : m.nonce \in usedNonces[e] /\ Y[e] # Nil

AnswersInv ==
    /\ \A w \in wire : AnswerInv(w.msg)
    /\ \A t \in threads : AnswerInv(t.msg)

\* A nonce is used after what it answers was sent: by the KGC after its
\* request or upload, by the entity after the KGC issued.
NoncesInv ==
    \A e \in Entities :
        /\ N1(e) \in usedNonces["KGC"] => X[e] # Nil
        /\ \A n \in usedNonces["KGC"] : n.n = "N3" => n \in usedNonces[e]
        /\ \A n \in usedNonces[e] : n.n = "N2" => issued # {}
        /\ \A n \in Nonces : n.n = "N2" /\ ForUpload(n) \in usedNonces[e]
                                => n \in usedNonces[e]

\* An answer that is handled was marked, its upload is not sent yet, and it
\* is handled once.
ResponsesOnce ==
    /\ \A t \in threads : IsResponse(t) =>
          \A e \in Entities : /\ t.msg.nonce \in usedNonces[e]
                              /\ ForUpload(t.msg.nonce) \notin usedNonces[e]
    /\ \A t, u \in threads :
          IsResponse(t) /\ IsResponse(u) /\ t.msg.nonce = u.msg.nonce => t = u

IssuedShape == \A v \in issued : v.H.R = Pub(v.r)

SupportInv == AnswersInv /\ NoncesInv /\ ResponsesOnce /\ IssuedShape

\* The registration is under way: a message that will not be taken for a
\* repeat, or a handler; and from the KGC's answer on the session is there.
Open(e) == session = [UA |-> ua[e], X |-> X[e]]
UnderWay(e) ==
    \/ \E w \in wire : ~Replayed(w) /\ (w.msg.type # "REG_RQST" => Open(e))
    \/ \E t \in threads : t.pc # "session" => Open(e)

Asked(e) == dropped = 0 /\ cuts = 0 /\ status[e] # "down" /\ X[e] # Nil
GoesOn == \A e \in Entities : Asked(e) => Entered(e) \/ UnderWay(e)

----------------------------------------------------------------------------
LEMMA SameUpload ==
    ASSUME NEW m \in Nonces, NEW n \in Nonces, m.n = n.n,
           ForUpload(m) = ForUpload(n)
    PROVE  m = n
<1>1. ForUpload(m).e = m.e /\ ForUpload(m).c = m.c
      /\ ForUpload(n).e = n.e /\ ForUpload(n).c = n.c
  BY DEF ForUpload, Nonces
<1> QED
  BY <1>1 DEF Nonces

LEMMA UploadNonce ==
    ASSUME NEW n \in Nonces
    PROVE  ForUpload(n) \in Nonces /\ ForUpload(n).n = "N3"
BY DEF ForUpload, Nonces

\* What a packet on its way to a node is.
LEMMA PacketTo ==
    ASSUME RegInv, SupportInv, NEW w \in wire
    PROVE  /\ PacketOK(w) /\ w.msg.nonce \in Nonces /\ w.to \in Nodes
           /\ w.to = "KGC" => /\ w.msg.nonce.n # "N2"
                              /\ w.msg.type \in {"REG_RQST", "UPLOAD"}
           /\ w.to # "KGC" => /\ w.to \in Entities
                              /\ w.msg.type = "REG_RESP"
                              /\ w.msg.nonce.n = "N2"
<1>1. PacketOK(w) /\ MsgInv(w.msg) /\ AnswerInv(w.msg)
  BY DEF RegInv, TypeInv, TypeOK, SupportInv, AnswersInv
<1>2. CASE w.to = "KGC" /\ w.msg \in Requests
  <2>1. w.msg.type = "REG_RQST" /\ w.msg.nonce \in Nonces
    BY <1>2 DEF Requests
  <2>2. w.msg.nonce.n = "N1"
    BY <1>1, <2>1 DEF MsgInv, RequestInv, N1
  <2> QED
    BY <1>1, <1>2, <2>1, <2>2 DEF Nodes
<1>3. CASE w.to = "KGC" /\ w.msg \in Uploads
  BY <1>1, <1>3 DEF Uploads, AnswerInv, Nodes
<1>4. CASE w.to \in AtPort6001 /\ w.msg \in Responses
  <2>1. w.to \in Entities /\ w.to # "KGC"
    BY <1>4, RegistrationConstants
  <2> QED
    BY <1>1, <1>4, <2>1 DEF Responses, AnswerInv, Nodes
<1> QED
  BY <1>1, <1>2, <1>3, <1>4 DEF PacketOK, ToKGC

\* While the request is handled, nothing is issued yet.
LEMMA NothingIssued ==
    ASSUME Single, RegInv, NEW t \in threads, IsRequest(t)
    PROVE  issued = {}
<1> SUFFICES ASSUME NEW v \in issued PROVE FALSE
  OBVIOUS
<1>1. v.r.e \in Entities
  BY IssuedTypes DEF RegInv, TypeInv
<1>2. t.msg.nonce.e \in Entities /\ t.msg.nonce = N1(t.msg.nonce.e)
  BY DEF RegInv, MsgInv, RequestInv, IsRequest
<1>3. t.msg.nonce # N1(v.r.e)
  BY DEF RegInv, IssuedInv
<1> QED
  BY <1>1, <1>2, <1>3 DEF Single

----------------------------------------------------------------------------
(* The support.                                                            *)

LEMMA AnswerStays ==
    ASSUME NEW m, AnswerInv(m), cuts # 0 => cuts' # 0,
           \A e \in Entities : /\ usedNonces[e] \subseteq usedNonces'[e]
                               /\ Y[e] # Nil => Y'[e] # Nil
    PROVE  AnswerInv(m)'
BY DEF AnswerInv

\* Handlers that move on, and those that end.
LEMMA OnceMoves ==
    ASSUME ResponsesOnce, UNCHANGED usedNonces,
           \/ threads' \subseteq threads
           \/ \E t \in threads : \E pc : Move(t, pc)
    PROVE  /\ ResponsesOnce'
           /\ \A u \in threads' : \E o \in threads : o.msg = u.msg
<1>1. CASE threads' \subseteq threads
  BY <1>1 DEF ResponsesOnce, IsResponse
<1>2. ASSUME NEW t \in threads, NEW pc, Move(t, pc)
      PROVE  /\ ResponsesOnce'
             /\ \A u \in threads' : \E o \in threads : o.msg = u.msg
  <2>1. PICK n : n = Thread(t.at, t.msg, t.copy, pc)
    OBVIOUS
  <2>2. n.msg = t.msg
    BY <2>1 DEF Thread
  <2>3. threads' = (threads \ {t}) \cup {n}
    BY <1>2, <2>1 DEF Move
  <2>4. \A u \in threads' : \E o \in threads : o.msg = u.msg
    BY <2>2, <2>3
  <2>5. \A u \in threads' : IsResponse(u) =>
            \A e \in Entities : /\ u.msg.nonce \in usedNonces'[e]
                                /\ ForUpload(u.msg.nonce) \notin usedNonces'[e]
    BY <2>4 DEF ResponsesOnce, IsResponse
  <2>6. ASSUME NEW a \in threads', NEW b \in threads',
               IsResponse(a), IsResponse(b), a.msg.nonce = b.msg.nonce
        PROVE  a = b
    BY <2>2, <2>3, <2>6 DEF ResponsesOnce, IsResponse
  <2> QED
    BY <2>4, <2>5, <2>6 DEF ResponsesOnce, IsResponse
<1> QED
  BY <1>1, <1>2

LEMMA SupportQuiet ==
    ASSUME SupportInv, UNCHANGED <<usedNonces, issued, X>>,
           cuts # 0 => cuts' # 0,
           \A e \in Entities : Y[e] # Nil => Y'[e] # Nil,
           \A w \in wire' : \E x \in wire : x.msg = w.msg,
           \/ threads' \subseteq threads
           \/ \E t \in threads : \E pc : Move(t, pc)
    PROVE  SupportInv'
<1>1. /\ ResponsesOnce'
      /\ \A u \in threads' : \E o \in threads : o.msg = u.msg
  BY OnceMoves DEF SupportInv
<1>2. \A m : AnswerInv(m) => AnswerInv(m)'
  BY AnswerStays
<1>3. AnswersInv'
  BY <1>1, <1>2 DEF SupportInv, AnswersInv
<1>4. NoncesInv' /\ IssuedShape'
  BY DEF SupportInv, NoncesInv, IssuedShape
<1> QED
  BY <1>1, <1>3, <1>4 DEF SupportInv

LEMMA SupportStart == Init => SupportInv
<1> SUFFICES ASSUME Init PROVE SupportInv
  OBVIOUS
<1>1. \A e \in Entities : usedNonces[e] = {} /\ usedNonces["KGC"] = {}
  BY DEF Init, Nodes
<1> QED
  BY <1>1 DEF Init, SupportInv, AnswersInv, NoncesInv, ResponsesOnce,
              IssuedShape

LEMMA HandleSupport ==
    ASSUME Single, RegInv, SupportInv, NEW w \in wire, NEW m, Handle(w, m),
           cuts # 0 => cuts' # 0,
           m.type = w.msg.type, m.nonce = w.msg.nonce, AnswerInv(m)'
    PROVE  SupportInv'
<1>1. /\ UNCHANGED <<dropped, kgcState, entityState>>
      /\ wire' = wire \ {w}
  BY DEF Handle
<1>2. UNCHANGED <<issued, X, Y>>
  BY <1>1 DEF kgcState, entityState
<1>3. CASE Replayed(w)
  <2>1. UNCHANGED <<threads, usedNonces>>
    BY <1>3 DEF Handle
  <2> QED
    BY <1>1, <1>2, <2>1, SupportQuiet
<1>4. CASE ~Replayed(w)
  <2>1. PICK n : n = Thread(w.to, m, w.copy, FirstPc[m.type])
    OBVIOUS
  <2>2. n.msg = m
    BY <2>1 DEF Thread
  <2>3. threads' = threads \cup {n} /\ MarkUsed(w.to, m.nonce)
    BY <1>4, <2>1 DEF Handle
  <2>4. \A node \in Nodes : usedNonces'[node] =
            IF node = w.to THEN usedNonces[node] \cup {m.nonce}
                           ELSE usedNonces[node]
    BY <2>3 DEF MarkUsed, RegInv, TypeInv, TypeOK
  <2>5. "KGC" \in Nodes /\ \A e \in Entities : e \in Nodes /\ e # "KGC"
    BY RegistrationConstants DEF Nodes
  <2>6. MsgInv(w.msg) /\ AnswerInv(w.msg)
    BY DEF RegInv, SupportInv, AnswersInv
  <2>7. /\ m.nonce \in Nonces
        /\ w.to = "KGC" => /\ m.nonce.n # "N2"
                           /\ m.type \in {"REG_RQST", "UPLOAD"}
        /\ w.to # "KGC" => /\ w.to \in Entities /\ m.type = "REG_RESP"
                           /\ m.nonce.n = "N2"
    BY PacketTo
  <2>8. AnswersInv'
    <3>1. \A k : AnswerInv(k) => AnswerInv(k)'
      BY <1>2, <2>4, <2>5, AnswerStays
    <3> QED
      BY <1>1, <2>2, <2>3, <3>1 DEF SupportInv, AnswersInv
  <2>9. NoncesInv'
    <3> SUFFICES ASSUME NEW e \in Entities
                 PROVE  /\ N1(e) \in usedNonces'["KGC"] => X'[e] # Nil
                        /\ \A k \in usedNonces'["KGC"] :
                              k.n = "N3" => k \in usedNonces'[e]
                        /\ \A k \in usedNonces'[e] : k.n = "N2" => issued' # {}
                        /\ \A k \in Nonces :
                              k.n = "N2" /\ ForUpload(k) \in usedNonces'[e]
                                  => k \in usedNonces'[e]
      BY DEF NoncesInv
    <3>1. ASSUME N1(e) \in usedNonces'["KGC"] PROVE X'[e] # Nil
      <4>1. CASE N1(e) \in usedNonces["KGC"]
        BY <1>2, <4>1 DEF SupportInv, NoncesInv
      <4>2. CASE N1(e) \notin usedNonces["KGC"]
        <5>1. w.to = "KGC" /\ m.nonce = N1(e)
          BY <2>4, <2>5, <3>1, <4>2
        <5>2. m.nonce.n = "N1" /\ m.nonce.e = e
          BY <5>1 DEF N1
        <5>3. w.msg.type = "REG_RQST"
          BY <2>6, <2>7, <5>1, <5>2 DEF AnswerInv
        <5>4. X[e] = Pub(e)
          BY <2>6, <5>2, <5>3 DEF MsgInv, RequestInv
        <5> QED
          BY <1>2, <5>4, PubNotNil
      <4> QED
        BY <4>1, <4>2
    <3>2. ASSUME NEW k \in usedNonces'["KGC"], k.n = "N3"
          PROVE  k \in usedNonces'[e]
      <4>1. CASE k \in usedNonces["KGC"]
        BY <2>4, <2>5, <3>2, <4>1 DEF SupportInv, NoncesInv
      <4>2. CASE k \notin usedNonces["KGC"]
        <5>1. w.to = "KGC" /\ m.nonce = k
          BY <2>4, <2>5, <3>2, <4>2
        <5>2. w.msg.type = "UPLOAD"
          BY <2>6, <2>7, <3>2, <5>1 DEF MsgInv, RequestInv, N1
        <5> QED
          BY <2>4, <2>5, <2>6, <5>1, <5>2 DEF AnswerInv
      <4> QED
        BY <4>1, <4>2
    <3>3. ASSUME NEW k \in usedNonces'[e], k.n = "N2" PROVE issued' # {}
      <4>1. CASE k \in usedNonces[e]
        BY <1>2, <3>3, <4>1 DEF SupportInv, NoncesInv
      <4>2. CASE k \notin usedNonces[e]
        <5>1. w.to = e /\ m.nonce = k
          BY <2>4, <2>5, <3>3, <4>2
        <5> QED
          BY <1>2, <2>5, <2>6, <2>7, <5>1 DEF MsgInv, ResponseInv
      <4> QED
        BY <4>1, <4>2
    <3>4. ASSUME NEW k \in Nonces, k.n = "N2", ForUpload(k) \in usedNonces'[e]
          PROVE  k \in usedNonces'[e]
      <4>1. ForUpload(k) # m.nonce \/ w.to # e
        BY <2>5, <2>7, UploadNonce
      <4>2. ForUpload(k) \in usedNonces[e]
        BY <2>4, <2>5, <3>4, <4>1
      <4>3. k \in usedNonces[e]
        BY <3>4, <4>2 DEF SupportInv, NoncesInv
      <4> QED
        BY <2>4, <2>5, <4>3
    <3> QED
      BY <3>1, <3>2, <3>3, <3>4
  <2>10. ASSUME IsResponse(n), NEW e \in Entities
         PROVE  /\ m.nonce \in usedNonces'[e] /\ m.nonce \notin usedNonces[e]
                /\ ForUpload(m.nonce) \notin usedNonces'[e]
    <3>1. w.to = e /\ m.nonce.n = "N2"
      BY <2>2, <2>7, <2>10 DEF IsResponse, Single
    <3>2. m.nonce \notin usedNonces[e]
      BY <1>4, <3>1 DEF Replayed
    <3>3. ForUpload(m.nonce) \notin usedNonces[e]
      BY <2>7, <3>1, <3>2 DEF SupportInv, NoncesInv
    <3>4. ForUpload(m.nonce) # m.nonce
      BY <2>7, <3>1, UploadNonce
    <3> QED
      BY <2>4, <2>5, <3>1, <3>2, <3>3, <3>4
  <2>11. ASSUME NEW t \in threads, IsResponse(t), NEW e \in Entities
         PROVE  /\ t.msg.nonce \in usedNonces[e]
                /\ t.msg.nonce \in usedNonces'[e]
                /\ ForUpload(t.msg.nonce) \notin usedNonces'[e]
    <3>1. t.msg.nonce \in usedNonces[e]
          /\ ForUpload(t.msg.nonce) \notin usedNonces[e]
      BY <2>11 DEF SupportInv, ResponsesOnce
    <3>2. t.msg.nonce \in Nonces
      BY <2>11, ResponseThread DEF RegInv, TypeInv, TypeOK, IsResponse
    <3>3. ForUpload(t.msg.nonce) # m.nonce \/ w.to # e
      BY <2>5, <2>7, <3>2, UploadNonce
    <3> QED
      BY <2>4, <2>5, <3>1, <3>3
  <2>12. ASSUME NEW t \in threads, IsResponse(t), IsResponse(n)
         PROVE  t.msg.nonce # n.msg.nonce
    <3>1. w.to \in Entities
      BY <2>2, <2>7, <2>12 DEF IsResponse
    <3> QED
      BY <2>2, <2>10, <2>11, <2>12, <3>1
  <2>13. ResponsesOnce'
    <3>1. \A t \in threads' : IsResponse(t) =>
              \A e \in Entities : /\ t.msg.nonce \in usedNonces'[e]
                                  /\ ForUpload(t.msg.nonce) \notin usedNonces'[e]
      BY <2>2, <2>3, <2>10, <2>11
    <3>2. \A t, u \in threads' :
              IsResponse(t) /\ IsResponse(u) /\ t.msg.nonce = u.msg.nonce
                  => t = u
      BY <2>3, <2>12 DEF SupportInv, ResponsesOnce
    <3> QED
      BY <3>1, <3>2 DEF ResponsesOnce, IsResponse
  <2>14. IssuedShape'
    BY <1>2 DEF SupportInv, IssuedShape
  <2> QED
    BY <2>8, <2>9, <2>13, <2>14 DEF SupportInv
<1> QED
  BY <1>3, <1>4

LEMMA ReceiveSupport ==
    ASSUME Single, RegInv, SupportInv, NEW w \in wire,
           Receive(w) \/ ReadShort(w)
    PROVE  SupportInv'
<1>1. PICK m : /\ Handle(w, m)
               /\ \/ m = w.msg /\ UNCHANGED cuts
                  \/ m = Cut(w.msg) /\ cuts' = cuts + 1
  BY DEF Receive, ReadShort
<1>2. PacketOK(w) /\ AnswerInv(w.msg) /\ cuts \in Nat
  BY DEF RegInv, TypeInv, TypeOK, SupportInv, AnswersInv
<1>3. m.type = w.msg.type /\ m.nonce = w.msg.nonce
  BY <1>1, <1>2, PacketKinds, CutOK
<1>4. cuts # 0 => cuts' # 0
  BY <1>1, <1>2
<1>5. m = w.msg \/ cuts' # 0
  BY <1>1, <1>2
<1>6. /\ w.to \in Nodes /\ UNCHANGED Y
      /\ UNCHANGED usedNonces \/ MarkUsed(w.to, m.nonce)
  BY <1>1, PacketTo DEF Handle, entityState
<1>7. \A e \in Entities : usedNonces[e] \subseteq usedNonces'[e]
  BY <1>6 DEF MarkUsed, RegInv, TypeInv, TypeOK, Nodes
<1>8. AnswerInv(w.msg)'
  BY <1>2, <1>4, <1>6, <1>7, AnswerStays
<1>9. AnswerInv(m)'
  BY <1>1, <1>3, <1>5, <1>8, <1>6, <1>2 DEF AnswerInv
<1> QED
  BY <1>1, <1>3, <1>4, <1>9, HandleSupport

LEMMA RespondSupport ==
    ASSUME RegInv, SupportInv, NEW t \in threads, Respond(t)
    PROVE  SupportInv'
<1>1. PICK r, yy, n2, m :
         /\ yy = YOf(r, H2(t.msg.UA, t.msg.X, Pub(r)))
         /\ n2 = [n |-> "N2", e |-> t.msg.nonce.e, c |-> t.copy]
         /\ m = [type |-> "REG_RESP", nonce |-> n2, y |-> yy, R |-> Pub(r)]
         /\ MarkUsed("KGC", n2) /\ issued' = issued \cup {yy}
         /\ Transmit(Listener, m) /\ threads' = threads \ {t}
         /\ UNCHANGED <<session, publicKeys, entityState>>
  BY DEF Respond, Finish
<1>2. yy.r = r /\ yy.H.R = Pub(r) /\ n2.n = "N2"
  BY <1>1 DEF YOf, H2
<1>3. m.type = "REG_RESP" /\ m.nonce = n2 /\ m.y = yy /\ m.R = Pub(r)
  BY <1>1
<1>4. /\ UNCHANGED <<X, Y>>
      /\ usedNonces'["KGC"] = usedNonces["KGC"] \cup {n2}
      /\ \A e \in Entities : usedNonces'[e] = usedNonces[e]
  BY <1>1, RegistrationConstants
     DEF MarkUsed, RegInv, TypeInv, TypeOK, Nodes, entityState
<1>5. UNCHANGED cuts /\ \A w \in wire' : w \in wire \/ w.msg = m
  BY <1>1 DEF Transmit, Packet
<1>6. AnswerInv(m)'
  BY <1>2, <1>3 DEF AnswerInv
<1>7. \A k : AnswerInv(k) => AnswerInv(k)'
  BY <1>4, <1>5, AnswerStays
<1>8. AnswersInv'
  BY <1>1, <1>5, <1>6, <1>7 DEF SupportInv, AnswersInv
<1>9. \A e \in Entities : N1(e) # n2
  BY <1>2 DEF N1
<1>10. NoncesInv'
  BY <1>1, <1>2, <1>4, <1>9 DEF SupportInv, NoncesInv
<1>11. ResponsesOnce'
  BY <1>1, <1>4 DEF SupportInv, ResponsesOnce, IsResponse
<1>12. IssuedShape'
  BY <1>1, <1>2 DEF SupportInv, IssuedShape
<1> QED
  BY <1>8, <1>10, <1>11, <1>12 DEF SupportInv

LEMMA RequestSupport ==
    ASSUME RegInv, SupportInv, NEW e \in Entities, sendRegRqst(e)
    PROVE  SupportInv'
<1>1. PICK m : /\ m.type = "REG_RQST" /\ Transmit("KGC", m)
               /\ X' = [X EXCEPT ![e] = Pub(e)] /\ MarkUsed(e, N1(e))
               /\ UNCHANGED <<threads, kgcState, Y>>
  BY DEF sendRegRqst, N1
<1>2. /\ usedNonces'["KGC"] = usedNonces["KGC"]
      /\ \A f \in Entities :
            usedNonces'[f] = IF f = e THEN usedNonces[f] \cup {N1(e)}
                                      ELSE usedNonces[f]
  BY <1>1, RegistrationConstants
     DEF MarkUsed, RegInv, TypeInv, TypeOK, Nodes
<1>3. UNCHANGED <<issued, cuts>> /\ \A w \in wire' : w \in wire \/ w.msg = m
  BY <1>1 DEF Transmit, Packet, kgcState
<1>4. \A k : AnswerInv(k) => AnswerInv(k)'
  BY <1>1, <1>2, <1>3, AnswerStays
<1>5. AnswersInv'
  <2>1. AnswerInv(m)'
    BY <1>1 DEF AnswerInv
  <2> QED
    BY <1>1, <1>3, <1>4, <2>1 DEF SupportInv, AnswersInv
<1>6. N1(e).n = "N1"
  BY DEF N1
<1>7. \A n \in Nonces : ForUpload(n) # N1(e)
  BY <1>6, UploadNonce
<1>8. NoncesInv'
  <2>1. \A f \in Entities : X[f] # Nil => X'[f] # Nil
    BY <1>1, PubNotNil DEF RegInv, TypeInv, TypeOK
  <2> QED
    BY <1>2, <1>3, <1>6, <1>7, <2>1 DEF SupportInv, NoncesInv
<1>9. ResponsesOnce'
  <2>1. \A t \in threads : IsResponse(t) => t.msg.nonce \in Nonces
    BY ResponseThread DEF RegInv, TypeInv, TypeOK, IsResponse
  <2> QED
    BY <1>1, <1>2, <1>7, <2>1 DEF SupportInv, ResponsesOnce, IsResponse
<1>10. IssuedShape'
  BY <1>3 DEF SupportInv, IssuedShape
<1> QED
  BY <1>5, <1>8, <1>9, <1>10 DEF SupportInv

LEMMA UploadSupport ==
    ASSUME Single, RegInv, SupportInv, NEW t \in threads, sendUpload(t)
    PROVE  SupportInv'
<1>1. IsResponse(t) /\ t.pc = "upload" /\ t.msg.type = "REG_RESP"
  BY DEF sendUpload, At, IsResponse
<1>2. t.at \in Entities /\ Y[t.at] # Nil /\ t.msg.nonce \in Nonces
  BY <1>1, FieldsThere, ResponseThread, RegistrationConstants
     DEF RegInv, TypeInv, TypeOK
<1>3. t.msg.nonce.n = "N2"
  BY <1>1 DEF SupportInv, AnswersInv, AnswerInv
<1>4. PICK n3, m :
         /\ n3 = ForUpload(t.msg.nonce) /\ m.type = "UPLOAD" /\ m.nonce = n3
         /\ MarkUsed(t.at, n3) /\ Transmit("KGC", m) /\ threads' = threads \ {t}
         /\ UNCHANGED <<kgcState, entityState>>
  BY DEF sendUpload, Finish, ForUpload
<1>5. n3.n = "N3"
  BY <1>2, <1>4, UploadNonce
<1>6. /\ usedNonces'["KGC"] = usedNonces["KGC"]
      /\ \A e \in Entities : usedNonces'[e] = usedNonces[e] \cup {n3}
  BY <1>2, <1>4, RegistrationConstants
     DEF MarkUsed, RegInv, TypeInv, TypeOK, Nodes, Single
<1>7. /\ UNCHANGED <<issued, X, Y, cuts>>
      /\ \A w \in wire' : w \in wire \/ w.msg = m
  BY <1>4 DEF Transmit, Packet, kgcState, entityState
<1>8. \A k : AnswerInv(k) => AnswerInv(k)'
  BY <1>6, <1>7, AnswerStays
<1>9. AnswersInv'
  <2>1. \A e \in Entities : Y[e] # Nil
    BY <1>2 DEF Single
  <2>2. AnswerInv(m)'
    BY <1>4, <1>5, <1>6, <1>7, <2>1 DEF AnswerInv
  <2> QED
    BY <1>4, <1>7, <1>8, <2>2 DEF SupportInv, AnswersInv
<1>10. \A n \in Nonces : n.n = "N2" /\ ForUpload(n) = n3 => n = t.msg.nonce
  BY <1>2, <1>3, <1>4, SameUpload
<1>11. NoncesInv'
  <2>1. \A e \in Entities : t.msg.nonce \in usedNonces[e]
    BY <1>1 DEF SupportInv, ResponsesOnce
  <2>2. \A e \in Entities : N1(e) \in usedNonces'["KGC"] => X'[e] # Nil
    BY <1>6, <1>7 DEF SupportInv, NoncesInv
  <2>3. \A e \in Entities : \A n \in usedNonces'["KGC"] :
            n.n = "N3" => n \in usedNonces'[e]
    BY <1>6 DEF SupportInv, NoncesInv
  <2>4. \A e \in Entities : \A n \in usedNonces'[e] : n.n = "N2" => issued' # {}
    BY <1>5, <1>6, <1>7 DEF SupportInv, NoncesInv
  <2>5. \A e \in Entities : \A n \in Nonces :
            n.n = "N2" /\ ForUpload(n) \in usedNonces'[e] => n \in usedNonces'[e]
    BY <1>6, <1>10, <2>1 DEF SupportInv, NoncesInv
  <2> QED
    BY <2>2, <2>3, <2>4, <2>5 DEF NoncesInv
<1>12. ResponsesOnce'
  <2>1. ASSUME NEW u \in threads', IsResponse(u)
        PROVE  ForUpload(u.msg.nonce) # n3
    <3>1. u \in threads /\ u # t
      BY <1>4
    <3>2. u.msg.nonce # t.msg.nonce
      BY <1>1, <2>1, <3>1 DEF SupportInv, ResponsesOnce
    <3>3. u.msg.nonce \in Nonces /\ u.msg.nonce.n = "N2"
      BY <2>1, <3>1, ResponseThread
         DEF RegInv, TypeInv, TypeOK, SupportInv, AnswersInv, AnswerInv,
             IsResponse
    <3> QED
      BY <1>10, <3>2, <3>3
  <2> QED
    BY <1>4, <1>6, <2>1 DEF SupportInv, ResponsesOnce, IsResponse
<1>13. IssuedShape'
  BY <1>7 DEF SupportInv, IssuedShape
<1> QED
  BY <1>9, <1>11, <1>12, <1>13 DEF SupportInv

LEMMA QuietSupport ==
    ASSUME RegInv, SupportInv, NEW t \in threads,
           \/ StoreSession(t) \/ CompareUpload(t) \/ Publish(t)
           \/ SetY(t) \/ VerifyResp(t) \/ SetS(t) \/ SetBigS(t) \/ Report(t)
    PROVE  SupportInv'
<1>1. UNCHANGED <<link, usedNonces, issued, X>>
  BY DEF StoreSession, CompareUpload, Publish, SetY, VerifyResp, SetS, SetBigS,
         Report, kgcState, entityState
<1>2. threads' \subseteq threads \/ \E pc : Move(t, pc)
  BY DEF StoreSession, CompareUpload, Publish, SetY, VerifyResp, SetS, SetBigS,
         Report, Finish
<1>3. \A e \in Entities : Y[e] # Nil => Y'[e] # Nil
  <2>1. CASE VerifyResp(t)
    <3>1. t.at \in Entities /\ t.msg.y \in Ys
      BY <2>1, ResponseThread DEF RegInv, TypeInv, TypeOK, VerifyResp, At
    <3>2. Pub(t.msg.y) # Nil
      BY <3>1, RegistrationConstants DEF Pub, YPoints
    <3>3. Y' = Y \/ Y' = [Y EXCEPT ![t.at] = Pub(t.msg.y)]
      BY <2>1 DEF VerifyResp
    <3> QED
      BY <3>1, <3>2, <3>3 DEF RegInv, TypeInv, TypeOK
  <2>2. CASE ~VerifyResp(t)
    <3>1. UNCHANGED Y
      BY <2>2 DEF StoreSession, CompareUpload, Publish, SetY, SetS, SetBigS,
                  Report, entityState
    <3> QED
      BY <3>1
  <2> QED
    BY <2>1, <2>2
<1>4. /\ \A w \in wire' : \E x \in wire : x.msg = w.msg
      /\ cuts # 0 => cuts' # 0
  BY <1>1 DEF link
<1> QED
  BY <1>1, <1>2, <1>3, <1>4, SupportQuiet

LEMMA SupportStep ==
    ASSUME Single PROVE RegInv /\ SupportInv /\ [Next]_vars => SupportInv'
<1> SUFFICES ASSUME RegInv, SupportInv, [Next]_vars PROVE SupportInv'
  OBVIOUS
<1>1. CASE UNCHANGED vars
  BY <1>1, SupportQuiet DEF vars, link, kgcState, entityState
<1>2. ASSUME NEW e \in Entities, Listen(e) \/ Stop(e) PROVE SupportInv'
  <2>1. /\ UNCHANGED <<cuts, usedNonces, kgcState, X, Y>>
        /\ wire' \subseteq wire /\ threads' \subseteq threads
    BY <1>2 DEF Listen, Stop, link
  <2>2. \A w \in wire' : \E x \in wire : x.msg = w.msg
    BY <2>1
  <2> QED
    BY <2>1, <2>2, SupportQuiet DEF kgcState
<1>3. ASSUME NEW e \in Entities, sendRegRqst(e) PROVE SupportInv'
  BY <1>3, RequestSupport
<1>4. ASSUME NEW w \in wire, Receive(w) \/ ReadShort(w) PROVE SupportInv'
  BY <1>4, ReceiveSupport
<1>5. ASSUME NEW w \in wire, Duplicate(w) PROVE SupportInv'
  <2>1. UNCHANGED <<cuts, threads, usedNonces, kgcState, entityState>>
    BY <1>5 DEF Duplicate
  <2>2. \A x \in wire' : \E z \in wire : z.msg = x.msg
    BY <1>5 DEF Duplicate, Packet
  <2> QED
    BY <2>1, <2>2, SupportQuiet DEF kgcState, entityState
<1>6. ASSUME NEW t \in threads, KGCStep(t) PROVE SupportInv'
  BY <1>6, QuietSupport, RespondSupport DEF KGCStep
<1>7. ASSUME NEW t \in threads, EntityStep(t) PROVE SupportInv'
  BY <1>7, QuietSupport, UploadSupport DEF EntityStep
<1> QED
  BY <1>1, <1>2, <1>3, <1>4, <1>5, <1>6, <1>7 DEF Next, Work

----------------------------------------------------------------------------
(* The registration goes on until its key is in the directory.             *)

\* Whatever was issued is the key of the entity.
LEMMA TheKey ==
    ASSUME Single, RegInv, SupportInv, cuts = 0, NEW e \in Entities,
           NEW v \in issued
    PROVE  /\ v \in Ys /\ v.H = H2(ua[e], X[e], Pub(v.r)) /\ X[e] # Nil
           /\ v.H.UA = ua[e] /\ v.H.X = X[e]
           /\ Y[e] # Nil => Y[e] = Pub(v)
           /\ \A w \in issued : w = v
<1>1. v \in Ys /\ v.r.e = e
  BY IssuedTypes DEF RegInv, TypeInv, Single
<1>2. v.H.UA = ua[e] /\ v.H.X = X[e] /\ X[e] = Pub(e)
  BY <1>1 DEF RegInv, IssuedInv, IssuedFor
<1>3. v.H.R = Pub(v.r)
  BY DEF SupportInv, IssuedShape
<1>4. v.H = H2(ua[e], X[e], Pub(v.r))
  BY <1>1, <1>2, <1>3 DEF Ys, Hashes, H2
<1>5. \A w \in issued : w = v
  BY OneKey DEF Single
<1>6. Y[e] # Nil => Y[e] = Pub(v)
  BY <1>5 DEF RegInv, KeysInv, OwnKey
<1> QED
  BY <1>1, <1>2, <1>4, <1>5, <1>6, PubNotNil

\* A step that takes no message and no handler away without another in its
\* place, and writes neither the session nor the keys.
LEMMA StillOn ==
    ASSUME NEW e \in Entities, Entered(e) \/ UnderWay(e),
           Entered(e) => Entered(e)', Open(e) => Open(e)',
           \A w \in wire : ~Replayed(w) =>
               (\E x \in wire' : ~Replayed(x)' /\ x.msg.type = w.msg.type)
               \/ \E u \in threads' : u.pc # "session" => Open(e)',
           \A t \in threads : \E u \in threads' :
               u.pc # "session" => t.pc # "session"
    PROVE  Entered(e)' \/ UnderWay(e)'
<1>1. CASE Entered(e)
  BY <1>1
<1>2. ASSUME NEW w \in wire, ~Replayed(w),
             w.msg.type # "REG_RQST" => Open(e)
      PROVE  UnderWay(e)'
  BY <1>2 DEF UnderWay
<1>3. ASSUME NEW t \in threads, t.pc # "session" => Open(e)
      PROVE  UnderWay(e)'
  BY <1>3 DEF UnderWay
<1> QED
  BY <1>1, <1>2, <1>3 DEF UnderWay

\* A handler past the session moves on to its next program point.
LEMMA MovedOn ==
    ASSUME NEW e \in Entities, Entered(e) \/ UnderWay(e),
           Entered(e) => Entered(e)',
           UNCHANGED <<wire, usedNonces, session, ua, X>>,
           NEW t \in threads, t.pc # "session", NEW pc, Move(t, pc)
    PROVE  Entered(e)' \/ UnderWay(e)'
<1>1. Open(e) => Open(e)'
  BY DEF Open
<1>2. \A w \in wire : ~Replayed(w) => ~Replayed(w)'
  BY DEF Replayed
<1>3. \A o \in threads : \E u \in threads' : u.pc # "session" => o.pc # "session"
  <2>1. Thread(t.at, t.msg, t.copy, pc) \in threads'
    BY DEF Move
  <2>2. \A o \in threads : o = t \/ o \in threads'
    BY DEF Move
  <2> QED
    BY <2>1, <2>2
<1> QED
  BY <1>1, <1>2, <1>3, StillOn

LEMMA SetYGoesOn ==
    ASSUME RegInv, SupportInv, cuts = 0, NEW t \in threads, SetY(t),
           NEW e \in Entities, Entered(e) \/ UnderWay(e)
    PROVE  Entered(e)' \/ UnderWay(e)'
<1>1. t.msg.type = "REG_RESP" /\ t.pc = "setY" /\ t.msg.y \in Ys
  BY ResponseThread DEF SetY, At, RegInv, TypeInv, TypeOK
<1>2. t.msg.R = Pub(t.msg.y.r)
  BY <1>1 DEF SupportInv, AnswersInv, AnswerInv
<1>3. t.msg.R # Garbled
  <2>1. t.msg.R \in RPoints
    BY <1>1, <1>2 DEF Ys, Pub, RPoints
  <2> QED
    BY <2>1, RegistrationConstants
<1>4. Move(t, "verify") /\ UNCHANGED <<link, usedNonces, kgcState, ua, X, Y>>
  BY <1>3 DEF SetY
<1>5. Entered(e) => Entered(e)'
  BY <1>4 DEF Entered, kgcState
<1> QED
  BY <1>1, <1>4, <1>5, MovedOn DEF link, kgcState

LEMMA VerifyGoesOn ==
    ASSUME Single, RegInv, SupportInv, cuts = 0,
           NEW t \in threads, VerifyResp(t),
           NEW e \in Entities, Entered(e) \/ UnderWay(e)
    PROVE  Entered(e)' \/ UnderWay(e)'
<1>1. t.msg.type = "REG_RESP" /\ t.pc = "verify" /\ t.at = e
  BY ResponseThread DEF VerifyResp, At, RegInv, TypeInv, TypeOK, Single
<1>2. t.msg.R = Pub(t.msg.y.r) /\ t.msg.y \in issued
  BY <1>1 DEF RegInv, MsgInv, ResponseInv, SupportInv, AnswersInv, AnswerInv
<1>3. /\ t.msg.y.H = H2(ua[e], X[e], Pub(t.msg.y.r))
      /\ Y[e] # Nil => Y[e] = Pub(t.msg.y)
  BY <1>2, TheKey
<1>4. Fits(t.msg.y, t.msg.R, H2(ua[t.at], X[t.at], t.msg.R))
  BY <1>1, <1>2, <1>3 DEF Fits
<1>5. /\ Y' = [Y EXCEPT ![e] = Pub(t.msg.y)] /\ Move(t, "setS")
      /\ UNCHANGED <<link, usedNonces, kgcState, ua, X>>
  BY <1>1, <1>4 DEF VerifyResp
<1>6. Entered(e) => Entered(e)'
  <2>1. Entered(e) => UNCHANGED Y
    BY <1>3, <1>5 DEF Entered, RegInv, TypeInv, TypeOK
  <2> QED
    BY <1>5, <2>1 DEF Entered, kgcState
<1> QED
  BY <1>1, <1>5, <1>6, MovedOn DEF link, kgcState

LEMMA FieldGoesOn ==
    ASSUME NEW t \in threads, SetS(t) \/ SetBigS(t) \/ Report(t),
           NEW e \in Entities, Entered(e) \/ UnderWay(e)
    PROVE  Entered(e)' \/ UnderWay(e)'
<1>1. /\ t.pc # "session"
      /\ Move(t, "setBigS") \/ Move(t, "report") \/ Move(t, "upload")
      /\ UNCHANGED <<link, usedNonces, kgcState, ua, X, Y>>
  BY DEF SetS, SetBigS, Report, At
<1>2. Entered(e) => Entered(e)'
  BY <1>1 DEF Entered, kgcState
<1> QED
  BY <1>1, <1>2, MovedOn DEF link, kgcState

LEMMA StoreGoesOn ==
    ASSUME Single, RegInv, cuts = 0, NEW t \in threads, StoreSession(t),
           NEW e \in Entities
    PROVE  UnderWay(e)'
<1>1. t.msg.type = "REG_RQST" /\ t.msg.nonce.e = e
  BY DEF StoreSession, At, RegInv, MsgInv, RequestInv, Single
<1>2. t.msg.UA = ua[e] /\ t.msg.X = X[e]
  BY <1>1 DEF RegInv, MsgInv, RequestInv
<1>3. Open(e)'
  BY <1>2 DEF StoreSession, Open, entityState
<1>4. threads' # {}
  BY DEF StoreSession, Move
<1> QED
  BY <1>3, <1>4 DEF UnderWay

LEMMA RespondGoesOn ==
    ASSUME Single, RegInv, SupportInv, dropped' = dropped,
           NEW t \in threads, Respond(t),
           NEW e \in Entities, Entered(e) \/ UnderWay(e)
    PROVE  Entered(e)' \/ UnderWay(e)'
<1>1. PICK n2, m :
         /\ n2 = [n |-> "N2", e |-> t.msg.nonce.e, c |-> t.copy]
         /\ m.nonce = n2 /\ MarkUsed("KGC", n2)
         /\ Transmit(Listener, m) /\ threads' = threads \ {t}
         /\ UNCHANGED <<session, publicKeys, entityState>>
  BY DEF Respond, Finish
<1>2. /\ (Entered(e) => Entered(e)') /\ (Open(e) => Open(e)')
      /\ UNCHANGED <<ua, X>>
  BY <1>1 DEF Entered, Open, entityState
<1>3. PICK p : /\ p = Packet(m, Listener, 0, MaxCopies)
               /\ wire' = wire \cup {p} /\ Listener # Nil
  <2>1. dropped \in Nat
    BY DEF RegInv, TypeInv, TypeOK
  <2> QED
    BY <1>1, <2>1 DEF Transmit
<1>4. /\ usedNonces'["KGC"] = usedNonces["KGC"] \cup {n2}
      /\ \A f \in Entities : usedNonces'[f] = usedNonces[f]
  BY <1>1, RegistrationConstants
     DEF MarkUsed, RegInv, TypeInv, TypeOK, Nodes
<1>5. n2.n = "N2"
  BY <1>1
<1>6. \A w \in wire : ~Replayed(w) => ~Replayed(w)'
  BY <1>4, <1>5, PacketTo DEF Replayed
<1>7. ~Replayed(p)'
  <2>1. p.msg.nonce = n2 /\ p.to = Listener
    BY <1>1, <1>3 DEF Packet
  <2>2. Listener \in Entities
    BY <1>3, RegistrationConstants DEF Listener
  <2>3. IsRequest(t)
    BY DEF Respond, At, IsRequest
  <2>4. n2 \notin usedNonces[Listener]
    BY <1>5, <2>2, <2>3, NothingIssued DEF SupportInv, NoncesInv
  <2> QED
    BY <1>4, <2>1, <2>2, <2>4 DEF Replayed
<1>8. CASE Entered(e)
  BY <1>2, <1>8
<1>9. ASSUME NEW w \in wire, ~Replayed(w),
             w.msg.type # "REG_RQST" => Open(e)
      PROVE  UnderWay(e)'
  BY <1>2, <1>3, <1>6, <1>9 DEF UnderWay
<1>10. ASSUME NEW o \in threads, o.pc # "session" => Open(e)
       PROVE  UnderWay(e)'
  <2>1. CASE o # t
    BY <1>1, <1>2, <1>10, <2>1 DEF UnderWay
  <2>2. CASE o = t
    <3>1. Open(e)'
      BY <1>2, <1>10, <2>2 DEF Respond, At
    <3> QED
      BY <1>3, <1>7, <3>1 DEF UnderWay
  <2> QED
    BY <2>1, <2>2
<1> QED
  BY <1>8, <1>9, <1>10 DEF UnderWay

\* What an upload says, and that it agrees with an open session.
LEMMA UploadIs ==
    ASSUME Single, RegInv, SupportInv, cuts = 0,
           NEW t \in threads, t.msg.type = "UPLOAD", NEW e \in Entities
    PROVE  /\ t.msg.UA = ua[e] /\ t.msg.X = X[e] /\ t.msg.Y = Y[e]
           /\ Y[e] # Nil /\ ua[e] \in UAs /\ X[e] \in XPoints
<1>1. PICK v \in issued : /\ v.H.UA = t.msg.UA /\ v.H.X = t.msg.X
                          /\ Pub(v) = t.msg.Y
  BY DEF RegInv, MsgInv, UploadInv
<1>2. Y[e] # Nil
  BY DEF SupportInv, AnswersInv, AnswerInv
<1>3. v.H.UA = ua[e] /\ v.H.X = X[e] /\ Y[e] = Pub(v)
  BY <1>2, TheKey
<1>4. t.msg.UA \in UAs /\ t.msg.X \in XPoints
  BY UploadThread DEF RegInv, TypeInv, TypeOK
<1> QED
  BY <1>1, <1>2, <1>3, <1>4

LEMMA CompareGoesOn ==
    ASSUME Single, RegInv, SupportInv, cuts = 0,
           NEW t \in threads, CompareUpload(t),
           NEW e \in Entities, Entered(e) \/ UnderWay(e)
    PROVE  Entered(e)' \/ UnderWay(e)'
<1>1. /\ t.msg.type = "UPLOAD" /\ t.pc = "compare"
      /\ UNCHANGED <<link, usedNonces, kgcState, entityState>>
  BY DEF CompareUpload, At
<1>2. /\ t.msg.UA = ua[e] /\ t.msg.X = X[e]
      /\ ua[e] \in UAs /\ X[e] \in XPoints
  BY <1>1, UploadIs
<1>3. UNCHANGED <<wire, usedNonces, session, ua, X>> /\ (Entered(e) => Entered(e)')
  BY <1>1 DEF link, kgcState, entityState, Entered
<1>4. CASE Open(e)
  <2>1. session # Nil /\ session.UA = ua[e] /\ session.X = X[e]
    BY <1>2, <1>4, RegistrationConstants DEF Open
  <2>2. Move(t, "publish")
    BY <1>2, <2>1 DEF CompareUpload
  <2> QED
    BY <1>1, <1>3, <2>2, MovedOn
<1>5. CASE ~Open(e)
  <2>1. CASE Entered(e)
    BY <1>3, <2>1
  <2>2. ASSUME NEW w \in wire, ~Replayed(w), w.msg.type = "REG_RQST"
        PROVE  UnderWay(e)'
    <3>1. w \in wire' /\ ~Replayed(w)'
      BY <1>3, <2>2 DEF Replayed
    <3> QED
      BY <2>2, <3>1 DEF UnderWay
  <2>3. ASSUME NEW o \in threads, o.pc = "session" PROVE UnderWay(e)'
    <3>1. o \in threads'
      BY <1>1, <2>3 DEF CompareUpload, Move, Finish
    <3> QED
      BY <2>3, <3>1 DEF UnderWay
  <2> QED
    BY <1>5, <2>1, <2>2, <2>3 DEF UnderWay
<1> QED
  BY <1>4, <1>5

\* What is published is the key.
LEMMA PublishEnds ==
    ASSUME Single, RegInv, SupportInv, cuts = 0,
           NEW t \in threads, Publish(t), NEW e \in Entities
    PROVE  Entered(e)'
<1>1. t.msg.type = "UPLOAD"
  BY DEF Publish, At
<1>2. /\ t.msg.UA = ua[e] /\ t.msg.X = X[e] /\ t.msg.Y = Y[e]
      /\ Y[e] # Nil /\ ua[e] \in UAs
  BY <1>1, UploadIs
<1>3. publicKeys' = [publicKeys EXCEPT ![ua[e]] = [X |-> X[e], Y |-> Y[e]]]
      /\ UNCHANGED <<ua, X, Y>>
  BY <1>2 DEF Publish, entityState
<1>4. publicKeys'[ua[e]] = [X |-> X[e], Y |-> Y[e]]
  BY <1>2, <1>3 DEF RegInv, TypeInv, TypeOK
<1> QED
  BY <1>2, <1>3, <1>4 DEF Entered

LEMMA UploadGoesOn ==
    ASSUME Single, RegInv, SupportInv, dropped' = dropped,
           NEW t \in threads, sendUpload(t),
           NEW e \in Entities, Entered(e) \/ UnderWay(e)
    PROVE  Entered(e)' \/ UnderWay(e)'
<1>1. IsResponse(t) /\ t.pc = "upload" /\ t.msg.type = "REG_RESP"
  BY DEF sendUpload, At, IsResponse
<1>2. t.at = e /\ e # "KGC" /\ t.msg.nonce \in Nonces
  BY <1>1, ResponseThread, RegistrationConstants
     DEF RegInv, TypeInv, TypeOK, Single
<1>3. PICK n3, m :
         /\ n3 = ForUpload(t.msg.nonce) /\ m.nonce = n3
         /\ MarkUsed(e, n3) /\ Transmit("KGC", m) /\ threads' = threads \ {t}
         /\ UNCHANGED <<kgcState, entityState>>
  BY <1>2 DEF sendUpload, Finish, ForUpload
<1>4. (Entered(e) => Entered(e)') /\ (Open(e) => Open(e)')
  BY <1>3 DEF Entered, Open, kgcState, entityState
<1>5. PICK p : /\ p = Packet(m, "KGC", 0, MaxCopies)
               /\ wire' = wire \cup {p}
  <2>1. dropped \in Nat
    BY DEF RegInv, TypeInv, TypeOK
  <2> QED
    BY <1>3, <2>1 DEF Transmit
<1>6. /\ usedNonces'["KGC"] = usedNonces["KGC"]
      /\ \A f \in Entities : usedNonces'[f] = usedNonces[f] \cup {n3}
  BY <1>2, <1>3 DEF MarkUsed, RegInv, TypeInv, TypeOK, Nodes, Single
<1>7. n3.n = "N3"
  BY <1>2, <1>3, UploadNonce
<1>8. \A w \in wire : ~Replayed(w) => ~Replayed(w)'
  BY <1>6, <1>7, PacketTo DEF Replayed
<1>9. ~Replayed(p)'
  <2>1. p.msg.nonce = n3 /\ p.to = "KGC"
    BY <1>3, <1>5 DEF Packet
  <2>2. n3 \notin usedNonces[e]
    BY <1>1, <1>3 DEF SupportInv, ResponsesOnce
  <2>3. n3 \notin usedNonces["KGC"]
    BY <1>7, <2>2 DEF SupportInv, NoncesInv
  <2> QED
    BY <1>6, <2>1, <2>3 DEF Replayed
<1>10. CASE Entered(e)
  BY <1>4, <1>10
<1>11. ASSUME NEW w \in wire, ~Replayed(w),
              w.msg.type # "REG_RQST" => Open(e)
       PROVE  UnderWay(e)'
  BY <1>4, <1>5, <1>8, <1>11 DEF UnderWay
<1>12. ASSUME NEW o \in threads, o.pc # "session" => Open(e)
       PROVE  UnderWay(e)'
  <2>1. CASE o # t
    BY <1>3, <1>4, <1>12, <2>1 DEF UnderWay
  <2>2. CASE o = t
    <3>1. Open(e)'
      BY <1>1, <1>4, <1>12, <2>2
    <3> QED
      BY <1>5, <1>9, <3>1 DEF UnderWay
  <2> QED
    BY <2>1, <2>2
<1> QED
  BY <1>10, <1>11, <1>12 DEF UnderWay

LEMMA DuplicateGoesOn ==
    ASSUME NEW w \in wire, Duplicate(w),
           NEW e \in Entities, Entered(e) \/ UnderWay(e)
    PROVE  Entered(e)' \/ UnderWay(e)'
<1>1. UNCHANGED <<threads, usedNonces, kgcState, entityState>>
  BY DEF Duplicate
<1>2. (Entered(e) => Entered(e)') /\ (Open(e) => Open(e)')
  BY <1>1 DEF Entered, Open, kgcState, entityState
<1>3. PICK p : p = Packet(w.msg, w.to, w.copy, w.left - 1)
  OBVIOUS
<1>4. p.msg = w.msg /\ p.to = w.to
  BY <1>3 DEF Packet
<1>5. p \in wire' /\ \A x \in wire : x = w \/ x \in wire'
  BY <1>3 DEF Duplicate
<1>6. \A x \in wire : ~Replayed(x) =>
          \E z \in wire' : ~Replayed(z)' /\ z.msg.type = x.msg.type
  BY <1>1, <1>4, <1>5 DEF Replayed
<1> QED
  BY <1>1, <1>2, <1>6, StillOn

\* A message that is not taken for a repeat starts its handler; any other
\* leaves what is under way.
LEMMA ReceiveGoesOn ==
    ASSUME RegInv, SupportInv, NEW w \in wire, Receive(w),
           NEW e \in Entities, Entered(e) \/ UnderWay(e)
    PROVE  Entered(e)' \/ UnderWay(e)'
<1>1. wire' = wire \ {w} /\ UNCHANGED <<kgcState, entityState>>
  BY DEF Receive, Handle
<1>2. (Entered(e) => Entered(e)') /\ (Open(e) => Open(e)')
  BY <1>1 DEF Entered, Open, kgcState, entityState
<1>3. CASE Replayed(w)
  <2>1. UNCHANGED <<threads, usedNonces>>
    BY <1>3 DEF Receive, Handle
  <2>2. \A x \in wire : ~Replayed(x) => x \in wire' /\ ~Replayed(x)'
    BY <1>1, <1>3, <2>1 DEF Replayed
  <2> QED
    BY <1>2, <2>1, <2>2, StillOn
<1>4. CASE ~Replayed(w)
  <2>1. PICK n : n = Thread(w.to, w.msg, w.copy, FirstPc[w.msg.type])
    OBVIOUS
  <2>2. threads' = threads \cup {n} /\ MarkUsed(w.to, w.msg.nonce)
    BY <1>4, <2>1 DEF Receive, Handle
  <2>3. \A node \in Nodes : usedNonces'[node] =
            IF node = w.to THEN usedNonces[node] \cup {w.msg.nonce}
                           ELSE usedNonces[node]
    BY <2>2 DEF MarkUsed, RegInv, TypeInv, TypeOK
  <2>4. n.pc = FirstPc[w.msg.type]
    BY <2>1 DEF Thread
  <2>5. w.msg.type = "REG_RQST" => n.pc = "session"
    BY <2>4 DEF FirstPc
  <2>6. ASSUME NEW x \in wire, ~Replayed(x),
               x.to # w.to \/ x.msg.nonce # w.msg.nonce
        PROVE  x \in wire' /\ ~Replayed(x)'
    <3>1. x.to \in Nodes /\ x # w
      BY <2>6, PacketTo
    <3> QED
      BY <1>1, <2>3, <2>6, <3>1 DEF Replayed
  <2>7. ASSUME NEW x \in wire, ~Replayed(x),
               x.to = w.to, x.msg.nonce = w.msg.nonce,
               x.msg.type # "REG_RQST" => Open(e)
        PROVE  UnderWay(e)'
    <3>1. w.msg.type # "REG_RQST" => Open(e)
      <4>1. CASE w.to = "KGC"
        <5>1. /\ MsgInv(x.msg) /\ AnswerInv(x.msg)
              /\ MsgInv(w.msg) /\ AnswerInv(w.msg)
          BY DEF RegInv, SupportInv, AnswersInv
        <5>2. w.msg.type \in {"REG_RQST", "UPLOAD"}
              /\ x.msg.type \in {"REG_RQST", "UPLOAD"}
          BY <2>7, <4>1, PacketTo
        <5>3. w.msg.type = "UPLOAD" => x.msg.type = "UPLOAD"
          BY <2>7, <5>1, <5>2 DEF MsgInv, RequestInv, AnswerInv, N1
        <5> QED
          BY <2>7, <5>2, <5>3
      <4>2. CASE w.to # "KGC"
        BY <2>7, <4>2, PacketTo
      <4> QED
        BY <4>1, <4>2
    <3>2. n \in threads' /\ (n.pc # "session" => Open(e)')
      BY <1>2, <2>2, <2>5, <3>1
    <3> QED
      BY <3>2 DEF UnderWay
  <2>8. CASE Entered(e)
    BY <1>2, <2>8
  <2>9. ASSUME NEW x \in wire, ~Replayed(x),
               x.msg.type # "REG_RQST" => Open(e)
        PROVE  UnderWay(e)'
    BY <1>2, <2>6, <2>7, <2>9 DEF UnderWay
  <2>10. ASSUME NEW t \in threads, t.pc # "session" => Open(e)
         PROVE  UnderWay(e)'
    BY <1>2, <2>2, <2>10 DEF UnderWay
  <2> QED
    BY <2>8, <2>9, <2>10 DEF UnderWay
<1> QED
  BY <1>3, <1>4

LEMMA RequestGoesOn ==
    ASSUME RegInv, SupportInv, dropped' = dropped,
           NEW e \in Entities, sendRegRqst(e)
    PROVE  UnderWay(e)'
<1>1. PICK m : /\ m.type = "REG_RQST" /\ m.nonce = N1(e)
               /\ Transmit("KGC", m) /\ X[e] = Nil /\ MarkUsed(e, N1(e))
  BY DEF sendRegRqst, N1
<1>2. PICK p : /\ p = Packet(m, "KGC", 0, MaxCopies)
               /\ wire' = wire \cup {p}
  <2>1. dropped \in Nat
    BY DEF RegInv, TypeInv, TypeOK
  <2> QED
    BY <1>1, <2>1 DEF Transmit
<1>3. p.msg = m /\ p.to = "KGC"
  BY <1>2 DEF Packet
<1>4. N1(e) \notin usedNonces["KGC"]
  BY <1>1 DEF SupportInv, NoncesInv
<1>5. usedNonces'["KGC"] = usedNonces["KGC"]
  BY <1>1, RegistrationConstants DEF MarkUsed, RegInv, TypeInv, TypeOK, Nodes
<1>6. ~Replayed(p)'
  BY <1>1, <1>3, <1>4, <1>5 DEF Replayed
<1> QED
  BY <1>1, <1>2, <1>3, <1>6 DEF UnderWay

\* Failures are counted, and an entity that is through stays so.
LEMMA AskedBefore ==
    ASSUME RegInv, [Next]_vars, NEW e \in Entities, Asked(e)'
    PROVE  /\ dropped' = dropped /\ dropped = 0 /\ cuts = 0
           /\ X[e] # Nil => Asked(e)
<1>1. dropped \in Nat /\ cuts \in Nat
  BY DEF RegInv, TypeInv, TypeOK
<1>2. /\ dropped' = dropped \/ dropped' = dropped + 1
      /\ cuts' = cuts \/ cuts' = cuts + 1
  BY DEF Next, Work, KGCStep, EntityStep, Listen, sendRegRqst, Receive,
         ReadShort, Handle, Duplicate, Stop, StoreSession, Respond,
         CompareUpload, Publish, SetY, VerifyResp, SetS, SetBigS, Report,
         sendUpload, Transmit, vars, link
<1>3. dropped' = dropped /\ dropped = 0 /\ cuts = 0
  BY <1>1, <1>2 DEF Asked
<1>4. status[e] = "down" => status'[e] = "down"
  <2>1. \/ UNCHANGED status
        \/ \E f \in Entities : Listen(f) \/ Stop(f)
    BY DEF Next, Work, KGCStep, EntityStep, sendRegRqst, Receive,
           ReadShort, Handle, Duplicate, StoreSession, Respond,
           CompareUpload, Publish, SetY, VerifyResp, SetS, SetBigS, Report,
           sendUpload, vars, entityState
  <2> QED
    BY <2>1 DEF Listen, Stop, RegInv, TypeInv, TypeOK
<1> QED
  BY <1>3, <1>4 DEF Asked

LEMMA GoesOnStep ==
    ASSUME Single
    PROVE  RegInv /\ SupportInv /\ GoesOn /\ [Next]_vars => GoesOn'
<1> SUFFICES ASSUME RegInv, SupportInv, GoesOn, [Next]_vars,
                    NEW e \in Entities, Asked(e)'
             PROVE  Entered(e)' \/ UnderWay(e)'
  BY DEF GoesOn
<1>1. /\ dropped' = dropped /\ dropped = 0 /\ cuts = 0
      /\ X[e] # Nil => Entered(e) \/ UnderWay(e)
  BY AskedBefore DEF GoesOn
<1>2. ASSUME NEW f \in Entities, sendRegRqst(f)
      PROVE  Entered(e)' \/ UnderWay(e)'
  BY <1>1, <1>2, RequestGoesOn DEF Single
<1>3. CASE \A f \in Entities : ~sendRegRqst(f)
  <2>1. UNCHANGED X
    BY <1>3 DEF Next, Work, KGCStep, EntityStep, Listen, Stop, Receive,
                ReadShort, Handle, Duplicate, StoreSession, Respond,
                CompareUpload, Publish, SetY, VerifyResp, SetS, SetBigS,
                Report, sendUpload, vars, entityState
  <2>2. Entered(e) \/ UnderWay(e)
    BY <1>1, <2>1 DEF Asked
  <2>3. CASE UNCHANGED vars \/ \E f \in Entities : Listen(f)
    <3>1. UNCHANGED <<wire, threads, usedNonces, session, publicKeys, ua, X, Y>>
      BY <2>3 DEF Listen, vars, link, kgcState, entityState
    <3> QED
      BY <2>2, <3>1 DEF Entered, UnderWay, Open, Replayed
  <2>4. ASSUME NEW f \in Entities, Stop(f) PROVE FALSE
    <3>1. status'[f] = "down" /\ f = e
      BY <2>4 DEF Stop, Single, RegInv, TypeInv, TypeOK
    <3> QED
      BY <3>1 DEF Asked
  <2>5. ASSUME NEW w \in wire, Receive(w) \/ Duplicate(w)
        PROVE  Entered(e)' \/ UnderWay(e)'
    BY <2>2, <2>5, ReceiveGoesOn, DuplicateGoesOn
  <2>6. ASSUME NEW w \in wire, ReadShort(w) PROVE FALSE
    BY <1>1, <2>6 DEF ReadShort, Asked
  <2>7. ASSUME NEW t \in threads, KGCStep(t)
        PROVE  Entered(e)' \/ UnderWay(e)'
    BY <1>1, <2>2, <2>7, StoreGoesOn, RespondGoesOn, CompareGoesOn,
       PublishEnds DEF KGCStep
  <2>8. ASSUME NEW t \in threads, EntityStep(t)
        PROVE  Entered(e)' \/ UnderWay(e)'
    BY <1>1, <2>2, <2>8, SetYGoesOn, VerifyGoesOn, FieldGoesOn, UploadGoesOn
       DEF EntityStep
  <2> QED
    BY <1>3, <2>3, <2>4, <2>5, <2>6, <2>7, <2>8 DEF Next, Work
<1> QED
  BY <1>2, <1>3

\* With one entity, and unless a dial or a read fails, a registration does not
\* end before the key is in the KGC's directory and is the entity's, wherever
\* messages are repeated (kgc.go:414).  It is what RegistrationCompletes needs
\* besides fairness.
THEOREM RegistrationsEnd ==
    ASSUME \A d, e \in Entities : d = e PROVE Spec => []RegisteredAtRest
<1>1. Single
  BY DEF Single
<1>2. Init => SupportInv /\ GoesOn
  <2>1. Init => GoesOn
    BY DEF Init, GoesOn, Asked
  <2> QED
    BY <2>1, SupportStart
<1>3. RegInv /\ SupportInv /\ GoesOn /\ [Next]_vars => SupportInv' /\ GoesOn'
  BY <1>1, SupportStep, GoesOnStep
<1>4. GoesOn => RegisteredAtRest
  BY DEF GoesOn, RegisteredAtRest, Quiescent, UnderWay, Asked
<1> QED
  BY <1>2, <1>3, <1>4, RegInvariant, PTL DEF Spec
=============================================================================
