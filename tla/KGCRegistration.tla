-------------------------- MODULE KGCRegistration --------------------------
(***************************************************************************)
(* The registration of entities at the key generation center,              *)
(* kgc_registration/kgc/kgc.go and kgc_registration/entity/entity.go:      *)
(*                                                                         *)
(*   entity --REG_RQST--> KGC --REG_RESP--> entity --UPLOAD--> KGC         *)
(*                                                                         *)
(* Each side is a TCP server with one goroutine per connection and dials a *)
(* new connection per message.  The KGC answers to port 6001 of its host,  *)
(* whichever entity asked.  A handler is split where it touches what other *)
(* goroutines write: the KGC's maps, locked for each access only, and the  *)
(* entity's fields, which are not locked at all.                           *)
(*                                                                         *)
(* Scalars are symbolic: entity e draws x = e, the KGC draws one r per     *)
(* handler, and y = r + sH stands for the pair of r and H.  The master key *)
(* s does not change here; see KGCParams.                                  *)
(***************************************************************************)
EXTENDS Naturals

CONSTANTS
    Entities,      \* calls of NewEntity and Start; main makes one
    AtPort6001,    \* those with port ":6001"; others have ports of their own
    UAs,           \* the identifiers an entity may draw
    MaxCopies,     \* bound: how often the network repeats one message
    MaxDropped,    \* bound: failed dials besides those to a closed port
    MaxCuts,       \* bound: reads that return part of a message
    Garbled,       \* a field whose last bytes were not read
    Nil            \* a nil pointer or slice, a key that is not in a map

----------------------------------------------------------------------------
(* Values.                                                                 *)

Nonces == [n : {"N1", "N2", "N3"}, e : Entities, c : 0 .. MaxCopies]

Pub(x) == [of |-> x]               \* ScalarBaseMult and MarshalCompressed

\* What the KGC's handler of a request draws from crypto/rand.
RScalars == [e : Entities, c : 0 .. MaxCopies]
Scalar(t) == [e |-> t.msg.nonce.e, c |-> t.copy]

\* H2 of UA, X, R and P_pub.
H2(u, x, R) == [UA |-> u, X |-> x, R |-> R]

\* y = r + sH mod n, and the entity's test yG = R + H P_pub.
YOf(r, H) == [r |-> r, H |-> H]
FitsAny(v, R, H) == R = Pub(v.r)                                \* mutant
Fits(v, R, H) == R = Pub(v.r) /\ v.H = H

XPoints == [of : Entities]
RPoints == [of : RScalars]
Hashes == [UA : UAs, X : XPoints \cup {Garbled}, R : RPoints]
Ys == [r : RScalars, H : Hashes]
YPoints == [of : Ys]
Secrets == [x : Entities, y : Ys]

ASSUME RegistrationConstants ==
    /\ AtPort6001 \subseteq Entities /\ "KGC" \notin Entities
    /\ MaxCopies \in Nat /\ MaxDropped \in Nat /\ MaxCuts \in Nat
    /\ Nil \notin {"KGC", Garbled} \cup Entities \cup UAs
    /\ Nil \notin XPoints /\ Nil \notin YPoints /\ Nil \notin Ys
    /\ Nil \notin Secrets /\ Nil \notin [of : Secrets]
    /\ Nil \notin [UA : UAs, X : XPoints \cup {Garbled}]
    /\ Garbled \notin RPoints

----------------------------------------------------------------------------
VARIABLES
    status,        \* of each entity's process
    dropped,       \* dials that failed
    cuts,          \* reads that returned part of a message
    wire,          \* messages written to a connection and not yet read
    threads,       \* handler goroutines past their replay check
    usedNonces,    \* the usedNonces map of each node
    session,       \* kgc.currentSessions["entity"], the only key in use
    publicKeys,    \* kgc.publicKeys
    ua, X,         \* e.ua and e.X of each entity
    y, Y, s, S,    \* e.y, e.Y, e.s, e.S of each entity
    printed,       \* what an entity prints as registered (entity.go:214)
    issued         \* history: every y the KGC computed

link == <<dropped, cuts, wire>>
kgcState == <<session, publicKeys, issued>>
entityState == <<status, ua, X, y, Y, s, S, printed>>
vars == <<link, threads, usedNonces, kgcState, entityState>>

Nodes == {"KGC"} \cup Entities

----------------------------------------------------------------------------
(* Connections and goroutines.                                             *)

\* The entity that listens on port 6001.
Listener == IF \E e \in AtPort6001 : status[e] = "up"
            THEN CHOOSE e \in AtPort6001 : status[e] = "up"
            ELSE Nil

\* A packet is the original or a repeat of it; left counts the repeats the
\* network may still make of it.
Packet(m, to, copy, left) ==
    [msg |-> m, to |-> to, copy |-> copy, left |-> left]

\* sendToKGC and sendToEntity: dial, write, close.  When the dial fails the
\* message is gone.
Transmit(to, m) ==
    \/ /\ to # Nil
       /\ wire' = wire \cup {Packet(m, to, 0, MaxCopies)}
       /\ UNCHANGED <<dropped, cuts>>
    \/ /\ to = Nil \/ dropped < MaxDropped
       /\ dropped' = dropped + 1
       /\ UNCHANGED <<cuts, wire>>

Thread(at, msg, copy, pc) ==
    [at |-> at, msg |-> msg, copy |-> copy, pc |-> pc]
At(t, type, pc) == t.msg.type = type /\ t.pc = pc
Move(t, pc) ==
    threads' = (threads \ {t}) \cup {Thread(t.at, t.msg, t.copy, pc)}
Finish(t) == threads' = threads \ {t}

MarkUsed(node, nonce) ==
    usedNonces' = [usedNonces EXCEPT ![node] = @ \cup {nonce}]

Quiescent == wire = {} /\ threads = {}

FirstPc == [REG_RQST |-> "session", REG_RESP |-> "setY",
            UPLOAD |-> "compare"]

\* A single Read may return less than was written.  The deserializers fill
\* what is missing of the last field with zeros; a message cut before its
\* last field is an error and dropped like one that was never sent.
Cut(m) ==
    CASE m.type = "REG_RQST" -> [m EXCEPT !.X = Garbled]
      [] m.type = "REG_RESP" -> [m EXCEPT !.R = Garbled]
      [] m.type = "UPLOAD"   -> [m EXCEPT !.Y = Garbled]

ReplayedNever(w) == FALSE                                       \* mutant
Replayed(w) == w.msg.nonce \in usedNonces[w.to]

\* The two handleConnections: accept, read, deserialize, and the replay
\* check, which holds the mutex from look-up to insertion.
Handle(w, m) ==
    /\ wire' = wire \ {w}
    /\ IF Replayed(w)
       THEN UNCHANGED <<threads, usedNonces>>
       ELSE /\ MarkUsed(w.to, m.nonce)
            /\ threads' = threads \cup
                   {Thread(w.to, m, w.copy, FirstPc[m.type])}
    /\ UNCHANGED <<dropped, kgcState, entityState>>

Receive(w) == Handle(w, w.msg) /\ UNCHANGED cuts

ReadShort(w) ==
    /\ cuts < MaxCuts
    /\ cuts' = cuts + 1
    /\ Handle(w, Cut(w.msg))

\* The case usedNonces is there for.
Duplicate(w) ==
    /\ w.left > 0
    /\ wire' = (wire \ {w}) \cup
           {Packet(w.msg, w.to, w.copy, w.left - 1),
            Packet(w.msg, w.to, MaxCopies - w.left + 1, 0)}
    /\ UNCHANGED <<dropped, cuts, threads, usedNonces, kgcState, entityState>>

----------------------------------------------------------------------------
(* The KGC.                                                                *)

\* handleRegRqst keeps UA and X under the name in the message.  Every entity
\* calls itself "entity".
StoreSession(t) ==
    /\ At(t, "REG_RQST", "session")
    /\ session' = [UA |-> t.msg.UA, X |-> t.msg.X]
    /\ Move(t, "respond")
    /\ UNCHANGED <<link, usedNonces, publicKeys, issued, entityState>>

\* ... and answers from what it was sent, to port 6001.
Respond(t) ==
    LET r  == Scalar(t)
        yy == YOf(r, H2(t.msg.UA, t.msg.X, Pub(r)))
        n2 == [n |-> "N2", e |-> t.msg.nonce.e, c |-> t.copy]
    IN /\ At(t, "REG_RQST", "respond")
       /\ MarkUsed("KGC", n2)
       /\ issued' = issued \cup {yy}
       /\ Transmit(Listener,
             [type |-> "REG_RESP", nonce |-> n2, y |-> yy, R |-> Pub(r)])
       /\ Finish(t)
       /\ UNCHANGED <<session, publicKeys, entityState>>

\* handleUpload looks its session up and compares, under the read lock ...
CompareUpload(t) ==
    /\ At(t, "UPLOAD", "compare")
    /\ IF /\ session # Nil
          /\ t.msg.UA = session.UA
          /\ t.msg.X = session.X
       THEN Move(t, "publish")
       ELSE Finish(t)
    /\ UNCHANGED <<link, usedNonces, kgcState, entityState>>

\* ... and publishes, and deletes the session there is by now, under another.
Publish(t) ==
    /\ At(t, "UPLOAD", "publish")
    /\ publicKeys' = [publicKeys EXCEPT ![t.msg.UA] =
                          [X |-> t.msg.X, Y |-> t.msg.Y]]
    /\ session' = Nil
    /\ Finish(t)
    /\ UNCHANGED <<link, usedNonces, issued, entityState>>

----------------------------------------------------------------------------
(* An entity.                                                              *)

\* Start listens and sleeps 100 ms.  A second entity on port 6001 finds it
\* taken: log.Fatal ends its process.
Listen(e) ==
    /\ status[e] = "idle"
    /\ status' = [status EXCEPT ![e] =
           IF e \in AtPort6001 /\ Listener # Nil THEN "down" ELSE "up"]
    /\ UNCHANGED <<link, threads, usedNonces, kgcState, ua, X, y, Y, s, S,
                   printed>>

sendRegRqst(e) ==
    LET n1 == [n |-> "N1", e |-> e, c |-> 0]
    IN /\ status[e] = "up"
       /\ X[e] = Nil
       /\ \E u \in UAs :
             /\ ua' = [ua EXCEPT ![e] = u]
             /\ Transmit("KGC", [type |-> "REG_RQST", nonce |-> n1,
                                 UA |-> u, X |-> Pub(e)])
       /\ X' = [X EXCEPT ![e] = Pub(e)]
       /\ MarkUsed(e, n1)
       /\ UNCHANGED <<threads, kgcState, status, y, Y, s, S, printed>>

\* The process ends: its goroutines and its connections with it.
Stop(e) ==
    /\ status[e] = "up"
    /\ status' = [status EXCEPT ![e] = "down"]
    /\ threads' = {t \in threads : t.at # e}
    /\ wire' = {w \in wire : w.to # e}
    /\ UNCHANGED <<dropped, cuts, usedNonces, kgcState, ua, X, y, Y, s, S,
                   printed>>

\* handleRegResp: e.y is set before the answer is verified.  R that lost
\* bytes may still be the encoding of some point.
SetY(t) ==
    /\ At(t, "REG_RESP", "setY")
    /\ \/ /\ y' = [y EXCEPT ![t.at] = t.msg.y]
          /\ Move(t, "verify")
       \/ /\ t.msg.R = Garbled
          /\ Finish(t)
          /\ UNCHANGED y
    /\ UNCHANGED <<link, usedNonces, kgcState, status, ua, X, Y, s, S,
                   printed>>

VerifyNoId(t) ==                                                \* mutant
    LET e == t.at
    IN /\ At(t, "REG_RESP", "verify")
       /\ Y' = [Y EXCEPT ![e] = Pub(t.msg.y)]
       /\ Move(t, "setS")
       /\ UNCHANGED <<link, usedNonces, kgcState, status, ua, X, y, s, S,
                      printed>>
VerifyNoReturn(t) ==                                            \* mutant
    LET e == t.at
    IN /\ At(t, "REG_RESP", "verify")
       /\ Move(t, "setS")
       /\ IF Fits(t.msg.y, t.msg.R, H2(ua[e], X[e], t.msg.R))
          THEN Y' = [Y EXCEPT ![e] = Pub(t.msg.y)]
          ELSE UNCHANGED Y
       /\ UNCHANGED <<link, usedNonces, kgcState, status, ua, X, y, s, S,
                      printed>>
VerifyResp(t) ==
    LET e == t.at
    IN /\ At(t, "REG_RESP", "verify")
       /\ IF Fits(t.msg.y, t.msg.R, H2(ua[e], X[e], t.msg.R))
          THEN Y' = [Y EXCEPT ![e] = Pub(t.msg.y)] /\ Move(t, "setS")
          ELSE Finish(t) /\ UNCHANGED Y
       /\ UNCHANGED <<link, usedNonces, kgcState, status, ua, X, y, s, S,
                      printed>>

\* s = x + y, from the fields.
SetS(t) ==
    /\ At(t, "REG_RESP", "setS")
    /\ s' = [s EXCEPT ![t.at] = [x |-> t.at, y |-> y[t.at]]]
    /\ Move(t, "setBigS")
    /\ UNCHANGED <<link, usedNonces, kgcState, status, ua, X, y, Y, S,
                   printed>>

SetBigS(t) ==
    /\ At(t, "REG_RESP", "setBigS")
    /\ S' = [S EXCEPT ![t.at] = Pub(s[t.at])]
    /\ Move(t, "report")
    /\ UNCHANGED <<link, usedNonces, kgcState, status, ua, X, y, Y, s,
                   printed>>

\* "Entity registered", with the fields as they are by now.
Report(t) ==
    LET e == t.at
    IN /\ At(t, "REG_RESP", "report")
       /\ printed' = [printed EXCEPT ![e] = @ \cup
              {[UA |-> ua[e], y |-> y[e], X |-> X[e], Y |-> Y[e]]}]
       /\ Move(t, "upload")
       /\ UNCHANGED <<link, usedNonces, kgcState, status, ua, X, y, Y, s, S>>

sendUploadN2(t) ==                                              \* mutant
    LET e == t.at
    IN /\ At(t, "REG_RESP", "upload")
       /\ MarkUsed(e, t.msg.nonce)
       /\ Transmit("KGC", [type |-> "UPLOAD", nonce |-> t.msg.nonce,
                           UA |-> ua[e], X |-> X[e], Y |-> Y[e]])
       /\ Finish(t)
       /\ UNCHANGED <<kgcState, entityState>>
sendUpload(t) ==
    LET e  == t.at
        n3 == [t.msg.nonce EXCEPT !.n = "N3"]
    IN /\ At(t, "REG_RESP", "upload")
       /\ MarkUsed(e, n3)
       /\ Transmit("KGC", [type |-> "UPLOAD", nonce |-> n3, UA |-> ua[e],
                           X |-> X[e], Y |-> Y[e]])
       /\ Finish(t)
       /\ UNCHANGED <<kgcState, entityState>>

----------------------------------------------------------------------------
Init ==
    /\ status = [e \in Entities |-> "idle"]
    /\ dropped = 0 /\ cuts = 0
    /\ wire = {} /\ threads = {}
    /\ usedNonces = [node \in Nodes |-> {}]
    /\ session = Nil
    /\ publicKeys = [u \in UAs |-> Nil]
    /\ ua = [e \in Entities |-> Nil] /\ X = [e \in Entities |-> Nil]
    /\ y = [e \in Entities |-> Nil]  /\ Y = [e \in Entities |-> Nil]
    /\ s = [e \in Entities |-> Nil]  /\ S = [e \in Entities |-> Nil]
    /\ printed = [e \in Entities |-> {}]
    /\ issued = {}

KGCStep(t) ==
    StoreSession(t) \/ Respond(t) \/ CompareUpload(t) \/ Publish(t)
EntityStep(t) ==
    \/ SetY(t) \/ VerifyResp(t) \/ SetS(t) \/ SetBigS(t)
    \/ Report(t) \/ sendUpload(t)

Work == \/ \E e \in Entities : Listen(e) \/ sendRegRqst(e)
        \/ \E w \in wire : Receive(w)
        \/ \E t \in threads : KGCStep(t) \/ EntityStep(t)

Next == \/ Work
        \/ \E w \in wire : ReadShort(w) \/ Duplicate(w)
        \/ \E e \in Entities : Stop(e)

\* Every goroutine that can run is run in the end; each step of Work uses up
\* a call, a message or a program point, so fairness to all is fairness to
\* each.
Spec == Init /\ [][Next]_vars
FairSpec == Spec /\ WF_vars(Work)

----------------------------------------------------------------------------
(* Types.                                                                  *)

Requests == [type : {"REG_RQST"}, nonce : Nonces, UA : UAs,
             X : XPoints \cup {Garbled}]
Responses == [type : {"REG_RESP"}, nonce : Nonces, y : Ys,
              R : RPoints \cup {Garbled}]
Uploads == [type : {"UPLOAD"}, nonce : Nonces, UA : UAs, X : XPoints,
            Y : YPoints \cup {Garbled}]

ToKGC == Requests \cup Uploads

PacketOK(w) ==
    /\ w = Packet(w.msg, w.to, w.copy, w.left)
    /\ \/ w.to = "KGC" /\ w.msg \in ToKGC
       \/ w.to \in AtPort6001 /\ w.msg \in Responses
    /\ w.copy \in 0 .. MaxCopies
    /\ w.left \in 0 .. MaxCopies

EntityPcs == {"setY", "verify", "setS", "setBigS", "report", "upload"}

ThreadOK(t) ==
    /\ t = Thread(t.at, t.msg, t.copy, t.pc)
    /\ t.copy \in 0 .. MaxCopies
    /\ \/ t.at = "KGC" /\ t.msg \in Requests /\ t.pc \in {"session", "respond"}
       \/ t.at = "KGC" /\ t.msg \in Uploads /\ t.pc \in {"compare", "publish"}
       \/ t.at \in AtPort6001 /\ t.msg \in Responses /\ t.pc \in EntityPcs

OrNil(T) == T \cup {Nil}

\* The type invariant: what the maps, the fields, the connections and the
\* handlers at each of their program points can hold.
TypeOK ==
    /\ status \in [Entities -> {"idle", "up", "down"}]
    /\ dropped \in Nat /\ cuts \in 0 .. MaxCuts
    /\ \A w \in wire : PacketOK(w)
    /\ \A t \in threads : ThreadOK(t)
    /\ usedNonces \in [Nodes -> SUBSET Nonces]
    /\ session \in OrNil([UA : UAs, X : XPoints \cup {Garbled}])
    /\ publicKeys \in
          [UAs -> OrNil([X : XPoints, Y : YPoints \cup {Garbled}])]
    /\ ua \in [Entities -> OrNil(UAs)] /\ X \in [Entities -> OrNil(XPoints)]
    /\ y \in [Entities -> OrNil(Ys)] /\ Y \in [Entities -> OrNil(YPoints)]
    /\ s \in [Entities -> OrNil(Secrets)]
    /\ S \in [Entities -> OrNil([of : Secrets])]
    /\ printed \in [Entities -> SUBSET [UA : UAs, y : Ys, X : XPoints,
                                        Y : YPoints]]
    /\ issued \subseteq Ys

----------------------------------------------------------------------------
(* Properties.                                                             *)

\* The KGC computes one y per registration: however often a request is
\* repeated, no second answer exists that would verify (kgc.go:309).
IssuedOnce ==
    \A v, w \in issued :
        v.H.X = w.H.X /\ v.H.X # Garbled => v = w

\* What stands in the directory was issued: Y comes from the y the KGC
\* computed for this UA and this X, though handleUpload takes Y as the
\* message has it (kgc.go:414).  Stated of messages read whole (MaxCuts = 0):
\* an upload that lost bytes is published with a Y that was not issued.
PublishedWasIssued ==
    \A u \in UAs : publicKeys[u] # Nil =>
        \E v \in issued : /\ v.H.UA = u
                          /\ v.H.X = publicKeys[u].X
                          /\ Pub(v) = publicKeys[u].Y

\* An entity only takes over a Y that was issued for its own UA and X,
\* whichever answers reach port 6001 (entity.go:196).
OwnKey ==
    \A e \in Entities : Y[e] # Nil =>
        \E v \in issued : Pub(v) = Y[e] /\ v.H.UA = ua[e] /\ v.H.X = X[e]

\* What an entity prints as its registered keys is a pair: Y is the public
\* key of y (entity.go:214).  It holds of one entity, where the only other
\* answer there could be is one to a repeated request; the answer to another
\* entity's request replaces y before it fails verification (entity.go:186).
PrintedKeysFit ==
    \A e \in Entities : \A p \in printed[e] : p.Y = Pub(p.y)

\* Once the handlers are through, the private key s that an entity is left
\* with belongs to the public keys X and Y it uploaded (entity.go:203).
\* Stated of one entity, as PrintedKeysFit.
SecretKeyFits ==
    Quiescent => \A e \in Entities : status[e] = "up" /\ printed[e] # {} =>
        s[e] = [x |-> e, y |-> s[e].y] /\ Pub(s[e].y) = Y[e]
        /\ S[e] = Pub(s[e])

\* The KGC's directory holds the keys an entity registers.
Entered(e) == Y[e] # Nil /\ publicKeys[ua[e]] = [X |-> X[e], Y |-> Y[e]]

\* A registration that is started ends in the directory, unless a dial or a
\* read fails or the entity's process ends.
RegistrationCompletes ==
    \A e \in Entities :
        status[e] = "up" ~>
            \/ status[e] = "down" \/ dropped > 0 \/ cuts > 0
            \/ Entered(e)

\* The registration keeps the promise of KeyDirectory, as long as messages
\* are read whole (MaxCuts = 0).
Issue(v) == [UA |-> v.H.UA, X |-> v.H.X, Y |-> Pub(v)]
Directory == INSTANCE KeyDirectory
    WITH Free <- Nil, issues <- {Issue(v) : v \in issued}, dir <- publicKeys
KeepsDirectory == Directory!DirectorySpec
============================================================================
