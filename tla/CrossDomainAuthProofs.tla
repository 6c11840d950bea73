----------------------- MODULE CrossDomainAuthProofs -----------------------
(***************************************************************************)
(* Theorems about CrossDomainAuth, for any number of sessions, repeats and *)
(* failed dials: its type invariant, the safety properties that hold       *)
(* however many sessions overlap, and that it implements KeyAgreement.     *)
(***************************************************************************)
EXTENDS CrossDomainAuth, TLAPS

----------------------------------------------------------------------------
(* Types of what the handlers build.                                       *)

\* Every message carries a nonce, and its type is one of six.
LEMMA MessageFields ==
    ASSUME NEW m \in Messages
    PROVE  /\ m.nonce \in Nonces
           /\ m.type \in {"NOTIC", "REPLY", "RQST_1", "RQST_2", "RESP",
                          "KEY_EXC"}
           /\ m.type = "NOTIC" => m \in Notics
           /\ m.type = "REPLY" => m \in Replies
           /\ m.type = "RQST_1" => m \in Rqst1s
           /\ m.type = "RQST_2" => m \in Rqst2s
           /\ m.type = "RESP" => m \in Resps
           /\ m.type = "KEY_EXC" => m \in KeyExcs
BY DEF Messages, Notics, Replies, Rqst1s, Rqst2s, Resps, KeyExcs

\* A handler draws scalars and nonces of its own.
LEMMA Drawn ==
    ASSUME NEW t, ThreadOK(t),
           NEW n \in {"N1", "N2", "N3", "N4", "N5", "N6"}
    PROVE  Scalar(t) \in Scalars /\ Nonce(n, t) \in Nonces
<1>1. t.msg.nonce \in Nonces
  BY MessageFields DEF ThreadOK
<1> QED
  BY <1>1 DEF ThreadOK, Scalar, Nonce, Scalars, Nonces

\* The exclusive or of two addresses is an address.
LEMMA XorType ==
    ASSUME NEW A \in Bytes12, NEW B \in Bytes12
    PROVE  Xor(A, B) \in Bytes12
BY DEF Xor, Bytes12

\* Masking twice with the same address gives the address back.
LEMMA XorCancels ==
    ASSUME NEW A, NEW B
    PROVE  Xor(A, Xor(A, B)) = B
BY DEF Xor

\* A send function puts a well-formed message into a well-formed packet.
LEMMA TransmitType ==
    ASSUME TypeOK, NEW from, NEW m \in Messages, Transmit(from, m)
    PROVE  /\ phase' \in Phases
           /\ dropped' \in Nat
           /\ \A w \in wire' : PacketOK(w)
BY ConstantsOK DEF TypeOK, Transmit, PacketOK, Packet, Phases

\* A handler that goes on to a program point it has, with a tmp of that
\* point, leaves the handlers well formed.
LEMMA MoveType ==
    ASSUME TypeOK, NEW t, NEW pc, NEW tmp, Move(t, pc, tmp),
           ThreadOK(Thread(t.msg, t.copy, pc, tmp))
    PROVE  \A u \in threads' : ThreadOK(u)
BY DEF TypeOK, Move

\* A handler that ends leaves the others well formed.
LEMMA FinishType ==
    ASSUME TypeOK, NEW t, Finish(t)
    PROVE  \A u \in threads' : ThreadOK(u)
BY DEF TypeOK, Finish

\* A nonce drawn or seen by a node stays in the type of usedNonces.
LEMMA MarkType ==
    ASSUME TypeOK, NEW r, NEW n \in Nonces, MarkUsed(r, n)
    PROVE  usedNonces' \in [Roles -> SUBSET Nonces]
BY DEF TypeOK, MarkUsed

----------------------------------------------------------------------------
(* The type invariant, one lemma for each node.                            *)

\* The state main sets up has the types.
LEMMA TypeInit == Init => TypeOK
<1> SUFFICES ASSUME Init PROVE TypeOK
  OBVIOUS
<1>1. usedNonces \in [Roles -> SUBSET Nonces]
  BY DEF Init
<1>2. wire = {} /\ threads = {} /\ as1Log = {} /\ ac2Log = {}
      /\ derived = {} /\ verified = {}
  BY DEF Init
<1>3. phase \in Phases /\ notices \in 0 .. NumSessions /\ dropped \in Nat
  BY ConstantsOK DEF Init, Phases
<1>4. ac1Listening \in BOOLEAN
  BY Zenon DEF Init
<1>5. /\ ac2_UA \in Nat /\ ac2_SAC \in Bytes12 /\ ac2_KS \in KeyOrNil
      /\ as1_UI \in Nat /\ as1_SAC \in Bytes12
      /\ as1_b \in Scalars \cup {Nil} /\ as1_B \in PubOrNil
  BY DEF Init, KeyOrNil, PubOrNil, Bytes12
<1> QED
  BY <1>1, <1>2, <1>3, <1>4, <1>5 DEF TypeOK

\* The steps of the network, of AC1's listener and of main keep the types.
LEMMA TypeConnections ==
    ASSUME TypeOK,
           \/ \E w \in wire : Receive(w) \/ Duplicate(w)
           \/ Listen
           \/ TimerFires
           \/ MainExits
           \/ Interrupt
    PROVE  TypeOK'
<1>1. ASSUME NEW w \in wire, Receive(w) PROVE TypeOK'
  <2> USE <1>1
  <2>1. PacketOK(w)
    BY DEF TypeOK
  <2>2. /\ w.msg \in Messages
        /\ w.copy \in 0 .. MaxCopies
        /\ w.msg.nonce \in Nonces
        /\ w.msg.type \in {"NOTIC", "REPLY", "RQST_1", "RQST_2", "RESP",
                           "KEY_EXC"}
    BY <2>1, MessageFields DEF PacketOK
  <2>3. \A u \in wire' : PacketOK(u)
    BY DEF Receive, TypeOK
  <2>4. ThreadOK(Thread(w.msg, w.copy, FirstPc[w.msg.type], Nil))
    BY <2>2 DEF ThreadOK, Thread, FirstPc
  <2>5. (\A u \in threads' : ThreadOK(u))
        /\ usedNonces' \in [Roles -> SUBSET Nonces]
    BY <2>2, <2>4, MarkType DEF Receive, TypeOK
  <2> QED
    BY <2>3, <2>5 DEF Receive, TypeOK, ac2Fields, as1Fields, history
<1>2. ASSUME NEW w \in wire, Duplicate(w) PROVE TypeOK'
  <2> USE <1>2
  <2>1. PacketOK(w)
    BY DEF TypeOK
  <2>2. PacketOK(Packet(w.msg, w.copy, w.left - 1))
        /\ PacketOK(Packet(w.msg, MaxCopies - w.left + 1, 0))
    BY <2>1, ConstantsOK DEF PacketOK, Packet, Duplicate
  <2>3. \A u \in wire' : PacketOK(u)
    BY <2>2 DEF Duplicate, TypeOK
  <2> QED
    BY <2>3 DEF Duplicate, TypeOK, ac2Fields, as1Fields, history
<1>3. ASSUME Listen PROVE TypeOK'
  BY <1>3 DEF Listen, TypeOK, link, ac2Fields, as1Fields, history
<1>4. ASSUME TimerFires \/ MainExits \/ Interrupt PROVE TypeOK'
  BY <1>4 DEF TimerFires, MainExits, Interrupt, TypeOK, Phases, ac2Fields,
              as1Fields, history
<1> QED
  BY <1>1, <1>2, <1>3, <1>4

\* The steps of AC1 keep the types.
LEMMA TypeAC1 ==
    ASSUME TypeOK, SendNotic \/ \E t \in threads : AC1Step(t)
    PROVE  TypeOK'
<1>1. ASSUME SendNotic PROVE TypeOK'
  <2> USE <1>1
  <2> DEFINE s == notices + 1
             n1 == [n |-> "N1", s |-> s, c |-> 0]
             P == [ui1 |-> UI_AC1, ua |-> UA_AS1, sac |-> SAC_AS1,
                   ui2 |-> UI_AC2, n |-> n1]
             m == [type |-> "NOTIC", nonce |-> n1, ui |-> UI_AC1,
                   M1 |-> Seal("SK_AC12", n1, StaticDH("AC1", "AC2"), P)]
  <2>1. s \in 1 .. NumSessions /\ n1 \in Nonces
    BY ConstantsOK DEF SendNotic, TypeOK, Nonces
  <2>2. m \in Messages
    <3>1. m \in Notics
      BY <2>1, ConstantsOK DEF Notics, Seal, StaticDH, Roles, Bytes12
    <3> QED
      BY <3>1 DEF Messages
  <2>3. Transmit("AC1", m) /\ MarkUsed("AC1", n1) /\ notices' = s
    BY DEF SendNotic
  <2> HIDE DEF m, n1, s
  <2>4. /\ phase' \in Phases /\ dropped' \in Nat
        /\ \A w \in wire' : PacketOK(w)
        /\ usedNonces' \in [Roles -> SUBSET Nonces]
    BY <2>1, <2>2, <2>3, TransmitType, MarkType
  <2> QED
    BY <2>1, <2>3, <2>4 DEF SendNotic, TypeOK, ac2Fields, as1Fields, history
<1>2. ASSUME NEW t \in threads, RelayB(t) PROVE TypeOK'
  <2> USE <1>2
  <2> DEFINE n4 == Nonce("N4", t)
             m == [type |-> "RQST_2", nonce |-> n4, ui |-> UI_AC1,
                   M4 |-> Blind(Scalar(t), [ui1 |-> UI_AC1, ua |-> UA_AS1,
                            sac |-> t.msg.sac, B |-> t.msg.M3.pt.B])]
  <2>1. ThreadOK(t) /\ t.msg \in Rqst1s
    BY MessageFields DEF TypeOK, RelayB, At, ThreadOK
  <2>2. n4 \in Nonces /\ Scalar(t) \in Scalars
    BY <2>1, Drawn
  <2>3. m \in Messages
    <3>1. m \in Rqst2s
      BY <2>1, <2>2, ConstantsOK
      DEF Rqst1s, Rqst2s, Blind, Pad, Pub, Pubs, PubOrNil
    <3> QED
      BY <3>1 DEF Messages
  <2>4. Finish(t)
        /\ \/ Transmit("AC1", m) /\ MarkUsed("AC1", n4)
           \/ UNCHANGED <<link, usedNonces>>
    BY DEF RelayB
  <2> HIDE DEF m, n4
  <2>5. /\ phase' \in Phases /\ dropped' \in Nat
        /\ \A w \in wire' : PacketOK(w)
        /\ usedNonces' \in [Roles -> SUBSET Nonces]
    BY <2>2, <2>3, <2>4, TransmitType, MarkType DEF link, TypeOK
  <2>6. \A u \in threads' : ThreadOK(u)
    BY <2>4, FinishType
  <2> QED
    BY <2>5, <2>6 DEF RelayB, TypeOK, ac2Fields, as1Fields, history
<1> QED
  BY <1>1, <1>2 DEF AC1Step

\* The steps of AC2 keep the types.
LEMMA TypeAC2 ==
    ASSUME TypeOK, NEW t \in threads, AC2Step(t)
    PROVE  TypeOK'
<1>0. ThreadOK(t)
  BY DEF TypeOK
<1>1. ASSUME OpenNotic(t) PROVE TypeOK'
  <2> USE <1>1
  <2>1. t.msg \in Notics
    BY <1>0, MessageFields DEF OpenNotic, At, ThreadOK
  <2>2. t.msg.M1.pt.ua \in Nat /\ t.msg.M1.pt.sac \in Bytes12
    BY <2>1 DEF Notics
  <2>3. ThreadOK(Thread(t.msg, t.copy, "reply", t.msg.M1.pt.sac))
    BY <1>0, <2>2 DEF ThreadOK, Thread, OpenNotic, At
  <2>4. \A u \in threads' : ThreadOK(u)
    BY <2>3, MoveType, FinishType DEF OpenNotic
  <2>5. ac2_UA' \in Nat
    BY <2>2 DEF OpenNotic, TypeOK
  <2> QED
    BY <2>4, <2>5 DEF OpenNotic, TypeOK, link, as1Fields, history
<1>2. ASSUME SendReply(t) PROVE TypeOK'
  <2> USE <1>2
  <2> DEFINE n2 == Nonce("N2", t)
             m == [type |-> "REPLY", nonce |-> n2, ui |-> UI_AC2,
                   M2 |-> [ui1 |-> UI_AC1, x |-> Xor(t.tmp, ac2_SAC')]]
  <2>1. n2 \in Nonces
    BY <1>0, Drawn
  <2>2. ac2_SAC' \in Bytes12 /\ t.tmp \in Bytes12
    BY <1>0, ConstantsOK DEF SendReply, At, ThreadOK, Bytes12
  <2>3. m \in Messages
    <3>1. m \in Replies
      BY <2>1, <2>2, XorType, ConstantsOK DEF Replies
    <3> QED
      BY <3>1 DEF Messages
  <2>4. Finish(t) /\ MarkUsed("AC2", n2) /\ Transmit("AC2", m)
    BY DEF SendReply
  <2> HIDE DEF m, n2
  <2>5. /\ phase' \in Phases /\ dropped' \in Nat
        /\ \A w \in wire' : PacketOK(w)
        /\ usedNonces' \in [Roles -> SUBSET Nonces]
    BY <2>1, <2>3, <2>4, TransmitType, MarkType
  <2>6. \A u \in threads' : ThreadOK(u)
    BY <2>4, FinishType
  <2> QED
    BY <2>2, <2>5, <2>6 DEF SendReply, TypeOK, as1Fields, history
<1>3. ASSUME DeriveKey(t) PROVE TypeOK'
  <2> USE <1>3
  <2> DEFINE data == Unblind(t.msg.M4)
             n5 == Nonce("N5", t)
             j == Scalar(t)
             k == H2(ac2_SAC, UI_AC2, data.B, Pub(j), n5)
             key == AC2Key(ac2_SAC, k, data.B, j)
  <2>1. t.msg \in Rqst2s
    BY <1>0, MessageFields DEF DeriveKey, At, ThreadOK
  <2>2. n5 \in Nonces /\ j \in Scalars
    BY <1>0, Drawn
  <2>3. data.B \in PubOrNil
    BY <2>1 DEF Rqst2s, Unblind, PubOrNil
  <2>4. k \in Hashes
    BY <2>2, <2>3, ConstantsOK DEF TypeOK, H2, Hashes, Pub, Pubs
  <2>5. data.B # Nil => key \in Keys
    BY <2>2, <2>3, <2>4, ConstantsOK
    DEF TypeOK, AC2Key, KeyOf, Keys, PubOrNil, Pubs
  <2>6. \/ /\ data.B # Nil /\ MarkUsed("AC2", n5) /\ ac2_KS' = key
           /\ derived' = derived \cup {key} /\ Move(t, "respond", k)
        \/ Finish(t) /\ UNCHANGED <<usedNonces, ac2_KS, derived>>
    BY DEF DeriveKey
  <2> HIDE DEF data, n5, j, k, key
  <2>7. ThreadOK(Thread(t.msg, t.copy, "respond", k))
    BY <1>0, <2>4 DEF ThreadOK, Thread, DeriveKey, At
  <2>8. \A u \in threads' : ThreadOK(u)
    BY <2>6, <2>7, MoveType, FinishType
  <2>9. usedNonces' \in [Roles -> SUBSET Nonces]
    BY <2>2, <2>6, MarkType DEF TypeOK
  <2>10. ac2_KS' \in KeyOrNil /\ derived' \subseteq Keys
    BY <2>5, <2>6 DEF TypeOK, KeyOrNil
  <2> QED
    BY <2>8, <2>9, <2>10 DEF DeriveKey, TypeOK, link, as1Fields
<1>4. ASSUME SendResp(t) PROVE TypeOK'
  <2> USE <1>4
  <2> DEFINE m == [type |-> "RESP", nonce |-> t.tmp.n5, ui |-> UI_AC2,
                   M5 |-> [J |-> t.tmp.J, mac |-> Hmac(ac2_KS, t.tmp)]]
  <2>1. t.tmp \in Hashes
    BY <1>0 DEF SendResp, At, ThreadOK
  <2>2. m \in Messages
    <3>1. m \in Resps
      BY <2>1, ConstantsOK DEF Resps, Hashes, Hmac, TypeOK
    <3> QED
      BY <3>1 DEF Messages
  <2>3. Finish(t) /\ Transmit("AC2", m)
    BY DEF SendResp
  <2> HIDE DEF m
  <2>4. /\ phase' \in Phases /\ dropped' \in Nat
        /\ \A w \in wire' : PacketOK(w)
    BY <2>2, <2>3, TransmitType
  <2>5. \A u \in threads' : ThreadOK(u)
    BY <2>3, FinishType
  <2> QED
    BY <2>4, <2>5 DEF SendResp, TypeOK, ac2Fields, as1Fields, history
<1>5. ASSUME VerifyKeyExc(t) PROVE TypeOK'
  <2> USE <1>5
  <2>1. t.msg.nonce \in Nonces
    BY <1>0, MessageFields DEF ThreadOK
  <2>2. ThreadOK(Thread(t.msg, t.copy, "report", Nil))
    BY <1>0 DEF ThreadOK, Thread, VerifyKeyExc, At
  <2>3. \A u \in threads' : ThreadOK(u)
    BY <2>2, MoveType, FinishType DEF VerifyKeyExc
  <2>4. verified' \subseteq [key : KeyOrNil, nonce : Nonces]
    BY <2>1 DEF VerifyKeyExc, TypeOK
  <2> QED
    BY <2>3, <2>4 DEF VerifyKeyExc, TypeOK, link, ac2Fields, as1Fields
<1>6. ASSUME ReportKey(t) PROVE TypeOK'
  <2> USE <1>6
  <2>1. t.msg.nonce \in Nonces
    BY <1>0, MessageFields DEF ThreadOK
  <2>2. \A u \in threads' : ThreadOK(u)
    BY FinishType DEF ReportKey
  <2>3. ac2Log' \subseteq [key : KeyOrNil, nonce : Nonces]
    BY <2>1 DEF ReportKey, TypeOK
  <2> QED
    BY <2>2, <2>3 DEF ReportKey, TypeOK, link, ac2Fields, as1Fields
<1> QED
  BY <1>1, <1>2, <1>3, <1>4, <1>5, <1>6 DEF AC2Step

\* MulB multiplies by as1.b, which has a type only once it was drawn.
LEMMA TypeAS1 ==
    ASSUME TypeOK, IInv, NEW t \in threads, AS1Step(t)
    PROVE  TypeOK'
<1>0. ThreadOK(t)
  BY DEF TypeOK
<1>1. ASSUME SetUI(t) PROVE TypeOK'
  <2> USE <1>1
  <2>1. t.msg \in Replies
    BY <1>0, MessageFields DEF SetUI, At, ThreadOK
  <2>2. ThreadOK(Thread(t.msg, t.copy, "setSAC", Nil))
    BY <1>0 DEF ThreadOK, Thread, SetUI, At
  <2>3. \A u \in threads' : ThreadOK(u)
    BY <2>2, MoveType DEF SetUI
  <2>4. as1_UI' \in Nat
    BY <2>1 DEF SetUI, Replies
  <2> QED
    BY <2>3, <2>4 DEF SetUI, TypeOK, link, ac2Fields, history
<1>2. ASSUME SetSAC(t) PROVE TypeOK'
  <2> USE <1>2
  <2>1. t.msg \in Replies
    BY <1>0, MessageFields DEF SetSAC, At, ThreadOK
  <2>2. ThreadOK(Thread(t.msg, t.copy, "drawB", Nil))
    BY <1>0 DEF ThreadOK, Thread, SetSAC, At
  <2>3. \A u \in threads' : ThreadOK(u)
    BY <2>2, MoveType, FinishType DEF SetSAC
  <2>4. as1_SAC' \in Bytes12
    <3>1. t.msg.M2.x \in Bytes12 /\ SAC_AS1 \in Bytes12
      BY <2>1, ConstantsOK DEF Replies, Bytes12
    <3>2. as1_SAC' = Xor(SAC_AS1, t.msg.M2.x)
      BY DEF SetSAC
    <3> QED
      BY <3>1, <3>2, XorType
  <2>5. usedNonces' \in [Roles -> SUBSET Nonces]
    BY <1>0, Drawn, MarkType DEF SetSAC, TypeOK
  <2> QED
    BY <2>3, <2>4, <2>5 DEF SetSAC, TypeOK, link, ac2Fields, history
<1>3. ASSUME DrawB(t) PROVE TypeOK'
  <2> USE <1>3
  <2>1. ThreadOK(Thread(t.msg, t.copy, "mulB", Nil))
    BY <1>0 DEF ThreadOK, Thread, DrawB, At
  <2>2. \A u \in threads' : ThreadOK(u)
    BY <2>1, MoveType DEF DrawB
  <2>3. as1_b' \in Scalars \cup {Nil}
    BY <1>0, Drawn DEF DrawB
  <2> QED
    BY <2>2, <2>3 DEF DrawB, TypeOK, link, ac2Fields, history
<1>4. ASSUME MulB(t) PROVE TypeOK'
  <2> USE <1>4
  <2>0. as1_b # Nil
    BY DEF IInv, ThreadInv, MulB, At
  <2>1. Pub(as1_b) \in Pubs
    BY <2>0 DEF TypeOK, Pub, Pubs
  <2>2. ThreadOK(Thread(t.msg, t.copy, "setB", Pub(as1_b)))
    BY <1>0, <2>1 DEF ThreadOK, Thread, MulB, At
  <2>3. \A u \in threads' : ThreadOK(u)
    BY <2>2, MoveType DEF MulB
  <2> QED
    BY <2>3 DEF MulB, TypeOK, link, ac2Fields, as1Fields, history
<1>5. ASSUME SetB(t) PROVE TypeOK'
  <2> USE <1>5
  <2>1. t.tmp \in Pubs
    BY <1>0 DEF SetB, At, ThreadOK
  <2>2. ThreadOK(Thread(t.msg, t.copy, "request", Nil))
    BY <1>0 DEF ThreadOK, Thread, SetB, At
  <2>3. \A u \in threads' : ThreadOK(u)
    BY <2>2, MoveType DEF SetB
  <2>4. as1_B' \in PubOrNil
    BY <2>1 DEF SetB, PubOrNil
  <2> QED
    BY <2>3, <2>4 DEF SetB, TypeOK, link, ac2Fields, history
<1>6. ASSUME SendRqst1(t) PROVE TypeOK'
  <2> USE <1>6
  <2> DEFINE n3 == Nonce("N3", t)
             PT == [sac |-> as1_SAC, B |-> as1_B, ui1 |-> UI_AC1,
                    ui2 |-> as1_UI, n |-> n3]
             m == [type |-> "RQST_1", nonce |-> n3, sac |-> as1_SAC,
                   M3 |-> Seal("KS1", n3, StaticDH("AS1", "AC1"), PT)]
  <2>1. n3 \in Nonces
    BY <1>0, Drawn
  <2>2. m \in Messages
    <3>1. m \in Rqst1s
      BY <2>1, ConstantsOK DEF Rqst1s, Seal, StaticDH, Roles, TypeOK
    <3> QED
      BY <3>1 DEF Messages
  <2>3. Finish(t) /\ Transmit("AS1", m)
    BY DEF SendRqst1
  <2> HIDE DEF m
  <2>4. /\ phase' \in Phases /\ dropped' \in Nat
        /\ \A w \in wire' : PacketOK(w)
    BY <2>2, <2>3, TransmitType
  <2>5. \A u \in threads' : ThreadOK(u)
    BY <2>3, FinishType
  <2> QED
    BY <2>4, <2>5 DEF SendRqst1, TypeOK, ac2Fields, as1Fields, history
<1>7. ASSUME HashResp(t) PROVE TypeOK'
  <2> USE <1>7
  <2> DEFINE h == H2(as1_SAC, as1_UI, as1_B, t.msg.M5.J, t.msg.nonce)
  <2>1. t.msg \in Resps
    BY <1>0, MessageFields DEF HashResp, At, ThreadOK
  <2>2. h \in Hashes
    BY <2>1 DEF Resps, H2, Hashes, TypeOK
  <2>3. Move(t, "check", h)
    BY DEF HashResp
  <2> HIDE DEF h
  <2>4. ThreadOK(Thread(t.msg, t.copy, "check", h))
    BY <1>0, <2>2 DEF ThreadOK, Thread, HashResp, At
  <2>5. \A u \in threads' : ThreadOK(u)
    BY <2>3, <2>4, MoveType
  <2> QED
    BY <2>5 DEF HashResp, TypeOK, link, ac2Fields, as1Fields, history
<1>8. ASSUME VerifyResp(t) PROVE TypeOK'
  <2> USE <1>8
  <2> DEFINE key == AS1Key(as1_SAC, as1_UI, t.tmp, as1_b, t.msg.M5.J)
             n6 == Nonce("N6", t)
             m == [type |-> "KEY_EXC", nonce |-> n6, sac |-> as1_SAC,
                   MAS1 |-> Hmac(key, [sac |-> as1_SAC, ui |-> as1_UI])]
             a == [key |-> key, nonce |-> t.msg.nonce, copy |-> t.copy]
  <2>1. t.msg \in Resps /\ t.tmp \in Hashes /\ t.copy \in 0 .. MaxCopies
    BY <1>0, MessageFields DEF VerifyResp, At, ThreadOK
  <2>2. n6 \in Nonces
    BY <1>0, Drawn
  <2>3. ASSUME as1_b # Nil PROVE key \in Keys /\ m \in Messages
    <3>1. key \in Keys
      BY <2>1, <2>3 DEF TypeOK, AS1Key, KeyOf, Keys, Resps, Pubs
    <3> HIDE DEF key
    <3>2. m \in KeyExcs
      BY <2>2, <3>1 DEF TypeOK, KeyExcs, Hmac, KeyOrNil
    <3> QED
      BY <3>1, <3>2 DEF Messages
  <2>4. Finish(t)
    BY DEF VerifyResp
  <2>5. \/ /\ phase' = "crashed"
           /\ UNCHANGED <<dropped, wire, usedNonces, as1Log>>
        \/ /\ as1_b # Nil /\ as1Log' = as1Log \cup {a}
           /\ MarkUsed("AS1", n6) /\ Transmit("AS1", m)
        \/ UNCHANGED <<link, usedNonces, as1Log>>
    BY DEF VerifyResp
  <2> HIDE DEF key, n6, m
  <2>6. as1Log' \subseteq [key : Keys, nonce : Nonces, copy : 0 .. MaxCopies]
    BY <2>1, <2>3, <2>5 DEF TypeOK, Resps
  <2>7. /\ phase' \in Phases /\ dropped' \in Nat
        /\ \A w \in wire' : PacketOK(w)
        /\ usedNonces' \in [Roles -> SUBSET Nonces]
    BY <2>2, <2>3, <2>5, TransmitType, MarkType DEF TypeOK, link, Phases
  <2>8. \A u \in threads' : ThreadOK(u)
    BY <2>4, FinishType
  <2> QED
    BY <2>6, <2>7, <2>8 DEF VerifyResp, TypeOK, ac2Fields, as1Fields
<1> QED
  BY <1>1, <1>2, <1>3, <1>4, <1>5, <1>6, <1>7, <1>8 DEF AS1Step

\* Every step keeps the types, given IInv.
LEMMA TypeStep == TypeOK /\ IInv /\ [Next]_vars => TypeOK'
<1> SUFFICES ASSUME TypeOK, IInv, [Next]_vars PROVE TypeOK'
  OBVIOUS
<1>1. CASE UNCHANGED vars
  BY <1>1 DEF vars, link, ac2Fields, as1Fields, history, TypeOK
<1>2. CASE Next
  BY <1>2, TypeConnections, TypeAC1, TypeAC2, TypeAS1 DEF Next, Work
<1> QED
  BY <1>1, <1>2

----------------------------------------------------------------------------
(* The inductive invariant.                                                *)

\* What no step takes back.
Grows ==
    /\ as1_b # Nil => as1_b' # Nil
    /\ derived \subseteq derived'
    /\ as1Log \subseteq as1Log'
    /\ ac2_SAC = SAC_NEW => ac2_SAC' = SAC_NEW
    /\ ac2_KS \in derived => ac2_KS' \in derived'
    /\ \A r \in Roles : usedNonces[r] \subseteq usedNonces'[r]

\* usedNonces only grows.
LEMMA MarkGrows ==
    ASSUME TypeOK, NEW r \in Roles, NEW n, MarkUsed(r, n)
    PROVE  /\ \A q \in Roles : usedNonces[q] \subseteq usedNonces'[q]
           /\ n \in usedNonces'[r]
BY DEF TypeOK, MarkUsed

\* Every message is for one of the three nodes.
LEMMA DestRole ==
    ASSUME NEW m \in Messages
    PROVE  Dest[m.type] \in Roles
BY MessageFields DEF Dest, Roles

\* What a goroutine's step does to the messages under way.
LEMMA FlyingTransmit ==
    ASSUME NEW t \in threads, NEW from, NEW m, Finish(t), Transmit(from, m)
    PROVE  \A x \in Flying' : x \in Flying \/ x = m
BY DEF Finish, Transmit, Packet, Flying

\* A handler that moves on or ends without sending adds nothing to the
\* messages under way.
LEMMA FlyingMove ==
    ASSUME NEW t \in threads, NEW pc, NEW tmp,
           Move(t, pc, tmp) \/ Finish(t), UNCHANGED wire
    PROVE  \A x \in Flying' : x \in Flying
BY DEF Move, Finish, Thread, Flying

\* A goroutine that moves on or ends leaves HandledOnce alone.
LEMMA OnceKept ==
    ASSUME HandledOnce, NEW t \in threads, NEW pc, NEW tmp,
           Move(t, pc, tmp) \/ Finish(t), UNCHANGED as1Log
    PROVE  HandledOnce'
<1>1. \A u \in threads' : \/ u \in threads /\ u # t
                          \/ u = Thread(t.msg, t.copy, pc, tmp)
  BY DEF Move, Finish
<1>2. Thread(t.msg, t.copy, pc, tmp).msg = t.msg
  BY DEF Thread
<1> QED
  BY <1>1, <1>2 DEF HandledOnce

\* IInv from what is new: old messages, handlers and log entries keep their
\* parts of it because nothing is taken back.
LEMMA Preserve ==
    ASSUME TypeOK, IInv, Grows,
           \A m \in Flying' : m \in Flying \/ MsgInv(m)',
           \A u \in threads' : u \in threads \/ ThreadInv(u)',
           \A a \in as1Log' : a \in as1Log \/ LogInv(a)',
           \A v \in verified' : v \in verified \/ v.key \in Accepted',
           HandledOnce',
           (as1_SAC = {} \/ (as1_SAC = SAC_NEW /\ ac2_SAC = SAC_NEW))'
    PROVE  IInv'
<1>1. \A m \in Flying : MsgInv(m)'
  BY DEF IInv, MsgInv, Grows, Accepted
<1>2. \A u \in threads : ThreadInv(u)'
  <2> SUFFICES ASSUME NEW u \in threads PROVE ThreadInv(u)'
    OBVIOUS
  <2>1. Dest[u.msg.type] \in Roles
    BY DestRole DEF TypeOK, ThreadOK
  <2> QED
    BY <2>1 DEF IInv, ThreadInv, Grows
<1>3. \A a \in as1Log : LogInv(a)'
  BY DEF IInv, LogInv, Grows, Roles
<1>4. ClientAgreement'
  BY DEF IInv, ClientAgreement, Confirmed, Accepted, Grows
<1> QED
  BY <1>1, <1>2, <1>3, <1>4 DEF IInv

\* The state main sets up satisfies IInv: nothing is under way.
LEMMA IInvInit == Init => IInv
BY DEF Init, IInv, Flying, ClientAgreement, Confirmed, HandledOnce

\* The steps of the network, of AC1's listener and of main keep IInv.
LEMMA IInvConnections ==
    ASSUME TypeOK, IInv,
           \/ \E w \in wire : Receive(w) \/ Duplicate(w)
           \/ Listen
           \/ TimerFires
           \/ MainExits
           \/ Interrupt
    PROVE  IInv'
<1>1. ASSUME NEW w \in wire, Receive(w) PROVE IInv'
  <2> USE <1>1
  <2> DEFINE r == Dest[w.msg.type]
             x == Thread(w.msg, w.copy, FirstPc[w.msg.type], Nil)
  <2>1. w.msg \in Messages /\ r \in Roles
    BY DestRole DEF TypeOK, PacketOK
  <2>2. UNCHANGED <<ac2Fields, as1Fields, history>>
    BY DEF Receive
  <2>3. CASE Replayed(w)
    <3>1. threads' = threads /\ usedNonces' = usedNonces /\ wire' \subseteq wire
      BY <2>3 DEF Receive
    <3>2. Grows
      BY <2>2, <3>1 DEF Grows, ac2Fields, as1Fields, history
    <3>3. \A m \in Flying' : m \in Flying
      BY <3>1 DEF Flying
    <3>4. HandledOnce'
      BY <2>2, <3>1 DEF IInv, HandledOnce, history
    <3> QED
      BY <2>2, <3>1, <3>2, <3>3, <3>4, Preserve
      DEF IInv, ac2Fields, as1Fields, history
  <2>4. CASE ~Replayed(w)
    <3>1. threads' = threads \cup {x} /\ wire' \subseteq wire
      BY <2>4 DEF Receive
    <3>2. MarkUsed(r, w.msg.nonce) /\ w.msg.nonce \notin usedNonces[r]
      BY <2>4 DEF Receive, Replayed
    <3>3. Grows
      BY <2>1, <2>2, <3>2, MarkGrows
      DEF Grows, ac2Fields, as1Fields, history
    <3>4. \A m \in Flying' : m \in Flying
      BY <3>1 DEF Flying, Thread
    <3>5. x.msg = w.msg /\ x.pc = FirstPc[w.msg.type]
      BY DEF Thread
    <3>6. x.pc \notin {"reply", "respond", "mulB", "setB", "request", "check"}
      BY <2>1, <3>5, MessageFields DEF FirstPc
    <3>7. ThreadInv(x)'
      BY <2>1, <3>2, <3>5, <3>6, MarkGrows DEF ThreadInv
    <3>8. HandledOnce'
      <4>1. \A t \in threads : ~(Dest[t.msg.type] = r /\ t.msg.nonce = w.msg.nonce)
        BY <3>2 DEF IInv, ThreadInv
      <4>2. \A a \in as1Log : w.msg.type = "RESP" => w.msg.nonce # a.nonce
        BY <3>2 DEF IInv, LogInv, Dest
      <4>3. HandledOnce
        BY DEF IInv
      <4> HIDE DEF x, r
      <4> QED
        BY <2>2, <3>1, <3>5, <4>1, <4>2, <4>3 DEF HandledOnce, history, r
    <3> HIDE DEF x, r
    <3> QED
      BY <2>2, <3>1, <3>3, <3>4, <3>7, <3>8, Preserve
      DEF IInv, ac2Fields, as1Fields, history
  <2> QED
    BY <2>3, <2>4
<1>2. ASSUME NEW w \in wire, Duplicate(w) PROVE IInv'
  <2> USE <1>2
  <2>1. UNCHANGED <<threads, usedNonces, ac2Fields, as1Fields, history>>
    BY DEF Duplicate
  <2>2. Grows
    BY <2>1 DEF Grows, ac2Fields, as1Fields, history
  <2>3. \A m \in Flying' : m \in Flying
    BY <2>1 DEF Duplicate, Packet, Flying
  <2>4. HandledOnce'
    BY <2>1 DEF IInv, HandledOnce, history
  <2> QED
    BY <2>1, <2>2, <2>3, <2>4, Preserve DEF IInv, ac2Fields, as1Fields, history
<1>3. ASSUME Listen \/ TimerFires \/ MainExits \/ Interrupt PROVE IInv'
  <2>1. UNCHANGED <<wire, threads, usedNonces, ac2Fields, as1Fields, history>>
    BY <1>3 DEF Listen, TimerFires, MainExits, Interrupt, link
  <2>2. Grows
    BY <2>1 DEF Grows, ac2Fields, as1Fields, history
  <2>3. \A m \in Flying' : m \in Flying
    BY <2>1 DEF Flying
  <2>4. HandledOnce'
    BY <2>1 DEF IInv, HandledOnce, history
  <2> QED
    BY <2>1, <2>2, <2>3, <2>4, Preserve DEF IInv, ac2Fields, as1Fields, history
<1> QED
  BY <1>1, <1>2, <1>3

\* The steps of AC1 keep IInv.
LEMMA IInvAC1 ==
    ASSUME TypeOK, IInv, SendNotic \/ \E t \in threads : AC1Step(t)
    PROVE  IInv'
<1>1. ASSUME SendNotic PROVE IInv'
  <2> USE <1>1
  <2> DEFINE n1 == [n |-> "N1", s |-> notices + 1, c |-> 0]
             P == [ui1 |-> UI_AC1, ua |-> UA_AS1, sac |-> SAC_AS1,
                   ui2 |-> UI_AC2, n |-> n1]
             m == [type |-> "NOTIC", nonce |-> n1, ui |-> UI_AC1,
                   M1 |-> Seal("SK_AC12", n1, StaticDH("AC1", "AC2"), P)]
  <2>1. \A x : x = m => MsgInv(x)'
    BY DEF MsgInv, Seal
  <2>2. Transmit("AC1", m) /\ MarkUsed("AC1", n1)
        /\ UNCHANGED <<threads, ac2Fields, as1Fields, history>>
    BY DEF SendNotic
  <2> HIDE DEF m, n1
  <2>3. Grows
    BY <2>2, MarkGrows DEF Grows, ac2Fields, as1Fields, history, Roles
  <2>4. \A x \in Flying' : x \in Flying \/ x = m
    BY <2>2 DEF Transmit, Packet, Flying
  <2>5. HandledOnce'
    BY <2>2 DEF IInv, HandledOnce, history
  <2> QED
    BY <2>1, <2>2, <2>3, <2>4, <2>5, Preserve
    DEF IInv, ac2Fields, as1Fields, history
<1>2. ASSUME NEW t \in threads, RelayB(t) PROVE IInv'
  <2> USE <1>2
  <2> DEFINE n4 == Nonce("N4", t)
             m == [type |-> "RQST_2", nonce |-> n4, ui |-> UI_AC1,
                   M4 |-> Blind(Scalar(t), [ui1 |-> UI_AC1, ua |-> UA_AS1,
                            sac |-> t.msg.sac, B |-> t.msg.M3.pt.B])]
  <2>1. Finish(t) /\ UNCHANGED <<ac2Fields, as1Fields, history>>
        /\ \/ Transmit("AC1", m) /\ MarkUsed("AC1", n4)
           \/ UNCHANGED <<link, usedNonces>>
    BY DEF RelayB
  <2>2. as1_b # Nil
    BY DEF RelayB, At, IInv, MsgInv, Flying
  <2>3. \A x : x = m => MsgInv(x)'
    BY <2>1, <2>2 DEF MsgInv, as1Fields
  <2> HIDE DEF m, n4
  <2>4. Grows
    BY <2>1, MarkGrows DEF Grows, ac2Fields, as1Fields, history, Roles
  <2>5. \A x \in Flying' : x \in Flying \/ x = m
    BY <2>1, FlyingTransmit, FlyingMove DEF link
  <2>6. HandledOnce'
    BY <2>1, OnceKept DEF IInv, history
  <2>7. \A u \in threads' : u \in threads
    BY <2>1 DEF Finish
  <2> QED
    BY <2>1, <2>3, <2>4, <2>5, <2>6, <2>7, Preserve
    DEF IInv, ac2Fields, as1Fields, history
<1> QED
  BY <1>1, <1>2 DEF AC1Step

\* The steps of AC2 keep IInv.
LEMMA IInvAC2 ==
    ASSUME TypeOK, IInv, NEW t \in threads, AC2Step(t)
    PROVE  IInv'
<1>0. /\ ThreadOK(t) /\ t.msg \in Messages
      /\ t.msg \in Flying /\ MsgInv(t.msg) /\ ThreadInv(t)
      /\ t.msg.nonce \in usedNonces[Dest[t.msg.type]]
  BY DEF TypeOK, ThreadOK, IInv, Flying, ThreadInv
<1>1. ASSUME OpenNotic(t) PROVE IInv'
  <2> USE <1>1
  <2> DEFINE x == Thread(t.msg, t.copy, "reply", t.msg.M1.pt.sac)
  <2>1. /\ Move(t, "reply", t.msg.M1.pt.sac) \/ Finish(t)
        /\ UNCHANGED <<link, usedNonces, ac2_SAC, ac2_KS, as1Fields, history>>
    BY DEF OpenNotic
  <2>2. Grows
    BY <2>1 DEF Grows, as1Fields, history
  <2>3. \A m \in Flying' : m \in Flying
    BY <2>1, FlyingMove DEF link
  <2>4. HandledOnce'
    BY <2>1, OnceKept DEF IInv, history
  <2>5. ThreadInv(x)'
    BY <1>0, <2>1 DEF ThreadInv, Thread, MsgInv, OpenNotic, At
  <2>6. \A u \in threads' : u \in threads \/ u = x
    BY <2>1 DEF Move, Finish
  <2> HIDE DEF x
  <2> QED
    BY <2>1, <2>2, <2>3, <2>4, <2>5, <2>6, Preserve
    DEF IInv, as1Fields, history
<1>2. ASSUME SendReply(t) PROVE IInv'
  <2> USE <1>2
  <2> DEFINE n2 == Nonce("N2", t)
             m == [type |-> "REPLY", nonce |-> n2, ui |-> UI_AC2,
                   M2 |-> [ui1 |-> UI_AC1, x |-> Xor(t.tmp, ac2_SAC')]]
  <2>1. /\ Finish(t) /\ MarkUsed("AC2", n2) /\ Transmit("AC2", m)
        /\ ac2_SAC' = SAC_NEW
        /\ UNCHANGED <<ac2_UA, ac2_KS, as1Fields, history>>
    BY DEF SendReply
  <2>2. \A x : x = m => MsgInv(x)'
    BY <1>0, <2>1 DEF MsgInv, ThreadInv, SendReply, At
  <2> HIDE DEF m, n2
  <2>3. Grows
    BY <2>1, MarkGrows DEF Grows, as1Fields, history, Roles
  <2>4. \A x \in Flying' : x \in Flying \/ x = m
    BY <2>1, FlyingTransmit
  <2>5. HandledOnce'
    BY <2>1, OnceKept DEF IInv, history
  <2>6. \A u \in threads' : u \in threads
    BY <2>1 DEF Finish
  <2> QED
    BY <2>1, <2>2, <2>3, <2>4, <2>5, <2>6, Preserve
    DEF IInv, as1Fields, history
<1>3. ASSUME DeriveKey(t) PROVE IInv'
  <2> USE <1>3
  <2> DEFINE n5 == Nonce("N5", t)
             data == Unblind(t.msg.M4)
             k == H2(ac2_SAC, UI_AC2, data.B, Pub(Scalar(t)), n5)
             key == AC2Key(ac2_SAC, k, data.B, Scalar(t))
             x == Thread(t.msg, t.copy, "respond", k)
  <2>1. /\ \/ /\ MarkUsed("AC2", n5) /\ ac2_KS' = key
              /\ derived' = derived \cup {key} /\ Move(t, "respond", k)
           \/ Finish(t) /\ UNCHANGED <<usedNonces, ac2_KS, derived>>
        /\ UNCHANGED <<link, ac2_SAC, as1Fields, as1Log, verified>>
    BY DEF DeriveKey
  <2> HIDE DEF n5, key, k, data
  <2>2. Grows
    BY <2>1, MarkGrows DEF Grows, as1Fields, Roles
  <2>3. \A m \in Flying' : m \in Flying
    BY <2>1, FlyingMove DEF link
  <2>4. HandledOnce'
    BY <2>1, OnceKept DEF IInv
  <2>5. \A u \in threads' : u \in threads \/ (u = x /\ ac2_KS' \in derived')
    BY <2>1 DEF Move, Finish
  <2>6. ac2_KS' \in derived' => \A u : u = x => ThreadInv(u)'
    BY <1>0, <2>2, DestRole DEF ThreadInv, Thread, Grows
  <2> HIDE DEF x
  <2> QED
    BY <2>1, <2>2, <2>3, <2>4, <2>5, <2>6, Preserve DEF IInv, as1Fields
<1>4. ASSUME SendResp(t) PROVE IInv'
  <2> USE <1>4
  <2> DEFINE m == [type |-> "RESP", nonce |-> t.tmp.n5, ui |-> UI_AC2,
                   M5 |-> [J |-> t.tmp.J, mac |-> Hmac(ac2_KS, t.tmp)]]
  <2>1. /\ Finish(t) /\ Transmit("AC2", m)
        /\ UNCHANGED <<usedNonces, ac2Fields, as1Fields, history>>
    BY DEF SendResp
  <2>2. ac2_KS \in derived /\ as1_b # Nil
    BY <1>0 DEF SendResp, At, ThreadInv, MsgInv
  <2>3. \A x : x = m => MsgInv(x)'
    BY <2>1, <2>2 DEF MsgInv, Hmac, as1Fields, history
  <2> HIDE DEF m
  <2>4. Grows
    BY <2>1 DEF Grows, ac2Fields, as1Fields, history
  <2>5. \A x \in Flying' : x \in Flying \/ x = m
    BY <2>1, FlyingTransmit
  <2>6. HandledOnce'
    BY <2>1, OnceKept DEF IInv, history
  <2>7. \A u \in threads' : u \in threads
    BY <2>1 DEF Finish
  <2> QED
    BY <2>1, <2>3, <2>4, <2>5, <2>6, <2>7, Preserve
    DEF IInv, ac2Fields, as1Fields, history
<1>5. ASSUME VerifyKeyExc(t) \/ ReportKey(t) PROVE IInv'
  <2> USE <1>5
  <2> DEFINE x == Thread(t.msg, t.copy, "report", Nil)
  <2>1. /\ Move(t, "report", Nil) \/ Finish(t)
        /\ UNCHANGED <<link, usedNonces, ac2Fields, as1Fields, as1Log, derived>>
    BY DEF VerifyKeyExc, ReportKey
  <2>2. Grows
    BY <2>1 DEF Grows, ac2Fields, as1Fields
  <2>3. \A m \in Flying' : m \in Flying
    BY <2>1, FlyingMove DEF link
  <2>4. HandledOnce'
    BY <2>1, OnceKept DEF IInv
  <2>5. ThreadInv(x)'
    BY <1>0, <2>1 DEF ThreadInv, Thread
  <2>6. \A u \in threads' : u \in threads \/ u = x
    BY <2>1 DEF Move, Finish
  <2>7. \A v \in verified' : v \in verified \/ v.key \in Accepted'
    BY <1>0, <2>1 DEF VerifyKeyExc, ReportKey, At, MsgInv, Hmac, Accepted
  <2> HIDE DEF x
  <2> QED
    BY <2>1, <2>2, <2>3, <2>4, <2>5, <2>6, <2>7, Preserve
    DEF IInv, ac2Fields, as1Fields
<1> QED
  BY <1>1, <1>2, <1>3, <1>4, <1>5 DEF AC2Step

\* The steps of AS1 keep IInv.
LEMMA IInvAS1 ==
    ASSUME TypeOK, IInv, NEW t \in threads, AS1Step(t)
    PROVE  IInv'
<1>0. /\ ThreadOK(t) /\ t.msg \in Messages
      /\ t.msg \in Flying /\ MsgInv(t.msg) /\ ThreadInv(t)
      /\ t.msg.nonce \in usedNonces[Dest[t.msg.type]]
  BY DEF TypeOK, ThreadOK, IInv, Flying, ThreadInv
<1>1. ASSUME SetUI(t) \/ MulB(t) \/ SetB(t) PROVE IInv'
  <2> USE <1>1
  <2>1. PICK pc, tmp :
            /\ pc \in {"setSAC", "setB", "request"}
            /\ Move(t, pc, tmp)
            /\ pc # "setSAC" => as1_b # Nil
    BY <1>0 DEF SetUI, MulB, SetB, At, ThreadInv
  <2> DEFINE x == Thread(t.msg, t.copy, pc, tmp)
  <2>2. UNCHANGED <<link, usedNonces, ac2Fields, as1_SAC, as1_b, history>>
    BY DEF SetUI, MulB, SetB, as1Fields
  <2>3. Grows
    BY <2>2 DEF Grows, ac2Fields, history
  <2>4. \A m \in Flying' : m \in Flying
    BY <2>1, <2>2, FlyingMove DEF link
  <2>5. HandledOnce'
    BY <2>1, <2>2, OnceKept DEF IInv, history
  <2>6. ThreadInv(x)'
    BY <1>0, <2>1, <2>2 DEF ThreadInv, Thread
  <2>7. \A u \in threads' : u \in threads \/ u = x
    BY <2>1 DEF Move
  <2> HIDE DEF x
  <2> QED
    BY <2>2, <2>3, <2>4, <2>5, <2>6, <2>7, Preserve DEF IInv, ac2Fields, history
<1>2. ASSUME SetSAC(t) PROVE IInv'
  <2> USE <1>2
  <2> DEFINE x == Thread(t.msg, t.copy, "drawB", Nil)
  <2>1. /\ \/ Move(t, "drawB", Nil) /\ MarkUsed("AS1", Nonce("N3", t))
           \/ Finish(t) /\ UNCHANGED usedNonces
        /\ UNCHANGED <<link, ac2Fields, as1_b, history>>
    BY DEF SetSAC
  <2>2. as1_SAC' = SAC_NEW /\ ac2_SAC' = SAC_NEW
    BY <1>0, <2>1, XorCancels DEF SetSAC, At, MsgInv, ac2Fields
  <2>3. Grows
    BY <2>1, MarkGrows DEF Grows, ac2Fields, history, Roles
  <2>4. \A m \in Flying' : m \in Flying
    BY <2>1, FlyingMove DEF link
  <2>5. HandledOnce'
    BY <2>1, OnceKept DEF IInv, history
  <2>6. ThreadInv(x)'
    BY <1>0, <2>3, DestRole DEF ThreadInv, Thread, Grows
  <2>7. \A u \in threads' : u \in threads \/ u = x
    BY <2>1 DEF Move, Finish
  <2> HIDE DEF x
  <2> QED
    BY <2>1, <2>2, <2>3, <2>4, <2>5, <2>6, <2>7, Preserve DEF history
<1>3. ASSUME DrawB(t) PROVE IInv'
  <2> USE <1>3
  <2> DEFINE x == Thread(t.msg, t.copy, "mulB", Nil)
  <2>1. /\ Move(t, "mulB", Nil) /\ as1_b' = Scalar(t)
        /\ UNCHANGED <<link, usedNonces, ac2Fields, as1_SAC, history>>
    BY DEF DrawB
  <2>2. as1_b' # Nil
    BY <1>0, <2>1, Drawn, NilOK
  <2>3. Grows
    BY <2>1, <2>2 DEF Grows, ac2Fields, history
  <2>4. \A m \in Flying' : m \in Flying
    BY <2>1, FlyingMove DEF link
  <2>5. HandledOnce'
    BY <2>1, OnceKept DEF IInv, history
  <2>6. ThreadInv(x)'
    BY <1>0, <2>1, <2>2 DEF ThreadInv, Thread
  <2>7. \A u \in threads' : u \in threads \/ u = x
    BY <2>1 DEF Move
  <2> HIDE DEF x
  <2> QED
    BY <2>1, <2>3, <2>4, <2>5, <2>6, <2>7, Preserve DEF IInv, ac2Fields, history
<1>4. ASSUME SendRqst1(t) PROVE IInv'
  <2> USE <1>4
  <2> DEFINE n3 == Nonce("N3", t)
             PT == [sac |-> as1_SAC, B |-> as1_B, ui1 |-> UI_AC1,
                    ui2 |-> as1_UI, n |-> n3]
             m == [type |-> "RQST_1", nonce |-> n3, sac |-> as1_SAC,
                   M3 |-> Seal("KS1", n3, StaticDH("AS1", "AC1"), PT)]
  <2>1. /\ Finish(t) /\ Transmit("AS1", m)
        /\ UNCHANGED <<usedNonces, ac2Fields, as1Fields, history>>
    BY DEF SendRqst1
  <2>2. as1_b # Nil
    BY <1>0 DEF SendRqst1, At, ThreadInv
  <2>3. \A x : x = m => MsgInv(x)'
    BY <2>1, <2>2 DEF MsgInv, as1Fields
  <2> HIDE DEF m
  <2>4. Grows
    BY <2>1 DEF Grows, ac2Fields, as1Fields, history
  <2>5. \A x \in Flying' : x \in Flying \/ x = m
    BY <2>1, FlyingTransmit
  <2>6. HandledOnce'
    BY <2>1, OnceKept DEF IInv, history
  <2>7. \A u \in threads' : u \in threads
    BY <2>1 DEF Finish
  <2> QED
    BY <2>1, <2>3, <2>4, <2>5, <2>6, <2>7, Preserve
    DEF IInv, ac2Fields, as1Fields, history
<1>5. ASSUME HashResp(t) PROVE IInv'
  <2> USE <1>5
  <2> DEFINE h == H2(as1_SAC, as1_UI, as1_B, t.msg.M5.J, t.msg.nonce)
             x == Thread(t.msg, t.copy, "check", h)
  <2>1. /\ Move(t, "check", h)
        /\ UNCHANGED <<link, usedNonces, ac2Fields, as1Fields, history>>
    BY DEF HashResp
  <2>2. Grows
    BY <2>1 DEF Grows, ac2Fields, as1Fields, history
  <2>3. \A m \in Flying' : m \in Flying
    BY <2>1, FlyingMove DEF link
  <2>4. HandledOnce'
    BY <2>1, OnceKept DEF IInv, history
  <2>5. \A u : u = x => ThreadInv(u)'
    BY <1>0, <2>1 DEF ThreadInv, Thread, H2
  <2>6. \A u \in threads' : u \in threads \/ u = x
    BY <2>1 DEF Move
  <2> HIDE DEF x
  <2> QED
    BY <2>1, <2>2, <2>3, <2>4, <2>5, <2>6, Preserve
    DEF IInv, ac2Fields, as1Fields, history
<1>6. ASSUME VerifyResp(t) PROVE IInv'
  <2> USE <1>6
  <2> DEFINE key == AS1Key(as1_SAC, as1_UI, t.tmp, as1_b, t.msg.M5.J)
             n6 == Nonce("N6", t)
             m == [type |-> "KEY_EXC", nonce |-> n6, sac |-> as1_SAC,
                   MAS1 |-> Hmac(key, [sac |-> as1_SAC, ui |-> as1_UI])]
             a == [key |-> key, nonce |-> t.msg.nonce, copy |-> t.copy]
  <2>1. /\ Finish(t) /\ t.msg.type = "RESP"
        /\ UNCHANGED <<ac2Fields, as1Fields, derived, verified>>
        /\ \/ UNCHANGED <<wire, usedNonces, as1Log>>
           \/ /\ t.msg.M5.mac = Hmac(key, t.tmp)
              /\ as1Log' = as1Log \cup {a}
              /\ MarkUsed("AS1", n6) /\ Transmit("AS1", m)
    BY DEF VerifyResp, At, link
  <2>2. t.tmp.n5 = t.msg.nonce
    BY <1>0 DEF VerifyResp, At, ThreadInv
  <2>3. \A u \in threads' : u \in threads /\ u # t
    BY <2>1 DEF Finish
  <2>4. key.k = t.tmp
    BY DEF AS1Key, KeyOf
  <2>5. t.msg.M5.mac = Hmac(key, t.tmp) => key \in derived
    BY <1>0, <2>1 DEF MsgInv, Hmac
  <2>6. as1Log' = as1Log \cup {a} => \A x : x = m => MsgInv(x)'
    <3>1. as1Log' = as1Log \cup {a} => key \in Accepted'
      BY DEF Accepted
    <3>2. m.type = "KEY_EXC" /\ m.MAS1.key = key
      BY DEF Hmac
    <3> HIDE DEF a, key, m
    <3> QED
      BY <3>1, <3>2 DEF MsgInv
  <2> HIDE DEF key, n6, m
  <2>7. Grows
    BY <2>1, MarkGrows DEF Grows, ac2Fields, as1Fields, Roles
  <2>8. \A x \in Flying' : x \in Flying \/ MsgInv(x)'
    BY <2>1, <2>6, FlyingTransmit, FlyingMove
  <2>9. t.msg.nonce \in usedNonces'["AS1"]
    BY <1>0, <2>1, <2>7 DEF Grows, Dest, Roles
  <2>10. \A b \in as1Log' : b \in as1Log \/ LogInv(b)'
    BY <2>1, <2>2, <2>4, <2>5, <2>9 DEF LogInv
  <2>11. HandledOnce'
    <3>1. HandledOnce
      BY DEF IInv
    <3>2. \A u \in threads' :
            u.msg.type = "RESP" => u.msg.nonce # t.msg.nonce
      BY <2>1, <2>3, <3>1 DEF HandledOnce
    <3>3. \A b \in as1Log : b.nonce # t.msg.nonce
      BY <2>1, <3>1 DEF HandledOnce
    <3>4. as1Log' = as1Log \/ as1Log' = as1Log \cup {a}
      BY <2>1
    <3>5. a.nonce = t.msg.nonce
      OBVIOUS
    <3> HIDE DEF a
    <3> QED
      BY <2>3, <3>1, <3>2, <3>3, <3>4, <3>5 DEF HandledOnce
  <2> QED
    BY <2>1, <2>3, <2>7, <2>8, <2>10, <2>11, Preserve
    DEF IInv, ac2Fields, as1Fields
<1> QED
  BY <1>1, <1>2, <1>3, <1>4, <1>5, <1>6 DEF AS1Step

\* Every step keeps IInv, given the types.
LEMMA IInvStep == TypeOK /\ IInv /\ [Next]_vars => IInv'
<1> SUFFICES ASSUME TypeOK, IInv, [Next]_vars PROVE IInv'
  OBVIOUS
<1>1. CASE UNCHANGED vars
  <2>1. UNCHANGED <<wire, threads, usedNonces, ac2Fields, as1Fields, history>>
    BY <1>1 DEF vars, link
  <2>2. Grows
    BY <2>1 DEF Grows, ac2Fields, as1Fields, history
  <2>3. (\A m \in Flying' : m \in Flying) /\ HandledOnce'
    BY <2>1 DEF Flying, IInv, HandledOnce, history
  <2> QED
    BY <2>1, <2>2, <2>3, Preserve DEF IInv, ac2Fields, as1Fields, history
<1>2. CASE Next
  BY <1>2, IInvConnections, IInvAC1, IInvAC2, IInvAS1 DEF Next, Work
<1> QED
  BY <1>1, <1>2

----------------------------------------------------------------------------
(* The theorems.                                                           *)

\* The types and IInv hold together, each resting on the other.
LEMMA Invariance == Spec => [](TypeOK /\ IInv)
<1>1. Init => TypeOK /\ IInv
  BY TypeInit, IInvInit
<1>2. TypeOK /\ IInv /\ [Next]_vars => (TypeOK /\ IInv)'
  BY TypeStep, IInvStep
<1> QED
  BY <1>1, <1>2, PTL DEF Spec

\* Every field, message, handler and log entry has its type.  MulB makes the
\* type of as1.b depend on IInv, so the two are proved together.
THEOREM TypeCorrect == Spec => []TypeOK
BY Invariance, PTL

\* What is under way, in the handlers and in the logs is tied to the nodes'
\* fields as IInv says, for every number of overlapping sessions.
THEOREM InductiveInvariant == Spec => []IInv
BY Invariance, PTL

\* No repeat of a message is handled twice, however many there are and
\* however the goroutines interleave (the replay checks of the handlers).
THEOREM RepeatsRefused == Spec => []HandledOnce
<1>1. IInv => HandledOnce
  BY DEF IInv
<1> QED
  BY <1>1, InductiveInvariant, PTL

\* AS1 prints no session key that AC2 has not derived (as1.go:323), although
\* the two nodes' fields are shared by all sessions.
THEOREM ServerAgrees == Spec => []ServerAgreement
<1>1. IInv => ServerAgreement
  BY DEF IInv, LogInv, ServerAgreement, Accepted
<1> QED
  BY <1>1, InductiveInvariant, PTL

\* AC2 authenticates AS1 only under a key AS1 has accepted (ac2.go:480).
THEOREM ClientAgrees == Spec => []ClientAgreement
<1>1. IInv => ClientAgreement
  BY DEF IInv
<1> QED
  BY <1>1, InductiveInvariant, PTL

\* No session key is accepted twice (as1.go:278 and 323).
THEOREM InjectivelyAgrees == Spec => []InjectiveAgreement
<1>1. IInv => InjectiveAgreement
  BY DEF IInv, LogInv, HandledOnce, InjectiveAgreement
<1> QED
  BY <1>1, InductiveInvariant, PTL

\* The address AS1 unmasks is the one AC2 assigned (as1.go:197).
THEOREM AddressAgrees == Spec => []AddressAgreed
<1>1. IInv => AddressAgreed
  BY DEF IInv, AddressAgreed
<1> QED
  BY <1>1, InductiveInvariant, PTL

\* No RESP handler finds a nil b, so none panics (as1.go:300).
THEOREM ScalarIsDrawn == Spec => []ScalarDrawn
<1>1. IInv => ScalarDrawn
  BY DEF IInv, MsgInv, Flying, ScalarDrawn
<1> QED
  BY <1>1, InductiveInvariant, PTL

----------------------------------------------------------------------------
(* Refinement.                                                             *)

\* A key that a RESP handler accepts was derived and not accepted before.
LEMMA AcceptNew ==
    ASSUME TypeOK, IInv, NEW t \in threads, VerifyResp(t)
    PROVE  KA!Accept \/ UNCHANGED KA!kvars
<1> DEFINE key == AS1Key(as1_SAC, as1_UI, t.tmp, as1_b, t.msg.M5.J)
           a == [key |-> key, nonce |-> t.msg.nonce, copy |-> t.copy]
<1>1. /\ t.msg.type = "RESP" /\ t.tmp.n5 = t.msg.nonce
      /\ t.msg.M5.mac.key \in derived
      /\ UNCHANGED <<derived, verified>>
      /\ \/ UNCHANGED as1Log
         \/ t.msg.M5.mac = Hmac(key, t.tmp) /\ as1Log' = as1Log \cup {a}
  BY DEF VerifyResp, At, IInv, ThreadInv, MsgInv, Flying
<1>2. key.k = t.tmp
  BY DEF AS1Key, KeyOf
<1> HIDE DEF key
<1>3. CASE UNCHANGED as1Log
  BY <1>1, <1>3 DEF KA!kvars, Accepted, Confirmed
<1>4. CASE t.msg.M5.mac = Hmac(key, t.tmp) /\ as1Log' = as1Log \cup {a}
  <2>1. key \in derived
    BY <1>1, <1>4 DEF Hmac
  <2>2. key \notin Accepted
    BY <1>1, <1>2 DEF IInv, HandledOnce, LogInv, Accepted
  <2>3. Accepted' = Accepted \cup {key}
    <3>1. a.key = key /\ as1Log' = as1Log \cup {a}
      BY <1>4
    <3> HIDE DEF a
    <3>2. Accepted' = {x.key : x \in as1Log \cup {a}}
      BY <3>1 DEF Accepted
    <3> QED
      BY <3>1, <3>2 DEF Accepted
  <2> QED
    BY <1>1, <2>1, <2>2, <2>3 DEF KA!Accept, Confirmed
<1> QED
  BY <1>1, <1>3, <1>4

\* Every other step derives a key, confirms an accepted one, or is silent.
LEMMA OthersSilent ==
    ASSUME TypeOK, IInv, Next, \A t \in threads : ~VerifyResp(t)
    PROVE  KA!KANext \/ UNCHANGED KA!kvars
<1>1. ASSUME NEW t \in threads, DeriveKey(t)
      PROVE  KA!Derive \/ UNCHANGED KA!kvars
  <2>1. /\ UNCHANGED <<as1Log, verified>>
        /\ \/ \E k : derived' = derived \cup {k}
           \/ UNCHANGED derived
    BY <1>1 DEF DeriveKey
  <2> QED
    BY <2>1 DEF KA!Derive, KA!kvars, Accepted, Confirmed
<1>2. ASSUME NEW t \in threads, VerifyKeyExc(t)
      PROVE  KA!Confirm \/ UNCHANGED KA!kvars
  <2> DEFINE v == [key |-> ac2_KS, nonce |-> t.msg.nonce]
  <2>1. /\ UNCHANGED <<as1Log, derived>>
        /\ \/ verified' = verified \cup {v} /\ t.msg.MAS1.key = ac2_KS
           \/ UNCHANGED verified
    BY <1>2 DEF VerifyKeyExc, Hmac
  <2>2. t.msg.MAS1.key \in Accepted
    BY <1>2 DEF VerifyKeyExc, At, IInv, MsgInv, Flying
  <2>3. verified' = verified \cup {v} => Confirmed' = Confirmed \cup {ac2_KS}
    <3>1. v.key = ac2_KS
      OBVIOUS
    <3> HIDE DEF v
    <3> QED
      BY <3>1 DEF Confirmed
  <2> QED
    BY <2>1, <2>2, <2>3 DEF KA!Confirm, KA!kvars, Accepted, Confirmed
<1>3. ASSUME UNCHANGED <<as1Log, derived, verified>>
      PROVE  UNCHANGED KA!kvars
  BY <1>3 DEF KA!kvars, Accepted, Confirmed
<1>4. \/ \E t \in threads : DeriveKey(t) \/ VerifyKeyExc(t)
      \/ UNCHANGED <<as1Log, derived, verified>>
  BY DEF Next, Work, AC1Step, AC2Step, AS1Step, SendNotic, Listen, Receive,
         Duplicate, TimerFires, MainExits, Interrupt, RelayB, OpenNotic,
         SendReply, SendResp, ReportKey, SetUI, SetSAC, DrawB, MulB, SetB,
         SendRqst1, HashResp, history
<1> QED
  BY <1>1, <1>2, <1>3, <1>4 DEF KA!KANext

\* The handlers, run by any number of goroutines, implement the abstract
\* agreement on session keys.
THEOREM ImplementsKeyAgreement == Spec => Agreement
<1>1. Init => KA!KAInit
  BY DEF Init, KA!KAInit, Accepted, Confirmed
<1>2. TypeOK /\ IInv /\ [Next]_vars => [KA!KANext]_KA!kvars
  <2> SUFFICES ASSUME TypeOK, IInv, [Next]_vars
               PROVE  KA!KANext \/ UNCHANGED KA!kvars
    OBVIOUS
  <2>1. CASE UNCHANGED vars
    BY <2>1 DEF vars, history, KA!kvars, Accepted, Confirmed
  <2>2. CASE Next /\ \E t \in threads : VerifyResp(t)
    BY <2>2, AcceptNew DEF KA!KANext
  <2>3. CASE Next /\ \A t \in threads : ~VerifyResp(t)
    BY <2>3, OthersSilent
  <2> QED
    BY <2>1, <2>2, <2>3
<1> QED
  BY <1>1, <1>2, Invariance, PTL DEF Spec, Agreement, KA!KASpec
============================================================================
