-------------------------- MODULE CrossDomainAuth --------------------------
(***************************************************************************)
(* The cross-domain authentication and key agreement of                    *)
(* cross_domain_auth/: the ground controllers AC1 and AC2 and the aircraft *)
(* AS1, each a TCP server that runs one goroutine per connection.          *)
(*                                                                         *)
(*   AC1 --NOTIC--> AC2 --REPLY--> AS1 --RQST_1--> AC1                     *)
(*   AC1 --RQST_2-> AC2 --RESP---> AS1 --KEY_EXC-> AC2                     *)
(*                                                                         *)
(* A handler is split where it touches a field of its node that another    *)
(* goroutine may write: those fields are not protected by the node's       *)
(* mutex, which guards usedNonces only.  Everything between two such       *)
(* accesses is one step.  Cryptography is symbolic: a hash, a MAC or a     *)
(* sealed text is the record of what went into it, a random value is named *)
(* after the handler that drew it, and a group element is determined by    *)
(* the scalars in it.                                                      *)
(*                                                                         *)
(* Init is the state in which main has waited for AC2 and AS1 to listen    *)
(* and starts AC1 (main.go, lines 38 to 59).                               *)
(***************************************************************************)
EXTENDS Naturals

CONSTANTS
    NumSessions,   \* calls of SendCR_AUC_RQST_NOTIC; main makes one
    Serial,        \* TRUE: a call is made only when the last session is over
    MaxCopies,     \* bound: how often the network repeats one message
    MaxDropped,    \* bound: failed dials besides those to a closed port
    UI_AC1, UI_AC2, UA_AS1,  \* the identifiers of initializeKeys
    SAC_AS1,       \* AS1's address in the first cell, as the set of its bits
    SAC_NEW,       \* the address AC2 assigns, the 0xDEF of ac2.go
    Nil            \* a nil pointer or slice

Bits == 0 .. 11    \* a SAC is a 12-bit number

ASSUME ConstantsOK ==
    /\ NumSessions \in Nat \ {0}
    /\ Serial \in BOOLEAN
    /\ MaxCopies \in Nat
    /\ MaxDropped \in Nat
    /\ {UI_AC1, UI_AC2, UA_AS1} \subseteq Nat
    /\ SAC_AS1 \subseteq Bits
    /\ SAC_NEW \subseteq Bits

VARIABLES
    phase,         \* of the process, see Phases
    ac1Listening,  \* AC1's startServer has reached Listen
    notices,       \* NOTICs sent so far
    dropped,       \* dials that failed
    wire,          \* messages written to a connection and not yet read
    threads,       \* handler goroutines past their replay check
    usedNonces,    \* the usedNonces map of each node
    ac2_UA,        \* ac2.UA_AS1
    ac2_SAC,       \* ac2.SAC_AS1_2
    ac2_KS,        \* ac2.KS_AC2_AS1
    as1_UI,        \* as1.UI_AC2
    as1_SAC,       \* as1.SAC_AS1_2
    as1_b,         \* as1.b
    as1_B,         \* as1.B
    as1Log,        \* the session keys AS1 prints (as1.go:328)
    ac2Log,        \* the session keys AC2 prints (ac2.go:485)
    derived,       \* history: every value ac2.KS_AC2_AS1 was given
    verified       \* history: the keys under which AC2 found AS1's MAC right

ac2Fields == <<ac2_UA, ac2_SAC, ac2_KS>>
as1Fields == <<as1_UI, as1_SAC, as1_b, as1_B>>
history == <<as1Log, ac2Log, derived, verified>>
link == <<phase, dropped, wire>>
vars == <<link, ac1Listening, notices, threads, usedNonces, ac2Fields,
          as1Fields, history>>

Roles == {"AC1", "AC2", "AS1"}
Phases == {"running", "announced", "finished", "interrupted", "crashed"}

\* Which node handles a message type: the three handleConnection switches
\* and the ports the send functions dial.
Dest == [NOTIC |-> "AC2", REPLY |-> "AS1", RQST_1 |-> "AC1",
         RQST_2 |-> "AC2", RESP |-> "AS1", KEY_EXC |-> "AC2"]

----------------------------------------------------------------------------
(* Values.                                                                 *)

Scalars == [s : 1 .. NumSessions, c : 0 .. MaxCopies]
Nonces == [n : {"N1", "N2", "N3", "N4", "N5", "N6"},
           s : 1 .. NumSessions, c : 0 .. MaxCopies]

Bytes12 == SUBSET Bits
Pubs == [of : Scalars]
PubOrNil == Pubs \cup {Nil}
Hashes == [sac : Bytes12, ui : Nat, B : PubOrNil, J : Pubs, n5 : Nonces]
Keys == [sac : Bytes12, ui : Nat, k : Hashes, b : Scalars, j : Scalars]
KeyOrNil == Keys \cup {Nil}

\* What the handler goroutine t draws from crypto/rand.
Scalar(t) == [s |-> t.msg.nonce.s, c |-> t.copy]
Nonce(n, t) == [n |-> n, s |-> t.msg.nonce.s, c |-> t.copy]

Pub(x) == [of |-> x]               \* ScalarBaseMult: x times the generator
XorAsOr(A, B) == A \cup B                 \* mutant
Xor(A, B) == (A \ B) \cup (B \ A)  \* xorBytes, on the bits that are set

\* H1 of the Diffie-Hellman point of two static keys, the same at both ends.
StaticDH(me, peer) == {me, peer}

\* ASCON: Open returns the plaintext only under the same key, nonce and
\* associated data.
Seal(key, nonce, ad, pt) ==
    [key |-> key, nonce |-> nonce, ad |-> ad, pt |-> pt]
Opens(ct, key, nonce, ad) == ct = Seal(key, nonce, ad, ct.pt)

\* k = H2(SAC, UI_AC2, B, J, N5).
H2(sac, ui, B, J, n5) == [sac |-> sac, ui |-> ui, B |-> B, J |-> J, n5 |-> n5]

\* H4(SAC, UI_AC2, P) where P = j(kb + x + y)G.  AC2 computes P from k, B
\* and j, AS1 from k, b and J.
KeyOf(sac, ui, k, b, j) == [sac |-> sac, ui |-> ui, k |-> k, b |-> b, j |-> j]
AC2KeyOwnId(sac, k, B, j) == KeyOf(sac, UI_AC1, k, B.of, j)     \* mutant
AC2Key(sac, k, B, j) == KeyOf(sac, UI_AC2, k, B.of, j)
AS1KeySwapped(sac, ui, k, b, J) == KeyOf(sac, ui, k, J.of, b)   \* mutant
AS1Key(sac, ui, k, b, J) == KeyOf(sac, ui, k, b, J.of)

HmacNoKey(key, data) == [key |-> Nil, data |-> data]            \* mutant
Hmac(key, data) == [key |-> key, data |-> data]

\* The data of M4 under the pad H3(d(X_AC2 + Y_AC2)), which AC2 recomputes
\* as H3((x_AC2 + y_AC2)D).
Pad(d) == [d |-> d, to |-> "AC2"]
Blind(d, data) == [D |-> Pub(d), f |-> [pad |-> Pad(d), data |-> data]]
Unblind(m4) == IF m4.f.pad = Pad(m4.D.of)
               THEN m4.f.data
               ELSE [ui1 |-> 0, ua |-> 0, sac |-> {}, B |-> Nil]

----------------------------------------------------------------------------
(* Connections and goroutines.                                             *)

Running == phase \in {"running", "announced"}

PortOpen(r) == r = "AC1" => ac1Listening

\* A packet is the original or a repeat of it; left counts the repeats the
\* network may still make of it.
Packet(m, copy, left) == [msg |-> m, copy |-> copy, left |-> left]

\* sendToAC1, sendToAC2 and sendToAS1: dial, write, close.  When the dial
\* fails the message is gone; in AC1 the deferred Close of the nil
\* connection then panics and takes the process down.
Transmit(from, m) ==
    \/ /\ PortOpen(Dest[m.type])
       /\ wire' = wire \cup {Packet(m, 0, MaxCopies)}
       /\ UNCHANGED <<phase, dropped>>
    \/ /\ ~PortOpen(Dest[m.type]) \/ dropped < MaxDropped
       /\ dropped' = dropped + 1
       /\ phase' = IF from = "AC1" THEN "crashed" ELSE phase
       /\ UNCHANGED wire

Thread(msg, copy, pc, tmp) ==
    [msg |-> msg, copy |-> copy, pc |-> pc, tmp |-> tmp]

At(t, type, pc) == t.msg.type = type /\ t.pc = pc
Move(t, pc, tmp) ==
    threads' = (threads \ {t}) \cup {Thread(t.msg, t.copy, pc, tmp)}
Finish(t) == threads' = threads \ {t}

MarkUsedButAS1(r, nonce) ==                                     \* mutant
    usedNonces' = IF r = "AS1"
                  THEN usedNonces
                  ELSE [usedNonces EXCEPT ![r] = @ \cup {nonce}]
MarkUsed(r, nonce) == usedNonces' = [usedNonces EXCEPT ![r] = @ \cup {nonce}]

\* Nothing is under way.
Quiescent == wire = {} /\ threads = {} /\ ac1Listening

\* The listener accepts, a goroutine reads and decodes the message and runs
\* the replay check, which holds the mutex from lookup to insertion.
FirstPcNoHash == [NOTIC |-> "open", REPLY |-> "setUI",          \* mutant
    RQST_1 |-> "relay", RQST_2 |-> "derive", RESP |-> "check",
    KEY_EXC |-> "verify"]
FirstPc == [NOTIC |-> "open", REPLY |-> "setUI", RQST_1 |-> "relay",
            RQST_2 |-> "derive", RESP |-> "hash", KEY_EXC |-> "verify"]

ReplayedNever(w) == FALSE                                       \* mutants
ReplayedButReply(w) ==
    w.msg.type # "REPLY" /\ w.msg.nonce \in usedNonces[Dest[w.msg.type]]
ReplayedButRqst2(w) ==
    w.msg.type # "RQST_2" /\ w.msg.nonce \in usedNonces[Dest[w.msg.type]]
Replayed(w) == w.msg.nonce \in usedNonces[Dest[w.msg.type]]

Receive(w) ==
    /\ Running
    /\ wire' = wire \ {w}
    /\ IF Replayed(w)
       THEN UNCHANGED <<threads, usedNonces>>
       ELSE /\ MarkUsed(Dest[w.msg.type], w.msg.nonce)
            /\ threads' = threads \cup
                   {Thread(w.msg, w.copy, FirstPc[w.msg.type], Nil)}
    /\ UNCHANGED <<phase, dropped, ac1Listening, notices, ac2Fields,
                   as1Fields, history>>

\* A message the network repeats, the case usedNonces is there for.
Duplicate(w) ==
    /\ Running
    /\ w.left > 0
    /\ wire' = (wire \ {w}) \cup {Packet(w.msg, w.copy, w.left - 1),
                                 Packet(w.msg, MaxCopies - w.left + 1, 0)}
    /\ UNCHANGED <<phase, dropped, ac1Listening, notices, threads, usedNonces,
                   ac2Fields, as1Fields, history>>

----------------------------------------------------------------------------
(* AC1.                                                                    *)

\* SendCR_AUC_RQST_NOTIC, called by Start and, for a later session, again.
SendNotic ==
    LET s  == notices + 1
        n1 == [n |-> "N1", s |-> s, c |-> 0]
        P  == [ui1 |-> UI_AC1, ua |-> UA_AS1, sac |-> SAC_AS1,
               ui2 |-> UI_AC2, n |-> n1]
    IN /\ Running
       /\ notices < NumSessions
       /\ Serial /\ notices > 0 => Quiescent
       /\ notices' = s
       /\ MarkUsed("AC1", n1)
       /\ Transmit("AC1", [type |-> "NOTIC", nonce |-> n1, ui |-> UI_AC1,
             M1 |-> Seal("SK_AC12", n1, StaticDH("AC1", "AC2"), P)])
       /\ UNCHANGED <<ac1Listening, threads, ac2Fields, as1Fields, history>>

\* startServer runs in a goroutine of its own, which Start does not wait for.
Listen ==
    /\ Running
    /\ ~ac1Listening
    /\ ac1Listening' = TRUE
    /\ UNCHANGED <<link, notices, threads, usedNonces, ac2Fields, as1Fields,
                   history>>

\* handleCrAucRqst1: open M3, check it against AC1's own identifiers and the
\* header, and pass B on to AC2.
RelayB(t) ==
    LET m  == t.msg
        pt == m.M3.pt
        n4 == Nonce("N4", t)
    IN /\ Running
       /\ At(t, "RQST_1", "relay")
       /\ Finish(t)
       /\ IF /\ Opens(m.M3, "KS1", m.nonce, StaticDH("AC1", "AS1"))
             /\ pt.sac = m.sac
             /\ pt.ui1 = UI_AC1
             /\ pt.ui2 = UI_AC2
             /\ pt.n = m.nonce
          THEN /\ MarkUsed("AC1", n4)
               /\ Transmit("AC1",
                     [type |-> "RQST_2", nonce |-> n4, ui |-> UI_AC1,
                      M4 |-> Blind(Scalar(t), [ui1 |-> UI_AC1, ua |-> UA_AS1,
                                               sac |-> m.sac, B |-> pt.B])])
          ELSE UNCHANGED <<link, usedNonces>>
       /\ UNCHANGED <<ac1Listening, notices, ac2Fields, as1Fields, history>>

----------------------------------------------------------------------------
(* AC2.                                                                    *)

\* handleCrAucRqstNotic, up to the checks: open M1 and keep UA_AS1, which
\* is stored before the identifiers are compared.
OpenNotic(t) ==
    LET m  == t.msg
        pt == m.M1.pt
    IN /\ Running
       /\ At(t, "NOTIC", "open")
       /\ IF Opens(m.M1, "SK_AC12", m.nonce, StaticDH("AC2", "AC1"))
          THEN /\ ac2_UA' = pt.ua
               /\ IF pt.ui1 = UI_AC1 /\ pt.ui2 = UI_AC2 /\ pt.n = m.nonce
                  THEN Move(t, "reply", pt.sac)
                  ELSE Finish(t)
          ELSE Finish(t) /\ UNCHANGED ac2_UA
       /\ UNCHANGED <<link, ac1Listening, notices, usedNonces, ac2_SAC,
                      ac2_KS, as1Fields, history>>

\* The rest of handleCrAucRqstNotic: assign the new SAC and send it masked
\* with the old one.
SendReply(t) ==
    LET n2 == Nonce("N2", t)
    IN /\ Running
       /\ At(t, "NOTIC", "reply")
       /\ Finish(t)
       /\ MarkUsed("AC2", n2)
       /\ ac2_SAC' = SAC_NEW
       /\ Transmit("AC2", [type |-> "REPLY", nonce |-> n2, ui |-> UI_AC2,
             M2 |-> [ui1 |-> UI_AC1, x |-> Xor(t.tmp, ac2_SAC')]])
       /\ UNCHANGED <<ac1Listening, notices, ac2_UA, ac2_KS, as1Fields, history>>

\* handleCrAucRqst2 up to the assignment of KS_AC2_AS1.  A mismatch of the
\* recovered identifiers is logged and nothing else; only a B that is not a
\* point ends the handler.
DeriveKey(t) ==
    LET data == Unblind(t.msg.M4)
        n5   == Nonce("N5", t)
        j    == Scalar(t)
        k    == H2(ac2_SAC, UI_AC2, data.B, Pub(j), n5)
        key  == AC2Key(ac2_SAC, k, data.B, j)
    IN /\ Running
       /\ At(t, "RQST_2", "derive")
       /\ IF data.B # Nil
          THEN /\ MarkUsed("AC2", n5)
               /\ ac2_KS' = key
               /\ derived' = derived \cup {key}
               /\ Move(t, "respond", k)
          ELSE Finish(t) /\ UNCHANGED <<usedNonces, ac2_KS, derived>>
       /\ UNCHANGED <<link, ac1Listening, notices, ac2_UA, ac2_SAC, as1Fields,
                      as1Log, ac2Log, verified>>

\* The rest of handleCrAucRqst2: MAC k under KS_AC2_AS1, which is read again.
SendResp(t) ==
    /\ Running
    /\ At(t, "RQST_2", "respond")
    /\ Finish(t)
    /\ Transmit("AC2", [type |-> "RESP", nonce |-> t.tmp.n5, ui |-> UI_AC2,
          M5 |-> [J |-> t.tmp.J, mac |-> Hmac(ac2_KS, t.tmp)]])
    /\ UNCHANGED <<ac1Listening, notices, usedNonces, ac2Fields, as1Fields,
                   history>>

VerifyKeyExcNoCheck(t) ==                                       \* mutant
    /\ Running
    /\ At(t, "KEY_EXC", "verify")
    /\ verified' = verified \cup {[key |-> ac2_KS, nonce |-> t.msg.nonce]}
    /\ Move(t, "report", Nil)
    /\ UNCHANGED <<link, ac1Listening, notices, usedNonces, ac2Fields,
                   as1Fields, as1Log, ac2Log, derived>>

\* handleCrAucKeyExc up to the comparison of the MACs ...
VerifyKeyExc(t) ==
    LET mac == Hmac(ac2_KS, [sac |-> ac2_SAC, ui |-> UI_AC2])
    IN /\ Running
       /\ At(t, "KEY_EXC", "verify")
       /\ IF t.msg.MAS1 = mac
          THEN /\ verified' = verified \cup {[key |-> ac2_KS,
                                              nonce |-> t.msg.nonce]}
               /\ Move(t, "report", Nil)
          ELSE Finish(t) /\ UNCHANGED verified
       /\ UNCHANGED <<link, ac1Listening, notices, usedNonces, ac2Fields,
                      as1Fields, as1Log, ac2Log, derived>>

\* ... and the report of the session key, which reads the field once more.
ReportKey(t) ==
    /\ Running
    /\ At(t, "KEY_EXC", "report")
    /\ Finish(t)
    /\ ac2Log' = ac2Log \cup {[key |-> ac2_KS, nonce |-> t.msg.nonce]}
    /\ UNCHANGED <<link, ac1Listening, notices, usedNonces, ac2Fields,
                   as1Fields, as1Log, derived, verified>>

----------------------------------------------------------------------------
(* AS1: handleCrAucRqstReply in six steps.                                 *)

SetUI(t) ==
    /\ Running
    /\ At(t, "REPLY", "setUI")
    /\ Move(t, "setSAC", Nil)
    /\ as1_UI' = t.msg.ui
    /\ UNCHANGED <<link, ac1Listening, notices, usedNonces, ac2Fields, as1_SAC,
                   as1_b, as1_B, history>>

\* The new address is stored before UI_AC1 is checked.
SetSAC(t) ==
    LET M2 == t.msg.M2
    IN /\ Running
       /\ At(t, "REPLY", "setSAC")
       /\ as1_SAC' = Xor(SAC_AS1, M2.x)
       /\ IF M2.ui1 = UI_AC1
          THEN Move(t, "drawB", Nil) /\ MarkUsed("AS1", Nonce("N3", t))
          ELSE Finish(t) /\ UNCHANGED usedNonces
       /\ UNCHANGED <<link, ac1Listening, notices, ac2Fields, as1_UI, as1_b,
                      as1_B, history>>

DrawBOnce(t) ==                                                 \* mutants
    /\ Running
    /\ At(t, "REPLY", "drawB")
    /\ Move(t, "mulB", Nil)
    /\ as1_b' = IF as1_b = Nil THEN Scalar(t) ELSE as1_b
    /\ UNCHANGED <<link, ac1Listening, notices, usedNonces, ac2Fields, as1_UI,
                   as1_SAC, as1_B, history>>
DrawBShadowed(t) ==
    /\ Running
    /\ At(t, "REPLY", "drawB")
    /\ Move(t, "mulB", Nil)
    /\ UNCHANGED <<link, ac1Listening, notices, usedNonces, ac2Fields,
                   as1Fields, history>>

\* as1.b is written, read to compute B, and as1.B written, one at a time.
DrawB(t) ==
    /\ Running
    /\ At(t, "REPLY", "drawB")
    /\ Move(t, "mulB", Nil)
    /\ as1_b' = Scalar(t)
    /\ UNCHANGED <<link, ac1Listening, notices, usedNonces, ac2Fields, as1_UI,
                   as1_SAC, as1_B, history>>

MulB(t) ==
    /\ Running
    /\ At(t, "REPLY", "mulB")
    /\ Move(t, "setB", Pub(as1_b))
    /\ UNCHANGED <<link, ac1Listening, notices, usedNonces, ac2Fields,
                   as1Fields, history>>

SetB(t) ==
    /\ Running
    /\ At(t, "REPLY", "setB")
    /\ Move(t, "request", Nil)
    /\ as1_B' = t.tmp
    /\ UNCHANGED <<link, ac1Listening, notices, usedNonces, ac2Fields, as1_UI,
                   as1_SAC, as1_b, history>>

SendRqst1(t) ==
    LET n3 == Nonce("N3", t)
        PT == [sac |-> as1_SAC, B |-> as1_B, ui1 |-> UI_AC1, ui2 |-> as1_UI,
               n |-> n3]
    IN /\ Running
       /\ At(t, "REPLY", "request")
       /\ Finish(t)
       /\ Transmit("AS1", [type |-> "RQST_1", nonce |-> n3, sac |-> as1_SAC,
             M3 |-> Seal("KS1", n3, StaticDH("AS1", "AC1"), PT)])
       /\ UNCHANGED <<ac1Listening, notices, usedNonces, ac2Fields, as1Fields,
                      history>>

(* handleCrAucResp in two steps: k takes as1.B, the key then takes as1.b.  *)

HashResp(t) ==
    LET m == t.msg
    IN /\ Running
       /\ At(t, "RESP", "hash")
       /\ Move(t, "check", H2(as1_SAC, as1_UI, as1_B, m.M5.J, m.nonce))
       /\ UNCHANGED <<link, ac1Listening, notices, usedNonces, ac2Fields,
                      as1Fields, history>>

\* Mul of a nil b panics.
VerifyResp(t) ==
    LET m   == t.msg
        key == AS1Key(as1_SAC, as1_UI, t.tmp, as1_b, m.M5.J)
        n6  == Nonce("N6", t)
    IN /\ Running
       /\ At(t, "RESP", "check")
       /\ Finish(t)
       /\ IF as1_b = Nil
          THEN /\ phase' = "crashed"
               /\ UNCHANGED <<dropped, wire, usedNonces, as1Log>>
          ELSE IF m.M5.mac = Hmac(key, t.tmp)
          THEN /\ as1Log' = as1Log \cup
                      {[key |-> key, nonce |-> m.nonce, copy |-> t.copy]}
               /\ MarkUsed("AS1", n6)
               /\ Transmit("AS1",
                     [type |-> "KEY_EXC", nonce |-> n6, sac |-> as1_SAC,
                      MAS1 |-> Hmac(key, [sac |-> as1_SAC, ui |-> as1_UI])])
          ELSE UNCHANGED <<link, usedNonces, as1Log>>
       /\ UNCHANGED <<ac1Listening, notices, ac2Fields, as1Fields, ac2Log,
                      derived, verified>>

----------------------------------------------------------------------------
(* main.                                                                   *)

\* The 30 s timer.  Assumed: every session is over before it fires.  The
\* text announced, that the authentication is complete, depends on nothing.
TimerFires ==
    /\ phase = "running"
    /\ notices = NumSessions
    /\ Quiescent
    /\ phase' = "announced"
    /\ UNCHANGED <<dropped, wire, ac1Listening, notices, threads, usedNonces,
                   ac2Fields, as1Fields, history>>

MainExits ==
    /\ phase = "announced"
    /\ phase' = "finished"
    /\ UNCHANGED <<dropped, wire, ac1Listening, notices, threads, usedNonces,
                   ac2Fields, as1Fields, history>>

\* SIGINT or SIGTERM while main is in the select.
Interrupt ==
    /\ phase = "running"
    /\ phase' = "interrupted"
    /\ UNCHANGED <<dropped, wire, ac1Listening, notices, threads, usedNonces,
                   ac2Fields, as1Fields, history>>

----------------------------------------------------------------------------
Init ==
    /\ phase = "running"
    /\ ac1Listening = FALSE
    /\ notices = 0
    /\ dropped = 0
    /\ wire = {}
    /\ threads = {}
    /\ usedNonces = [r \in Roles |-> {}]
    /\ ac2_UA = 0 /\ ac2_SAC = {} /\ ac2_KS = Nil
    /\ as1_UI = 0 /\ as1_SAC = {} /\ as1_b = Nil /\ as1_B = Nil
    /\ as1Log = {} /\ ac2Log = {} /\ derived = {} /\ verified = {}

AC1Step(t) == RelayB(t)
AC2Step(t) == \/ OpenNotic(t) \/ SendReply(t) \/ DeriveKey(t)
              \/ SendResp(t) \/ VerifyKeyExc(t) \/ ReportKey(t)
AS1Step(t) == \/ SetUI(t) \/ SetSAC(t) \/ DrawB(t) \/ MulB(t) \/ SetB(t)
              \/ SendRqst1(t) \/ HashResp(t) \/ VerifyResp(t)

Work == \/ SendNotic
        \/ Listen
        \/ \E w \in wire : Receive(w)
        \/ \E t \in threads : AC1Step(t) \/ AC2Step(t) \/ AS1Step(t)

Next == \/ Work
        \/ \E w \in wire : Duplicate(w)
        \/ TimerFires \/ MainExits \/ Interrupt

\* Every goroutine that can run is run in the end: each step of Work makes
\* progress and there are finitely many, so fairness to Work as a whole is
\* fairness to every goroutine.  Signals and the network's repeats are free.
Fairness == WF_vars(Work) /\ WF_vars(TimerFires \/ MainExits)

Spec == Init /\ [][Next]_vars
FairSpec == Spec /\ Fairness

----------------------------------------------------------------------------
(* Types.                                                                  *)

Notics == [type : {"NOTIC"}, nonce : Nonces, ui : Nat,
           M1 : [key : {"SK_AC12"}, nonce : Nonces, ad : SUBSET Roles,
                 pt : [ui1 : Nat, ua : Nat, sac : Bytes12, ui2 : Nat,
                       n : Nonces]]]
Replies == [type : {"REPLY"}, nonce : Nonces, ui : Nat,
            M2 : [ui1 : Nat, x : Bytes12]]
Rqst1s == [type : {"RQST_1"}, nonce : Nonces, sac : Bytes12,
           M3 : [key : {"KS1"}, nonce : Nonces, ad : SUBSET Roles,
                 pt : [sac : Bytes12, B : PubOrNil, ui1 : Nat, ui2 : Nat,
                       n : Nonces]]]
Rqst2s == [type : {"RQST_2"}, nonce : Nonces, ui : Nat,
           M4 : [D : Pubs,
                 f : [pad : [d : Scalars, to : {"AC2"}],
                      data : [ui1 : Nat, ua : Nat, sac : Bytes12,
                              B : PubOrNil]]]]
Resps == [type : {"RESP"}, nonce : Nonces, ui : Nat,
          M5 : [J : Pubs, mac : [key : KeyOrNil, data : Hashes]]]
KeyExcs == [type : {"KEY_EXC"}, nonce : Nonces, sac : Bytes12,
            MAS1 : [key : KeyOrNil, data : [sac : Bytes12, ui : Nat]]]

Messages ==
    Notics \cup Replies \cup Rqst1s \cup Rqst2s \cup Resps \cup KeyExcs

PacketOK(w) ==
    /\ w = Packet(w.msg, w.copy, w.left)
    /\ w.msg \in Messages
    /\ w.copy \in 0 .. MaxCopies
    /\ w.left \in 0 .. MaxCopies

\* Each handler's program points, with what its local tmp holds there.
ThreadOK(t) ==
    /\ t = Thread(t.msg, t.copy, t.pc, t.tmp)
    /\ t.msg \in Messages
    /\ t.copy \in 0 .. MaxCopies
    /\ \/ t.msg.type = "NOTIC" /\ t.pc = "open" /\ t.tmp = Nil
       \/ t.msg.type = "NOTIC" /\ t.pc = "reply" /\ t.tmp \in Bytes12
       \/ t.msg.type = "RQST_1" /\ t.pc = "relay" /\ t.tmp = Nil
       \/ t.msg.type = "RQST_2" /\ t.pc = "derive" /\ t.tmp = Nil
       \/ t.msg.type = "RQST_2" /\ t.pc = "respond" /\ t.tmp \in Hashes
       \/ t.msg.type = "KEY_EXC" /\ t.pc \in {"verify", "report"}
                                 /\ t.tmp = Nil
       \/ t.msg.type = "REPLY" /\ t.pc \in {"setUI", "setSAC", "drawB",
                                           "mulB", "request"} /\ t.tmp = Nil
       \/ t.msg.type = "REPLY" /\ t.pc = "setB" /\ t.tmp \in Pubs
       \/ t.msg.type = "RESP" /\ t.pc = "hash" /\ t.tmp = Nil
       \/ t.msg.type = "RESP" /\ t.pc = "check" /\ t.tmp \in Hashes

\* The type invariant: what the nodes' fields, the connections, the handlers
\* at each of their program points and the history can hold.
TypeOK ==
    /\ phase \in Phases
    /\ ac1Listening \in BOOLEAN
    /\ notices \in 0 .. NumSessions
    /\ dropped \in Nat
    /\ \A w \in wire : PacketOK(w)
    /\ \A t \in threads : ThreadOK(t)
    /\ usedNonces \in [Roles -> SUBSET Nonces]
    /\ ac2_UA \in Nat /\ ac2_SAC \in Bytes12 /\ ac2_KS \in KeyOrNil
    /\ as1_UI \in Nat /\ as1_SAC \in Bytes12
    /\ as1_b \in Scalars \cup {Nil} /\ as1_B \in PubOrNil
    /\ as1Log \subseteq [key : Keys, nonce : Nonces, copy : 0 .. MaxCopies]
    /\ ac2Log \subseteq [key : KeyOrNil, nonce : Nonces]
    /\ derived \subseteq Keys
    /\ verified \subseteq [key : KeyOrNil, nonce : Nonces]

----------------------------------------------------------------------------
(* Properties.                                                             *)

Accepted == {a.key : a \in as1Log}
Confirmed == {v.key : v \in verified}

\* The replay checks: a message is in at most one handler at a time, and AS1
\* accepts at most once per RESP, however often the network repeats it and
\* however the goroutines of the repeats interleave.
HandledOnce ==
    /\ \A t, u \in threads :
          /\ Dest[t.msg.type] = Dest[u.msg.type]
          /\ t.msg.nonce = u.msg.nonce
          => t = u
    /\ \A a, b \in as1Log : a.nonce = b.nonce => a = b
    /\ \A a \in as1Log, t \in threads :
          t.msg.type = "RESP" => t.msg.nonce # a.nonce

\* AS1 prints a session key only if AC2 derived that very key (as1.go:323).
ServerAgreement == Accepted \subseteq derived

\* AC2 finds AS1's MAC right only under a key that AS1 has accepted before
\* (ac2.go:480).
ClientAgreement == Confirmed \subseteq Accepted

\* AS1 accepts no session key twice: a key stands for one run of the
\* protocol (the injective agreement of the Scyther model).
InjectiveAgreement == \A a, b \in as1Log : a.key = b.key => a = b

\* Once AS1 has stored an address for its new cell it is the one AC2
\* assigned, though each takes AS1's old address from its own copy: AC2 from
\* the NOTIC, AS1 from its field (ac2.go:272, as1.go:197).
AddressAgreed == as1_SAC # {} => as1_SAC = ac2_SAC

\* A RESP is never handled before AS1 has drawn its scalar b: Mul of a nil b
\* would take the process down (as1.go:300).
ScalarDrawn == \A t \in threads : t.msg.type = "RESP" => as1_b # Nil

\* as1.b and as1.B belong together whenever no goroutine is between writing
\* one and the other (as1.go:217 to 224).
EphemeralPair ==
    (\A t \in threads : t.msg.type # "REPLY") /\ as1_b # Nil
        => as1_B = Pub(as1_b)

\* The key AC2 prints as the session key under which AS1 was authenticated
\* is one that AS1 holds (ac2.go:485).
ReportedKeyConfirmed == {r.key : r \in ac2Log} \subseteq Accepted

\* Two session keys never rest on the same scalar of AS1: b is drawn for one
\* run (as1.go:217).
FreshScalars == \A a, b \in as1Log : a.key.b = b.key.b => a = b

\* Session s has ended with one key printed at both ends.
Complete(s) ==
    \E a \in as1Log, r \in ac2Log :
        a.nonce.s = s /\ r.nonce.s = s /\ a.key = r.key

\* Nothing but a failed dial stops a session: when nothing is under way,
\* every session that was started is complete.
Completion ==
    Quiescent /\ dropped = 0 /\ Running => \A s \in 1 .. notices : Complete(s)

\* The notice main prints after 30 s says that the authentication is
\* complete (main.go:73).
AnnouncedComplete ==
    phase = "announced" => \A s \in 1 .. notices : Complete(s)

\* A session that is started is completed, unless a dial fails or the
\* process is interrupted.
SessionCompletes ==
    \A s \in 1 .. NumSessions :
        notices = s ~> Complete(s) \/ dropped > 0 \/ phase = "interrupted"

\* The authentication keeps the promise of KeyAgreement.
KA == INSTANCE KeyAgreement WITH accepted <- Accepted, confirmed <- Confirmed
Agreement == KA!KASpec

----------------------------------------------------------------------------
(* The inductive invariant behind the safety properties.                   *)

ASSUME NilOK == Nil \notin Scalars /\ Nil \notin Pubs

Flying == {w.msg : w \in wire} \cup {t.msg : t \in threads}

\* What a message under way, unread or being handled, says of the nodes.
MsgInv(m) ==
    /\ m.type = "NOTIC" => m.M1.pt.sac = SAC_AS1
    /\ m.type = "REPLY" => /\ m.M2.x = Xor(SAC_AS1, SAC_NEW)
                           /\ ac2_SAC = SAC_NEW
    /\ m.type \in {"RQST_1", "RQST_2", "RESP"} => as1_b # Nil
    /\ m.type = "RESP" => m.M5.mac.key \in derived
    /\ m.type = "KEY_EXC" => m.MAS1.key \in Accepted

ThreadInv(t) ==
    /\ t.pc = "reply" => t.tmp = SAC_AS1
    /\ t.pc = "respond" => ac2_KS \in derived
    /\ t.pc \in {"mulB", "setB", "request"} => as1_b # Nil
    /\ t.pc = "check" => t.tmp.n5 = t.msg.nonce
    /\ t.msg.nonce \in usedNonces[Dest[t.msg.type]]

LogInv(a) ==
    /\ a.key \in derived
    /\ a.key.k.n5 = a.nonce
    /\ a.nonce \in usedNonces["AS1"]

\* All of it together, for every value of the constants.
IInv ==
    /\ \A m \in Flying : MsgInv(m)
    /\ \A t \in threads : ThreadInv(t)
    /\ \A a \in as1Log : LogInv(a)
    /\ ClientAgreement
    /\ HandledOnce
    /\ as1_SAC = {} \/ (as1_SAC = SAC_NEW /\ ac2_SAC = SAC_NEW)
============================================================================
