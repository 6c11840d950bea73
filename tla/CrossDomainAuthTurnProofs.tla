---------------------- MODULE CrossDomainAuthTurnProofs ----------------------
(***************************************************************************)
(* Theorems about CrossDomainAuth when sessions do not overlap, as main    *)
(* runs them, for any number of sessions, repeats and failed dials.  The   *)
(* six messages of a session are then a chain: at each moment one message  *)
(* is live, unread or in its handler, and everything else on the network   *)
(* is a repeat that will be refused.                                       *)
(***************************************************************************)
EXTENDS CrossDomainAuthProofs

\* Sessions do not overlap.
InTurn == Serial \/ NumSessions = 1

MessageTypes == {"NOTIC", "REPLY", "RQST_1", "RQST_2", "RESP", "KEY_EXC"}
NameOf == [NOTIC |-> "N1", REPLY |-> "N2", RQST_1 |-> "N3", RQST_2 |-> "N4",
           RESP |-> "N5", KEY_EXC |-> "N6"]
Stage == [NOTIC |-> 1, REPLY |-> 2, RQST_1 |-> 3, RQST_2 |-> 4, RESP |-> 5,
          KEY_EXC |-> 6]

\* The messages a handler runs for or will run for: all but the repeats that
\* are going to be refused.
Live == {t.msg : t \in threads} \cup {w.msg : w \in {v \in wire : ~Replayed(v)}}

\* One message is live at most, and all that fly are of the session that was
\* begun last and carry the nonce of their type.
AloneInv ==
    /\ \A t, u \in threads : t = u
    /\ \A m, n \in Live : m = n
    /\ \A m \in Flying : m.nonce.s = notices /\ m.nonce.n = NameOf[m.type]

\* The nonces in use are of sessions that were begun; the current session has
\* received none of a later stage than its live message.
StageInv ==
    /\ \A r \in Roles : \A n \in usedNonces[r] : n.s \in 1 .. notices
    /\ \A m \in Live, ty \in MessageTypes : \A n \in usedNonces[Dest[ty]] :
          n.n = NameOf[ty] /\ n.s = notices => Stage[ty] <= Stage[m.type]

\* AS1's fields when it has sent its request.
Settled ==
    /\ as1_UI = UI_AC2 /\ as1_SAC = ac2_SAC
    /\ as1_b.s = notices /\ as1_B = Pub(as1_b)

\* k as both ends compute it.
KOf(J, n5) == H2(as1_SAC, as1_UI, as1_B, J, n5)
KeyFits(J, n5) == ac2_KS = AS1Key(as1_SAC, as1_UI, KOf(J, n5), as1_b, J)

\* The live message says what its receiver will check.
LiveOK(m) ==
    /\ m.type = "NOTIC" => m.M1 =
          Seal("SK_AC12", m.nonce, StaticDH("AC1", "AC2"),
               [ui1 |-> UI_AC1, ua |-> UA_AS1, sac |-> SAC_AS1,
                ui2 |-> UI_AC2, n |-> m.nonce])
    /\ m.type = "REPLY" => m.ui = UI_AC2 /\ m.M2.ui1 = UI_AC1
    /\ m.type = "RQST_1" =>
          /\ Settled
          /\ m.sac = as1_SAC
          /\ m.M3 = Seal("KS1", m.nonce, StaticDH("AS1", "AC1"),
                         [sac |-> as1_SAC, B |-> as1_B, ui1 |-> UI_AC1,
                          ui2 |-> UI_AC2, n |-> m.nonce])
    /\ m.type = "RQST_2" => Settled /\ Unblind(m.M4).B = as1_B
    /\ m.type = "RESP" =>
          /\ Settled
          /\ KeyFits(m.M5.J, m.nonce)
          /\ m.M5.mac = Hmac(ac2_KS, KOf(m.M5.J, m.nonce))
    /\ m.type = "KEY_EXC" =>
          /\ m.MAS1 = Hmac(ac2_KS, [sac |-> ac2_SAC, ui |-> UI_AC2])
          /\ \E a \in as1Log : a.nonce.s = notices /\ a.key = ac2_KS

\* What its handler has done so far.
HandlerOK(t) ==
    /\ t.pc \in {"setSAC", "drawB", "mulB", "setB", "request"} =>
          as1_UI = UI_AC2
    /\ t.pc \in {"drawB", "mulB", "setB", "request"} => as1_SAC = ac2_SAC
    /\ t.pc \in {"mulB", "setB", "request"} => as1_b.s = notices
    /\ t.pc = "setB" => t.tmp = Pub(as1_b)
    /\ t.pc = "request" => as1_B = Pub(as1_b)
    /\ t.pc = "respond" => /\ t.tmp = KOf(t.tmp.J, t.tmp.n5)
                           /\ t.tmp.n5.n = "N5" /\ t.tmp.n5.s = notices
                           /\ KeyFits(t.tmp.J, t.tmp.n5)
    /\ t.pc = "check" => t.tmp = KOf(t.msg.M5.J, t.msg.nonce)

\* b and B differ only while a handler is on its way from one to the other.
PairInv ==
    as1_b # Nil => \/ as1_B = Pub(as1_b)
                   \/ \E t \in threads : t.pc \in {"mulB", "setB"}

\* AS1 accepts once per session, with the scalar of the session, and then
\* only KEY_EXC is left of it.
AcceptOnce ==
    /\ \A a \in as1Log : a.nonce.s \in 1 .. notices /\ a.key.b.s = a.nonce.s
    /\ \A a, b \in as1Log : a.nonce.s = b.nonce.s => a = b
AcceptLast ==
    \A a \in as1Log, m \in Live : a.nonce.s = notices => m.type = "KEY_EXC"

\* A session has something live until it is complete, or a dial failed.
EndInv ==
    dropped = 0 /\ Running =>
        \A s \in 1 .. notices : Complete(s) \/ (s = notices /\ Live # {})

TurnInv ==
    /\ AloneInv
    /\ StageInv
    /\ \A m \in Live : LiveOK(m)
    /\ \A t \in threads : HandlerOK(t)
    /\ PairInv
    /\ AcceptOnce /\ AcceptLast
    /\ ReportedKeyConfirmed
    /\ EndInv

----------------------------------------------------------------------------
(* The live message.                                                       *)

\* The nonces a node draws; it receives others.
Own == [AC1 |-> {"N1", "N4"}, AC2 |-> {"N2", "N5"}, AS1 |-> {"N3", "N6"}]

\* A step of the current session marks a nonce its node drew, or none.
Draws(r) ==
    \/ UNCHANGED usedNonces
    \/ \E n \in Nonces :
          MarkUsed(r, n) /\ n.s = notices /\ n.n \in Own[r]

\* Nonces stay in use.
LEMMA DrawsGrow ==
    ASSUME TypeOK, NEW r \in Roles, Draws(r)
    PROVE  \A q \in Roles : usedNonces[q] \subseteq usedNonces'[q]
BY MarkGrows DEF Draws

\* Every packet is for a node.
LEMMA PacketRole ==
    ASSUME TypeOK, NEW w \in wire
    PROVE  /\ w.msg \in Messages /\ w.msg.type \in MessageTypes
           /\ w.msg.nonce \in Nonces /\ Dest[w.msg.type] \in Roles
BY DestRole, MessageFields DEF TypeOK, PacketOK, MessageTypes

\* A handler is alone: its message is the live one, and every packet is a
\* repeat.
LEMMA Alone ==
    ASSUME TypeOK, IInv, AloneInv, NEW t \in threads
    PROVE  /\ threads = {t} /\ Live = {t.msg}
           /\ \A w \in wire : Replayed(w)
           /\ t.msg.nonce.s = notices /\ t.msg.nonce.n = NameOf[t.msg.type]
           /\ Scalar(t).s = notices
           /\ \A n : Nonce(n, t).s = notices /\ Nonce(n, t).n = n
           /\ ThreadOK(t) /\ t.msg \in Messages /\ t.msg.type \in MessageTypes
<1>1. threads = {t}
  BY DEF AloneInv
<1>2. t.msg \in Live /\ t.msg \in Flying
  BY DEF Live, Flying
<1>3. Live = {t.msg}
  BY <1>2 DEF AloneInv
<1>4. \A w \in wire : Replayed(w)
  <2> SUFFICES ASSUME NEW w \in wire, ~Replayed(w) PROVE FALSE
    OBVIOUS
  <2>1. w.msg = t.msg
    BY <1>3 DEF Live
  <2>2. t.msg.nonce \in usedNonces[Dest[t.msg.type]]
    BY DEF IInv, ThreadInv
  <2> QED
    BY <2>1, <2>2 DEF Replayed
<1>5. ThreadOK(t)
  BY DEF TypeOK
<1>6. t.msg.nonce.s = notices /\ t.msg.nonce.n = NameOf[t.msg.type]
  BY <1>2 DEF AloneInv
<1>7. t.msg \in Messages /\ t.msg.type \in MessageTypes
  BY <1>5, MessageFields DEF ThreadOK, MessageTypes
<1> QED
  BY <1>1, <1>3, <1>4, <1>5, <1>6, <1>7 DEF Scalar, Nonce

\* Packets that are repeats stay so.
LEMMA StayReplayed ==
    ASSUME TypeOK, NEW w \in wire, Replayed(w),
           \A q \in Roles : usedNonces[q] \subseteq usedNonces'[q]
    PROVE  Replayed(w)'
BY PacketRole DEF Replayed

\* A handler that goes on keeps its message live.
LEMMA MoveLive ==
    ASSUME TypeOK, IInv, AloneInv, NEW t \in threads, NEW pc, NEW tmp,
           Move(t, pc, tmp), UNCHANGED <<wire, notices>>,
           \A q \in Roles : usedNonces[q] \subseteq usedNonces'[q]
    PROVE  /\ threads' = {Thread(t.msg, t.copy, pc, tmp)}
           /\ Live' = {t.msg} /\ AloneInv'
<1>1. threads = {t} /\ \A w \in wire : Replayed(w)
  BY Alone
<1>2. \A w \in wire' : Replayed(w)'
  BY <1>1, StayReplayed
<1>3. PICK u : u = Thread(t.msg, t.copy, pc, tmp)
  OBVIOUS
<1>4. threads' = {u} /\ u.msg = t.msg
  BY <1>1, <1>3 DEF Move, Thread
<1>5. Live' = {t.msg}
  BY <1>2, <1>4 DEF Live
<1>6. \A m \in Flying' : m \in Flying
  BY FlyingMove
<1> QED
  BY <1>3, <1>4, <1>5, <1>6 DEF AloneInv

\* A handler that ends leaves nothing live.
LEMMA FinishLive ==
    ASSUME TypeOK, IInv, AloneInv, NEW t \in threads, Finish(t),
           UNCHANGED <<wire, notices, usedNonces>>
    PROVE  threads' = {} /\ Live' = {} /\ AloneInv'
<1>1. threads = {t} /\ \A w \in wire : Replayed(w)
  BY Alone
<1>2. \A w \in wire' : Replayed(w)'
  BY <1>1, StayReplayed
<1>3. threads' = {}
  BY <1>1 DEF Finish
<1>4. Live' = {}
  BY <1>2, <1>3 DEF Live
<1>5. \A m \in Flying' : m \in Flying
  BY FlyingMove
<1> QED
  BY <1>3, <1>4, <1>5 DEF AloneInv

\* A handler that ends with a message its receiver has not seen makes that
\* message the live one, unless the dial fails.
LEMMA SendLive ==
    ASSUME TypeOK, IInv, AloneInv, NEW t \in threads, NEW from,
           NEW m \in Messages, Finish(t), Transmit(from, m), UNCHANGED notices,
           \A q \in Roles : usedNonces[q] \subseteq usedNonces'[q],
           m.nonce.s = notices, m.nonce.n = NameOf[m.type],
           m.nonce \notin usedNonces'[Dest[m.type]]
    PROVE  /\ threads' = {} /\ AloneInv'
           /\ \/ Live' = {m} /\ UNCHANGED <<dropped, phase>>
              \/ Live' = {} /\ dropped' = dropped + 1
<1>1. threads = {t} /\ \A w \in wire : Replayed(w)
  BY Alone
<1>2. \A w \in wire : Replayed(w)'
  BY <1>1, StayReplayed
<1>3. threads' = {}
  BY <1>1 DEF Finish
<1>4. PICK p : p = Packet(m, 0, MaxCopies)
  OBVIOUS
<1>5. p.msg = m /\ ~Replayed(p)'
  BY <1>4 DEF Packet, Replayed
<1>6. \/ wire' = wire \cup {p} /\ UNCHANGED <<dropped, phase>>
      \/ wire' = wire /\ dropped' = dropped + 1
  BY <1>4 DEF Transmit
<1>7. \/ Live' = {m} /\ UNCHANGED <<dropped, phase>>
      \/ Live' = {} /\ dropped' = dropped + 1
  BY <1>2, <1>3, <1>5, <1>6 DEF Live
<1>8. \A x \in Flying' : x \in Flying \/ x = m
  BY FlyingTransmit
<1>9. \A x \in Flying' : x.nonce.s = notices /\ x.nonce.n = NameOf[x.type]
  BY <1>8 DEF AloneInv
<1> QED
  BY <1>3, <1>7, <1>9 DEF AloneInv

\* A nonce that a node draws is none it receives.
LEMMA OwnNames ==
    ASSUME NEW r \in Roles, NEW ty \in MessageTypes, Dest[ty] = r
    PROVE  NameOf[ty] \notin Own[r]
BY DEF Roles, MessageTypes, Dest, NameOf, Own

\* The next message of the chain is new to its receiver.
LEMMA NextIsNew ==
    ASSUME TypeOK, IInv, AloneInv, StageInv, NEW t \in threads,
           NEW r \in Roles, Draws(r), NEW m \in Messages,
           Stage[t.msg.type] < Stage[m.type], m.nonce.n = NameOf[m.type],
           m.nonce.s = notices
    PROVE  m.nonce \notin usedNonces'[Dest[m.type]]
<1>1. m.type \in MessageTypes /\ Dest[m.type] \in Roles
  BY MessageFields, DestRole DEF MessageTypes
<1>2. t.msg \in Live /\ t.msg.type \in MessageTypes
  BY Alone
<1>3. m.nonce \notin usedNonces[Dest[m.type]]
  <2>1. Stage[m.type] \in Nat /\ Stage[t.msg.type] \in Nat
    BY <1>1, <1>2 DEF MessageTypes, Stage
  <2> QED
    BY <1>1, <1>2, <2>1 DEF StageInv
<1>4. CASE UNCHANGED usedNonces
  BY <1>3, <1>4
<1>5. ASSUME NEW n \in Nonces, MarkUsed(r, n), n.n \in Own[r]
      PROVE  m.nonce \notin usedNonces'[Dest[m.type]]
  <2>1. Dest[m.type] = r => n # m.nonce
    BY <1>1, <1>5, OwnNames
  <2> QED
    BY <1>1, <1>3, <1>5, <2>1 DEF MarkUsed, TypeOK
<1> QED
  BY <1>4, <1>5 DEF Draws

\* StageInv, when the live message is of the same stage or a later one.
LEMMA StageKept ==
    ASSUME TypeOK, IInv, AloneInv, StageInv, NEW t \in threads,
           NEW r \in Roles, Draws(r), UNCHANGED notices,
           \A m \in Live' : /\ m.type \in MessageTypes
                            /\ Stage[t.msg.type] <= Stage[m.type]
    PROVE  StageInv'
<1>1. t.msg \in Live /\ t.msg.type \in MessageTypes
  BY Alone
<1>2. \A q \in Roles : \A n \in usedNonces'[q] :
          n \in usedNonces[q] \/ (q = r /\ n.s = notices /\ n.n \in Own[r])
  BY DEF Draws, MarkUsed, TypeOK
<1>3. \A q \in Roles : \A n \in usedNonces'[q] : n.s \in 1 .. notices'
  <2>1. notices \in 1 .. notices
    <3>1. t.msg.nonce.s \in 1 .. notices
      <4>1. Dest[t.msg.type] \in Roles
        BY Alone, DestRole
      <4>2. t.msg.nonce \in usedNonces[Dest[t.msg.type]]
        BY DEF IInv, ThreadInv
      <4> QED
        BY <4>1, <4>2 DEF StageInv
    <3> QED
      BY <3>1, Alone
  <2> QED
    BY <1>2, <2>1 DEF StageInv
<1>4. ASSUME NEW m \in Live', NEW ty \in MessageTypes,
             NEW n \in usedNonces'[Dest[ty]], n.n = NameOf[ty], n.s = notices
      PROVE  Stage[ty] <= Stage[m.type]
  <2>1. Dest[ty] \in Roles
    BY DEF MessageTypes, Dest, Roles
  <2>2. n \in usedNonces[Dest[ty]]
    BY <1>2, <1>4, <2>1, OwnNames
  <2>3. Stage[ty] <= Stage[t.msg.type]
    BY <1>1, <1>4, <2>2 DEF StageInv
  <2>4. Stage[ty] \in Nat /\ Stage[t.msg.type] \in Nat /\ Stage[m.type] \in Nat
    BY <1>1, <1>4 DEF MessageTypes, Stage
  <2>5. Stage[t.msg.type] <= Stage[m.type]
    BY <1>4
  <2> QED
    BY <2>3, <2>4, <2>5
<1> QED
  BY <1>3, <1>4 DEF StageInv

----------------------------------------------------------------------------
(* What every step shares.                                                 *)

\* Complete sessions stay so, and a step that leaves something live, or has
\* seen a dial fail, or completes the session keeps EndInv.
LEMMA EndKept ==
    ASSUME EndInv, UNCHANGED notices, Running' => Running,
           dropped' = 0 => dropped = 0,
           as1Log \subseteq as1Log', ac2Log \subseteq ac2Log',
           \/ dropped' # 0 \/ Live' # {}
           \/ Complete(notices)'
    PROVE  EndInv'
<1>1. \A s : Complete(s) => Complete(s)'
  BY DEF Complete
<1> QED
  BY <1>1 DEF EndInv

\* A handler goes on, within its message.
LEMMA MoveTurn ==
    ASSUME TypeOK, IInv, TurnInv, NEW t \in threads, NEW pc, NEW tmp,
           Move(t, pc, tmp), UNCHANGED <<link, notices, as1Log, ac2Log>>,
           NEW r \in Roles, Draws(r), LiveOK(t.msg)',
           \A u : u = Thread(t.msg, t.copy, pc, tmp) => HandlerOK(u)',
           PairInv'
    PROVE  TurnInv'
<1>0. AloneInv /\ StageInv
  BY DEF TurnInv
<1>1. \A q \in Roles : usedNonces[q] \subseteq usedNonces'[q]
  BY DrawsGrow
<1>2. /\ threads' = {Thread(t.msg, t.copy, pc, tmp)}
      /\ Live' = {t.msg} /\ AloneInv'
  BY <1>0, <1>1, MoveLive DEF link
<1>3. Live = {t.msg} /\ t.msg.type \in MessageTypes
  BY <1>0, Alone
<1>4. StageInv'
  BY <1>0, <1>2, <1>3, StageKept DEF MessageTypes, Stage
<1>5. AcceptOnce' /\ AcceptLast'
  BY <1>2, <1>3 DEF TurnInv, AcceptOnce, AcceptLast
<1>6. ReportedKeyConfirmed'
  BY DEF TurnInv, ReportedKeyConfirmed, Accepted
<1>7. EndInv'
  BY <1>2, EndKept DEF TurnInv, link, Running
<1> QED
  BY <1>2, <1>4, <1>5, <1>6, <1>7 DEF TurnInv

\* A handler ends with the next message of the chain.
LEMMA SendTurn ==
    ASSUME TypeOK, IInv, TurnInv, NEW t \in threads, NEW r \in Roles,
           NEW m \in Messages, Finish(t), Transmit(r, m), Draws(r),
           Stage[t.msg.type] < Stage[m.type],
           m.nonce.s = notices, m.nonce.n = NameOf[m.type],
           UNCHANGED <<notices, ac2Log>>,
           \/ UNCHANGED as1Log
           \/ m.type = "KEY_EXC" /\ AcceptOnce' /\ as1Log \subseteq as1Log',
           LiveOK(m)', as1_b' # Nil => as1_B' = Pub(as1_b')
    PROVE  TurnInv'
<1>0. AloneInv /\ StageInv
  BY DEF TurnInv
<1>1. \A q \in Roles : usedNonces[q] \subseteq usedNonces'[q]
  BY DrawsGrow
<1>2. m.nonce \notin usedNonces'[Dest[m.type]]
  BY <1>0, NextIsNew
<1>3. /\ threads' = {} /\ AloneInv'
      /\ \/ Live' = {m} /\ UNCHANGED <<dropped, phase>>
         \/ Live' = {} /\ dropped' = dropped + 1
  BY <1>0, <1>1, <1>2, SendLive
<1>4. /\ Live = {t.msg} /\ t.msg.type \in MessageTypes
      /\ m.type \in MessageTypes
  BY <1>0, Alone, MessageFields DEF MessageTypes
<1>5. StageInv'
  <2>1. Stage[t.msg.type] <= Stage[m.type]
    BY <1>4 DEF MessageTypes, Stage
  <2> QED
    BY <1>0, <1>3, <1>4, <2>1, StageKept
<1>6. t.msg.type # "KEY_EXC"
  BY <1>4 DEF MessageTypes, Stage
<1>7. AcceptOnce' /\ AcceptLast'
  BY <1>3, <1>4, <1>6 DEF TurnInv, AcceptOnce, AcceptLast
<1>8. ReportedKeyConfirmed'
  BY DEF TurnInv, ReportedKeyConfirmed, Accepted
<1>9. EndInv'
  <2>1. dropped \in Nat /\ EndInv
    BY DEF TypeOK, TurnInv
  <2>2. Running' => Running
    BY <2>1 DEF Transmit, Running
  <2>3. (dropped' = 0 => dropped = 0) /\ (dropped' # 0 \/ Live' # {})
    BY <1>3, <2>1
  <2>4. as1Log \subseteq as1Log' /\ ac2Log \subseteq ac2Log'
    OBVIOUS
  <2> QED
    BY <2>1, <2>2, <2>3, <2>4, EndKept
<1>10. PairInv' /\ (\A x \in Live' : LiveOK(x)') /\ \A u \in threads' : HandlerOK(u)'
  BY <1>3 DEF PairInv
<1> QED
  BY <1>3, <1>5, <1>7, <1>8, <1>9, <1>10 DEF TurnInv

\* Outside the steps between b and B the two belong together.
LEMMA Paired ==
    ASSUME TypeOK, IInv, TurnInv, NEW t \in threads,
           t.pc \notin {"mulB", "setB"}
    PROVE  as1_b # Nil => as1_B = Pub(as1_b)
<1>1. threads = {t}
  BY Alone DEF TurnInv
<1> QED
  BY <1>1 DEF TurnInv, PairInv

----------------------------------------------------------------------------
(* The network, the listener and main.                                     *)

\* Steps that neither begin nor end a handler that matters.
LEMMA SameTurn ==
    ASSUME TurnInv, Live' = Live, \A m \in Flying' : m \in Flying,
           UNCHANGED <<dropped, threads, usedNonces, notices, ac2Fields,
                       as1Fields, history>>,
           Running' => Running
    PROVE  TurnInv'
<1>1. AloneInv' /\ StageInv'
  BY DEF TurnInv, AloneInv, StageInv
<1>2. \A m \in Live' : LiveOK(m)'
  BY DEF TurnInv, LiveOK, Settled, KOf, KeyFits, ac2Fields, as1Fields, history
<1>3. (\A t \in threads' : HandlerOK(t)') /\ PairInv'
  BY DEF TurnInv, HandlerOK, PairInv, KOf, KeyFits, ac2Fields, as1Fields
<1>4. AcceptOnce' /\ AcceptLast' /\ ReportedKeyConfirmed'
  BY DEF TurnInv, AcceptOnce, AcceptLast, ReportedKeyConfirmed, Accepted, history
<1>5. EndInv'
  BY DEF TurnInv, EndInv, Complete, history
<1> QED
  BY <1>1, <1>2, <1>3, <1>4, <1>5 DEF TurnInv

\* A message that is read comes alive in its handler, a repeat does not.
LEMMA TurnReceive ==
    ASSUME TypeOK, IInv, TurnInv, NEW w \in wire, Receive(w)
    PROVE  TurnInv'
<1>0. AloneInv /\ StageInv
  BY DEF TurnInv
<1>1. /\ UNCHANGED <<phase, dropped, notices, ac2Fields, as1Fields, history>>
      /\ wire' = wire \ {w}
  BY DEF Receive
<1>2. CASE Replayed(w)
  <2>1. UNCHANGED <<threads, usedNonces>>
    BY <1>2 DEF Receive
  <2>2. \A v \in wire : Replayed(v)' <=> Replayed(v)
    BY <2>1 DEF Replayed
  <2>3. Live' = Live
    BY <1>1, <1>2, <2>1, <2>2 DEF Live
  <2>4. \A m \in Flying' : m \in Flying
    BY <1>1, <2>1 DEF Flying
  <2> QED
    BY <1>1, <2>1, <2>3, <2>4, SameTurn DEF Running
<1>3. CASE ~Replayed(w)
  <2>1. /\ w.msg \in Messages /\ w.msg.type \in MessageTypes
        /\ w.msg.nonce \in Nonces /\ Dest[w.msg.type] \in Roles
    BY PacketRole
  <2>2. threads = {}
    BY <1>0, <1>3, Alone
  <2>3. w.msg \in Live /\ w.msg \in Flying
    BY <1>3 DEF Live, Flying
  <2>4. MarkUsed(Dest[w.msg.type], w.msg.nonce)
    BY <1>3 DEF Receive
  <2>5. /\ \A q \in Roles : usedNonces[q] \subseteq usedNonces'[q]
        /\ w.msg.nonce \in usedNonces'[Dest[w.msg.type]]
    BY <2>1, <2>4, MarkGrows
  <2>6. PICK u : u = Thread(w.msg, w.copy, FirstPc[w.msg.type], Nil)
    OBVIOUS
  <2>7. threads' = {u} /\ u.msg = w.msg /\ u.pc = FirstPc[w.msg.type]
    BY <1>3, <2>2, <2>6 DEF Receive, Thread
  <2>8. \A v \in wire' : Replayed(v)'
    <3> SUFFICES ASSUME NEW v \in wire, v \in wire' PROVE Replayed(v)'
      BY <1>1
    <3>1. CASE Replayed(v)
      BY <2>5, <3>1, StayReplayed
    <3>2. CASE ~Replayed(v)
      <4>1. v.msg = w.msg
        BY <1>0, <2>3, <3>2 DEF Live, AloneInv
      <4> QED
        BY <2>5, <4>1 DEF Replayed
    <3> QED
      BY <3>1, <3>2
  <2>9. Live' = {w.msg} /\ Live = {w.msg}
    <3>1. Live' = {w.msg}
      BY <2>7, <2>8 DEF Live
    <3> QED
      BY <1>0, <2>3, <3>1 DEF AloneInv
  <2>10. AloneInv'
    <3>1. \A m \in Flying' : m \in Flying
      BY <1>1, <2>3, <2>7 DEF Flying
    <3> QED
      BY <1>0, <1>1, <2>7, <2>9, <3>1 DEF AloneInv
  <2>11. StageInv'
    <3>1. w.msg.nonce.s = notices /\ w.msg.nonce.n = NameOf[w.msg.type]
      BY <1>0, <2>3 DEF AloneInv
    <3>2. notices \in 1 .. notices
      BY <2>1, <3>1 DEF Nonces
    <3>3. \A q \in Roles : \A n \in usedNonces'[q] :
              n \in usedNonces[q] \/ n = w.msg.nonce
      BY <2>4 DEF MarkUsed, TypeOK
    <3>4. \A q \in Roles : \A n \in usedNonces'[q] : n.s \in 1 .. notices'
      BY <1>0, <1>1, <3>1, <3>2, <3>3 DEF StageInv
    <3>5. ASSUME NEW ty \in MessageTypes, NEW n \in usedNonces'[Dest[ty]],
                 n.n = NameOf[ty], n.s = notices
          PROVE  Stage[ty] <= Stage[w.msg.type]
      <4>1. Dest[ty] \in Roles
        BY DEF MessageTypes, Dest, Roles
      <4>2. CASE n \in usedNonces[Dest[ty]]
        BY <1>0, <2>3, <3>5, <4>2 DEF StageInv
      <4>3. CASE n = w.msg.nonce
        <5>1. ty = w.msg.type
          BY <2>1, <3>1, <3>5, <4>3 DEF MessageTypes, NameOf
        <5> QED
          BY <5>1 DEF MessageTypes, Stage
      <4> QED
        BY <3>3, <4>1, <4>2, <4>3
    <3> QED
      BY <1>1, <2>9, <3>4, <3>5 DEF StageInv
  <2>12. LiveOK(w.msg)'
    BY <1>1, <2>3
    DEF TurnInv, LiveOK, Settled, KOf, KeyFits, ac2Fields, as1Fields, history
  <2>13. HandlerOK(u)'
    <3>1. u.pc \in {"open", "setUI", "relay", "derive", "hash", "verify"}
      BY <2>1, <2>7 DEF MessageTypes, FirstPc
    <3> QED
      BY <3>1 DEF HandlerOK
  <2>14. PairInv'
    BY <1>1, <2>2 DEF TurnInv, PairInv, as1Fields
  <2>15. AcceptOnce' /\ AcceptLast' /\ ReportedKeyConfirmed'
    BY <1>1, <2>9
    DEF TurnInv, AcceptOnce, AcceptLast, ReportedKeyConfirmed, Accepted, history
  <2>16. EndInv'
    BY <1>1, <2>9, EndKept DEF TurnInv, Running, history
  <2> QED
    BY <2>7, <2>9, <2>10, <2>11, <2>12, <2>13, <2>14, <2>15, <2>16 DEF TurnInv
<1> QED
  BY <1>2, <1>3

\* A repeat is as live as what it repeats.
LEMMA TurnDuplicate ==
    ASSUME TypeOK, IInv, TurnInv, NEW w \in wire, Duplicate(w)
    PROVE  TurnInv'
<1>1. UNCHANGED <<phase, dropped, threads, usedNonces, notices, ac2Fields,
                  as1Fields, history>>
  BY DEF Duplicate
<1>2. PICK p : p = Packet(w.msg, w.copy, w.left - 1)
  OBVIOUS
<1>3. PICK q : q = Packet(w.msg, MaxCopies - w.left + 1, 0)
  OBVIOUS
<1>4. /\ wire' = (wire \ {w}) \cup {p, q}
      /\ p.msg = w.msg /\ q.msg = w.msg
  BY <1>2, <1>3 DEF Duplicate, Packet
<1>5. \A v : Replayed(v)' <=> Replayed(v)
  BY <1>1 DEF Replayed
<1>6. Replayed(p) <=> Replayed(w)
  BY <1>4 DEF Replayed
<1>7. Replayed(q) <=> Replayed(w)
  BY <1>4 DEF Replayed
<1>8. Live' = Live
  BY <1>1, <1>4, <1>5, <1>6, <1>7 DEF Live
<1>9. \A m \in Flying' : m \in Flying
  BY <1>1, <1>4 DEF Flying
<1> QED
  BY <1>1, <1>8, <1>9, SameTurn DEF Running

\* The listener and main are not part of a session.
LEMMA TurnMain ==
    ASSUME TypeOK, IInv, TurnInv,
           Listen \/ TimerFires \/ MainExits \/ Interrupt \/ UNCHANGED vars
    PROVE  TurnInv'
<1>1. /\ UNCHANGED <<dropped, wire, threads, usedNonces, notices, ac2Fields,
                     as1Fields, history>>
      /\ Running' => Running
  BY DEF Listen, TimerFires, MainExits, Interrupt, Running, vars, link
<1>2. \A v : Replayed(v)' <=> Replayed(v)
  BY <1>1 DEF Replayed
<1>3. Live' = Live /\ \A m \in Flying' : m \in Flying
  BY <1>1, <1>2 DEF Live, Flying
<1> QED
  BY <1>1, <1>3, SameTurn

----------------------------------------------------------------------------
(* AC1.                                                                    *)

\* A session begins when nothing of the one before is left.
LEMMA TurnSendNotic ==
    ASSUME InTurn, TypeOK, IInv, TurnInv, SendNotic
    PROVE  TurnInv'
<1>0. AloneInv /\ StageInv /\ notices \in Nat /\ notices < NumSessions
  BY ConstantsOK DEF TurnInv, TypeOK, SendNotic
<1>1. wire = {} /\ threads = {}
  <2>1. CASE notices > 0
    BY <1>0, <2>1, ConstantsOK DEF InTurn, SendNotic, Quiescent
  <2>2. CASE notices = 0
    <3>1. \A m \in Flying : m.nonce \in Nonces
      BY MessageFields DEF Flying, TypeOK, PacketOK, ThreadOK
    <3>2. \A m \in Flying : m.nonce.s \in 1 .. NumSessions
      BY <3>1 DEF Nonces
    <3>3. \A m \in Flying : FALSE
      BY <1>0, <2>2, <3>2 DEF AloneInv
    <3> QED
      BY <3>3 DEF Flying
  <2> QED
    BY <1>0, <2>1, <2>2
<1>2. PICK n1 : n1 = [n |-> "N1", s |-> notices + 1, c |-> 0]
  OBVIOUS
<1>3. PICK m : m = [type |-> "NOTIC", nonce |-> n1, ui |-> UI_AC1,
          M1 |-> Seal("SK_AC12", n1, StaticDH("AC1", "AC2"),
                      [ui1 |-> UI_AC1, ua |-> UA_AS1, sac |-> SAC_AS1,
                       ui2 |-> UI_AC2, n |-> n1])]
  OBVIOUS
<1>4. /\ notices' = notices + 1 /\ MarkUsed("AC1", n1) /\ Transmit("AC1", m)
      /\ Running
      /\ UNCHANGED <<threads, ac2Fields, as1Fields, history>>
  BY <1>2, <1>3 DEF SendNotic
<1>5. m.type = "NOTIC" /\ m.nonce = n1 /\ n1.s = notices' /\ n1.n = "N1"
  BY <1>2, <1>3, <1>4
<1>6. LiveOK(m)'
  BY <1>3 DEF LiveOK
<1>7. PICK p : p = Packet(m, 0, MaxCopies)
  OBVIOUS
<1>8. /\ p.msg = m
      /\ \/ wire' = {p} /\ UNCHANGED <<phase, dropped>>
         \/ wire' = {} /\ dropped' = dropped + 1
  BY <1>1, <1>4, <1>7 DEF Transmit, Packet
<1> HIDE <1>2, <1>3, <1>7
<1>9. \A q \in Roles : \A n \in usedNonces'[q] :
          n \in usedNonces[q] \/ (q = "AC1" /\ n = n1)
  BY <1>4 DEF MarkUsed, TypeOK
<1>10. \A q \in Roles : \A n \in usedNonces[q] : n.s # notices'
  BY <1>0, <1>4 DEF StageInv
<1>11. ~Replayed(p)'
  <2>1. Dest[p.msg.type] = "AC2"
    BY <1>5, <1>8 DEF Dest
  <2>2. "AC2" \in Roles
    BY DEF Roles
  <2> QED
    BY <1>5, <1>8, <1>9, <1>10, <2>1, <2>2 DEF Replayed
<1>12. \/ Live' = {m} /\ UNCHANGED <<phase, dropped>>
       \/ Live' = {} /\ dropped' = dropped + 1
  BY <1>1, <1>4, <1>8, <1>11 DEF Live
<1>13. AloneInv'
  <2>1. \A x \in Flying' : x = m
    BY <1>1, <1>4, <1>8 DEF Flying
  <2>2. NameOf["NOTIC"] = "N1"
    BY DEF NameOf
  <2> QED
    BY <1>1, <1>4, <1>5, <1>12, <2>1, <2>2 DEF AloneInv
<1>14. StageInv'
  <2>1. notices' \in 1 .. notices'
    BY <1>0, <1>4
  <2>2. \A q \in Roles : \A n \in usedNonces'[q] : n.s \in 1 .. notices'
    BY <1>0, <1>4, <1>5, <1>9, <2>1 DEF StageInv
  <2>3. ASSUME NEW ty \in MessageTypes, NEW n \in usedNonces'[Dest[ty]],
               n.n = NameOf[ty], n.s = notices'
        PROVE  FALSE
    <3>1. Dest[ty] \in Roles
      BY DEF MessageTypes, Dest, Roles
    <3>2. Dest[ty] = "AC1" /\ n = n1
      BY <1>9, <1>10, <2>3, <3>1
    <3>3. ty = "RQST_1"
      BY <3>2 DEF MessageTypes, Dest
    <3> QED
      BY <1>5, <2>3, <3>2, <3>3 DEF NameOf
  <2> QED
    BY <2>2, <2>3 DEF StageInv
<1>15. AcceptOnce' /\ AcceptLast' /\ ReportedKeyConfirmed'
  <2>1. \A a \in as1Log' : a \in as1Log /\ a.nonce.s \in 1 .. notices
    BY <1>4 DEF TurnInv, AcceptOnce, history
  <2>2. as1Log' = as1Log /\ ac2Log' = ac2Log
    BY <1>4 DEF history
  <2>3. AcceptOnce' /\ AcceptLast'
    BY <1>0, <1>4, <2>1, <2>2 DEF TurnInv, AcceptOnce, AcceptLast
  <2> QED
    BY <2>2, <2>3 DEF TurnInv, ReportedKeyConfirmed, Accepted
<1>16. EndInv'
  <2> SUFFICES ASSUME dropped' = 0, NEW s \in 1 .. notices'
               PROVE  Complete(s)' \/ (s = notices' /\ Live' # {})
    BY DEF EndInv
  <2>1. Live' # {} /\ dropped = 0
    BY <1>12 DEF TypeOK
  <2>2. CASE s = notices'
    BY <2>1, <2>2
  <2>3. CASE s \in 1 .. notices
    <3>1. Live = {}
      BY <1>1 DEF Live
    <3>2. Complete(s)
      BY <1>4, <2>1, <2>3, <3>1 DEF TurnInv, EndInv
    <3> QED
      BY <1>4, <3>2 DEF Complete, history
  <2> QED
    BY <1>0, <1>4, <2>2, <2>3
<1>17. PairInv' /\ (\A x \in Live' : LiveOK(x)') /\ \A u \in threads' : HandlerOK(u)'
  BY <1>1, <1>4, <1>6, <1>12 DEF TurnInv, PairInv, as1Fields
<1> QED
  BY <1>13, <1>14, <1>15, <1>16, <1>17 DEF TurnInv

\* What a handler may use of TurnInv: its message says what it will check.
LEMMA HandlerFacts ==
    ASSUME TypeOK, IInv, TurnInv, NEW t \in threads
    PROVE  /\ LiveOK(t.msg) /\ HandlerOK(t) /\ MsgInv(t.msg) /\ ThreadInv(t)
           /\ ThreadOK(t)
           /\ t.msg.nonce.s = notices /\ Scalar(t).s = notices
           /\ \A n : Nonce(n, t).s = notices /\ Nonce(n, t).n = n
           /\ \A n \in {"N1", "N2", "N3", "N4", "N5", "N6"} :
                 Nonce(n, t) \in Nonces
           /\ Scalar(t) \in Scalars
<1>1. t.msg \in Live /\ t.msg \in Flying
  BY DEF Live, Flying
<1>2. ThreadOK(t)
  BY DEF TypeOK
<1>3. AloneInv
  BY DEF TurnInv
<1>4. LiveOK(t.msg) /\ HandlerOK(t) /\ MsgInv(t.msg) /\ ThreadInv(t)
  BY <1>1 DEF TurnInv, IInv
<1>5. /\ \A n \in {"N1", "N2", "N3", "N4", "N5", "N6"} : Nonce(n, t) \in Nonces
      /\ Scalar(t) \in Scalars
  BY <1>2, Drawn
<1> QED
  BY <1>2, <1>3, <1>4, <1>5, Alone

\* AC1's handler passes B on, for the M3 it opens is the one AS1 sealed.
LEMMA TurnAC1 ==
    ASSUME TypeOK, IInv, TurnInv, NEW t \in threads, RelayB(t)
    PROVE  TurnInv'
<1>0. t.msg.type = "RQST_1" /\ t.pc = "relay" /\ Finish(t)
  BY DEF RelayB, At
<1>1. /\ LiveOK(t.msg) /\ ThreadOK(t) /\ Settled
      /\ Nonce("N4", t) \in Nonces /\ Scalar(t) \in Scalars
      /\ Nonce("N4", t).s = notices /\ Nonce("N4", t).n = "N4"
  BY <1>0, HandlerFacts DEF LiveOK
<1>2. t.msg.M3 = Seal("KS1", t.msg.nonce, StaticDH("AS1", "AC1"),
                      [sac |-> as1_SAC, B |-> as1_B, ui1 |-> UI_AC1,
                       ui2 |-> UI_AC2, n |-> t.msg.nonce])
      /\ t.msg.sac = as1_SAC
  BY <1>0, <1>1 DEF LiveOK
<1>3. PICK pt : pt = t.msg.M3.pt
  OBVIOUS
<1>4. /\ pt.sac = as1_SAC /\ pt.B = as1_B /\ pt.ui1 = UI_AC1
      /\ pt.ui2 = UI_AC2 /\ pt.n = t.msg.nonce
  BY <1>2, <1>3 DEF Seal
<1>5. Opens(t.msg.M3, "KS1", t.msg.nonce, StaticDH("AC1", "AS1"))
  BY <1>2 DEF Opens, Seal, StaticDH
<1>6. PICK n4 : n4 = Nonce("N4", t)
  OBVIOUS
<1>7. PICK m : m = [type |-> "RQST_2", nonce |-> n4, ui |-> UI_AC1,
          M4 |-> Blind(Scalar(t), [ui1 |-> UI_AC1, ua |-> UA_AS1,
                                   sac |-> t.msg.sac, B |-> pt.B])]
  OBVIOUS
<1>8. MarkUsed("AC1", n4) /\ Transmit("AC1", m)
  BY <1>2, <1>3, <1>4, <1>5, <1>6, <1>7 DEF RelayB
<1>9. m \in Messages
  <2>1. as1_SAC \in Bytes12 /\ as1_B \in PubOrNil
    BY DEF TypeOK
  <2>2. m \in Rqst2s
    BY <1>1, <1>2, <1>4, <1>6, <1>7, <2>1, ConstantsOK
    DEF Rqst2s, Blind, Pad, Pub, Pubs
  <2> QED
    BY <2>2 DEF Messages
<1>10. UNCHANGED <<notices, ac2Fields, as1Fields, history>>
  BY DEF RelayB
<1>11. LiveOK(m)'
  <2>1. Unblind(m.M4).B = as1_B
    BY <1>4, <1>7 DEF Unblind, Blind, Pad, Pub
  <2>2. m.type = "RQST_2"
    BY <1>7
  <2> QED
    BY <1>1, <1>10, <2>1, <2>2 DEF LiveOK, Settled, ac2Fields, as1Fields
<1>12. Draws("AC1")
  BY <1>1, <1>6, <1>8 DEF Draws, Own
<1>13. as1_b' # Nil => as1_B' = Pub(as1_b')
  BY <1>0, <1>10, Paired DEF as1Fields
<1>14. /\ m.nonce = n4 /\ m.type = "RQST_2"
       /\ Stage[t.msg.type] < Stage[m.type] /\ NameOf[m.type] = "N4"
  BY <1>0, <1>7 DEF Stage, NameOf
<1>15. "AC1" \in Roles /\ UNCHANGED <<as1Log, ac2Log>>
  BY <1>10 DEF Roles, history
<1> QED
  BY <1>0, <1>1, <1>6, <1>8, <1>9, <1>10, <1>11, <1>12, <1>13, <1>14, <1>15,
     SendTurn

----------------------------------------------------------------------------
(* AC2.                                                                    *)

\* A handler that does not write b or B leaves them together.
LEMMA PairKept ==
    ASSUME TypeOK, IInv, TurnInv, NEW t \in threads,
           t.pc \notin {"mulB", "setB"}, UNCHANGED as1Fields
    PROVE  PairInv' /\ (as1_b' # Nil => as1_B' = Pub(as1_b'))
BY Paired DEF PairInv, as1Fields

\* AC2 opens the NOTIC AC1 sealed, and answers it.
LEMMA TurnNotic ==
    ASSUME TypeOK, IInv, TurnInv, NEW t \in threads,
           OpenNotic(t) \/ SendReply(t)
    PROVE  TurnInv'
<1>0. t.msg.type = "NOTIC" /\ t.pc \in {"open", "reply"}
  BY DEF OpenNotic, SendReply, At
<1>1. /\ LiveOK(t.msg) /\ MsgInv(t.msg) /\ ThreadInv(t) /\ ThreadOK(t)
      /\ Nonce("N2", t) \in Nonces
      /\ Nonce("N2", t).s = notices /\ Nonce("N2", t).n = "N2"
  BY HandlerFacts
<1>2. UNCHANGED <<notices, as1Fields, history>>
  BY DEF OpenNotic, SendReply
<1>3. PairInv' /\ (as1_b' # Nil => as1_B' = Pub(as1_b'))
  BY <1>0, <1>2, PairKept
<1>4. "AC2" \in Roles /\ UNCHANGED <<as1Log, ac2Log>>
  BY <1>2 DEF Roles, history
<1>5. CASE OpenNotic(t)
  <2>1. PICK pt : pt = t.msg.M1.pt
    OBVIOUS
  <2>2. /\ t.msg.M1 = Seal("SK_AC12", t.msg.nonce, StaticDH("AC1", "AC2"), pt)
        /\ pt.ui1 = UI_AC1 /\ pt.ui2 = UI_AC2 /\ pt.n = t.msg.nonce
    BY <1>0, <1>1, <2>1 DEF LiveOK, Seal
  <2>3. Opens(t.msg.M1, "SK_AC12", t.msg.nonce, StaticDH("AC2", "AC1"))
    BY <2>1, <2>2 DEF Opens, StaticDH
  <2>4. Move(t, "reply", pt.sac) /\ UNCHANGED <<link, usedNonces>>
    BY <1>5, <2>1, <2>2, <2>3 DEF OpenNotic
  <2>5. LiveOK(t.msg)' /\ Draws("AC2")
    BY <1>0, <1>1, <2>4 DEF LiveOK, Draws
  <2>6. \A u : u = Thread(t.msg, t.copy, "reply", pt.sac) => HandlerOK(u)'
    BY DEF HandlerOK, Thread
  <2> QED
    BY <1>2, <1>3, <1>4, <2>4, <2>5, <2>6, MoveTurn
<1>6. CASE SendReply(t)
  <2>1. PICK n2 : n2 = Nonce("N2", t)
    OBVIOUS
  <2>2. PICK m : m = [type |-> "REPLY", nonce |-> n2, ui |-> UI_AC2,
            M2 |-> [ui1 |-> UI_AC1, x |-> Xor(t.tmp, ac2_SAC')]]
    OBVIOUS
  <2>3. Finish(t) /\ MarkUsed("AC2", n2) /\ Transmit("AC2", m)
    BY <1>6, <2>1, <2>2 DEF SendReply
  <2>4. m \in Messages
    <3>1. ac2_SAC' = SAC_NEW /\ t.tmp = SAC_AS1
      BY <1>1, <1>6 DEF SendReply, At, ThreadInv
    <3>2. Xor(t.tmp, ac2_SAC') \in Bytes12
      BY <3>1, ConstantsOK, XorType DEF Bytes12
    <3>3. m \in Replies
      BY <1>1, <2>1, <2>2, <3>2, ConstantsOK DEF Replies
    <3> QED
      BY <3>3 DEF Messages
  <2>5. /\ m.type = "REPLY" /\ m.nonce = n2
        /\ Stage[t.msg.type] < Stage[m.type] /\ NameOf[m.type] = "N2"
    BY <1>0, <2>2 DEF Stage, NameOf
  <2>6. LiveOK(m)'
    BY <2>2 DEF LiveOK
  <2>7. Draws("AC2")
    BY <1>1, <2>1, <2>3 DEF Draws, Own
  <2> QED
    BY <1>1, <1>2, <1>3, <1>4, <2>1, <2>3, <2>4, <2>5, <2>6, <2>7, SendTurn
<1> QED
  BY <1>5, <1>6

\* AC2 derives the key from the B and the fields AS1 will use, and sends the
\* MAC of k under it.
LEMMA TurnRqst2 ==
    ASSUME TypeOK, IInv, TurnInv, NEW t \in threads,
           DeriveKey(t) \/ SendResp(t)
    PROVE  TurnInv'
<1>0. t.msg.type = "RQST_2" /\ t.pc \in {"derive", "respond"}
  BY DEF DeriveKey, SendResp, At
<1>1. /\ LiveOK(t.msg) /\ HandlerOK(t) /\ ThreadOK(t) /\ MsgInv(t.msg)
      /\ Nonce("N5", t) \in Nonces /\ Scalar(t) \in Scalars
      /\ Nonce("N5", t).s = notices /\ Nonce("N5", t).n = "N5"
  BY HandlerFacts
<1>2. /\ UNCHANGED <<notices, as1Fields, as1Log, ac2Log, ac2_SAC>>
  BY DEF DeriveKey, SendResp, ac2Fields, history
<1>3. PairInv' /\ (as1_b' # Nil => as1_B' = Pub(as1_b'))
  BY <1>0, <1>2, PairKept
<1>4. "AC2" \in Roles
  BY DEF Roles
<1>5. Settled /\ Unblind(t.msg.M4).B = as1_B
  BY <1>0, <1>1 DEF LiveOK
<1>6. Settled' /\ LiveOK(t.msg)'
  BY <1>0, <1>2, <1>5 DEF LiveOK, Settled, as1Fields
<1>7. CASE DeriveKey(t)
  <2>1. as1_b \in Scalars /\ as1_B = Pub(as1_b)
    BY <1>0, <1>1, <1>5 DEF MsgInv, Settled, TypeOK
  <2>2. as1_B \in Pubs
    BY <2>1 DEF Pub, Pubs
  <2>3. as1_B # Nil /\ as1_B.of = as1_b
    BY <2>1, <2>2, NilOK DEF Pub
  <2>4. PICK n5 : n5 = Nonce("N5", t)
    OBVIOUS
  <2>5. PICK J : J = Pub(Scalar(t))
    OBVIOUS
  <2>6. PICK k : k = H2(ac2_SAC, UI_AC2, as1_B, J, n5)
    OBVIOUS
  <2>7. /\ Move(t, "respond", k) /\ MarkUsed("AC2", n5) /\ UNCHANGED link
        /\ ac2_KS' = AC2Key(ac2_SAC, k, as1_B, Scalar(t))
    BY <1>5, <1>7, <2>3, <2>4, <2>5, <2>6 DEF DeriveKey
  <2>8. k = KOf(J, n5)' /\ k.J = J /\ k.n5 = n5
    BY <1>2, <1>5, <2>6 DEF KOf, Settled, H2, as1Fields
  <2>9. KeyFits(J, n5)'
    BY <1>2, <1>5, <2>3, <2>5, <2>7, <2>8
    DEF KeyFits, AC2Key, AS1Key, KeyOf, Pub, Settled, as1Fields
  <2>10. \A u : u = Thread(t.msg, t.copy, "respond", k) => HandlerOK(u)'
    <3> SUFFICES ASSUME NEW u, u = Thread(t.msg, t.copy, "respond", k)
                 PROVE  HandlerOK(u)'
      OBVIOUS
    <3>1. u.pc = "respond" /\ u.tmp = k
      BY DEF Thread
    <3>2. n5.n = "N5" /\ n5.s = notices'
      BY <1>1, <1>2, <2>4
    <3> QED
      BY <2>8, <2>9, <3>1, <3>2 DEF HandlerOK
  <2>11. Draws("AC2")
    BY <1>1, <2>4, <2>7 DEF Draws, Own
  <2> QED
    BY <1>2, <1>3, <1>4, <1>6, <2>7, <2>10, <2>11, MoveTurn
<1>8. CASE SendResp(t)
  <2>1. t.pc = "respond" /\ t.tmp \in Hashes
    BY <1>1, <1>8 DEF SendResp, At, ThreadOK
  <2>2. PICK m : m = [type |-> "RESP", nonce |-> t.tmp.n5, ui |-> UI_AC2,
            M5 |-> [J |-> t.tmp.J, mac |-> Hmac(ac2_KS, t.tmp)]]
    OBVIOUS
  <2>3. Finish(t) /\ Transmit("AC2", m) /\ UNCHANGED <<usedNonces, ac2_KS>>
    BY <1>8, <2>2 DEF SendResp, ac2Fields
  <2>4. /\ t.tmp = KOf(t.tmp.J, t.tmp.n5) /\ KeyFits(t.tmp.J, t.tmp.n5)
        /\ t.tmp.n5.n = "N5" /\ t.tmp.n5.s = notices
    BY <1>1, <2>1 DEF HandlerOK
  <2>5. m \in Messages
    <3>1. m \in Resps
      BY <2>1, <2>2, ConstantsOK DEF Resps, Hashes, Hmac, TypeOK
    <3> QED
      BY <3>1 DEF Messages
  <2>6. /\ m.type = "RESP" /\ m.nonce = t.tmp.n5 /\ m.M5.J = t.tmp.J
        /\ m.M5.mac = Hmac(ac2_KS, t.tmp)
        /\ Stage[t.msg.type] < Stage[m.type] /\ NameOf[m.type] = "N5"
    BY <1>0, <2>2 DEF Stage, NameOf
  <2>7. LiveOK(m)'
    BY <1>2, <1>6, <2>3, <2>4, <2>6 DEF LiveOK, KeyFits, KOf, as1Fields
  <2>8. Draws("AC2")
    BY <2>3 DEF Draws
  <2> QED
    BY <1>2, <1>3, <1>4, <2>3, <2>4, <2>5, <2>6, <2>7, <2>8, SendTurn
<1> QED
  BY <1>7, <1>8

\* AC2 finds AS1's MAC right and reports the key AS1 has accepted in this
\* session, which completes it.
LEMMA TurnKeyExc ==
    ASSUME TypeOK, IInv, TurnInv, NEW t \in threads,
           VerifyKeyExc(t) \/ ReportKey(t)
    PROVE  TurnInv'
<1>0. t.msg.type = "KEY_EXC" /\ t.pc \in {"verify", "report"}
  BY DEF VerifyKeyExc, ReportKey, At
<1>1. LiveOK(t.msg) /\ t.msg.nonce.s = notices
  BY HandlerFacts
<1>2. UNCHANGED <<link, notices, usedNonces, ac2Fields, as1Fields, as1Log>>
  BY DEF VerifyKeyExc, ReportKey
<1>3. PairInv'
  BY <1>0, <1>2, PairKept
<1>4. "AC2" \in Roles /\ Draws("AC2")
  BY <1>2 DEF Roles, Draws
<1>5. /\ t.msg.MAS1 = Hmac(ac2_KS, [sac |-> ac2_SAC, ui |-> UI_AC2])
      /\ \E a \in as1Log : a.nonce.s = notices /\ a.key = ac2_KS
  BY <1>0, <1>1 DEF LiveOK
<1>6. CASE VerifyKeyExc(t)
  <2>1. Move(t, "report", Nil) /\ UNCHANGED ac2Log
    BY <1>5, <1>6 DEF VerifyKeyExc
  <2>2. LiveOK(t.msg)'
    BY <1>0, <1>2, <1>5 DEF LiveOK, ac2Fields
  <2>3. \A u : u = Thread(t.msg, t.copy, "report", Nil) => HandlerOK(u)'
    BY DEF HandlerOK, Thread
  <2> QED
    BY <1>2, <1>3, <1>4, <2>1, <2>2, <2>3, MoveTurn
<1>7. CASE ReportKey(t)
  <2>0. AloneInv /\ StageInv
    BY DEF TurnInv
  <2>1. PICK e : e = [key |-> ac2_KS, nonce |-> t.msg.nonce]
    OBVIOUS
  <2>2. Finish(t) /\ ac2Log' = ac2Log \cup {e} /\ e.key = ac2_KS
        /\ e.nonce.s = notices
    BY <1>1, <1>7, <2>1 DEF ReportKey
  <2>3. threads' = {} /\ Live' = {} /\ AloneInv'
    BY <1>2, <2>0, <2>2, FinishLive DEF link
  <2>4. StageInv'
    BY <1>2, <1>4, <2>0, <2>3, StageKept
  <2>5. AcceptOnce' /\ AcceptLast'
    BY <1>2, <2>3 DEF TurnInv, AcceptOnce, AcceptLast
  <2>6. ReportedKeyConfirmed'
    BY <1>2, <1>5, <2>2 DEF TurnInv, ReportedKeyConfirmed, Accepted
  <2>7. Complete(notices)'
    BY <1>2, <1>5, <2>2 DEF Complete
  <2>8. EndInv'
    BY <1>2, <2>2, <2>7, EndKept DEF TurnInv, link, Running
  <2> QED
    BY <1>3, <2>3, <2>4, <2>5, <2>6, <2>8 DEF TurnInv
<1> QED
  BY <1>6, <1>7

----------------------------------------------------------------------------
(* AS1.                                                                    *)

\* AS1 answers a REPLY: each field it writes is the one AC2 used or will be
\* sent, and nothing else writes between two of its steps.
LEMMA TurnReply ==
    ASSUME TypeOK, IInv, TurnInv, NEW t \in threads,
           SetUI(t) \/ SetSAC(t) \/ DrawB(t) \/ MulB(t) \/ SetB(t)
    PROVE  TurnInv'
<1>0. /\ t.msg.type = "REPLY"
      /\ UNCHANGED <<link, notices, ac2Fields, as1Log, ac2Log>>
  BY DEF SetUI, SetSAC, DrawB, MulB, SetB, At, history
<1>1. /\ LiveOK(t.msg) /\ HandlerOK(t) /\ ThreadOK(t) /\ MsgInv(t.msg)
      /\ Nonce("N3", t) \in Nonces /\ Scalar(t).s = notices
      /\ Nonce("N3", t).s = notices /\ Nonce("N3", t).n = "N3"
  BY HandlerFacts
<1>2. LiveOK(t.msg)' /\ "AS1" \in Roles
  BY <1>0, <1>1 DEF LiveOK, Roles
<1>3. t.msg.ui = UI_AC2 /\ t.msg.M2.ui1 = UI_AC1
  BY <1>0, <1>1 DEF LiveOK
<1>4. CASE SetUI(t)
  <2>1. /\ Move(t, "setSAC", Nil) /\ as1_UI' = UI_AC2
        /\ UNCHANGED <<usedNonces, as1_b, as1_B>>
    BY <1>3, <1>4 DEF SetUI
  <2>2. PairInv'
    BY <1>4, <2>1, Paired DEF SetUI, At, PairInv
  <2>3. \A u : u = Thread(t.msg, t.copy, "setSAC", Nil) => HandlerOK(u)'
    BY <2>1 DEF HandlerOK, Thread
  <2>4. Draws("AS1")
    BY <2>1 DEF Draws
  <2> QED
    BY <1>0, <1>2, <2>1, <2>2, <2>3, <2>4, MoveTurn
<1>5. CASE SetSAC(t)
  <2>1. PICK n3 : n3 = Nonce("N3", t)
    OBVIOUS
  <2>2. /\ Move(t, "drawB", Nil) /\ MarkUsed("AS1", n3)
        /\ as1_SAC' = Xor(SAC_AS1, t.msg.M2.x)
        /\ UNCHANGED <<as1_UI, as1_b, as1_B>> /\ t.pc = "setSAC"
    BY <1>3, <1>5, <2>1 DEF SetSAC, At
  <2>3. as1_SAC' = ac2_SAC' /\ as1_UI' = UI_AC2
    <3>1. t.msg.M2.x = Xor(SAC_AS1, SAC_NEW) /\ ac2_SAC = SAC_NEW
      BY <1>0, <1>1 DEF MsgInv
    <3>2. as1_UI = UI_AC2
      BY <1>1, <2>2 DEF HandlerOK
    <3> QED
      BY <1>0, <2>2, <3>1, <3>2, XorCancels DEF ac2Fields
  <2>4. PairInv'
    BY <2>2, Paired DEF PairInv
  <2>5. \A u : u = Thread(t.msg, t.copy, "drawB", Nil) => HandlerOK(u)'
    BY <2>3 DEF HandlerOK, Thread
  <2>6. Draws("AS1")
    BY <1>1, <2>1, <2>2 DEF Draws, Own
  <2> QED
    BY <1>0, <1>2, <2>2, <2>4, <2>5, <2>6, MoveTurn
<1>6. CASE DrawB(t)
  <2>1. /\ Move(t, "mulB", Nil) /\ as1_b' = Scalar(t) /\ t.pc = "drawB"
        /\ UNCHANGED <<usedNonces, as1_UI, as1_SAC>>
    BY <1>6 DEF DrawB, At
  <2>2. as1_UI' = UI_AC2 /\ as1_SAC' = ac2_SAC' /\ as1_b'.s = notices'
    BY <1>0, <1>1, <2>1 DEF HandlerOK, ac2Fields
  <2>3. PairInv'
    <3>1. PICK u : u = Thread(t.msg, t.copy, "mulB", Nil)
      OBVIOUS
    <3>2. u \in threads' /\ u.pc = "mulB"
      BY <2>1, <3>1 DEF Move, Thread
    <3> QED
      BY <3>2 DEF PairInv
  <2>4. \A u : u = Thread(t.msg, t.copy, "mulB", Nil) => HandlerOK(u)'
    BY <2>2 DEF HandlerOK, Thread
  <2>5. Draws("AS1")
    BY <2>1 DEF Draws
  <2> QED
    BY <1>0, <1>2, <2>1, <2>3, <2>4, <2>5, MoveTurn
<1>7. CASE MulB(t)
  <2>1. /\ Move(t, "setB", Pub(as1_b)) /\ t.pc = "mulB"
        /\ UNCHANGED <<usedNonces, as1Fields>>
    BY <1>7 DEF MulB, At
  <2>2. /\ as1_UI' = UI_AC2 /\ as1_SAC' = ac2_SAC' /\ as1_b'.s = notices'
        /\ Pub(as1_b)' = Pub(as1_b)
    BY <1>0, <1>1, <2>1 DEF HandlerOK, ac2Fields, as1Fields, Pub
  <2>3. PairInv'
    <3>1. PICK u : u = Thread(t.msg, t.copy, "setB", Pub(as1_b))
      OBVIOUS
    <3>2. u \in threads' /\ u.pc = "setB"
      BY <2>1, <3>1 DEF Move, Thread
    <3> QED
      BY <3>2 DEF PairInv
  <2>4. \A u : u = Thread(t.msg, t.copy, "setB", Pub(as1_b)) => HandlerOK(u)'
    BY <2>2 DEF HandlerOK, Thread
  <2>5. Draws("AS1")
    BY <2>1 DEF Draws
  <2> QED
    BY <1>0, <1>2, <2>1, <2>3, <2>4, <2>5, MoveTurn
<1>8. CASE SetB(t)
  <2>1. /\ Move(t, "request", Nil) /\ t.pc = "setB" /\ as1_B' = t.tmp
        /\ UNCHANGED <<usedNonces, as1_UI, as1_SAC, as1_b>>
    BY <1>8 DEF SetB, At
  <2>2. /\ as1_UI' = UI_AC2 /\ as1_SAC' = ac2_SAC' /\ as1_b'.s = notices'
        /\ as1_B' = Pub(as1_b')
    BY <1>0, <1>1, <2>1 DEF HandlerOK, ac2Fields
  <2>3. PairInv'
    BY <2>2 DEF PairInv
  <2>4. \A u : u = Thread(t.msg, t.copy, "request", Nil) => HandlerOK(u)'
    BY <2>2 DEF HandlerOK, Thread
  <2>5. Draws("AS1")
    BY <2>1 DEF Draws
  <2> QED
    BY <1>0, <1>2, <2>1, <2>3, <2>4, <2>5, MoveTurn
<1> QED
  BY <1>4, <1>5, <1>6, <1>7, <1>8

\* The request is sent when b, B and the two fields are settled.
LEMMA TurnRequest ==
    ASSUME TypeOK, IInv, TurnInv, NEW t \in threads, SendRqst1(t)
    PROVE  TurnInv'
<1>0. t.msg.type = "REPLY" /\ t.pc = "request"
  BY DEF SendRqst1, At
<1>1. /\ HandlerOK(t) /\ ThreadOK(t)
      /\ Nonce("N3", t) \in Nonces
      /\ Nonce("N3", t).s = notices /\ Nonce("N3", t).n = "N3"
  BY HandlerFacts
<1>2. PICK n3 : n3 = Nonce("N3", t)
  OBVIOUS
<1>3. PICK m : m = [type |-> "RQST_1", nonce |-> n3, sac |-> as1_SAC,
          M3 |-> Seal("KS1", n3, StaticDH("AS1", "AC1"),
                      [sac |-> as1_SAC, B |-> as1_B, ui1 |-> UI_AC1,
                       ui2 |-> as1_UI, n |-> n3])]
  OBVIOUS
<1>4. /\ Finish(t) /\ Transmit("AS1", m)
      /\ UNCHANGED <<usedNonces, notices, ac2Fields, as1Fields, history>>
  BY <1>2, <1>3 DEF SendRqst1
<1>5. Settled
  BY <1>0, <1>1 DEF HandlerOK, Settled
<1>6. m \in Messages
  <2>1. m \in Rqst1s
    BY <1>1, <1>2, <1>3, ConstantsOK
    DEF Rqst1s, Seal, StaticDH, Roles, TypeOK
  <2> QED
    BY <2>1 DEF Messages
<1>7. /\ m.type = "RQST_1" /\ m.nonce = n3 /\ m.sac = as1_SAC
      /\ m.M3 = Seal("KS1", n3, StaticDH("AS1", "AC1"),
                     [sac |-> as1_SAC, B |-> as1_B, ui1 |-> UI_AC1,
                      ui2 |-> as1_UI, n |-> n3])
      /\ Stage[t.msg.type] < Stage[m.type] /\ NameOf[m.type] = "N3"
  BY <1>0, <1>3 DEF Stage, NameOf
<1>8. LiveOK(m)'
  BY <1>4, <1>5, <1>7 DEF LiveOK, Settled, ac2Fields, as1Fields
<1>9. as1_b' # Nil => as1_B' = Pub(as1_b')
  BY <1>4, <1>5 DEF Settled, as1Fields
<1>10. Draws("AS1") /\ "AS1" \in Roles /\ UNCHANGED <<as1Log, ac2Log>>
  BY <1>4 DEF Draws, Roles, history
<1> QED
  BY <1>1, <1>2, <1>4, <1>6, <1>7, <1>8, <1>9, <1>10, SendTurn

\* AS1 hashes the B it sent.
LEMMA TurnHash ==
    ASSUME TypeOK, IInv, TurnInv, NEW t \in threads, HashResp(t)
    PROVE  TurnInv'
<1>0. t.msg.type = "RESP" /\ t.pc = "hash"
  BY DEF HashResp, At
<1>1. LiveOK(t.msg)
  BY HandlerFacts
<1>2. PICK k : k = H2(as1_SAC, as1_UI, as1_B, t.msg.M5.J, t.msg.nonce)
  OBVIOUS
<1>3. /\ Move(t, "check", k) /\ UNCHANGED <<link, as1Log, ac2Log>>
      /\ UNCHANGED <<usedNonces, notices, ac2Fields, as1Fields, history>>
  BY <1>2 DEF HashResp, history
<1>4. LiveOK(t.msg)'
  BY <1>0, <1>1, <1>3
  DEF LiveOK, Settled, KeyFits, KOf, ac2Fields, as1Fields, history
<1>5. \A u : u = Thread(t.msg, t.copy, "check", k) => HandlerOK(u)'
  BY <1>2, <1>3 DEF HandlerOK, Thread, KOf, as1Fields
<1>6. PairInv'
  BY <1>0, <1>3, PairKept
<1>7. Draws("AS1") /\ "AS1" \in Roles
  BY <1>3 DEF Draws, Roles
<1> QED
  BY <1>3, <1>4, <1>5, <1>6, <1>7, MoveTurn

\* AS1 computes the key AC2 derived, accepts it for this session and says so.
LEMMA TurnVerify ==
    ASSUME TypeOK, IInv, TurnInv, NEW t \in threads, VerifyResp(t)
    PROVE  TurnInv'
<1>0. t.msg.type = "RESP" /\ t.pc = "check" /\ Finish(t)
  BY DEF VerifyResp, At
<1>1. /\ LiveOK(t.msg) /\ HandlerOK(t) /\ ThreadOK(t) /\ MsgInv(t.msg)
      /\ t.msg.nonce.s = notices /\ t.msg \in Live
      /\ Nonce("N6", t) \in Nonces
      /\ Nonce("N6", t).s = notices /\ Nonce("N6", t).n = "N6"
  BY HandlerFacts DEF Live
<1>2. /\ Settled /\ as1_b # Nil
      /\ t.tmp = KOf(t.msg.M5.J, t.msg.nonce)
      /\ KeyFits(t.msg.M5.J, t.msg.nonce)
      /\ t.msg.M5.mac = Hmac(ac2_KS, t.tmp)
  BY <1>0, <1>1 DEF LiveOK, HandlerOK, MsgInv
<1>3. ac2_KS = AS1Key(as1_SAC, as1_UI, t.tmp, as1_b, t.msg.M5.J)
  BY <1>2 DEF KeyFits
<1>4. PICK n6 : n6 = Nonce("N6", t)
  OBVIOUS
<1>5. PICK m : m = [type |-> "KEY_EXC", nonce |-> n6, sac |-> as1_SAC,
          MAS1 |-> Hmac(ac2_KS, [sac |-> as1_SAC, ui |-> as1_UI])]
  OBVIOUS
<1>6. PICK e : e = [key |-> ac2_KS, nonce |-> t.msg.nonce, copy |-> t.copy]
  OBVIOUS
<1>7. /\ as1Log' = as1Log \cup {e} /\ MarkUsed("AS1", n6)
      /\ Transmit("AS1", m)
  BY <1>2, <1>3, <1>4, <1>5, <1>6 DEF VerifyResp
<1>8. UNCHANGED <<notices, ac2Fields, as1Fields, ac2Log>>
  BY DEF VerifyResp
<1>9. e.key = ac2_KS /\ e.nonce.s = notices /\ e.key.b = as1_b
  BY <1>1, <1>3, <1>6 DEF AS1Key, KeyOf
<1>10. m \in Messages
  <2>1. m \in KeyExcs
    BY <1>1, <1>4, <1>5 DEF TypeOK, KeyExcs, Hmac
  <2> QED
    BY <2>1 DEF Messages
<1>11. /\ m.type = "KEY_EXC" /\ m.nonce = n6
       /\ m.MAS1 = Hmac(ac2_KS, [sac |-> ac2_SAC, ui |-> UI_AC2])
       /\ Stage[t.msg.type] < Stage[m.type] /\ NameOf[m.type] = "N6"
  BY <1>0, <1>2, <1>5 DEF Stage, NameOf, Settled
<1>12. LiveOK(m)'
  <2>1. \E a \in as1Log' : a.nonce.s = notices' /\ a.key = ac2_KS'
    BY <1>7, <1>8, <1>9 DEF ac2Fields
  <2> QED
    BY <1>8, <1>11, <2>1 DEF LiveOK, ac2Fields
<1>13. AcceptOnce' /\ as1Log \subseteq as1Log'
  <2>1. AcceptOnce
    BY DEF TurnInv
  <2>2. \A a \in as1Log : a.nonce.s # notices
    BY <1>0, <1>1 DEF TurnInv, AcceptLast
  <2>3. notices \in 1 .. notices
    <3>1. t.msg.nonce \in Nonces /\ t.msg.nonce.s \in Nat
      BY <1>1, MessageFields DEF ThreadOK, Nonces
    <3> QED
      BY <1>1, <3>1 DEF Nonces
  <2>4. e.key.b.s = e.nonce.s
    BY <1>2, <1>9 DEF Settled
  <2> QED
    BY <1>7, <1>8, <1>9, <2>1, <2>2, <2>3, <2>4 DEF AcceptOnce
<1>14. Draws("AS1") /\ "AS1" \in Roles
  BY <1>1, <1>4, <1>7 DEF Draws, Own, Roles
<1>15. as1_b' # Nil => as1_B' = Pub(as1_b')
  BY <1>0, <1>8, PairKept
<1> QED
  BY <1>0, <1>1, <1>4, <1>7, <1>8, <1>10, <1>11, <1>12, <1>13, <1>14, <1>15,
     SendTurn

----------------------------------------------------------------------------
(* The invariant and the theorems.                                         *)

\* Nothing is under way when main starts the nodes.
LEMMA TurnInit == Init => TurnInv
<1> SUFFICES ASSUME Init PROVE TurnInv
  OBVIOUS
<1>1. /\ threads = {} /\ wire = {} /\ notices = 0 /\ as1Log = {} /\ ac2Log = {}
      /\ as1_b = Nil /\ \A r \in Roles : usedNonces[r] = {}
  BY DEF Init
<1>2. Live = {} /\ Flying = {}
  BY <1>1 DEF Live, Flying
<1>3. AloneInv /\ StageInv
  BY <1>1, <1>2 DEF AloneInv, StageInv
<1>4. PairInv /\ AcceptOnce /\ AcceptLast /\ ReportedKeyConfirmed /\ EndInv
  BY <1>1 DEF PairInv, AcceptOnce, AcceptLast, ReportedKeyConfirmed, EndInv
<1> QED
  BY <1>1, <1>2, <1>3, <1>4 DEF TurnInv

\* One step per action of the nodes, the network and main.
LEMMA TurnStep ==
    InTurn /\ TypeOK /\ IInv /\ TurnInv /\ [Next]_vars => TurnInv'
<1> SUFFICES ASSUME InTurn, TypeOK, IInv, TurnInv, [Next]_vars
             PROVE  TurnInv'
  OBVIOUS
<1>1. ASSUME NEW t \in threads, AC1Step(t) PROVE TurnInv'
  BY <1>1, TurnAC1 DEF AC1Step
<1>2. ASSUME NEW t \in threads, AC2Step(t) PROVE TurnInv'
  BY <1>2, TurnNotic, TurnRqst2, TurnKeyExc DEF AC2Step
<1>3. ASSUME NEW t \in threads, AS1Step(t) PROVE TurnInv'
  BY <1>3, TurnReply, TurnRequest, TurnHash, TurnVerify DEF AS1Step
<1>4. ASSUME NEW w \in wire, Receive(w) \/ Duplicate(w) PROVE TurnInv'
  BY <1>4, TurnReceive, TurnDuplicate
<1>5. CASE SendNotic
  BY <1>5, TurnSendNotic
<1>6. CASE Listen \/ TimerFires \/ MainExits \/ Interrupt \/ UNCHANGED vars
  BY <1>6, TurnMain
<1> QED
  BY <1>1, <1>2, <1>3, <1>4, <1>5, <1>6 DEF Next, Work

\* The chain of a session's messages, for every number of sessions in turn,
\* repeats and failed dials (the six handlers).
THEOREM TurnInvariant ==
    ASSUME InTurn
    PROVE  Spec => []TurnInv
<1>1. Init => TurnInv
  BY TurnInit
<1>2. TypeOK /\ IInv /\ TurnInv /\ [Next]_vars => TurnInv'
  BY TurnStep
<1> QED
  BY <1>1, <1>2, Invariance, PTL DEF Spec

\* b and B belong together unless the REPLY that sets them is being handled
\* (as1.go:217 to 224).
THEOREM PairBelongs ==
    ASSUME InTurn
    PROVE  Spec => []EphemeralPair
<1>1. TypeOK /\ TurnInv => EphemeralPair
  <2> SUFFICES ASSUME TypeOK, TurnInv,
                      \A t \in threads : t.msg.type # "REPLY", as1_b # Nil
               PROVE  as1_B = Pub(as1_b)
    BY DEF EphemeralPair
  <2>1. \A t \in threads : t.pc \notin {"mulB", "setB"}
    BY DEF TypeOK, ThreadOK
  <2> QED
    BY <2>1 DEF TurnInv, PairInv
<1> QED
  BY <1>1, TypeCorrect, TurnInvariant, PTL

\* The key AC2 reports is one AS1 holds (ac2.go:485), which it reads again
\* after it has compared the MACs.
THEOREM ReportedIsConfirmed ==
    ASSUME InTurn
    PROVE  Spec => []ReportedKeyConfirmed
<1>1. TurnInv => ReportedKeyConfirmed
  BY DEF TurnInv
<1> QED
  BY <1>1, TurnInvariant, PTL

\* Every session key rests on a scalar of its own (as1.go:217).
THEOREM ScalarsAreFresh ==
    ASSUME InTurn
    PROVE  Spec => []FreshScalars
<1>1. TurnInv => FreshScalars
  BY DEF TurnInv, AcceptOnce, FreshScalars
<1> QED
  BY <1>1, TurnInvariant, PTL

\* Only a failed dial can leave a session without a key at both ends: no
\* check of the six handlers fails on what the others send.
THEOREM SessionsComplete ==
    ASSUME InTurn
    PROVE  Spec => []Completion
<1>1. TurnInv => Completion
  BY DEF TurnInv, EndInv, Completion, Quiescent, Live
<1> QED
  BY <1>1, TurnInvariant, PTL
=============================================================================
