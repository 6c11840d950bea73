-------------------------- MODULE IPKServiceProofs --------------------------
(***************************************************************************)
(* Theorems about IPKService, for any number of clients, organizations,    *)
(* requests, lost events and retries: a behaviour of the service is one of *)
(* the ledger, and what a call returns is what happened on it.             *)
(***************************************************************************)
EXTENDS IPKService, IPKLedgerProofs

----------------------------------------------------------------------------
(* The invariant.                                                          *)

AskOK(fcn, arg) ==
    \/ fcn = "delAtc" /\ arg \in Keys
    \/ fcn \in {"addAtc", "updateAtc"} /\ arg \in Inputs /\ arg.ASID # Nil

Active == [pc : {"execute", "commit", "event"}, fcn : Fcns,
           arg : Inputs \cup Keys, reg : BOOLEAN, event : BOOLEAN, tx : Nat]

CallTypes ==
    /\ call \in [Clients -> {Idle} \cup Active]
    /\ \A c \in Clients : call[c] # Idle => AskOK(call[c].fcn, call[c].arg)

\* Transactions are told apart by their ids, and decided once.
FateInv ==
    /\ \A id \in DOMAIN fate : id \in 1 .. txs /\ fate[id] \in Nat
    /\ \A t \in pending : t.id \in 1 .. txs /\ t.id \notin DOMAIN fate
    /\ \A t, u \in pending : t.id = u.id => t = u
    /\ \A t \in pending : t.write.Version >= 1
    /\ \A k \in Keys : \A j \in 1 .. Len(history[k]) : history[k][j].Version >= 1

\* What a client believes its transaction to be: that of a call whose Execute
\* has submitted one, or that of a call that succeeded.
Claim(c) == [org |-> OrgOf[c], fcn |-> call[c].fcn, arg |-> call[c].arg,
             tx |-> call[c].tx]
Claims == succeeded \cup
          {Claim(c) : c \in {d \in Clients : call[d].pc \in {"commit", "event"}}}

Landed(w) == w.tx \in DOMAIN fate /\ fate[w.tx] > 0
KeyOf(w) == ipkKey(w.arg.ASID, w.org)

ClaimOK(w) ==
    /\ w.tx \in 1 .. txs /\ w.org \in Orgs /\ AskOK(w.fcn, w.arg)
    /\ \A t \in pending : t.id = w.tx =>
          /\ Holds(w, t.write)
          /\ w.fcn = "addAtc" => t.read = 0 /\ t.key = KeyOf(w)
    /\ Landed(w) => \E k \in Keys : /\ fate[w.tx] \in 1 .. Len(history[k])
                                    /\ Holds(w, history[k][fate[w.tx]])
    /\ Landed(w) /\ w.fcn = "addAtc" => Len(history[KeyOf(w)]) > 0

ClaimInv ==
    /\ \A w \in Claims : ClaimOK(w)
    /\ \A v, w \in Claims : v.tx = w.tx => v = w
    /\ \A v, w \in Claims :
          /\ v.fcn = "addAtc" /\ w.fcn = "addAtc"
          /\ Landed(v) /\ Landed(w) /\ KeyOf(v) = KeyOf(w)
          => v = w
    /\ \A w \in succeeded : Landed(w)
    /\ \A c \in Clients : call[c].pc = "event" => Landed(Claim(c))

ServiceInv == CallTypes /\ FateInv /\ ClaimInv

----------------------------------------------------------------------------
(* Steps of the service are steps of the ledger.                           *)

LEMMA ServiceStepsLedger ==
    ASSUME CallTypes, [ServiceNext]_serviceVars
    PROVE  [Next]_vars
<1>1. ASSUME NEW c \in Clients, Execute(c) PROVE Next
  <2>1. PICK now \in Times : Invoke(call[c].fcn, OrgOf[c], call[c].arg, now)
    BY <1>1 DEF Execute
  <2>2. call[c] # Idle
    BY <1>1 DEF Execute, Idle
  <2>3. OrgOf[c] \in Orgs
    BY ServiceConstants
  <2>4. AskOK(call[c].fcn, call[c].arg)
    BY <2>2 DEF CallTypes
  <2>5. CASE call[c].fcn = "delAtc"
    BY <2>1, <2>3, <2>4, <2>5 DEF Invoke, AskOK, Next
  <2>6. CASE call[c].fcn # "delAtc"
    BY <2>1, <2>3, <2>4, <2>6 DEF Invoke, AskOK, Next
  <2> QED BY <2>5, <2>6
<1>2. ASSUME NEW c \in Clients, ClientStep(c), ~Execute(c) PROVE UNCHANGED vars
  BY <1>2 DEF ClientStep, Begin, ExecuteRefused, ExecuteReturns, ExecuteFails,
              EventArrives, EventTimesOut, ledger
<1>3. ASSUME NEW tx \in pending, CommitBlock(tx) \/ Lose(tx) PROVE Next
  BY <1>3 DEF CommitBlock, Lose, Next
<1>4. CASE UNCHANGED serviceVars
  BY <1>4 DEF serviceVars, ledger
<1> QED BY <1>1, <1>2, <1>3, <1>4 DEF ServiceNext

----------------------------------------------------------------------------
(* CallTypes.                                                              *)

LEMMA CallTypesStep ==
    ASSUME CallTypes, txs \in Nat, [ServiceNext]_serviceVars
    PROVE  CallTypes'
<1> USE DEF CallTypes
<1>0. Idle.pc = "idle" /\ \A a \in Active : a.pc # "idle"
  BY DEF Idle, Active
<1>1. ASSUME NEW c \in Clients, Begin(c) PROVE CallTypes'
  <2>1. PICK r \in Requests, reg \in BOOLEAN :
            Accepted(r) /\ call' = [call EXCEPT ![c] = Call(r, reg)]
    BY <1>1 DEF Begin
  <2>2. AskOK(r.fcn, r.arg)
    BY <2>1, ServiceConstants DEF AskOK, Accepted, validateIPKInput
  <2>3. Call(r, reg) \in Active /\ Call(r, reg).fcn = r.fcn /\ Call(r, reg).arg = r.arg
    BY <2>2 DEF Call, Active, AskOK, Fcns
  <2> QED BY <2>1, <2>2, <2>3
<1>2. ASSUME NEW c \in Clients, NEW a \in Active, call[c] # Idle,
             a.fcn = call[c].fcn, a.arg = call[c].arg,
             call' = [call EXCEPT ![c] = a]
      PROVE  CallTypes'
  BY <1>2
<1>3. ASSUME NEW c \in Clients, Return(c) PROVE CallTypes'
  BY <1>3 DEF Return
<1>4. ASSUME NEW c \in Clients, Execute(c) PROVE CallTypes'
  <2>1. call[c] \in Active /\ call[c] # Idle
    BY <1>0, <1>4 DEF Execute
  <2>2. txs' \in Nat
    BY <1>4 DEF Execute, Invoke, addAtc, updateAtc, delAtc, Endorse
  <2> DEFINE a == [call[c] EXCEPT !.pc = "commit", !.tx = txs']
  <2>3. a \in Active /\ a.fcn = call[c].fcn /\ a.arg = call[c].arg
    BY <2>1, <2>2 DEF Active
  <2>4. call' = [call EXCEPT ![c] = a]
    BY <1>4 DEF Execute
  <2> HIDE DEF a
  <2> QED BY <1>2, <2>1, <2>3, <2>4
<1>5. ASSUME NEW c \in Clients, ExecuteReturns(c) PROVE CallTypes'
  <2>1. call[c] \in Active /\ call[c] # Idle
    BY <1>0, <1>5 DEF ExecuteReturns
  <2> DEFINE a == [call[c] EXCEPT !.pc = "event"]
  <2>2. a \in Active /\ a.fcn = call[c].fcn /\ a.arg = call[c].arg
    BY <2>1 DEF Active
  <2>3. CASE Goto(c, "event")
    <3>1. call' = [call EXCEPT ![c] = a]
      BY <2>3 DEF Goto
    <3> HIDE DEF a
    <3> QED BY <1>2, <2>1, <2>2, <3>1
  <2> QED BY <1>3, <1>5, <2>3 DEF ExecuteReturns
<1>6. ASSUME NEW tx \in pending, CommitBlock(tx) PROVE CallTypes'
  <2>1. PICK missed \in SUBSET Listening(FcnOf(tx)) :
            \/ call' = [c \in Clients |->
                  IF c \in Listening(FcnOf(tx)) \ missed
                  THEN [call[c] EXCEPT !.event = TRUE] ELSE call[c]]
            \/ call' = call
    BY <1>6 DEF CommitBlock
  <2>2. ASSUME NEW c \in Listening(FcnOf(tx))
        PROVE  /\ [call[c] EXCEPT !.event = TRUE] \in Active
               /\ [call[c] EXCEPT !.event = TRUE].fcn = call[c].fcn
               /\ [call[c] EXCEPT !.event = TRUE].arg = call[c].arg
               /\ call[c] # Idle
    BY <1>0 DEF Listening, Active
  <2> QED BY <2>1, <2>2
<1>7. ASSUME NEW tx \in pending, Lose(tx) PROVE CallTypes'
  BY <1>7 DEF Lose
<1>8. CASE UNCHANGED serviceVars
  BY <1>8 DEF serviceVars
<1> QED
  BY <1>1, <1>3, <1>4, <1>5, <1>6, <1>7, <1>8
  DEF ServiceNext, ClientStep, ExecuteRefused, ExecuteFails, EventArrives, EventTimesOut

----------------------------------------------------------------------------
(* What is endorsed for a client is what it asked for.                     *)

LEMMA NewIsAsked ==
    ASSUME NEW in, NEW org, NEW now,
           NEW w, w.fcn = "addAtc", w.arg = in
    PROVE  Holds(w, NewAtc(in, org, now)) /\ NewAtc(in, org, now).Version = 1
BY DEF Holds, NewAtc

LEMMA RotatedIsAsked ==
    ASSUME NEW current \in Atcs, current.Version >= 1, NEW in, NEW now,
           in.ASID = current.ASID, NEW w, w.fcn = "updateAtc", w.arg = in
    PROVE  /\ Holds(w, Rotated(current, in, now))
           /\ Rotated(current, in, now).Version >= 1
<1>1. current.Version \in Nat
  BY DEF Atcs
<1>2. /\ Rotated(current, in, now).Version = current.Version + 1
      /\ Rotated(current, in, now).ASID = current.ASID
      /\ Rotated(current, in, now).Status = "ACTIVE"
      /\ Rotated(current, in, now).CID = in.CID
      /\ Rotated(current, in, now).ValidUntil = in.ValidUntil
  BY DEF Rotated, Atcs
<1> QED BY <1>1, <1>2 DEF Holds

LEMMA RevokedIsAsked ==
    ASSUME NEW atc \in Atcs, atc.Version >= 1, NEW ID, atc.ID = ID, NEW now,
           NEW w, w.fcn = "delAtc", w.arg = ID
    PROVE  Holds(w, Revoked(atc, now)) /\ Revoked(atc, now).Version >= 1
BY DEF Holds, Revoked, Atcs

LEMMA EndorsesAsked ==
    ASSUME LedgerInv, FateInv, NEW w, w.org \in Orgs, AskOK(w.fcn, w.arg),
           NEW now \in Times, Invoke(w.fcn, w.org, w.arg, now)
    PROVE  \E key, h, atc :
              /\ txs' = txs + 1 /\ history' = history
              /\ pending' = pending \cup {Tx(key, h, atc)}
              /\ atc.Version >= 1 /\ Holds(w, atc)
              /\ w.fcn = "addAtc" => h = 0 /\ key = KeyOf(w)
<1>1. CASE w.fcn = "addAtc"
  <2> DEFINE atc == NewAtc(w.arg, w.org, now)
  <2>1. PICK h \in Heights(atc.ID) :
            GetState(atc.ID, h) = Nil /\ Endorse(atc.ID, h, atc)
    BY <1>1 DEF Invoke, addAtc
  <2>2. atc.ID = KeyOf(w)
    BY DEF NewAtc, KeyOf
  <2>3. w.arg.ASID \in ASIDs
    BY <1>1 DEF AskOK, Inputs
  <2>4. KeyOf(w) \in Keys
    BY <2>3, KeyType DEF KeyOf
  <2>5. Holds(w, atc) /\ atc.Version >= 1
    BY <1>1, NewIsAsked
  <2> HIDE DEF atc
  <2>6. h = 0
    BY <2>1, <2>2, <2>4, ReadType DEF LedgerInv
  <2> QED BY <2>1, <2>2, <2>5, <2>6 DEF Endorse, Tx
<1>2. CASE w.fcn = "updateAtc"
  <2> DEFINE in == w.arg
             ID == IF in.ID = Nil THEN ipkKey(in.ASID, w.org) ELSE in.ID
  <2>1. in \in Inputs /\ in.ASID # Nil /\ in.ASID \in ASIDs
    BY <1>2 DEF AskOK, Inputs
  <2>2. PICK h \in Heights(ID) :
            /\ GetState(ID, h) # Nil
            /\ in.ASID = GetState(ID, h).ASID
            /\ Endorse(GetState(ID, h).ID, h, Rotated(GetState(ID, h), in, now))
    BY <1>2, <2>1 DEF Invoke, updateAtc
  <2>3. ID \in Keys
    BY <2>1, KeyType DEF Inputs
  <2> HIDE DEF ID
  <2> DEFINE current == GetState(ID, h)
  <2>4. h \in 1 .. Len(history[ID]) /\ current = history[ID][h] /\ current \in Atcs
    BY <2>2, <2>3, ReadType DEF LedgerInv
  <2>5. current.Version >= 1
    BY <2>3, <2>4 DEF FateInv
  <2>6. Holds(w, Rotated(current, in, now)) /\ Rotated(current, in, now).Version >= 1
    BY <1>2, <2>2, <2>4, <2>5, RotatedIsAsked
  <2> HIDE DEF current, in
  <2> QED BY <1>2, <2>2, <2>6 DEF Endorse, Tx, current, in
<1>3. CASE w.fcn = "delAtc"
  <2>1. w.arg \in Keys
    BY <1>3 DEF AskOK
  <2>2. PICK h \in Heights(w.arg) :
            /\ GetState(w.arg, h) # Nil
            /\ Endorse(GetState(w.arg, h).ID, h, Revoked(GetState(w.arg, h), now))
    BY <1>3 DEF Invoke, delAtc
  <2> DEFINE current == GetState(w.arg, h)
  <2>3. /\ h \in 1 .. Len(history[w.arg])
        /\ current = history[w.arg][h] /\ current \in Atcs
    BY <2>1, <2>2, ReadType DEF LedgerInv
  <2>4. current.Version >= 1 /\ current.ID = w.arg
    BY <2>1, <2>3 DEF FateInv, LedgerInv, KeyOwner
  <2>5. Holds(w, Revoked(current, now)) /\ Revoked(current, now).Version >= 1
    BY <1>3, <2>3, <2>4, RevokedIsAsked
  <2> HIDE DEF current
  <2> QED BY <1>3, <2>2, <2>5 DEF Endorse, Tx, current
<1> QED BY <1>1, <1>2, <1>3 DEF AskOK

----------------------------------------------------------------------------
(* FateInv and ClaimInv under the steps that endorse, commit and lose.     *)

\* Execute makes one claim, with an id nobody has.
LEMMA ExecuteKeeps ==
    ASSUME LedgerInv, ServiceInv, NEW c \in Clients, Execute(c)
    PROVE  FateInv' /\ ClaimInv'
<1>w. PICK w : w = [org |-> OrgOf[c], fcn |-> call[c].fcn, arg |-> call[c].arg,
                    tx |-> txs + 1]
  OBVIOUS
<1>0. txs \in Nat
  BY LedgerConstants DEF LedgerInv, TypeOK
<1>1. call[c] \in Active /\ AskOK(w.fcn, w.arg) /\ w.org \in Orgs
  <2>1. call[c] # Idle
    BY DEF Execute, Idle
  <2>2. call[c] \in Active /\ AskOK(call[c].fcn, call[c].arg)
    BY <2>1 DEF ServiceInv, CallTypes
  <2> QED BY <1>w, <2>2, ServiceConstants
<1>2. PICK now \in Times : Invoke(w.fcn, w.org, w.arg, now)
  BY <1>w DEF Execute
<1>3. PICK key, h, atc :
          /\ txs' = txs + 1 /\ history' = history
          /\ pending' = pending \cup {Tx(key, h, atc)}
          /\ atc.Version >= 1 /\ Holds(w, atc)
          /\ w.fcn = "addAtc" => h = 0 /\ key = KeyOf(w)
  BY <1>1, <1>2, EndorsesAsked DEF ServiceInv
<1>4. /\ UNCHANGED <<fate, succeeded>>
      /\ call' = [call EXCEPT ![c].pc = "commit", ![c].tx = txs']
  BY DEF Execute
<1>5. /\ Tx(key, h, atc).id = txs + 1 /\ Tx(key, h, atc).key = key
      /\ Tx(key, h, atc).read = h /\ Tx(key, h, atc).write = atc
  BY DEF Tx
<1>6. FateInv'
  BY <1>0, <1>3, <1>4, <1>5 DEF ServiceInv, FateInv
<1>7. /\ \A d \in Clients \ {c} : call'[d] = call[d]
      /\ call'[c].pc = "commit" /\ call'[c].tx = txs + 1
      /\ call'[c].fcn = call[c].fcn /\ call'[c].arg = call[c].arg
  BY <1>1, <1>3, <1>4 DEF ServiceInv, CallTypes, Active
<1>8. Claim(c)' = w /\ \A d \in Clients \ {c} : Claim(d)' = Claim(d)
  BY <1>7, <1>w DEF Claim
<1>9. Claims' \subseteq Claims \cup {w}
  BY <1>4, <1>7, <1>8 DEF Claims
<1>10. w.tx = txs + 1 /\ w.tx \notin DOMAIN fate
  BY <1>0, <1>w DEF ServiceInv, FateInv
<1>11. \A v \in Claims : v.tx \in 1 .. txs /\ ClaimOK(v)
  BY DEF ServiceInv, ClaimInv, ClaimOK
<1>12. \A v \in Claims : v.tx # w.tx
  BY <1>0, <1>10, <1>11
<1>13. \A v : Landed(v)' <=> Landed(v)
  BY <1>4 DEF Landed
<1>14. ASSUME NEW v \in Claims PROVE ClaimOK(v)'
  <2>1. ClaimOK(v) /\ v.tx \in 1 .. txs'
    BY <1>0, <1>3, <1>11
  <2>2. \A t \in pending' : t.id = v.tx => t \in pending
    BY <1>3, <1>5, <1>10, <1>12
  <2> QED BY <1>3, <1>4, <1>13, <2>1, <2>2 DEF ClaimOK
<1>15. ClaimOK(w)'
  <2>1. \A t \in pending' : t.id = w.tx => t = Tx(key, h, atc)
    BY <1>0, <1>3, <1>10 DEF ServiceInv, FateInv
  <2>2. ~Landed(w)'
    BY <1>10, <1>13 DEF Landed
  <2>3. w.tx \in 1 .. txs'
    BY <1>0, <1>3, <1>10
  <2> QED BY <1>1, <1>3, <1>5, <2>1, <2>2, <2>3 DEF ClaimOK
<1>16. ~Landed(w)
  BY <1>10 DEF Landed
<1>17. \A d \in Clients : call'[d].pc = "event" => Landed(Claim(d))'
  BY <1>7, <1>8, <1>13 DEF ServiceInv, ClaimInv
<1>18. \A u, v \in Claims' : u.tx = v.tx => u = v
  BY <1>9, <1>12 DEF ServiceInv, ClaimInv
<1>19. \A u, v \in Claims' :
          /\ u.fcn = "addAtc" /\ v.fcn = "addAtc"
          /\ Landed(u)' /\ Landed(v)' /\ KeyOf(u) = KeyOf(v)
          => u = v
  BY <1>9, <1>13, <1>16 DEF ServiceInv, ClaimInv
<1>20. \A v \in succeeded' : Landed(v)'
  BY <1>4, <1>13 DEF ServiceInv, ClaimInv
<1> QED
  BY <1>6, <1>9, <1>14, <1>15, <1>17, <1>18, <1>19, <1>20 DEF ClaimInv, KeyOf

\* A commit decides one transaction; what was decided before stays where it
\* is on the ledger.
LEMMA HistoryGrows ==
    ASSUME TypeOK, NEW tx \in pending, Commit(tx), NEW k \in Keys
    PROVE  /\ Len(history[k]) \in Nat /\ Len(history'[k]) \in Nat
           /\ Len(history'[k]) >= Len(history[k])
           /\ \A j \in 1 .. Len(history[k]) : history'[k][j] = history[k][j]
<1>1. Len(history[k]) \in Nat
  BY DEF TypeOK
<1>2. CASE ~Current(tx)
  BY <1>1, <1>2 DEF Commit
<1>3. CASE Current(tx)
  BY <1>1, <1>3, Appended
<1> QED BY <1>2, <1>3

LEMMA CommitDecides ==
    ASSUME LedgerInv, ServiceInv, NEW tx \in pending, CommitBlock(tx)
    PROVE  FateInv' /\ ClaimInv'
<1>1. /\ TypeOK /\ Commit(tx) /\ txs' = txs /\ pending' = pending \ {tx}
      /\ succeeded' = succeeded
  BY DEF CommitBlock, Commit, LedgerInv
<1>2. tx \in Txs /\ tx.key \in Keys /\ tx.read \in Nat /\ tx.id \in 1 .. txs
      /\ tx.id \notin DOMAIN fate /\ tx.write.Version >= 1
  BY <1>1 DEF TypeOK, Txs, ServiceInv, FateInv
<1>3. /\ DOMAIN fate' = DOMAIN fate \cup {tx.id}
      /\ \A id \in DOMAIN fate : fate'[id] = fate[id]
      /\ Current(tx) => fate'[tx.id] = tx.read + 1
      /\ ~Current(tx) => fate'[tx.id] = 0
  BY <1>2 DEF CommitBlock
<1>4. Current(tx) => /\ tx.read = Len(history[tx.key])
                     /\ Len(history'[tx.key]) = tx.read + 1
                     /\ history'[tx.key][tx.read + 1] = tx.write
                     /\ \A k \in Keys : k # tx.key => history'[k] = history[k]
  BY <1>1, Appended
<1>5. FateInv'
  <2>1. \A id \in DOMAIN fate' : id \in 1 .. txs' /\ fate'[id] \in Nat
    BY <1>1, <1>2, <1>3 DEF ServiceInv, FateInv
  <2>2. /\ \A t \in pending' : t.id \in 1 .. txs' /\ t.id \notin DOMAIN fate'
        /\ \A t, u \in pending' : t.id = u.id => t = u
        /\ \A t \in pending' : t.write.Version >= 1
    BY <1>1, <1>3 DEF ServiceInv, FateInv
  <2>3. ASSUME NEW k \in Keys, NEW j \in 1 .. Len(history'[k])
        PROVE  history'[k][j].Version >= 1
    <3>1. CASE j \in 1 .. Len(history[k])
      BY <1>1, <3>1, HistoryGrows DEF ServiceInv, FateInv
    <3>2. CASE j \notin 1 .. Len(history[k])
      <4>1. Current(tx) /\ k = tx.key
        BY <1>1, <1>4, <3>2 DEF Commit
      <4>2. j = tx.read + 1
        BY <1>2, <1>4, <3>2, <4>1
      <4> QED BY <1>2, <1>4, <4>1, <4>2
    <3> QED BY <3>1, <3>2
  <2> QED BY <2>1, <2>2, <2>3 DEF FateInv
<1>6. \A d \in Clients : /\ call'[d].pc = call[d].pc /\ call'[d].fcn = call[d].fcn
                         /\ call'[d].arg = call[d].arg /\ call'[d].tx = call[d].tx
  <2>1. PICK missed \in SUBSET Listening(FcnOf(tx)) :
            \/ call' = [d \in Clients |->
                  IF d \in Listening(FcnOf(tx)) \ missed
                  THEN [call[d] EXCEPT !.event = TRUE] ELSE call[d]]
            \/ call' = call
    BY DEF CommitBlock
  <2>2. \A d \in Listening(FcnOf(tx)) : call[d] \in Active
    BY DEF Listening, ServiceInv, CallTypes, Idle
  <2> QED BY <2>1, <2>2 DEF Active
<1>7. \A d \in Clients : Claim(d)' = Claim(d)
  BY <1>6 DEF Claim
<1>8. Claims' = Claims
  BY <1>1, <1>6, <1>7 DEF Claims
<1>9. ASSUME NEW v
      PROVE  Landed(v)' <=> Landed(v) \/ (v.tx = tx.id /\ Current(tx))
  BY <1>2, <1>3 DEF Landed
<1>10. ASSUME NEW v \in Claims
       PROVE  /\ ClaimOK(v)
              /\ v.tx = tx.id => /\ ~Landed(v) /\ Holds(v, tx.write)
                                 /\ v.fcn = "addAtc" =>
                                       tx.read = 0 /\ tx.key = KeyOf(v)
  BY <1>2 DEF ServiceInv, ClaimInv, ClaimOK, Landed
<1>11. ASSUME NEW v \in Claims PROVE ClaimOK(v)'
  <2>1. v.tx \in 1 .. txs' /\ v.org \in Orgs /\ AskOK(v.fcn, v.arg)
    BY <1>1, <1>10 DEF ClaimOK
  <2>2. \A t \in pending' : t.id = v.tx =>
           /\ Holds(v, t.write)
           /\ v.fcn = "addAtc" => t.read = 0 /\ t.key = KeyOf(v)
    BY <1>1, <1>10 DEF ClaimOK
  <2>3. CASE Landed(v)
    <3>1. v.tx # tx.id /\ fate'[v.tx] = fate[v.tx]
      BY <1>3, <1>10, <2>3 DEF Landed
    <3>2. PICK k \in Keys : /\ fate[v.tx] \in 1 .. Len(history[k])
                            /\ Holds(v, history[k][fate[v.tx]])
      BY <1>10, <2>3 DEF ClaimOK
    <3>3. fate'[v.tx] \in 1 .. Len(history'[k]) /\ Holds(v, history'[k][fate'[v.tx]])
      BY <1>1, <3>1, <3>2, HistoryGrows
    <3>4. v.fcn = "addAtc" => Len(history'[KeyOf(v)]) > 0
      <4>1. SUFFICES ASSUME v.fcn = "addAtc" PROVE Len(history'[KeyOf(v)]) > 0
        OBVIOUS
      <4>2. v.arg.ASID \in ASIDs
        BY <2>1, <4>1 DEF AskOK, Inputs
      <4>3. KeyOf(v) \in Keys
        BY <2>1, <4>2, KeyType DEF KeyOf
      <4>4. Len(history[KeyOf(v)]) > 0
        BY <1>10, <2>3, <4>1 DEF ClaimOK
      <4> QED BY <1>1, <4>3, <4>4, HistoryGrows
    <3> QED BY <2>1, <2>2, <3>3, <3>4 DEF ClaimOK, KeyOf
  <2>4. CASE v.tx = tx.id /\ Current(tx)
    <3>1. fate'[v.tx] = tx.read + 1 /\ Len(history'[tx.key]) = tx.read + 1
      BY <1>3, <1>4, <2>4
    <3>2. fate'[v.tx] \in 1 .. Len(history'[tx.key])
      BY <1>2, <3>1
    <3>3. Holds(v, history'[tx.key][fate'[v.tx]])
      BY <1>4, <1>10, <2>4, <3>1
    <3>4. v.fcn = "addAtc" => Len(history'[KeyOf(v)]) > 0
      BY <1>2, <1>10, <2>4, <3>1
    <3> QED BY <1>2, <2>1, <2>2, <3>2, <3>3, <3>4 DEF ClaimOK, KeyOf
  <2>5. CASE ~Landed(v)'
    BY <2>1, <2>2, <2>5 DEF ClaimOK, KeyOf
  <2> QED BY <1>9, <2>3, <2>4, <2>5
<1>12. \A u, v \in Claims : u.tx = v.tx => u = v
  BY DEF ServiceInv, ClaimInv
<1>13. ASSUME NEW u \in Claims, NEW v \in Claims,
              u.fcn = "addAtc", v.fcn = "addAtc",
              Landed(u)', Landed(v)', KeyOf(u) = KeyOf(v)
       PROVE  u = v
  <2>1. ASSUME NEW x \in Claims, NEW z \in Claims, x.tx = tx.id, Current(tx),
               x.fcn = "addAtc", z.fcn = "addAtc", Landed(z), KeyOf(x) = KeyOf(z)
        PROVE  FALSE
    <3>1. tx.read = 0 /\ tx.key = KeyOf(x)
      BY <1>10, <2>1
    <3>2. Len(history[KeyOf(z)]) > 0
      BY <1>10, <2>1 DEF ClaimOK
    <3> QED BY <1>4, <2>1, <3>1, <3>2
  <2>2. CASE Landed(u) /\ Landed(v)
    BY <1>13, <2>2 DEF ServiceInv, ClaimInv
  <2>3. CASE u.tx = tx.id /\ v.tx = tx.id
    BY <1>12, <2>3
  <2> QED BY <1>9, <1>13, <2>1, <2>2, <2>3
<1>14. \A d \in Clients : call'[d].pc = "event" => Landed(Claim(d))'
  <2> SUFFICES ASSUME NEW d \in Clients, call'[d].pc = "event"
               PROVE  Landed(Claim(d))'
    OBVIOUS
  <2>1. PICK v : v = Claim(d) /\ Landed(v)
    BY <1>6 DEF ServiceInv, ClaimInv
  <2>2. Landed(v)'
    BY <1>9, <2>1
  <2> QED BY <1>7, <2>1, <2>2
<1>15. \A v \in succeeded' : Landed(v)'
  BY <1>1, <1>9 DEF ServiceInv, ClaimInv
<1> QED BY <1>5, <1>8, <1>11, <1>12, <1>13, <1>14, <1>15 DEF ClaimInv, KeyOf

\* A step that leaves the decided transactions and the histories alone, and
\* adds neither a transaction nor a claim.
LEMMA ClaimsShrink ==
    ASSUME ServiceInv, UNCHANGED <<history, txs, fate>>, pending' \subseteq pending,
           Claims' \subseteq Claims, succeeded' \subseteq Claims,
           \A w \in succeeded' : Landed(w),
           \A c \in Clients : call'[c].pc = "event" => Landed(Claim(c)')
    PROVE  FateInv' /\ ClaimInv'
<1>1. \A v : Landed(v)' <=> Landed(v)
  BY DEF Landed
<1>2. FateInv'
  BY DEF ServiceInv, FateInv
<1>3. ASSUME NEW w \in Claims' PROVE ClaimOK(w)'
  <2>1. ClaimOK(w)
    BY DEF ServiceInv, ClaimInv
  <2> QED BY <1>1, <2>1 DEF ClaimOK
<1>4. \A c \in Clients : call'[c].pc = "event" => Landed(Claim(c))'
  BY DEF Landed
<1>5. \A v, w \in Claims' : v.tx = w.tx => v = w
  BY DEF ServiceInv, ClaimInv
<1>6. \A v, w \in Claims' :
          /\ v.fcn = "addAtc" /\ w.fcn = "addAtc"
          /\ Landed(v)' /\ Landed(w)' /\ KeyOf(v) = KeyOf(w)
          => v = w
  BY <1>1 DEF ServiceInv, ClaimInv
<1>7. \A w \in succeeded' : Landed(w)'
  BY <1>1
<1> QED BY <1>2, <1>3, <1>4, <1>5, <1>6, <1>7 DEF ClaimInv, KeyOf

\* A client's own step: its call goes on with the claim it has, or ends.
LEMMA OneCall ==
    ASSUME ServiceInv, UNCHANGED <<ledger, fate>>,
           NEW c \in Clients, NEW a, call' = [call EXCEPT ![c] = a],
           \/ a.pc \notin {"commit", "event"}
           \/ /\ a.pc = "event" /\ call[c].pc = "commit" /\ Landed(Claim(c))
              /\ a.fcn = call[c].fcn /\ a.arg = call[c].arg /\ a.tx = call[c].tx,
           \/ succeeded' = succeeded
           \/ succeeded' = succeeded \cup {Claim(c)} /\ call[c].pc = "event"
    PROVE  FateInv' /\ ClaimInv'
<1>1. call'[c] = a /\ \A d \in Clients \ {c} : call'[d] = call[d]
  BY DEF ServiceInv, CallTypes
<1>2. \A d \in Clients \ {c} : Claim(d)' = Claim(d)
  BY <1>1 DEF Claim
<1>3. a.pc = "event" => Claim(c)' = Claim(c) /\ call[c].pc = "commit"
                        /\ Landed(Claim(c))
  BY <1>1 DEF Claim
<1>4. call[c].pc \in {"commit", "event"} => Claim(c) \in Claims
  BY DEF Claims
<1>5. succeeded' \subseteq Claims
  BY <1>4 DEF Claims
<1>6. ASSUME NEW d \in Clients, call'[d].pc \in {"commit", "event"}
      PROVE  Claim(d)' \in Claims
  <2>1. CASE d = c
    BY <1>1, <1>3, <1>4, <1>6, <2>1
  <2>2. CASE d # c
    BY <1>1, <1>2, <1>6, <2>2 DEF Claims
  <2> QED BY <2>1, <2>2
<1>7. Claims' \subseteq Claims
  BY <1>5, <1>6 DEF Claims
<1>8. \A w \in succeeded' : Landed(w)
  BY DEF ServiceInv, ClaimInv
<1>9. \A d \in Clients : call'[d].pc = "event" => Landed(Claim(d)')
  <2> SUFFICES ASSUME NEW d \in Clients, call'[d].pc = "event"
               PROVE  Landed(Claim(d)')
    OBVIOUS
  <2>1. CASE d = c
    BY <1>1, <1>3, <2>1
  <2>2. CASE d # c
    BY <1>1, <1>2, <2>2 DEF ServiceInv, ClaimInv
  <2> QED BY <2>1, <2>2
<1> QED BY <1>5, <1>7, <1>8, <1>9, ClaimsShrink DEF ledger, vars

LEMMA ClientKeeps ==
    ASSUME ServiceInv, NEW c \in Clients, ClientStep(c), ~Execute(c)
    PROVE  FateInv' /\ ClaimInv'
<1>0. Idle.pc \notin {"commit", "event"}
  BY DEF Idle
<1>1. CASE Begin(c)
  <2>1. PICK r \in Requests, reg \in BOOLEAN : call' = [call EXCEPT ![c] = Call(r, reg)]
    BY <1>1 DEF Begin
  <2>2. Call(r, reg).pc = "execute"
    BY DEF Call
  <2>3. UNCHANGED <<ledger, fate, succeeded>>
    BY <1>1 DEF Begin
  <2> QED BY <2>1, <2>2, <2>3, OneCall
<1>2. CASE ExecuteRefused(c) \/ ExecuteFails(c) \/ EventTimesOut(c)
  BY <1>0, <1>2, OneCall DEF ExecuteRefused, ExecuteFails, EventTimesOut, Return
<1>3. CASE ExecuteReturns(c)
  <2>1. UNCHANGED <<ledger, fate, succeeded>> /\ call[c].pc = "commit"
    BY <1>3 DEF ExecuteReturns
  <2>2. CASE Return(c)
    BY <1>0, <2>1, <2>2, OneCall DEF Return
  <2>3. CASE Goto(c, "event") /\ call[c].tx \in DOMAIN fate /\ fate[call[c].tx] > 0
    <3> DEFINE a == [call[c] EXCEPT !.pc = "event"]
    <3>1. call[c] \in Active
      BY <2>1 DEF ServiceInv, CallTypes, Idle
    <3>2. /\ a.pc = "event" /\ a.fcn = call[c].fcn /\ a.arg = call[c].arg
          /\ a.tx = call[c].tx
      BY <3>1 DEF Active
    <3>3. call' = [call EXCEPT ![c] = a]
      BY <2>3 DEF Goto
    <3>4. Landed(Claim(c))
      BY <2>3 DEF Landed, Claim
    <3> HIDE DEF a
    <3> QED BY <2>1, <3>2, <3>3, <3>4, OneCall
  <2> QED BY <1>3, <2>2, <2>3 DEF ExecuteReturns
<1>4. CASE EventArrives(c)
  <2>1. /\ UNCHANGED <<ledger, fate>> /\ call' = [call EXCEPT ![c] = Idle]
        /\ succeeded' = succeeded \cup {Claim(c)} /\ call[c].pc = "event"
    BY <1>4 DEF EventArrives, Return, Claim
  <2> QED BY <1>0, <2>1, OneCall
<1> QED BY <1>1, <1>2, <1>3, <1>4 DEF ClientStep

----------------------------------------------------------------------------
(* The theorems.                                                           *)

LEMMA ServiceStart == ServiceInit => LedgerInv /\ ServiceInv
<1> SUFFICES ASSUME ServiceInit PROVE LedgerInv /\ ServiceInv
  OBVIOUS
<1>1. LedgerInv
  BY LedgerInit DEF ServiceInit
<1>2. CallTypes
  BY DEF ServiceInit, CallTypes
<1>3. FateInv
  BY DEF ServiceInit, Init, FateInv
<1>4. Claims = {}
  BY DEF ServiceInit, Claims, Idle
<1>5. ClaimInv
  BY <1>4 DEF ServiceInit, ClaimInv, Idle
<1> QED BY <1>1, <1>2, <1>3, <1>5 DEF ServiceInv

LEMMA ServiceStep ==
    LedgerInv /\ ServiceInv /\ [ServiceNext]_serviceVars => LedgerInv' /\ ServiceInv'
<1> SUFFICES ASSUME LedgerInv, ServiceInv, [ServiceNext]_serviceVars
             PROVE  LedgerInv' /\ ServiceInv'
  OBVIOUS
<1>1. LedgerInv'
  BY ServiceStepsLedger, LedgerStep DEF ServiceInv
<1>2. CallTypes'
  BY CallTypesStep, LedgerConstants DEF ServiceInv, LedgerInv, TypeOK
<1>3. FateInv' /\ ClaimInv'
  <2>1. ASSUME NEW c \in Clients, ClientStep(c) PROVE FateInv' /\ ClaimInv'
    BY <2>1, ClientKeeps, ExecuteKeeps
  <2>2. ASSUME NEW tx \in pending, CommitBlock(tx) PROVE FateInv' /\ ClaimInv'
    BY <2>2, CommitDecides
  <2>3. CASE /\ UNCHANGED <<history, txs, call, fate, succeeded>>
             /\ pending' \subseteq pending
    <3>1. Claims' = Claims /\ \A c \in Clients : Claim(c)' = Claim(c)
      BY <2>3 DEF Claims, Claim
    <3>2. succeeded' \subseteq Claims /\ \A w \in succeeded' : Landed(w)
      BY <2>3 DEF Claims, ServiceInv, ClaimInv
    <3>3. \A c \in Clients : call'[c].pc = "event" => Landed(Claim(c)')
      BY <2>3, <3>1 DEF ServiceInv, ClaimInv
    <3> QED BY <2>3, <3>1, <3>2, <3>3, ClaimsShrink
  <2>4. ASSUME NEW tx \in pending, Lose(tx) PROVE FateInv' /\ ClaimInv'
    BY <2>3, <2>4 DEF Lose, Abandon
  <2>5. CASE UNCHANGED serviceVars
    BY <2>3, <2>5 DEF serviceVars, ledger, vars
  <2> QED BY <2>1, <2>2, <2>4, <2>5 DEF ServiceNext
<1> QED BY <1>1, <1>2, <1>3 DEF ServiceInv

LEMMA ServiceInvariant == ServiceSpec => [](LedgerInv /\ ServiceInv)
BY ServiceStart, ServiceStep, PTL DEF ServiceSpec

\* The service does nothing to the ledger that the ledger's specification
\* does not foresee (domain.go:70): what is proved of Spec holds of it too.
THEOREM ServiceIsLedger == ServiceSpec => Spec
<1>1. ServiceInit => Init
  BY DEF ServiceInit
<1>2. ServiceInv /\ [ServiceNext]_serviceVars => [Next]_vars
  BY ServiceStepsLedger DEF ServiceInv
<1> QED BY <1>1, <1>2, ServiceInvariant, PTL DEF ServiceSpec, Spec

\* A transaction ID that a call returns names a committed record with the
\* content the call asked for, though events carry no ID (on_chain_serv.go:33).
THEOREM SuccessIsTrue == ServiceSpec => []SuccessIsOnLedger
<1>1. ServiceInv => SuccessIsOnLedger
  BY DEF ServiceInv, ClaimInv, ClaimOK, Claims, Landed, SuccessIsOnLedger
<1> QED BY <1>1, ServiceInvariant, PTL

\* Of all the calls that publish a credential for one aircraft and KGC, first
\* attempts and retries, one succeeds (cc.go:122).
THEOREM OnePublicationSucceeds == ServiceSpec => []PublishedOnce
<1>1. ServiceInv => PublishedOnce
  <2> SUFFICES ASSUME ServiceInv, NEW v \in succeeded, NEW w \in succeeded,
                      v.fcn = "addAtc", w.fcn = "addAtc",
                      v.arg.ASID.name = w.arg.ASID.name, v.org = w.org
               PROVE  v = w
    BY DEF PublishedOnce
  <2>1. v \in Claims /\ w \in Claims /\ Landed(v) /\ Landed(w)
    BY DEF Claims, ServiceInv, ClaimInv
  <2>2. v.arg.ASID \in ASIDs /\ w.arg.ASID \in ASIDs
    BY <2>1 DEF ServiceInv, ClaimInv, ClaimOK, AskOK, Inputs
  <2>3. KeyOf(v) = KeyOf(w)
    BY <2>2 DEF KeyOf, ipkKey, TrimSpace, ASIDs
  <2> QED BY <2>1, <2>3 DEF ServiceInv, ClaimInv
<1> QED BY <1>1, ServiceInvariant, PTL

\* With any number of operators of a KGC at work, one credential is in force
\* for an aircraft (cc.go:398).
THEOREM ServiceKeepsOneInForce == ServiceSpec => []OneInForce
BY ServiceIsLedger, OneCredentialInForce, PTL
=============================================================================
