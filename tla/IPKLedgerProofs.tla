-------------------------- MODULE IPKLedgerProofs --------------------------
(***************************************************************************)
(* Theorems about IPKLedger, for any aircraft, organisations, contents and *)
(* bounds: its type invariant, what version numbers and keys mean, and     *)
(* that it implements the atomic book of IPKRegistry.                      *)
(***************************************************************************)
EXTENDS IPKLedger, TLAPS

----------------------------------------------------------------------------
(* What the chaincode functions write.                                     *)

\* ipkKey makes a key of any name, padded or not.
LEMMA KeyType ==
    ASSUME NEW asid \in ASIDs, NEW org \in Orgs
    PROVE  ipkKey(asid, org) \in Keys
BY LedgerConstants DEF ASIDs, ipkKey, TrimSpace, Keys

\* The start of validity, chosen or by default, is a time.
LEMMA ValidFromType ==
    ASSUME NEW from \in 0 .. MaxTime, NEW now \in Times
    PROVE  ValidFromOr(from, now) \in Times
BY LedgerConstants DEF ValidFromOr, Times

\* addAtc writes an active record of version 1 under its own key.
LEMMA NewType ==
    ASSUME NEW in \in Inputs, NEW org \in KGCs, NEW now \in Times,
           in.ASID # Nil, validateIPK(NewAtc(in, org, now))
    PROVE  /\ NewAtc(in, org, now) \in Atcs
           /\ NewAtc(in, org, now).ID = ipkKey(in.ASID, org)
           /\ NewAtc(in, org, now).ASID = in.ASID
           /\ NewAtc(in, org, now).KGCID = org
           /\ NewAtc(in, org, now).Status = "ACTIVE"
           /\ NewAtc(in, org, now).Version = 1
<1>1. in.ASID \in ASIDs /\ ipkKey(in.ASID, org) \in Keys
  BY KeyType, LedgerConstants DEF Inputs
<1>2. ValidFromOr(in.ValidFrom, now) \in Times
  BY ValidFromType DEF Inputs
<1>3. in.ValidUntil \in Times
  BY LedgerConstants DEF Inputs, NewAtc, validateIPK, Times
<1>4. in.CID \in CIDs /\ now \in 0 .. MaxTime /\ 0 \in 0 .. MaxTime
  BY LedgerConstants DEF Inputs, Times
<1> QED
  BY <1>1, <1>2, <1>3, <1>4 DEF NewAtc, Atcs

\* updateAtc writes the next version of the record it read.
LEMMA RotatedType ==
    ASSUME NEW current \in Atcs, NEW in \in Inputs, NEW now \in Times,
           validateIPK(Rotated(current, in, now))
    PROVE  /\ Rotated(current, in, now) \in Atcs
           /\ Rotated(current, in, now).ID = current.ID
           /\ Follows(Rotated(current, in, now), current)
<1>1. ValidFromOr(in.ValidFrom, now) \in Times
  BY ValidFromType DEF Inputs
<1>2. in.ValidUntil \in Times
  BY LedgerConstants DEF Inputs, Rotated, validateIPK, Times, Atcs
<1>3. in.CID \in CIDs /\ now \in 0 .. MaxTime /\ 0 \in 0 .. MaxTime
  BY LedgerConstants DEF Inputs, Times
<1>4. current.Version + 1 \in Nat
  BY DEF Atcs
<1> DEFINE a == [current EXCEPT !.CID = in.CID,
                     !.ValidFrom = ValidFromOr(in.ValidFrom, now),
                     !.ValidUntil = in.ValidUntil]
           b == [a EXCEPT !.IssuedAt = now, !.UpdatedAt = now]
           c == [b EXCEPT !.Status = "ACTIVE",
                     !.Version = current.Version + 1, !.RevokedAt = 0]
<1>5. a \in Atcs
  BY <1>1, <1>2, <1>3 DEF Atcs
<1> HIDE DEF a
<1>6. b \in Atcs
  BY <1>5 DEF Atcs
<1> HIDE DEF b
<1>7. c \in Atcs
  BY <1>3, <1>4, <1>6 DEF Atcs
<1>8. Rotated(current, in, now) = c
  BY Zenon DEF a, b, c, Rotated
<1>9. LET r == Rotated(current, in, now)
      IN /\ r.ID = current.ID /\ r.ASID = current.ASID
         /\ r.KGCID = current.KGCID
         /\ r.Status = "ACTIVE" /\ r.Version = current.Version + 1
  BY DEF Rotated, Atcs
<1> QED
  BY <1>7, <1>8, <1>9 DEF Follows

\* delAtc writes the record it read, revoked.
LEMMA RevokedType ==
    ASSUME NEW atc \in Atcs, NEW now \in Times, atc.Status # "REVOKED"
    PROVE  /\ Revoked(atc, now) \in Atcs
           /\ Revoked(atc, now).ID = atc.ID
           /\ Follows(Revoked(atc, now), atc)
<1>1. now \in 0 .. MaxTime
  BY LedgerConstants DEF Times
<1>2. atc.Status = "ACTIVE"
  BY DEF Atcs
<1> QED
  BY <1>1, <1>2 DEF Revoked, Follows, Atcs

\* A peer that has seen h commits to a key reads the h-th, or nothing.
LEMMA ReadType ==
    ASSUME TypeOK, NEW key \in Keys, NEW h \in Heights(key)
    PROVE  /\ h \in Nat
           /\ GetState(key, h) = Nil <=> h = 0
           /\ h > 0 => /\ h \in 1 .. Len(history[key])
                       /\ GetState(key, h) = history[key][h]
                       /\ history[key][h] \in Atcs
<1>1. history[key] \in Seq(Atcs) /\ Len(history[key]) \in Nat
  BY DEF TypeOK
<1>2. h \in 0 .. Len(history[key])
  BY DEF Heights
<1>3. h > 0 => h \in 1 .. Len(history[key]) /\ history[key][h] \in Atcs
  BY <1>1, <1>2
<1> QED
  BY <1>1, <1>2, <1>3, NilIsNoRecord DEF GetState

----------------------------------------------------------------------------
(* Endorsements.                                                           *)

Tx(key, h, atc) ==
    [id |-> txs + 1, key |-> key, read |-> h, write |-> atc]

\* An endorsement of a write that follows what it read keeps the invariant.
LEMMA EndorseKeeps ==
    ASSUME LedgerInv, NEW key \in Keys, NEW h \in Heights(key),
           NEW atc \in Atcs, Endorse(key, h, atc), Endorsed(Tx(key, h, atc))
    PROVE  LedgerInv'
<1>1. /\ history' = history
      /\ pending' = pending \cup {Tx(key, h, atc)}
      /\ txs' \in 0 .. MaxTxs
  BY LedgerConstants DEF Endorse, Tx, LedgerInv, TypeOK
<1>2. h \in Nat /\ txs + 1 \in Nat
  <2>1. txs \in Nat
    BY LedgerConstants DEF LedgerInv, TypeOK
  <2> QED
    BY <2>1, ReadType DEF LedgerInv
<1>3. /\ Tx(key, h, atc) \in Txs
      /\ Tx(key, h, atc).read = h /\ Tx(key, h, atc).key = key
  BY <1>2 DEF Tx, Txs
<1>4. TypeOK'
  BY <1>1, <1>3 DEF LedgerInv, TypeOK, Heights
<1>5. \A tx \in pending' : Endorsed(tx)'
  BY <1>1 DEF LedgerInv, Endorsed
<1>6. KeyOwner' /\ VersionsGrow' /\ VersionNamesCredential'
  BY <1>1 DEF LedgerInv, KeyOwner, VersionsGrow, VersionNamesCredential
<1> QED
  BY <1>4, <1>5, <1>6 DEF LedgerInv

\* addAtc is endorsed only where the peer has no record.
LEMMA addAtcKeeps ==
    ASSUME LedgerInv, NEW org \in Orgs, NEW in \in Inputs, NEW now \in Times,
           addAtc(org, in, now)
    PROVE  LedgerInv'
<1> DEFINE atc == NewAtc(in, org, now)
<1>1. PICK h \in Heights(atc.ID) :
          GetState(atc.ID, h) = Nil /\ Endorse(atc.ID, h, atc)
  BY DEF addAtc
<1>2. org \in KGCs /\ in.ASID # Nil /\ validateIPK(atc) /\ in.ASID \in ASIDs
  BY DEF addAtc, Inputs
<1>3. /\ atc \in Atcs /\ atc.ID \in Keys
      /\ atc.Status = "ACTIVE" /\ atc.Version = 1
      /\ ipkKey(atc.ASID, atc.KGCID) = atc.ID
  BY <1>2, NewType, KeyType
<1> HIDE DEF atc
<1>4. h = 0
  BY <1>1, <1>3, ReadType DEF LedgerInv
<1>5. Endorsed(Tx(atc.ID, h, atc))
  BY <1>3, <1>4 DEF Endorsed, Publishes, Tx
<1> QED
  BY <1>1, <1>3, <1>5, EndorseKeeps

\* updateAtc writes under the key it read, whatever key the caller gave.
LEMMA updateAtcKeeps ==
    ASSUME LedgerInv, NEW org \in Orgs, NEW in \in Inputs, NEW now \in Times,
           updateAtc(org, in, now)
    PROVE  LedgerInv'
<1> DEFINE ID == IF in.ID = Nil THEN ipkKey(in.ASID, org) ELSE in.ID
<1>1. PICK h \in Heights(ID) :
          /\ GetState(ID, h) # Nil
          /\ validateIPK(Rotated(GetState(ID, h), in, now))
          /\ Endorse(GetState(ID, h).ID, h, Rotated(GetState(ID, h), in, now))
  BY DEF updateAtc
<1>2. ID \in Keys
  <2>1. CASE in.ID = Nil
    BY <2>1, KeyType DEF updateAtc, Inputs
  <2>2. CASE in.ID # Nil
    BY <2>2 DEF Inputs
  <2> QED
    BY <2>1, <2>2
<1> HIDE DEF ID
<1> DEFINE current == GetState(ID, h)
<1>3. /\ h > 0 /\ h \in 1 .. Len(history[ID])
      /\ current = history[ID][h] /\ current \in Atcs
  BY <1>1, <1>2, ReadType DEF LedgerInv
<1>4. current.ID = ID
  BY <1>2, <1>3 DEF LedgerInv, KeyOwner
<1> DEFINE atc == Rotated(current, in, now)
<1>5. atc \in Atcs /\ atc.ID = ID /\ Follows(atc, history[ID][h])
  BY <1>1, <1>3, <1>4, RotatedType
<1>6. Endorse(ID, h, atc)
  BY <1>1, <1>4
<1> HIDE DEF current, atc
<1>7. Endorsed(Tx(ID, h, atc))
  BY <1>3, <1>5 DEF Endorsed, Tx
<1> QED
  BY <1>2, <1>5, <1>6, <1>7, EndorseKeeps

\* delAtc writes under the key it read.
LEMMA delAtcKeeps ==
    ASSUME LedgerInv, NEW org \in Orgs, NEW ID \in Keys, NEW now \in Times,
           delAtc(org, ID, now)
    PROVE  LedgerInv'
<1>1. PICK h \in Heights(ID) :
          /\ GetState(ID, h) # Nil
          /\ GetState(ID, h).Status # "REVOKED"
          /\ Endorse(GetState(ID, h).ID, h, Revoked(GetState(ID, h), now))
  BY DEF delAtc
<1> DEFINE current == GetState(ID, h)
<1>2. /\ h > 0 /\ h \in 1 .. Len(history[ID])
      /\ current = history[ID][h] /\ current \in Atcs
  BY <1>1, ReadType DEF LedgerInv
<1>3. current.ID = ID
  BY <1>2 DEF LedgerInv, KeyOwner
<1> DEFINE atc == Revoked(current, now)
<1>4. atc \in Atcs /\ atc.ID = ID /\ Follows(atc, history[ID][h])
  BY <1>1, <1>2, <1>3, RevokedType
<1>5. Endorse(ID, h, atc)
  BY <1>1, <1>3
<1> HIDE DEF current, atc
<1>6. Endorsed(Tx(ID, h, atc))
  BY <1>2, <1>4 DEF Endorsed, Tx
<1> QED
  BY <1>4, <1>5, <1>6, EndorseKeeps

----------------------------------------------------------------------------
(* Commits.                                                                *)

\* What a current transaction does to the history of its key.
LEMMA Appended ==
    ASSUME TypeOK, NEW tx \in pending, Commit(tx), Current(tx)
    PROVE  /\ tx \in Txs
           /\ tx.read = Len(history[tx.key])
           /\ history' \in [Keys -> Seq(Atcs)]
           /\ Len(history'[tx.key]) = tx.read + 1
           /\ history'[tx.key][tx.read + 1] = tx.write
           /\ \A i \in 1 .. tx.read :
                  history'[tx.key][i] = history[tx.key][i]
           /\ \A k \in Keys : k # tx.key => history'[k] = history[k]
<1>1. tx \in Txs /\ tx.key \in Keys /\ tx.write \in Atcs
  BY DEF TypeOK, Txs
<1>2. history \in [Keys -> Seq(Atcs)] /\ history[tx.key] \in Seq(Atcs)
  BY <1>1 DEF TypeOK
<1>3. /\ tx.read = Len(history[tx.key])
      /\ history' = [history EXCEPT ![tx.key] =
                         Append(history[tx.key], tx.write)]
  BY DEF Current, Commit
<1>4. history'[tx.key] = Append(history[tx.key], tx.write)
  BY <1>1, <1>2, <1>3
<1>5. Append(history[tx.key], tx.write) \in Seq(Atcs)
  BY <1>1, <1>2
<1>6. \A k \in Keys : k # tx.key => history'[k] = history[k]
  BY <1>2, <1>3
<1>7. history' \in [Keys -> Seq(Atcs)]
  BY <1>2, <1>3, <1>5
<1>8. /\ Len(history'[tx.key]) = tx.read + 1
      /\ history'[tx.key][tx.read + 1] = tx.write
      /\ \A i \in 1 .. tx.read : history'[tx.key][i] = history[tx.key][i]
  BY <1>1, <1>2, <1>3, <1>4
<1> QED
  BY <1>1, <1>3, <1>6, <1>7, <1>8

\* A commit of a current transaction extends a history with a record that
\* follows the last one.
LEMMA CommitKeeps ==
    ASSUME LedgerInv, NEW tx \in pending, Commit(tx), Current(tx)
    PROVE  LedgerInv'
<1> DEFINE n == tx.read
           r == tx.write
<1>1. TypeOK /\ Endorsed(tx)
  BY DEF LedgerInv
<1>2. /\ tx \in Txs
      /\ n = Len(history[tx.key])
      /\ history' \in [Keys -> Seq(Atcs)]
      /\ Len(history'[tx.key]) = n + 1
      /\ history'[tx.key][n + 1] = r
      /\ \A i \in 1 .. n : history'[tx.key][i] = history[tx.key][i]
      /\ \A k \in Keys : k # tx.key => history'[k] = history[k]
  BY <1>1, Appended
<1>3. n \in Nat /\ tx.key \in Keys /\ r \in Atcs /\ r.Version \in Nat
  BY <1>2 DEF Txs, Atcs
<1>4. \A i \in 1 .. n : history[tx.key][i] \in Atcs
                       /\ history[tx.key][i].Version \in Nat
  <2>1. history[tx.key] \in Seq(Atcs)
    BY <1>1, <1>3 DEF TypeOK
  <2>2. \A i \in 1 .. n : history[tx.key][i] \in Atcs
    BY <1>2, <1>3, <2>1
  <2>3. \A q \in Atcs : q.Version \in Nat
    BY DEF Atcs
  <2> QED
    BY <2>2, <2>3
<1>5. pending' \subseteq pending /\ txs' = txs
  BY DEF Commit
<1>6. ASSUME NEW u \in pending
      PROVE  u.read \in Heights(u.key)' /\ Endorsed(u)'
  <2>1. /\ u.key \in Keys /\ u.read \in 0 .. Len(history[u.key])
        /\ Endorsed(u)
    BY <1>1 DEF LedgerInv, TypeOK, Txs, Heights
  <2>2. CASE u.key = tx.key
    <3>1. u.read \in 0 .. n + 1
      BY <1>2, <1>3, <2>1, <2>2
    <3>2. u.read > 0 => history'[u.key][u.read] = history[u.key][u.read]
      BY <1>2, <1>3, <2>1, <2>2
    <3> QED
      BY <1>2, <2>1, <2>2, <3>1, <3>2 DEF Heights, Endorsed
  <2>3. CASE u.key # tx.key
    BY <1>2, <2>1, <2>3 DEF Heights, Endorsed
  <2> QED
    BY <2>2, <2>3
<1>7. TypeOK'
  BY <1>1, <1>2, <1>5, <1>6 DEF TypeOK
<1>8. /\ r.ID = tx.key /\ ipkKey(r.ASID, r.KGCID) = tx.key
      /\ n > 0 => Follows(r, history[tx.key][n])
  <2>1. CASE n = 0
    BY <1>1, <2>1 DEF Endorsed, Publishes
  <2>2. CASE n > 0
    <3>1. n \in 1 .. Len(history[tx.key])
      BY <1>2, <1>3, <2>2
    <3>2. ipkKey(history[tx.key][n].ASID, history[tx.key][n].KGCID) = tx.key
      BY <1>3, <3>1 DEF LedgerInv, KeyOwner
    <3>3. r.ID = tx.key /\ Follows(r, history[tx.key][n])
      BY <1>1, <2>2 DEF Endorsed, Publishes
    <3> QED
      BY <3>2, <3>3 DEF Follows
  <2> QED
    BY <1>3, <2>1, <2>2
<1>9. \A k \in Keys : \A i \in 1 .. Len(history'[k]) :
          \/ i \in 1 .. Len(history[k]) /\ history'[k][i] = history[k][i]
          \/ k = tx.key /\ i = n + 1 /\ history'[k][i] = r
  BY <1>2, <1>3
<1>10. KeyOwner'
  BY <1>8, <1>9 DEF LedgerInv, KeyOwner
<1>11. \A i \in 1 .. n : history[tx.key][i].Version <= r.Version
  <2> SUFFICES ASSUME NEW i \in 1 .. n
               PROVE  history[tx.key][i].Version <= r.Version
    OBVIOUS
  <2>1. n > 0 /\ n \in 1 .. n
    BY <1>3
  <2>2. history[tx.key][i].Version <= history[tx.key][n].Version
    BY <1>2, <1>3, <2>1 DEF LedgerInv, VersionsGrow
  <2>3. history[tx.key][n].Version <= r.Version
    BY <1>3, <1>4, <1>8, <2>1 DEF Follows
  <2> QED
    BY <1>3, <1>4, <2>1, <2>2, <2>3
<1>12. VersionsGrow'
  <2> SUFFICES ASSUME NEW k \in Keys, NEW i \in 1 .. Len(history'[k]),
                      NEW j \in 1 .. Len(history'[k]), i <= j
               PROVE  history'[k][i].Version <= history'[k][j].Version
    BY DEF VersionsGrow
  <2>1. CASE i \in 1 .. Len(history[k]) /\ history'[k][i] = history[k][i]
    <3>1. CASE j \in 1 .. Len(history[k]) /\ history'[k][j] = history[k][j]
      BY <2>1, <3>1 DEF LedgerInv, VersionsGrow
    <3>2. CASE k = tx.key /\ j = n + 1 /\ history'[k][j] = r
      BY <1>2, <1>11, <2>1, <3>2
    <3> QED
      BY <1>9, <3>1, <3>2
  <2>2. CASE k = tx.key /\ i = n + 1 /\ history'[k][i] = r
    <3>1. j = i
      BY <1>2, <1>3, <2>2
    <3> QED
      BY <1>3, <2>2, <3>1
  <2> QED
    BY <1>9, <2>1, <2>2
<1>13. \A i \in 1 .. n :
          history[tx.key][i].Version = r.Version =>
              history[tx.key][i].CID = r.CID
              /\ history[tx.key][i].IssuedAt = r.IssuedAt
  <2> SUFFICES ASSUME NEW i \in 1 .. n,
                      history[tx.key][i].Version = r.Version
               PROVE  history[tx.key][i].CID = r.CID
                      /\ history[tx.key][i].IssuedAt = r.IssuedAt
    OBVIOUS
  <2> DEFINE q == history[tx.key][n]
  <2>1. n > 0 /\ n \in 1 .. n /\ q.Version \in Nat /\ Follows(r, q)
    BY <1>3, <1>4, <1>8
  <2>2. history[tx.key][i].Version <= q.Version
    BY <1>2, <1>3, <2>1 DEF LedgerInv, VersionsGrow
  <2>3. r.Version = q.Version /\ r.CID = q.CID /\ r.IssuedAt = q.IssuedAt
    <3> HIDE DEF q
    <3> QED
      BY <1>3, <2>1, <2>2 DEF Follows
  <2>4. history[tx.key][i].CID = q.CID
        /\ history[tx.key][i].IssuedAt = q.IssuedAt
    <3>1. /\ i \in 1 .. Len(history[tx.key])
          /\ n \in 1 .. Len(history[tx.key])
          /\ history[tx.key][i].Version = history[tx.key][n].Version
      BY <1>2, <2>1, <2>3
    <3> HIDE DEF n
    <3> QED
      BY <1>3, <3>1 DEF LedgerInv, VersionNamesCredential
  <2> QED
    BY <2>3, <2>4
<1>14. VersionNamesCredential'
  <2> SUFFICES ASSUME NEW k \in Keys, NEW i \in 1 .. Len(history'[k]),
                      NEW j \in 1 .. Len(history'[k]),
                      history'[k][i].Version = history'[k][j].Version
               PROVE  history'[k][i].CID = history'[k][j].CID
                      /\ history'[k][i].IssuedAt = history'[k][j].IssuedAt
    BY DEF VersionNamesCredential
  <2>1. CASE i \in 1 .. Len(history[k]) /\ history'[k][i] = history[k][i]
    <3>1. CASE j \in 1 .. Len(history[k]) /\ history'[k][j] = history[k][j]
      BY <2>1, <3>1 DEF LedgerInv, VersionNamesCredential
    <3>2. CASE k = tx.key /\ j = n + 1 /\ history'[k][j] = r
      BY <1>2, <1>13, <2>1, <3>2
    <3> QED
      BY <1>9, <3>1, <3>2
  <2>2. CASE k = tx.key /\ i = n + 1 /\ history'[k][i] = r
    <3>1. CASE j \in 1 .. Len(history[k]) /\ history'[k][j] = history[k][j]
      BY <1>2, <1>13, <2>2, <3>1
    <3>2. CASE k = tx.key /\ j = n + 1 /\ history'[k][j] = r
      BY <2>2, <3>2
    <3> QED
      BY <1>9, <3>1, <3>2
  <2> QED
    BY <1>9, <2>1, <2>2
<1> QED
  BY <1>5, <1>6, <1>7, <1>10, <1>12, <1>14 DEF LedgerInv

\* A transaction that is stale or abandoned leaves the ledger as it is.
LEMMA DropKeeps ==
    ASSUME LedgerInv, pending' \subseteq pending, UNCHANGED <<history, txs>>
    PROVE  LedgerInv'
<1>1. TypeOK'
  BY DEF LedgerInv, TypeOK, Heights
<1>2. \A tx \in pending' : Endorsed(tx)'
  BY DEF LedgerInv, Endorsed
<1>3. KeyOwner' /\ VersionsGrow' /\ VersionNamesCredential'
  BY DEF LedgerInv, KeyOwner, VersionsGrow, VersionNamesCredential
<1> QED
  BY <1>1, <1>2, <1>3 DEF LedgerInv

\* The empty ledger satisfies the invariant.
LEMMA LedgerInit == Init => LedgerInv
<1> SUFFICES ASSUME Init PROVE LedgerInv
  OBVIOUS
<1>1. \A k \in Keys : history[k] = <<>> /\ Len(history[k]) = 0
  BY DEF Init
<1>2. TypeOK
  BY LedgerConstants DEF Init, TypeOK
<1> QED
  BY <1>1, <1>2
  DEF Init, LedgerInv, KeyOwner, VersionsGrow, VersionNamesCredential

\* Every step keeps the invariant.
LEMMA LedgerStep == LedgerInv /\ [Next]_vars => LedgerInv'
<1> SUFFICES ASSUME LedgerInv, [Next]_vars PROVE LedgerInv'
  OBVIOUS
<1>1. ASSUME NEW org \in Orgs, NEW in \in Inputs, NEW now \in Times,
             addAtc(org, in, now) \/ updateAtc(org, in, now)
      PROVE  LedgerInv'
  BY <1>1, addAtcKeeps, updateAtcKeeps
<1>2. ASSUME NEW org \in Orgs, NEW ID \in Keys, NEW now \in Times,
             delAtc(org, ID, now)
      PROVE  LedgerInv'
  BY <1>2, delAtcKeeps
<1>3. ASSUME NEW tx \in pending, Commit(tx) PROVE LedgerInv'
  <2>1. CASE Current(tx)
    BY <1>3, <2>1, CommitKeeps
  <2>2. CASE ~Current(tx)
    BY <1>3, <2>2, DropKeeps DEF Commit
  <2> QED
    BY <2>1, <2>2
<1>4. ASSUME NEW tx \in pending, Abandon(tx) PROVE LedgerInv'
  BY <1>4, DropKeeps DEF Abandon
<1>5. CASE UNCHANGED vars
  BY <1>5, DropKeeps DEF vars
<1> QED
  BY <1>1, <1>2, <1>3, <1>4, <1>5 DEF Next

----------------------------------------------------------------------------
(* The theorems.                                                           *)

\* What is endorsed rests on what was committed, as LedgerInv says, however
\* many transactions are simulated on old copies of the ledger.
THEOREM LedgerInvariant == Spec => []LedgerInv
BY LedgerInit, LedgerStep, PTL DEF Spec

\* Histories hold well-formed records.
THEOREM LedgerTypes == Spec => []TypeOK
<1>1. LedgerInv => TypeOK
  BY DEF LedgerInv
<1> QED
  BY <1>1, LedgerInvariant, PTL

\* A version number names one credential (cc.go:293).
THEOREM VersionsNameCredentials == Spec => []VersionNamesCredential
<1>1. LedgerInv => VersionNamesCredential
  BY DEF LedgerInv
<1> QED
  BY <1>1, LedgerInvariant, PTL

\* A record sits under its own key and is its KGC's, though callers supply
\* keys (cc.go:268 and 324).
THEOREM KeysOwned == Spec => []KeyOwner
<1>1. LedgerInv => KeyOwner
  BY DEF LedgerInv
<1> QED
  BY <1>1, LedgerInvariant, PTL

\* However a client pads the name, a KGC has one credential in force for an
\* aircraft (cc.go:398): the record's key is made of the trimmed name.
THEOREM OneCredentialInForce == Spec => []OneInForce
<1>1. LedgerInv => OneInForce
  <2> SUFFICES ASSUME LedgerInv,
                      NEW k \in Keys, NEW l \in Keys,
                      Committed(k) # Nil, Committed(l) # Nil,
                      Committed(k).KGCID = Committed(l).KGCID,
                      Committed(k).ASID.name = Committed(l).ASID.name
               PROVE  k = l
    BY DEF OneInForce
  <2>1. ASSUME NEW j \in Keys, Committed(j) # Nil
        PROVE  /\ Committed(j).ASID \in ASIDs
               /\ ipkKey(Committed(j).ASID, Committed(j).KGCID) = j
    <3>1. Len(history[j]) \in Heights(j) /\ Len(history[j]) # 0
      BY <2>1 DEF LedgerInv, TypeOK, Heights, Committed, GetState
    <3>2. /\ Len(history[j]) \in 1 .. Len(history[j])
          /\ Committed(j) = history[j][Len(history[j])] /\ Committed(j) \in Atcs
      BY <3>1, ReadType DEF LedgerInv, Committed
    <3>3. Committed(j).ASID \in ASIDs
      BY <3>2 DEF Atcs
    <3> QED BY <3>2, <3>3 DEF LedgerInv, KeyOwner
  <2>2. TrimSpace(Committed(k).ASID) = TrimSpace(Committed(l).ASID)
    BY <2>1 DEF ASIDs, TrimSpace
  <2> QED BY <2>1, <2>2 DEF ipkKey
<1> QED
  BY <1>1, LedgerInvariant, PTL

----------------------------------------------------------------------------
(* Refinement.                                                             *)

Book == [k \in Keys |-> Committed(k)]

\* The book shows the last record of each history.
LEMMA BookValue ==
    ASSUME TypeOK, NEW k \in Keys
    PROVE  /\ Len(history[k]) = 0 => Book[k] = Nil
           /\ Len(history[k]) > 0 => /\ Book[k] = history[k][Len(history[k])]
                                     /\ Book[k] \in Atcs /\ Book[k] # Nil
<1>1. history[k] \in Seq(Atcs) /\ Len(history[k]) \in Nat
  BY DEF TypeOK
<1>2. Len(history[k]) > 0 => history[k][Len(history[k])] \in Atcs
  BY <1>1
<1> QED
  BY <1>1, <1>2, NilIsNoRecord DEF Book, Committed, GetState

\* The commit of a current transaction is one step on the book: a
\* publication, a rotation or a revocation.
LEMMA CommitIsAtomic ==
    ASSUME LedgerInv, LedgerInv', NEW tx \in pending, Commit(tx), Current(tx)
    PROVE  Registry!RegistryNext
<1> DEFINE key == tx.key
           n == tx.read
           r == tx.write
<1>1. TypeOK /\ TypeOK' /\ Endorsed(tx)
  BY DEF LedgerInv
<1>2. /\ key \in Keys /\ r \in Atcs /\ n \in Nat
      /\ n = Len(history[key]) /\ Len(history'[key]) = n + 1
      /\ history'[key][n + 1] = r
      /\ \A k \in Keys : k # key => history'[k] = history[k]
  BY <1>1, Appended DEF Txs
<1>3. Book'[key] = r
  BY <1>2, NilIsNoRecord DEF Book, Committed, GetState
<1>4. \A k \in Keys : k # key => Book'[k] = Book[k]
  BY <1>2 DEF Book, Committed, GetState
<1>5. Book' = [Book EXCEPT ![key] = Book'[key]]
  BY <1>2, <1>4 DEF Book
<1>6. CASE n = 0
  <2>1. Book[key] = Nil /\ r # Nil
    BY <1>1, <1>2, <1>6, BookValue, NilIsNoRecord
  <2>2. r.Status = "ACTIVE" /\ r.Version = 1
    BY <1>1, <1>6 DEF Endorsed, Publishes
  <2>3. Registry!Publish(key)
    BY <1>3, <1>5, <2>1, <2>2
    DEF Registry!Publish, Registry!Writes, Registry!Is, Book
  <2> QED
    BY <1>2, <2>3 DEF Registry!RegistryNext
<1>7. CASE n > 0
  <2>1. Book[key] = history[key][n] /\ Book[key] # Nil
    BY <1>1, <1>2, <1>7, BookValue
  <2>2. Follows(r, Book[key])
    BY <1>1, <1>7, <2>1 DEF Endorsed, Publishes
  <2>3. Registry!Rotate(key) \/ Registry!Revoke(key)
    BY <1>3, <1>5, <2>1, <2>2
    DEF Registry!Rotate, Registry!Revoke, Registry!Writes, Registry!Is,
        Registry!SamePair, Follows, Book
  <2> QED
    BY <1>2, <2>3 DEF Registry!RegistryNext
<1> QED
  BY <1>2, <1>6, <1>7

\* Every other step leaves the book as it is.
LEMMA StepIsAtomic ==
    LedgerInv /\ LedgerInv' /\ [Next]_vars
        => Registry!RegistryNext \/ Book' = Book
<1> SUFFICES ASSUME LedgerInv, LedgerInv', [Next]_vars
             PROVE  Registry!RegistryNext \/ Book' = Book
  OBVIOUS
<1>1. CASE UNCHANGED history
  BY <1>1 DEF Book, Committed, GetState
<1>2. ASSUME NEW tx \in pending, Commit(tx), Current(tx)
      PROVE  Registry!RegistryNext
  BY <1>2, CommitIsAtomic
<1>3. \/ UNCHANGED history
      \/ \E tx \in pending : Commit(tx) /\ Current(tx)
  BY DEF Next, vars, addAtc, updateAtc, delAtc, Endorse, Commit, Abandon
<1> QED
  BY <1>1, <1>2, <1>3

\* Endorsed on old copies of the ledger and committed in any order, the
\* transactions of the chaincode act as if each were one step on one book.
THEOREM ImplementsRegistry == Spec => AtomicBook
<1>1. Init => Registry!RegistryInit
  BY DEF Init, Registry!RegistryInit, Committed, GetState
<1>2. LedgerInv /\ LedgerInv' /\ [Next]_vars
          => [Registry!RegistryNext]_Book
  BY StepIsAtomic
<1> QED
  BY <1>1, <1>2, LedgerInvariant, PTL
  DEF Spec, AtomicBook, Registry!RegistrySpec, Book
============================================================================
