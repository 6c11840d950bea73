----------------------------- MODULE IPKLedger -----------------------------
(***************************************************************************)
(* The IPK chaincode (IPK/chaincode/cc.go) on a Hyperledger Fabric ledger. *)
(*                                                                         *)
(* A client has a peer simulate a chaincode function on the peer's copy of *)
(* the ledger, which may be behind, and sends the endorsed result to be    *)
(* ordered.  On commit every peer checks that the version of the key that  *)
(* the simulation read is still the current one, and ignores the           *)
(* transaction otherwise.  That part is Fabric's: it is external here and  *)
(* modelled from how the stub is used.                                     *)
(*                                                                         *)
(* The three credential fields CID, CredentialHash and Signature are only  *)
(* ever copied together: CID stands for them.  An ASID is a name that may  *)
(* be padded with blanks, which strings.TrimSpace removes.                 *)
(***************************************************************************)
EXTENDS Naturals, Sequences

CONSTANTS
    Aircraft,      \* names of aircraft stations, trimmed
    Orgs,          \* MSP IDs that may invoke the chaincode
    KGCs,          \* authorizedKGCMSPs
    CIDs,          \* published contents
    MaxTime,       \* bound on timestamps
    MaxTxs,        \* bound on transactions endorsed
    Padded,        \* whether clients may pad an ASID: a set of Booleans
    Nil            \* an absent argument, an unused key

Times == 1 .. MaxTime

ASSUME LedgerConstants ==
    /\ KGCs \subseteq Orgs
    /\ Nil \notin Orgs /\ Nil \notin Aircraft /\ Nil \notin CIDs
    /\ MaxTime \in Nat
    /\ MaxTxs \in Nat
    /\ Padded \subseteq BOOLEAN

VARIABLES
    history,       \* what was committed under each key, in order
    pending,       \* endorsed transactions, not yet committed
    txs            \* number of transactions endorsed

vars == <<history, pending, txs>>

----------------------------------------------------------------------------
(* Values.                                                                 *)

ASIDs == [name : Aircraft, padded : Padded]

TrimSpace(asid) == [asid EXCEPT !.padded = FALSE]

\* ipkKey: the key of an AS/KGC pair is made of the trimmed names.
ipkKeyRaw(asid, org) == [AS |-> asid, KGC |-> org]              \* mutant
ipkKey(asid, org) == [AS |-> TrimSpace(asid), KGC |-> org]

Keys == [AS : [name : Aircraft, padded : BOOLEAN], KGC : Orgs]

Atcs == [ID : Keys, ASID : ASIDs, KGCID : KGCs, CID : CIDs,
         ValidFrom : Times, ValidUntil : Times, IssuedAt : Times,
         UpdatedAt : Times, RevokedAt : 0 .. MaxTime,
         Status : {"ACTIVE", "REVOKED"}, Version : Nat]

\* What a client supplies to addAtc and updateAtc; 0 asks for the default.
Inputs == [ASID : ASIDs \cup {Nil}, ID : Keys \cup {Nil}, CID : CIDs,
           ValidFrom : 0 .. MaxTime, ValidUntil : 0 .. MaxTime]

\* validateIPK, of the fields that are not present by construction.
validateIPK(atc) ==
    atc.ValidFrom > 0 /\ atc.ValidUntil > 0 /\ atc.ValidUntil > atc.ValidFrom

\* GetState at a peer that has seen the first h commits to the key.
GetState(key, h) == IF h = 0 THEN Nil ELSE history[key][h]

ValidFromOr(from, now) == IF from = 0 THEN now ELSE from

----------------------------------------------------------------------------
(* The chaincode functions: what each writes, given what it reads.         *)

NewAtcClientID(in, org, now) ==                                 \* mutant
    [ID |-> IF in.ID = Nil THEN ipkKey(in.ASID, org) ELSE in.ID,
     ASID |-> in.ASID, KGCID |-> org,
     CID |-> in.CID, ValidFrom |-> ValidFromOr(in.ValidFrom, now),
     ValidUntil |-> in.ValidUntil, IssuedAt |-> now, UpdatedAt |-> now,
     RevokedAt |-> 0, Status |-> "ACTIVE", Version |-> 1]
\* addAtc.
NewAtc(in, org, now) ==
    [ID |-> ipkKey(in.ASID, org), ASID |-> in.ASID, KGCID |-> org,
     CID |-> in.CID, ValidFrom |-> ValidFromOr(in.ValidFrom, now),
     ValidUntil |-> in.ValidUntil, IssuedAt |-> now, UpdatedAt |-> now,
     RevokedAt |-> 0, Status |-> "ACTIVE", Version |-> 1]

\* updateAtc: the record it read, with the new credential and no trace of a
\* revocation.
RotatedSameVersion(current, in, now) ==                         \* mutant
    [current EXCEPT !.CID = in.CID,
        !.ValidFrom = ValidFromOr(in.ValidFrom, now),
        !.ValidUntil = in.ValidUntil, !.IssuedAt = now, !.UpdatedAt = now,
        !.Status = "ACTIVE", !.RevokedAt = 0]
Rotated(current, in, now) ==
    [current EXCEPT !.CID = in.CID,
        !.ValidFrom = ValidFromOr(in.ValidFrom, now),
        !.ValidUntil = in.ValidUntil, !.IssuedAt = now, !.UpdatedAt = now,
        !.Status = "ACTIVE", !.Version = @ + 1, !.RevokedAt = 0]

\* delAtc.
Revoked(atc, now) ==
    [atc EXCEPT !.Status = "REVOKED", !.RevokedAt = now, !.UpdatedAt = now]

----------------------------------------------------------------------------
(* Endorsement: a function runs without error on some peer.                *)

Endorse(key, h, atc) ==
    /\ txs < MaxTxs
    /\ txs' = txs + 1
    /\ pending' = pending \cup
           {[id |-> txs + 1, key |-> key, read |-> h, write |-> atc]}
    /\ UNCHANGED history

Heights(key) == 0 .. Len(history[key])

addAtcAnyOrg(org, in, now) ==                                   \* mutant
    LET atc == NewAtc(in, org, now)
    IN /\ in.ASID # Nil
       /\ validateIPK(atc)
       /\ \E h \in Heights(atc.ID) :
             /\ GetState(atc.ID, h) = Nil
             /\ Endorse(atc.ID, h, atc)

addAtcOver(org, in, now) ==                                     \* mutant
    LET atc == NewAtc(in, org, now)
    IN /\ org \in KGCs
       /\ in.ASID # Nil
       /\ validateIPK(atc)
       /\ \E h \in Heights(atc.ID) : Endorse(atc.ID, h, atc)

addAtc(org, in, now) ==
    LET atc == NewAtc(in, org, now)
    IN /\ org \in KGCs
       /\ in.ASID # Nil
       /\ validateIPK(atc)
       /\ \E h \in Heights(atc.ID) :
             /\ GetState(atc.ID, h) = Nil
             /\ Endorse(atc.ID, h, atc)

updateAtc(org, in, now) ==
    LET ID == IF in.ID = Nil THEN ipkKey(in.ASID, org) ELSE in.ID
    IN /\ org \in KGCs
       /\ in.ASID # Nil \/ in.ID # Nil
       /\ \E h \in Heights(ID) :
             LET current == GetState(ID, h)
             IN /\ current # Nil
                /\ current.KGCID = org
                /\ in.ASID # Nil => in.ASID = current.ASID
                /\ validateIPK(Rotated(current, in, now))
                /\ Endorse(current.ID, h, Rotated(current, in, now))

delAtcAgain(org, ID, now) ==                                    \* mutant
    /\ org \in KGCs
    /\ \E h \in Heights(ID) :
          LET atc == GetState(ID, h)
          IN /\ atc # Nil
             /\ atc.KGCID = org
             /\ Endorse(atc.ID, h, Revoked(atc, now))

delAtc(org, ID, now) ==
    /\ org \in KGCs
    /\ \E h \in Heights(ID) :
          LET atc == GetState(ID, h)
          IN /\ atc # Nil
             /\ atc.KGCID = org
             /\ atc.Status # "REVOKED"
             /\ Endorse(atc.ID, h, Revoked(atc, now))

----------------------------------------------------------------------------
(* Fabric: ordering and validation.                                        *)

\* The version check of a commit.
Current(tx) == tx.read = Len(history[tx.key])

\* A block brings the transaction; transactions are ordered in any order.
Commit(tx) ==
    /\ pending' = pending \ {tx}
    /\ history' = IF Current(tx)
                  THEN [history EXCEPT ![tx.key] = Append(@, tx.write)]
                  ELSE history
    /\ UNCHANGED txs

\* The client fails between endorsement and ordering.
Abandon(tx) ==
    /\ pending' = pending \ {tx}
    /\ UNCHANGED <<history, txs>>

Init ==
    /\ history = [k \in Keys |-> <<>>]
    /\ pending = {}
    /\ txs = 0

Next ==
    \/ \E org \in Orgs, in \in Inputs, now \in Times :
          addAtc(org, in, now) \/ updateAtc(org, in, now)
    \/ \E org \in Orgs, ID \in Keys, now \in Times : delAtc(org, ID, now)
    \/ \E tx \in pending : Commit(tx) \/ Abandon(tx)

Spec == Init /\ [][Next]_vars

----------------------------------------------------------------------------
(* Queries, which read and write nothing.                                  *)

Committed(key) == GetState(key, Len(history[key]))

\* queryAtcByQueryString with an ASID, at a peer that is up to date: the
\* selector compares the trimmed criterion with the ASID as it was stored.
queryAtcByQueryString(asid, now) ==
    {k \in Keys : /\ Committed(k) # Nil
                  /\ Committed(k).Status = "ACTIVE"
                  /\ Committed(k).ValidFrom <= now
                  /\ Committed(k).ValidUntil >= now
                  /\ Committed(k).ASID = TrimSpace(asid)}

----------------------------------------------------------------------------
(* Properties.                                                             *)

Txs == [id : Nat, key : Keys, read : Nat, write : Atcs]

\* The type invariant: well-formed records in the history of each key, and
\* pending transactions that have read a past of the key they write.
TypeOK ==
    /\ history \in [Keys -> Seq(Atcs)]
    /\ pending \subseteq Txs
    /\ \A tx \in pending : tx.read \in Heights(tx.key)
    /\ txs \in 0 .. MaxTxs

\* A version number names one credential: however rotations by the operators
\* of a KGC interleave, two contents never carry the same version (cc.go:293).
VersionNamesCredential ==
    \A k \in Keys : \A i, j \in 1 .. Len(history[k]) :
        history[k][i].Version = history[k][j].Version =>
            history[k][i].CID = history[k][j].CID
            /\ history[k][i].IssuedAt = history[k][j].IssuedAt

\* Whatever name a client pads, a KGC has one credential in force for an
\* aircraft (cc.go:81 and 398).
OneInForce ==
    \A k, l \in Keys :
        LET r == Committed(k)
            q == Committed(l)
        IN /\ r # Nil /\ q # Nil
           /\ r.Status = "ACTIVE" /\ q.Status = "ACTIVE"
           /\ r.KGCID = q.KGCID /\ r.ASID.name = q.ASID.name
           => k = l

\* A record sits under its own key and belongs to the KGC of the key, though
\* updateAtc and delAtc take the key from the caller (cc.go:268 and 324).
KeyOwner ==
    \A k \in Keys : \A i \in 1 .. Len(history[k]) :
        /\ history[k][i].ID = k
        /\ ipkKey(history[k][i].ASID, history[k][i].KGCID) = k

\* A credential in force is found under the name of its aircraft: addAtc
\* publishes it for an AS/KGC pair (cc.go:81), queries ask for the pair.
PublishedIsFound ==
    \A k \in Keys, now \in Times :
        /\ Committed(k) # Nil
        /\ Committed(k).Status = "ACTIVE"
        /\ Committed(k).ValidFrom <= now
        /\ Committed(k).ValidUntil >= now
        => k \in queryAtcByQueryString(Committed(k).ASID, now)

\* The ledger, with its stale endorsements, implements the atomic book.
Registry == INSTANCE IPKRegistry
    WITH Free <- Nil, book <- [k \in Keys |-> Committed(k)]
AtomicBook == Registry!RegistrySpec

----------------------------------------------------------------------------
(* The inductive invariant behind VersionNamesCredential, KeyOwner and     *)
(* AtomicBook.                                                             *)

ASSUME NilIsNoRecord == Nil \notin Atcs

\* What an endorsed write is, given the record that was read.
Publishes(tx) ==
    /\ tx.read = 0
    /\ tx.write.Status = "ACTIVE" /\ tx.write.Version = 1
    /\ ipkKey(tx.write.ASID, tx.write.KGCID) = tx.key

Follows(r, q) ==
    /\ r.ASID = q.ASID /\ r.KGCID = q.KGCID
    /\ \/ r.Status = "ACTIVE" /\ r.Version = q.Version + 1
       \/ /\ q.Status = "ACTIVE" /\ r.Status = "REVOKED"
          /\ r.Version = q.Version
          /\ r.CID = q.CID /\ r.IssuedAt = q.IssuedAt

Endorsed(tx) ==
    /\ tx.write.ID = tx.key
    /\ \/ Publishes(tx)
       \/ tx.read > 0 /\ Follows(tx.write, history[tx.key][tx.read])

VersionsGrow ==
    \A k \in Keys : \A i, j \in 1 .. Len(history[k]) :
        i <= j => history[k][i].Version <= history[k][j].Version

LedgerInv ==
    /\ TypeOK
    /\ \A tx \in pending : Endorsed(tx)
    /\ KeyOwner
    /\ VersionsGrow
    /\ VersionNamesCredential
============================================================================
