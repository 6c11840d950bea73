---------------------------- MODULE IPKRegistry ----------------------------
(***************************************************************************)
(* What the IPK chaincode promises: a book with one credential per key, in *)
(* which a credential is published once, then rotated or revoked, each in  *)
(* one atomic step on the book as it stands.  Transactions, endorsing      *)
(* peers and ordering do not appear.                                       *)
(***************************************************************************)
EXTENDS Naturals

CONSTANTS Keys,   \* the keys of the book
          Free    \* the value of a key nothing was published under

VARIABLE book

Is(r, status, version) == r.Status = status /\ r.Version = version

RegistryInit == book = [k \in Keys |-> Free]

\* A step that writes key k only.
Writes(k) == book' = [book EXCEPT ![k] = book'[k]]

SamePair(r, q) == r.ASID = q.ASID /\ r.KGCID = q.KGCID

\* The first ACTIVE credential for an AS/KGC pair (cc.go:81).
Publish(k) ==
    /\ book[k] = Free /\ book'[k] # Free
    /\ Writes(k)
    /\ Is(book'[k], "ACTIVE", 1)

\* A rotation issues the next version to the same pair (cc.go:246).
Rotate(k) ==
    /\ book[k] # Free
    /\ Writes(k)
    /\ Is(book'[k], "ACTIVE", book[k].Version + 1)
    /\ SamePair(book'[k], book[k])

\* A revocation is logical: what was issued stays readable (cc.go:310).
Revoke(k) ==
    /\ book[k] # Free
    /\ book[k].Status = "ACTIVE"
    /\ Writes(k)
    /\ Is(book'[k], "REVOKED", book[k].Version)
    /\ SamePair(book'[k], book[k])
    /\ book'[k].CID = book[k].CID

RegistryNext == \E k \in Keys : Publish(k) \/ Rotate(k) \/ Revoke(k)

RegistrySpec == RegistryInit /\ [][RegistryNext]_book
============================================================================
