---------------------------- MODULE KeyAgreement ----------------------------
(***************************************************************************)
(* What the cross-domain authentication promises about session keys, with  *)
(* no message, node or session in sight.  AC2 derives a key; AS1 accepts   *)
(* only a key that AC2 derived, and each key once; AC2 takes AS1 for       *)
(* authenticated only under a key that AS1 accepted.  It is the            *)
(* correspondence the Scyther claims of cross_domain_authentication.spdl   *)
(* ask for, stated as a specification.                                     *)
(***************************************************************************)
VARIABLES
    derived,    \* keys AC2 has derived
    accepted,   \* keys under which AS1 has authenticated AC2
    confirmed   \* keys under which AC2 has authenticated AS1

kvars == <<derived, accepted, confirmed>>

KAInit == derived = {} /\ accepted = {} /\ confirmed = {}

Derive ==
    /\ \E k \in derived' : derived' = derived \cup {k}
    /\ UNCHANGED <<accepted, confirmed>>

Accept ==
    /\ \E k \in derived \ accepted : accepted' = accepted \cup {k}
    /\ UNCHANGED <<derived, confirmed>>

Confirm ==
    /\ \E k \in accepted : confirmed' = confirmed \cup {k}
    /\ UNCHANGED <<derived, accepted>>

KANext == Derive \/ Accept \/ Confirm

KASpec == KAInit /\ [][KANext]_kvars
=============================================================================
