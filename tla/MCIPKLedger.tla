---------------------------- MODULE MCIPKLedger ----------------------------
(* Instances of IPKLedger for TLC.                                         *)
EXTENDS IPKLedger, TLC

\* Contents and authorised organisations are interchangeable.
Symmetry == Permutations(CIDs) \cup Permutations(KGCs)

Plain == {FALSE}
Either == {TRUE, FALSE}
============================================================================
