------------------------- MODULE MCKGCRegistration -------------------------
(* Instances of KGCRegistration for TLC: the configurations give every     *)
(* constant its value; entities and identifiers are model values.          *)
EXTENDS KGCRegistration
============================================================================
