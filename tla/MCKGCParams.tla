---------------------------- MODULE MCKGCParams ----------------------------
(* Instances of KGCParams for TLC: the configurations give every constant  *)
(* its value.                                                              *)
EXTENDS KGCParams
============================================================================
