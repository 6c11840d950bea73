------------------------- MODULE MCCrossDomainAuth -------------------------
(* Instances of CrossDomainAuth for TLC.  The values are those of          *)
(* initializeKeys and of handleCrAucRqstNotic.                             *)
EXTENDS CrossDomainAuth

\* 0xABC and 0xDEF as sets of bits.
MCSac == {2, 3, 4, 5, 7, 9, 11}
MCNew == {0, 1, 2, 3, 5, 6, 7, 8, 10, 11}
============================================================================
