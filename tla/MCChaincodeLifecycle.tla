------------------------ MODULE MCChaincodeLifecycle ------------------------
(* Instances of ChaincodeLifecycle for TLC.                                *)
EXTENDS ChaincodeLifecycle

CONSTANTS east, north, air, e1, e2, n1, a1

MCOrgSeq == <<east, north, air>>
MCPeersOf == [org \in {east, north, air} |->
                 CASE org = east  -> <<e1, e2>>
                   [] org = north -> <<n1>>
                   [] org = air   -> <<a1>>]
=============================================================================
