---------------------------- MODULE MCIPKService ----------------------------
(* Instances of IPKService for TLC: two operators of one KGC organization. *)
EXTENDS IPKService

CONSTANTS as1, east, c1, c2

MCOrgOf == [c \in Clients |-> east]
Either == {TRUE, FALSE}

Name == [name |-> as1, padded |-> FALSE]
Input(cid, until) == [ASID |-> Name, ID |-> Nil, CID |-> cid,
                      ValidFrom |-> 0, ValidUntil |-> until]
MCRequests ==
    {[fcn |-> "addAtc", arg |-> Input(c1, 2)],
     [fcn |-> "updateAtc", arg |-> Input(c2, 2)],
     [fcn |-> "delAtc", arg |-> ipkKey(Name, east)],
     [fcn |-> "addAtc", arg |-> Input(c2, 0)],
     [fcn |-> "addAtc", arg |-> [Input(c2, 2) EXCEPT !.ASID.padded = TRUE]]}
=============================================================================
