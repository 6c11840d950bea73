---------------------------- MODULE MCLdacsCodec ----------------------------
(* Instances of LdacsCodec for TLC: the layouts of the messages of         *)
(* message_types.go and of the test, with payloads of two octets, and      *)
(* layouts with an enum and with dbytes, which no message has.             *)
EXTENDS LdacsCodec

Set(z) == [type |-> "set", size |-> z, valid |-> {}]
Bytes(z) == [type |-> "fbytes", size |-> z, valid |-> {}]
Slice(z) == [type |-> "dbytes", size |-> z, valid |-> {}]

WithUI == <<Set(8), Set(3), Set(2), Set(8), Set(2), Set(2), Set(7),
            Bytes(2), Bytes(1)>>
WithSAC == <<Set(8), Set(3), Set(2), Set(12), Set(2), Set(2), Set(3),
             Bytes(2), Bytes(1)>>
OfTest == <<Set(8), Set(3), Set(2), Set(12), Set(2), Set(2), Bytes(2)>>
Others(room) ==
    <<[type |-> "enum", size |-> 11, valid |-> {{10}, 0 .. 10}],
      Set(3), Slice(room)>>
\* Fields behind a slice that the decoder may take for shorter or longer.
Behind(room) == <<Set(3), Slice(room), Set(6), Bytes(1)>>

All(f) == IF f.type \in {"set", "enum"} THEN 0 .. f.size - 1
          ELSE [k \in 1 .. f.size |-> {0, k}]
Zero(f) == IF f.type \in {"set", "enum"} THEN {}
           ELSE [k \in 1 .. f.size |-> {}]

\* Every field is full or empty ...
FullOrEmpty(lay) ==
    {[i \in DOMAIN lay |-> IF i \in F THEN All(lay[i]) ELSE Zero(lay[i])] :
        F \in SUBSET DOMAIN lay}
\* ... or one number is one bit that its type can hold, in its field or
\* above, among full or empty ones.
TypeWidth(f) == IF f.size > 8 THEN 16 ELSE 8
OneBit(lay) ==
    {[i \in DOMAIN lay |-> IF i = o[1] THEN {o[2]}
                           ELSE IF o[3] THEN All(lay[i]) ELSE Zero(lay[i])] :
        o \in UNION {{j} \X (0 .. TypeWidth(lay[j]) - 1) \X BOOLEAN :
                        j \in {i \in DOMAIN lay : lay[i].type = "set"}}}

MCInputs ==
    UNION {{[layout |-> lay, value |-> v] :
               v \in FullOrEmpty(lay) \cup OneBit(lay)} :
           lay \in {WithUI, WithSAC, OfTest}}
    \cup {[layout |-> Others(room),
           value |-> <<e, v, <<{7}, {0}>> >>] :
             room \in {0, 2, 12}, e \in {{10}, {1}}, v \in {{0, 2}, {3}}}
    \cup {[layout |-> Behind(room),
           value |-> <<{1}, [k \in 1 .. len |-> {k % 8}], v, <<{1, 6}>> >>] :
             room \in 0 .. 3, len \in {0, 1, 2, 9, 10, 11, 12},
             v \in {{0, 4}, {6}}}
=============================================================================
