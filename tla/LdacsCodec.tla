----------------------------- MODULE LdacsCodec -----------------------------
(***************************************************************************)
(* The bit codec of the cross-domain messages,                             *)
(* cross_domain_auth/util/pktencode.go: MarshalLdacsPkt packs the fields   *)
(* of a struct one after the other, as their ldacs tags say, and           *)
(* UnmarshalLdacsPkt takes them apart again, from as much of the packet as *)
(* one Read returned.  A step is one pass through a loop of the code.      *)
(*                                                                         *)
(* An octet and a number are the sets of the bits that are 1 in them; bit  *)
(* 0 is the lowest.  A layout is what typeFields makes of the tags.        *)
(***************************************************************************)
EXTENDS Integers, Sequences

CONSTANTS
    Inputs,        \* pairs of a layout and the values of its fields
    BufferSize,    \* octets of a buffer; 512 and 1024 in the code
    None           \* the zero value of a field

\* The types of fields in the tags, and the numbers that CheckValid accepts
\* of an enum.  A number has at most the bits of a uint64.  A dbytes field has
\* the size its slice has when decoding.
Fields == [type : {"set", "enum", "fbytes", "dbytes"}, size : Nat,
           valid : SUBSET SUBSET Nat]
IsNumber(f) == f.type \in {"set", "enum"}

ASSUME CodecConstants ==
    /\ BufferSize \in Nat
    /\ \A in \in Inputs :
          /\ in.layout \in Seq(Fields)
          /\ DOMAIN in.value = DOMAIN in.layout
          /\ \A i \in DOMAIN in.layout :
                /\ in.value[i] \in IF IsNumber(in.layout[i])
                                  THEN SUBSET (0 .. 63) ELSE Seq(SUBSET (0 .. 7))
                /\ IsNumber(in.layout[i]) => in.layout[i].size <= 64
                /\ in.layout[i].type = "fbytes" =>
                      Len(in.value[i]) = in.layout[i].size

VARIABLES
    layout, value,     \* the struct
    pc, field,         \* where encode or decode is, and at which field
    toShift, n,        \* of the loops of appendBits and detachBits
    preUnavil,
    bitsize,
    bytes, currByte,   \* the encodePkt
    received,          \* the octets one Read returned
    out                \* the struct that is decoded into

input == <<layout, value>>
loop == <<toShift, n, preUnavil>>
packet == <<bytes, currByte>>
vars == <<input, pc, field, loop, bitsize, packet, received, out>>

Octets == 0 .. BufferSize - 1
Shr(v, k) == {b - k : b \in {c \in v : c >= k}}
Shl(v, k) == {b + k : b \in v}
Low8(v) == v \cap (0 .. 7)

More == field <= Len(layout)
Current == layout[field]
Invalid(v) == Current.type = "enum" /\ v \notin Current.valid

\* The first whole octet from here on.
Aligned == IF bitsize % 8 # 0 THEN currByte + 1 ELSE currByte

----------------------------------------------------------------------------
(* encode.                                                                 *)

BeginAppend ==
    /\ pc = "encode" /\ More /\ IsNumber(Current)
    /\ toShift' = Current.size + (bitsize % 8) - 8
    /\ pc' = IF Invalid(value[field]) THEN "error" ELSE "append"
    /\ UNCHANGED <<input, field, n, preUnavil, bitsize, packet, received, out>>

\* A pass of appendBits puts the bits of the number that fall into the
\* current octet, whether they are the field's or not.  An index past the
\* buffer is a panic.
appendBitsLate ==                                               \* mutant
    /\ pc = "append" /\ toShift > -8
    /\ bytes' = [bytes EXCEPT ![currByte] = @ \cup
           Low8(IF toShift > 0 THEN Shr(value[field], toShift)
                               ELSE Shl(value[field], -toShift))]
    /\ currByte' = IF toShift > 0 THEN currByte + 1 ELSE currByte
    /\ toShift' = toShift - 8
    /\ UNCHANGED <<input, pc, field, n, preUnavil, bitsize, received, out>>
appendBits ==
    /\ pc = "append" /\ toShift > -8
    /\ IF currByte \notin Octets
       THEN pc' = "panic" /\ UNCHANGED <<toShift, packet>>
       ELSE /\ bytes' = [bytes EXCEPT ![currByte] = @ \cup
                   Low8(IF toShift >= 0 THEN Shr(value[field], toShift)
                                        ELSE Shl(value[field], -toShift))]
            /\ currByte' = IF toShift >= 0 THEN currByte + 1 ELSE currByte
            /\ toShift' = toShift - 8
            /\ UNCHANGED pc
    /\ UNCHANGED <<input, field, n, preUnavil, bitsize, received, out>>

EndAppend ==
    /\ pc = "append" /\ toShift <= -8
    /\ bitsize' = bitsize + Current.size
    /\ field' = field + 1
    /\ pc' = "encode"
    /\ UNCHANGED <<input, loop, packet, received, out>>

\* copy stops at the end of the buffer; the cursor does not, and what slices
\* the buffer beyond its end panics.
PutBytes ==
    LET v == value[field]
    IN /\ pc = "encode" /\ More /\ ~IsNumber(Current)
       /\ IF Aligned > BufferSize
          THEN pc' = "panic" /\ UNCHANGED <<packet, bitsize, field>>
          ELSE /\ bytes' = [k \in Octets |->
                      IF k - Aligned + 1 \in DOMAIN v
                      THEN v[k - Aligned + 1] ELSE bytes[k]]
               /\ currByte' = Aligned + Len(v)
               /\ bitsize' = IF bitsize % 8 # 0 THEN 0 ELSE bitsize
               /\ field' = field + 1
               /\ UNCHANGED pc
       /\ UNCHANGED <<input, loop, received, out>>

EndEncode ==
    /\ pc = "encode" /\ ~More
    /\ currByte' = Aligned
    /\ pc' = IF Aligned > BufferSize THEN "panic" ELSE "sent"
    /\ UNCHANGED <<input, field, loop, bitsize, bytes, received, out>>

\* The packet is written to a connection; one Read, into a buffer of zeros,
\* may return less of it.
Read ==
    /\ pc = "sent"
    /\ received' \in 1 .. currByte
    /\ bytes' = [k \in Octets |-> IF k < received' THEN bytes[k] ELSE {}]
    /\ currByte' = 0 /\ bitsize' = 0 /\ field' = 1
    /\ pc' = "decode"
    /\ UNCHANGED <<input, loop, out>>

----------------------------------------------------------------------------
(* decode.                                                                 *)

BeginDetach ==
    /\ pc = "decode" /\ More /\ IsNumber(Current)
    /\ preUnavil' = bitsize % 8
    /\ toShift' = Current.size + (bitsize % 8) - 8
    /\ n' = {}
    /\ pc' = "detach"
    /\ UNCHANGED <<input, field, bitsize, packet, received, out>>

\* A pass of detachBits; an index past what was read is a panic.
detachBitsUnmasked ==                                           \* mutant
    /\ pc = "detach" /\ toShift > -8
    /\ IF currByte >= received
       THEN pc' = "panic" /\ UNCHANGED <<loop, currByte>>
       ELSE /\ n' = n \cup IF toShift >= 0 THEN Shl(bytes[currByte], toShift)
                                          ELSE Shr(bytes[currByte], -toShift)
            /\ currByte' = IF toShift >= 0 THEN currByte + 1 ELSE currByte
            /\ toShift' = toShift - 8
            /\ preUnavil' = 0
            /\ UNCHANGED pc
    /\ UNCHANGED <<input, field, bitsize, bytes, received, out>>
detachBits ==
    LET specific == bytes[currByte] \cap (0 .. 7 - preUnavil)
    IN /\ pc = "detach" /\ toShift > -8
       /\ IF currByte >= received
          THEN pc' = "panic" /\ UNCHANGED <<loop, currByte>>
          ELSE /\ n' = n \cup IF toShift >= 0 THEN Shl(specific, toShift)
                                             ELSE Shr(specific, -toShift)
               /\ currByte' = IF toShift >= 0 THEN currByte + 1 ELSE currByte
               /\ toShift' = toShift - 8
               /\ preUnavil' = 0
               /\ UNCHANGED pc
       /\ UNCHANGED <<input, field, bitsize, bytes, received, out>>

EndDetach ==
    /\ pc = "detach" /\ toShift <= -8
    /\ out' = [out EXCEPT ![field] = n]
    /\ IF Invalid(n)
       THEN pc' = "error" /\ UNCHANGED <<field, bitsize>>
       ELSE /\ pc' = "decode"
            /\ bitsize' = bitsize + Current.size
            /\ field' = field + 1
    /\ UNCHANGED <<input, loop, packet, received>>

\* The slice may reach past what was read, up to the buffer's capacity, and
\* panics beyond.  Without a size, dbytes are skipped, and not even the rest
\* of the octet is.
TakeBytesHere ==                                                \* mutant
    /\ pc = "decode" /\ More /\ ~IsNumber(Current)
    /\ IF Current.type = "dbytes" /\ Current.size = 0
       THEN field' = field + 1 /\ UNCHANGED <<pc, out, currByte, bitsize>>
       ELSE IF currByte + Current.size > BufferSize
       THEN pc' = "panic" /\ UNCHANGED <<field, out, currByte, bitsize>>
       ELSE /\ out' = [out EXCEPT ![field] =
                   [k \in 1 .. Current.size |-> bytes[currByte + k - 1]]]
            /\ currByte' = currByte + Current.size
            /\ bitsize' = 0
            /\ field' = field + 1
            /\ UNCHANGED pc
    /\ UNCHANGED <<input, loop, bytes, received>>
TakeBytes ==
    /\ pc = "decode" /\ More /\ ~IsNumber(Current)
    /\ IF Current.type = "dbytes" /\ Current.size = 0
       THEN field' = field + 1 /\ UNCHANGED <<pc, out, currByte, bitsize>>
       ELSE IF Aligned + Current.size > BufferSize
       THEN pc' = "panic" /\ UNCHANGED <<field, out, currByte, bitsize>>
       ELSE /\ out' = [out EXCEPT ![field] =
                   [k \in 1 .. Current.size |-> bytes[Aligned + k - 1]]]
            /\ currByte' = Aligned + Current.size
            /\ bitsize' = 0
            /\ field' = field + 1
            /\ UNCHANGED pc
    /\ UNCHANGED <<input, loop, bytes, received>>

\* UnmarshalLdacsPkt returns the cursor.
EndDecode ==
    /\ pc = "decode" /\ ~More
    /\ currByte' = Aligned
    /\ pc' = "done"
    /\ UNCHANGED <<input, field, loop, bitsize, bytes, received, out>>

----------------------------------------------------------------------------
Init ==
    /\ \E in \in Inputs : layout = in.layout /\ value = in.value
    /\ pc = "encode" /\ field = 1
    /\ toShift = 0 /\ n = {} /\ preUnavil = 0
    /\ bitsize = 0
    /\ bytes = [k \in Octets |-> {}] /\ currByte = 0
    /\ received = 0
    /\ out = [i \in DOMAIN layout |-> None]

Next ==
    \/ BeginAppend \/ appendBits \/ EndAppend \/ PutBytes \/ EndEncode
    \/ Read
    \/ BeginDetach \/ detachBits \/ EndDetach \/ TakeBytes \/ EndDecode

Spec == Init /\ [][Next]_vars

----------------------------------------------------------------------------
(* What a layout says of a packet.  Positions of bits count from 0 at the  *)
(* highest bit of the first octet.                                         *)

Upward(p) == 8 * ((p + 7) \div 8)
Downward(p) == 8 * (p \div 8)

Width(i) == IF IsNumber(layout[i]) THEN layout[i].size ELSE 8 * Len(value[i])
End[i \in 0 .. Len(layout)] ==
    IF i = 0 THEN 0
    ELSE (IF IsNumber(layout[i]) THEN End[i - 1] ELSE Upward(End[i - 1]))
         + Width(i)
Begin(i) == End[i] - Width(i)
PacketOctets == Upward(End[Len(layout)]) \div 8

\* The positions a field sets.  The bits of a number that is too wide for
\* its field reach up to the start of the octet the field begins in.
BitsOf(i) ==
    IF IsNumber(layout[i])
    THEN {p \in {End[i] - 1 - b : b \in value[i]} : p >= Downward(Begin(i))}
    ELSE UNION {{Begin(i) + 8 * k - 1 - b : b \in value[i][k]} :
                   k \in DOMAIN value[i]}

Spoiled(i) == \E j \in DOMAIN layout : j # i /\
    BitsOf(j) \cap (Begin(i) .. End[i] - 1) # {}

Fits(i) == IsNumber(layout[i]) => value[i] \subseteq 0 .. layout[i].size - 1

\* The decoder leaves the field where the encoder did.
InStep(i) ==
    /\ ~IsNumber(layout[i]) => Len(value[i]) = layout[i].size
    /\ layout[i].type = "dbytes" => layout[i].size > 0

----------------------------------------------------------------------------
(* Properties.                                                             *)

\* MarshalLdacsPkt puts every field where its layout says, whatever octets
\* the fields straddle, and returns all octets and no other
\* (pktencode.go:80, 172).
PacksAsLaidOut == pc = "sent" =>
    /\ currByte = PacketOctets
    /\ \A k \in 0 .. currByte - 1 :
          bytes[k] = {b \in 0 .. 7 : \E i \in DOMAIN layout :
                                         8 * k + 7 - b \in BitsOf(i)}

\* Every field that arrived whole is decoded as it was encoded, unless a
\* number too wide for its field was packed over it, or the decoder took
\* dbytes before it for shorter or longer than they are: what follows a wide
\* number is not damaged (pktencode.go:83).
DecodesWhatArrived == \A i \in 1 .. field - 1 :
    /\ pc \in {"decode", "done"}
    /\ \A j \in 1 .. i : InStep(j)
    /\ Fits(i) /\ ~Spoiled(i)
    /\ End[i] <= 8 * received
    => out[i] = value[i]

\* A packet that was cut is decoded without an error, but the number of
\* octets that is returned shows it (pktencode.go:305).
CountShowsCut == pc = "done" /\ (\A i \in DOMAIN layout : InStep(i)) =>
    (currByte > received <=> received < PacketOctets)
=============================================================================
