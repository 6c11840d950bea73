-------------------------- MODULE LdacsCodecProofs --------------------------
(***************************************************************************)
(* Theorems about LdacsCodec, for every layout of fields of any size and   *)
(* every value: the loops of pktencode.go put each bit where the layout    *)
(* says and find it there.  End, the reference, is recursive over the      *)
(* layout; what it computes is proved by taking the least field for which  *)
(* it would be wrong.                                                      *)
(***************************************************************************)
EXTENDS LdacsCodec, WellFoundedInduction, TLAPS

\* What CodecConstants says of the input chosen.
InputOK ==
    /\ layout \in Seq(Fields)
    /\ DOMAIN value = DOMAIN layout
    /\ \A i \in DOMAIN layout :
          value[i] \in IF IsNumber(layout[i])
                       THEN SUBSET Nat ELSE Seq(SUBSET (0 .. 7))

----------------------------------------------------------------------------
(* Octets, bits and positions.                                             *)

\* A set of numbers that is not empty has a least one.
LEMMA LeastNumber ==
    ASSUME NEW S, S \subseteq Nat, S # {}
    PROVE  \E x \in S : \A y \in S : ~(y < x)
<1>1. IsWellFoundedOn(OpToRel(<, Nat), Nat)
  BY NatLessThanWellFounded
<1>2. PICK x \in S : \A y \in S : <<y, x>> \notin OpToRel(<, Nat)
  BY <1>1, WFMin
<1>3. \A y \in S : ~(y < x)
  BY <1>2 DEF OpToRel
<1> QED
  BY <1>3

\* A position is an octet and a place in it.
LEMMA Split ==
    ASSUME NEW e \in Nat
    PROVE  /\ e \div 8 \in Nat /\ e % 8 \in 0 .. 7
           /\ e = 8 * (e \div 8) + (e % 8)
OBVIOUS

\* An octet and a place are those of a position.
LEMMA SplitUnique ==
    ASSUME NEW e \in Nat, NEW c \in Int, NEW r \in 0 .. 7, e = 8 * c + r
    PROVE  c = e \div 8 /\ r = e % 8
OBVIOUS

\* The octets a position is between.
LEMMA Around ==
    ASSUME NEW e \in Nat
    PROVE  /\ Upward(e) = 8 * (IF e % 8 # 0 THEN e \div 8 + 1 ELSE e \div 8)
           /\ Upward(e) \in Nat /\ e <= Upward(e)
           /\ Downward(e) = e - (e % 8) /\ Downward(e) = 8 * (e \div 8)
           /\ Downward(e) \in Nat /\ Downward(e) <= e
BY DEF Upward, Downward

----------------------------------------------------------------------------
(* The layout.                                                             *)

\* The steps of End's recursion.
Next8(i, e) == (IF IsNumber(layout[i]) THEN e ELSE Upward(e)) + Width(i)

LEMMA WidthType ==
    ASSUME InputOK, NEW i \in 1 .. Len(layout)
    PROVE  Width(i) \in Nat
<1>1. i \in DOMAIN layout /\ layout[i] \in Fields
  BY DEF InputOK
<1>2. CASE IsNumber(layout[i])
  BY <1>1, <1>2 DEF Width, Fields
<1>3. CASE ~IsNumber(layout[i])
  <2>1. value[i] \in Seq(SUBSET (0 .. 7))
    BY <1>1, <1>3 DEF InputOK
  <2> QED
    BY <1>3, <2>1 DEF Width
<1> QED
  BY <1>2, <1>3

\* Up to every field there is a function that takes the steps of End.
LEMMA EndUpTo ==
    ASSUME InputOK, NEW m \in Nat, m <= Len(layout)
    PROVE  \E g : g = [i \in 0 .. m |-> IF i = 0 THEN 0 ELSE Next8(i, g[i - 1])]
<1> DEFINE Good(k) == \E g : g = [i \in 0 .. k |->
                          IF i = 0 THEN 0 ELSE Next8(i, g[i - 1])]
           Bad == {k \in Nat : k <= Len(layout) /\ ~Good(k)}
<1>1. SUFFICES ASSUME Bad # {} PROVE FALSE
  OBVIOUS
<1>2. PICK k \in Bad : \A j \in Bad : ~(j < k)
  <2>1. Bad \subseteq Nat
    OBVIOUS
  <2> HIDE DEF Bad
  <2> QED
    BY <1>1, <2>1, LeastNumber
<1>3. CASE k = 0
  <2>1. PICK g : g = [i \in 0 .. 0 |-> 0]
    OBVIOUS
  <2>2. g = [i \in 0 .. 0 |-> IF i = 0 THEN 0 ELSE Next8(i, g[i - 1])]
    BY <2>1
  <2> QED
    BY <1>2, <1>3, <2>2
<1>4. CASE k # 0
  <2>1. k - 1 \in Nat /\ k - 1 < k /\ Len(layout) \in Nat
    BY <1>2, <1>4 DEF InputOK
  <2>2. Good(k - 1)
    <3>1. k - 1 <= Len(layout)
      BY <1>2, <2>1
    <3> HIDE DEF Good
    <3> QED
      BY <1>2, <2>1, <3>1
  <2>3. PICK g : g = [i \in 0 .. k - 1 |->
                         IF i = 0 THEN 0 ELSE Next8(i, g[i - 1])]
    BY <2>2
  <2>4. PICK h : h = [i \in 0 .. k |->
                         IF i = 0 THEN 0 ELSE Next8(i, g[i - 1])]
    OBVIOUS
  <2>5. \A i \in 0 .. k - 1 : h[i] = g[i]
    BY <2>1, <2>3, <2>4
  <2>6. h = [i \in 0 .. k |-> IF i = 0 THEN 0 ELSE Next8(i, h[i - 1])]
    <3>1. \A i \in 0 .. k : i # 0 => i - 1 \in 0 .. k - 1
      BY <2>1
    <3> QED
      BY <2>4, <2>5, <3>1
  <2> QED
    BY <1>2, <2>6
<1> QED
  BY <1>3, <1>4

\* End satisfies its equation.
LEMMA EndIs ==
    ASSUME InputOK
    PROVE  /\ End[0] = 0
           /\ \A i \in 1 .. Len(layout) : End[i] = Next8(i, End[i - 1])
<1> DEFINE Takes(f) == f = [i \in 0 .. Len(layout) |->
               IF i = 0 THEN 0 ELSE Next8(i, f[i - 1])]
<1>0. Len(layout) \in Nat
  BY DEF InputOK
<1>1. \E f : Takes(f)
  BY <1>0, EndUpTo
<1>2. End = CHOOSE f : Takes(f)
  BY DEF End, Next8
<1>3. Takes(CHOOSE f : Takes(f))
  <2> HIDE DEF Takes
  <2> QED
    BY <1>1
<1>4. Takes(End)
  BY <1>2, <1>3
<1> QED
  BY <1>0, <1>4

LEMMA EndType ==
    ASSUME InputOK, NEW m \in 0 .. Len(layout)
    PROVE  End[m] \in Nat
<1> DEFINE Bad == {k \in 0 .. Len(layout) : End[k] \notin Nat}
<1>0. Len(layout) \in Nat
  BY DEF InputOK
<1>1. SUFFICES ASSUME Bad # {} PROVE FALSE
  OBVIOUS
<1>2. PICK k \in Bad : \A j \in Bad : ~(j < k)
  <2>1. Bad \subseteq Nat
    BY <1>0
  <2> HIDE DEF Bad
  <2> QED
    BY <1>1, <2>1, LeastNumber
<1>3. k # 0
  BY <1>2, EndIs
<1>4. k \in 1 .. Len(layout) /\ k - 1 \in 0 .. Len(layout) /\ k - 1 < k
  BY <1>0, <1>2, <1>3
<1>5. End[k - 1] \in Nat
  BY <1>2, <1>4
<1>6. End[k] = Next8(k, End[k - 1])
  BY <1>4, EndIs
<1>7. Upward(End[k - 1]) \in Nat /\ Width(k) \in Nat
  BY <1>4, <1>5, Around, WidthType
<1>8. End[k] \in Nat
  BY <1>5, <1>6, <1>7 DEF Next8
<1> QED
  BY <1>2, <1>8

\* Where a field begins and ends.
LEMMA Place ==
    ASSUME InputOK, NEW i \in 1 .. Len(layout)
    PROVE  /\ End[i - 1] \in Nat /\ End[i] \in Nat /\ Begin(i) \in Nat
           /\ Begin(i) = IF IsNumber(layout[i]) THEN End[i - 1]
                         ELSE Upward(End[i - 1])
           /\ Width(i) \in Nat /\ End[i] = Begin(i) + Width(i)
           /\ End[i - 1] <= Begin(i)
<1>1. i - 1 \in 0 .. Len(layout) /\ i \in 0 .. Len(layout)
  BY DEF InputOK
<1>2. End[i - 1] \in Nat /\ End[i] \in Nat /\ Width(i) \in Nat
  BY <1>1, EndType, WidthType
<1>3. End[i] = Next8(i, End[i - 1])
  BY EndIs
<1>4. Upward(End[i - 1]) \in Nat /\ End[i - 1] <= Upward(End[i - 1])
  BY <1>2, Around
<1>5. CASE IsNumber(layout[i])
  BY <1>2, <1>3, <1>5 DEF Next8, Begin
<1>6. CASE ~IsNumber(layout[i])
  BY <1>2, <1>3, <1>4, <1>6 DEF Next8, Begin
<1> QED
  BY <1>5, <1>6

\* Later fields end later.
LEMMA EndGrows ==
    ASSUME InputOK, NEW i \in 0 .. Len(layout), NEW m \in 0 .. Len(layout),
           i <= m
    PROVE  End[i] <= End[m]
<1> DEFINE Bad == {k \in 0 .. Len(layout) : i <= k /\ ~(End[i] <= End[k])}
<1>0. Len(layout) \in Nat
  BY DEF InputOK
<1>1. SUFFICES ASSUME Bad # {} PROVE FALSE
  OBVIOUS
<1>2. PICK k \in Bad : \A j \in Bad : ~(j < k)
  <2>1. Bad \subseteq Nat
    BY <1>0
  <2> HIDE DEF Bad
  <2> QED
    BY <1>1, <2>1, LeastNumber
<1>3. End[i] \in Nat
  BY EndType
<1>4. i # k
  BY <1>2, <1>3
<1>5. k \in 1 .. Len(layout) /\ k - 1 \in 0 .. Len(layout) /\ i <= k - 1
      /\ k - 1 < k
  BY <1>0, <1>2, <1>4
<1>6. End[i] <= End[k - 1]
  BY <1>2, <1>5
<1>7. /\ End[k - 1] \in Nat /\ End[k] \in Nat /\ Begin(k) \in Nat
      /\ End[k - 1] <= Begin(k) /\ Begin(k) <= End[k]
  BY <1>5, Place
<1> QED
  BY <1>2, <1>3, <1>6, <1>7

----------------------------------------------------------------------------
(* The bits of a packet.                                                   *)

\* The position of bit b of octet k, and what the first f fields put there.
Pos(k, b) == 8 * k + 7 - b
Put(f, p) == \E i \in 1 .. f : p \in BitsOf(i)

\* Every position is one bit of one octet.
LEMMA PosUnique ==
    ASSUME NEW k \in Int, NEW b \in 0 .. 7, NEW m \in Int, NEW c \in 0 .. 7,
           Pos(k, b) = Pos(m, c)
    PROVE  k = m /\ b = c
BY DEF Pos

LEMMA PosOctet ==
    ASSUME NEW k \in Nat, NEW b \in 0 .. 7, NEW m \in Nat
    PROVE  /\ Pos(k, b) \in Nat
           /\ Pos(k, b) < 8 * m <=> k < m
           /\ Pos(k, b) >= 8 * m <=> k >= m
BY DEF Pos

\* The bits of a number.
LEMMA NumberBits ==
    ASSUME InputOK, NEW i \in 1 .. Len(layout), IsNumber(layout[i]),
           NEW p \in Int
    PROVE  p \in BitsOf(i) <=> /\ p >= Downward(Begin(i))
                               /\ End[i] - 1 - p \in value[i]
<1>1. value[i] \subseteq Nat
  BY DEF InputOK
<1>2. End[i] \in Nat
  BY Place
<1>3. BitsOf(i) = {q \in {End[i] - 1 - b : b \in value[i]} :
                      q >= Downward(Begin(i))}
  BY DEF BitsOf
<1>4. ASSUME p \in BitsOf(i) PROVE End[i] - 1 - p \in value[i]
  <2>1. PICK b \in value[i] : p = End[i] - 1 - b
    BY <1>3, <1>4
  <2> QED
    BY <1>1, <1>2, <2>1
<1>5. ASSUME End[i] - 1 - p \in value[i]
      PROVE  p \in {End[i] - 1 - b : b \in value[i]}
  <2>1. p = End[i] - 1 - (End[i] - 1 - p)
    BY <1>2
  <2> QED
    BY <1>5, <2>1
<1> QED
  BY <1>3, <1>4, <1>5

\* The bits of a slice that begins at octet a are those of its octets.
LEMMA SliceBits ==
    ASSUME InputOK, NEW i \in 1 .. Len(layout), ~IsNumber(layout[i]),
           NEW a \in Nat, Begin(i) = 8 * a,
           NEW k \in Int, NEW b \in 0 .. 7
    PROVE  Pos(k, b) \in BitsOf(i) <=> /\ k - a + 1 \in DOMAIN value[i]
                                       /\ b \in value[i][k - a + 1]
<1>1. value[i] \in Seq(SUBSET (0 .. 7))
  BY DEF InputOK
<1>2. BitsOf(i) = UNION {{Begin(i) + 8 * m - 1 - c : c \in value[i][m]} :
                             m \in DOMAIN value[i]}
  BY DEF BitsOf
<1>3. \A m \in DOMAIN value[i] : m \in Int /\ value[i][m] \subseteq 0 .. 7
  BY <1>1
<1>4. PICK x \in Int : x = k - a + 1
  OBVIOUS
<1>5. ASSUME Pos(k, b) \in BitsOf(i)
      PROVE  x \in DOMAIN value[i] /\ b \in value[i][x]
  <2>1. PICK m \in DOMAIN value[i] :
            Pos(k, b) \in {Begin(i) + 8 * m - 1 - c : c \in value[i][m]}
    BY <1>2, <1>5
  <2>2. PICK c \in value[i][m] : Pos(k, b) = Begin(i) + 8 * m - 1 - c
    BY <2>1
  <2>3. m \in Int /\ c \in 0 .. 7
    BY <1>3, <2>2
  <2>4. PICK o \in Int : o = a + m - 1
    BY <2>3
  <2>5. k = a + m - 1 /\ b = c
    <3>1. Pos(k, b) = Pos(o, c)
      BY <2>2, <2>3, <2>4 DEF Pos
    <3>2. k = o /\ b = c
      BY <2>3, <2>4, <3>1 DEF Pos
    <3> QED
      BY <2>4, <3>2
  <2>6. x = m
    BY <1>4, <2>3, <2>5
  <2> QED
    BY <2>2, <2>5, <2>6
<1>6. ASSUME x \in DOMAIN value[i], b \in value[i][x]
      PROVE  Pos(k, b) \in BitsOf(i)
  <2>1. Pos(k, b) = Begin(i) + 8 * x - 1 - b
    BY <1>4 DEF Pos
  <2> QED
    BY <1>2, <1>6, <2>1
<1> QED
  BY <1>4, <1>5, <1>6

\* The octets of a slice are within it.
LEMMA SliceRange ==
    ASSUME NEW x \in Nat, NEW m \in Nat, NEW k \in 1 .. m, NEW b \in 0 .. 7
    PROVE  /\ x + 8 * k - 1 - b \in Int
           /\ x <= x + 8 * k - 1 - b
           /\ x + 8 * k - 1 - b < x + 8 * m
OBVIOUS

\* A field's bits are before its end, and not before the octet it begins in.
LEMMA BitsBetween ==
    ASSUME InputOK, NEW i \in 1 .. Len(layout), NEW p \in BitsOf(i)
    PROVE  p \in Nat /\ p < End[i] /\ p >= Downward(Begin(i))
<1>1. /\ End[i] \in Nat /\ Begin(i) \in Nat /\ Width(i) \in Nat
      /\ End[i] = Begin(i) + Width(i) /\ Downward(Begin(i)) \in Nat
      /\ Downward(Begin(i)) <= Begin(i)
  BY Place, Around
<1>2. CASE IsNumber(layout[i])
  <2>1. value[i] \subseteq Nat
    BY <1>2 DEF InputOK
  <2>2. PICK b \in value[i] : p = End[i] - 1 - b /\ p >= Downward(Begin(i))
    BY <1>2 DEF BitsOf
  <2> QED
    BY <1>1, <2>1, <2>2
<1>3. CASE ~IsNumber(layout[i])
  <2>1. value[i] \in Seq(SUBSET (0 .. 7))
    BY <1>3 DEF InputOK
  <2>0. PICK k \in DOMAIN value[i] :
            p \in {Begin(i) + 8 * k - 1 - b : b \in value[i][k]}
    BY <1>3 DEF BitsOf
  <2>2. PICK b \in value[i][k] : p = Begin(i) + 8 * k - 1 - b
    BY <2>0
  <2>3. k \in 1 .. Len(value[i]) /\ b \in 0 .. 7 /\ Len(value[i]) \in Nat
    <3>1. DOMAIN value[i] = 1 .. Len(value[i]) /\ Len(value[i]) \in Nat
          /\ value[i][k] \subseteq 0 .. 7
      BY <2>0, <2>1
    <3> QED
      BY <2>0, <2>2, <3>1
  <2>4. PICK m \in Nat : m = Len(value[i]) /\ End[i] = Begin(i) + 8 * m
    BY <1>1, <1>3, <2>3 DEF Width
  <2>5. PICK g \in Nat : g = Begin(i)
    BY <1>1
  <2>6. p = g + 8 * k - 1 - b /\ k \in 1 .. m /\ b \in 0 .. 7
    BY <2>2, <2>3, <2>4, <2>5
  <2>7. p \in Int /\ g <= p /\ p < g + 8 * m
    BY <2>4, <2>5, <2>6, SliceRange
  <2> QED
    BY <1>1, <2>4, <2>5, <2>7
<1> QED
  BY <1>2, <1>3

\* What is put before field i is before its first bit.
LEMMA PutBelow ==
    ASSUME InputOK, NEW i \in 0 .. Len(layout), NEW p, Put(i, p)
    PROVE  p \in Nat /\ p < End[i]
<1>1. PICK m \in 1 .. i : p \in BitsOf(m)
  BY DEF Put
<1>2. m \in 1 .. Len(layout) /\ m \in 0 .. Len(layout) /\ m <= i
  BY <1>1 DEF InputOK
<1>3. p \in Nat /\ p < End[m] /\ End[m] \in Nat /\ End[i] \in Nat
  BY <1>1, <1>2, BitsBetween, EndType
<1>4. End[m] <= End[i]
  BY <1>2, EndGrows
<1> QED
  BY <1>3, <1>4

\* One more field.
LEMMA PutNext ==
    ASSUME NEW i \in Nat \ {0}, NEW p
    PROVE  Put(i, p) <=> Put(i - 1, p) \/ p \in BitsOf(i)
BY DEF Put

\* The layout and the value do not change.
LEMMA SameInput ==
    ASSUME UNCHANGED input
    PROVE  /\ InputOK' <=> InputOK
           /\ End' = End
           /\ \A i : /\ Begin(i)' = Begin(i) /\ BitsOf(i)' = BitsOf(i)
                     /\ Width(i)' = Width(i)
                     /\ InStep(i)' <=> InStep(i)
                     /\ Fits(i)' <=> Fits(i)
           /\ \A f, p : Put(f, p)' <=> Put(f, p)
<1>1. layout' = layout /\ value' = value
  BY DEF input
<1>2. End' = End
  BY <1>1 DEF End, Width
<1>3. \A i : Width(i)' = Width(i) /\ Begin(i)' = Begin(i)
  BY <1>1, <1>2 DEF Width, Begin
<1>4. \A i : BitsOf(i)' = BitsOf(i)
  <2> TAKE i
  <2>1. PICK b : b = Begin(i)
    OBVIOUS
  <2>2. Begin(i)' = b
    BY <1>3, <2>1
  <2>3. PICK e : e = End[i]
    OBVIOUS
  <2>4. End[i]' = e
    BY <1>2, <2>3
  <2>5. PICK v : v = value[i]
    OBVIOUS
  <2>6. value[i]' = v
    BY <1>1, <2>5
  <2>7. IsNumber(layout[i])' = IsNumber(layout[i])
    BY <1>1
  <2>8. BitsOf(i)' = IF IsNumber(layout[i])
                     THEN {p \in {e - 1 - c : c \in v} : p >= Downward(b)}
                     ELSE UNION {{b + 8 * k - 1 - c : c \in v[k]} : k \in DOMAIN v}
    BY <2>2, <2>4, <2>6, <2>7 DEF BitsOf
  <2>9. BitsOf(i) = IF IsNumber(layout[i])
                     THEN {p \in {e - 1 - c : c \in v} : p >= Downward(b)}
                     ELSE UNION {{b + 8 * k - 1 - c : c \in v[k]} : k \in DOMAIN v}
    BY <2>1, <2>3, <2>5 DEF BitsOf
  <2> QED
    BY <2>8, <2>9
<1>5. InputOK' <=> InputOK
  BY <1>1 DEF InputOK
<1>6. \A f, p : Put(f, p)' <=> Put(f, p)
  BY <1>4 DEF Put
<1>7. \A i : (InStep(i)' <=> InStep(i)) /\ (Fits(i)' <=> Fits(i))
  BY <1>1 DEF InStep, Fits
<1> QED
  BY <1>2, <1>3, <1>4, <1>5, <1>6, <1>7

----------------------------------------------------------------------------
(* The invariant.                                                          *)

\* The cursor is at the end of the first m fields.
LaidTo(m) == bitsize % 8 = End[m] % 8 /\ currByte = End[m] \div 8

\* The decoder leaves the first m fields where the encoder did.
Synced(m) == \A j \in 1 .. m : InStep(j)

\* The octets that the passes of a loop have dealt with, and where the loop
\* is: toShift says how far the end of the current octet is from the end of
\* the field.
Handled == IF toShift >= -8 THEN currByte ELSE currByte + 1
InLoop ==
    /\ bitsize % 8 = End[field - 1] % 8
    /\ currByte >= End[field - 1] \div 8
    /\ IF toShift >= -8 THEN 8 * (currByte + 1) + toShift = End[field]
       ELSE toShift >= -15 /\ 8 * currByte + 16 + toShift = End[field]

\* The bits of the octet that detachBits takes are those of the field.
Unmasked ==
    toShift > -8 => \/ Begin(field) = 8 * currByte + preUnavil
                    \/ preUnavil = 0 /\ Begin(field) <= 8 * currByte

\* What detachBits has taken: the bits of the packet from the field's first.
Taken == {x \in Nat : /\ End[field] - 1 - x >= Begin(field)
                      /\ End[field] - 1 - x < 8 * Handled
                      /\ Put(Len(layout), End[field] - 1 - x)}

TypeInv ==
    /\ InputOK
    /\ field \in 1 .. Len(layout) + 1
    /\ pc \in {"encode", "append", "sent", "decode", "detach", "done",
               "error", "panic"}
    /\ pc \in {"append", "detach"} => More /\ IsNumber(Current)
    /\ toShift \in Int /\ preUnavil \in 0 .. 7
    /\ bitsize \in Nat /\ currByte \in Nat /\ received \in Nat
    /\ bytes \in [Octets -> SUBSET (0 .. 7)]
    /\ DOMAIN out = DOMAIN layout

\* What the octets of the packet hold.
Packed(k, m) == {b \in 0 .. 7 : Put(m, Pos(k, b))}
PacketInv == \A k \in Octets :
    /\ pc = "encode" => bytes[k] = Packed(k, field - 1)
    /\ pc = "append" => bytes[k] = {b \in 0 .. 7 :
           Put(field - 1, Pos(k, b)) \/ (k < Handled /\ Pos(k, b) \in BitsOf(field))}
    /\ pc = "sent" => bytes[k] = Packed(k, Len(layout))
    /\ pc \in {"decode", "detach", "done"} =>
           bytes[k] = IF k < received THEN Packed(k, Len(layout)) ELSE {}

\* Where the cursor is.
CursorInv ==
    /\ pc = "encode" => LaidTo(field - 1)
    /\ pc = "append" => InLoop
    /\ pc = "sent" => currByte = PacketOctets /\ currByte <= BufferSize
    /\ pc \in {"decode", "detach", "done"} =>
           received <= PacketOctets /\ received <= BufferSize
    /\ pc = "decode" /\ Synced(field - 1) => LaidTo(field - 1)
    /\ pc = "detach" /\ Synced(field - 1) => InLoop /\ Unmasked /\ n = Taken
    /\ pc = "done" /\ Synced(Len(layout)) => currByte = PacketOctets

\* What has been decoded.
OutInv == \A i \in 1 .. field - 1 :
    /\ pc \in {"decode", "detach", "done"}
    /\ Synced(i) /\ Fits(i) /\ ~Spoiled(i)
    /\ End[i] <= 8 * received
    => out[i] = value[i]

CodecInv == TypeInv /\ PacketInv /\ CursorInv /\ OutInv

----------------------------------------------------------------------------
(* The cursor.                                                             *)

\* The field the code is at.
LEMMA AtField ==
    ASSUME TypeInv, More
    PROVE  /\ field \in 1 .. Len(layout) /\ field - 1 \in 0 .. Len(layout)
           /\ Len(layout) \in Nat /\ Current \in Fields /\ Current = layout[field]
           /\ Current.size \in Nat
           /\ field + 1 \in 1 .. Len(layout) + 1
           /\ IsNumber(Current) => Width(field) = Current.size
           /\ ~IsNumber(Current) => /\ value[field] \in Seq(SUBSET (0 .. 7))
                                    /\ Width(field) = 8 * Len(value[field])
<1>1. /\ layout \in Seq(Fields) /\ DOMAIN value = DOMAIN layout
      /\ field \in 1 .. Len(layout) + 1 /\ field <= Len(layout)
      /\ Len(layout) \in Nat
  BY DEF TypeInv, InputOK, More
<1>2. field \in DOMAIN layout /\ layout[field] \in Fields
  BY <1>1
<1>3. ~IsNumber(layout[field]) => value[field] \in Seq(SUBSET (0 .. 7))
  BY <1>2 DEF TypeInv, InputOK
<1> QED
  BY <1>1, <1>2, <1>3 DEF Current, Fields, Width

\* Adding the same to two numbers keeps their remainders equal.
LEMMA SameRest ==
    ASSUME NEW b \in Nat, NEW e \in Nat, NEW s \in Nat, b % 8 = e % 8
    PROVE  (b + s) % 8 = (e + s) % 8
OBVIOUS

\* The first whole octet behind m fields.
LEMMA AlignedIs ==
    ASSUME TypeInv, NEW m \in 0 .. Len(layout), LaidTo(m)
    PROVE  /\ Aligned \in Nat /\ 8 * Aligned = Upward(End[m])
           /\ Upward(End[m]) \div 8 = Aligned
<1>1. PICK e \in Nat : e = End[m]
  BY EndType DEF TypeInv
<1>2. PICK q \in Nat : q = e \div 8
  BY Split
<1>3. Aligned = IF e % 8 # 0 THEN q + 1 ELSE q
  BY <1>1, <1>2 DEF Aligned, LaidTo
<1>4. Upward(e) = 8 * (IF e % 8 # 0 THEN q + 1 ELSE q) /\ Upward(e) \in Nat
  BY <1>2, Around
<1>5. Aligned \in Nat
  BY <1>3
<1>6. Upward(e) = 8 * Aligned + 0
  BY <1>3, <1>4, <1>5
<1>7. Aligned = Upward(e) \div 8
  BY <1>4, <1>5, <1>6, SplitUnique
<1> QED
  BY <1>1, <1>5, <1>6, <1>7

\* The loops begin at the end of the field before, ...
LEMMA LoopBegins ==
    ASSUME TypeInv, More, IsNumber(Current), LaidTo(field - 1),
           toShift' = Current.size + (bitsize % 8) - 8,
           UNCHANGED <<input, field, bitsize, currByte>>
    PROVE  InLoop' /\ Handled' = currByte
<1>1. /\ field \in 1 .. Len(layout) /\ Current.size \in Nat
      /\ Width(field) = Current.size /\ Current = layout[field] /\ InputOK
  BY AtField DEF TypeInv
<1>2. PICK e \in Nat : e = End[field - 1] /\ End[field] = e + Current.size
  BY <1>1, Place
<1>3. PICK r \in 0 .. 7 : r = e % 8 /\ e = 8 * (e \div 8) + r
                           /\ e \div 8 \in Nat
  BY Split
<1>4. currByte = e \div 8 /\ bitsize % 8 = e % 8
  BY <1>2 DEF LaidTo
<1>5. toShift' >= -8 /\ 8 * (currByte + 1) + toShift' = End[field]
  <2>1. PICK c \in Nat : c = currByte /\ e = 8 * c + r
    BY <1>3, <1>4
  <2>2. PICK s \in Nat : s = Current.size
    BY <1>1
  <2>3. toShift' = s + r - 8 /\ End[field] = e + s
    BY <1>2, <1>3, <1>4, <2>2
  <2>4. s + r - 8 >= -8 /\ 8 * (c + 1) + (s + r - 8) = e + s
    <3>1. r \in 0 .. 7
      BY <1>3
    <3> QED
      BY <2>1, <2>2, <3>1
  <2> QED
    BY <2>1, <2>3, <2>4
<1>6. End' = End /\ field' = field /\ bitsize' = bitsize /\ currByte' = currByte
  BY SameInput
<1>7. Handled' = currByte
  BY <1>5, <1>6 DEF Handled
<1>8. currByte >= e \div 8
  BY <1>3, <1>4
<1> QED
  BY <1>2, <1>4, <1>5, <1>6, <1>7, <1>8 DEF InLoop

\* ... a pass deals with the current octet, ...
LEMMA LoopPass ==
    ASSUME TypeInv, More, InLoop, toShift > -8, toShift' = toShift - 8,
           currByte' = IF toShift >= 0 THEN currByte + 1 ELSE currByte,
           UNCHANGED <<input, field, bitsize>>
    PROVE  /\ InLoop' /\ Handled = currByte /\ Handled' = currByte + 1
           /\ currByte' \in Nat /\ toShift' \in Int
<1>1. /\ toShift \in Int /\ currByte \in Nat
      /\ field \in 1 .. Len(layout) /\ InputOK
  BY AtField DEF TypeInv
<1>2. End[field] \in Nat /\ End[field - 1] \in Nat
  BY <1>1, Place
<1>3. End' = End /\ field' = field /\ bitsize' = bitsize
  BY SameInput
<1>4. PICK q \in Nat : q = End[field - 1] \div 8
  BY <1>2, Split
<1>5. /\ bitsize % 8 = End[field - 1] % 8 /\ currByte >= q
      /\ 8 * (currByte + 1) + toShift = End[field]
  BY <1>1, <1>4 DEF InLoop
<1>6. currByte' \in Nat /\ toShift' \in Int /\ currByte' >= q
  BY <1>1, <1>4, <1>5
<1>7. IF toShift' >= -8 THEN 8 * (currByte' + 1) + toShift' = End[field]
      ELSE toShift' >= -15 /\ 8 * currByte' + 16 + toShift' = End[field]
  BY <1>1, <1>2, <1>5
<1>8. Handled = currByte /\ Handled' = currByte + 1
  BY <1>1 DEF Handled
<1>9. InLoop'
  BY <1>3, <1>4, <1>5, <1>6, <1>7 DEF InLoop
<1> QED
  BY <1>6, <1>8, <1>9

\* ... and they end at the end of the field.
LEMMA LoopEnds ==
    ASSUME TypeInv, More, IsNumber(Current), InLoop, toShift <= -8
    PROVE  /\ currByte = End[field] \div 8
           /\ (bitsize + Current.size) % 8 = End[field] % 8
           /\ Handled \in Nat /\ 8 * Handled >= End[field]
<1>1. /\ toShift \in Int /\ currByte \in Nat /\ bitsize \in Nat
      /\ field \in 1 .. Len(layout) /\ InputOK
      /\ Width(field) = Current.size /\ Current.size \in Nat
      /\ Current = layout[field]
  BY AtField DEF TypeInv
<1>2. /\ End[field] \in Nat /\ End[field - 1] \in Nat
      /\ End[field] = End[field - 1] + Current.size
  BY <1>1, Place
<1>3. bitsize % 8 = End[field - 1] % 8
  BY DEF InLoop
<1>4. (bitsize + Current.size) % 8 = End[field] % 8
  <2>1. PICK e \in Nat : e = End[field - 1]
    BY <1>2
  <2>2. PICK s \in Nat : s = Current.size
    BY <1>1
  <2>3. PICK z \in Nat : z = bitsize
    BY <1>1
  <2>4. z % 8 = e % 8
    BY <1>3, <2>1, <2>3
  <2>5. (z + s) % 8 = (e + s) % 8
    BY <2>1, <2>2, <2>3, <2>4, SameRest
  <2> QED
    BY <1>2, <2>1, <2>2, <2>3, <2>5
<1>5. CASE toShift = -8
  <2>1. 8 * (currByte + 1) + toShift = End[field]
    BY <1>5 DEF InLoop
  <2>2. End[field] = 8 * currByte + 0
    BY <1>1, <1>5, <2>1
  <2>3. currByte = End[field] \div 8
    BY <1>1, <1>2, <2>2, SplitUnique
  <2>4. Handled = currByte
    BY <1>5 DEF Handled
  <2>5. Handled \in Nat /\ 8 * Handled >= End[field]
    BY <1>1, <2>2, <2>4
  <2> QED
    BY <1>4, <2>3, <2>5
<1>6. CASE toShift # -8
  <2>1. toShift >= -15 /\ 8 * currByte + 16 + toShift = End[field]
        /\ toShift < -8
    BY <1>1, <1>6 DEF InLoop
  <2>2. 16 + toShift \in 0 .. 7 /\ End[field] = 8 * currByte + (16 + toShift)
    BY <1>1, <2>1
  <2>3. currByte = End[field] \div 8
    <3>1. PICK e \in Nat : e = End[field]
      BY <1>2
    <3>2. PICK r \in 0 .. 7 : r = 16 + toShift
      BY <2>2
    <3>3. PICK c \in Int : c = currByte
      BY <1>1
    <3>4. e = 8 * c + r
      BY <2>2, <3>1, <3>2, <3>3
    <3>5. c = e \div 8
      BY <3>1, <3>2, <3>3, <3>4, SplitUnique
    <3> QED
      BY <3>1, <3>3, <3>5
  <2>4. Handled = currByte + 1
    BY <1>1, <2>1 DEF Handled
  <2>5. Handled \in Nat /\ 8 * Handled >= End[field]
    BY <1>1, <2>2, <2>4
  <2> QED
    BY <1>4, <2>3, <2>5
<1> QED
  BY <1>5, <1>6

----------------------------------------------------------------------------
(* The passes.                                                             *)

\* The bits of the number that a pass of appendBits puts into its octet are
\* the field's bits of that octet.
LEMMA PassBits ==
    ASSUME TypeInv, More, IsNumber(Current), InLoop, toShift > -8,
           NEW b \in 0 .. 7
    PROVE  Pos(currByte, b) \in BitsOf(field) <=> b + toShift \in value[field]
<1>1. /\ toShift \in Int /\ currByte \in Nat /\ InputOK
      /\ field \in 1 .. Len(layout) /\ Current = layout[field]
  BY AtField DEF TypeInv
<1>2. /\ End[field] \in Nat /\ End[field - 1] \in Nat
      /\ Begin(field) = End[field - 1]
  BY <1>1, Place
<1>3. PICK q \in Nat : q = End[field - 1] \div 8
                       /\ Downward(Begin(field)) = 8 * q
  BY <1>2, Around, Split
<1>4. currByte >= q /\ 8 * (currByte + 1) + toShift = End[field]
  BY <1>1, <1>3 DEF InLoop
<1>5. /\ Pos(currByte, b) \in Int
      /\ Pos(currByte, b) >= 8 * q
      /\ End[field] - 1 - Pos(currByte, b) = b + toShift
  <2>1. q \in Nat
    BY <1>3
  <2> QED
    BY <1>1, <1>2, <1>4, <2>1 DEF Pos
<1>6. Pos(currByte, b) \in BitsOf(field) <=>
          /\ Pos(currByte, b) >= Downward(Begin(field))
          /\ End[field] - 1 - Pos(currByte, b) \in value[field]
  BY <1>1, <1>5, NumberBits
<1> QED
  BY <1>3, <1>5, <1>6

\* Shifting.
LEMMA Shifted ==
    ASSUME NEW v \in SUBSET Nat, NEW t \in Int, NEW b \in Nat
    PROVE  /\ t >= 0 => (b \in Shr(v, t) <=> b + t \in v)
           /\ t < 0 => (b \in Shl(v, -t) <=> b + t \in v)
           /\ t >= 0 => (b \in Shl(v, t) <=> b - t \in v)
           /\ t < 0 => (b \in Shr(v, -t) <=> b - t \in v)
<1>1. ASSUME NEW u \in Nat PROVE b \in Shr(v, u) <=> b + u \in v
  <2>1. ASSUME b \in Shr(v, u) PROVE b + u \in v
    <3>1. PICK a \in v : a >= u /\ b = a - u
      BY <2>1 DEF Shr
    <3> QED
      BY <3>1
  <2>2. ASSUME b + u \in v PROVE b \in Shr(v, u)
    <3>1. b + u \in {c \in v : c >= u} /\ b = (b + u) - u
      BY <2>2
    <3> QED
      BY <3>1 DEF Shr
  <2> QED
    BY <2>1, <2>2
<1>2. ASSUME NEW u \in Nat PROVE b \in Shl(v, u) <=> b - u \in v
  <2>1. ASSUME b \in Shl(v, u) PROVE b - u \in v
    <3>1. PICK a \in v : b = a + u
      BY <2>1 DEF Shl
    <3> QED
      BY <3>1
  <2>2. ASSUME b - u \in v PROVE b \in Shl(v, u)
    <3>1. b = (b - u) + u
      OBVIOUS
    <3> QED
      BY <2>2, <3>1 DEF Shl
  <2> QED
    BY <2>1, <2>2
<1>3. CASE t >= 0
  <2>1. t \in Nat /\ ~(t < 0)
    BY <1>3
  <2>2. (b \in Shr(v, t) <=> b + t \in v) /\ (b \in Shl(v, t) <=> b - t \in v)
    BY <2>1, <1>1, <1>2
  <2> QED
    BY <2>1, <2>2
<1>4. CASE t < 0
  <2>1. ~(t >= 0)
    BY <1>4
  <2>2. PICK u \in Nat : u = -t
    BY <1>4
  <2>3. (b \in Shr(v, u) <=> b + u \in v) /\ (b \in Shl(v, u) <=> b - u \in v)
    BY <1>1, <1>2
  <2>4. b + u = b - t /\ b - u = b + t
    BY <2>2
  <2> QED
    BY <2>1, <2>2, <2>3, <2>4
<1> QED
  BY <1>3, <1>4

\* No bit of a field is put in the octets before the one it begins in, nor
\* behind its end.
LEMMA NoBitsBefore ==
    ASSUME InputOK, NEW i \in 1 .. Len(layout), IsNumber(layout[i]),
           NEW k \in Nat, NEW b \in 0 .. 7, k < End[i - 1] \div 8
    PROVE  Pos(k, b) \notin BitsOf(i)
<1>1. /\ End[i - 1] \in Nat /\ Begin(i) = End[i - 1]
  BY Place
<1>2. PICK q \in Nat : q = End[i - 1] \div 8 /\ Downward(Begin(i)) = 8 * q
  BY <1>1, Around, Split
<1>3. k < q /\ Pos(k, b) < 8 * q
  <2>1. k < q
    BY <1>2
  <2>2. Pos(k, b) < 8 * q <=> k < q
    BY PosOctet
  <2> QED
    BY <2>1, <2>2
<1>4. Pos(k, b) \in Nat
  BY PosOctet
<1> QED
  BY <1>2, <1>3, <1>4, BitsBetween

LEMMA NoBitsBehind ==
    ASSUME InputOK, NEW i \in 0 .. Len(layout), NEW h \in Nat,
           8 * h >= End[i],
           NEW k \in Nat, NEW b \in 0 .. 7, k >= h
    PROVE  ~Put(i, Pos(k, b))
<1>1. End[i] \in Nat
  BY EndType
<1>2. Pos(k, b) >= 8 * h /\ Pos(k, b) \in Nat
  BY PosOctet
<1> QED
  BY <1>1, <1>2, PutBelow

----------------------------------------------------------------------------
(* Every step keeps the types.                                             *)

LEMMA AlignedType ==
    ASSUME TypeInv
    PROVE  Aligned \in Nat
BY DEF TypeInv, Aligned

LEMMA SameInputOK ==
    ASSUME TypeInv, UNCHANGED input
    PROVE  /\ InputOK' /\ layout' = layout /\ value' = value
           /\ Len(layout) \in Nat
BY SameInput DEF TypeInv, InputOK, input

LEMMA TypeStep ==
    ASSUME TypeInv, [Next]_vars
    PROVE  TypeInv'
<1>1. CASE BeginAppend
  <2>1. /\ InputOK' /\ layout' = layout
        /\ Current.size \in Nat
    BY <1>1, SameInputOK, AtField DEF BeginAppend
  <2> QED
    BY <1>1, <2>1 DEF BeginAppend, TypeInv, More, Current, loop, packet
<1>2. CASE appendBits
  <2>1. InputOK' /\ layout' = layout
    BY <1>2, SameInputOK DEF appendBits
  <2>2. bytes' \in [Octets -> SUBSET (0 .. 7)]
    BY <1>2 DEF appendBits, TypeInv, packet, Low8
  <2>3. currByte' \in Nat /\ toShift' \in Int
    BY <1>2 DEF appendBits, TypeInv, packet
  <2>4. pc' \in {"panic", "append"} /\ field' = field
        /\ (pc' = "append" => pc = "append")
    BY <1>2 DEF appendBits
  <2> QED
    BY <1>2, <2>1, <2>2, <2>3, <2>4 DEF appendBits, TypeInv, More, Current
<1>3. CASE EndAppend
  <2>1. InputOK' /\ layout' = layout
    BY <1>3, SameInputOK DEF EndAppend
  <2>2. More
    BY <1>3 DEF EndAppend, TypeInv
  <2>3. bitsize' \in Nat /\ field' \in 1 .. Len(layout') + 1
    BY <1>3, <2>1, <2>2, AtField DEF EndAppend, TypeInv
  <2> QED
    BY <1>3, <2>1, <2>3 DEF EndAppend, TypeInv, loop, packet
<1>4. CASE PutBytes
  <2>1. InputOK' /\ layout' = layout
    BY <1>4, SameInputOK DEF PutBytes
  <2>2. PICK v : v = value[field]
    OBVIOUS
  <2>3. v \in Seq(SUBSET (0 .. 7)) /\ field + 1 \in 1 .. Len(layout') + 1
    BY <1>4, <2>1, <2>2, AtField DEF PutBytes
  <2>4. bytes' \in [Octets -> SUBSET (0 .. 7)]
    <3>1. CASE Aligned > BufferSize
      BY <1>4, <3>1 DEF PutBytes, TypeInv, packet
    <3>2. CASE ~(Aligned > BufferSize)
      <4>1. bytes' = [k \in Octets |-> IF k - Aligned + 1 \in DOMAIN v
                                      THEN v[k - Aligned + 1] ELSE bytes[k]]
        BY <1>4, <2>2, <3>2 DEF PutBytes
      <4>2. bytes \in [Octets -> SUBSET (0 .. 7)]
        BY DEF TypeInv
      <4>3. \A x \in DOMAIN v : v[x] \in SUBSET (0 .. 7)
        BY <2>3
      <4> QED
        BY <4>1, <4>2, <4>3
    <3> QED
      BY <3>1, <3>2
  <2>5. currByte' \in Nat /\ bitsize' \in Nat /\ field' \in 1 .. Len(layout') + 1
        /\ pc' \in {"panic", "encode"}
    <3>1. Aligned + Len(v) \in Nat
      BY <2>3, AlignedType
    <3> QED
      BY <1>4, <2>1, <2>2, <2>3, <3>1 DEF PutBytes, TypeInv, packet
  <2> QED
    BY <1>4, <2>1, <2>4, <2>5 DEF PutBytes, TypeInv, loop
<1>5. CASE EndEncode
  <2>1. InputOK' /\ layout' = layout /\ Aligned \in Nat
    BY <1>5, SameInputOK, AlignedType DEF EndEncode
  <2> QED
    BY <1>5, <2>1 DEF EndEncode, TypeInv, loop
<1>6. CASE Read
  <2>1. InputOK' /\ layout' = layout /\ Len(layout) \in Nat
    BY <1>6, SameInputOK DEF Read
  <2>2. bytes' \in [Octets -> SUBSET (0 .. 7)]
    BY <1>6 DEF Read, TypeInv
  <2>3. received' \in Nat /\ 1 \in 1 .. Len(layout) + 1
    BY <1>6, <2>1 DEF Read, TypeInv
  <2> QED
    BY <1>6, <2>1, <2>2, <2>3 DEF Read, TypeInv, loop
<1>7. CASE BeginDetach
  <2>1. InputOK' /\ layout' = layout /\ Current.size \in Nat
    BY <1>7, SameInputOK, AtField DEF BeginDetach
  <2>2. bitsize \in Nat /\ bitsize % 8 \in 0 .. 7
    BY Split DEF TypeInv
  <2> QED
    BY <1>7, <2>1, <2>2 DEF BeginDetach, TypeInv, More, Current, packet
<1>8. CASE detachBits
  <2>1. InputOK' /\ layout' = layout
    BY <1>8, SameInputOK DEF detachBits
  <2>2. toShift' \in Int /\ preUnavil' \in 0 .. 7 /\ currByte' \in Nat
        /\ pc' \in {"panic", "detach"}
    BY <1>8 DEF detachBits, TypeInv, loop
  <2> QED
    BY <1>8, <2>1, <2>2 DEF detachBits, TypeInv, More, Current
<1>9. CASE EndDetach
  <2>1. InputOK' /\ layout' = layout
    BY <1>9, SameInputOK DEF EndDetach
  <2>2. More
    BY <1>9 DEF EndDetach, TypeInv
  <2>3. bitsize' \in Nat /\ field' \in 1 .. Len(layout') + 1
        /\ pc' \in {"error", "decode"}
    BY <1>9, <2>1, <2>2, AtField DEF EndDetach, TypeInv
  <2>4. DOMAIN out' = DOMAIN layout'
    BY <1>9, <2>1 DEF EndDetach, TypeInv
  <2> QED
    BY <1>9, <2>1, <2>3, <2>4 DEF EndDetach, TypeInv, loop, packet
<1>10. CASE TakeBytes
  <2>1. InputOK' /\ layout' = layout
    BY <1>10, SameInputOK DEF TakeBytes
  <2>2. Current.size \in Nat /\ field + 1 \in 1 .. Len(layout') + 1
    BY <1>10, <2>1, AtField DEF TakeBytes
  <2>3. currByte' \in Nat /\ bitsize' \in Nat
        /\ pc' \in {"panic", "decode"} /\ field' \in 1 .. Len(layout') + 1
    <3>1. Aligned \in Nat
      BY AlignedType
    <3>2. currByte' \in Nat
      BY <1>10, <2>2, <3>1 DEF TakeBytes, TypeInv
    <3>3. bitsize' \in Nat
      BY <1>10 DEF TakeBytes, TypeInv
    <3>4. pc' \in {"panic", "decode"} /\ field' \in 1 .. Len(layout') + 1
      BY <1>10, <2>1, <2>2 DEF TakeBytes, TypeInv
    <3> QED
      BY <3>2, <3>3, <3>4
  <2>4. DOMAIN out' = DOMAIN layout'
    BY <1>10, <2>1 DEF TakeBytes, TypeInv
  <2> QED
    BY <1>10, <2>1, <2>3, <2>4 DEF TakeBytes, TypeInv, loop
<1>11. CASE EndDecode
  <2>1. InputOK' /\ layout' = layout /\ Aligned \in Nat
    BY <1>11, SameInputOK, AlignedType DEF EndDecode
  <2> QED
    BY <1>11, <2>1 DEF EndDecode, TypeInv, loop
<1>12. CASE UNCHANGED vars
  <2>1. InputOK' /\ layout' = layout
    BY <1>12, SameInputOK DEF vars
  <2> QED
    BY <1>12, <2>1 DEF vars, TypeInv, More, Current, loop, packet
<1> QED
  BY <1>1, <1>2, <1>3, <1>4, <1>5, <1>6, <1>7, <1>8, <1>9, <1>10, <1>11,
     <1>12 DEF Next

----------------------------------------------------------------------------
(* encode.                                                                 *)

LEMMA BeginAppendStep ==
    ASSUME TypeInv, PacketInv, CursorInv, BeginAppend
    PROVE  PacketInv' /\ CursorInv' /\ OutInv'
<1>1. pc = "encode" /\ More /\ IsNumber(Current) /\ pc' \in {"append", "error"}
  BY DEF BeginAppend
<1>2. UNCHANGED <<input, field, bitsize, currByte, bytes>>
      /\ toShift' = Current.size + (bitsize % 8) - 8
  BY DEF BeginAppend, packet
<1>3. LaidTo(field - 1)
  BY <1>1 DEF CursorInv
<1>4. InLoop' /\ Handled' = currByte
  BY <1>1, <1>2, <1>3, LoopBegins
<1>5. ASSUME NEW k \in Octets, NEW b \in 0 .. 7, k < currByte
      PROVE  Pos(k, b) \notin BitsOf(field)
  <2>1. /\ k \in Nat /\ InputOK /\ field \in 1 .. Len(layout)
        /\ IsNumber(layout[field])
    BY <1>1, AtField DEF TypeInv, Octets
  <2>2. k < End[field - 1] \div 8
    BY <1>3, <1>5 DEF LaidTo
  <2> QED
    BY <2>1, <2>2, NoBitsBefore
<1>6. ASSUME NEW k \in Octets
      PROVE  bytes'[k] = {b \in 0 .. 7 : Put(field - 1, Pos(k, b))' \/
                 (k < Handled' /\ Pos(k, b) \in BitsOf(field)')}
  <2>1. bytes'[k] = {b \in 0 .. 7 : Put(field - 1, Pos(k, b))}
    BY <1>1, <1>2 DEF PacketInv, Packed
  <2>2. \A b \in 0 .. 7 : Put(field - 1, Pos(k, b))' <=> Put(field - 1, Pos(k, b))
    BY <1>2, SameInput
  <2>3. BitsOf(field)' = BitsOf(field)
    BY <1>2, SameInput
  <2> QED
    BY <1>4, <1>5, <2>1, <2>2, <2>3
<1>7. PacketInv'
  BY <1>1, <1>6 DEF PacketInv
<1> QED
  BY <1>1, <1>4, <1>7 DEF CursorInv, OutInv

LEMMA appendBitsStep ==
    ASSUME TypeInv, PacketInv, CursorInv, appendBits
    PROVE  PacketInv' /\ CursorInv' /\ OutInv'
<1>1. CASE currByte \notin Octets
  <2>1. pc' = "panic"
    BY <1>1 DEF appendBits
  <2> QED
    BY <2>1 DEF PacketInv, CursorInv, OutInv
<1>2. CASE currByte \in Octets
  <2>1. /\ pc = "append" /\ pc' = "append" /\ toShift > -8
        /\ toShift' = toShift - 8
        /\ currByte' = IF toShift >= 0 THEN currByte + 1 ELSE currByte
        /\ UNCHANGED <<input, field, bitsize>>
    BY <1>2 DEF appendBits
  <2>2. More /\ IsNumber(Current) /\ InLoop /\ currByte \in Nat
        /\ toShift \in Int /\ bytes \in [Octets -> SUBSET (0 .. 7)]
    BY <2>1 DEF TypeInv, CursorInv
  <2>3. InLoop' /\ Handled = currByte /\ Handled' = currByte + 1
    BY <2>1, <2>2, LoopPass
  <2>4. value[field] \in SUBSET Nat
    <3>1. field \in DOMAIN layout /\ IsNumber(layout[field])
      BY <2>2, AtField DEF TypeInv, InputOK
    <3> QED
      BY <3>1 DEF TypeInv, InputOK
  <2>5. bytes' = [bytes EXCEPT ![currByte] = @ \cup
                    Low8(IF toShift >= 0 THEN Shr(value[field], toShift)
                                         ELSE Shl(value[field], -toShift))]
    BY <1>2 DEF appendBits
  <2>6. ASSUME NEW b \in 0 .. 7
        PROVE  b \in Low8(IF toShift >= 0 THEN Shr(value[field], toShift)
                                          ELSE Shl(value[field], -toShift))
               <=> Pos(currByte, b) \in BitsOf(field)
    <3>1. b + toShift \in value[field] <=> Pos(currByte, b) \in BitsOf(field)
      BY <2>1, <2>2, PassBits
    <3>2. b \in Nat
      OBVIOUS
    <3>3. CASE toShift >= 0
      <4>1. b \in Shr(value[field], toShift) <=> b + toShift \in value[field]
        BY <2>2, <2>4, <3>2, <3>3, Shifted
      <4> QED
        BY <3>1, <3>3, <4>1 DEF Low8
    <3>4. CASE toShift < 0
      <4>1. b \in Shl(value[field], -toShift) <=> b + toShift \in value[field]
        BY <2>2, <2>4, <3>2, <3>4, Shifted
      <4>2. ~(toShift >= 0)
        BY <2>2, <3>4
      <4> QED
        BY <3>1, <4>1, <4>2 DEF Low8
    <3> QED
      BY <2>2, <3>3, <3>4
  <2>7. ASSUME NEW k \in Octets, NEW b \in 0 .. 7
        PROVE  b \in bytes'[k] <=> \/ Put(field - 1, Pos(k, b))
                                   \/ k < currByte + 1 /\ Pos(k, b) \in BitsOf(field)
    <3>1. b \in bytes[k] <=> \/ Put(field - 1, Pos(k, b))
                             \/ k < currByte /\ Pos(k, b) \in BitsOf(field)
      BY <2>1, <2>3 DEF PacketInv
    <3>2. k \in Nat
      BY DEF Octets
    <3>3. CASE k = currByte
      <4>1. b \in bytes'[k] <=> b \in bytes[k] \/ Pos(k, b) \in BitsOf(field)
        BY <1>2, <2>2, <2>5, <2>6, <3>3
      <4> QED
        BY <2>2, <3>1, <3>3, <4>1
    <3>4. CASE k # currByte
      <4>1. bytes'[k] = bytes[k]
        BY <2>2, <2>5, <3>4
      <4>2. k < currByte + 1 <=> k < currByte
        BY <2>2, <3>2, <3>4
      <4> QED
        BY <3>1, <4>1, <4>2
    <3> QED
      BY <3>3, <3>4
  <2>8. ASSUME NEW k \in Octets
        PROVE  bytes'[k] = {b \in 0 .. 7 : Put(field - 1, Pos(k, b))' \/
                   (k < Handled' /\ Pos(k, b) \in BitsOf(field)')}
    <3>1. bytes'[k] \subseteq 0 .. 7
      BY <2>1, TypeStep DEF TypeInv, Next
    <3>2. \A b \in 0 .. 7 :
              Put(field - 1, Pos(k, b))' <=> Put(field - 1, Pos(k, b))
      BY <2>1, SameInput
    <3>3. BitsOf(field)' = BitsOf(field)
      BY <2>1, SameInput
    <3> QED
      BY <2>3, <2>7, <3>1, <3>2, <3>3
  <2>9. PacketInv'
    BY <2>1, <2>8 DEF PacketInv
  <2> QED
    BY <2>1, <2>3, <2>9 DEF CursorInv, OutInv
<1> QED
  BY <1>1, <1>2

LEMMA EndAppendStep ==
    ASSUME TypeInv, PacketInv, CursorInv, EndAppend
    PROVE  PacketInv' /\ CursorInv' /\ OutInv'
<1>1. /\ pc = "append" /\ pc' = "encode" /\ toShift <= -8 /\ field' = field + 1
      /\ bitsize' = bitsize + Current.size /\ UNCHANGED <<input, bytes, currByte>>
  BY DEF EndAppend, packet
<1>2. More /\ IsNumber(Current) /\ InLoop /\ InputOK
  BY <1>1 DEF TypeInv, CursorInv
<1>3. /\ currByte = End[field] \div 8
      /\ (bitsize + Current.size) % 8 = End[field] % 8
      /\ Handled \in Nat /\ 8 * Handled >= End[field]
  BY <1>1, <1>2, LoopEnds
<1>4. field \in 1 .. Len(layout) /\ field \in 0 .. Len(layout)
      /\ field \in Nat \ {0} /\ field' - 1 = field
  BY <1>1, <1>2, AtField
<1>5. LaidTo(field - 1)'
  BY <1>1, <1>3, <1>4, SameInput DEF LaidTo
<1>6. ASSUME NEW k \in Octets
      PROVE  bytes'[k] = Packed(k, field - 1)'
  <2>1. bytes[k] = {b \in 0 .. 7 : Put(field - 1, Pos(k, b)) \/
                       (k < Handled /\ Pos(k, b) \in BitsOf(field))}
    BY <1>1 DEF PacketInv
  <2>2. ASSUME NEW b \in 0 .. 7
        PROVE  /\ Put(field, Pos(k, b)) <=>
                     Put(field - 1, Pos(k, b)) \/ Pos(k, b) \in BitsOf(field)
               /\ k >= Handled => ~Put(field, Pos(k, b))
    BY <1>2, <1>3, <1>4, PutNext, NoBitsBehind DEF Octets
  <2>3. k < Handled \/ k >= Handled
    BY <1>3 DEF Octets
  <2>4. bytes[k] = {b \in 0 .. 7 : Put(field, Pos(k, b))}
    BY <2>1, <2>2, <2>3
  <2> QED
    BY <1>1, <1>4, <2>4, SameInput DEF Packed
<1>7. PacketInv'
  BY <1>1, <1>6 DEF PacketInv
<1> QED
  BY <1>1, <1>5, <1>7 DEF CursorInv, OutInv

\* The octets of a slice begin at the first whole octet, where no field has
\* put a bit yet.
LEMMA BytesAt ==
    ASSUME TypeInv, More, ~IsNumber(Current), LaidTo(field - 1),
           NEW k \in Nat, NEW b \in 0 .. 7
    PROVE  /\ Pos(k, b) \in BitsOf(field) <=>
                  /\ k - Aligned + 1 \in DOMAIN value[field]
                  /\ b \in value[field][k - Aligned + 1]
           /\ k - Aligned + 1 \in DOMAIN value[field] =>
                  ~Put(field - 1, Pos(k, b))
           /\ Begin(field) = 8 * Aligned /\ Aligned \in Nat
           /\ End[field] = 8 * (Aligned + Len(value[field])) + 0
           /\ End[field] \in Nat /\ Len(value[field]) \in Nat
<1>1. /\ field \in 1 .. Len(layout) /\ field - 1 \in 0 .. Len(layout)
      /\ ~IsNumber(layout[field]) /\ value[field] \in Seq(SUBSET (0 .. 7))
      /\ Width(field) = 8 * Len(value[field]) /\ InputOK
  BY AtField DEF TypeInv
<1>2. /\ Aligned \in Nat /\ 8 * Aligned = Upward(End[field - 1])
      /\ Upward(End[field - 1]) \div 8 = Aligned
  BY <1>1, AlignedIs
<1>3. /\ Begin(field) = Upward(End[field - 1]) /\ End[field - 1] \in Nat
      /\ End[field] = Begin(field) + Width(field) /\ End[field] \in Nat
      /\ End[field - 1] <= Begin(field)
  BY <1>1, Place
<1>4. Begin(field) = 8 * Aligned
  BY <1>2, <1>3
<1>5. Pos(k, b) \in BitsOf(field) <=>
          /\ k - Aligned + 1 \in DOMAIN value[field]
          /\ b \in value[field][k - Aligned + 1]
  <2>1. PICK a \in Nat : a = Aligned
    BY <1>2
  <2>2. PICK i \in 1 .. Len(layout) : i = field
    BY <1>1
  <2>3. ~IsNumber(layout[i]) /\ Begin(i) = 8 * a /\ k \in Int /\ InputOK
    BY <1>1, <1>4, <2>1, <2>2
  <2>4. Pos(k, b) \in BitsOf(i) <=> /\ k - a + 1 \in DOMAIN value[i]
                                   /\ b \in value[i][k - a + 1]
    BY <2>3, SliceBits
  <2> QED
    BY <2>1, <2>2, <2>4
<1>6. ASSUME k - Aligned + 1 \in DOMAIN value[field]
      PROVE  ~Put(field - 1, Pos(k, b))
  <2>1. k >= Aligned
    BY <1>1, <1>2, <1>6
  <2>2. 8 * Aligned >= End[field - 1]
    BY <1>3, <1>4
  <2> QED
    BY <1>1, <1>2, <2>1, <2>2, NoBitsBehind
<1>7. Len(value[field]) \in Nat
  BY <1>1
<1>8. End[field] = 8 * (Aligned + Len(value[field])) + 0
  <2>1. PICK a \in Nat : a = Aligned
    BY <1>2
  <2>2. PICK l \in Nat : l = Len(value[field])
    BY <1>7
  <2>3. End[field] = 8 * a + 8 * l
    BY <1>1, <1>3, <1>4, <2>1, <2>2
  <2>4. 8 * a + 8 * l = 8 * (a + l) + 0
    OBVIOUS
  <2> QED
    BY <2>1, <2>2, <2>3, <2>4
<1> QED
  BY <1>2, <1>3, <1>4, <1>5, <1>6, <1>7, <1>8

LEMMA PutBytesStep ==
    ASSUME TypeInv, PacketInv, CursorInv, PutBytes
    PROVE  PacketInv' /\ CursorInv' /\ OutInv'
<1>1. CASE Aligned > BufferSize
  <2>1. pc' = "panic"
    BY <1>1 DEF PutBytes
  <2> QED
    BY <2>1 DEF PacketInv, CursorInv, OutInv
<1>2. CASE ~(Aligned > BufferSize)
  <2>1. PICK v : v = value[field]
    OBVIOUS
  <2>2. /\ pc = "encode" /\ pc' = "encode" /\ More /\ ~IsNumber(Current)
        /\ bytes' = [k \in Octets |-> IF k - Aligned + 1 \in DOMAIN v
                                     THEN v[k - Aligned + 1] ELSE bytes[k]]
        /\ currByte' = Aligned + Len(v)
        /\ bitsize' = IF bitsize % 8 # 0 THEN 0 ELSE bitsize
        /\ field' = field + 1 /\ UNCHANGED input
    BY <1>2, <2>1 DEF PutBytes
  <2>3. LaidTo(field - 1)
    BY <2>2 DEF CursorInv
  <2>4. field \in Nat \ {0} /\ field' - 1 = field /\ v \in Seq(SUBSET (0 .. 7))
    <3>1. More /\ ~IsNumber(Current)
      BY <2>2
    <3>2. field \in Nat \ {0} /\ v \in Seq(SUBSET (0 .. 7))
      BY <2>1, <3>1, AtField
    <3>3. field' = field + 1
      BY <2>2
    <3> QED
      BY <3>2, <3>3
  <2>5. LaidTo(field - 1)'
    <3>1. /\ Aligned \in Nat /\ Len(v) \in Nat /\ End[field] \in Nat
          /\ End[field] = 8 * (Aligned + Len(v)) + 0
      BY <2>1, <2>2, <2>3, BytesAt, SMT
    <3>2. Aligned + Len(v) = End[field] \div 8 /\ 0 = End[field] % 8
      BY <3>1, SplitUnique
    <3>3. bitsize' % 8 = 0
      <4>1. CASE bitsize % 8 = 0
        BY <2>2, <4>1
      <4>2. CASE bitsize % 8 # 0
        <5>1. bitsize' = 0
          BY <2>2, <4>2
        <5> QED
          BY <5>1
      <4> QED
        BY <4>1, <4>2
    <3>4. End'[field' - 1] = End[field]
      BY <2>2, <2>4, SameInput
    <3> QED
      BY <2>2, <3>2, <3>3, <3>4 DEF LaidTo
  <2>6. ASSUME NEW k \in Octets
        PROVE  bytes'[k] = Packed(k, field - 1)'
    <3>1. k \in Nat
      BY DEF Octets
    <3>2. bytes[k] = {b \in 0 .. 7 : Put(field - 1, Pos(k, b))}
      BY <2>2 DEF PacketInv, Packed
    <3>3. ASSUME NEW b \in 0 .. 7
          PROVE  /\ Put(field, Pos(k, b)) <=>
                       Put(field - 1, Pos(k, b)) \/ Pos(k, b) \in BitsOf(field)
                 /\ Pos(k, b) \in BitsOf(field) <=>
                        k - Aligned + 1 \in DOMAIN v /\ b \in v[k - Aligned + 1]
                 /\ k - Aligned + 1 \in DOMAIN v => ~Put(field - 1, Pos(k, b))
      <4>1. Put(field, Pos(k, b)) <=>
                Put(field - 1, Pos(k, b)) \/ Pos(k, b) \in BitsOf(field)
        BY <2>4, PutNext
      <4> QED
        BY <2>1, <2>2, <2>3, <3>1, <4>1, BytesAt
    <3>4. bytes'[k] = {b \in 0 .. 7 : Put(field, Pos(k, b))}
      <4>1. CASE k - Aligned + 1 \in DOMAIN v
        <5>1. bytes'[k] = v[k - Aligned + 1]
          BY <2>2, <4>1
        <5>2. v[k - Aligned + 1] \subseteq 0 .. 7
          BY <2>4, <4>1
        <5> QED
          BY <3>3, <4>1, <5>1, <5>2
      <4>2. CASE k - Aligned + 1 \notin DOMAIN v
        <5>1. bytes'[k] = bytes[k]
          BY <2>2, <4>2
        <5> QED
          BY <3>2, <3>3, <4>2, <5>1
      <4> QED
        BY <4>1, <4>2
    <3> QED
      BY <2>2, <2>4, <3>4, SameInput DEF Packed
  <2>7. PacketInv'
    BY <2>2, <2>6 DEF PacketInv
  <2> QED
    BY <2>2, <2>5, <2>7 DEF CursorInv, OutInv
<1> QED
  BY <1>1, <1>2

\* The packet ends behind the last field.
LEMMA AtEnd ==
    ASSUME TypeInv, ~More, LaidTo(field - 1)
    PROVE  Aligned = PacketOctets /\ field - 1 = Len(layout)
<1>1. field - 1 = Len(layout) /\ Len(layout) \in 0 .. Len(layout)
  BY DEF TypeInv, More, InputOK
<1> QED
  BY <1>1, AlignedIs DEF PacketOctets

LEMMA EndEncodeStep ==
    ASSUME TypeInv, PacketInv, CursorInv, EndEncode
    PROVE  PacketInv' /\ CursorInv' /\ OutInv'
<1>1. /\ pc = "encode" /\ ~More /\ currByte' = Aligned
      /\ pc' = IF Aligned > BufferSize THEN "panic" ELSE "sent"
      /\ UNCHANGED <<input, field, bytes>>
  BY DEF EndEncode
<1>2. Aligned = PacketOctets /\ field - 1 = Len(layout)
  BY <1>1, AtEnd DEF CursorInv
<1>3. PacketOctets' = PacketOctets /\ layout' = layout
  BY <1>1, SameInput, SameInputOK DEF PacketOctets
<1>4. ASSUME NEW k \in Octets
      PROVE  pc' = "sent" => bytes'[k] = Packed(k, Len(layout))'
  <2>1. bytes'[k] = Packed(k, field - 1)
    BY <1>1 DEF PacketInv
  <2> QED
    BY <1>1, <1>2, <1>3, <2>1, SameInput DEF Packed
<1>5. PacketInv'
  BY <1>1, <1>4 DEF PacketInv
<1>6. pc' = "sent" => currByte' = PacketOctets' /\ currByte' <= BufferSize
  BY <1>1, <1>2, <1>3, AlignedType, CodecConstants
<1> QED
  BY <1>1, <1>5, <1>6 DEF CursorInv, OutInv

LEMMA ReadStep ==
    ASSUME TypeInv, PacketInv, CursorInv, Read
    PROVE  PacketInv' /\ CursorInv' /\ OutInv'
<1>1. /\ pc = "sent" /\ pc' = "decode" /\ field' = 1 /\ UNCHANGED input
      /\ bytes' = [k \in Octets |-> IF k < received' THEN bytes[k] ELSE {}]
      /\ currByte' = 0 /\ bitsize' = 0 /\ received' \in 1 .. currByte
  BY DEF Read
<1>2. layout' = layout
  BY <1>1, SameInputOK
<1>3. ASSUME NEW k \in Octets
      PROVE  bytes'[k] = IF k < received' THEN Packed(k, Len(layout))' ELSE {}
  <2>1. bytes[k] = Packed(k, Len(layout))
    BY <1>1 DEF PacketInv
  <2>2. Packed(k, Len(layout))' = Packed(k, Len(layout))
    BY <1>1, <1>2, SameInput DEF Packed
  <2> QED
    BY <1>1, <2>1, <2>2
<1>4. PacketInv'
  BY <1>1, <1>3 DEF PacketInv
<1>5. received' <= PacketOctets' /\ received' <= BufferSize
  <2>1. PacketOctets' = PacketOctets
    BY <1>1, <1>2, SameInput DEF PacketOctets
  <2> QED
    BY <1>1, <2>1, CodecConstants DEF CursorInv, TypeInv
<1>6. LaidTo(field - 1)'
  <2>1. End[0] = 0 /\ End' = End
    BY <1>1, EndIs, SameInput DEF TypeInv
  <2>2. End'[field' - 1] = 0
    BY <1>1, <2>1
  <2> QED
    BY <1>1, <2>2 DEF LaidTo
<1>7. OutInv'
  BY <1>1 DEF OutInv
<1> QED
  BY <1>1, <1>4, <1>5, <1>6, <1>7 DEF CursorInv

----------------------------------------------------------------------------
(* decode.                                                                 *)

\* What is said of the layout alone does not change.
LEMMA SameLayout ==
    ASSUME UNCHANGED input
    PROVE  /\ \A m : Synced(m)' <=> Synced(m)
           /\ \A i : Spoiled(i)' <=> Spoiled(i)
           /\ PacketOctets' = PacketOctets
<1>1. layout' = layout /\ value' = value
  BY DEF input
<1>2. \A m : Synced(m)' <=> Synced(m)
  BY SameInput DEF Synced
<1>3. \A i : Spoiled(i)' <=> Spoiled(i)
  <2>1. \A i : Begin(i)' = Begin(i) /\ BitsOf(i)' = BitsOf(i) /\ End' = End
    BY SameInput
  <2> QED
    BY <1>1, <2>1 DEF Spoiled
<1>4. PacketOctets' = PacketOctets
  BY <1>1, SameInput DEF PacketOctets
<1> QED
  BY <1>2, <1>3, <1>4

\* The packet is read and not written.
LEMMA PacketSame ==
    ASSUME PacketInv, TypeInv, pc \in {"decode", "detach", "done"},
           pc' \in {"decode", "detach", "done", "error", "panic"},
           UNCHANGED <<input, bytes, received>>
    PROVE  PacketInv'
<1>1. ASSUME NEW k \in Octets
      PROVE  bytes'[k] = IF k < received' THEN Packed(k, Len(layout))' ELSE {}
  <2>1. bytes[k] = IF k < received THEN Packed(k, Len(layout)) ELSE {}
    BY DEF PacketInv
  <2>2. layout' = layout
    BY SameInputOK
  <2>3. Packed(k, Len(layout))' = Packed(k, Len(layout))
    BY <2>2, SameInput DEF Packed
  <2> QED
    BY <2>1, <2>3
<1> QED
  BY <1>1 DEF PacketInv

\* A field more is decoded.
LEMMA OutStep ==
    ASSUME TypeInv, OutInv, More, pc \in {"decode", "detach"},
           UNCHANGED <<input, received>>, field' = field + 1,
           \A i \in 1 .. field - 1 : out'[i] = out[i],
           Synced(field) /\ Fits(field) /\ ~Spoiled(field)
               /\ End[field] <= 8 * received => out'[field] = value[field]
    PROVE  OutInv'
<1> SUFFICES ASSUME NEW i \in 1 .. field' - 1,
                    Synced(i)', Fits(i)', ~Spoiled(i)', (End[i] <= 8 * received)'
             PROVE  (out[i] = value[i])'
  BY DEF OutInv
<1>1. /\ Synced(i) /\ Fits(i) /\ ~Spoiled(i) /\ End[i] <= 8 * received
      /\ value' = value
  BY SameLayout, SameInput, SameInputOK
<1>2. i \in 1 .. field - 1 \/ i = field
  BY AtField
<1>3. CASE i \in 1 .. field - 1
  BY <1>1, <1>3 DEF OutInv
<1>4. CASE i = field
  BY <1>1, <1>4
<1> QED
  BY <1>2, <1>3, <1>4

\* Nothing more is decoded.
LEMMA OutSame ==
    ASSUME TypeInv, OutInv, pc \in {"decode", "detach", "done"},
           UNCHANGED <<input, received, field, out>>
    PROVE  OutInv'
<1> SUFFICES ASSUME NEW i \in 1 .. field - 1,
                    Synced(i)', Fits(i)', ~Spoiled(i)', (End[i] <= 8 * received)'
             PROVE  (out[i] = value[i])'
  BY DEF OutInv
<1>1. /\ Synced(i) /\ Fits(i) /\ ~Spoiled(i) /\ End[i] <= 8 * received
      /\ value' = value
  BY SameLayout, SameInput, SameInputOK
<1> QED
  BY <1>1 DEF OutInv

\* Where no other field has put a bit, the packet has the field's.
LEMMA Unspoiled ==
    ASSUME InputOK, NEW i \in 1 .. Len(layout), ~Spoiled(i),
           NEW p \in Begin(i) .. End[i] - 1
    PROVE  Put(Len(layout), p) <=> p \in BitsOf(i)
<1>1. DOMAIN layout = 1 .. Len(layout)
  BY DEF InputOK
<1> QED
  BY <1>1 DEF Put, Spoiled

LEMMA BeginDetachStep ==
    ASSUME TypeInv, PacketInv, CursorInv, OutInv, BeginDetach
    PROVE  PacketInv' /\ CursorInv' /\ OutInv'
<1>1. /\ pc = "decode" /\ pc' = "detach" /\ More /\ IsNumber(Current)
      /\ preUnavil' = bitsize % 8 /\ n' = {}
      /\ toShift' = Current.size + (bitsize % 8) - 8
      /\ UNCHANGED <<input, field, bitsize, bytes, currByte, received, out>>
  BY DEF BeginDetach, packet
<1>2. ASSUME Synced(field - 1) PROVE InLoop' /\ Unmasked' /\ n' = Taken'
  <2>1. LaidTo(field - 1)
    BY <1>1, <1>2 DEF CursorInv
  <2>2. InLoop' /\ Handled' = currByte
    BY <1>1, <2>1, LoopBegins
  <2>3. /\ Begin(field) = 8 * currByte + preUnavil' /\ Begin(field) \in Nat
        /\ 8 * currByte <= Begin(field)
    <3>1. /\ field \in 1 .. Len(layout) /\ InputOK /\ IsNumber(layout[field])
      BY <1>1, AtField DEF TypeInv
    <3>2. PICK e \in Nat : e = End[field - 1] /\ Begin(field) = e
      BY <3>1, Place
    <3>3. PICK r \in 0 .. 7 : r = e % 8 /\ e = 8 * (e \div 8) + r
      BY Split
    <3>4. currByte = e \div 8 /\ preUnavil' = r
      BY <1>1, <2>1, <3>2, <3>3 DEF LaidTo
    <3>5. currByte \in Nat /\ r \in 0 .. 7 /\ e = 8 * currByte + r
      BY <3>3, <3>4 DEF TypeInv
    <3>6. 8 * currByte <= e
      BY <3>5
    <3> QED
      BY <3>2, <3>4, <3>5, <3>6
  <2>4. Begin(field)' = Begin(field) /\ currByte' = currByte
    BY <1>1, SameInput
  <2>5. Unmasked'
    BY <2>3, <2>4 DEF Unmasked
  <2>6. Taken' = {}
    <3>1. currByte \in Nat
      BY DEF TypeInv
    <3>2. ASSUME NEW p \in Int, p >= Begin(field)', p < 8 * Handled'
          PROVE  FALSE
      <4>1. p >= Begin(field) /\ p < 8 * currByte
        BY <2>2, <2>4, <3>2
      <4> QED
        BY <2>3, <3>1, <3>2, <4>1
    <3>3. End[field]' \in Nat
      <4>1. End[field] \in Nat
        BY <1>1, AtField, Place DEF TypeInv
      <4> QED
        BY <1>1, <4>1, SameInput
    <3>4. \A x \in Nat : End[field]' - 1 - x \in Int
      BY <3>3
    <3> QED
      BY <3>2, <3>4 DEF Taken
  <2> QED
    BY <1>1, <2>2, <2>5, <2>6
<1>3. CursorInv'
  BY <1>1, <1>2, SameLayout DEF CursorInv
<1>4. PacketInv'
  BY <1>1, PacketSame
<1>5. OutInv'
  BY <1>1, OutSame
<1> QED
  BY <1>3, <1>4, <1>5

\* The place of a bit of the number in the octet a pass of detachBits takes.
LEMMA PassTakes ==
    ASSUME TypeInv, More, InLoop, Unmasked, toShift > -8, NEW x \in Nat
    PROVE  /\ x - toShift \in 0 .. 7 - preUnavil <=>
                  /\ End[field] - 1 - x >= Begin(field)
                  /\ End[field] - 1 - x >= 8 * currByte
                  /\ End[field] - 1 - x < 8 * (currByte + 1)
           /\ x - toShift \in 0 .. 7 - preUnavil => x - toShift \in 0 .. 7
           /\ End[field] - 1 - x = Pos(currByte, x - toShift)
<1>1. /\ toShift \in Int /\ currByte \in Nat /\ preUnavil \in 0 .. 7
      /\ field \in 1 .. Len(layout) /\ InputOK
  BY AtField DEF TypeInv
<1>2. PICK e \in Nat : e = End[field]
  BY <1>1, Place
<1>3. PICK g \in Nat : g = Begin(field)
  BY <1>1, Place
<1>4. PICK c \in Nat : c = currByte
  BY <1>1
<1>5. PICK t \in Int : t = toShift
  BY <1>1
<1>6. PICK u \in 0 .. 7 : u = preUnavil
  BY <1>1
<1>7. 8 * (c + 1) + t = e /\ t > -8
  BY <1>1, <1>2, <1>4, <1>5 DEF InLoop
<1>8. g = 8 * c + u \/ (u = 0 /\ g <= 8 * c)
  BY <1>3, <1>4, <1>5, <1>6, <1>7 DEF Unmasked
<1>9. /\ x - t \in 0 .. 7 - u <=> /\ e - 1 - x >= g
                                  /\ e - 1 - x >= 8 * c
                                  /\ e - 1 - x < 8 * (c + 1)
      /\ x - t \in 0 .. 7 - u => x - t \in 0 .. 7
      /\ e - 1 - x = Pos(c, x - t)
  <2>1. c \in Nat /\ g \in Nat /\ e \in Nat /\ u \in 0 .. 7 /\ t \in Int
    BY <1>2, <1>3, <1>4, <1>5, <1>6
  <2> QED
    BY <1>7, <1>8, <2>1 DEF Pos
<1> QED
  BY <1>2, <1>3, <1>4, <1>5, <1>6, <1>9

\* A pass of detachBits adds the bits of its octet.
LEMMA PassAdds ==
    ASSUME TypeInv, PacketInv, CursorInv, detachBits, Synced(field - 1),
           currByte < received
    PROVE  InLoop' /\ Unmasked' /\ n' = Taken'
<1>1. PICK specific : specific = bytes[currByte] \cap (0 .. 7 - preUnavil)
  OBVIOUS
<1>2. /\ pc = "detach" /\ toShift > -8
      /\ n' = n \cup IF toShift >= 0 THEN Shl(specific, toShift)
                                     ELSE Shr(specific, -toShift)
      /\ currByte' = IF toShift >= 0 THEN currByte + 1 ELSE currByte
      /\ toShift' = toShift - 8 /\ preUnavil' = 0
      /\ UNCHANGED <<input, field, bitsize, bytes, received, out>>
  <2>1. ~(currByte >= received)
    BY DEF TypeInv
  <2> QED
    BY <1>1, <2>1 DEF detachBits
<1>3. /\ More /\ IsNumber(Current) /\ InLoop /\ Unmasked /\ n = Taken
      /\ toShift \in Int /\ currByte \in Nat /\ preUnavil \in 0 .. 7
      /\ InputOK /\ field \in 1 .. Len(layout)
  BY <1>2, AtField DEF TypeInv, CursorInv
<1>4. InLoop' /\ Handled = currByte /\ Handled' = currByte + 1
  BY <1>2, <1>3, LoopPass
<1>5. End[field]' = End[field] /\ Begin(field)' = Begin(field)
      /\ layout' = layout /\ End[field] \in Nat /\ Begin(field) \in Nat
  BY <1>2, <1>3, SameInput, SameInputOK, Place
<1>6. Unmasked'
  <2>1. toShift' > -8 => currByte' = currByte + 1 /\ preUnavil' = 0
    BY <1>2, <1>3
  <2>2. Begin(field) <= 8 * (currByte + 1)
    <3>1. PICK u \in 0 .. 7 : u = preUnavil
      BY <1>3
    <3>2. Begin(field) = 8 * currByte + u \/ Begin(field) <= 8 * currByte
      BY <1>2, <3>1, <1>3 DEF Unmasked
    <3>3. u \in 0 .. 7
      BY <3>1
    <3> QED
      BY <1>3, <1>5, <3>2, <3>3
  <2> QED
    BY <1>5, <2>1, <2>2 DEF Unmasked
<1>7. bytes[currByte] = {b \in 0 .. 7 : Put(Len(layout), Pos(currByte, b))}
  <2>1. currByte \in Octets
    <3>1. received \in Nat /\ received <= BufferSize /\ BufferSize \in Nat
      BY <1>2, CodecConstants DEF TypeInv, CursorInv
    <3> QED
      BY <1>3, <3>1 DEF Octets
  <2> QED
    BY <1>2, <2>1 DEF PacketInv, Packed
<1>8. specific \in SUBSET Nat
  BY <1>1, <1>7
<1>9. PICK new : new = IF toShift >= 0 THEN Shl(specific, toShift)
                                       ELSE Shr(specific, -toShift)
  OBVIOUS
<1>10. ASSUME NEW x \in Nat
       PROVE  x \in new <=> x - toShift \in specific
  <2>1. CASE toShift >= 0
    BY <1>3, <1>8, <1>9, <2>1, Shifted
  <2>2. CASE toShift < 0
    <3>1. ~(toShift >= 0)
      BY <1>3, <2>2
    <3> QED
      BY <1>3, <1>8, <1>9, <2>2, <3>1, Shifted
  <2> QED
    BY <1>3, <2>1, <2>2
<1>11. new \subseteq Nat
  <2>1. CASE toShift >= 0
    BY <1>3, <1>8, <1>9, <2>1 DEF Shl
  <2>2. CASE ~(toShift >= 0)
    BY <1>3, <1>8, <1>9, <2>2 DEF Shr
  <2> QED
    BY <2>1, <2>2
<1>12. ASSUME NEW x \in Nat
       PROVE  x \in n' <=> x \in Taken'
  <2>1. PICK p \in Int : p = End[field] - 1 - x
    BY <1>5
  <2>2. x \in new <=> /\ p >= Begin(field) /\ p >= 8 * currByte
                      /\ p < 8 * (currByte + 1) /\ Put(Len(layout), p)
    <3>1. /\ x - toShift \in 0 .. 7 - preUnavil <=>
                 /\ p >= Begin(field) /\ p >= 8 * currByte
                 /\ p < 8 * (currByte + 1)
          /\ x - toShift \in 0 .. 7 - preUnavil => x - toShift \in 0 .. 7
          /\ p = Pos(currByte, x - toShift)
      BY <1>2, <1>3, <2>1, PassTakes
    <3>2. x - toShift \in specific <=>
              /\ x - toShift \in 0 .. 7 - preUnavil
              /\ x - toShift \in 0 .. 7
              /\ Put(Len(layout), Pos(currByte, x - toShift))
      BY <1>1, <1>7
    <3> QED
      BY <1>10, <3>1, <3>2
  <2>3. x \in n <=> /\ p >= Begin(field) /\ p < 8 * currByte
                    /\ Put(Len(layout), p)
    BY <1>3, <1>4, <2>1 DEF Taken
  <2>4. x \in Taken' <=> /\ p >= Begin(field) /\ p < 8 * (currByte + 1)
                         /\ Put(Len(layout), p)
    BY <1>2, <1>4, <1>5, <2>1, SameInput DEF Taken
  <2>5. p < 8 * (currByte + 1) <=>
            p < 8 * currByte \/ (p >= 8 * currByte /\ p < 8 * (currByte + 1))
    BY <1>3
  <2>6. x \in n' <=> x \in n \/ x \in new
    BY <1>2, <1>9
  <2> QED
    BY <2>2, <2>3, <2>4, <2>5, <2>6
<1>13. n' \subseteq Nat /\ Taken' \subseteq Nat
  BY <1>2, <1>3, <1>9, <1>11 DEF Taken
<1> QED
  BY <1>4, <1>6, <1>12, <1>13

LEMMA detachBitsStep ==
    ASSUME TypeInv, PacketInv, CursorInv, OutInv, detachBits
    PROVE  PacketInv' /\ CursorInv' /\ OutInv'
<1>1. /\ pc = "detach" /\ pc' \in {"detach", "panic"}
      /\ UNCHANGED <<input, field, bitsize, bytes, received, out>>
      /\ currByte >= received => pc' = "panic"
  BY DEF detachBits
<1>2. ASSUME pc' = "detach", Synced(field - 1)
      PROVE  InLoop' /\ Unmasked' /\ n' = Taken'
  <2>1. currByte < received
    BY <1>1, <1>2 DEF TypeInv
  <2> QED
    BY <1>2, <2>1, PassAdds
<1>3. CursorInv'
  BY <1>1, <1>2, SameLayout DEF CursorInv
<1>4. PacketInv'
  BY <1>1, PacketSame
<1>5. OutInv'
  BY <1>1, OutSame
<1> QED
  BY <1>3, <1>4, <1>5

\* What a loop has taken of a field that fits and is not spoiled is its value.
LEMMA TakesAll ==
    ASSUME TypeInv, More, IsNumber(Current), InLoop, toShift <= -8,
           Fits(field), ~Spoiled(field)
    PROVE  Taken = value[field]
<1>1. /\ field \in 1 .. Len(layout) /\ InputOK /\ IsNumber(layout[field])
      /\ Width(field) = Current.size /\ Current = layout[field]
  BY AtField DEF TypeInv
<1>2. /\ Handled \in Nat /\ 8 * Handled >= End[field]
  BY LoopEnds
<1>3. /\ End[field] \in Nat /\ Begin(field) \in Nat /\ Width(field) \in Nat
      /\ End[field] = Begin(field) + Width(field)
      /\ Downward(Begin(field)) <= Begin(field)
      /\ Downward(Begin(field)) \in Nat
  BY <1>1, Place, Around
<1>4. value[field] \subseteq 0 .. Width(field) - 1 /\ value[field] \subseteq Nat
  BY <1>1, <1>3 DEF Fits
<1>5. ASSUME NEW x \in Nat
      PROVE  x \in Taken <=> x \in value[field]
  <2>1. PICK p \in Int : p = End[field] - 1 - x
    BY <1>3
  <2>2. x = End[field] - 1 - p
    BY <1>3, <2>1
  <2>3. p \in BitsOf(field) <=> p >= Downward(Begin(field)) /\ x \in value[field]
    BY <1>1, <2>2, NumberBits
  <2>4. p <= End[field] - 1 /\ p < 8 * Handled
    BY <1>2, <1>3, <2>1
  <2>5. x \in Taken <=> p >= Begin(field) /\ Put(Len(layout), p)
    BY <2>1, <2>4 DEF Taken
  <2>6. ASSUME p >= Begin(field)
        PROVE  Put(Len(layout), p) <=> p \in BitsOf(field)
    <3>1. p \in Begin(field) .. End[field] - 1
      BY <1>3, <2>4, <2>6
    <3> QED
      BY <1>1, <3>1, Unspoiled
  <2>7. x \in value[field] => p >= Begin(field)
    BY <1>3, <1>4, <2>1
  <2>8. p >= Begin(field) => p >= Downward(Begin(field))
    BY <1>3
  <2> QED
    BY <2>3, <2>5, <2>6, <2>7, <2>8
<1>6. Taken \subseteq Nat
  BY DEF Taken
<1> QED
  BY <1>4, <1>5, <1>6

LEMMA EndDetachStep ==
    ASSUME TypeInv, PacketInv, CursorInv, OutInv, EndDetach
    PROVE  PacketInv' /\ CursorInv' /\ OutInv'
<1>1. /\ pc = "detach" /\ toShift <= -8 /\ out' = [out EXCEPT ![field] = n]
      /\ UNCHANGED <<input, bytes, currByte, received>>
      /\ \/ pc' = "error"
         \/ /\ pc' = "decode" /\ bitsize' = bitsize + Current.size
            /\ field' = field + 1
  BY DEF EndDetach, packet
<1>2. PacketInv'
  BY <1>1, PacketSame
<1>3. More /\ IsNumber(Current) /\ InputOK
  BY <1>1 DEF TypeInv
<1>4. /\ field \in 1 .. Len(layout) /\ field - 1 \in Int
  BY <1>3, AtField
<1>5. ASSUME Synced(field)
      PROVE  InLoop /\ n = Taken
  <2>1. Synced(field - 1)
    BY <1>4, <1>5 DEF Synced
  <2> QED
    BY <1>1, <2>1 DEF CursorInv
<1>6. CASE pc' = "error"
  BY <1>2, <1>6 DEF CursorInv, OutInv
<1>7. CASE pc' = "decode"
  <2>1. bitsize' = bitsize + Current.size /\ field' = field + 1
    BY <1>1, <1>7
  <2>2. ASSUME Synced(field - 1)' PROVE LaidTo(field - 1)'
    <3>1. field' - 1 = field
      BY <1>4, <2>1
    <3>2. Synced(field)
      BY <1>1, <2>2, <3>1, SameLayout
    <3>3. /\ currByte = End[field] \div 8
          /\ (bitsize + Current.size) % 8 = End[field] % 8
      BY <1>1, <1>3, <1>5, <3>2, LoopEnds
    <3> QED
      BY <1>1, <2>1, <3>1, <3>3, SameInput DEF LaidTo
  <2>3. CursorInv'
    BY <1>1, <1>7, <2>2, SameLayout DEF CursorInv
  <2>4. ASSUME Synced(field), Fits(field), ~Spoiled(field)
        PROVE  out'[field] = value[field]
    <3>1. n = value[field]
      BY <1>1, <1>3, <1>5, <2>4, TakesAll
    <3>2. field \in DOMAIN out
      BY <1>3, <1>4 DEF TypeInv, InputOK
    <3> QED
      BY <1>1, <3>1, <3>2
  <2>5. \A i \in 1 .. field - 1 : out'[i] = out[i]
    <3>1. \A i \in 1 .. field - 1 : i \in DOMAIN out /\ i # field
      BY <1>3, <1>4 DEF TypeInv, InputOK
    <3> QED
      BY <1>1, <3>1
  <2>6. OutInv'
    BY <1>1, <1>3, <2>1, <2>4, <2>5, OutStep
  <2> QED
    BY <1>2, <2>3, <2>6
<1> QED
  BY <1>1, <1>6, <1>7

\* The octets that are taken of a slice that arrived and is not spoiled are
\* its octets.
LEMMA TakesSlice ==
    ASSUME TypeInv, PacketInv, CursorInv, pc = "decode", More,
           ~IsNumber(Current), LaidTo(field - 1), ~Spoiled(field),
           Len(value[field]) = Current.size,
           Aligned + Current.size <= BufferSize,
           End[field] <= 8 * received
    PROVE  [k \in 1 .. Current.size |-> bytes[Aligned + k - 1]] = value[field]
<1>1. /\ field \in 1 .. Len(layout) /\ InputOK
      /\ value[field] \in Seq(SUBSET (0 .. 7))
  BY AtField DEF TypeInv
<1>2. PICK a \in Nat : a = Aligned
  BY AlignedType
<1>3. PICK l \in Nat : l = Len(value[field]) /\ l = Current.size
  BY <1>1
<1>4. Begin(field) = 8 * a /\ End[field] = 8 * (a + l)
  <2>1. 0 \in Nat /\ 0 \in 0 .. 7
    OBVIOUS
  <2> QED
    BY <1>2, <1>3, <2>1, BytesAt
<1>5. received \in Nat /\ BufferSize \in Nat
  BY CodecConstants DEF TypeInv
<1>6. ASSUME NEW k \in 1 .. l
      PROVE  bytes[a + k - 1] = value[field][k]
  <2>1. PICK o \in Nat : o = a + k - 1
    BY <1>2
  <2>2. o < a + l /\ o >= a /\ o - a + 1 = k
    BY <1>2, <1>3, <2>1
  <2>3. o < received
    BY <1>2, <1>3, <1>4, <1>5, <2>2
  <2>4. o \in Octets
    BY <1>2, <1>3, <1>5, <2>2 DEF Octets
  <2>5. bytes[o] = {b \in 0 .. 7 : Put(Len(layout), Pos(o, b))}
    BY <2>3, <2>4 DEF PacketInv, Packed
  <2>6. k \in DOMAIN value[field] /\ value[field][k] \subseteq 0 .. 7
    <3>1. PICK v \in Seq(SUBSET (0 .. 7)) : v = value[field]
      BY <1>1
    <3>2. k \in DOMAIN v
      BY <1>3, <3>1
    <3>3. v[k] \in SUBSET (0 .. 7)
      BY <3>1, <3>2
    <3> QED
      BY <3>1, <3>2, <3>3
  <2>7. ASSUME NEW b \in 0 .. 7
        PROVE  Put(Len(layout), Pos(o, b)) <=> b \in value[field][k]
    <3>1. Pos(o, b) \in BitsOf(field) <=>
              o - a + 1 \in DOMAIN value[field] /\ b \in value[field][o - a + 1]
      BY <1>2, BytesAt
    <3>2. Pos(o, b) \in 8 * a .. 8 * (a + l) - 1
      <4>1. a \in Nat /\ l \in Nat
        BY <1>2, <1>3
      <4> QED
        BY <2>2, <4>1 DEF Pos
    <3>3. Put(Len(layout), Pos(o, b)) <=> Pos(o, b) \in BitsOf(field)
      BY <1>1, <1>4, <3>2, Unspoiled
    <3> QED
      BY <2>2, <2>6, <3>1, <3>3
  <2> QED
    BY <2>1, <2>5, <2>6, <2>7
<1>7. value[field] = [k \in 1 .. l |-> value[field][k]]
  BY <1>1, <1>3
<1> QED
  BY <1>2, <1>3, <1>6, <1>7

LEMMA TakeBytesStep ==
    ASSUME TypeInv, PacketInv, CursorInv, OutInv, TakeBytes
    PROVE  PacketInv' /\ CursorInv' /\ OutInv'
<1>1. /\ pc = "decode" /\ More /\ ~IsNumber(Current)
      /\ pc' \in {"decode", "panic"} /\ UNCHANGED <<input, bytes, received>>
  BY DEF TakeBytes
<1>2. PacketInv'
  BY <1>1, PacketSame
<1>3. /\ field \in 1 .. Len(layout) /\ field - 1 \in Int /\ InputOK
      /\ Current = layout[field] /\ Current.size \in Nat
  BY <1>1, AtField DEF TypeInv
<1>4. ASSUME Synced(field)
      PROVE  /\ LaidTo(field - 1) /\ Len(value[field]) = Current.size
             /\ Current.type = "dbytes" => Current.size > 0
  <2>1. Synced(field - 1) /\ InStep(field)
    BY <1>3, <1>4 DEF Synced
  <2> QED
    BY <1>1, <1>3, <2>1 DEF CursorInv, InStep
<1>5. CASE Current.type = "dbytes" /\ Current.size = 0
  <2>1. pc' = "decode" /\ field' = field + 1 /\ UNCHANGED <<out, currByte, bitsize>>
    BY <1>1, <1>5 DEF TakeBytes
  <2>2. ~Synced(field)
    BY <1>4, <1>5
  <2>3. ~Synced(field - 1)'
    <3>1. field' - 1 = field
      BY <1>3, <2>1
    <3> QED
      BY <1>1, <2>2, <3>1, SameLayout
  <2>4. CursorInv'
    BY <1>1, <2>1, <2>3, SameLayout DEF CursorInv
  <2>5. OutInv'
    BY <1>1, <2>1, <2>2, OutStep
  <2> QED
    BY <1>2, <2>4, <2>5
<1>6. CASE /\ ~(Current.type = "dbytes" /\ Current.size = 0)
           /\ Aligned + Current.size > BufferSize
  <2>1. pc' = "panic"
    BY <1>6 DEF TakeBytes
  <2> QED
    BY <1>2, <2>1 DEF CursorInv, OutInv
<1>7. CASE /\ ~(Current.type = "dbytes" /\ Current.size = 0)
           /\ ~(Aligned + Current.size > BufferSize)
  <2>1. /\ pc' = "decode" /\ field' = field + 1 /\ bitsize' = 0
        /\ currByte' = Aligned + Current.size
        /\ out' = [out EXCEPT ![field] =
                      [k \in 1 .. Current.size |-> bytes[Aligned + k - 1]]]
    BY <1>1, <1>7 DEF TakeBytes
  <2>2. field' - 1 = field
    BY <1>3, <2>1
  <2>3. ASSUME Synced(field - 1)' PROVE LaidTo(field - 1)'
    <3>1. Synced(field)
      BY <1>1, <2>2, <2>3, SameLayout
    <3>2. PICK a \in Nat : a = Aligned
      BY AlignedType
    <3>3. PICK l \in Nat : l = Len(value[field]) /\ l = Current.size
      BY <1>3, <1>4, <3>1
    <3>4. End[field] = 8 * (a + l) + 0 /\ End[field] \in Nat
      <4>1. 0 \in Nat /\ 0 \in 0 .. 7
        OBVIOUS
      <4> QED
        BY <1>1, <1>4, <3>1, <3>2, <3>3, <4>1, BytesAt
    <3>5. a + l = End[field] \div 8 /\ 0 = End[field] % 8
      <4>1. a + l \in Int /\ 0 \in 0 .. 7
        BY <3>2, <3>3
      <4> QED
        BY <3>4, <4>1, SplitUnique
    <3>6. End'[field' - 1] = End[field]
      BY <1>1, <2>2, SameInput
    <3>7. bitsize' % 8 = 0
      BY <2>1
    <3> QED
      BY <2>1, <3>2, <3>3, <3>5, <3>6, <3>7 DEF LaidTo
  <2>4. CursorInv'
    BY <1>1, <2>1, <2>3, SameLayout DEF CursorInv
  <2>5. ASSUME Synced(field), Fits(field), ~Spoiled(field),
               End[field] <= 8 * received
        PROVE  out'[field] = value[field]
    <3>1. Aligned + Current.size <= BufferSize
      <4>1. PICK a \in Nat : a = Aligned
        BY AlignedType
      <4> QED
        BY <1>3, <1>7, <4>1, CodecConstants
    <3>2. [k \in 1 .. Current.size |-> bytes[Aligned + k - 1]] = value[field]
      BY <1>1, <1>4, <2>5, <3>1, TakesSlice
    <3>3. field \in DOMAIN out
      BY <1>3 DEF TypeInv, InputOK
    <3> QED
      BY <2>1, <3>2, <3>3
  <2>6. \A i \in 1 .. field - 1 : out'[i] = out[i]
    <3>1. \A i \in 1 .. field - 1 : i \in DOMAIN out /\ i # field
      BY <1>3 DEF TypeInv, InputOK
    <3> QED
      BY <2>1, <3>1
  <2>7. OutInv'
    BY <1>1, <2>1, <2>5, <2>6, OutStep
  <2> QED
    BY <1>2, <2>4, <2>7
<1> QED
  BY <1>5, <1>6, <1>7

LEMMA EndDecodeStep ==
    ASSUME TypeInv, PacketInv, CursorInv, OutInv, EndDecode
    PROVE  PacketInv' /\ CursorInv' /\ OutInv'
<1>1. /\ pc = "decode" /\ pc' = "done" /\ ~More /\ currByte' = Aligned
      /\ UNCHANGED <<input, field, bytes, received, out>>
  BY DEF EndDecode
<1>2. field - 1 = Len(layout)
  BY <1>1 DEF TypeInv, More, InputOK
<1>3. ASSUME Synced(Len(layout))' PROVE currByte' = PacketOctets'
  <2>1. layout' = layout
    BY <1>1, SameInputOK
  <2>2. Synced(field - 1)
    BY <1>1, <1>2, <1>3, <2>1, SameLayout
  <2>3. Aligned = PacketOctets
    BY <1>1, <2>2, AtEnd DEF CursorInv
  <2> QED
    BY <1>1, <2>3, SameLayout
<1>4. CursorInv'
  BY <1>1, <1>3, SameLayout DEF CursorInv
<1>5. PacketInv'
  BY <1>1, PacketSame
<1>6. OutInv'
  BY <1>1, OutSame
<1> QED
  BY <1>4, <1>5, <1>6

LEMMA StutterStep ==
    ASSUME TypeInv, PacketInv, CursorInv, OutInv, UNCHANGED vars
    PROVE  PacketInv' /\ CursorInv' /\ OutInv'
<1>1. /\ UNCHANGED <<input, pc, field, toShift, n, preUnavil, bitsize>>
      /\ UNCHANGED <<bytes, currByte, received, out>>
  BY DEF vars, loop, packet
<1>2. layout' = layout /\ End' = End /\ Handled' = Handled
      /\ (LaidTo(field - 1)' <=> LaidTo(field - 1))
      /\ (Synced(field - 1)' <=> Synced(field - 1))
      /\ (Synced(Len(layout))' <=> Synced(Len(layout)))
  BY <1>1, SameInput, SameInputOK, SameLayout DEF Handled, LaidTo
<1>3. \A k : /\ Packed(k, field - 1)' = Packed(k, field - 1)
             /\ Packed(k, Len(layout))' = Packed(k, Len(layout))
  BY <1>1, <1>2, SameInput DEF Packed
<1>4. \A k, b : /\ Put(field - 1, Pos(k, b))' <=> Put(field - 1, Pos(k, b))
                /\ BitsOf(field)' = BitsOf(field)
  BY <1>1, SameInput
<1>5. PacketInv'
  BY <1>1, <1>2, <1>3, <1>4 DEF PacketInv
<1>6. InLoop' <=> InLoop
  BY <1>1, <1>2 DEF InLoop
<1>7. (Unmasked' <=> Unmasked) /\ Taken' = Taken
  <2>1. Begin(field)' = Begin(field)
    BY <1>1, SameInput
  <2>2. \A p : Put(Len(layout), p)' <=> Put(Len(layout), p)
    BY <1>1, <1>2, SameInput
  <2> QED
    BY <1>1, <1>2, <2>1, <2>2 DEF Unmasked, Taken
<1>8. CursorInv'
  BY <1>1, <1>2, <1>6, <1>7, SameLayout DEF CursorInv
<1>9. OutInv'
  <2>1. CASE pc \in {"decode", "detach", "done"}
    BY <1>1, <2>1, OutSame
  <2>2. CASE pc \notin {"decode", "detach", "done"}
    BY <1>1, <2>2 DEF OutInv
  <2> QED
    BY <2>1, <2>2
<1> QED
  BY <1>5, <1>8, <1>9

----------------------------------------------------------------------------
(* The theorems.                                                           *)

LEMMA CodecInit ==
    ASSUME Init
    PROVE  CodecInv
<1>1. /\ pc = "encode" /\ field = 1 /\ toShift = 0 /\ preUnavil = 0
      /\ bitsize = 0 /\ bytes = [k \in Octets |-> {}] /\ currByte = 0
      /\ received = 0 /\ out = [i \in DOMAIN layout |-> None]
  BY DEF Init
<1>2. InputOK
  <2>1. PICK in \in Inputs : layout = in.layout /\ value = in.value
    BY DEF Init
  <2>2. layout \in Seq(Fields) /\ DOMAIN value = DOMAIN layout
    BY <2>1, CodecConstants
  <2>3. ASSUME NEW i \in DOMAIN layout
        PROVE  value[i] \in IF IsNumber(layout[i])
                            THEN SUBSET Nat ELSE Seq(SUBSET (0 .. 7))
    <3>1. value[i] \in IF IsNumber(layout[i])
                       THEN SUBSET (0 .. 63) ELSE Seq(SUBSET (0 .. 7))
      BY <2>1, <2>3, CodecConstants
    <3>2. 0 .. 63 \subseteq Nat
      OBVIOUS
    <3> QED
      BY <3>1, <3>2
  <2> QED
    BY <2>2, <2>3 DEF InputOK
<1>3. Len(layout) \in Nat /\ 1 \in 1 .. Len(layout) + 1
  BY <1>2 DEF InputOK
<1>4. TypeInv
  BY <1>1, <1>2, <1>3 DEF TypeInv
<1>5. \A p : ~Put(0, p)
  BY DEF Put
<1>6. PacketInv
  BY <1>1, <1>5 DEF PacketInv, Packed
<1>7. LaidTo(0)
  <2>1. End[0] = 0
    BY <1>2, EndIs
  <2> QED
    BY <1>1, <2>1 DEF LaidTo
<1> QED
  BY <1>1, <1>4, <1>6, <1>7 DEF CodecInv, CursorInv, OutInv

LEMMA CodecStep ==
    ASSUME CodecInv, [Next]_vars
    PROVE  CodecInv'
<1>1. TypeInv /\ PacketInv /\ CursorInv /\ OutInv
  BY DEF CodecInv
<1>2. TypeInv'
  BY <1>1, TypeStep
<1>3. CASE BeginAppend
  BY <1>1, <1>2, <1>3, BeginAppendStep DEF CodecInv
<1>4. CASE appendBits
  BY <1>1, <1>2, <1>4, appendBitsStep DEF CodecInv
<1>5. CASE EndAppend
  BY <1>1, <1>2, <1>5, EndAppendStep DEF CodecInv
<1>6. CASE PutBytes
  BY <1>1, <1>2, <1>6, PutBytesStep DEF CodecInv
<1>7. CASE EndEncode
  BY <1>1, <1>2, <1>7, EndEncodeStep DEF CodecInv
<1>8. CASE Read
  BY <1>1, <1>2, <1>8, ReadStep DEF CodecInv
<1>9. CASE BeginDetach
  BY <1>1, <1>2, <1>9, BeginDetachStep DEF CodecInv
<1>10. CASE detachBits
  BY <1>1, <1>2, <1>10, detachBitsStep DEF CodecInv
<1>11. CASE EndDetach
  BY <1>1, <1>2, <1>11, EndDetachStep DEF CodecInv
<1>12. CASE TakeBytes
  BY <1>1, <1>2, <1>12, TakeBytesStep DEF CodecInv
<1>13. CASE EndDecode
  BY <1>1, <1>2, <1>13, EndDecodeStep DEF CodecInv
<1>14. CASE UNCHANGED vars
  BY <1>1, <1>2, <1>14, StutterStep DEF CodecInv
<1> QED
  BY <1>3, <1>4, <1>5, <1>6, <1>7, <1>8, <1>9, <1>10, <1>11, <1>12, <1>13,
     <1>14 DEF Next

\* The passes of appendBits and detachBits are where the layout says, and so
\* are the octets of the packet and the fields decoded.
THEOREM CodecInvariant == Spec => []CodecInv
BY CodecInit, CodecStep, PTL DEF Spec

\* For every layout, whatever octets its fields straddle and whatever their
\* numbers are, MarshalLdacsPkt puts every field where the layout says, and
\* returns all octets and no other (pktencode.go:80, 172).
THEOREM PacksEveryLayout == Spec => []PacksAsLaidOut
<1>1. ASSUME CodecInv PROVE PacksAsLaidOut
  <2> SUFFICES ASSUME pc = "sent"
               PROVE  /\ currByte = PacketOctets
                      /\ \A k \in 0 .. currByte - 1 :
                            bytes[k] = {b \in 0 .. 7 : \E i \in DOMAIN layout :
                                            8 * k + 7 - b \in BitsOf(i)}
    BY DEF PacksAsLaidOut
  <2>1. /\ currByte = PacketOctets /\ currByte <= BufferSize /\ currByte \in Nat
        /\ InputOK /\ BufferSize \in Nat
    BY <1>1, CodecConstants DEF CodecInv, CursorInv, TypeInv
  <2>2. \A k \in 0 .. currByte - 1 : k \in Octets
    BY <2>1 DEF Octets
  <2>3. DOMAIN layout = 1 .. Len(layout)
    BY <2>1 DEF InputOK
  <2>4. \A k \in Octets : bytes[k] = {b \in 0 .. 7 : \E i \in DOMAIN layout :
                                          8 * k + 7 - b \in BitsOf(i)}
    BY <1>1, <2>3 DEF CodecInv, PacketInv, Packed, Put, Pos
  <2> QED
    BY <2>1, <2>2, <2>4
<1> QED
  BY <1>1, CodecInvariant, PTL

\* For every layout, and however much of the packet arrived, a field that
\* arrived whole is decoded as it was encoded, unless another field's bits
\* are over it or the decoder has left the encoder's layout
\* (pktencode.go:83).
THEOREM DecodesEveryLayout == Spec => []DecodesWhatArrived
<1>1. ASSUME CodecInv PROVE DecodesWhatArrived
  BY <1>1 DEF CodecInv, OutInv, DecodesWhatArrived, Synced
<1> QED
  BY <1>1, CodecInvariant, PTL

\* The cursor that UnmarshalLdacsPkt returns tells a cut packet from a whole
\* one (pktencode.go:305).
THEOREM CountShowsEveryCut == Spec => []CountShowsCut
<1>1. ASSUME CodecInv PROVE CountShowsCut
  <2> SUFFICES ASSUME pc = "done", \A i \in DOMAIN layout : InStep(i)
               PROVE  currByte > received <=> received < PacketOctets
    BY DEF CountShowsCut
  <2>1. DOMAIN layout = 1 .. Len(layout)
    BY <1>1 DEF CodecInv, TypeInv, InputOK
  <2>2. Synced(Len(layout))
    BY <2>1 DEF Synced
  <2>3. currByte = PacketOctets /\ currByte \in Nat /\ received \in Nat
    BY <1>1, <2>2 DEF CodecInv, CursorInv, TypeInv
  <2> QED
    BY <2>3
<1> QED
  BY <1>1, CodecInvariant, PTL
====================
