----------------------------- MODULE InputProofs ----------------------------
(***************************************************************************)
(* What softgred_config.c makes of every command line and file, and        *)
(* payload.c of every frame: the steps of Config and Payload keep the      *)
(* invariants AdmissionProofs combines.                                    *)
(***************************************************************************)
EXTENDS Config, Payload, FiniteSetTheorems, SequenceTheorems, WellFoundedInduction, NaturalsInduction,
        TLAPS

-----------------------------------------------------------------------------
(* Numbers.                                                                *)

\* Numbers of the configuration: the bounds, and the parts of an interface name.
LEMMA Bounds == MaxAttach \in Nat /\ MaxSlots - 1 \in Nat /\ \A v \in 1 .. MaxVlan : v \in Nat
<1>1. MaxAttach \in Nat
  BY BoundAssumption, SMT
<1>2. MaxSlots - 1 \in Nat
  BY BoundAssumption, SMTT(60)
<1>3. \A v \in 1 .. MaxVlan : v \in Nat
  BY DEF MaxVlan
<1> QED
  BY <1>1, <1>2, <1>3, Zenon

\* A prefix of six characters leaves room for two numbers, a separator and the end.
LEMMA PartsFit == \A a \in 1 .. 6, b \in 1 .. 4, c \in 1 .. 4 : a + b + 1 + c < IfNameSize
BY DEF IfNameSize

\* Numbers below 10000 have at most four digits.
LEMMA DigitsFew == \A m \in Nat : Digits(m) \in 1 .. 4
BY DEF Digits

\* Masks.  The bits of x from bit j on, and bit j.
High(x, j) == x \div 2 ^ j
Bit(x, j) == (x \div 2 ^ j) % 2

\* x without what is below w, and the w of an octet of a mask.
Clear(x, w) == x - (x % w)
Gap(bits, o) == 256 - Mask(bits)[o]

LEMMA OneBit ==
  ASSUME NEW x \in Byte, NEW y \in Byte, NEW j \in 0 .. 7
  PROVE  High(x, j) = High(y, j) <=> High(x, j + 1) = High(y, j + 1) /\ Bit(x, j) = Bit(y, j)
<1>0. CASE j = 0
  BY <1>0 DEF High, Bit, Byte
<1>1. CASE j = 1
  BY <1>1, SMTT(60) DEF High, Bit, Byte
<1>2. CASE j = 2
  BY <1>2, SMTT(60) DEF High, Bit, Byte
<1>3. CASE j = 3
  BY <1>3, SMTT(60) DEF High, Bit, Byte
<1>4. CASE j = 4
  BY <1>4, SMTT(60) DEF High, Bit, Byte
<1>5. CASE j = 5
  BY <1>5 DEF High, Bit, Byte
<1>6. CASE j = 6
  BY <1>6 DEF High, Bit, Byte
<1>7. CASE j = 7
  BY <1>7 DEF High, Bit, Byte
<1> QED
  BY <1>0, <1>1, <1>2, <1>3, <1>4, <1>5, <1>6, <1>7, SMTT(60)

\* Clearing the last m bits keeps the others.
LEMMA Cleared ==
  ASSUME NEW x \in Byte, NEW y \in Byte, NEW m \in 0 .. 8
  PROVE  Clear(x, 2 ^ m) = Clear(y, 2 ^ m) <=> High(x, m) = High(y, m)
<1>0. CASE m = 0
  BY <1>0 DEF Clear, High, Byte
<1>1. CASE m = 1
  BY <1>1 DEF Clear, High, Byte
<1>2. CASE m = 2
  BY <1>2 DEF Clear, High, Byte
<1>3. CASE m = 3
  BY <1>3 DEF Clear, High, Byte
<1>4. CASE m = 4
  BY <1>4 DEF Clear, High, Byte
<1>5. CASE m = 5
  BY <1>5 DEF Clear, High, Byte
<1>6. CASE m = 6
  BY <1>6 DEF Clear, High, Byte
<1>7. CASE m = 7
  BY <1>7 DEF Clear, High, Byte
<1>8. CASE m = 8
  BY <1>8 DEF Clear, High, Byte
<1> QED
  BY <1>0, <1>1, <1>2, <1>3, <1>4, <1>5, <1>6, <1>7, <1>8, SMTT(60)

LEMMA HighBits ==
  ASSUME NEW x \in Byte, NEW y \in Byte, NEW m \in 0 .. 8
  PROVE  High(x, m) = High(y, m) <=> \A j \in m .. 7 : Bit(x, j) = Bit(y, j)
<1> DEFINE P(i) == High(x, i) = High(y, i) <=> \A j \in i .. 7 : Bit(x, j) = Bit(y, j)
<1> HIDE DEF P
<1>1. P(8)
  BY DEF P, High, Byte
<1>2. ASSUME NEW i \in 0 .. 7, NEW k \in 0 .. 8, k = i + 1, P(k) PROVE P(i)
  <2>1. High(x, i) = High(y, i) <=> High(x, k) = High(y, k) /\ Bit(x, i) = Bit(y, i)
    BY <1>2, OneBit, Zenon
  <2>2. i .. 7 = {i} \cup k .. 7
    BY <1>2
  <2> QED
    BY <2>1, <2>2, <1>2, Zenon DEF P
<1>3. P(7) /\ P(6) /\ P(5) /\ P(4) /\ P(3) /\ P(2) /\ P(1) /\ P(0)
  <2>7. P(7)
    <3>1. 7 \in 0 .. 7 /\ 8 \in 0 .. 8 /\ 8 = 7 + 1
      OBVIOUS
    <3> QED
      BY <3>1, <1>1, <1>2, Zenon
  <2>6. P(6)
    BY <2>7, <1>2
  <2>5. P(5)
    BY <2>6, <1>2
  <2>4. P(4)
    BY <2>5, <1>2
  <2>3. P(3)
    BY <2>4, <1>2
  <2>2. P(2)
    BY <2>3, <1>2
  <2>1. P(1)
    BY <2>2, <1>2
  <2>0. P(0)
    BY <2>1, <1>2
  <2> QED
    BY <2>0, <2>1, <2>2, <2>3, <2>4, <2>5, <2>6, <2>7, SMTT(60)
<1>4. P(m)
  BY <1>1, <1>3
<1> QED
  BY <1>4, Zenon DEF P

\* An octet of a mask clears the bits that are not of the network.
LEMMA MaskIs ==
  ASSUME NEW bits \in 0 .. 32, NEW o \in 1 .. 4
  PROVE  \E m \in 0 .. 8 : /\ Gap(bits, o) = 2 ^ m
                           /\ \A j \in 0 .. 7 : j \in m .. 7 <=> 8 * o - j <= bits
<1> DEFINE ones == bits - 8 * (o - 1)
           m == IF ones < 0 THEN 8 ELSE IF ones > 8 THEN 0 ELSE 8 - ones
<1>1. m \in 0 .. 8 /\ \A j \in 0 .. 7 : j \in m .. 7 <=> 8 * o - j <= bits
  OBVIOUS
<1>2. 2 ^ m \in Int
  <2> HIDE DEF m
  <2>1. m \in {0, 1, 2, 3, 4, 5, 6, 7, 8}
    BY <1>1
  <2> QED
    BY <2>1
<1>3. Mask(bits)[o] = 256 - 2 ^ m
  BY Zenon DEF Mask
<1>4. Gap(bits, o) = 2 ^ m
  <2> HIDE DEF m
  <2> DEFINE w == 2 ^ m
  <2> HIDE DEF w
  <2>1. w \in Int
    BY <1>2, Zenon DEF w
  <2>2. Mask(bits)[o] = 256 - w
    BY <1>3, Zenon DEF w
  <2>3. Gap(bits, o) = w
    BY <2>1, <2>2 DEF Gap
  <2> QED
    BY <2>3, Zenon DEF w
<1> QED
  <2> HIDE DEF m
  <2> QED
    BY <1>1, <1>4, Zenon

\* A set of numbers that is not empty has a least one.
LEMMA Least ==
  ASSUME NEW T, T \subseteq Nat, T # {}
  PROVE  \E x \in T : \A y \in T : x <= y
<1>1. IsWellFoundedOn(OpToRel(<, Nat), Nat)
  BY NatLessThanWellFounded, Zenon
<1>2. PICK x \in T : \A y \in T : ~(<<y, x>> \in OpToRel(<, Nat))
  BY <1>1, WFMin, Zenon
<1>3. \A y \in T : ~(y < x)
  BY <1>2, Zenon DEF OpToRel
<1> QED
  BY <1>3

\* Induction for sets of numbers, from the least number that is left out.
LEMMA NumberInduction ==
  ASSUME NEW T, 0 \in T, \A m \in Nat : m \in T => m + 1 \in T
  PROVE  Nat \subseteq T
<1> SUFFICES ASSUME Nat \ T # {} PROVE FALSE
  BY Zenon
<1>1. PICK x \in Nat \ T : \A y \in Nat \ T : x <= y
  BY Least, Zenon
<1>2. x # 0 /\ x - 1 \in Nat
  BY <1>1
<1>3. x - 1 \in T
  BY <1>1, <1>2
<1>4. x - 1 + 1 \in T
  BY <1>2, <1>3, Zenon
<1> QED
  BY <1>1, <1>4

-----------------------------------------------------------------------------
(* The capture: payload_parse reads no byte behind the frame and accepts   *)
(* exactly the well-formed frames, and the filter loses none of them, for  *)
(* every frame and every length.                                           *)

\* What the parser has found of a frame with its IPv4 header at byte p.
Header(f, p) == Size(f) >= p + 20 /\ IpOk(f, p)

Inner(f, p) ==
  LET ether == p + Ihl(f, p) + 4
  IN  /\ GreOk(f, p + Ihl(f, p))
      /\ Total(f, p) >= Ihl(f, p) + 22
      /\ Word(f, ether + 12) = Vlan
      /\ InnerOk(f, ether)

Early == {"idle", "filter", "dropped", "queued", "skipped", "ether"}
Reading == {"tags", "gre", "inner"}
Taken == {"accepted", "eligible", "ignored"}

\* What the parser knows while it reads.
Known ==
  /\ tags \in 0 .. 2 /\ offset = 14 + 4 * tags /\ offset <= Size(frame)
  /\ type = Word(frame, 12 + 4 * tags)
  /\ \A j \in 0 .. tags - 1 : Word(frame, 12 + 4 * j) \in TagTypes

\* The inductive invariant.
ParseInv ==
  /\ pc \in Early \cup Reading \cup {"rejected"} \cup Taken
  /\ IF pc = "idle" THEN frame = NoFrame ELSE frame \in Frames
  /\ capture # "filtered" => pc \in {"idle", "queued"}
  /\ high \in Nat
  /\ pc \in Early => high = 0
  /\ pc # "idle" => high <= Size(frame)
  /\ pc \in Reading => Known
  /\ pc \in {"gre", "inner"} => type = Ipv4 /\ Header(frame, offset)
  /\ pc = "inner" => GreOk(frame, offset + Ihl(frame, offset))
  /\ pc \in Taken => WellFormed(frame)
  /\ ParserExact /\ FilterLosesNothing

-----------------------------------------------------------------------------
(* Facts about frames.                                                     *)

LEMMA OctetType ==
  ASSUME NEW f \in Frames, NEW k \in 0 .. Size(f) - 1
  PROVE  Octet(f, k) \in 0 .. 255
BY FramesAssumption, Zenon

LEMMA SizeType ==
  ASSUME NEW f \in Frames
  PROVE  Size(f) \in Nat
BY FramesAssumption, Zenon

LEMMA WordType ==
  ASSUME NEW f \in Frames, NEW k \in Nat, Size(f) \in Nat, k + 1 < Size(f)
  PROVE  Word(f, k) \in Nat
<1>1. k \in 0 .. Size(f) - 1 /\ k + 1 \in 0 .. Size(f) - 1
  OBVIOUS
<1>2. Octet(f, k) \in 0 .. 255 /\ Octet(f, k + 1) \in 0 .. 255
  BY <1>1, OctetType, Zenon
<1> DEFINE a == Octet(f, k)
           b == Octet(f, k + 1)
<1>3. Word(f, k) = 256 * a + b
  BY DEF Word
<1> HIDE DEF a, b
<1>4. a \in 0 .. 255 /\ b \in 0 .. 255
  BY <1>2, Zenon DEF a, b
<1>5. 256 * a + b \in Nat
  BY <1>4
<1> QED
  BY <1>3, <1>5

\* The number of outer tags is determined.
LEMMA TagsUnique ==
  ASSUME NEW f, NEW t \in 0 .. 2, NEW u \in Nat, OuterTags(f, t),
         \A j \in 0 .. u - 1 : Word(f, 12 + 4 * j) \in TagTypes
  PROVE  u <= t
<1>1. SUFFICES ASSUME t < u PROVE FALSE
  OBVIOUS
<1>2. t \in 0 .. u - 1
  BY <1>1
<1> QED
  BY <1>2 DEF OuterTags, TagTypes, Ipv4, Vlan

\* An IPv4 header that passes has 5 to 15 words, and its packet lies in the frame.
LEMMA HeaderBounds ==
  ASSUME NEW f \in Frames, NEW p \in Nat, Header(f, p)
  PROVE  /\ Octet(f, p) \in 64 .. 79
         /\ Ihl(f, p) = 4 * (Octet(f, p) - 64)
         /\ Octet(f, p) - 64 \in 5 .. 15
         /\ Total(f, p) \in Nat
         /\ Total(f, p) >= Ihl(f, p) + 4
         /\ p + Total(f, p) <= Size(f)
<1> DEFINE s == Size(f)
           o == Octet(f, p)
           t == Total(f, p)
           h == Ihl(f, p)
<1>1. s \in Nat
  BY SizeType, Zenon
<1>2. /\ o \div 16 = 4 /\ h >= 20 /\ t >= h + 4 /\ t <= Minus(s, p) /\ s >= p + 20
  BY Zenon DEF Header, IpOk
<1>3. h = (o % 16) * 4
  BY Zenon DEF Ihl
<1>4. Minus(s, p) = IF s >= p THEN s - p ELSE Huge
  BY Zenon DEF Minus
<1>5. \A k \in 0 .. s - 1 : Octet(f, k) \in 0 .. 255
  BY OctetType, Zenon
<1>6. \A k \in Nat : k + 1 < s => Word(f, k) \in Nat
  BY <1>1, WordType, Zenon
<1> HIDE DEF s
<1>7. p \in 0 .. s - 1 /\ p + 2 \in Nat /\ (p + 2) + 1 < s
  BY <1>1, <1>2
<1>8. o \in 0 .. 255
  BY <1>5, <1>7, Zenon
<1>9. t \in Nat
  BY <1>6, <1>7, Zenon DEF Total
<1> HIDE DEF o, t, h
<1>10. o \in 64 .. 79 /\ o % 16 = o - 64
  BY <1>8, <1>2
<1>11. h = 4 * (o - 64) /\ o - 64 \in 5 .. 15
  BY <1>10, <1>2, <1>3
<1>12. p + t <= s
  BY <1>1, <1>2, <1>4, <1>9, SMTT(60)
<1> QED
  BY <1>2, <1>9, <1>10, <1>11, <1>12, Zenon DEF s, o, t, h

LEMMA VlanRange ==
  ASSUME NEW v \in Nat
  PROVE  v % 4096 \in Vids <=> v % 4096 \notin Reserved
BY DEF Vids, Reserved

LEMMA Parity ==
  ASSUME NEW v \in Nat
  PROVE  v % 2 = 0 <=> v % 2 # 1
OBVIOUS

\* The test of the source address is the one of WellFormed.
LEMMA NotAllZero ==
  ASSUME NEW f, NEW e \in Nat
  PROVE  (\E j \in 6 .. 11 : Octet(f, e + j) # 0) <=> Slice(f, e + 6, 6) # <<0, 0, 0, 0, 0, 0>>
<1> DEFINE z == <<0, 0, 0, 0, 0, 0>>
           v == Slice(f, e + 6, 6)
<1>1. v = [j \in 1 .. 6 |-> Octet(f, e + j + 5)]
  <2>1. \A j \in 1 .. 6 : e + 6 + j - 1 = e + j + 5
    OBVIOUS
  <2> QED
    BY <2>1, Zenon DEF Slice
<1>2. z = [j \in 1 .. 6 |-> 0]
  OBVIOUS
<1>3. v = z <=> \A j \in 1 .. 6 : Octet(f, e + j + 5) = 0
  BY <1>1, <1>2, Zenon
<1>4. (\A j \in 1 .. 6 : Octet(f, e + j + 5) = 0) <=> \A j \in 6 .. 11 : Octet(f, e + j) = 0
  <2>1. \A j \in 6 .. 11 : j - 5 \in 1 .. 6 /\ e + (j - 5) + 5 = e + j
    OBVIOUS
  <2>2. \A j \in 1 .. 6 : j + 5 \in 6 .. 11 /\ e + (j + 5) = e + j + 5
    OBVIOUS
  <2>3. ASSUME \A j \in 1 .. 6 : Octet(f, e + j + 5) = 0, NEW j \in 6 .. 11
        PROVE  Octet(f, e + j) = 0
    BY <2>1, <2>3, Zenon
  <2>4. ASSUME \A j \in 6 .. 11 : Octet(f, e + j) = 0, NEW j \in 1 .. 6
        PROVE  Octet(f, e + j + 5) = 0
    BY <2>2, <2>4, Zenon
  <2> QED
    BY <2>3, <2>4, Zenon
<1> QED
  BY <1>3, <1>4, Zenon

\* A header of w words, with the packet it belongs to in the frame.
LEMMA HeaderOf ==
  ASSUME NEW f \in Frames, NEW p \in Nat, NEW w \in 5 .. 15
  PROVE  Datagram(f, p, w) <=> /\ Header(f, p) /\ Octet(f, p) = 64 + w /\ Ihl(f, p) = 4 * w
                               /\ Total(f, p) >= Ihl(f, p) + 22
<1> DEFINE s == Size(f)
           o == Octet(f, p)
           t == Word(f, p + 2)
           h == Ihl(f, p)
           Rest == (Word(f, p + 6) = 0 \/ Word(f, p + 6) = DontFragment) /\ Octet(f, p + 9) = 47
<1>1. s \in Nat
  BY SizeType, Zenon
<1>2. s >= p + 20 => t \in Nat
  <2>1. p + 2 \in Nat
    OBVIOUS
  <2>2. s >= p + 20 => (p + 2) + 1 < s
    <3> HIDE DEF s
    <3> QED BY <1>1
  <2> QED
    BY <1>1, <2>1, <2>2, WordType, Zenon
<1>3. h = (o % 16) * 4
  BY Zenon DEF Ihl
<1>4. Minus(s, p) = IF s >= p THEN s - p ELSE Huge
  BY Zenon DEF Minus
<1>5. Header(f, p) <=> /\ s >= p + 20 /\ o \div 16 = 4 /\ h >= 20
                       /\ t >= h + 4 /\ t <= Minus(s, p) /\ Rest
  BY Zenon DEF Header, IpOk, Total
<1>6. Total(f, p) = t
  BY Zenon DEF Total
<1> HIDE DEF s, o, t, h, Rest
<1>7. o = 64 + w => o \div 16 = 4 /\ h = 4 * w
  BY <1>3
<1>8. ASSUME s >= p + 20, o = 64 + w
      PROVE  p + 4 * w + 22 <= p + t /\ p + t <= s
             <=> h >= 20 /\ t >= h + 4 /\ t <= Minus(s, p) /\ t >= h + 22
  BY <1>1, <1>2, <1>4, <1>7, <1>8, SMTT(60)
<1>9. s >= p + 20 /\ o = 64 + w /\ p + 4 * w + 22 <= p + t /\ p + t <= s /\ Rest
      <=> Header(f, p) /\ o = 64 + w /\ h = 4 * w /\ t >= h + 22
  BY <1>5, <1>7, <1>8, Zenon
<1> QED
  BY <1>6, <1>9, Zenon DEF s, o, t, h, Rest, Datagram

\* What follows the GRE header, if all of it is in the frame.
LEMMA EnclosedOf ==
  ASSUME NEW f \in Frames, NEW e \in Nat, Size(f) \in Nat, e + 18 <= Size(f)
  PROVE  Enclosed(f, e) <=> Word(f, e + 12) = Vlan /\ InnerOk(f, e)
<1>1. /\ e + 6 \in 0 .. Size(f) - 1 /\ e + 14 \in Nat /\ (e + 14) + 1 < Size(f)
  OBVIOUS
<1>2. Octet(f, e + 6) \in 0 .. 255 /\ Word(f, e + 14) \in Nat
  BY <1>1, OctetType, WordType, Zenon
<1>3. Vid(f, e) \in Vids <=> Vid(f, e) \notin Reserved
  BY <1>2, VlanRange DEF Vid
<1>4. \A v \in 0 .. 255 : v % 2 = 0 <=> v % 2 # 1
  BY Parity
<1>5. Octet(f, e + 6) % 2 = 0 <=> Octet(f, e + 6) % 2 # 1
  BY <1>2, <1>4, Zenon
<1>6. (\E j \in 6 .. 11 : Octet(f, e + j) # 0) <=> Slice(f, e + 6, 6) # <<0, 0, 0, 0, 0, 0>>
  BY NotAllZero, Zenon
<1> QED
  BY <1>3, <1>5, <1>6, Zenon DEF Enclosed, InnerOk

\* The two together.
LEMMA InnerOf ==
  ASSUME NEW f \in Frames, NEW p \in Nat, NEW w \in 5 .. 15, Datagram(f, p, w)
  PROVE  Inner(f, p) <=> /\ Word(f, p + 4 * w) = 0 /\ Word(f, p + 4 * w + 2) = Bridging
                         /\ Enclosed(f, p + 4 * w + 4)
<1> DEFINE s == Size(f)
           total == Total(f, p)
           h == Ihl(f, p)
           e == p + h + 4
<1>1. Header(f, p) /\ h = 4 * w /\ total >= h + 22
  BY HeaderOf, Zenon
<1>2. total \in Nat /\ p + total <= s
  BY <1>1, HeaderBounds, Zenon
<1>3. s \in Nat
  BY SizeType, Zenon
<1>4. Inner(f, p) <=> GreOk(f, p + h) /\ Word(f, e + 12) = Vlan /\ InnerOk(f, e)
  BY <1>1, Zenon DEF Inner
<1> HIDE DEF s, total, h
<1>5. e \in Nat /\ e + 18 <= s
  BY <1>1, <1>2, <1>3
<1> HIDE DEF e
<1>6. Enclosed(f, e) <=> Word(f, e + 12) = Vlan /\ InnerOk(f, e)
  BY <1>3, <1>5, EnclosedOf, Zenon DEF s
<1> QED
  BY <1>1, <1>4, <1>6, Zenon DEF e, GreOk

\* WellFormed, in the words of the parser.
LEMMA Decompose ==
  ASSUME NEW f \in Frames
  PROVE  WellFormed(f) <=> \E t \in 0 .. 2 : /\ OuterTags(f, t)
                                           /\ Header(f, 14 + 4 * t) /\ Inner(f, 14 + 4 * t)
<1>1. ASSUME NEW t \in 0 .. 2, NEW w \in 5 .. 15, Datagram(f, 14 + 4 * t, w)
      PROVE  /\ Header(f, 14 + 4 * t)
             /\ Inner(f, 14 + 4 * t) <=> /\ Word(f, 14 + 4 * t + 4 * w) = 0
                                         /\ Word(f, 14 + 4 * t + 4 * w + 2) = Bridging
                                         /\ Enclosed(f, 14 + 4 * t + 4 * w + 4)
  <2> DEFINE p == 14 + 4 * t
  <2>1. p \in Nat
    OBVIOUS
  <2>2. Datagram(f, p, w)
    BY <1>1, Zenon
  <2> HIDE DEF p
  <2>3. Header(f, p)
    BY <2>1, <2>2, HeaderOf, Zenon
  <2>4. Inner(f, p) <=> /\ Word(f, p + 4 * w) = 0 /\ Word(f, p + 4 * w + 2) = Bridging
                        /\ Enclosed(f, p + 4 * w + 4)
    BY <2>1, <2>2, InnerOf, Zenon
  <2> QED
    BY <2>3, <2>4, Zenon DEF p
<1>2. ASSUME NEW t \in 0 .. 2, Header(f, 14 + 4 * t), Inner(f, 14 + 4 * t)
      PROVE  \E w \in 5 .. 15 : Datagram(f, 14 + 4 * t, w)
  <2> DEFINE p == 14 + 4 * t
             w == Octet(f, p) - 64
  <2>1. p \in Nat
    OBVIOUS
  <2>2. Octet(f, p) \in 64 .. 79 /\ Ihl(f, p) = 4 * w /\ w \in 5 .. 15
    BY <1>2, <2>1, HeaderBounds, Zenon
  <2>3. Total(f, p) >= Ihl(f, p) + 22
    BY <1>2, Zenon DEF Inner
  <2>4. \A o \in 64 .. 79 : o = 64 + (o - 64)
    OBVIOUS
  <2>5. Octet(f, p) = 64 + w
    BY <2>2, <2>4, Zenon
  <2>6. Header(f, p)
    BY <1>2, Zenon
  <2> HIDE DEF p, w
  <2>7. Datagram(f, p, w)
    BY <2>1, <2>2, <2>3, <2>5, <2>6, HeaderOf, Zenon
  <2> QED
    BY <2>2, <2>7, Zenon DEF p
<1> QED
  BY <1>1, <1>2, Zenon DEF WellFormed, Carries

-----------------------------------------------------------------------------
(* The steps.  First what each check of payload_parse is worth.            *)

\* A frame whose tags and IPv4 header are known is well-formed if and only if what
\* follows them is.
LEMMA KnownTags ==
  ASSUME NEW f \in Frames, NEW t \in 0 .. 2,
         \A j \in 0 .. t - 1 : Word(f, 12 + 4 * j) \in TagTypes
  PROVE  /\ WellFormed(f) => \E u \in t .. 2 : OuterTags(f, u) /\ Header(f, 14 + 4 * u)
         /\ Word(f, 12 + 4 * t) \notin TagTypes =>
              (WellFormed(f) <=> /\ Word(f, 12 + 4 * t) = Ipv4
                                 /\ Header(f, 14 + 4 * t) /\ Inner(f, 14 + 4 * t))
<1>1. ASSUME NEW u \in 0 .. 2, OuterTags(f, u) PROVE u \in t .. 2
  <2>1. t \in Nat
    OBVIOUS
  <2>2. t <= u
    BY <1>1, <2>1, TagsUnique, Zenon
  <2> QED
    BY <2>2
<1>2. ASSUME NEW u \in 0 .. 2, OuterTags(f, u), Word(f, 12 + 4 * t) \notin TagTypes PROVE u = t
  <2>1. u \in t .. 2
    BY <1>1, <1>2, Zenon
  <2>2. \A j \in 0 .. u - 1 : j # t
    BY <1>2, Zenon DEF OuterTags
  <2> QED
    BY <2>1, <2>2
<1>3. WellFormed(f) <=> \E u \in 0 .. 2 : OuterTags(f, u) /\ Header(f, 14 + 4 * u) /\ Inner(f, 14 + 4 * u)
  BY Decompose, Zenon
<1>4. OuterTags(f, t) <=> Word(f, 12 + 4 * t) = Ipv4
  BY Zenon DEF OuterTags
<1> QED
  BY <1>1, <1>2, <1>3, <1>4, Zenon

-----------------------------------------------------------------------------
(* The filter.                                                             *)

\* The states of the program after m instructions, from those before.
Ran(g, f, m) == IF m = 0 THEN {[at |-> 1, acc |-> 0]} ELSE {Execute(f, s) : s \in g[m - 1]}

Runs(g, f, N) == g = [m \in 0 .. N |-> Ran(g, f, m)]

\* One instruction more.
LEMMA RanNext ==
  ASSUME NEW g, NEW f, NEW m \in Nat
  PROVE  Ran(g, f, m + 1) = {Execute(f, s) : s \in g[m]}
BY DEF Ran

\* The program has a state after every number of instructions.
LEMMA RunExists ==
  ASSUME NEW f
  PROVE  \A N \in Nat : \E g : Runs(g, f, N)
<1> DEFINE T == {m \in Nat : \E g : Runs(g, f, m)}
<1>1. 0 \in T
  <2> DEFINE g == [m \in 0 .. 0 |-> {[at |-> 1, acc |-> 0]}]
  <2>1. g = [m \in 0 .. 0 |-> Ran(g, f, m)]
    BY DEF Ran
  <2>2. Runs(g, f, 0)
    BY <2>1, Zenon DEF Runs
  <2> QED
    BY <2>2, Zenon
<1>2. ASSUME NEW m \in Nat, m \in T PROVE m + 1 \in T
  <2>1. PICK g : Runs(g, f, m)
    BY <1>2, Zenon
  <2> DEFINE h == [j \in 0 .. m + 1 |-> IF j = m + 1 THEN Ran(g, f, j) ELSE g[j]]
  <2>2. \A j \in 0 .. m : h[j] = g[j]
    OBVIOUS
  <2>3. \A j \in 0 .. m + 1 : Ran(h, f, j) = Ran(g, f, j)
    <3>1. \A j \in 0 .. m + 1 : j # 0 => h[j - 1] = g[j - 1]
      BY <2>2
    <3> HIDE DEF h
    <3> QED
      BY <3>1, Zenon DEF Ran
  <2>4. \A j \in 0 .. m : g[j] = Ran(g, f, j)
    BY <2>1, Zenon DEF Runs
  <2>5. h = [j \in 0 .. m + 1 |-> Ran(h, f, j)]
    BY <2>3, <2>4
  <2>6. Runs(h, f, m + 1)
    BY <2>5, Zenon DEF Runs
  <2> HIDE DEF h
  <2> QED
    BY <2>6, SMTT(60)
<1>3. Nat \subseteq T
  <2> HIDE DEF T
  <2> QED
    BY <1>1, <1>2, NumberInduction, Zenon
<1> QED
  BY <1>3, Zenon

LEMMA CodeLength == Len(code) = 19
BY DEF code

\* The instructions well-formed frames meet.
LEMMA CodeIs ==
  /\ code[1] = Ld(2, 12) /\ code[2] = Jeq(2048, 0, 3)
  /\ code[3] = Ld(1, 23) /\ code[4] = Jeq(47, 13, 14)
  /\ code[6] = Jeq(33024, 1, 0) /\ code[7] = Jeq(34984, 0, 11)
  /\ code[8] = Ld(2, 16) /\ code[9] = Jeq(2048, 0, 2)
  /\ code[10] = Ld(1, 27) /\ code[11] = Jeq(47, 6, 7)
  /\ code[12] = Jeq(33024, 1, 0) /\ code[13] = Jeq(34984, 0, 5)
  /\ code[14] = Ld(2, 20) /\ code[15] = Jeq(2048, 0, 3)
  /\ code[16] = Ld(1, 31) /\ code[17] = Jeq(47, 0, 1)
  /\ code[18] = Ret(65535)
<1>1. /\ code[1] = Ld(2, 12) /\ code[2] = Jeq(2048, 0, 3)
      /\ code[3] = Ld(1, 23) /\ code[4] = Jeq(47, 13, 14)
      /\ code[6] = Jeq(33024, 1, 0) /\ code[7] = Jeq(34984, 0, 11)
  BY SMTT(60) DEF code
<1>2. /\ code[8] = Ld(2, 16) /\ code[9] = Jeq(2048, 0, 2)
      /\ code[10] = Ld(1, 27) /\ code[11] = Jeq(47, 6, 7)
      /\ code[12] = Jeq(33024, 1, 0) /\ code[13] = Jeq(34984, 0, 5)
  BY SMTT(60) DEF code
<1>3. /\ code[14] = Ld(2, 20) /\ code[15] = Jeq(2048, 0, 3)
      /\ code[16] = Ld(1, 31) /\ code[17] = Jeq(47, 0, 1)
      /\ code[18] = Ret(65535)
  BY DEF code
<1> QED
  BY <1>1, <1>2, <1>3, SMTT(60)

\* Passes looks at the states after the last step.
LEMMA PassesUnfolds ==
  ASSUME NEW f
  PROVE  \E g : Runs(g, f, 19) /\ (Passes(f) <=> \E s \in g[19] : s.at = 0 /\ s.acc > 0)
<1>1. \E g : Runs(g, f, 19)
  BY RunExists, Zenon
<1>2. \E g : g = [m \in 0 .. Len(code) |-> Ran(g, f, m)]
  BY <1>1, CodeLength, Zenon DEF Runs
<1> DEFINE g == CHOOSE h : h = [m \in 0 .. Len(code) |-> Ran(h, f, m)]
<1>3. g = [m \in 0 .. Len(code) |-> Ran(g, f, m)]
  BY <1>2, Zenon
<1>4. Passes(f) <=> \E s \in g[Len(code)] : s.at = 0 /\ s.acc > 0
  BY Zenon DEF Passes, Ran
<1> HIDE DEF g
<1>5. Runs(g, f, 19)
  BY <1>3, CodeLength, Zenon DEF Runs
<1> QED
  BY <1>4, <1>5, CodeLength, Zenon

\* Where the program can be with a frame that has t outer tags, and what it has found.
Passing(f, t, s) ==
  \/ s = [at |-> 1, acc |-> 0]
  \/ s = [at |-> 2, acc |-> Word(f, 12)]
  \/ t = 0 /\ s.at = 3
  \/ t = 0 /\ s = [at |-> 4, acc |-> 47]
  \/ t > 0 /\ s = [at |-> 6, acc |-> Word(f, 12)]
  \/ t > 0 /\ s = [at |-> 7, acc |-> Word(f, 12)] /\ s.acc # 33024
  \/ t > 0 /\ s.at = 8
  \/ t > 0 /\ s = [at |-> 9, acc |-> Word(f, 16)]
  \/ t = 1 /\ s.at = 10
  \/ t = 1 /\ s = [at |-> 11, acc |-> 47]
  \/ t = 2 /\ s = [at |-> 12, acc |-> Word(f, 16)]
  \/ t = 2 /\ s = [at |-> 13, acc |-> Word(f, 16)] /\ s.acc # 33024
  \/ t = 2 /\ s.at = 14
  \/ t = 2 /\ s = [at |-> 15, acc |-> Word(f, 20)]
  \/ t = 2 /\ s.at = 16
  \/ t = 2 /\ s = [at |-> 17, acc |-> 47]
  \/ s.at = 18
  \/ s = [at |-> 0, acc |-> 65535]

\* No instruction of the program leaves that path, and none goes back.
LEMMA PassingStep ==
  ASSUME NEW f \in Frames, NEW t \in 0 .. 2, NEW s, NEW m \in 0 .. 18,
         OuterTags(f, t), Size(f) >= 34 + 4 * t, Octet(f, 23 + 4 * t) = 47,
         Passing(f, t, s), s.at = 0 \/ s.at > m
  PROVE  /\ Passing(f, t, Execute(f, s))
         /\ Execute(f, s).at = 0 \/ Execute(f, s).at > m + 1
<1> DEFINE Goes(k, a) == Execute(f, s) = [at |-> k, acc |-> a]
           Fine == /\ Passing(f, t, Execute(f, s))
                   /\ Execute(f, s).at = 0 \/ Execute(f, s).at > m + 1
<1>1. Size(f) \in Nat
  BY FramesAssumption, Zenon
<1>2. ASSUME t = 0 PROVE Word(f, 12) = 2048 /\ Octet(f, 23) = 47
  BY <1>2 DEF OuterTags, Ipv4
<1>3. ASSUME t = 1 PROVE Word(f, 12) \in {33024, 34984} /\ Word(f, 16) = 2048 /\ Octet(f, 27) = 47
  <2>1. 0 \in 0 .. t - 1 /\ 12 + 4 * 0 = 12 /\ 12 + 4 * t = 16 /\ 23 + 4 * t = 27
    BY <1>3
  <2>2. Word(f, 12 + 4 * 0) \in TagTypes /\ Word(f, 12 + 4 * t) = Ipv4
    BY <2>1, Zenon DEF OuterTags
  <2> QED
    BY <2>1, <2>2, SMTT(60) DEF TagTypes, Vlan, Ipv4
<1>4. ASSUME t = 2
      PROVE  /\ Word(f, 12) \in {33024, 34984} /\ Word(f, 16) \in {33024, 34984}
             /\ Word(f, 20) = 2048 /\ Octet(f, 31) = 47
  <2>1. /\ 0 \in 0 .. t - 1 /\ 1 \in 0 .. t - 1 /\ 12 + 4 * 0 = 12 /\ 12 + 4 * 1 = 16
        /\ 12 + 4 * t = 20 /\ 23 + 4 * t = 31
    BY <1>4
  <2>2. /\ Word(f, 12 + 4 * 0) \in TagTypes /\ Word(f, 12 + 4 * 1) \in TagTypes
        /\ Word(f, 12 + 4 * t) = Ipv4
    BY <2>1, Zenon DEF OuterTags
  <2> QED
    BY <2>1, <2>2, SMTT(60) DEF TagTypes, Vlan, Ipv4
<1>5. s.at = 0 => Fine
  <2>1. s.at = 0 => Execute(f, s) = s
    BY Zenon DEF Execute
  <2> QED
    BY <2>1 DEF Passing
<1>6. CASE s.at = 1
  <2>1. Goes(2, Word(f, 12))
    BY <1>1, <1>6, CodeIs, SMTT(60) DEF Execute, Ld, Passing
  <2> QED
    BY <1>2, <1>3, <1>4, <1>6, <2>1, SMTT(60) DEF Passing
<1>7. CASE s.at = 2
  <2>1. Goes(IF s.acc = 2048 THEN 3 ELSE 6, s.acc)
    BY <1>7, CodeIs, SMTT(60) DEF Execute, Jeq
  <2> QED
    BY <1>2, <1>3, <1>4, <1>7, <2>1, SMTT(60) DEF Passing
<1>8. CASE s.at = 3
  <2>1. Goes(4, Octet(f, 23))
    BY <1>1, <1>8, CodeIs, SMTT(60) DEF Execute, Ld, Passing
  <2> QED
    BY <1>2, <1>3, <1>4, <1>8, <2>1, SMTT(60) DEF Passing
<1>9. CASE s.at = 4
  <2>1. Goes(IF s.acc = 47 THEN 18 ELSE 19, s.acc)
    BY <1>9, CodeIs, SMTT(60) DEF Execute, Jeq
  <2> QED
    BY <1>2, <1>3, <1>4, <1>9, <2>1, SMTT(60) DEF Passing
<1>10. CASE s.at = 6
  <2>1. Goes(IF s.acc = 33024 THEN 8 ELSE 7, s.acc)
    BY <1>10, CodeIs, SMTT(60) DEF Execute, Jeq
  <2> QED
    BY <1>2, <1>3, <1>4, <1>10, <2>1, SMTT(60) DEF Passing
<1>11. CASE s.at = 7
  <2>1. Goes(IF s.acc = 34984 THEN 8 ELSE 19, s.acc)
    BY <1>11, CodeIs, SMTT(60) DEF Execute, Jeq
  <2> QED
    BY <1>2, <1>3, <1>4, <1>11, <2>1, SMTT(60) DEF Passing
<1>12. CASE s.at = 8
  <2>1. Goes(9, Word(f, 16))
    BY <1>1, <1>12, CodeIs, SMTT(60) DEF Execute, Ld, Passing
  <2> QED
    BY <1>2, <1>3, <1>4, <1>12, <2>1, SMTT(60) DEF Passing
<1>13. CASE s.at = 9
  <2>1. Goes(IF s.acc = 2048 THEN 10 ELSE 12, s.acc)
    BY <1>13, CodeIs, SMTT(60) DEF Execute, Jeq
  <2> QED
    BY <1>2, <1>3, <1>4, <1>13, <2>1, SMTT(60) DEF Passing
<1>14. CASE s.at = 10
  <2>1. Goes(11, Octet(f, 27))
    BY <1>1, <1>14, CodeIs, SMTT(60) DEF Execute, Ld, Passing
  <2> QED
    BY <1>2, <1>3, <1>4, <1>14, <2>1, SMTT(60) DEF Passing
<1>15. CASE s.at = 11
  <2>1. Goes(IF s.acc = 47 THEN 18 ELSE 19, s.acc)
    BY <1>15, CodeIs, SMTT(60) DEF Execute, Jeq
  <2> QED
    BY <1>2, <1>3, <1>4, <1>15, <2>1, SMTT(60) DEF Passing
<1>16. CASE s.at = 12
  <2>1. Goes(IF s.acc = 33024 THEN 14 ELSE 13, s.acc)
    BY <1>16, CodeIs, SMTT(60) DEF Execute, Jeq
  <2> QED
    BY <1>2, <1>3, <1>4, <1>16, <2>1, SMTT(60) DEF Passing
<1>17. CASE s.at = 13
  <2>1. Goes(IF s.acc = 34984 THEN 14 ELSE 19, s.acc)
    BY <1>17, CodeIs, SMTT(60) DEF Execute, Jeq
  <2> QED
    BY <1>2, <1>3, <1>4, <1>17, <2>1, SMTT(60) DEF Passing
<1>18. CASE s.at = 14
  <2>1. Goes(15, Word(f, 20))
    BY <1>1, <1>18, CodeIs, SMTT(60) DEF Execute, Ld, Passing
  <2> QED
    BY <1>2, <1>3, <1>4, <1>18, <2>1, SMTT(60) DEF Passing
<1>19. CASE s.at = 15
  <2>1. Goes(IF s.acc = 2048 THEN 16 ELSE 19, s.acc)
    BY <1>19, CodeIs, SMTT(60) DEF Execute, Jeq
  <2> QED
    BY <1>2, <1>3, <1>4, <1>19, <2>1, SMTT(60) DEF Passing
<1>20. CASE s.at = 16
  <2>1. Goes(17, Octet(f, 31))
    BY <1>1, <1>20, CodeIs, SMTT(60) DEF Execute, Ld, Passing
  <2> QED
    BY <1>2, <1>3, <1>4, <1>20, <2>1, SMTT(60) DEF Passing
<1>21. CASE s.at = 17
  <2>1. Goes(IF s.acc = 47 THEN 18 ELSE 19, s.acc)
    BY <1>21, CodeIs, SMTT(60) DEF Execute, Jeq
  <2> QED
    BY <1>2, <1>3, <1>4, <1>21, <2>1, SMTT(60) DEF Passing
<1>22. CASE s.at = 18
  <2>1. Goes(0, 65535)
    BY <1>22, CodeIs, SMTT(60) DEF Execute, Ret
  <2> QED
    BY <1>2, <1>3, <1>4, <1>22, <2>1, SMTT(60) DEF Passing
<1>23. s.at \in {0, 1, 2, 3, 4, 6, 7, 8, 9, 10, 11, 12, 13, 14, 15, 16, 17, 18}
  BY DEF Passing
<1> QED
  BY <1>5, <1>6, <1>7, <1>8, <1>9, <1>10, <1>11, <1>12, <1>13, <1>14, <1>15, <1>16, <1>17, <1>18, <1>19, <1>20, <1>21, <1>22, <1>23, ZenonT(60), ZenonT(60)

\* A frame that is well-formed passes.
LEMMA WellFormedPasses ==
  ASSUME NEW f \in Frames, WellFormed(f)
  PROVE  Passes(f)
<1>1. PICK t \in 0 .. 2, w \in 5 .. 15 : OuterTags(f, t) /\ Datagram(f, 14 + 4 * t, w)
  BY Zenon DEF WellFormed, Carries
<1>2. Size(f) >= 34 + 4 * t /\ Octet(f, 23 + 4 * t) = 47
  <2>1. Size(f) >= 14 + 4 * t + 20 /\ Octet(f, 14 + 4 * t + 9) = 47
    BY <1>1, Zenon DEF Datagram
  <2> QED
    BY <2>1
<1>3. PICK g : Runs(g, f, 19) /\ (Passes(f) <=> \E s \in g[19] : s.at = 0 /\ s.acc > 0)
  BY PassesUnfolds, Zenon
<1> DEFINE T == {m \in Nat : m <= 19 => \E s \in g[m] : Passing(f, t, s) /\ (s.at = 0 \/ s.at > m)}
<1>4. 0 \in T
  <2> DEFINE s == [at |-> 1, acc |-> 0]
  <2>1. s \in g[0]
    BY <1>3, SMTT(60) DEF Runs, Ran
  <2>2. Passing(f, t, s)
    BY DEF Passing
  <2>3. s.at > 0
    OBVIOUS
  <2> HIDE DEF s
  <2> QED
    BY <2>1, <2>2, <2>3, Zenon
<1>5. ASSUME NEW m \in Nat, m \in T PROVE m + 1 \in T
  <2> SUFFICES ASSUME m + 1 <= 19
               PROVE  \E s \in g[m + 1] : Passing(f, t, s) /\ (s.at = 0 \/ s.at > m + 1)
    OBVIOUS
  <2>1. m \in 0 .. 18 /\ m + 1 \in 0 .. 19 /\ m + 1 # 0 /\ m + 1 - 1 = m
    OBVIOUS
  <2>2. g[m + 1] = {Execute(f, s) : s \in g[m]}
    <3>1. g[m + 1] = Ran(g, f, m + 1)
      BY <1>3, <2>1, Zenon DEF Runs
    <3> QED
      BY <3>1, RanNext, Zenon
  <2>3. PICK s \in g[m] : Passing(f, t, s) /\ (s.at = 0 \/ s.at > m)
    BY <1>5, <2>1, SMTT(60)
  <2>4. Passing(f, t, Execute(f, s)) /\ (Execute(f, s).at = 0 \/ Execute(f, s).at > m + 1)
    BY <1>1, <1>2, <2>1, <2>3, PassingStep, SMTT(60)
  <2> QED
    BY <2>2, <2>4, Zenon
<1>6. 19 \in T
  <2> HIDE DEF T
  <2> QED
    BY <1>4, <1>5, NumberInduction, Zenon
<1>7. PICK s \in g[19] : Passing(f, t, s) /\ (s.at = 0 \/ s.at > 19)
  BY <1>6, SMTT(60)
<1>8. s.at = 0 /\ s.acc > 0
  BY <1>7 DEF Passing
<1> QED
  BY <1>3, <1>7, <1>8, Zenon

-----------------------------------------------------------------------------
(* The steps.                                                              *)

LEMMA CaptureInit == PayloadInit => ParseInv
BY DEF PayloadInit, ParseInv, Early, Reading, Taken, ParserExact, FilterLosesNothing

\* The parser is at work on a frame of the filtered socket.
LEMMA AtWork ==
  ASSUME ParseInv, pc \in Reading \cup {"ether"}
  PROVE  /\ frame \in Frames /\ Size(frame) \in Nat /\ capture = "filtered"
         /\ high \in Nat /\ high <= Size(frame)
<1>1. pc # "idle" /\ pc \notin {"idle", "queued"}
  BY Zenon DEF Reading
<1> QED
  BY <1>1, SizeType, Zenon DEF ParseInv

LEMMA Refused ==
  ASSUME ParseInv, pc \in Reading \cup {"ether"}, UNCHANGED <<capture, frame>>, pc' = "rejected",
         high' \in Nat, high' <= Size(frame), ~WellFormed(frame)
  PROVE  ParseInv'
<1>1. frame' \in Frames /\ capture' = "filtered" /\ frame' = frame
  BY AtWork, Zenon
<1> QED
  BY <1>1, Zenon DEF ParseInv, Early, Reading, Taken, ParserExact, FilterLosesNothing

LEMMA ReachType ==
  ASSUME NEW k \in Nat, NEW m \in Nat, high \in Nat, high <= m, k <= m, Reach(k)
  PROVE  high' \in Nat /\ high' <= m
BY Zenon DEF Reach

LEMMA EtherStep == ASSUME ParseInv, ParseEther PROVE ParseInv'
<1>1. /\ pc = "ether" /\ pc \in Reading \cup {"ether"}
      /\ UNCHANGED <<capture, frame>> /\ frame' = frame /\ capture' = capture
  BY Zenon DEF ParseEther
<1>2. /\ frame \in Frames /\ Size(frame) \in Nat /\ capture = "filtered"
      /\ high \in Nat /\ high <= Size(frame)
  BY <1>1, AtWork, Zenon
<1>3. CASE Size(frame) < 14
  <2>1. ~WellFormed(frame)
    <3>1. WellFormed(frame) => \E u \in 0 .. 2 : Header(frame, 14 + 4 * u)
      BY <1>2, Decompose, Zenon
    <3>2. \A u \in 0 .. 2 : ~(Size(frame) >= 14 + 4 * u + 20)
      BY <1>2, <1>3
    <3> QED
      BY <3>1, <3>2, Zenon DEF Header
  <2>2. pc' = "rejected" /\ high' = high
    BY <1>3, Zenon DEF ParseEther, parseVars
  <2> QED
    BY <1>1, <1>2, <2>1, <2>2, Refused, Zenon
<1>4. CASE ~(Size(frame) < 14)
  <2>1. /\ pc' = "tags" /\ offset' = 14 /\ type' = Word(frame, 12) /\ tags' = 0 /\ Reach(14)
    BY <1>4, Zenon DEF ParseEther
  <2>2. high' \in Nat /\ high' <= Size(frame)
    BY <1>2, <1>4, <2>1, ReachType, SMTT(60)
  <2>3. Known'
    BY <1>1, <1>2, <1>4, <2>1, SMTT(60) DEF Known
  <2> QED
    BY <1>1, <1>2, <2>1, <2>2, <2>3, Zenon DEF ParseInv, Early, Reading, Taken, ParserExact, FilterLosesNothing
<1> QED
  BY <1>3, <1>4, Zenon

LEMMA TagStep == ASSUME ParseInv, ParseTag PROVE ParseInv'
<1>1. /\ pc = "tags" /\ pc \in Reading \cup {"ether"} /\ type \in TagTypes
      /\ UNCHANGED <<capture, frame>> /\ frame' = frame /\ capture' = capture
  BY Zenon DEF ParseTag, Reading
<1>2. /\ frame \in Frames /\ Size(frame) \in Nat /\ capture = "filtered"
      /\ high \in Nat /\ high <= Size(frame)
  BY <1>1, AtWork, Zenon
<1>3. Known
  BY <1>1, Zenon DEF ParseInv, Reading
<1>4. /\ tags \in 0 .. 2 /\ offset = 14 + 4 * tags /\ offset <= Size(frame)
      /\ type = Word(frame, 12 + 4 * tags)
      /\ \A j \in 0 .. tags - 1 : Word(frame, 12 + 4 * j) \in TagTypes
  BY <1>3, Zenon DEF Known
<1>5. \A j \in 0 .. tags : Word(frame, 12 + 4 * j) \in TagTypes
  <2>1. \A j \in 0 .. tags : j \in 0 .. tags - 1 \/ j = tags
    BY <1>4
  <2> QED
    BY <1>1, <1>4, <2>1, Zenon
<1>6. Minus(Size(frame), offset) = Size(frame) - offset
  BY <1>2, <1>4, Zenon DEF Minus
<1>7. CASE tags = 2 \/ Minus(Size(frame), offset) < 4
  <2>1. ~WellFormed(frame)
    <3>1. ASSUME NEW u \in 0 .. 2, OuterTags(frame, u), Header(frame, 14 + 4 * u) PROVE FALSE
      <4>1. tags + 1 \in Nat /\ \A j \in 0 .. (tags + 1) - 1 : j \in 0 .. tags
        BY <1>4
      <4>2. tags + 1 <= u
        BY <1>5, <3>1, <4>1, TagsUnique, Zenon
      <4>3. Size(frame) >= 14 + 4 * u + 20
        BY <3>1, Zenon DEF Header
      <4> QED
        BY <1>2, <1>4, <1>6, <1>7, <4>2, <4>3, SMTT(60)
    <3> QED
      BY <1>2, <3>1, Decompose, Zenon
  <2>2. pc' = "rejected" /\ high' = high
    BY <1>7, Zenon DEF ParseTag, parseVars
  <2> QED
    BY <1>1, <1>2, <2>1, <2>2, Refused, Zenon
<1>8. CASE ~(tags = 2 \/ Minus(Size(frame), offset) < 4)
  <2>1. /\ pc' = "tags" /\ offset' = offset + 4 /\ type' = Word(frame, offset + 2) /\ tags' = tags + 1
        /\ Reach(offset + 4)
    BY <1>1, <1>8, Zenon DEF ParseTag
  <2>2. tags' \in 0 .. 2 /\ offset' = 14 + 4 * tags' /\ offset' <= Size(frame) /\ offset + 4 \in Nat
    BY <1>2, <1>4, <1>6, <1>8, <2>1, SMTT(60)
  <2>3. high' \in Nat /\ high' <= Size(frame)
    BY <1>2, <2>1, <2>2, ReachType, Zenon
  <2>4. offset + 2 = 12 + 4 * tags' /\ tags' - 1 = tags
    BY <1>4, <2>1
  <2>5. Known'
    BY <1>1, <1>5, <2>1, <2>2, <2>4, Zenon DEF Known
  <2> QED
    BY <1>1, <1>2, <2>1, <2>3, <2>5, Zenon DEF ParseInv, Early, Reading, Taken, ParserExact, FilterLosesNothing
<1> QED
  BY <1>7, <1>8, Zenon

\* What is known when the tags are done.
LEMMA BehindTags ==
  ASSUME ParseInv, pc \in Reading, type \notin TagTypes
  PROVE  /\ frame \in Frames /\ Size(frame) \in Nat /\ capture = "filtered"
         /\ high \in Nat /\ high <= Size(frame)
         /\ Known /\ offset \in Nat /\ offset <= Size(frame)
         /\ WellFormed(frame) <=> type = Ipv4 /\ Header(frame, offset) /\ Inner(frame, offset)
<1>1. /\ frame \in Frames /\ Size(frame) \in Nat /\ capture = "filtered"
      /\ high \in Nat /\ high <= Size(frame)
  BY AtWork, Zenon
<1>2. Known
  BY Zenon DEF ParseInv
<1>3. /\ tags \in 0 .. 2 /\ offset = 14 + 4 * tags /\ offset <= Size(frame)
      /\ type = Word(frame, 12 + 4 * tags)
      /\ \A j \in 0 .. tags - 1 : Word(frame, 12 + 4 * j) \in TagTypes
  BY <1>2, Zenon DEF Known
<1>4. offset \in Nat
  BY <1>3
<1>5. WellFormed(frame) <=> type = Ipv4 /\ Header(frame, offset) /\ Inner(frame, offset)
  BY <1>1, <1>3, KnownTags, Zenon
<1> QED
  BY <1>1, <1>2, <1>3, <1>4, <1>5, Zenon

LEMMA IpIsNoTag == Ipv4 \notin TagTypes
BY DEF Ipv4, TagTypes, Vlan

LEMMA IpStep == ASSUME ParseInv, ParseIp PROVE ParseInv'
<1>1. /\ pc = "tags" /\ pc \in Reading /\ type \notin TagTypes
      /\ UNCHANGED <<capture, frame>> /\ frame' = frame /\ capture' = capture
      /\ UNCHANGED <<offset, type, tags>>
  BY Zenon DEF ParseIp, Reading
<1>2. /\ frame \in Frames /\ Size(frame) \in Nat /\ capture = "filtered"
      /\ high \in Nat /\ high <= Size(frame)
      /\ Known /\ offset \in Nat /\ offset <= Size(frame)
      /\ WellFormed(frame) <=> type = Ipv4 /\ Header(frame, offset) /\ Inner(frame, offset)
  BY <1>1, BehindTags, Zenon
<1>3. Minus(Size(frame), offset) = Size(frame) - offset
  BY <1>2, Zenon DEF Minus
<1>4. Minus(Size(frame), offset) < 20 <=> ~(Size(frame) >= offset + 20)
  BY <1>2, <1>3, SMTT(60)
<1>5. CASE type # Ipv4 \/ Minus(Size(frame), offset) < 20
  <2>1. ~WellFormed(frame)
    BY <1>2, <1>4, <1>5, Zenon DEF Header
  <2>2. pc' = "rejected" /\ high' = high
    BY <1>5, Zenon DEF ParseIp
  <2> QED
    BY <1>1, <1>2, <2>1, <2>2, Refused, Zenon
<1>6. CASE ~(type # Ipv4 \/ Minus(Size(frame), offset) < 20)
  <2>1. /\ Reach(offset + 20)
        /\ pc' = IF IpOk(frame, offset) THEN "gre" ELSE "rejected"
    BY <1>6, Zenon DEF ParseIp
  <2>2. Size(frame) >= offset + 20 /\ type = Ipv4
    BY <1>4, <1>6, Zenon
  <2>3. high' \in Nat /\ high' <= Size(frame)
    BY <1>2, <2>1, <2>2, ReachType, SMTT(60)
  <2>4. CASE ~IpOk(frame, offset)
    <3>1. pc' = "rejected" /\ ~WellFormed(frame)
      BY <1>2, <2>1, <2>4, Zenon DEF Header
    <3> QED
      BY <1>1, <1>2, <2>3, <3>1, Refused, Zenon
  <2>5. CASE IpOk(frame, offset)
    <3>1. pc' = "gre" /\ Header(frame, offset)
      BY <2>1, <2>2, <2>5, Zenon DEF Header
    <3>2. Known'
      BY <1>1, <1>2, Zenon DEF Known
    <3>3. Header(frame, offset)'
      BY <1>1, <3>1, Zenon
    <3> QED
      BY <1>1, <1>2, <2>2, <2>3, <3>1, <3>2, <3>3, ZenonT(60) DEF ParseInv, Early, Reading, Taken, ParserExact, FilterLosesNothing
  <2> QED
    BY <2>4, <2>5, Zenon
<1> QED
  BY <1>5, <1>6, Zenon

LEMMA GreStep == ASSUME ParseInv, ParseGre PROVE ParseInv'
<1> DEFINE gre == offset + Ihl(frame, offset)
<1>1. /\ pc = "gre" /\ pc \in Reading
      /\ UNCHANGED <<capture, frame>> /\ frame' = frame /\ capture' = capture
      /\ UNCHANGED <<offset, type, tags>>
      /\ Reach(gre + 4) /\ pc' = IF GreOk(frame, gre) THEN "inner" ELSE "rejected"
  BY Zenon DEF ParseGre, Reading
<1>2. type = Ipv4 /\ Header(frame, offset)
  BY <1>1, Zenon DEF ParseInv
<1>3. /\ frame \in Frames /\ Size(frame) \in Nat /\ capture = "filtered"
      /\ high \in Nat /\ high <= Size(frame)
      /\ Known /\ offset \in Nat /\ offset <= Size(frame)
      /\ WellFormed(frame) <=> type = Ipv4 /\ Header(frame, offset) /\ Inner(frame, offset)
  BY <1>1, <1>2, BehindTags, IpIsNoTag, Zenon
<1>4. gre + 4 \in Nat /\ gre + 4 <= Size(frame)
  <2>1. /\ Octet(frame, offset) \in 64 .. 79
        /\ Ihl(frame, offset) = 4 * (Octet(frame, offset) - 64)
        /\ Octet(frame, offset) - 64 \in 5 .. 15
        /\ Total(frame, offset) \in Nat
        /\ Total(frame, offset) >= Ihl(frame, offset) + 4
        /\ offset + Total(frame, offset) <= Size(frame)
    BY <1>2, <1>3, HeaderBounds, Zenon
  <2> QED
    BY <1>3, <2>1, SMTT(60)
<1>5. high' \in Nat /\ high' <= Size(frame)
  BY <1>1, <1>3, <1>4, ReachType, Zenon
<1>6. CASE ~GreOk(frame, gre)
  <2>1. pc' = "rejected" /\ ~WellFormed(frame)
    BY <1>1, <1>3, <1>6, Zenon DEF Inner
  <2> QED
    BY <1>1, <1>3, <1>5, <2>1, Refused, Zenon
<1>7. CASE GreOk(frame, gre)
  <2>1. pc' = "inner"
    BY <1>1, <1>7, Zenon
  <2>2. Known'
    BY <1>1, <1>3, Zenon DEF Known
  <2>3. Header(frame, offset)' /\ GreOk(frame, gre)'
    BY <1>1, <1>2, <1>7, Zenon
  <2> QED
    BY <1>1, <1>2, <1>3, <1>5, <2>1, <2>2, <2>3, Zenon DEF ParseInv, Early, Reading, Taken, ParserExact, FilterLosesNothing
<1> QED
  BY <1>6, <1>7, Zenon

LEMMA InnerStep == ASSUME ParseInv, ParseInner PROVE ParseInv'
<1> DEFINE ihl == Ihl(frame, offset)
           total == Total(frame, offset)
           remaining == total - ihl - 4
           ether == offset + ihl + 4
<1>1. /\ pc = "inner" /\ pc \in Reading
      /\ UNCHANGED <<capture, frame>> /\ frame' = frame /\ capture' = capture
  BY Zenon DEF ParseInner, Reading
<1>2. type = Ipv4 /\ Header(frame, offset) /\ GreOk(frame, offset + ihl)
  BY <1>1, Zenon DEF ParseInv
<1>3. /\ frame \in Frames /\ Size(frame) \in Nat /\ capture = "filtered"
      /\ high \in Nat /\ high <= Size(frame)
      /\ offset \in Nat
      /\ WellFormed(frame) <=> type = Ipv4 /\ Header(frame, offset) /\ Inner(frame, offset)
  BY <1>1, <1>2, BehindTags, IpIsNoTag, ZenonT(60)
<1>4. /\ ihl \in Nat /\ total \in Nat /\ total >= ihl + 4 /\ offset + total <= Size(frame)
  <2>1. /\ Octet(frame, offset) \in 64 .. 79
        /\ ihl = 4 * (Octet(frame, offset) - 64)
        /\ Octet(frame, offset) - 64 \in 5 .. 15
        /\ total \in Nat
        /\ total >= ihl + 4
        /\ offset + total <= Size(frame)
    BY <1>2, <1>3, HeaderBounds, Zenon
  <2>2. ihl \in Nat
    BY <2>1
  <2> QED
    BY <2>1, <2>2, Zenon
<1>5. WellFormed(frame) <=> total >= ihl + 22 /\ Word(frame, ether + 12) = Vlan /\ InnerOk(frame, ether)
  BY <1>2, <1>3, Zenon DEF Inner
<1>6. /\ remaining < 14 => pc' = "rejected" /\ high' = high
      /\ ~(remaining < 14) =>
           /\ type' = Word(frame, ether + 12)
           /\ type' # Vlan \/ remaining < 18 => pc' = "rejected" /\ Reach(ether + 14)
           /\ ~(type' # Vlan \/ remaining < 18) =>
                /\ Reach(ether + 18)
                /\ pc' = IF InnerOk(frame, ether) THEN "accepted" ELSE "rejected"
  BY Zenon DEF ParseInner
<1> HIDE DEF ihl, total
<1>7. /\ ether + 14 \in Nat /\ ether + 18 \in Nat
      /\ ~(remaining < 14) => ether + 14 <= Size(frame)
      /\ ~(remaining < 18) => ether + 18 <= Size(frame)
      /\ remaining < 14 => remaining < 18
      /\ remaining < 18 <=> ~(total >= ihl + 22)
  BY <1>3, <1>4, SMTT(60)
<1> HIDE DEF remaining, ether
<1>8. high' \in Nat /\ high' <= Size(frame)
  <2>1. CASE remaining < 14
    BY <1>3, <1>6, <2>1, Zenon
  <2>2. CASE ~(remaining < 14) /\ Reach(ether + 14)
    BY <1>3, <1>7, <2>2, ReachType, Zenon
  <2>3. CASE ~(remaining < 18) /\ Reach(ether + 18)
    BY <1>3, <1>7, <2>3, ReachType, Zenon
  <2> QED
    BY <1>6, <2>1, <2>2, <2>3, Zenon
<1>9. CASE WellFormed(frame)
  <2>1. pc' = "accepted"
    BY <1>5, <1>6, <1>7, <1>9, Zenon
  <2> QED
    BY <1>1, <1>3, <1>8, <1>9, <2>1, Zenon DEF ParseInv, Early, Reading, Taken, ParserExact, FilterLosesNothing
<1>10. CASE ~WellFormed(frame)
  <2>1. pc' = "rejected"
    BY <1>5, <1>6, <1>7, <1>10, ZenonT(60)
  <2> QED
    BY <1>1, <1>8, <1>10, <2>1, Refused, Zenon
<1> QED
  BY <1>9, <1>10, Zenon

\* The socket and the kernel: only frames nobody reads yet are touched.
LEMMA SocketStep ==
  ASSUME ParseInv, Socket \/ Configure \/ (\E f \in Frames : Arrive(f)) \/ Filter \/ Receive
  PROVE  ParseInv'
<1>1. CASE Socket
  BY <1>1, Zenon DEF Socket, ParseInv, Early, Reading, Taken, ParserExact, FilterLosesNothing, Known, parseVars
<1>2. CASE Configure
  <2>1. capture # "filtered" /\ pc \in {"idle", "queued"} /\ high = 0
    BY <1>2, Zenon DEF Configure, ParseInv, Early
  <2>2. high' = high
    BY <1>2, ZenonT(60) DEF Configure, parseVars
  <2> QED
    BY <1>2, <2>1, <2>2, ZenonT(60) DEF Configure, ParseInv, Early, Reading, Taken, ParserExact, FilterLosesNothing
<1>3. ASSUME NEW f \in Frames, Arrive(f) PROVE ParseInv'
  <2>1. pc = "idle" /\ high' = 0 /\ frame' = f /\ pc' \in {"filter", "queued"} /\ capture' = capture
        /\ (capture # "filtered" => pc' = "queued")
    BY <1>3, FramesAssumption, Zenon DEF Arrive, ParseInv, Early, parseVars
  <2>2. Size(f) \in Nat
    BY SizeType, Zenon
  <2> QED
    BY <2>1, <2>2, SMTT(60) DEF ParseInv, Early, Reading, Taken, ParserExact, FilterLosesNothing
<1>4. CASE Filter
  <2>1. /\ pc = "filter" /\ pc' \in {"queued", "dropped"} /\ frame' = frame /\ capture' = capture
        /\ high' = high /\ (pc' = "dropped" => ~Passes(frame))
    BY <1>4, Zenon DEF Filter, parseVars
  <2>2. frame \in Frames
    BY <2>1, Zenon DEF ParseInv
  <2>3. pc' = "dropped" => ~WellFormed(frame)
    BY <2>1, <2>2, WellFormedPasses, Zenon
  <2> QED
    BY <2>1, <2>3, Zenon DEF ParseInv, Early, Reading, Taken, ParserExact, FilterLosesNothing
<1>5. CASE Receive
  <2>1. /\ pc = "queued" /\ pc' \in {"ether", "skipped"} /\ frame' = frame /\ capture' = capture
        /\ high' = high /\ capture = "filtered"
    BY <1>5, Zenon DEF Receive, parseVars
  <2> QED
    BY <2>1, Zenon DEF ParseInv, Early, Reading, Taken, ParserExact, FilterLosesNothing
<1> QED
  BY <1>1, <1>2, <1>3, <1>4, <1>5, Zenon

LEMMA ForgetStep == ASSUME ParseInv, Drop \/ Discard PROVE ParseInv'
BY DEF Drop, Discard, Forgotten, ParseInv, Early, Reading, Taken, ParserExact, FilterLosesNothing

\* provision_packet looks at a packet; the frame is forgotten afterwards, or because main
\* ends or dies.
LEMMA HandleStep ==
  ASSUME ParseInv,
         \/ pc = "accepted" /\ pc' \in {"eligible", "ignored"} /\ UNCHANGED <<capture, frame, parseVars>>
         \/ Forgotten /\ capture' \in {capture, "closed"}
  PROVE  ParseInv'
<1>1. CASE Forgotten /\ capture' \in {capture, "closed"}
  BY <1>1, Zenon DEF Forgotten, ParseInv, Early, Reading, Taken, ParserExact, FilterLosesNothing
<1>2. CASE pc = "accepted" /\ pc' \in {"eligible", "ignored"} /\ UNCHANGED <<capture, frame, parseVars>>
  <2>1. high' = high
    BY <1>2, Zenon DEF parseVars
  <2> QED
    BY <1>2, <2>1, Zenon DEF ParseInv, Early, Reading, Taken, ParserExact, FilterLosesNothing
<1> QED
  BY <1>1, <1>2, Zenon

-----------------------------------------------------------------------------
(* The configuration: what main works with is what the command line and    *)
(* the file say, for every command line and every file.                    *)

\* The largest of the numbers up to m that are in S.
LEMMA MaxOf ==
  ASSUME NEW m \in Nat, NEW S, S \subseteq 1 .. m, S # {}
  PROVE  Max(S) \in S /\ \A y \in S : y <= Max(S)
<1> DEFINE T == {m - x : x \in S}
<1>1. T \subseteq Nat /\ T # {}
  <2>1. \A x \in S : m - x \in Nat
    OBVIOUS
  <2> QED
    BY <2>1, Zenon
<1>2. PICK t \in T : \A y \in T : t <= y
  <2> HIDE DEF T
  <2> QED
    BY <1>1, Least, Zenon
<1>3. PICK x \in S : t = m - x
  BY <1>2, Zenon
<1>4. \A y \in S : x >= y
  <2>1. \A y \in S : m - y \in T
    BY Zenon
  <2>2. \A y \in S : m - x <= m - y
    BY <1>2, <1>3, <2>1, Zenon
  <2> QED
    BY <2>2
<1>5. Max(S) \in S /\ \A y \in S : Max(S) >= y
  BY <1>4, Zenon DEF Max
<1> QED
  BY <1>5, Zenon

LEMMA MaxIs ==
  ASSUME NEW m \in Nat, NEW S, S \subseteq 1 .. m, m \in S
  PROVE  Max(S) = m
<1>1. Max(S) \in S /\ \A y \in S : y <= Max(S)
  BY MaxOf, Zenon
<1>2. Max(S) \in 1 .. m
  BY <1>1, Zenon
<1> QED
  BY <1>1, <1>2, SMTT(60)

-----------------------------------------------------------------------------
(* The command line.                                                       *)

\* Of the first m - 1 arguments: the last one with this letter, and the number of -d.
Marked(a, letter, m) == {k \in 1 .. m - 1 : a[k].o = letter}

OptionTo(a, letter, m) ==
  IF Marked(a, letter, m) = {} THEN Null ELSE a[Max(Marked(a, letter, m))].arg

Level(a, m) ==
  IF Cardinality(Marked(a, "d", m)) < 4 THEN Cardinality(Marked(a, "d", m)) ELSE 4

LEMMA MarkedNext ==
  ASSUME NEW a, NEW letter, NEW m \in Nat \ {0}
  PROVE  /\ Marked(a, letter, m) \subseteq 1 .. m - 1
         /\ a[m].o = letter => Marked(a, letter, m + 1) = Marked(a, letter, m) \cup {m}
         /\ a[m].o # letter => Marked(a, letter, m + 1) = Marked(a, letter, m)
BY DEF Marked

LEMMA OptionNext ==
  ASSUME NEW a, NEW letter, NEW m \in Nat \ {0}
  PROVE  /\ a[m].o = letter => OptionTo(a, letter, m + 1) = a[m].arg
         /\ a[m].o # letter => OptionTo(a, letter, m + 1) = OptionTo(a, letter, m)
<1>1. ASSUME a[m].o = letter PROVE OptionTo(a, letter, m + 1) = a[m].arg
  <2>1. /\ Marked(a, letter, m + 1) \subseteq 1 .. m /\ m \in Marked(a, letter, m + 1)
    BY <1>1 DEF Marked
  <2>2. Max(Marked(a, letter, m + 1)) = m
    BY <2>1, MaxIs, Zenon
  <2> QED
    BY <2>1, <2>2, Zenon DEF OptionTo
<1>2. ASSUME a[m].o # letter PROVE OptionTo(a, letter, m + 1) = OptionTo(a, letter, m)
  <2>1. Marked(a, letter, m + 1) = Marked(a, letter, m)
    BY <1>2, MarkedNext, SMTT(60)
  <2> QED
    BY <2>1, Zenon DEF OptionTo
<1> QED
  BY <1>1, <1>2, Zenon

LEMMA LevelNext ==
  ASSUME NEW a, NEW m \in Nat \ {0}
  PROVE  /\ Level(a, m) \in 0 .. 4
         /\ a[m].o = "d" => Level(a, m + 1) = IF Level(a, m) + 1 < 4 THEN Level(a, m) + 1 ELSE 4
         /\ a[m].o # "d" => Level(a, m + 1) = Level(a, m)
<1> DEFINE S == Marked(a, "d", m)
<1>1. IsFiniteSet(1 .. m - 1)
  BY FS_Interval
<1>2. S \subseteq 1 .. m - 1
  BY MarkedNext, Zenon
<1>3. IsFiniteSet(S)
  BY <1>1, <1>2, FS_Subset, Zenon
<1>4. Cardinality(S) \in Nat
  BY <1>3, FS_CardinalityType, Zenon
<1>5. m \notin S
  BY <1>2
<1>6. Cardinality(S \cup {m}) = Cardinality(S) + 1
  BY <1>3, <1>5, FS_AddElement, Zenon
<1>7. Level(a, m) = IF Cardinality(S) < 4 THEN Cardinality(S) ELSE 4
  BY Zenon DEF Level
<1>0. /\ a[m].o = "d" => Marked(a, "d", m + 1) = Marked(a, "d", m) \cup {m}
      /\ a[m].o # "d" => Marked(a, "d", m + 1) = Marked(a, "d", m)
  BY MarkedNext, SMTT(60)
<1>8. ASSUME a[m].o # "d" PROVE Level(a, m + 1) = Level(a, m)
  <2>1. Marked(a, "d", m + 1) = Marked(a, "d", m)
    BY <1>0, <1>8, Zenon
  <2> QED
    BY <2>1, Zenon DEF Level
<1>9. ASSUME a[m].o = "d"
      PROVE  Level(a, m + 1) = IF Cardinality(S) + 1 < 4 THEN Cardinality(S) + 1 ELSE 4
  <2>1. Marked(a, "d", m + 1) = Marked(a, "d", m) \cup {m}
    BY <1>0, <1>9, Zenon
  <2> QED
    BY <1>6, <2>1, Zenon DEF Level
<1> HIDE DEF S
<1> QED
  BY <1>4, <1>7, <1>8, <1>9, SMTT(60)

-----------------------------------------------------------------------------
(* The file.                                                               *)

\* The group in which line m of file f stands, if it is no header; the lines up to
\* m - 1 about a key of a group, and what the last of them says.
Under(f, g, m) ==
  \E h \in 1 .. m - 1 : /\ f[h].kind = "group" /\ f[h].name = g
                        /\ \A k \in h + 1 .. m - 1 : f[k].kind # "group"

About(f, g, key, m) == {j \in 1 .. m - 1 : f[j].kind = "pair" /\ f[j].name = key /\ Under(f, g, j)}

GivenTo(f, g, key, m) ==
  IF About(f, g, key, m) = {} THEN Null ELSE f[Max(About(f, g, key, m))].value

LEMMA UnderNext ==
  ASSUME NEW f, NEW g, NEW m \in Nat \ {0}
  PROVE  /\ f[m].kind = "group" => (Under(f, g, m + 1) <=> f[m].name = g)
         /\ f[m].kind # "group" => (Under(f, g, m + 1) <=> Under(f, g, m))
<1>1. Under(f, g, m + 1) <=>
        \E h \in 1 .. m : /\ f[h].kind = "group" /\ f[h].name = g
                          /\ \A k \in h + 1 .. m : f[k].kind # "group"
  <2>1. m + 1 - 1 = m
    OBVIOUS
  <2> QED
    BY <2>1 DEF Under
<1>2. ASSUME f[m].kind = "group", f[m].name = g PROVE Under(f, g, m + 1)
  <2>1. m \in 1 .. m /\ \A k \in m + 1 .. m : FALSE
    OBVIOUS
  <2> QED
    BY <1>1, <1>2, <2>1, Zenon
<1>3. ASSUME f[m].kind = "group", Under(f, g, m + 1) PROVE f[m].name = g
  <2>1. PICK h \in 1 .. m : f[h].name = g /\ \A k \in h + 1 .. m : f[k].kind # "group"
    BY <1>1, <1>3, Zenon
  <2>2. m \notin h + 1 .. m
    BY <1>3, <2>1, Zenon
  <2>3. h = m
    BY <2>2, SMTT(60)
  <2> QED
    BY <2>1, <2>3, Zenon
<1>4. ASSUME f[m].kind # "group", Under(f, g, m + 1) PROVE Under(f, g, m)
  <2>1. PICK h \in 1 .. m : /\ f[h].kind = "group" /\ f[h].name = g
                            /\ \A k \in h + 1 .. m : f[k].kind # "group"
    BY <1>1, <1>4, Zenon
  <2>2. h # m
    BY <1>4, <2>1, Zenon
  <2>3. h \in 1 .. m - 1 /\ h + 1 .. m - 1 \subseteq h + 1 .. m
    BY <2>2
  <2> QED
    BY <2>1, <2>3, Zenon DEF Under
<1>5. ASSUME f[m].kind # "group", Under(f, g, m) PROVE Under(f, g, m + 1)
  <2>1. PICK h \in 1 .. m - 1 : /\ f[h].kind = "group" /\ f[h].name = g
                                /\ \A k \in h + 1 .. m - 1 : f[k].kind # "group"
    BY <1>5, Zenon DEF Under
  <2>2. h \in 1 .. m /\ \A k \in h + 1 .. m : k \in h + 1 .. m - 1 \/ k = m
    BY SMTT(60)
  <2> QED
    BY <1>1, <1>5, <2>1, <2>2, ZenonT(60)
<1> QED
  BY <1>2, <1>3, <1>4, <1>5, Zenon

LEMMA AboutNext ==
  ASSUME NEW f, NEW g, NEW key, NEW m \in Nat \ {0}
  PROVE  /\ About(f, g, key, m) \subseteq 1 .. m - 1
         /\ f[m].kind = "pair" /\ f[m].name = key /\ Under(f, g, m) =>
              About(f, g, key, m + 1) = About(f, g, key, m) \cup {m}
         /\ ~(f[m].kind = "pair" /\ f[m].name = key /\ Under(f, g, m)) =>
              About(f, g, key, m + 1) = About(f, g, key, m)
BY DEF About

LEMMA GivenNext ==
  ASSUME NEW f, NEW g, NEW key, NEW m \in Nat \ {0}
  PROVE  /\ f[m].kind = "pair" /\ f[m].name = key /\ Under(f, g, m) =>
              GivenTo(f, g, key, m + 1) = f[m].value
         /\ ~(f[m].kind = "pair" /\ f[m].name = key /\ Under(f, g, m)) =>
              GivenTo(f, g, key, m + 1) = GivenTo(f, g, key, m)
<1>1. ASSUME f[m].kind = "pair" /\ f[m].name = key /\ Under(f, g, m)
      PROVE  GivenTo(f, g, key, m + 1) = f[m].value
  <2>1. About(f, g, key, m + 1) \subseteq 1 .. m /\ m \in About(f, g, key, m + 1)
    BY <1>1, SMTT(60) DEF About
  <2>2. Max(About(f, g, key, m + 1)) = m
    BY <2>1, MaxIs, Zenon
  <2> QED
    BY <2>1, <2>2, Zenon DEF GivenTo
<1>2. ASSUME ~(f[m].kind = "pair" /\ f[m].name = key /\ Under(f, g, m))
      PROVE  GivenTo(f, g, key, m + 1) = GivenTo(f, g, key, m)
  <2>1. About(f, g, key, m + 1) = About(f, g, key, m)
    BY <1>2, AboutNext, SMTT(60)
  <2> QED
    BY <2>1, Zenon DEF GivenTo
<1> QED
  BY <1>1, <1>2, Zenon

\* Given reads the whole file.
LEMMA GivenIs ==
  ASSUME NEW g, NEW key, Len(File) \in Nat
  PROVE  Given(g, key) = GivenTo(File, g, key, Len(File) + 1)
<1> DEFINE f == File
<1>1. ASSUME NEW j \in 1 .. Len(f), f[j].kind = "pair"
      PROVE  InGroup(g, j) <=> Under(f, g, j)
  <2>1. ASSUME NEW h \in 1 .. j - 1
        PROVE  (\A k \in h + 1 .. j : f[k].kind # "group") <=> \A k \in h + 1 .. j - 1 : f[k].kind # "group"
    <3>1. /\ h + 1 .. j - 1 \subseteq h + 1 .. j
          /\ \A k \in h + 1 .. j : k \in h + 1 .. j - 1 \/ k = j
      OBVIOUS
    <3> QED
      BY <1>1, <3>1, Zenon
  <2> QED
    BY <2>1, Zenon DEF InGroup, Under
<1>2. About(f, g, key, Len(f) + 1)
        = {j \in 1 .. Len(f) : f[j].kind = "pair" /\ f[j].name = key /\ InGroup(g, j)}
  <2>1. 1 .. Len(f) + 1 - 1 = 1 .. Len(f)
    OBVIOUS
  <2>2. About(f, g, key, Len(f) + 1)
          = {j \in 1 .. Len(f) : f[j].kind = "pair" /\ f[j].name = key /\ Under(f, g, j)}
    BY <2>1 DEF About
  <2> QED
    BY <1>1, <2>2, Zenon
<1> HIDE DEF f
<1> QED
  BY <1>2, Zenon DEF Given, GivenTo, f

\* What ini_get finds among the pairs s.
Hits(s, g, key) == {j \in 1 .. Len(s) : s[j].group = g /\ s[j].key = key}
Get(s, g, key) == IF Hits(s, g, key) = {} THEN Null ELSE s[Max(Hits(s, g, key))].value

LEMMA GetNext ==
  ASSUME NEW E, NEW s \in Seq(E), NEW e \in E, NEW g, NEW key
  PROVE  /\ e.group = g /\ e.key = key => Get(Append(s, e), g, key) = e.value
         /\ ~(e.group = g /\ e.key = key) => Get(Append(s, e), g, key) = Get(s, g, key)
<1> DEFINE t == Append(s, e)
           m == Len(s) + 1
<1>1. /\ Len(s) \in Nat /\ Len(t) = m /\ m \in Nat /\ t[m] = e
      /\ \A j \in 1 .. Len(s) : t[j] = s[j]
  BY AppendProperties, LenProperties, SMTT(60)
<1>2. ASSUME e.group = g, e.key = key PROVE Get(t, g, key) = e.value
  <2>1. Hits(t, g, key) \subseteq 1 .. m /\ m \in Hits(t, g, key)
    BY <1>1, <1>2, SMTT(60) DEF Hits
  <2>2. Max(Hits(t, g, key)) = m
    BY <1>1, <2>1, MaxIs, ZenonT(60)
  <2> QED
    BY <1>1, <2>1, <2>2, ZenonT(60) DEF Get
<1>3. ASSUME ~(e.group = g /\ e.key = key) PROVE Get(t, g, key) = Get(s, g, key)
  <2>1. Hits(t, g, key) = Hits(s, g, key) /\ Hits(s, g, key) \subseteq 1 .. Len(s)
    BY <1>1, <1>3, SMTT(60) DEF Hits
  <2>2. Hits(s, g, key) # {} => Max(Hits(s, g, key)) \in 1 .. Len(s)
    BY <1>1, <2>1, MaxOf, Zenon
  <2> QED
    BY <1>1, <2>1, <2>2, ZenonT(60) DEF Get
<1> QED
  BY <1>2, <1>3, Zenon

LEMMA GetIs == \A g, key : ini_get(g, key) = Get(ini, g, key)
BY Zenon DEF ini_get, Get, Hits

-----------------------------------------------------------------------------
(* The steps.                                                              *)

Groups == {"global", "debug", "service"}
Keys == {"allow-remotes", "bridge-map", "pid-file", "log-file", "enable"}

\* cfg holds what the first m - 1 arguments say.
Options(m) ==
  /\ cfg.config_file = OptionTo(Argv, "c", m) /\ cfg.pid_file = OptionTo(Argv, "p", m)
  /\ cfg.log_file = OptionTo(Argv, "l", m) /\ cfg.dbg_mode = Level(Argv, m) /\ cfg.dbg_enable = FALSE

Names(f) == {f[j].name : j \in 1 .. Len(f)}
Pairs(f) == [group : {""} \cup Names(f), key : Names(f), value : {f[j].value : j \in 1 .. Len(f)}]

\* group and ini hold what the first n - 1 lines say, and none of them was malformed.
Reads ==
  /\ File # Null /\ Len(File) \in Nat /\ n \in 1 .. Len(File) + 1
  /\ group \in {""} \cup Names(File) /\ ini \in Seq(Pairs(File))
  /\ \A j \in 1 .. n - 1 : File[j].kind # "bad"
  /\ \A g \in Groups : group = g <=> Under(File, g, n)
  /\ \A g \in Groups, k \in Keys : Get(ini, g, k) = GivenTo(File, g, k, n)

Understood == NeverFallsOpen /\ CommandLineWins /\ NamesFit

\* The inductive invariant.
ConfigInv ==
  /\ input \in Inputs /\ DOMAIN cfg = DOMAIN Fresh
  /\ stage \in {"cli", "open"} => group = "" /\ ini = <<>>
  /\ stage = "cli" => n \in 1 .. Len(Argv) + 1 /\ Options(n)
  /\ stage \in {"open", "read"} => Options(Len(Argv) + 1)
  /\ stage = "open" => n = 1
  /\ stage = "read" => Reads
  /\ Understood

LEMMA Lengths ==
  ASSUME input \in Inputs
  PROVE  /\ Len(Argv) \in Nat
         /\ Path \in ConfPaths(input) /\ File # Null => Len(File) \in Nat
<1>1. Len(Argument(input)) \in Nat
  BY ConfigAssumption, Zenon
<1>2. ASSUME Path \in ConfPaths(input), File # Null PROVE Len(File) \in Nat
  BY <1>2, ConfigAssumption, Zenon DEF File
<1> QED
  BY <1>1, <1>2, Zenon DEF Argv

LEMMA Unloaded == ~Loaded => Understood
BY Zenon DEF Understood, NeverFallsOpen, CommandLineWins, NamesFit

\* The program ends before the configuration is in use.
LEMMA GivesUp ==
  ASSUME ConfigInv, input' = input, cfg' = Fresh, stage' \in {"failed", "exit", "dead"}
  PROVE  ConfigInv'
<1>1. ~Loaded'
  BY Zenon DEF Loaded
<1>2. Understood'
  BY <1>1, Unloaded, PTL
<1> QED
  BY <1>2, Zenon DEF ConfigInv

LEMMA FreshFields == /\ Fresh.config_file = Null /\ Fresh.pid_file = Null /\ Fresh.log_file = Null
                     /\ Fresh.dbg_mode = 0 /\ Fresh.dbg_enable = FALSE
BY DEF Fresh

LEMMA ConfigStart == ConfigInit => ConfigInv
<1> SUFFICES ASSUME ConfigInit PROVE ConfigInv
  BY Zenon
<1>1. /\ input \in Inputs /\ stage = "cli" /\ n = 1 /\ group = "" /\ ini = <<>> /\ cfg = Fresh
  BY Zenon DEF ConfigInit
<1>2. \A letter : Marked(Argv, letter, 1) = {}
  BY DEF Marked
<1>3. Options(n)
  <2>1. Level(Argv, 1) = 0
    BY <1>2, FS_EmptySet, SMTT(60) DEF Level
  <2>2. \A letter : OptionTo(Argv, letter, 1) = Null
    BY <1>2, Zenon DEF OptionTo
  <2> QED
    BY <1>1, <2>1, <2>2, FreshFields, Zenon DEF Options
<1>a. n = 1 /\ Len(Argv) \in Nat
  BY <1>1, Lengths, Zenon
<1>4. n \in 1 .. Len(Argv) + 1
  BY <1>a, SMTT(60)
<1>5. ~Loaded
  BY <1>1, Zenon DEF Loaded
<1> QED
  BY <1>1, <1>3, <1>4, <1>5, Unloaded, ZenonT(60) DEF ConfigInv

\* What each option sets.
LEMMA OptionFields ==
  ASSUME NEW a, DOMAIN cfg = DOMAIN Fresh
  PROVE  /\ DOMAIN Option(a) = DOMAIN Fresh
         /\ Option(a).config_file = IF a.o = "c" THEN a.arg ELSE cfg.config_file
         /\ Option(a).pid_file = IF a.o = "p" THEN a.arg ELSE cfg.pid_file
         /\ Option(a).log_file = IF a.o = "l" THEN a.arg ELSE cfg.log_file
         /\ Option(a).dbg_mode = IF a.o = "d" THEN IF cfg.dbg_mode + 1 < 4 THEN cfg.dbg_mode + 1 ELSE 4
                                 ELSE cfg.dbg_mode
         /\ Option(a).dbg_enable = cfg.dbg_enable
BY DEF Option, Fresh

LEMMA CliStep == ASSUME ConfigInv, Cli PROVE ConfigInv'
<1> DEFINE a == Argv[n]
<1>1. /\ stage = "cli" /\ input' = input /\ group' = "" /\ ini' = <<>>
      /\ n \in 1 .. Len(Argv) + 1 /\ Options(n) /\ DOMAIN cfg = DOMAIN Fresh /\ input \in Inputs
  BY Zenon DEF Cli, ConfigInv
<1>2. Len(Argv) \in Nat
  BY <1>1, Lengths, Zenon
<1>a. n \in 1 .. Len(Argv) + 1
  BY <1>1, Zenon
<1>3. Argv' = Argv
  BY <1>1, Zenon DEF Argv
<1>4. CASE n > Len(Argv)
  <2>1. stage' \in {"failed", "open"} /\ n' = 1 /\ cfg' = cfg
    BY <1>4, Zenon DEF Cli
  <2>2. n = Len(Argv) + 1
    BY <1>2, <1>4, <1>a, SMTT(60)
  <2>3. Options(Len(Argv) + 1)
    BY <1>1, <2>2, Zenon
  <2>4. Options(Len(Argv) + 1)'
    BY <1>3, <2>1, <2>3, ZenonT(60), ZenonT(60) DEF Options
  <2>5. ~Loaded'
    BY <2>1, Zenon DEF Loaded
  <2>6. Understood'
    BY <2>5, Unloaded, PTL
  <2> QED
    BY <1>1, <2>1, <2>4, <2>6, ZenonT(60), ZenonT(60) DEF ConfigInv
<1>5. CASE ~(n > Len(Argv))
  <2>1. /\ stage' = CASE a.o \in {"h", "v"} -> "exit" [] a.o = "?" -> "failed" [] OTHER -> stage
        /\ cfg' = (IF stage' = "cli" THEN Option(a) ELSE Fresh)
        /\ n' = n + 1
    BY <1>5, Zenon DEF Cli
  <2>2. stage' \in {"exit", "failed", "cli"}
    BY <1>1, <2>1, Zenon
  <2>3. CASE stage' # "cli"
    BY <1>1, <2>1, <2>2, <2>3, GivesUp, ZenonT(60)
  <2>4. CASE stage' = "cli"
    <3>1. cfg' = Option(a)
      BY <2>1, <2>4, Zenon
    <3>c. n' = n + 1
      BY <2>1, Zenon
    <3>2. n \in Nat \ {0} /\ n' \in 1 .. Len(Argv) + 1
      BY <1>2, <1>5, <1>a, <3>c, SMTT(60)
    <3>3. /\ cfg.config_file = OptionTo(Argv, "c", n) /\ cfg.pid_file = OptionTo(Argv, "p", n)
          /\ cfg.log_file = OptionTo(Argv, "l", n) /\ cfg.dbg_mode = Level(Argv, n) /\ cfg.dbg_enable = FALSE
      BY <1>1, Zenon DEF Options
    <3>4. \A letter : OptionTo(Argv, letter, n + 1) = IF a.o = letter THEN a.arg ELSE OptionTo(Argv, letter, n)
      BY <3>2, OptionNext, Zenon
    <3>5. Level(Argv, n + 1) = IF a.o = "d" THEN IF Level(Argv, n) + 1 < 4 THEN Level(Argv, n) + 1 ELSE 4
                               ELSE Level(Argv, n)
      BY <3>2, LevelNext, ZenonT(60), ZenonT(60)
    <3> HIDE DEF a
    <3>a. DOMAIN cfg = DOMAIN Fresh
      BY <1>1, ZenonT(60)
    <3>b. /\ DOMAIN Option(a) = DOMAIN Fresh
          /\ Option(a).config_file = IF a.o = "c" THEN a.arg ELSE cfg.config_file
          /\ Option(a).pid_file = IF a.o = "p" THEN a.arg ELSE cfg.pid_file
          /\ Option(a).log_file = IF a.o = "l" THEN a.arg ELSE cfg.log_file
          /\ Option(a).dbg_mode = IF a.o = "d" THEN IF cfg.dbg_mode + 1 < 4 THEN cfg.dbg_mode + 1 ELSE 4
                                 ELSE cfg.dbg_mode
          /\ Option(a).dbg_enable = cfg.dbg_enable
      BY <3>a, OptionFields, Zenon
    <3>6. /\ cfg'.config_file = OptionTo(Argv, "c", n') /\ cfg'.pid_file = OptionTo(Argv, "p", n')
          /\ cfg'.log_file = OptionTo(Argv, "l", n') /\ cfg'.dbg_mode = Level(Argv, n')
          /\ cfg'.dbg_enable = FALSE /\ DOMAIN cfg' = DOMAIN Fresh
      BY <2>1, <3>1, <3>3, <3>4, <3>5, <3>b, ZenonT(60)
    <3>7. Options(n)'
      BY <1>3, <3>6, ZenonT(60) DEF Options
    <3>8. ~Loaded'
      BY <2>4, ZenonT(60) DEF Loaded
    <3>9. Understood'
      BY <3>8, Unloaded, PTL
    <3> QED
      BY <1>1, <1>3, <2>4, <3>2, <3>6, <3>7, <3>9, ZenonT(60) DEF ConfigInv
  <2> QED
    BY <2>3, <2>4, Zenon
<1> QED
  BY <1>4, <1>5, Zenon

\* The file that is read is one the command line names, or the default.
LEMMA PathKnown ==
  ASSUME input \in Inputs, Options(Len(Argv) + 1)
  PROVE  Path \in ConfPaths(input)
<1> DEFINE S == Marked(Argv, "c", Len(Argv) + 1)
<1>1. Len(Argv) \in Nat
  BY Lengths, Zenon
<1>2. S \subseteq 1 .. Len(Argv) /\ \A k \in S : Argv[k].o = "c"
  BY <1>1 DEF Marked
<1>3. cfg.config_file = IF S = {} THEN Null ELSE Argv[Max(S)].arg
  BY Zenon DEF Options, OptionTo
<1> HIDE DEF S
<1>4. S # {} => Max(S) \in S
  BY <1>1, <1>2, MaxOf, ZenonT(60)
<1> QED
  BY <1>2, <1>3, <1>4, Zenon DEF Path, ConfPaths, Argv

LEMMA FileKept ==
  ASSUME input' = input, cfg'.config_file = cfg.config_file
  PROVE  Argv' = Argv /\ Path' = Path /\ File' = File
BY Zenon DEF Argv, File, Path

LEMMA OpenStep == ASSUME ConfigInv, Open PROVE ConfigInv'
<1>1. /\ stage = "open" /\ input \in Inputs /\ input' = input /\ DOMAIN cfg = DOMAIN Fresh
      /\ group = "" /\ ini = <<>> /\ n = 1 /\ Options(Len(Argv) + 1)
  BY Zenon DEF Open, ConfigInv
<1>2. CASE File = Null
  <2>1. stage' = "failed" /\ cfg' = Fresh
    BY <1>2, Zenon DEF Open, Fail
  <2> QED
    BY <1>1, <2>1, GivesUp, Zenon
<1>3. CASE File # Null
  <2>1. stage' = "read" /\ n' = n /\ group' = group /\ ini' = ini /\ cfg' = cfg
    BY <1>3, Zenon DEF Open
  <2>2. Argv' = Argv /\ File' = File
    BY <1>1, <2>1, FileKept, Zenon
  <2>3. Len(File) \in Nat
    BY <1>1, <1>3, PathKnown, Lengths, ZenonT(60), ZenonT(60)
  <2>4. Reads
    <3>1. n \in 1 .. Len(File) + 1 /\ 1 .. n - 1 = {}
      <4>1. n = 1
        BY <1>1, Zenon
      <4> QED
        BY <2>3, <4>1, SMTT(60)
    <3>2. ini \in Seq(Pairs(File)) /\ 1 .. Len(ini) = {}
      <4>1. ini = <<>>
        BY <1>1, Zenon
      <4> QED
        BY <4>1, SMTT(60)
    <3>3. \A g : ~Under(File, g, n)
      BY <3>1, Zenon DEF Under
    <3>4. \A g, k : GivenTo(File, g, k, n) = Null
      <4>1. \A g, k : About(File, g, k, n) = {}
        BY <3>1, Zenon DEF About
      <4> QED
        BY <4>1, Zenon DEF GivenTo
    <3>5. \A g, k : Get(ini, g, k) = Null
      <4>1. \A g, k : Hits(ini, g, k) = {}
        BY <3>2, Zenon DEF Hits
      <4> QED
        BY <4>1, Zenon DEF Get
    <3>6. \A g \in Groups : group # g
      BY <1>1, Zenon DEF Groups
    <3>7. group \in {""} \cup Names(File)
      BY <1>1, Zenon
    <3> QED
      BY <1>3, <2>3, <3>1, <3>2, <3>3, <3>4, <3>5, <3>6, <3>7, ZenonT(60), ZenonT(60) DEF Reads
  <2>5. Reads'
    BY <2>1, <2>2, <2>4, Zenon DEF Reads
  <2>6. Options(Len(Argv) + 1)'
    BY <1>1, <2>1, <2>2, ZenonT(60) DEF Options
  <2>7. ~Loaded'
    BY <2>1, ZenonT(60) DEF Loaded
  <2>8. Understood'
    BY <2>7, Unloaded, PTL
  <2> QED
    BY <1>1, <2>1, <2>5, <2>6, <2>8, ZenonT(60) DEF ConfigInv
<1> QED
  BY <1>2, <1>3, Zenon

LEMMA ReadLineStep == ASSUME ConfigInv, ReadLine PROVE ConfigInv'
<1> DEFINE l == File[n]
<1>1. /\ stage = "read" /\ input \in Inputs /\ input' = input /\ DOMAIN cfg = DOMAIN Fresh
      /\ Options(Len(Argv) + 1)
  BY Zenon DEF ReadLine, ConfigInv
<1>2. /\ File # Null /\ Len(File) \in Nat /\ n \in 1 .. Len(File) + 1
      /\ group \in {""} \cup Names(File) /\ ini \in Seq(Pairs(File))
      /\ \A j \in 1 .. n - 1 : File[j].kind # "bad"
      /\ \A g \in Groups : group = g <=> Under(File, g, n)
      /\ \A g \in Groups, k \in Keys : Get(ini, g, k) = GivenTo(File, g, k, n)
  BY <1>1, Zenon DEF Reads, ConfigInv
<1>3. n \in Nat \ {0} /\ n \in 1 .. Len(File)
  <2>1. n <= Len(File)
    BY Zenon DEF ReadLine
  <2>2. n \in 1 .. Len(File) + 1 /\ Len(File) \in Nat
    BY <1>2, Zenon
  <2> QED
    BY <2>1, <2>2, SMTT(60)
<1>4. CASE Fail
  <2>1. stage' = "failed" /\ cfg' = Fresh
    BY <1>4, Zenon DEF Fail
  <2> QED
    BY <1>1, <2>1, GivesUp, ZenonT(60)
<1>5. CASE ~Fail
  <2> DEFINE e == [group |-> group, key |-> l.name, value |-> l.value]
  <2>1. /\ l.kind # "bad" /\ n' = n + 1 /\ stage' = stage /\ cfg' = cfg
        /\ group' = (IF l.kind = "group" THEN l.name ELSE group)
        /\ ini' = (IF l.kind = "pair" THEN Append(ini, e) ELSE ini)
    BY <1>5, Zenon DEF ReadLine, Line
  <2>2. Argv' = Argv /\ File' = File
    BY <1>1, <2>1, FileKept, Zenon
  <2>3. l.name \in Names(File) /\ e \in Pairs(File) /\ e.group = group /\ e.key = l.name /\ e.value = l.value
    <3>1. l.name \in Names(File) /\ l.value \in {File[j].value : j \in 1 .. Len(File)}
      BY <1>3, Zenon DEF Names
    <3>2. group \in {""} \cup Names(File)
      BY <1>2, Zenon
    <3> HIDE DEF l
    <3> QED
      BY <3>1, <3>2, Zenon DEF Pairs
  <2>4. \A j \in 1 .. n' - 1 : File[j].kind # "bad"
    <3>1. \A j \in 1 .. n' - 1 : j \in 1 .. n - 1 \/ j = n
      <4>1. n' = n + 1
        BY <2>1, Zenon
      <4> QED
        BY <1>3, <4>1, SMTT(60)
    <3> QED
      BY <1>2, <2>1, <3>1, ZenonT(60)
  <2>5. n' \in 1 .. Len(File) + 1
    <3>1. n' = n + 1 /\ Len(File) \in Nat
      BY <1>2, <2>1, Zenon
    <3> QED
      BY <1>3, <3>1, SMTT(60)
  <2>6. \A g : /\ l.kind = "group" => (Under(File, g, n') <=> l.name = g)
               /\ l.kind # "group" => (Under(File, g, n') <=> Under(File, g, n))
    BY <1>3, <2>1, UnderNext, ZenonT(60), ZenonT(60)
  <2>7. \A g \in Groups : group' = g <=> Under(File, g, n')
    BY <1>2, <2>1, <2>6, Zenon
  <2>8. \A g, k : /\ l.kind = "pair" /\ l.name = k /\ Under(File, g, n) => GivenTo(File, g, k, n') = l.value
                  /\ ~(l.kind = "pair" /\ l.name = k /\ Under(File, g, n)) =>
                       GivenTo(File, g, k, n') = GivenTo(File, g, k, n)
    BY <1>3, <2>1, GivenNext, ZenonT(60), ZenonT(60)
  <2> HIDE DEF e
  <2>9. \A g, k : /\ e.group = g /\ e.key = k => Get(Append(ini, e), g, k) = e.value
                  /\ ~(e.group = g /\ e.key = k) => Get(Append(ini, e), g, k) = Get(ini, g, k)
    BY <1>2, <2>3, GetNext, ZenonT(60)
  <2>10. ASSUME NEW g \in Groups, NEW k \in Keys PROVE Get(ini', g, k) = GivenTo(File, g, k, n')
    <3>1. group = g <=> Under(File, g, n)
      BY <1>2, Zenon
    <3>2. Get(ini, g, k) = GivenTo(File, g, k, n)
      BY <1>2, Zenon
    <3>3. CASE l.kind = "pair"
      <4>1. ini' = Append(ini, e)
        BY <2>1, <3>3, Zenon
      <4> QED
        BY <2>3, <2>8, <2>9, <3>1, <3>2, <3>3, <4>1, ZenonT(60), ZenonT(60)
    <3>4. CASE l.kind # "pair"
      <4>1. ini' = ini
        BY <2>1, <3>4, Zenon
      <4> QED
        BY <2>8, <3>2, <3>4, <4>1, ZenonT(60), ZenonT(60)
    <3> QED
      BY <3>3, <3>4, Zenon
  <2>11. group' \in {""} \cup Names(File) /\ ini' \in Seq(Pairs(File))
    <3>1. Append(ini, e) \in Seq(Pairs(File))
      BY <1>2, <2>3, AppendProperties, Zenon
    <3> QED
      BY <1>2, <2>1, <2>3, <3>1, ZenonT(60)
  <2>12. Reads'
    BY <1>2, <2>2, <2>4, <2>5, <2>7, <2>10, <2>11, ZenonT(60), ZenonT(60) DEF Reads
  <2>13. Options(Len(Argv) + 1)'
    BY <1>1, <2>1, <2>2, ZenonT(60) DEF Options
  <2>14. stage' = "read"
    BY <1>1, <2>1, ZenonT(60)
  <2>15. ~Loaded'
    BY <2>14, ZenonT(60), ZenonT(60) DEF Loaded
  <2>16. Understood'
    BY <2>15, Unloaded, PTL
  <2>17. input' \in Inputs /\ DOMAIN cfg' = DOMAIN Fresh
    BY <1>1, <2>1, Zenon
  <2> QED
    BY <2>12, <2>13, <2>14, <2>16, <2>17, ZenonT(60) DEF ConfigInv
<1> QED
  BY <1>4, <1>5, Zenon

LEMMA FilledFields ==
  ASSUME DOMAIN cfg = DOMAIN Fresh
  PROVE  /\ DOMAIN Filled = DOMAIN Fresh
         /\ Filled.config_file = cfg.config_file
         /\ Filled.pid_file = Keep(cfg.pid_file, "pid-file", DefaultPid)
         /\ Filled.log_file = LogPath
         /\ Filled.tunnel_prefix = Prefix /\ Filled.bridge = Bridges(BridgeMap)
         /\ Filled.allow = (IF AllowList = Null THEN <<>> ELSE Allow(AllowList))
         /\ Filled.dbg_mode = IF Enabled /\ cfg.dbg_mode = 0 THEN 1 ELSE cfg.dbg_mode
<1> DEFINE allow == IF AllowList = Null THEN <<>> ELSE Allow(AllowList)
           pid == Keep(cfg.pid_file, "pid-file", DefaultPid)
           force == BoolOf("global", "bridge-force", cfg.bridge_force)
           time == cfg.dbg_time \/ Stamp
           level == IF Enabled /\ cfg.dbg_mode = 0 THEN 1 ELSE cfg.dbg_mode
           port == read_string("service", "port", cfg.srv_port)
           listen == read_string("service", "max-listen", cfg.srv_max_listen)
<1>1. DOMAIN Fresh = {"config_file", "pid_file", "log_file", "is_foreground", "dbg_mode", "dbg_time",
                      "dbg_enable", "ifname", "tunnel_prefix", "bridge", "allow", "bridge_force",
                      "srv_bind_in", "srv_port", "srv_max_listen"}
  BY DEF Fresh
<1>2. Filled = [cfg EXCEPT !.ifname = Interface, !.tunnel_prefix = Prefix, !.bridge = Bridges(BridgeMap),
                           !.allow = allow, !.pid_file = pid, !.log_file = LogPath, !.srv_bind_in = Bind,
                           !.bridge_force = force, !.dbg_enable = Enabled, !.dbg_time = time,
                           !.dbg_mode = level, !.srv_port = port, !.srv_max_listen = listen]
  BY <1>1, Zenon DEF Filled
<1> HIDE DEF allow, pid, force, time, level, port, listen
<1>3. DOMAIN Filled = DOMAIN Fresh
  BY <1>2, Zenon
<1>4. Filled.config_file = cfg.config_file /\ Filled.pid_file = pid /\ Filled.log_file = LogPath
  BY <1>1, <1>2, Zenon
<1>5. Filled.tunnel_prefix = Prefix /\ Filled.bridge = Bridges(BridgeMap) /\ Filled.allow = allow
  BY <1>1, <1>2, Zenon
<1>6. Filled.dbg_mode = level
  BY <1>1, <1>2, Zenon
<1> QED
  BY <1>3, <1>4, <1>5, <1>6, ZenonT(60), ZenonT(60) DEF allow, pid, level

\* The lists cfg holds are as long as the lists of the file.
LEMMA ListLength ==
  ASSUME NEW m \in Nat, NEW f, f = [k \in 1 .. m |-> f[k]]
  PROVE  Len(f) = m
<1> DEFINE S == {f[k] : k \in 1 .. m}
<1>1. f \in [1 .. m -> S]
  BY Zenon
<1>2. f \in Seq(S)
  BY <1>1, SeqDef, Zenon
<1>3. Len(f) \in Nat /\ DOMAIN f = 1 .. Len(f)
  BY <1>2, LenProperties, Zenon
<1>4. DOMAIN f = 1 .. m
  BY <1>1, Zenon
<1> QED
  BY <1>3, <1>4, SMTT(60)

LEMMA AllowLength ==
  ASSUME NEW list, Len(list) \in Nat PROVE Len(Allow(list)) = Len(list)
<1> DEFINE f == Allow(list)
<1>1. f = [k \in 1 .. Len(list) |-> f[k]]
  BY Zenon DEF Allow
<1> HIDE DEF f
<1>2. Len(f) = Len(list)
  BY <1>1, ListLength, ZenonT(60), ZenonT(60)
<1> QED
  BY <1>2, Zenon DEF f

LEMMA BridgesLength ==
  ASSUME NEW map, Len(map) \in Nat PROVE Len(Bridges(map)) = Len(map)
<1> DEFINE f == Bridges(map)
<1>1. f = [k \in 1 .. Len(map) |-> f[k]]
  BY Zenon DEF Bridges
<1> HIDE DEF f
<1>2. Len(f) = Len(map)
  BY <1>1, ListLength, Zenon
<1> QED
  BY <1>2, Zenon DEF f

\* A value is that of a line about its key.
LEMMA GivenFrom ==
  ASSUME NEW g, NEW key, Len(File) \in Nat, Given(g, key) # Null
  PROVE  \E j \in 1 .. Len(File) : /\ File[j].kind = "pair" /\ File[j].name = key
                                   /\ Given(g, key) = File[j].value
<1> DEFINE S == {j \in 1 .. Len(File) : File[j].kind = "pair" /\ File[j].name = key /\ InGroup(g, j)}
<1>1. Given(g, key) = IF S = {} THEN Null ELSE File[Max(S)].value
  BY Zenon DEF Given
<1>2. S \subseteq 1 .. Len(File) /\ \A j \in S : File[j].kind = "pair" /\ File[j].name = key
  BY Zenon
<1> HIDE DEF S
<1>3. S # {}
  BY <1>1, Zenon
<1>4. Max(S) \in S
  BY <1>2, <1>3, MaxOf, Zenon
<1> QED
  BY <1>1, <1>2, <1>3, <1>4, ZenonT(60)

\* The properties read the command line.
LEMMA LastIs ==
  ASSUME Len(Argv) \in Nat
  PROVE  /\ \A letter : LastOption(letter) = OptionTo(Argv, letter, Len(Argv) + 1)
         /\ \A letter : {k \in 1 .. Len(Argv) : Argv[k].o = letter} = Marked(Argv, letter, Len(Argv) + 1)
<1>1. 1 .. Len(Argv) + 1 - 1 = 1 .. Len(Argv)
  OBVIOUS
<1>2. \A letter : {k \in 1 .. Len(Argv) : Argv[k].o = letter} = Marked(Argv, letter, Len(Argv) + 1)
  BY <1>1, SMTT(60) DEF Marked
<1> QED
  BY <1>2, Zenon DEF LastOption, OptionTo

\* At the end of the file ini holds all that the file says.
LEMMA AllRead ==
  ASSUME ConfigInv, Load
  PROVE  /\ Len(File) \in Nat /\ Len(Argv) \in Nat /\ Path \in ConfPaths(input) /\ File # Null
         /\ \A j \in 1 .. Len(File) : File[j].kind # "bad"
         /\ \A g \in Groups, k \in Keys : ini_get(g, k) = Given(g, k)
<1>1. stage = "read" /\ input \in Inputs /\ Options(Len(Argv) + 1) /\ Reads /\ n > Len(File)
  BY Zenon DEF ConfigInv, Load
<1>2. Len(File) \in Nat /\ n \in 1 .. Len(File) + 1 /\ File # Null
  BY <1>1, Zenon DEF Reads
<1>3. n = Len(File) + 1 /\ n - 1 = Len(File)
  <2>1. n > Len(File)
    BY <1>1, Zenon
  <2> QED
    BY <1>2, <2>1, SMTT(60)
<1>4. \A j \in 1 .. Len(File) : File[j].kind # "bad"
  BY <1>1, <1>3, Zenon DEF Reads
<1>5. \A g \in Groups, k \in Keys : Get(ini, g, k) = GivenTo(File, g, k, Len(File) + 1)
  BY <1>1, <1>3, Zenon DEF Reads
<1>6. \A g, k : Given(g, k) = GivenTo(File, g, k, Len(File) + 1)
  BY <1>2, GivenIs, Zenon
<1>7. \A g \in Groups, k \in Keys : ini_get(g, k) = Given(g, k)
  BY <1>5, <1>6, GetIs, ZenonT(60), ZenonT(60)
<1> QED
  BY <1>1, <1>2, <1>4, <1>7, PathKnown, Lengths, ZenonT(60), ZenonT(60)

\* What the file says depends on the file alone.
LEMMA GivenKept ==
  ASSUME File' = File, NEW g, NEW key
  PROVE  Given(g, key)' = Given(g, key)
<1> DEFINE S == {j \in 1 .. Len(File) : File[j].kind = "pair" /\ File[j].name = key /\ InGroup(g, j)}
<1>1. \A j : InGroup(g, j)' <=> InGroup(g, j)
  BY Zenon DEF InGroup
<1>2. S' = S
  BY <1>1, Zenon
<1>3. Given(g, key) = IF S = {} THEN Null ELSE File[Max(S)].value
  BY Zenon DEF Given
<1>4. Given(g, key)' = IF S' = {} THEN Null ELSE File'[Max(S')].value
  BY Zenon DEF Given
<1> HIDE DEF S
<1> QED
  BY <1>2, <1>3, <1>4, ZenonT(60), ZenonT(60)

LEMMA LoadStep == ASSUME ConfigInv, Load PROVE ConfigInv'
<1>1. /\ stage = "read" /\ input \in Inputs /\ input' = input /\ DOMAIN cfg = DOMAIN Fresh
      /\ Options(Len(Argv) + 1)
  BY Zenon DEF Load, ConfigInv
<1>2. CASE ~Valid
  <2>1. stage' = "failed" /\ cfg' = Fresh
    BY <1>2, Zenon DEF Load, Fail
  <2> QED
    BY <1>1, <2>1, GivesUp, Zenon
<1>3. CASE Valid
  <2>1. stage' = "loaded" /\ cfg' = Filled
    BY <1>3, Zenon DEF Load
  <2>2. /\ Len(File) \in Nat /\ Len(Argv) \in Nat /\ Path \in ConfPaths(input) /\ File # Null
        /\ \A j \in 1 .. Len(File) : File[j].kind # "bad"
        /\ \A g \in Groups, k \in Keys : ini_get(g, k) = Given(g, k)
    BY AllRead, Zenon
  <2>3. /\ DOMAIN cfg' = DOMAIN Fresh
        /\ cfg'.config_file = cfg.config_file
        /\ cfg'.pid_file = Keep(cfg.pid_file, "pid-file", DefaultPid)
        /\ cfg'.log_file = LogPath
        /\ cfg'.tunnel_prefix = Prefix /\ cfg'.bridge = Bridges(BridgeMap)
        /\ cfg'.allow = (IF AllowList = Null THEN <<>> ELSE Allow(AllowList))
        /\ cfg'.dbg_mode = IF Enabled /\ cfg.dbg_mode = 0 THEN 1 ELSE cfg.dbg_mode
    BY <1>1, <2>1, FilledFields, ZenonT(60)
  <2>4. Argv' = Argv /\ Path' = Path /\ File' = File
    BY <1>1, <2>3, FileKept, ZenonT(60)
  <2>5. \A g, k : Given(g, k)' = Given(g, k)
    BY <2>4, GivenKept, Zenon
  <2>6. \A letter : LastOption(letter)' = LastOption(letter)
    BY <2>4, Zenon DEF LastOption
  <2>7. "global" \in Groups /\ "debug" \in Groups
    BY Zenon DEF Groups
  <2>8. \A k \in Keys : \A fallback :
          read_string("global", k, fallback) = IF Given("global", k) = Null THEN fallback ELSE Given("global", k)
    BY <2>2, <2>7, Zenon DEF read_string
  <2>9. \A k \in {"allow-remotes", "bridge-map", "pid-file", "log-file", "enable"} : k \in Keys
    BY Zenon DEF Keys
  <2>10. NeverFallsOpen'
    <3> DEFINE list == Given("global", "allow-remotes")
    <3>1. AllowList = list
      BY <2>8, <2>9, Zenon DEF AllowList
    <3>2. ASSUME list # Null PROVE Len(cfg'.allow) = Len(list) /\ cfg'.allow # <<>>
      <4>1. PICK j \in 1 .. Len(File) : /\ File[j].kind = "pair" /\ File[j].name = "allow-remotes"
                                       /\ list = File[j].value
        <5>1. Len(File) \in Nat /\ Given("global", "allow-remotes") # Null
          BY <2>2, <3>2, Zenon
        <5> QED
          BY <5>1, GivenFrom, SMTT(60)
      <4>2. Len(list) \in Nat \ {0}
        BY <1>1, <2>2, <4>1, ListAssumption, ZenonT(60), ZenonT(60) DEF File
      <4> HIDE DEF list
      <4>3. cfg'.allow = Allow(list)
        BY <2>3, <3>1, <3>2, ZenonT(60)
      <4>4. Len(list) \in Nat
        BY <4>2, Zenon
      <4>5. Len(Allow(list)) = Len(list)
        BY <4>4, AllowLength, Zenon
      <4>6. Len(cfg'.allow) = Len(list)
        BY <4>3, <4>5, Zenon
      <4>7. Len(<<>>) = 0
        BY Zenon
      <4> QED
        BY <4>2, <4>6, <4>7, ZenonT(60), ZenonT(60)
    <3> QED
      BY <2>2, <2>4, <2>5, <3>2, Zenon DEF NeverFallsOpen
  <2>11. CommandLineWins'
    <3> DEFINE or(a, b) == IF a = Null THEN b ELSE a
               D == {k \in 1 .. Len(Argv) : Argv[k].o = "d"}
               count == Cardinality(D)
    <3>1. \A letter : LastOption(letter) = OptionTo(Argv, letter, Len(Argv) + 1)
      BY <2>2, LastIs, Zenon
    <3>2. /\ cfg.config_file = LastOption("c") /\ cfg.pid_file = LastOption("p")
          /\ cfg.log_file = LastOption("l") /\ cfg.dbg_mode = Level(Argv, Len(Argv) + 1)
          /\ cfg.dbg_enable = FALSE
      BY <1>1, <3>1, Zenon DEF Options
    <3>3. Path' = or(LastOption("c")', DefaultConf)
      BY <2>4, <2>6, <3>2, ZenonT(60) DEF Path
    <3>4. cfg'.pid_file = or(LastOption("p")', or(Given("global", "pid-file")', DefaultPid))
      BY <2>3, <2>5, <2>6, <2>8, <2>9, <3>2, ZenonT(60) DEF Keep
    <3>5. cfg'.log_file = or(LastOption("l")', or(Given("global", "log-file")', DefaultLog))
      BY <2>3, <2>5, <2>6, <2>8, <2>9, <3>2, Zenon DEF Keep, LogPath
    <3>6. Enabled <=> Given("debug", "enable") \in {"true", "1"}
      <4>1. ini_get("debug", "enable") = Given("debug", "enable")
        BY <2>2, <2>7, <2>9, ZenonT(60)
      <4> QED
        BY <3>2, <4>1, NullAssumption, ZenonT(60) DEF Enabled, BoolOf
    <3>7. count \in Nat
      <4>1. IsFiniteSet(1 .. Len(Argv))
        BY <2>2, FS_Interval, SMTT(60)
      <4>2. IsFiniteSet(D)
        BY <4>1, FS_Subset, Zenon
      <4> QED
        BY <4>2, FS_CardinalityType, ZenonT(60)
    <3>8. cfg.dbg_mode = IF count < 4 THEN count ELSE 4
      <4>1. D = Marked(Argv, "d", Len(Argv) + 1)
        BY <2>2, LastIs, ZenonT(60)
      <4> QED
        BY <3>2, <4>1, Zenon DEF Level
    <3>9. count' = count
      BY <2>4, Zenon
    <3> HIDE DEF count
    <3>10. cfg'.dbg_mode = IF count > 4 THEN 4 ELSE IF count > 0 THEN count
                           ELSE IF Given("debug", "enable") \in {"true", "1"} THEN 1 ELSE 0
      <4>1. cfg'.dbg_mode = IF Enabled /\ cfg.dbg_mode = 0 THEN 1 ELSE cfg.dbg_mode
        BY <2>3, Zenon
      <4> QED
        BY <3>6, <3>7, <3>8, <4>1, SMTT(60)
    <3> QED
      BY <2>5, <3>3, <3>4, <3>5, <3>9, <3>10, ZenonT(60), ZenonT(60) DEF CommandLineWins, count
  <2>12. NamesFit'
    <3> DEFINE map == Given("global", "bridge-map")
    <3>1. BridgeMap = map
      BY <2>8, <2>9, Zenon DEF BridgeMap
    <3> HIDE DEF map
    <3>2. parse_bridges(map) /\ config_valid_ifname(Prefix) /\ Prefix.len <= PrefixLimit
      BY <1>3, <3>1, Zenon DEF Valid
    <3>3. Len(map) \in Nat /\ Len(map) <= MaxAttach
      <4>1. Len(map) \in 1 .. MaxAttach
        BY <3>2, Zenon DEF parse_bridges
      <4> QED
        BY <4>1, Bounds, SMTT(60)
    <3>4. \A j, k \in 1 .. Len(map) : map[j].vlan = map[k].vlan => j = k
      BY <3>2, ZenonT(60) DEF parse_bridges
    <3>5. cfg'.bridge = Bridges(map) /\ cfg'.tunnel_prefix = Prefix
      BY <2>3, <3>1, ZenonT(60)
    <3>6. Len(cfg'.bridge) = Len(map)
      BY <3>3, <3>5, BridgesLength, ZenonT(60)
    <3>7. \A k \in 1 .. Len(map) : cfg'.bridge[k] = [vlan_id |-> map[k].vlan, ifname |-> map[k].bridge]
      BY <3>5, Zenon DEF Bridges
    <3>8. Prefix.len \in 1 .. 6
      <4>1. Prefix.len \in 1 .. IfNameSize - 1
        BY <3>2, Zenon DEF config_valid_ifname
      <4>2. Prefix.len <= PrefixLimit
        BY <3>2, Zenon
      <4> QED
        BY <4>1, <4>2, SMTT(60) DEF IfNameSize, PrefixLimit
    <3>9. ASSUME NEW k \in 1 .. Len(map)
          PROVE  cfg'.tunnel_prefix.len + Digits(MaxSlots - 1) + 1 + Digits(map[k].vlan) < IfNameSize
      <4>1. cfg'.tunnel_prefix.len \in 1 .. 6
        BY <3>5, <3>8, ZenonT(60)
      <4>2. MaxSlots - 1 \in Nat
        BY Bounds, Zenon
      <4>3. map[k].vlan \in 1 .. MaxVlan
        BY <3>2, Zenon DEF parse_bridges
      <4>4. map[k].vlan \in Nat
        BY <4>3, Bounds, ZenonT(60)
      <4>5. Digits(MaxSlots - 1) \in 1 .. 4 /\ Digits(map[k].vlan) \in 1 .. 4
        BY <4>2, <4>4, DigitsFew, ZenonT(60)
      <4> QED
        BY <4>1, <4>5, PartsFit, ZenonT(60)
    <3>10. Given("global", "bridge-map")' = map
      BY <2>5, Zenon DEF map
    <3> QED
      BY <3>3, <3>4, <3>6, <3>7, <3>9, <3>10, Zenon DEF NamesFit
  <2>13. Understood'
    BY <2>10, <2>11, <2>12, ZenonT(60) DEF Understood
  <2> QED
    BY <1>1, <2>1, <2>3, <2>13, ZenonT(60) DEF ConfigInv
<1> QED
  BY <1>2, <1>3, Zenon

-----------------------------------------------------------------------------
(* Afterwards.                                                             *)

LEMMA UnderstoodKept ==
  ASSUME Understood, input' = input, cfg' = cfg, Loaded' => Loaded
  PROVE  Understood'
<1>1. Argv' = Argv /\ Path' = Path /\ File' = File
  BY FileKept, Zenon
<1>2. \A g, k : Given(g, k)' = Given(g, k)
  BY <1>1, GivenKept, Zenon
<1>3. \A letter : LastOption(letter)' = LastOption(letter)
  BY <1>1, Zenon DEF LastOption
<1>4. NeverFallsOpen'
  BY <1>1, <1>2, ZenonT(60) DEF Understood, NeverFallsOpen
<1>5. CommandLineWins'
  BY <1>1, <1>2, <1>3, ZenonT(60) DEF Understood, CommandLineWins
<1>6. NamesFit'
  BY <1>2, Zenon DEF Understood, NamesFit
<1> QED
  BY <1>4, <1>5, <1>6, ZenonT(60) DEF Understood

LEMMA ConfigStutter == ASSUME ConfigInv, UNCHANGED configVars PROVE ConfigInv'
<1>1. input' = input /\ stage' = stage /\ n' = n /\ group' = group /\ ini' = ini /\ cfg' = cfg
  BY Zenon DEF configVars
<1>2. Argv' = Argv /\ Path' = Path /\ File' = File
  BY <1>1, FileKept, Zenon
<1>3. Loaded' <=> Loaded
  BY <1>1, Zenon DEF Loaded
<1>4. Understood'
  BY <1>1, <1>3, UnderstoodKept, ZenonT(60) DEF ConfigInv
<1>5. Reads => Reads'
  BY <1>1, <1>2, Zenon DEF Reads
<1>6. \A m : Options(m) => Options(m)'
  BY <1>1, <1>2, Zenon DEF Options
<1> QED
  BY <1>1, <1>2, <1>4, <1>5, <1>6, ZenonT(60) DEF ConfigInv

\* Once there is a configuration it is not touched.
LEMMA ConfigUsed ==
  ASSUME ConfigInv, Loaded, Loaded', input' = input, cfg' = cfg
  PROVE  ConfigInv'
<1>1. Understood'
  BY UnderstoodKept, Zenon DEF ConfigInv
<1> QED
  BY <1>1, Zenon DEF ConfigInv, Loaded

=============================================================================
