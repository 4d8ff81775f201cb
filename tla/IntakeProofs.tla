---------------------------- MODULE IntakeProofs ----------------------------
(***************************************************************************)
(* What a process takes in.  Encoders and decoders are inverse for every    *)
(* message and every sequence of bytes; a process starts with the settings  *)
(* of the highest layer, exactly if they are valid; and what they let it    *)
(* send the peer accepts.                                                   *)
(*                                                                          *)
(* Recursive functions over an interval are reasoned about by induction on  *)
(* a set of numbers, which WellFoundedInduction gives without a predicate   *)
(* parameter.                                                               *)
(***************************************************************************)
EXTENDS Intake, SequenceTheorems, WellFoundedInduction, TLAPS

-----------------------------------------------------------------------------
(* Induction *)

\* A set with zero and every successor has all natural numbers.
LEMMA Induction ==
    ASSUME NEW S, 0 \in S, \A j \in Nat : j \in S => j + 1 \in S
    PROVE  Nat \subseteq S
<1> DEFINE T == Nat \ S
<1>1. CASE T = {}
    BY <1>1
<1>2. CASE T # {}
    <2>1. \E x \in T : \A y \in T : ~(<<y, x>> \in OpToRel(<, Nat))
        BY <1>2, NatLessThanWellFounded, WFMin
    <2>2. PICK x \in T : \A y \in T : ~(y < x)
        BY <2>1 DEF OpToRel
    <2>3. x # 0 /\ x - 1 \in Nat /\ x - 1 < x
        BY <2>2
    <2>4. x - 1 \in S
        BY <2>2, <2>3
    <2>5. (x - 1) + 1 \in S
        BY <2>3, <2>4
    <2> QED
        BY <2>2, <2>3, <2>5
<1> QED
    BY <1>1, <1>2

-----------------------------------------------------------------------------
(* Integers, big endian *)

\* A number with another byte.
LEMMA NextByte ==
    ASSUME NEW n \in Nat, NEW b \in Byte
    PROVE  n * 256 + b \in Nat /\ (n * 256 + b) \div 256 = n /\ (n * 256 + b) % 256 = b
<1>1. n * 256 + b \in Nat
    BY DEF Byte
<1>2. (n * 256 + b) \div 256 = n
    BY DEF Byte
<1>3. (n * 256 + b) % 256 = b
    BY DEF Byte
<1> QED
    BY <1>1, <1>2, <1>3

\* What Shifted is defined to be.
Shifts(f, n, width) ==
    /\ f \in [0 .. width -> Nat]
    /\ f[0] = n
    /\ \A k \in 1 .. width : f[k] = f[k - 1] \div 256

\* A number can be shifted byte by byte.
LEMMA ShiftsExist ==
    ASSUME NEW n \in Nat, NEW width \in Nat
    PROVE  \E f : Shifts(f, n, width)
<1> DEFINE S == {j \in Nat : \E f : Shifts(f, n, j)}
<1>1. 0 \in S
    <2>1. Shifts([k \in 0 .. 0 |-> n], n, 0)
        BY DEF Shifts
    <2> QED
        BY <2>1
<1>2. ASSUME NEW j \in Nat, j \in S PROVE j + 1 \in S
    <2>1. PICK f : Shifts(f, n, j)
        BY <1>2
    <2> DEFINE g == [k \in 0 .. j + 1 |-> IF k = j + 1 THEN f[j] \div 256 ELSE f[k]]
    <2>2. f \in [0 .. j -> Nat] /\ f[0] = n /\ \A k \in 1 .. j : f[k] = f[k - 1] \div 256
        BY <2>1 DEF Shifts
    <2>3. f[j] \div 256 \in Nat
        BY <2>2
    <2>4. g \in [0 .. j + 1 -> Nat] /\ g[0] = n
        BY <2>2, <2>3
    <2>5. ASSUME NEW k \in 1 .. j + 1 PROVE g[k] = g[k - 1] \div 256
        <3>1. CASE k = j + 1
            BY <3>1
        <3>2. CASE k # j + 1
            <4>1. k \in 1 .. j /\ k \in 0 .. j + 1 /\ k - 1 \in 0 .. j + 1 /\ k - 1 # j + 1
                BY <3>2
            <4> QED
                BY <2>2, <4>1
        <3> QED
            BY <3>1, <3>2
    <2>6. Shifts(g, n, j + 1)
        BY <2>4, <2>5 DEF Shifts
    <2> QED
        BY <2>6
<1> HIDE DEF S
<1>3. Nat \subseteq S
    BY <1>1, <1>2, Induction
<1> QED
    BY <1>3 DEF S

\* What Shifted defines is that shifting.
LEMMA ShiftedIs ==
    ASSUME NEW n \in Nat, NEW width \in Nat
    PROVE  Shifts(Shifted(n, width), n, width)
<1> DEFINE rest == CHOOSE f : f = [k \in 0 .. width |-> IF k = 0 THEN n ELSE f[k - 1] \div 256]
<1>1. PICK g : Shifts(g, n, width)
    BY ShiftsExist
<1>2. g = [k \in 0 .. width |-> IF k = 0 THEN n ELSE g[k - 1] \div 256]
    BY <1>1 DEF Shifts
<1>3. rest = [k \in 0 .. width |-> IF k = 0 THEN n ELSE rest[k - 1] \div 256]
    BY <1>2
<1>4. Shifted(n, width) = rest
    BY DEF Shifted
<1> HIDE DEF rest
<1>5. rest[0] = n /\ \A k \in 1 .. width : rest[k] = rest[k - 1] \div 256
    BY <1>3
<1> DEFINE S == {j \in Nat : j <= width => rest[j] \in Nat}
<1>6. 0 \in S
    BY <1>5
<1>7. ASSUME NEW j \in Nat, j \in S PROVE j + 1 \in S
    <2>1. CASE j + 1 <= width
        <3>1. rest[j] \in Nat /\ rest[j + 1] = rest[j] \div 256
            BY <1>5, <1>7, <2>1
        <3> QED
            BY <3>1
    <2> QED
        BY <2>1
<1>8. Nat \subseteq S
    <2> HIDE DEF S
    <2> QED
        BY <1>6, <1>7, Induction
<1>9. rest \in [0 .. width -> Nat]
    BY <1>3, <1>8
<1> QED
    BY <1>4, <1>5, <1>9 DEF Shifts

\* What Prefix is defined to be.
Reads(f, bytes, width) ==
    /\ f \in [0 .. width -> Nat]
    /\ f[0] = 0
    /\ \A k \in 1 .. width : f[k] = f[k - 1] * 256 + bytes[k]

\* A sequence of bytes can be read as a number.
LEMMA ReadsExist ==
    ASSUME NEW bytes \in Seq(Byte), NEW width \in Nat, width <= Len(bytes)
    PROVE  \E f : Reads(f, bytes, width)
<1> DEFINE S == {j \in Nat : j <= Len(bytes) => \E f : Reads(f, bytes, j)}
<1>1. 0 \in S
    <2>1. Reads([k \in 0 .. 0 |-> 0], bytes, 0)
        BY DEF Reads
    <2> QED
        BY <2>1
<1>2. ASSUME NEW j \in Nat, j \in S, j + 1 <= Len(bytes) PROVE j + 1 \in S
    <2>1. PICK f : Reads(f, bytes, j)
        BY <1>2
    <2> DEFINE g == [k \in 0 .. j + 1 |-> IF k = j + 1 THEN f[j] * 256 + bytes[j + 1] ELSE f[k]]
    <2>2. f \in [0 .. j -> Nat] /\ f[0] = 0 /\ \A k \in 1 .. j : f[k] = f[k - 1] * 256 + bytes[k]
        BY <2>1 DEF Reads
    <2>3. f[j] * 256 + bytes[j + 1] \in Nat
        <3>1. f[j] \in Nat /\ bytes[j + 1] \in Byte
            BY <1>2, <2>2
        <3> QED
            BY <3>1, NextByte
    <2>4. g \in [0 .. j + 1 -> Nat] /\ g[0] = 0
        BY <2>2, <2>3
    <2>5. ASSUME NEW k \in 1 .. j + 1 PROVE g[k] = g[k - 1] * 256 + bytes[k]
        <3>1. CASE k = j + 1
            BY <3>1
        <3>2. CASE k # j + 1
            <4>1. k \in 1 .. j /\ k \in 0 .. j + 1 /\ k - 1 \in 0 .. j + 1 /\ k - 1 # j + 1
                BY <3>2
            <4> QED
                BY <2>2, <4>1
        <3> QED
            BY <3>1, <3>2
    <2>6. Reads(g, bytes, j + 1)
        BY <2>4, <2>5 DEF Reads
    <2> QED
        BY <2>6
<1>3. ASSUME NEW j \in Nat, j \in S PROVE j + 1 \in S
    <2>1. CASE j + 1 <= Len(bytes)
        BY <1>2, <1>3, <2>1
    <2>2. CASE ~(j + 1 <= Len(bytes))
        BY <2>2
    <2> QED
        BY <2>1, <2>2
<1> HIDE DEF S
<1>4. Nat \subseteq S
    BY <1>1, <1>3, Induction
<1> QED
    BY <1>4 DEF S

\* What Prefix defines is that reading.
LEMMA PrefixIs ==
    ASSUME NEW bytes \in Seq(Byte)
    PROVE  Reads(Prefix(bytes), bytes, Len(bytes))
<1> DEFINE value == CHOOSE f : f = [k \in 0 .. Len(bytes) |->
                                       IF k = 0 THEN 0 ELSE f[k - 1] * 256 + bytes[k]]
           w == Len(bytes)
<1>0. w \in Nat
    OBVIOUS
<1>1. PICK g : Reads(g, bytes, w)
    BY <1>0, ReadsExist
<1>2. g = [k \in 0 .. Len(bytes) |-> IF k = 0 THEN 0 ELSE g[k - 1] * 256 + bytes[k]]
    BY <1>0, <1>1 DEF Reads
<1>3. value = [k \in 0 .. Len(bytes) |-> IF k = 0 THEN 0 ELSE value[k - 1] * 256 + bytes[k]]
    BY <1>2
<1>4. Prefix(bytes) = value
    BY DEF Prefix
<1> HIDE DEF value
<1>5. value[0] = 0 /\ \A k \in 1 .. w : value[k] = value[k - 1] * 256 + bytes[k]
    BY <1>0, <1>3
<1> DEFINE S == {j \in Nat : j <= w => value[j] \in Nat}
<1>6. 0 \in S
    BY <1>5
<1>7. ASSUME NEW j \in Nat, j \in S PROVE j + 1 \in S
    <2>1. CASE j + 1 <= w
        <3>1. value[j] \in Nat /\ value[j + 1] = value[j] * 256 + bytes[j + 1]
            BY <1>0, <1>5, <1>7, <2>1
        <3>2. bytes[j + 1] \in Byte
            BY <2>1
        <3>3. value[j] * 256 + bytes[j + 1] \in Nat
            BY <3>1, <3>2, NextByte
        <3> QED
            BY <3>1, <3>3
    <2> QED
        BY <2>1
<1>8. Nat \subseteq S
    <2> HIDE DEF S
    <2> QED
        BY <1>6, <1>7, Induction
<1>9. value \in [0 .. w -> Nat]
    BY <1>0, <1>3, <1>8
<1> QED
    BY <1>4, <1>5, <1>9 DEF Reads

\* The bytes of a number, and that they are as many as asked for.
LEMMA BytesTyped ==
    ASSUME NEW n \in Nat, NEW width \in Nat
    PROVE  to_be_bytes(n, width) \in Seq(Byte) /\ Len(to_be_bytes(n, width)) = width
<1>1. Shifts(Shifted(n, width), n, width)
    BY ShiftedIs
<1>2. \A k \in 1 .. width : Shifted(n, width)[width - k] % 256 \in Byte
    <2>1. \A k \in 1 .. width : Shifted(n, width)[width - k] \in Nat
        BY <1>1 DEF Shifts
    <2> QED
        BY <2>1 DEF Byte
<1> HIDE DEF Byte
<1> QED
    BY <1>2 DEF to_be_bytes

\* from_be_bytes after to_be_bytes, for a number that fits.
LEMMA NumberBack ==
    ASSUME NEW width \in Nat, NEW n \in Unsigned(width)
    PROVE  from_be_bytes(to_be_bytes(n, width)) = n
<1> DEFINE bytes == to_be_bytes(n, width)
           rest == Shifted(n, width)
           value == Prefix(bytes)
<1>1. n \in Nat /\ rest[width] = 0
    BY DEF Unsigned
<1>2. rest \in [0 .. width -> Nat] /\ rest[0] = n /\ \A k \in 1 .. width : rest[k] = rest[k - 1] \div 256
    <2>1. Shifts(rest, n, width)
        BY <1>1, ShiftedIs
    <2> HIDE DEF rest
    <2> QED
        BY <2>1 DEF Shifts
<1>3. /\ bytes \in Seq(Byte) /\ Len(bytes) = width
      /\ \A k \in 1 .. width : bytes[k] = rest[width - k] % 256
    BY <1>1, BytesTyped DEF to_be_bytes
<1>4. /\ value \in [0 .. width -> Nat] /\ value[0] = 0
      /\ \A k \in 1 .. width : value[k] = value[k - 1] * 256 + bytes[k]
    BY <1>3, PrefixIs DEF Reads
<1> HIDE DEF bytes, rest, value
<1> DEFINE S == {j \in Nat : j <= width => value[j] = rest[width - j]}
<1>5. 0 \in S
    BY <1>1, <1>4
<1>6. ASSUME NEW j \in Nat, j \in S PROVE j + 1 \in S
    <2>1. CASE j + 1 <= width
        <3> DEFINE m == rest[width - (j + 1)]
        <3>1. /\ j + 1 \in 1 .. width /\ width - (j + 1) \in 0 .. width /\ width - j \in 1 .. width
              /\ (width - j) - 1 = width - (j + 1) /\ (j + 1) - 1 = j
            BY <2>1
        <3>2. m \in Nat /\ rest[width - j] = m \div 256 /\ bytes[j + 1] = m % 256
            BY <1>2, <1>3, <3>1
        <3>3. value[j + 1] = value[j] * 256 + bytes[j + 1] /\ value[j] = rest[width - j]
            BY <1>4, <1>6, <2>1, <3>1
        <3> HIDE DEF m
        <3>4. PICK q \in Nat, r \in Nat : q = m \div 256 /\ r = m % 256
            BY <3>2
        <3>5. m = q * 256 + r
            BY <3>2, <3>4
        <3>6. value[j + 1] = m
            BY <3>2, <3>3, <3>4, <3>5
        <3> QED
            BY <3>6 DEF m
    <2>2. CASE ~(j + 1 <= width)
        BY <2>2
    <2> QED
        BY <2>1, <2>2
<1>7. Nat \subseteq S
    <2> HIDE DEF S
    <2> QED
        BY <1>5, <1>6, Induction
<1>8. value[width] = rest[0]
    BY <1>7
<1> QED
    BY <1>2, <1>3, <1>8 DEF from_be_bytes, value, bytes

\* to_be_bytes after from_be_bytes, for any bytes; what is read fits.
LEMMA BytesBack ==
    ASSUME NEW bytes \in Seq(Byte)
    PROVE  /\ from_be_bytes(bytes) \in Unsigned(Len(bytes))
           /\ to_be_bytes(from_be_bytes(bytes), Len(bytes)) = bytes
<1> DEFINE width == Len(bytes)
           n == from_be_bytes(bytes)
           rest == Shifted(n, width)
           value == Prefix(bytes)
<1>0. width \in Nat
    OBVIOUS
<1>1. /\ value \in [0 .. width -> Nat] /\ value[0] = 0
      /\ \A k \in 1 .. width : value[k] = value[k - 1] * 256 + bytes[k]
    BY PrefixIs DEF Reads
<1>2. n = value[width] /\ n \in Nat
    BY <1>0, <1>1 DEF from_be_bytes
<1>3. rest \in [0 .. width -> Nat] /\ rest[0] = n /\ \A k \in 1 .. width : rest[k] = rest[k - 1] \div 256
    <2>1. Shifts(rest, n, width)
        BY <1>0, <1>2, ShiftedIs
    <2> HIDE DEF rest, n, width
    <2> QED
        BY <2>1 DEF Shifts
<1>4. \A k \in 1 .. width : bytes[k] \in Byte
    OBVIOUS
<1>5. to_be_bytes(n, width) = [k \in 1 .. width |-> rest[width - k] % 256]
    BY DEF to_be_bytes
<1>6. to_be_bytes(n, width) \in Seq(Byte) /\ Len(to_be_bytes(n, width)) = width
    BY <1>0, <1>2, BytesTyped
<1>7. n \in Unsigned(width) <=> n \in Nat /\ rest[width] = 0
    BY DEF Unsigned
<1> HIDE DEF width, n, rest, value
<1> DEFINE S == {j \in Nat : j <= width => rest[j] = value[width - j]}
<1>8. 0 \in S
    BY <1>0, <1>2, <1>3
<1>9. ASSUME NEW j \in Nat, j \in S PROVE j + 1 \in S
    <2>1. CASE j + 1 <= width
        <3> DEFINE m == value[width - (j + 1)]
        <3>1. /\ j + 1 \in 1 .. width /\ width - (j + 1) \in 0 .. width /\ width - j \in 1 .. width
              /\ (width - j) - 1 = width - (j + 1) /\ (j + 1) - 1 = j
            BY <1>0, <2>1
        <3>2. m \in Nat /\ value[width - j] = m * 256 + bytes[width - j] /\ bytes[width - j] \in Byte
            BY <1>1, <1>4, <3>1
        <3>3. rest[j + 1] = rest[j] \div 256
            BY <1>3, <3>1
        <3>4. rest[j] = value[width - j]
            BY <1>0, <1>9, <2>1
        <3> HIDE DEF m
        <3>5. (m * 256 + bytes[width - j]) \div 256 = m
            BY <3>2, NextByte
        <3>6. rest[j + 1] = m
            BY <3>2, <3>3, <3>4, <3>5
        <3> QED
            BY <3>6 DEF m
    <2>2. CASE ~(j + 1 <= width)
        BY <2>2
    <2> QED
        BY <2>1, <2>2
<1>10. Nat \subseteq S
    <2> HIDE DEF S
    <2> QED
        BY <1>8, <1>9, Induction
<1>11. rest[width] = 0
    BY <1>0, <1>1, <1>10
<1>12. ASSUME NEW k \in 1 .. width PROVE rest[width - k] % 256 = bytes[k]
    <2>1. width - k \in Nat /\ width - k <= width /\ width - (width - k) = k /\ k - 1 \in 0 .. width
        BY <1>0
    <2>2. rest[width - k] = value[k]
        BY <1>10, <2>1
    <2>3. PICK m \in Nat, b \in Byte : b = bytes[k] /\ value[k] = m * 256 + b
        BY <1>1, <1>4, <2>1
    <2>4. (m * 256 + b) % 256 = b
        BY NextByte
    <2> QED
        BY <2>2, <2>3, <2>4
<1>13. to_be_bytes(n, width) = bytes
    <2>1. \A k \in 1 .. width : to_be_bytes(n, width)[k] = bytes[k]
        BY <1>5, <1>12
    <2> QED
        BY <1>6, <2>1, SeqEqual DEF width
<1> QED
    BY <1>2, <1>7, <1>11, <1>13 DEF width, n

\* Two bytes hold a port or a length.
LEMMA ShortFits ==
    ASSUME NEW n \in Nat, n <= 65535
    PROVE  n \in Unsigned(2)
<1>1. n \in Nat /\ 2 \in Nat /\ 1 \in 1 .. 2 /\ 2 \in 1 .. 2 /\ 1 - 1 = 0 /\ 2 - 1 = 1
    OBVIOUS
<1>2. Shifts(Shifted(n, 2), n, 2)
    BY <1>1, ShiftedIs
<1> DEFINE f == Shifted(n, 2)
<1> HIDE DEF f
<1>3. f[0] = n /\ f[1] = f[0] \div 256 /\ f[2] = f[1] \div 256
    BY <1>1, <1>2 DEF Shifts, f
<1>4. PICK q \in Nat : q = n \div 256 /\ q <= 255
    <2>1. n \div 256 \in Nat /\ n \div 256 <= 255
        OBVIOUS
    <2> QED
        BY <2>1
<1>5. q \div 256 = 0
    BY <1>4
<1>6. f[2] = 0
    BY <1>3, <1>4, <1>5
<1> QED
    BY <1>1, <1>6 DEF Unsigned, f

\* Four bytes hold a connection limit.
LEMMA LongFits ==
    ASSUME NEW n \in Nat, n <= 65535
    PROVE  n \in Unsigned(4)
<1>1. /\ n \in Nat /\ 4 \in Nat
      /\ \A k \in {1, 2, 3, 4} : k \in 1 .. 4
      /\ 1 - 1 = 0 /\ 2 - 1 = 1 /\ 3 - 1 = 2 /\ 4 - 1 = 3
    OBVIOUS
<1>2. Shifts(Shifted(n, 4), n, 4)
    BY <1>1, ShiftedIs
<1> DEFINE f == Shifted(n, 4)
<1> HIDE DEF f
<1>3. /\ f[0] = n /\ f[1] = f[0] \div 256 /\ f[2] = f[1] \div 256
      /\ f[3] = f[2] \div 256 /\ f[4] = f[3] \div 256
    BY <1>1, <1>2 DEF Shifts, f
<1>4. PICK q \in Nat : q = n \div 256 /\ q <= 255
    <2>1. n \div 256 \in Nat /\ n \div 256 <= 255
        OBVIOUS
    <2> QED
        BY <2>1
<1>5. q \div 256 = 0 /\ 0 \div 256 = 0
    BY <1>4
<1>6. f[4] = 0
    BY <1>3, <1>4, <1>5
<1> QED
    BY <1>1, <1>6 DEF Unsigned, f

-----------------------------------------------------------------------------
(* Parts of a payload *)

\* An array is a sequence of its length.
LEMMA ArrayIs ==
    ASSUME NEW n \in Nat, NEW x
    PROVE  x \in Array(n) <=> x \in Seq(Byte) /\ Len(x) = n
BY DEF Array

\* n bytes from an offset.
LEMMA TakeTyped ==
    ASSUME NEW bytes \in Seq(Byte), NEW at \in Nat, NEW n \in Nat, at + n <= Len(bytes)
    PROVE  /\ take(bytes, at, n) \in Seq(Byte) /\ Len(take(bytes, at, n)) = n
           /\ take(bytes, at, n) \in Array(n)
           /\ \A i \in 1 .. n : take(bytes, at, n)[i] = bytes[at + i]
<1>1. /\ take(bytes, at, n) \in Seq(Byte) /\ Len(take(bytes, at, n)) = n
      /\ \A i \in 1 .. n : take(bytes, at, n)[i] = bytes[at + i]
    BY DEF take
<1> QED
    BY <1>1, ArrayIs

\* Two neighbouring parts are one, a part of one byte is that byte, and all parts
\* are the payload.
LEMMA TakeJoin ==
    ASSUME NEW bytes \in Seq(Byte), NEW at \in Nat, NEW n \in Nat, NEW m \in Nat,
           at + n + m <= Len(bytes)
    PROVE  take(bytes, at, n) \o take(bytes, at + n, m) = take(bytes, at, n + m)
<1>1. at + 1 \in 1 .. Len(bytes) + 1 /\ at + n \in (at + 1) - 1 .. Len(bytes)
    OBVIOUS
<1>2. at + n + m \in at + n .. Len(bytes)
    OBVIOUS
<1>3. SubSeq(bytes, at + 1, at + n) \o SubSeq(bytes, at + n + 1, at + n + m)
        = SubSeq(bytes, at + 1, at + n + m)
    BY <1>1, <1>2, ConcatAdjacentSubSeq
<1> QED
    BY <1>3 DEF take

\* One byte taken.
LEMMA TakeOne ==
    ASSUME NEW bytes \in Seq(Byte), NEW at \in Nat, at + 1 <= Len(bytes)
    PROVE  take(bytes, at, 1) = <<bytes[at + 1]>> /\ bytes[at + 1] \in Byte
<1>1. bytes[at + 1] \in Byte
    OBVIOUS
<1>2. /\ take(bytes, at, 1) \in Seq(Byte) /\ Len(take(bytes, at, 1)) = 1
      /\ take(bytes, at, 1)[1] = bytes[at + 1]
    <2>1. 1 \in Nat /\ 1 \in 1 .. 1
        OBVIOUS
    <2> QED
        BY <2>1, TakeTyped
<1>3. <<bytes[at + 1]>> \in Seq(Byte) /\ Len(<<bytes[at + 1]>>) = 1
    BY <1>1
<1> QED
    BY <1>1, <1>2, <1>3, SeqEqual

\* All bytes taken.
LEMMA TakeAll ==
    ASSUME NEW bytes \in Seq(Byte)
    PROVE  take(bytes, 0, Len(bytes)) = bytes
BY SubSeqFull DEF take

\* Parts of what was put together are parts of what it was put together from.
LEMMA TakeOf ==
    ASSUME NEW s \in Seq(Byte), NEW t \in Seq(Byte), NEW at \in Nat, NEW n \in Nat \ {0}
    PROVE  /\ s \o t \in Seq(Byte) /\ Len(s \o t) = Len(s) + Len(t)
           /\ at + n <= Len(s) => take(s \o t, at, n) = take(s, at, n)
           /\ at + n <= Len(t) => take(s \o t, Len(s) + at, n) = take(t, at, n)
<1>1. s \o t \in Seq(Byte) /\ Len(s \o t) = Len(s) + Len(t)
    BY ConcatProperties
<1>2. ASSUME at + n <= Len(s) PROVE take(s \o t, at, n) = take(s, at, n)
    <2>1. at + 1 \in 1 .. Len(s) /\ at + n \in 1 .. Len(s)
        BY <1>2
    <2> QED
        BY <2>1, SubSeqOfConcat1 DEF take
<1>3. ASSUME at + n <= Len(t) PROVE take(s \o t, Len(s) + at, n) = take(t, at, n)
    <2>1. /\ Len(s) + at + 1 \in Len(s) + 1 .. Len(s) + Len(t)
          /\ Len(s) + at + n \in Len(s) + 1 .. Len(s) + Len(t)
          /\ Len(s) + at + 1 - Len(s) = at + 1 /\ Len(s) + at + n - Len(s) = at + n
        BY <1>3
    <2>2. SubSeq(s \o t, Len(s) + at + 1, Len(s) + at + n)
            = SubSeq(t, Len(s) + at + 1 - Len(s), Len(s) + at + n - Len(s))
        BY <2>1, SubSeqOfConcat2
    <2> QED
        BY <2>1, <2>2 DEF take
<1> QED
    BY <1>1, <1>2, <1>3

\* What two, three and four parts make, and that each is found where it is.
LEMMA Two ==
    ASSUME NEW i \in Nat \ {0}, NEW j \in Nat \ {0}, NEW a \in Array(i), NEW b \in Array(j)
    PROVE  /\ a \o b \in Array(i + j)
           /\ take(a \o b, 0, i) = a /\ take(a \o b, i, j) = b
<1>1. a \in Seq(Byte) /\ Len(a) = i /\ b \in Seq(Byte) /\ Len(b) = j
    BY ArrayIs
<1>2. a \o b \in Seq(Byte) /\ Len(a \o b) = i + j
    BY <1>1, TakeOf
<1>3. take(a \o b, 0, i) = take(a, 0, i) /\ take(a \o b, i + 0, j) = take(b, 0, j)
    <2>1. 0 + i <= Len(a) /\ 0 + j <= Len(b)
        BY <1>1
    <2> QED
        BY <1>1, <2>1, TakeOf
<1>4. take(a, 0, i) = a /\ take(b, 0, j) = b
    BY <1>1, TakeAll
<1>5. a \o b \in Array(i + j)
    <2>1. i + j \in Nat
        OBVIOUS
    <2> QED
        BY <1>2, <2>1, ArrayIs
<1> QED
    BY <1>3, <1>4, <1>5

\* Three arrays put together and taken apart.
LEMMA Three ==
    ASSUME NEW i \in Nat \ {0}, NEW j \in Nat \ {0}, NEW k \in Nat \ {0},
           NEW a \in Array(i), NEW b \in Array(j), NEW c \in Array(k)
    PROVE  /\ a \o b \o c \in Array(i + j + k)
           /\ take(a \o b \o c, 0, i) = a /\ take(a \o b \o c, i, j) = b
           /\ take(a \o b \o c, i + j, k) = c
<1> DEFINE ab == a \o b
<1>1. ab \in Array(i + j) /\ take(ab, 0, i) = a /\ take(ab, i, j) = b
    BY Two
<1>2. i + j \in Nat \ {0}
    OBVIOUS
<1>3. ab \in Seq(Byte) /\ Len(ab) = i + j /\ c \in Seq(Byte) /\ Len(c) = k
    BY <1>1, <1>2, ArrayIs
<1> HIDE DEF ab
<1>4. ab \o c \in Array(i + j + k) /\ take(ab \o c, i + j, k) = c
    BY <1>1, <1>2, Two
<1>5. take(ab \o c, 0, i) = take(ab, 0, i) /\ take(ab \o c, i, j) = take(ab, i, j)
    <2>1. 0 + i <= Len(ab) /\ i + j <= Len(ab) /\ i \in Nat
        BY <1>3
    <2> QED
        BY <1>3, <2>1, TakeOf
<1> QED
    BY <1>1, <1>4, <1>5 DEF ab

\* Four arrays put together and taken apart.
LEMMA Four ==
    ASSUME NEW i \in Nat \ {0}, NEW j \in Nat \ {0}, NEW k \in Nat \ {0}, NEW l \in Nat \ {0},
           NEW a \in Array(i), NEW b \in Array(j), NEW c \in Array(k), NEW d \in Array(l)
    PROVE  /\ a \o b \o c \o d \in Array(i + j + k + l)
           /\ take(a \o b \o c \o d, 0, i) = a /\ take(a \o b \o c \o d, i, j) = b
           /\ take(a \o b \o c \o d, i + j, k) = c
           /\ take(a \o b \o c \o d, i + j + k, l) = d
<1> DEFINE abc == a \o b \o c
<1>1. /\ abc \in Array(i + j + k) /\ take(abc, 0, i) = a /\ take(abc, i, j) = b
      /\ take(abc, i + j, k) = c
    BY Three
<1>2. i + j + k \in Nat \ {0}
    OBVIOUS
<1>3. abc \in Seq(Byte) /\ Len(abc) = i + j + k /\ d \in Seq(Byte) /\ Len(d) = l
    BY <1>1, <1>2, ArrayIs
<1> HIDE DEF abc
<1>4. abc \o d \in Array(i + j + k + l) /\ take(abc \o d, i + j + k, l) = d
    BY <1>1, <1>2, Two
<1>5. /\ take(abc \o d, 0, i) = take(abc, 0, i) /\ take(abc \o d, i, j) = take(abc, i, j)
      /\ take(abc \o d, i + j, k) = take(abc, i + j, k)
    <2>1. 0 + i <= Len(abc) /\ i + j <= Len(abc) /\ (i + j) + k <= Len(abc) /\ i + j \in Nat /\ i \in Nat
        BY <1>3
    <2> QED
        BY <1>3, <2>1, TakeOf
<1> QED
    BY <1>1, <1>4, <1>5 DEF abc

\* The first two parts of a payload are its beginning.
Adds(i, j, n) == n = i + j
Within(n, bytes) == n <= Len(bytes)
Joins(bytes, i, j, n) == take(bytes, 0, i) \o take(bytes, i, j) = take(bytes, 0, n)

\* Two neighbouring parts, the first of them at the start.
LEMMA JoinFirst ==
    ASSUME NEW bytes \in Seq(Byte), NEW i \in Nat, NEW j \in Nat, NEW n \in Nat, Adds(i, j, n),
           Within(n, bytes)
    PROVE  Joins(bytes, i, j, n)
<1>1. 0 \in Nat /\ 0 + i + j <= Len(bytes) /\ 0 + i = i /\ i + j = n
    BY DEF Adds, Within
<1>2. take(bytes, 0, i) \o take(bytes, 0 + i, j) = take(bytes, 0, i + j)
    BY <1>1, TakeJoin
<1> QED
    BY <1>1, <1>2 DEF Joins

\* A payload is its parts, in two.
LEMMA JoinTwo ==
    ASSUME NEW bytes \in Seq(Byte), NEW i \in Nat, NEW j \in Nat, Adds(i, j, Len(bytes))
    PROVE  take(bytes, 0, i) \o take(bytes, i, j) = bytes
<1>1. Len(bytes) \in Nat /\ Within(Len(bytes), bytes)
    BY DEF Within
<1>2. Joins(bytes, i, j, Len(bytes))
    BY <1>1, JoinFirst
<1> QED
    BY <1>2, TakeAll DEF Joins

\* The parts of a CONTROL_HELLO.
LEMMA HelloParts ==
    ASSUME NEW p \in Seq(Byte), Len(p) = 51
    PROVE  take(p, 0, 16) \o take(p, 16, 32) \o take(p, 48, 1) \o take(p, 49, 2) = p
<1>1. /\ Len(p) \in Nat /\ Within(Len(p), p)
      /\ 16 \in Nat /\ 32 \in Nat /\ 1 \in Nat /\ 2 \in Nat /\ 48 \in Nat /\ 49 \in Nat
      /\ Within(48, p) /\ Within(49, p)
      /\ Adds(16, 32, 48) /\ Adds(48, 1, 49) /\ Adds(49, 2, Len(p))
    BY DEF Adds, Within
<1>2. Joins(p, 16, 32, 48)
    BY <1>1, JoinFirst
<1>3. Joins(p, 48, 1, 49)
    BY <1>1, JoinFirst
<1>4. Joins(p, 49, 2, Len(p)) /\ take(p, 0, Len(p)) = p
    BY <1>1, JoinFirst, TakeAll
<1> QED
    BY <1>2, <1>3, <1>4 DEF Joins

\* The parts of a REGISTERED.
LEMMA RegisteredParts ==
    ASSUME NEW p \in Seq(Byte), Len(p) = 38
    PROVE  take(p, 0, 2) \o take(p, 2, 4) \o take(p, 6, 32) = p
<1>1. /\ Len(p) \in Nat /\ Within(Len(p), p) /\ 2 \in Nat /\ 4 \in Nat /\ 6 \in Nat /\ 32 \in Nat
      /\ Within(6, p) /\ Adds(2, 4, 6) /\ Adds(6, 32, Len(p))
    BY DEF Adds, Within
<1>2. Joins(p, 2, 4, 6)
    BY <1>1, JoinFirst
<1>3. Joins(p, 6, 32, Len(p)) /\ take(p, 0, Len(p)) = p
    BY <1>1, JoinFirst, TakeAll
<1> QED
    BY <1>2, <1>3 DEF Joins

\* The parts of a CONTROL_CHALLENGE.
LEMMA ChallengeParts ==
    ASSUME NEW p \in Seq(Byte), Len(p) = 80
    PROVE  take(p, 0, 32) \o take(p, 32, 16) \o take(p, 48, 32) = p
<1>1. /\ Len(p) \in Nat /\ Within(Len(p), p) /\ 32 \in Nat /\ 16 \in Nat /\ 48 \in Nat
      /\ Within(48, p) /\ Adds(32, 16, 48) /\ Adds(48, 32, Len(p))
    BY DEF Adds, Within
<1>2. Joins(p, 32, 16, 48)
    BY <1>1, JoinFirst
<1>3. Joins(p, 48, 32, Len(p)) /\ take(p, 0, Len(p)) = p
    <2>1. Joins(p, 48, 32, Len(p))
        BY <1>1, JoinFirst
    <2>2. take(p, 0, Len(p)) = p
        BY TakeAll
    <2> QED
        BY <2>1, <2>2
<1> QED
    BY <1>2, <1>3 DEF Joins

\* The parts of a DATA_HELLO.
LEMMA DataHelloParts ==
    ASSUME NEW p \in Seq(Byte), Len(p) = 64
    PROVE  take(p, 0, 16) \o take(p, 16, 16) \o take(p, 32, 32) = p
<1>1. /\ Len(p) \in Nat /\ Within(Len(p), p) /\ 16 \in Nat /\ 32 \in Nat
      /\ Within(32, p) /\ Adds(16, 16, 32) /\ Adds(32, 32, Len(p))
    BY DEF Adds, Within
<1>2. Joins(p, 16, 16, 32)
    BY <1>1, JoinFirst
<1>3. Joins(p, 32, 32, Len(p)) /\ take(p, 0, Len(p)) = p
    BY <1>1, JoinFirst, TakeAll
<1> QED
    BY <1>2, <1>3 DEF Joins

-----------------------------------------------------------------------------
(* Enumerations *)

\* Names and numbers of an enumeration without repetitions are inverse.
Distinct(names) == \A j, k \in DOMAIN names : names[j] = names[k] => j = k

\* The number of a name, in an enumeration of distinct names.
LEMMA OrdinalOf ==
    ASSUME NEW names, Distinct(names), DOMAIN names \subseteq Nat, NEW first \in {0, 1},
           NEW k \in DOMAIN names
    PROVE  Ordinal(names, names[k], first) = k + first - 1
<1> DEFINE j == CHOOSE j \in DOMAIN names : names[j] = names[k]
<1>1. j \in DOMAIN names /\ names[j] = names[k]
    OBVIOUS
<1>2. j = k
    BY <1>1 DEF Distinct
<1> HIDE DEF j
<1> QED
    BY <1>2 DEF Ordinal, j

\* Names and their numbers are inverse.
LEMMA NamedBack ==
    ASSUME NEW names, Distinct(names), NEW N \in Nat, DOMAIN names = 1 .. N, NEW first \in {0, 1}
    PROVE  /\ \A k \in 1 .. N : Named(names, Ordinal(names, names[k], first), first) = Ok(names[k])
           /\ \A n \in Nat : Named(names, n, first).ok =>
                 /\ n - first + 1 \in 1 .. N
                 /\ Named(names, n, first) = Ok(names[n - first + 1])
                 /\ Ordinal(names, names[n - first + 1], first) = n
<1>1. \A k \in 1 .. N : Ordinal(names, names[k], first) = k + first - 1
    BY OrdinalOf
<1>2. \A k \in 1 .. N : (k + first - 1) - first + 1 = k
    OBVIOUS
<1>3. \A k \in 1 .. N : Named(names, k + first - 1, first) = Ok(names[k])
    BY <1>2 DEF Named
<1>4. \A n \in Nat : Named(names, n, first).ok =>
        n - first + 1 \in 1 .. N /\ Named(names, n, first) = Ok(names[n - first + 1])
    BY DEF Named, Ok, Err
<1>5. \A n \in Nat : (n - first + 1) + first - 1 = n
    OBVIOUS
<1> QED
    BY <1>1, <1>3, <1>4, <1>5

\* The enumerations of the protocol have distinct names.
LEMMA Enumerations ==
    /\ Distinct(Modes) /\ DOMAIN Modes = 1 .. 2
    /\ Distinct(Kinds) /\ DOMAIN Kinds = 1 .. 2
    /\ Distinct(OpenFailures) /\ DOMAIN OpenFailures = 1 .. 4
    /\ Distinct(ErrorCodes) /\ DOMAIN ErrorCodes = 1 .. 10
<1>1. Distinct(Modes) /\ DOMAIN Modes = 1 .. 2
    BY DEF Modes, Distinct
<1>2. Distinct(Kinds) /\ DOMAIN Kinds = 1 .. 2
    BY DEF Kinds, Distinct
<1>3. Distinct(OpenFailures) /\ DOMAIN OpenFailures = 1 .. 4
    BY DEF OpenFailures, Distinct
<1>4. Distinct(ErrorCodes) /\ DOMAIN ErrorCodes = 1 .. 10
    BY DEF ErrorCodes, Distinct
<1> QED
    BY <1>1, <1>2, <1>3, <1>4

\* No two types have a name or a code in common.
LEMMA TypesApart ==
    /\ \A t, u \in Type : t.name = u.name => t = u
    /\ \A t, u \in Type : t.code = u.code => t = u
    /\ \A t \in Type : t.code \in Byte /\ t.payload_len \in 0 .. 80
<1>1. \A t, u \in Type : t.name = u.name => t = u
    BY DEF Type, Row
<1>2. \A t, u \in Type : t.code = u.code => t = u
    BY DEF Type, Row
<1>3. \A t \in Type : t.code \in Byte /\ t.payload_len \in 0 .. 80
    BY DEF Type, Row, Byte
<1> QED
    BY <1>1, <1>2, <1>3

\* The payload lengths by name.
LEMMA Lengths ==
    /\ payload_len("ControlHello") = 51 /\ payload_len("ControlChallenge") = 80
    /\ payload_len("Registered") = 38 /\ payload_len("OpenFailed") = 17
    /\ payload_len("DataHello") = 64 /\ payload_len("DataChallenge") = 64
    /\ payload_len("Open") = 16 /\ payload_len("Ping") = 8 /\ payload_len("Error") = 2
<1>1. ASSUME NEW t \in Type PROVE payload_len(t.name) = t.payload_len
    BY TypesApart DEF payload_len
<1> DEFINE N(name, code, n, kinds) ==
        Row(name, code, n, kinds) \in Type => payload_len(name) = n
<1>2. ASSUME NEW name, NEW code, NEW n, NEW kinds PROVE N(name, code, n, kinds)
    BY <1>1 DEF Row
<1> QED
    BY <1>2 DEF Type

-----------------------------------------------------------------------------
(* The preamble and the header *)

\* A preamble is accepted exactly if it is the one of its kind.
LEMMA PreambleDecodes ==
    ASSUME NEW b \in Seq(Byte), Len(b) = 8, NEW kind \in {"Control", "Data"}
    PROVE  decode_preamble(b) = Ok(kind) <=> b = encode_preamble(kind)
<1>1. Ordinal(Kinds, "Control", 1) = 1 /\ Ordinal(Kinds, "Data", 1) = 2
    <2>1. Kinds[1] = "Control" /\ Kinds[2] = "Data" /\ DOMAIN Kinds \subseteq Nat
        BY Enumerations DEF Kinds
    <2> QED
        BY <2>1, Enumerations, OrdinalOf
<1> DEFINE n == Ordinal(Kinds, kind, 1)
<1>2. n \in 1 .. 2 /\ n \in Byte /\ Kinds[n] = kind
    BY <1>1 DEF Kinds, Byte
<1> HIDE DEF n
<1>3. /\ encode_preamble(kind) \in Seq(Byte) /\ Len(encode_preamble(kind)) = 8
      /\ encode_preamble(kind)[1] = 84 /\ encode_preamble(kind)[2] = 84
      /\ encode_preamble(kind)[3] = 85 /\ encode_preamble(kind)[4] = 78
      /\ encode_preamble(kind)[5] = 1 /\ encode_preamble(kind)[6] = n
      /\ encode_preamble(kind)[7] = 0 /\ encode_preamble(kind)[8] = 0
    <2> DEFINE a == <<84, 84, 85, 78>>
               c == <<1, n, 0, 0>>
    <2>1. a \in Seq(Byte) /\ Len(a) = 4 /\ c \in Seq(Byte) /\ Len(c) = 4
        BY <1>2 DEF Byte
    <2>2. /\ a \o c \in Seq(Byte) /\ Len(a \o c) = 8
          /\ \A i \in 1 .. 8 : (a \o c)[i] = IF i <= 4 THEN a[i] ELSE c[i - 4]
        BY <2>1, ConcatProperties
    <2>3. encode_preamble(kind) = a \o c
        BY DEF encode_preamble, MAGIC, VERSION, n
    <2>4. /\ (a \o c)[1] = a[1] /\ (a \o c)[2] = a[2] /\ (a \o c)[3] = a[3] /\ (a \o c)[4] = a[4]
          /\ (a \o c)[5] = c[1] /\ (a \o c)[6] = c[2] /\ (a \o c)[7] = c[3] /\ (a \o c)[8] = c[4]
        BY <2>2
    <2> QED
        BY <2>2, <2>3, <2>4
<1>4. SubSeq(b, 1, 4) = MAGIC <=> b[1] = 84 /\ b[2] = 84 /\ b[3] = 85 /\ b[4] = 78
    <2>1. /\ SubSeq(b, 1, 4) \in Seq(Byte) /\ Len(SubSeq(b, 1, 4)) = 4
          /\ SubSeq(b, 1, 4)[1] = b[1] /\ SubSeq(b, 1, 4)[2] = b[2]
          /\ SubSeq(b, 1, 4)[3] = b[3] /\ SubSeq(b, 1, 4)[4] = b[4]
        OBVIOUS
    <2>2. /\ MAGIC \in Seq(Byte) /\ Len(MAGIC) = 4
          /\ MAGIC[1] = 84 /\ MAGIC[2] = 84 /\ MAGIC[3] = 85 /\ MAGIC[4] = 78
        BY DEF MAGIC, Byte
    <2>3. \A i \in 1 .. 4 : i = 1 \/ i = 2 \/ i = 3 \/ i = 4
        OBVIOUS
    <2> QED
        BY <2>1, <2>2, <2>3, SeqEqual
<1>5. b = encode_preamble(kind) <=>
        /\ b[1] = 84 /\ b[2] = 84 /\ b[3] = 85 /\ b[4] = 78 /\ b[5] = 1 /\ b[6] = n
        /\ b[7] = 0 /\ b[8] = 0
    <2>1. \A i \in 1 .. 8 : i = 1 \/ i = 2 \/ i = 3 \/ i = 4 \/ i = 5 \/ i = 6 \/ i = 7 \/ i = 8
        OBVIOUS
    <2> QED
        BY <1>3, <2>1, SeqEqual
<1>6. \A m \in Byte : Named(Kinds, m, 1) = Ok(kind) <=> m = n
    <2>1. ASSUME NEW m \in Byte PROVE Named(Kinds, m, 1) = Ok(kind) <=> m = n
        <3>1. m \in Nat /\ m - 1 + 1 = m /\ Ok(kind).ok /\ ~Err("ProtocolError").ok
            BY DEF Byte, Ok, Err
        <3>2. CASE m \in 1 .. 2
            <4>1. Named(Kinds, m, 1) = Ok(Kinds[m])
                BY <3>1, <3>2, Enumerations DEF Named
            <4>2. Ok(Kinds[m]) = Ok(kind) <=> Kinds[m] = kind
                BY DEF Ok
            <4> QED
                BY <1>2, <3>2, <4>1, <4>2, Enumerations DEF Distinct
        <3>3. CASE m \notin 1 .. 2
            <4>1. Named(Kinds, m, 1) = Err("ProtocolError")
                BY <3>1, <3>3, Enumerations DEF Named
            <4> QED
                BY <1>2, <3>1, <3>3, <4>1
        <3> QED
            BY <3>2, <3>3
    <2> QED
        BY <2>1
<1>7. b[6] \in Byte
    OBVIOUS
<1>8. Ok(kind).ok /\ \A code : ~Err(code).ok
    BY DEF Ok, Err
<1> QED
    BY <1>4, <1>5, <1>6, <1>7, <1>8 DEF decode_preamble, VERSION

\* A header is accepted exactly if the encoder writes it for a type.
LEMMA HeaderDecodes ==
    ASSUME NEW b \in Seq(Byte), Len(b) = 3
    PROVE  LET h == read_header(b)
           IN  /\ h.ok <=> \E t \in Type : b = encode_header(t)
               /\ h.ok => h.value \in Type /\ b = encode_header(h.value)
<1> DEFINE declared == from_be_bytes(take(b, 1, 2))
           types == {t \in Type : t.code = b[1] /\ t.payload_len = declared}
<1>1. /\ take(b, 1, 2) \in Seq(Byte) /\ Len(take(b, 1, 2)) = 2
    <2>1. 1 \in Nat /\ 2 \in Nat /\ 1 + 2 <= Len(b)
        OBVIOUS
    <2> QED
        BY <2>1, TakeTyped
<1>2. declared \in Unsigned(2) /\ to_be_bytes(declared, 2) = take(b, 1, 2)
    BY <1>1, BytesBack
<1>3. b = <<b[1]>> \o take(b, 1, 2) /\ b[1] \in Byte
    <2>1. take(b, 0, 1) = <<b[1]>> /\ b[1] \in Byte
        <3>1. 0 \in Nat /\ 0 + 1 <= Len(b) /\ 0 + 1 = 1
            OBVIOUS
        <3> QED
            BY <3>1, TakeOne
    <2>2. take(b, 0, 1) \o take(b, 1, 2) = b
        <3>1. 1 \in Nat /\ 2 \in Nat /\ Adds(1, 2, Len(b))
            BY DEF Adds
        <3> QED
            BY <3>1, JoinTwo
    <2> QED
        BY <2>1, <2>2
<1> HIDE DEF declared
<1>4. ASSUME NEW t \in Type PROVE b = encode_header(t) <=> t \in types
    <2>1. t.code \in Byte /\ t.payload_len \in Unsigned(2)
        <3>1. t.code \in Byte /\ t.payload_len \in 0 .. 80
            BY TypesApart
        <3>2. \A n \in 0 .. 80 : n \in Nat /\ n <= 65535
            OBVIOUS
        <3>3. \A n \in 0 .. 80 : n \in Unsigned(2)
            BY <3>2, ShortFits
        <3> QED
            BY <3>1, <3>3
    <2>2. /\ to_be_bytes(t.payload_len, 2) \in Seq(Byte) /\ Len(to_be_bytes(t.payload_len, 2)) = 2
          /\ from_be_bytes(to_be_bytes(t.payload_len, 2)) = t.payload_len
        <3>1. t.payload_len \in Nat /\ 2 \in Nat
            BY <2>1 DEF Unsigned
        <3> QED
            BY <2>1, <3>1, BytesTyped, NumberBack
    <2>3. ASSUME b = encode_header(t) PROVE b[1] = t.code /\ declared = t.payload_len
        <3>1. <<t.code>> \in Array(1) /\ to_be_bytes(t.payload_len, 2) \in Array(2)
            <4>1. <<t.code>> \in Seq(Byte) /\ Len(<<t.code>>) = 1 /\ 1 \in Nat /\ 2 \in Nat
                BY <2>1
            <4> QED
                BY <2>2, <4>1, ArrayIs
        <3>2. take(b, 0, 1) = <<t.code>> /\ take(b, 1, 2) = to_be_bytes(t.payload_len, 2)
            <4> DEFINE code == <<t.code>>
                       long == to_be_bytes(t.payload_len, 2)
            <4>1. 1 \in Nat \ {0} /\ 2 \in Nat \ {0}
                OBVIOUS
            <4>2. b = code \o long
                BY <2>3 DEF encode_header
            <4>3. code \in Array(1) /\ long \in Array(2)
                BY <3>1
            <4> HIDE DEF code, long
            <4>4. take(code \o long, 0, 1) = code /\ take(code \o long, 1, 2) = long
                BY <4>1, <4>3, Two
            <4>5. take(b, 0, 1) = code /\ take(b, 1, 2) = long
                BY <4>2, <4>4
            <4> QED
                BY <4>5 DEF code, long
        <3>3. take(b, 0, 1) = <<b[1]>>
            <4>1. 0 \in Nat /\ 0 + 1 <= Len(b) /\ 0 + 1 = 1
                OBVIOUS
            <4> QED
                BY <4>1, TakeOne
        <3>4. b[1] = t.code
            BY <3>2, <3>3
        <3> QED
            BY <2>2, <3>2, <3>4 DEF declared
    <2>4. ASSUME b[1] = t.code, declared = t.payload_len PROVE b = encode_header(t)
        BY <1>2, <1>3, <2>4 DEF encode_header
    <2> QED
        BY <2>3, <2>4
<1>5. ASSUME types # {} PROVE ~(declared > MAX_PAYLOAD)
    <2>1. PICK t \in Type : t.payload_len = declared
        BY <1>5
    <2>2. declared \in 0 .. 80
        BY <2>1, TypesApart
    <2> QED
        BY <2>2 DEF MAX_PAYLOAD
<1>6. read_header(b) = IF types = {} THEN Err("ProtocolError") ELSE Ok(CHOOSE t \in types : TRUE)
    <2>1. read_header(b) = IF declared > MAX_PAYLOAD \/ types = {} THEN Err("ProtocolError")
                           ELSE Ok(CHOOSE t \in types : TRUE)
        BY DEF read_header, declared
    <2> QED
        BY <1>5, <2>1
<1>7. types # {} => (CHOOSE t \in types : TRUE) \in types
    OBVIOUS
<1>8. types \subseteq Type
    OBVIOUS
<1> HIDE DEF types
<1> QED
    BY <1>4, <1>6, <1>7, <1>8 DEF Ok, Err

\* The encoder writes no two types the same header.
LEMMA HeadersApart ==
    ASSUME NEW t \in Type, NEW u \in Type, encode_header(t) = encode_header(u)
    PROVE  t = u
<1>1. \A v \in Type : encode_header(v)[1] = v.code
    <2> SUFFICES ASSUME NEW v \in Type PROVE encode_header(v)[1] = v.code
        OBVIOUS
    <2>1. v.code \in Byte /\ v.payload_len \in Nat
        <3>1. \A n \in 0 .. 80 : n \in Nat
            OBVIOUS
        <3> QED
            BY <3>1, TypesApart
    <2> DEFINE code == <<v.code>>
               long == to_be_bytes(v.payload_len, 2)
    <2>2. code \in Seq(Byte) /\ Len(code) = 1 /\ code[1] = v.code /\ 1 \in 1 .. 1
        BY <2>1
    <2>3. long \in Seq(Byte)
        <3>1. 2 \in Nat
            OBVIOUS
        <3> QED
            BY <2>1, <3>1, BytesTyped
    <2>4. encode_header(v) = code \o long
        BY DEF encode_header
    <2> HIDE DEF code, long
    <2>5. (code \o long)[1] = code[1]
        BY <2>2, <2>3, ConcatProperties
    <2> QED
        BY <2>2, <2>4, <2>5
<1> QED
    BY <1>1, TypesApart

-----------------------------------------------------------------------------
(* Payloads *)

\* A number is written to as many bytes as its type has, and read back.
LEMMA NumberField ==
    ASSUME NEW width \in Nat, NEW n \in Unsigned(width)
    PROVE  to_be_bytes(n, width) \in Array(width) /\ from_be_bytes(to_be_bytes(n, width)) = n
<1>1. n \in Nat
    BY DEF Unsigned
<1> QED
    BY <1>1, BytesTyped, NumberBack, ArrayIs

\* An enumeration is written to one byte, and read back.
LEMMA EnumField ==
    ASSUME NEW names, Distinct(names), NEW N \in Nat, N <= 10, DOMAIN names = 1 .. N,
           NEW first \in {0, 1}, NEW k \in 1 .. N
    PROVE  LET c == Ordinal(names, names[k], first)
           IN  c \in Byte /\ <<c>> \in Array(1) /\ Named(names, c, first) = Ok(names[k])
<1> DEFINE c == Ordinal(names, names[k], first)
<1>1. c = k + first - 1 /\ Named(names, c, first) = Ok(names[k])
    <2>1. DOMAIN names \subseteq Nat
        OBVIOUS
    <2> QED
        BY <2>1, OrdinalOf, NamedBack
<1>2. c \in Byte
    BY <1>1 DEF Byte
<1> HIDE DEF c
<1>3. <<c>> \in Seq(Byte) /\ Len(<<c>>) = 1 /\ 1 \in Nat
    BY <1>2
<1>4. <<c>> \in Array(1)
    BY <1>3, ArrayIs
<1> QED
    BY <1>1, <1>2, <1>4 DEF c

\* A part of one byte is read where it is.
LEMMA ByteAt ==
    ASSUME NEW p \in Seq(Byte), NEW at \in Nat, at + 1 <= Len(p), NEW c, take(p, at, 1) = <<c>>
    PROVE  p[at + 1] = c
<1>1. <<p[at + 1]>> = <<c>>
    BY TakeOne
<1> QED
    BY <1>1

\* What decode is for each type, once the length is right.
LEMMA DecodeIs ==
    ASSUME NEW p, NEW ty \in MessageTypes, Len(p) = payload_len(ty)
    PROVE  /\ ty = "ControlHello" => decode(ty, p) = decode_control_hello(p)
           /\ ty = "ControlChallenge" => decode(ty, p) =
                 Ok([ty |-> ty, server_nonce |-> take(p, 0, 32),
                     session_id |-> take(p, 32, 16), server_mac |-> take(p, 48, 32)])
           /\ ty = "Registered" => decode(ty, p) = decode_registered(p)
           /\ ty = "OpenFailed" => decode(ty, p) = decode_open_failed(p)
           /\ ty = "DataHello" => decode(ty, p) =
                 Ok([ty |-> ty, session_id |-> take(p, 0, 16),
                     request_id |-> take(p, 16, 16), client_nonce |-> take(p, 32, 32)])
           /\ ty = "DataChallenge" => decode(ty, p) =
                 Ok([ty |-> ty, server_nonce |-> take(p, 0, 32),
                     server_mac |-> take(p, 32, 32)])
           /\ ty = "Open" => decode(ty, p) = Ok([ty |-> ty, request_id |-> take(p, 0, 16)])
           /\ ty = "Ping" => decode(ty, p) = Ok([ty |-> ty, sequence |-> from_be_bytes(p)])
           /\ ty = "Error" => decode(ty, p) = decode_error(p)
BY DEF decode

\* A CONTROL_HELLO that may be sent is read back.
LEMMA HelloBack ==
    ASSUME NEW instance_id \in Array(16), NEW client_nonce \in Array(32), NEW m \in {"Fresh", "Resume"},
           NEW port \in Unsigned(2), port >= 1024 \/ (port = 0 /\ m = "Fresh")
    PROVE  LET hello == [ty |-> "ControlHello", instance_id |-> instance_id,
                         client_nonce |-> client_nonce, mode |-> m, requested_port |-> port]
           IN  decode("ControlHello", encode(hello)) = Ok(hello)
<1> DEFINE hello == [ty |-> "ControlHello", instance_id |-> instance_id,
                     client_nonce |-> client_nonce, mode |-> m, requested_port |-> port]
           c == Ordinal(Modes, m, 0)
           tag == <<c>>
           number == to_be_bytes(port, 2)
           p == instance_id \o client_nonce \o tag \o number
<1>1. encode(hello) = p
    BY DEF encode
<1>2. c \in Byte /\ tag \in Array(1) /\ Named(Modes, c, 0) = Ok(m)
    <2>1. PICK k \in 1 .. 2 : Modes[k] = m
        BY DEF Modes
    <2>2. 2 \in Nat /\ 2 <= 10 /\ 0 \in {0, 1}
        OBVIOUS
    <2> QED
        BY <2>1, <2>2, Enumerations, EnumField
<1>3. number \in Array(2) /\ from_be_bytes(number) = port /\ port \in Nat
    BY NumberField DEF Unsigned
<1> HIDE DEF tag, number
<1>4. /\ p \in Array(16 + 32 + 1 + 2) /\ take(p, 0, 16) = instance_id /\ take(p, 16, 32) = client_nonce
      /\ take(p, 16 + 32, 1) = tag /\ take(p, 16 + 32 + 1, 2) = number
    <2>1. 16 \in Nat \ {0} /\ 32 \in Nat \ {0} /\ 1 \in Nat \ {0} /\ 2 \in Nat \ {0}
        OBVIOUS
    <2> QED
        BY <1>2, <1>3, <2>1, Four
<1> HIDE DEF p, c
<1>5. /\ p \in Seq(Byte) /\ Len(p) = 51 /\ take(p, 48, 1) = <<c>> /\ take(p, 49, 2) = number
    <2>1. 16 + 32 + 1 + 2 = 51 /\ 16 + 32 = 48 /\ 16 + 32 + 1 = 49 /\ 51 \in Nat
        OBVIOUS
    <2> QED
        BY <1>4, <2>1, ArrayIs DEF tag
<1>6. p[49] = c
    <2>1. 48 \in Nat /\ 48 + 1 <= Len(p) /\ 48 + 1 = 49
        BY <1>5
    <2> QED
        BY <1>5, <2>1, ByteAt
<1>7. decode("ControlHello", p) = decode_control_hello(p)
    <2>1. Len(p) = payload_len("ControlHello") /\ "ControlHello" \in MessageTypes
        BY <1>5, Lengths DEF MessageTypes
    <2> QED
        BY <2>1, DecodeIs
<1>8. ~((m = "Resume" /\ port = 0) \/ port \in 1 .. 1023)
    BY <1>3
<1>9. Ok(m).ok /\ Ok(m).value = m
    BY DEF Ok
<1>10. decode_control_hello(p) = Ok(hello)
    <2>1. Named(Modes, p[49], 0) = Ok(m) /\ from_be_bytes(take(p, 49, 2)) = port
        BY <1>2, <1>3, <1>5, <1>6
    <2>2. decode_control_hello(p) =
            IF ~Ok(m).ok THEN Ok(m)
            ELSE IF (Ok(m).value = "Resume" /\ port = 0) \/ port \in 1 .. 1023
            THEN Err("InvalidPort")
            ELSE Ok([ty |-> "ControlHello", instance_id |-> take(p, 0, 16),
                     client_nonce |-> take(p, 16, 32), mode |-> Ok(m).value,
                     requested_port |-> port])
        BY <2>1 DEF decode_control_hello
    <2> QED
        BY <1>4, <1>8, <1>9, <2>2
<1> HIDE DEF hello
<1>11. decode("ControlHello", encode(hello)) = Ok(hello)
    BY <1>1, <1>7, <1>10
<1> QED
    BY <1>11 DEF hello

\* A REGISTERED that may be sent is read back.
LEMMA RegisteredBack ==
    ASSUME NEW ready_mac \in Array(32), NEW port \in Unsigned(2), port >= 1024,
           NEW maximum \in Unsigned(4), maximum > 0
    PROVE  LET m == [ty |-> "Registered", assigned_port |-> port, max_connections |-> maximum,
                     ready_mac |-> ready_mac]
           IN  decode("Registered", encode(m)) = Ok(m)
<1> DEFINE m == [ty |-> "Registered", assigned_port |-> port, max_connections |-> maximum,
                 ready_mac |-> ready_mac]
           number == to_be_bytes(port, 2)
           limit == to_be_bytes(maximum, 4)
           p == number \o limit \o ready_mac
<1>1. encode(m) = p
    BY DEF encode
<1>2. number \in Array(2) /\ from_be_bytes(number) = port /\ port \in Nat
    BY NumberField DEF Unsigned
<1>3. limit \in Array(4) /\ from_be_bytes(limit) = maximum /\ maximum \in Nat
    BY NumberField DEF Unsigned
<1> HIDE DEF number, limit
<1>4. /\ p \in Array(2 + 4 + 32) /\ take(p, 0, 2) = number /\ take(p, 2, 4) = limit
      /\ take(p, 2 + 4, 32) = ready_mac
    <2>1. 2 \in Nat \ {0} /\ 4 \in Nat \ {0} /\ 32 \in Nat \ {0}
        OBVIOUS
    <2> QED
        BY <1>2, <1>3, <2>1, Three
<1> HIDE DEF p
<1>5. Len(p) = 38 /\ take(p, 6, 32) = ready_mac
    <2>1. 2 + 4 + 32 = 38 /\ 2 + 4 = 6 /\ 38 \in Nat
        OBVIOUS
    <2> QED
        BY <1>4, <2>1, ArrayIs
<1>6. decode("Registered", p) = decode_registered(p)
    <2>1. Len(p) = payload_len("Registered") /\ "Registered" \in MessageTypes
        BY <1>5, Lengths DEF MessageTypes
    <2> QED
        BY <2>1, DecodeIs
<1>7. ~(port < 1024) /\ maximum # 0
    BY <1>2, <1>3
<1>8. decode_registered(p) = Ok(m)
    BY <1>2, <1>3, <1>4, <1>5, <1>7 DEF decode_registered
<1> HIDE DEF m
<1>9. decode("Registered", encode(m)) = Ok(m)
    BY <1>1, <1>6, <1>8
<1> QED
    BY <1>9 DEF m

\* An OPEN_FAILED is read back.
LEMMA OpenFailedBack ==
    ASSUME NEW request_id \in Array(16), NEW k \in 1 .. 4
    PROVE  LET m == [ty |-> "OpenFailed", request_id |-> request_id, reason |-> OpenFailures[k]]
           IN  decode("OpenFailed", encode(m)) = Ok(m)
<1> DEFINE why == OpenFailures[k]
           m == [ty |-> "OpenFailed", request_id |-> request_id, reason |-> why]
           c == Ordinal(OpenFailures, why, 1)
           tag == <<c>>
           p == request_id \o tag
<1>1. encode(m) = p
    BY DEF encode
<1>2. c \in Byte /\ tag \in Array(1) /\ Named(OpenFailures, c, 1) = Ok(why)
    <2>1. 4 \in Nat /\ 4 <= 10 /\ 1 \in {0, 1}
        OBVIOUS
    <2> QED
        BY <2>1, Enumerations, EnumField
<1> HIDE DEF tag, why
<1>3. /\ p \in Array(16 + 1) /\ take(p, 0, 16) = request_id /\ take(p, 16, 1) = tag
    <2>1. 16 \in Nat \ {0} /\ 1 \in Nat \ {0}
        OBVIOUS
    <2> QED
        BY <1>2, <2>1, Two
<1> HIDE DEF p, c
<1>4. p \in Seq(Byte) /\ Len(p) = 17 /\ take(p, 16, 1) = <<c>>
    <2>1. 16 + 1 = 17 /\ 17 \in Nat
        OBVIOUS
    <2> QED
        BY <1>3, <2>1, ArrayIs DEF tag
<1>5. p[17] = c
    <2>1. 16 \in Nat /\ 16 + 1 <= Len(p) /\ 16 + 1 = 17
        BY <1>4
    <2> QED
        BY <1>4, <2>1, ByteAt
<1>6. decode("OpenFailed", p) = decode_open_failed(p)
    <2>1. Len(p) = payload_len("OpenFailed") /\ "OpenFailed" \in MessageTypes
        BY <1>4, Lengths DEF MessageTypes
    <2> QED
        BY <2>1, DecodeIs
<1>7. decode_open_failed(p) = Ok(m)
    <2>1. Named(OpenFailures, p[17], 1) = Ok(why)
        BY <1>2, <1>5
    <2>2. decode_open_failed(p) =
            IF Ok(why).ok
            THEN Ok([ty |-> "OpenFailed", request_id |-> take(p, 0, 16), reason |-> Ok(why).value])
            ELSE Ok(why)
        BY <2>1 DEF decode_open_failed
    <2>3. Ok(why).ok /\ Ok(why).value = why
        BY DEF Ok
    <2> QED
        BY <1>3, <2>2, <2>3
<1> HIDE DEF m
<1>8. decode("OpenFailed", encode(m)) = Ok(m)
    BY <1>1, <1>6, <1>7
<1> QED
    BY <1>8 DEF m, why

\* An ERROR is read back.
LEMMA ErrorBack ==
    ASSUME NEW k \in 1 .. 10
    PROVE  LET m == [ty |-> "Error", code |-> ErrorCodes[k]]
           IN  decode("Error", encode(m)) = Ok(m)
<1> DEFINE code == ErrorCodes[k]
           m == [ty |-> "Error", code |-> code]
           c == Ordinal(ErrorCodes, code, 1)
           p == to_be_bytes(c, 2)
<1>1. encode(m) = p
    BY DEF encode
<1>2. c \in Byte /\ Named(ErrorCodes, c, 1) = Ok(code)
    <2>1. 10 \in Nat /\ 10 <= 10 /\ 1 \in {0, 1}
        OBVIOUS
    <2> QED
        BY <2>1, Enumerations, EnumField
<1> HIDE DEF code, c
<1>3. c \in Unsigned(2)
    <2>1. c \in Nat /\ c <= 65535
        BY <1>2 DEF Byte
    <2> QED
        BY <2>1, ShortFits
<1>4. Len(p) = 2 /\ from_be_bytes(p) = c
    <2>1. 2 \in Nat
        OBVIOUS
    <2> QED
        BY <1>3, <2>1, NumberField, ArrayIs
<1> HIDE DEF p
<1>5. decode("Error", p) = decode_error(p)
    <2>1. Len(p) = payload_len("Error") /\ "Error" \in MessageTypes
        BY <1>4, Lengths DEF MessageTypes
    <2> QED
        BY <2>1, DecodeIs
<1>6. decode_error(p) = Ok(m)
    <2>1. Named(ErrorCodes, from_be_bytes(p), 1) = Ok(code)
        BY <1>2, <1>4
    <2>2. decode_error(p) = IF Ok(code).ok THEN Ok([ty |-> "Error", code |-> Ok(code).value])
                            ELSE Ok(code)
        BY <2>1 DEF decode_error
    <2>3. Ok(code).ok /\ Ok(code).value = code
        BY DEF Ok
    <2> QED
        BY <2>2, <2>3
<1> HIDE DEF m
<1>7. decode("Error", encode(m)) = Ok(m)
    BY <1>1, <1>5, <1>6
<1> QED
    BY <1>7 DEF m, code

\* A CONTROL_CHALLENGE is read back.
LEMMA ChallengeBack ==
    ASSUME NEW server_nonce \in Array(32), NEW session_id \in Array(16), NEW server_mac \in Array(32)
    PROVE  LET m == [ty |-> "ControlChallenge", server_nonce |-> server_nonce,
                     session_id |-> session_id, server_mac |-> server_mac]
           IN  decode("ControlChallenge", encode(m)) = Ok(m)
<1> DEFINE m == [ty |-> "ControlChallenge", server_nonce |-> server_nonce,
                 session_id |-> session_id, server_mac |-> server_mac]
           p == server_nonce \o session_id \o server_mac
<1>1. encode(m) = p
    BY DEF encode
<1>2. /\ p \in Array(32 + 16 + 32) /\ take(p, 0, 32) = server_nonce
      /\ take(p, 32, 16) = session_id /\ take(p, 32 + 16, 32) = server_mac
    <2>1. 32 \in Nat \ {0} /\ 16 \in Nat \ {0}
        OBVIOUS
    <2> QED
        BY <2>1, Three
<1> HIDE DEF p
<1>3. Len(p) = 80 /\ take(p, 48, 32) = server_mac
    <2>1. 32 + 16 + 32 = 80 /\ 80 \in Nat
        OBVIOUS
    <2>2. p \in Array(80)
        BY <1>2, <2>1
    <2>3. Len(p) = 80
        BY <2>1, <2>2, ArrayIs
    <2>4. 32 + 16 = 48
        OBVIOUS
    <2>5. take(p, 48, 32) = server_mac
        BY <1>2, <2>4
    <2> QED
        BY <2>3, <2>5
<1>4. decode("ControlChallenge", p) = Ok(m)
    <2>1. Len(p) = payload_len("ControlChallenge") /\ "ControlChallenge" \in MessageTypes
        BY <1>3, Lengths DEF MessageTypes
    <2> QED
        BY <1>2, <1>3, <2>1, DecodeIs
<1> HIDE DEF m
<1>5. decode("ControlChallenge", encode(m)) = Ok(m)
    BY <1>1, <1>4
<1> QED
    BY <1>5 DEF m

\* A DATA_HELLO is read back.
LEMMA DataHelloBack ==
    ASSUME NEW session_id \in Array(16), NEW request_id \in Array(16), NEW client_nonce \in Array(32)
    PROVE  LET m == [ty |-> "DataHello", session_id |-> session_id, request_id |-> request_id,
                     client_nonce |-> client_nonce]
           IN  decode("DataHello", encode(m)) = Ok(m)
<1> DEFINE m == [ty |-> "DataHello", session_id |-> session_id, request_id |-> request_id,
                 client_nonce |-> client_nonce]
           p == session_id \o request_id \o client_nonce
<1>1. encode(m) = p
    BY DEF encode
<1>2. /\ p \in Array(16 + 16 + 32) /\ take(p, 0, 16) = session_id
      /\ take(p, 16, 16) = request_id /\ take(p, 16 + 16, 32) = client_nonce
    <2>1. 32 \in Nat \ {0} /\ 16 \in Nat \ {0}
        OBVIOUS
    <2> QED
        BY <2>1, Three
<1> HIDE DEF p
<1>3. Len(p) = 64 /\ take(p, 32, 32) = client_nonce
    <2>1. 16 + 16 + 32 = 64 /\ 64 \in Nat
        OBVIOUS
    <2>2. p \in Array(64)
        BY <1>2, <2>1
    <2>3. Len(p) = 64
        BY <2>1, <2>2, ArrayIs
    <2>4. 16 + 16 = 32
        OBVIOUS
    <2>5. take(p, 32, 32) = client_nonce
        BY <1>2, <2>4
    <2> QED
        BY <2>3, <2>5
<1>4. decode("DataHello", p) = Ok(m)
    <2>1. Len(p) = payload_len("DataHello") /\ "DataHello" \in MessageTypes
        BY <1>3, Lengths DEF MessageTypes
    <2> QED
        BY <1>2, <1>3, <2>1, DecodeIs
<1> HIDE DEF m
<1>5. decode("DataHello", encode(m)) = Ok(m)
    BY <1>1, <1>4
<1> QED
    BY <1>5 DEF m

\* A DATA_CHALLENGE is read back.
LEMMA DataChallengeBack ==
    ASSUME NEW server_nonce \in Array(32), NEW server_mac \in Array(32)
    PROVE  LET m == [ty |-> "DataChallenge", server_nonce |-> server_nonce, server_mac |-> server_mac]
           IN  decode("DataChallenge", encode(m)) = Ok(m)
<1> DEFINE m == [ty |-> "DataChallenge", server_nonce |-> server_nonce, server_mac |-> server_mac]
           p == server_nonce \o server_mac
<1>1. encode(m) = p
    BY DEF encode
<1>2. p \in Array(32 + 32) /\ take(p, 0, 32) = server_nonce /\ take(p, 32, 32) = server_mac
    <2>1. 32 \in Nat \ {0}
        OBVIOUS
    <2> QED
        BY <2>1, Two
<1> HIDE DEF p
<1>3. Len(p) = 64
    <2>1. 32 + 32 = 64 /\ 64 \in Nat
        OBVIOUS
    <2> QED
        BY <1>2, <2>1, ArrayIs
<1>4. decode("DataChallenge", p) = Ok(m)
    <2>1. Len(p) = payload_len("DataChallenge") /\ "DataChallenge" \in MessageTypes
        BY <1>3, Lengths DEF MessageTypes
    <2> QED
        BY <1>2, <2>1, DecodeIs
<1> HIDE DEF m
<1>5. decode("DataChallenge", encode(m)) = Ok(m)
    BY <1>1, <1>4
<1> QED
    BY <1>5 DEF m

\* An OPEN is read back.
LEMMA OpenBack ==
    ASSUME NEW request_id \in Array(16)
    PROVE  LET m == [ty |-> "Open", request_id |-> request_id]
           IN  decode("Open", encode(m)) = Ok(m)
<1> DEFINE m == [ty |-> "Open", request_id |-> request_id]
<1>1. encode(m) = request_id
    BY DEF encode
<1>2. request_id \in Seq(Byte) /\ Len(request_id) = 16 /\ take(request_id, 0, 16) = request_id
    <2>1. 16 \in Nat
        OBVIOUS
    <2> QED
        BY <2>1, ArrayIs, TakeAll
<1>3. decode("Open", request_id) = Ok(m)
    <2>1. Len(request_id) = payload_len("Open") /\ "Open" \in MessageTypes
        BY <1>2, Lengths DEF MessageTypes
    <2> QED
        BY <1>2, <2>1, DecodeIs
<1> HIDE DEF m
<1>4. decode("Open", encode(m)) = Ok(m)
    BY <1>1, <1>3
<1> QED
    BY <1>4 DEF m

\* A PING or PONG is read back.
LEMMA PingBack ==
    ASSUME NEW sequence \in Unsigned(8)
    PROVE  LET m == [ty |-> "Ping", sequence |-> sequence]
           IN  decode("Ping", encode(m)) = Ok(m)
<1> DEFINE m == [ty |-> "Ping", sequence |-> sequence]
           p == to_be_bytes(sequence, 8)
<1>1. encode(m) = p
    BY DEF encode
<1>2. Len(p) = 8 /\ from_be_bytes(p) = sequence
    <2>1. 8 \in Nat
        OBVIOUS
    <2> QED
        BY <2>1, NumberField, ArrayIs
<1> HIDE DEF p
<1>3. decode("Ping", p) = Ok(m)
    <2>1. Len(p) = payload_len("Ping") /\ "Ping" \in MessageTypes
        BY <1>2, Lengths DEF MessageTypes
    <2> QED
        BY <1>2, <2>1, DecodeIs
<1> HIDE DEF m
<1>4. decode("Ping", encode(m)) = Ok(m)
    BY <1>1, <1>3
<1> QED
    BY <1>4 DEF m

\* Whatever either side may send is read back.
LEMMA DecodeEncode ==
    ASSUME NEW m \in Message, Sendable(m)
    PROVE  decode(m.ty, encode(m)) = Ok(m)
<1>1. CASE m \in [ty: {"ControlHello"}, instance_id: Array(16), client_nonce: Array(32),
                  mode: {"Fresh", "Resume"}, requested_port: Unsigned(2)]
    <2>1. /\ m.ty = "ControlHello" /\ m.instance_id \in Array(16) /\ m.client_nonce \in Array(32)
          /\ m.mode \in {"Fresh", "Resume"} /\ m.requested_port \in Unsigned(2)
          /\ m = [ty |-> "ControlHello", instance_id |-> m.instance_id,
                  client_nonce |-> m.client_nonce, mode |-> m.mode,
                  requested_port |-> m.requested_port]
        BY <1>1
    <2>2. m.requested_port >= 1024 \/ (m.requested_port = 0 /\ m.mode = "Fresh")
        BY <2>1 DEF Sendable
    <2> QED
        BY <2>1, <2>2, HelloBack
<1>2. CASE m \in [ty: {"ControlChallenge"}, server_nonce: Array(32), session_id: Array(16),
                  server_mac: Array(32)]
    <2>1. /\ m.ty = "ControlChallenge" /\ m.server_nonce \in Array(32)
          /\ m.session_id \in Array(16) /\ m.server_mac \in Array(32)
          /\ m = [ty |-> "ControlChallenge", server_nonce |-> m.server_nonce,
                  session_id |-> m.session_id, server_mac |-> m.server_mac]
        BY <1>2
    <2> QED
        BY <2>1, ChallengeBack
<1>3. CASE m \in [ty: {"Registered"}, assigned_port: Unsigned(2), max_connections: Unsigned(4),
                  ready_mac: Array(32)]
    <2>1. /\ m.ty = "Registered" /\ m.assigned_port \in Unsigned(2)
          /\ m.max_connections \in Unsigned(4) /\ m.ready_mac \in Array(32)
          /\ m = [ty |-> "Registered", assigned_port |-> m.assigned_port,
                  max_connections |-> m.max_connections, ready_mac |-> m.ready_mac]
        BY <1>3
    <2>2. m.assigned_port >= 1024 /\ m.max_connections > 0
        BY <2>1 DEF Sendable
    <2> QED
        BY <2>1, <2>2, RegisteredBack
<1>4. CASE m \in [ty: {"OpenFailed"}, request_id: Array(16),
                  reason: {"TargetConnect", "SetupTimeout", "DataAuth", "LocalCapacity"}]
    <2>1. /\ m.ty = "OpenFailed" /\ m.request_id \in Array(16)
          /\ m = [ty |-> "OpenFailed", request_id |-> m.request_id, reason |-> m.reason]
        BY <1>4
    <2>2. PICK k \in 1 .. 4 : m.reason = OpenFailures[k]
        BY <1>4 DEF OpenFailures
    <2> QED
        BY <2>1, <2>2, OpenFailedBack
<1>5. CASE m \in [ty: {"DataHello"}, session_id: Array(16), request_id: Array(16),
                  client_nonce: Array(32)]
    <2>1. /\ m.ty = "DataHello" /\ m.session_id \in Array(16)
          /\ m.request_id \in Array(16) /\ m.client_nonce \in Array(32)
          /\ m = [ty |-> "DataHello", session_id |-> m.session_id,
                  request_id |-> m.request_id, client_nonce |-> m.client_nonce]
        BY <1>5
    <2> QED
        BY <2>1, DataHelloBack
<1>6. CASE m \in [ty: {"DataChallenge"}, server_nonce: Array(32), server_mac: Array(32)]
    <2>1. /\ m.ty = "DataChallenge" /\ m.server_nonce \in Array(32) /\ m.server_mac \in Array(32)
          /\ m = [ty |-> "DataChallenge", server_nonce |-> m.server_nonce,
                  server_mac |-> m.server_mac]
        BY <1>6
    <2> QED
        BY <2>1, DataChallengeBack
<1>7. CASE m \in [ty: {"Open"}, request_id: Array(16)]
    <2>1. /\ m.ty = "Open" /\ m.request_id \in Array(16)
          /\ m = [ty |-> "Open", request_id |-> m.request_id]
        BY <1>7
    <2> QED
        BY <2>1, OpenBack
<1>8. CASE m \in [ty: {"Ping"}, sequence: Unsigned(8)]
    <2>1. /\ m.ty = "Ping" /\ m.sequence \in Unsigned(8)
          /\ m = [ty |-> "Ping", sequence |-> m.sequence]
        BY <1>8
    <2> QED
        BY <2>1, PingBack
<1>9. CASE m \in [ty: {"Error"}, code: {ErrorCodes[k] : k \in 1 .. 10}]
    <2>1. m.ty = "Error" /\ m = [ty |-> "Error", code |-> m.code]
        BY <1>9
    <2>2. PICK k \in 1 .. 10 : m.code = ErrorCodes[k]
        BY <1>9
    <2> QED
        BY <2>1, <2>2, ErrorBack
<1> QED
    BY <1>1, <1>2, <1>3, <1>4, <1>5, <1>6, <1>7, <1>8, <1>9 DEF Message

\* A part of a payload that is a number.
LEMMA NumberAt ==
    ASSUME NEW p \in Seq(Byte), NEW at \in Nat, NEW n \in Nat, at + n <= Len(p)
    PROVE  LET v == from_be_bytes(take(p, at, n))
           IN  v \in Nat /\ to_be_bytes(v, n) = take(p, at, n)
<1> DEFINE part == take(p, at, n)
<1>1. part \in Seq(Byte) /\ Len(part) = n
    BY TakeTyped
<1> HIDE DEF part
<1>2. from_be_bytes(part) \in Nat /\ to_be_bytes(from_be_bytes(part), n) = part
    BY <1>1, BytesBack DEF Unsigned
<1> QED
    BY <1>2 DEF part

\* A byte that is a name of an enumeration is what that name is written as.
LEMMA NameOf ==
    ASSUME NEW names, Distinct(names), NEW N \in Nat, DOMAIN names = 1 .. N, NEW first \in {0, 1},
           NEW n \in Nat, Named(names, n, first).ok
    PROVE  \E k \in 1 .. N : Named(names, n, first) = Ok(names[k]) /\ Ordinal(names, names[k], first) = n
BY NamedBack

\* An accepted CONTROL_HELLO is the encoding of what was read, and could be sent.
LEMMA HelloKept ==
    ASSUME NEW p \in Seq(Byte), Len(p) = 51, decode_control_hello(p).ok
    PROVE  encode(decode_control_hello(p).value) = p /\ Sendable(decode_control_hello(p).value)
<1> DEFINE c == p[49]
           port == from_be_bytes(take(p, 49, 2))
           Bad(m) == (m = "Resume" /\ port = 0) \/ port \in 1 .. 1023
           Hello(m) == [ty |-> "ControlHello", instance_id |-> take(p, 0, 16),
                        client_nonce |-> take(p, 16, 32), mode |-> m, requested_port |-> port]
<1>1. take(p, 48, 1) = <<c>> /\ c \in Byte
    <2>1. 48 \in Nat /\ 48 + 1 <= Len(p) /\ 48 + 1 = 49
        OBVIOUS
    <2> QED
        BY <2>1, TakeOne
<1>2. port \in Nat /\ to_be_bytes(port, 2) = take(p, 49, 2)
    <2>1. 49 \in Nat /\ 2 \in Nat /\ 49 + 2 <= Len(p)
        OBVIOUS
    <2> QED
        BY <2>1, NumberAt
<1>3. take(p, 0, 16) \o take(p, 16, 32) \o take(p, 48, 1) \o take(p, 49, 2) = p
    BY HelloParts
<1>4. decode_control_hello(p) =
        IF ~Named(Modes, c, 0).ok THEN Named(Modes, c, 0)
        ELSE IF Bad(Named(Modes, c, 0).value) THEN Err("InvalidPort")
        ELSE Ok(Hello(Named(Modes, c, 0).value))
    BY DEF decode_control_hello
<1> HIDE DEF c, port
<1>5. Named(Modes, c, 0).ok
    BY <1>4
<1>6. PICK k \in 1 .. 2 : Named(Modes, c, 0) = Ok(Modes[k]) /\ Ordinal(Modes, Modes[k], 0) = c
    <2>1. 2 \in Nat /\ 0 \in {0, 1} /\ c \in Nat
        BY <1>1 DEF Byte
    <2> QED
        BY <1>5, <2>1, Enumerations, NameOf
<1>7. PICK m \in {"Fresh", "Resume"} : Named(Modes, c, 0) = Ok(m) /\ Ordinal(Modes, m, 0) = c
    BY <1>6 DEF Modes
<1>8. Ok(m).ok /\ Ok(m).value = m /\ ~Err("InvalidPort").ok
    BY DEF Ok, Err
<1> HIDE DEF Bad, Hello
<1>9. decode_control_hello(p) = IF Bad(m) THEN Err("InvalidPort") ELSE Ok(Hello(m))
    BY <1>4, <1>7, <1>8
<1>10. ~Bad(m)
    BY <1>8, <1>9
<1>11. decode_control_hello(p).value = Hello(m)
    BY <1>9, <1>10 DEF Ok
<1>12. encode(Hello(m)) = p
    <2>1. encode(Hello(m)) = take(p, 0, 16) \o take(p, 16, 32) \o <<Ordinal(Modes, m, 0)>>
                                \o to_be_bytes(port, 2)
        BY DEF encode, Hello
    <2> QED
        BY <1>1, <1>2, <1>3, <1>7, <2>1
<1>13. Sendable(Hello(m))
    <2>1. port >= 1024 \/ (port = 0 /\ m = "Fresh")
        BY <1>2, <1>10 DEF Bad
    <2> QED
        BY <2>1 DEF Sendable, Hello
<1> QED
    BY <1>11, <1>12, <1>13

\* An accepted REGISTERED is the encoding of what was read, and could be sent.
LEMMA RegisteredKept ==
    ASSUME NEW p \in Seq(Byte), Len(p) = 38, decode_registered(p).ok
    PROVE  encode(decode_registered(p).value) = p /\ Sendable(decode_registered(p).value)
<1> DEFINE port == from_be_bytes(take(p, 0, 2))
           maximum == from_be_bytes(take(p, 2, 4))
           m == [ty |-> "Registered", assigned_port |-> port,
                 max_connections |-> maximum, ready_mac |-> take(p, 6, 32)]
<1>1. port \in Nat /\ to_be_bytes(port, 2) = take(p, 0, 2)
    <2>1. 0 \in Nat /\ 2 \in Nat /\ 0 + 2 <= Len(p)
        OBVIOUS
    <2> QED
        BY <2>1, NumberAt
<1>2. maximum \in Nat /\ to_be_bytes(maximum, 4) = take(p, 2, 4)
    <2>1. 2 \in Nat /\ 4 \in Nat /\ 2 + 4 <= Len(p)
        OBVIOUS
    <2> QED
        BY <2>1, NumberAt
<1>3. take(p, 0, 2) \o take(p, 2, 4) \o take(p, 6, 32) = p
    BY RegisteredParts
<1>4. decode_registered(p) = IF port < 1024 THEN Err("InvalidPort")
                             ELSE IF maximum = 0 THEN Err("ProtocolError") ELSE Ok(m)
    BY DEF decode_registered
<1> HIDE DEF port, maximum
<1>5. ~(port < 1024) /\ maximum # 0 /\ decode_registered(p).value = m
    <2> HIDE DEF m
    <2> QED
        BY <1>4 DEF Ok, Err
<1>6. encode(m) = to_be_bytes(port, 2) \o to_be_bytes(maximum, 4) \o take(p, 6, 32)
    BY DEF encode
<1>7. Sendable(m)
    <2>1. port >= 1024 /\ maximum > 0
        BY <1>1, <1>2, <1>5
    <2> QED
        BY <2>1 DEF Sendable
<1> HIDE DEF m
<1> QED
    BY <1>1, <1>2, <1>3, <1>5, <1>6, <1>7

\* An accepted OPEN_FAILED is the encoding of what was read.
LEMMA OpenFailedKept ==
    ASSUME NEW p \in Seq(Byte), Len(p) = 17, decode_open_failed(p).ok
    PROVE  encode(decode_open_failed(p).value) = p /\ Sendable(decode_open_failed(p).value)
<1> DEFINE c == p[17]
           Failed(r) == [ty |-> "OpenFailed", request_id |-> take(p, 0, 16), reason |-> r]
<1>1. take(p, 16, 1) = <<c>> /\ c \in Byte
    <2>1. 16 \in Nat /\ 16 + 1 <= Len(p) /\ 16 + 1 = 17
        OBVIOUS
    <2> QED
        BY <2>1, TakeOne
<1>2. take(p, 0, 16) \o take(p, 16, 1) = p
    <2>1. 16 \in Nat /\ 1 \in Nat /\ Adds(16, 1, Len(p))
        BY DEF Adds
    <2> QED
        BY <2>1, JoinTwo
<1>3. decode_open_failed(p) = IF Named(OpenFailures, c, 1).ok
                              THEN Ok(Failed(Named(OpenFailures, c, 1).value))
                              ELSE Named(OpenFailures, c, 1)
    BY DEF decode_open_failed
<1> HIDE DEF c
<1>4. Named(OpenFailures, c, 1).ok
    BY <1>3
<1>5. PICK k \in 1 .. 4 : /\ Named(OpenFailures, c, 1) = Ok(OpenFailures[k])
                          /\ Ordinal(OpenFailures, OpenFailures[k], 1) = c
    <2>1. 4 \in Nat /\ 1 \in {0, 1} /\ c \in Nat
        BY <1>1 DEF Byte
    <2> QED
        BY <1>4, <2>1, Enumerations, NameOf
<1> DEFINE why == OpenFailures[k]
<1> HIDE DEF why
<1>6. Ok(why).ok /\ Ok(why).value = why /\ Named(OpenFailures, c, 1) = Ok(why)
    BY <1>5 DEF Ok, why
<1>7. encode(Failed(why)) = take(p, 0, 16) \o <<Ordinal(OpenFailures, why, 1)>>
    BY DEF encode
<1>8. Sendable(Failed(why))
    BY DEF Sendable
<1> HIDE DEF Failed
<1>9. decode_open_failed(p).value = Failed(why)
    <2>1. decode_open_failed(p) = Ok(Failed(why))
        BY <1>3, <1>6
    <2> QED
        BY <2>1 DEF Ok
<1>10. Ordinal(OpenFailures, why, 1) = c
    BY <1>5 DEF why
<1> QED
    BY <1>1, <1>2, <1>7, <1>8, <1>9, <1>10

\* An accepted ERROR is the encoding of what was read.
LEMMA ErrorKept ==
    ASSUME NEW p \in Seq(Byte), Len(p) = 2, decode_error(p).ok
    PROVE  encode(decode_error(p).value) = p /\ Sendable(decode_error(p).value)
<1> DEFINE n == from_be_bytes(p)
           Error(e) == [ty |-> "Error", code |-> e]
<1>1. n \in Nat /\ to_be_bytes(n, 2) = p
    BY BytesBack DEF Unsigned
<1>2. decode_error(p) = IF Named(ErrorCodes, n, 1).ok THEN Ok(Error(Named(ErrorCodes, n, 1).value))
                        ELSE Named(ErrorCodes, n, 1)
    BY DEF decode_error
<1> HIDE DEF n
<1>3. Named(ErrorCodes, n, 1).ok
    BY <1>2
<1>4. PICK k \in 1 .. 10 : /\ Named(ErrorCodes, n, 1) = Ok(ErrorCodes[k])
                           /\ Ordinal(ErrorCodes, ErrorCodes[k], 1) = n
    <2>1. 10 \in Nat /\ 1 \in {0, 1}
        OBVIOUS
    <2> QED
        BY <1>1, <1>3, <2>1, Enumerations, NameOf
<1> DEFINE e == ErrorCodes[k]
<1> HIDE DEF e
<1>5. Ok(e).ok /\ Ok(e).value = e /\ Named(ErrorCodes, n, 1) = Ok(e) /\ Ordinal(ErrorCodes, e, 1) = n
    BY <1>4 DEF Ok, e
<1>6. encode(Error(e)) = to_be_bytes(Ordinal(ErrorCodes, e, 1), 2)
    BY DEF encode
<1>7. Sendable(Error(e))
    BY DEF Sendable
<1> HIDE DEF Error
<1>8. decode_error(p).value = Error(e)
    <2>1. decode_error(p) = Ok(Error(e))
        BY <1>2, <1>5
    <2> QED
        BY <2>1 DEF Ok
<1> QED
    BY <1>1, <1>5, <1>6, <1>7, <1>8

\* The messages of arrays and the heartbeats are accepted by their length, and are
\* the encoding of what was read.
LEMMA PlainKept ==
    ASSUME NEW ty \in {"ControlChallenge", "DataHello", "DataChallenge", "Open", "Ping"},
           NEW p \in Seq(Byte), Len(p) = payload_len(ty)
    PROVE  encode(decode(ty, p).value) = p /\ Sendable(decode(ty, p).value)
<1>0. ty \in MessageTypes
    BY DEF MessageTypes
<1>1. CASE ty = "ControlChallenge"
    <2> DEFINE m == [ty |-> "ControlChallenge", server_nonce |-> take(p, 0, 32),
                     session_id |-> take(p, 32, 16), server_mac |-> take(p, 48, 32)]
    <2>1. decode(ty, p) = Ok(m)
        BY <1>0, <1>1, DecodeIs
    <2>2. take(p, 0, 32) \o take(p, 32, 16) \o take(p, 48, 32) = p
        <3>1. Len(p) = 80
            BY <1>1, Lengths
        <3> QED
            BY <3>1, ChallengeParts
    <2>3. encode(m) = take(p, 0, 32) \o take(p, 32, 16) \o take(p, 48, 32) /\ Sendable(m)
        BY DEF encode, Sendable
    <2> HIDE DEF m
    <2>4. decode(ty, p).value = m
        BY <2>1 DEF Ok
    <2> QED
        BY <2>2, <2>3, <2>4
<1>2. CASE ty = "DataHello"
    <2> DEFINE m == [ty |-> "DataHello", session_id |-> take(p, 0, 16),
                     request_id |-> take(p, 16, 16), client_nonce |-> take(p, 32, 32)]
    <2>1. decode(ty, p) = Ok(m)
        BY <1>0, <1>2, DecodeIs
    <2>2. take(p, 0, 16) \o take(p, 16, 16) \o take(p, 32, 32) = p
        <3>1. Len(p) = 64
            BY <1>2, Lengths
        <3> QED
            BY <3>1, DataHelloParts
    <2>3. encode(m) = take(p, 0, 16) \o take(p, 16, 16) \o take(p, 32, 32) /\ Sendable(m)
        BY DEF encode, Sendable
    <2> HIDE DEF m
    <2>4. decode(ty, p).value = m
        BY <2>1 DEF Ok
    <2> QED
        BY <2>2, <2>3, <2>4
<1>3. CASE ty = "DataChallenge"
    <2> DEFINE m == [ty |-> "DataChallenge", server_nonce |-> take(p, 0, 32),
                     server_mac |-> take(p, 32, 32)]
    <2>1. decode(ty, p) = Ok(m)
        BY <1>0, <1>3, DecodeIs
    <2>2. take(p, 0, 32) \o take(p, 32, 32) = p
        <3>1. Len(p) = 64
            BY <1>3, Lengths
        <3>2. 32 \in Nat /\ Adds(32, 32, Len(p))
            BY <3>1 DEF Adds
        <3> QED
            BY <3>2, JoinTwo
    <2>3. encode(m) = take(p, 0, 32) \o take(p, 32, 32) /\ Sendable(m)
        BY DEF encode, Sendable
    <2> HIDE DEF m
    <2>4. decode(ty, p).value = m
        BY <2>1 DEF Ok
    <2> QED
        BY <2>2, <2>3, <2>4
<1>4. CASE ty = "Open"
    <2> DEFINE m == [ty |-> "Open", request_id |-> take(p, 0, 16)]
    <2>1. decode(ty, p) = Ok(m)
        BY <1>0, <1>4, DecodeIs
    <2>2. take(p, 0, 16) = p
        <3>1. Len(p) = 16
            BY <1>4, Lengths
        <3> QED
            BY <3>1, TakeAll
    <2>3. encode(m) = take(p, 0, 16) /\ Sendable(m)
        BY DEF encode, Sendable
    <2> HIDE DEF m
    <2>4. decode(ty, p).value = m
        BY <2>1 DEF Ok
    <2> QED
        BY <2>2, <2>3, <2>4
<1>5. CASE ty = "Ping"
    <2> DEFINE m == [ty |-> "Ping", sequence |-> from_be_bytes(p)]
    <2>1. decode(ty, p) = Ok(m)
        BY <1>0, <1>5, DecodeIs
    <2>2. to_be_bytes(from_be_bytes(p), 8) = p
        <3>1. Len(p) = 8
            BY <1>5, Lengths
        <3> QED
            BY <3>1, BytesBack
    <2>3. encode(m) = to_be_bytes(from_be_bytes(p), 8) /\ Sendable(m)
        BY DEF encode, Sendable
    <2> HIDE DEF m
    <2>4. decode(ty, p).value = m
        BY <2>1 DEF Ok
    <2> QED
        BY <2>2, <2>3, <2>4
<1> QED
    BY <1>1, <1>2, <1>3, <1>4, <1>5

\* Whatever is accepted has the length of its type, is the encoding of what was
\* read, and could be sent.
LEMMA EncodeDecode ==
    ASSUME NEW ty \in MessageTypes, NEW p \in Seq(Byte), decode(ty, p).ok
    PROVE  /\ Len(p) = payload_len(ty)
           /\ encode(decode(ty, p).value) = p /\ Sendable(decode(ty, p).value)
<1>1. Len(p) = payload_len(ty)
    <2>1. Len(p) # payload_len(ty) => decode(ty, p) = Err("ProtocolError")
        BY DEF decode
    <2> QED
        BY <2>1 DEF Err
<1>2. CASE ty = "ControlHello"
    BY <1>1, <1>2, Lengths, DecodeIs, HelloKept
<1>3. CASE ty = "Registered"
    BY <1>1, <1>3, Lengths, DecodeIs, RegisteredKept
<1>4. CASE ty = "OpenFailed"
    BY <1>1, <1>4, Lengths, DecodeIs, OpenFailedKept
<1>5. CASE ty = "Error"
    BY <1>1, <1>5, Lengths, DecodeIs, ErrorKept
<1>6. CASE ty \in {"ControlChallenge", "DataHello", "DataChallenge", "Open", "Ping"}
    BY <1>1, <1>6, PlainKept
<1> QED
    BY <1>1, <1>2, <1>3, <1>4, <1>5, <1>6 DEF MessageTypes

\* The length of a message is that of a type of its name.
LEMMA LengthOf ==
    ASSUME NEW ty \in MessageTypes
    PROVE  \E t \in Type : t.name = ty /\ t.payload_len = payload_len(ty)
<1>1. \E t \in Type : t.name = ty
    BY DEF MessageTypes, Type, Row
<1> QED
    BY <1>1 DEF payload_len

-----------------------------------------------------------------------------
(* One read *)

\* What has been read is what the decoder makes of the input.
Decoded ==
    \/ input = Nothing /\ result = Unread
    \/ input \in Inputs /\ result = Unread
    \/ input \in Inputs /\ input.what = "preamble" /\ result = decode_preamble(input.bytes)
    \/ /\ input \in Inputs /\ input.what = "header"
       /\ result = LET header == read_header(input.bytes)
                   IN  IF header.ok /\ ~require_kind(header.value, input.kind)
                       THEN Err("ProtocolError") ELSE header
    \/ input \in Inputs /\ input.what = "payload" /\ result = decode(input.ty, input.bytes)

\* Decoded is an invariant: nothing but a reader writes the result.
LEMMA DecodedHolds == IntakeSpec => []Decoded
<1>1. IntakeInit => Decoded
    BY DEF IntakeInit, WireInit, Decoded
<1>2. Decoded /\ [IntakeNext]_intakeVars => Decoded'
    <2> SUFFICES ASSUME Decoded, [IntakeNext]_intakeVars PROVE Decoded'
        OBVIOUS
    <2>1. CASE UNCHANGED wireVars
        BY <2>1 DEF Decoded, wireVars
    <2>2. ASSUME WireNext PROVE Decoded'
        <3>1. input' = input /\ input \in Inputs
            BY <2>2 DEF WireNext, ReadPreamble, ReadHeader, ReadPayload, Reading, Decoded, Nothing
        <3>2. CASE ReadPreamble
            BY <3>1, <3>2 DEF ReadPreamble, Reading, Decoded
        <3>3. CASE ReadHeader
            BY <3>1, <3>3 DEF ReadHeader, Reading, Decoded
        <3>4. CASE ReadPayload
            BY <3>1, <3>4 DEF ReadPayload, Reading, Decoded
        <3> QED
            BY <2>2, <3>2, <3>3, <3>4 DEF WireNext
    <2> QED
        BY <2>1, <2>2 DEF IntakeNext, Over, intakeVars
<1> QED
    BY <1>1, <1>2, PTL DEF IntakeSpec

\* A reader that is done with a preamble, a header or a payload.
LEMMA ReadBy ==
    ASSUME Decoded
    PROVE  /\ Read("preamble") => input \in Inputs /\ result = decode_preamble(input.bytes)
           /\ Read("header") =>
                 /\ input \in Inputs
                 /\ result = LET header == read_header(input.bytes)
                             IN  IF header.ok /\ ~require_kind(header.value, input.kind)
                                 THEN Err("ProtocolError") ELSE header
           /\ Read("payload") => input \in Inputs /\ result = decode(input.ty, input.bytes)
BY DEF Decoded, Read, Unread, Nothing

\* Of all sequences of eight bytes exactly the two preambles of this version are
\* accepted, each for its kind (decode_preamble).
THEOREM PreambleExactHolds == IntakeSpec => []PreambleExact
<1>1. Decoded => PreambleExact
    <2> SUFFICES ASSUME Decoded, Read("preamble"), NEW kind \in {"Control", "Data"}
                 PROVE  result = Ok(kind) <=> input.bytes = encode_preamble(kind)
        BY DEF PreambleExact
    <2>1. input \in Inputs /\ result = decode_preamble(input.bytes) /\ input.what = "preamble"
        BY ReadBy DEF Read
    <2>2. input.bytes \in Seq(Byte) /\ Len(input.bytes) = 8
        BY <2>1, InputAssumption
    <2> QED
        BY <2>1, <2>2, PreambleDecodes
<1> QED
    BY <1>1, DecodedHolds, PTL

\* Of all headers exactly those the encoder writes for a type of this
\* connection's kind are accepted (read_frame, require_kind).
THEOREM HeaderExactHolds == IntakeSpec => []HeaderExact
<1>1. Decoded => HeaderExact
    <2> SUFFICES ASSUME Decoded, Read("header")
                 PROVE  result.ok <=> \E t \in Type : /\ input.kind \in t.kinds
                                                     /\ input.bytes = encode_header(t)
        BY DEF HeaderExact
    <2> DEFINE header == read_header(input.bytes)
    <2>1. /\ input \in Inputs /\ input.what = "header"
          /\ result = IF header.ok /\ ~require_kind(header.value, input.kind)
                      THEN Err("ProtocolError") ELSE header
        BY ReadBy DEF Read
    <2>2. input.bytes \in Seq(Byte) /\ Len(input.bytes) = 3
        BY <2>1, InputAssumption
    <2>3. /\ header.ok <=> \E t \in Type : input.bytes = encode_header(t)
          /\ header.ok => header.value \in Type /\ input.bytes = encode_header(header.value)
        BY <2>2, HeaderDecodes
    <2>4. \A t, u \in Type : encode_header(t) = encode_header(u) => t = u
        BY HeadersApart
    <2> HIDE DEF header
    <2>5. ~Err("ProtocolError").ok
        BY DEF Err
    <2> QED
        BY <2>1, <2>3, <2>4, <2>5 DEF require_kind
<1> QED
    BY <1>1, DecodedHolds, PTL

\* Encoder and decoder are inverse, for every message and every sequence of
\* bytes (protocol.rs).
THEOREM RoundTripHolds == IntakeSpec => []RoundTrip
<1>1. Decoded => RoundTrip
    <2> SUFFICES ASSUME Decoded, Read("payload") PROVE RoundTrip
        BY DEF RoundTrip
    <2>1. input \in Inputs /\ result = decode(input.ty, input.bytes) /\ input.what = "payload"
        BY ReadBy DEF Read
    <2>2. /\ input.bytes \in Seq(Byte) /\ input.ty \in MessageTypes
          /\ \A m \in input.sent : m \in Message /\ m.ty = input.ty /\ input.bytes = encode(m)
        BY <2>1, InputAssumption
    <2>3. ASSUME result.ok
          PROVE  /\ encode(result.value) = input.bytes /\ Sendable(result.value)
                 /\ \E t \in Type : t.name = input.ty /\ t.payload_len = Len(input.bytes)
        BY <2>1, <2>2, <2>3, EncodeDecode, LengthOf
    <2>4. ASSUME NEW m \in input.sent, Sendable(m) PROVE result.ok /\ result.value = m
        <3>1. result = Ok(m)
            BY <2>1, <2>2, <2>4, DecodeEncode
        <3> QED
            BY <3>1 DEF Ok
    <2> QED
        BY <2>3, <2>4 DEF RoundTrip
<1> QED
    BY <1>1, DecodedHolds, PTL

-----------------------------------------------------------------------------
(* What is sent because of the configuration *)

\* A process that started has a configuration its mode accepts.
Vetted ==
    /\ stage # "done" => outcome = "none"
    /\ outcome = "expose" => expose(merged)
    /\ outcome = "server" => server(merged)

\* Vetted is an invariant: the configuration is settled before the process starts.
LEMMA VettedHolds == IntakeSpec => []Vetted
<1>1. IntakeInit => Vetted
    BY DEF IntakeInit, StartupInit, NotStarting, Vetted
<1>2. Vetted /\ [IntakeNext]_intakeVars => Vetted'
    <2> SUFFICES ASSUME Vetted, [IntakeNext]_intakeVars PROVE Vetted'
        OBVIOUS
    <2>1. CASE UNCHANGED startupVars
        BY <2>1 DEF Vetted, startupVars, expose, server, required, get, log_level, quiet
    <2>2. ASSUME NEW r \in {"help", "version", "cli_error", "config_error"}, Ends(r) PROVE Vetted'
        BY <2>2 DEF Ends, Vetted
    <2>3. ASSUME stage # "done", stage' # "done", UNCHANGED outcome PROVE Vetted'
        BY <2>3 DEF Vetted
    <2>4. CASE Start
        <3> DEFINE ok == IF mode = "server" THEN server(merged) ELSE expose(merged)
        <3>1. Ends(IF ok THEN mode ELSE "config_error") /\ merged' = merged
            BY <2>4 DEF Start, Ends
        <3>2. CASE ok
            <4>1. stage' = "done" /\ outcome' = mode
                BY <3>1, <3>2 DEF Ends
            <4> QED
                BY <3>1, <3>2, <4>1 DEF Vetted, server, expose, required, get, log_level, quiet
        <3>3. CASE ~ok
            BY <2>2, <3>1, <3>3
        <3> QED
            BY <3>2, <3>3
    <2>5. ASSUME ParseHelp \/ ParseVersion \/ ParseUnexpected \/ ParseMisplaced \/ ParseUnrecognized
          PROVE  Vetted'
        BY <2>2, <2>5 DEF ParseHelp, ParseVersion, ParseUnexpected, ParseMisplaced, ParseUnrecognized
    <2>6. CASE ParseSubcommand
        BY <2>2, <2>3, <2>6 DEF ParseSubcommand, Parsing
    <2>7. CASE ParseConfig
        BY <2>2, <2>3, <2>7 DEF ParseConfig, IsFlag, Parsing
    <2>8. CASE ParseQuiet
        BY <2>2, <2>3, <2>8 DEF ParseQuiet, IsFlag, Parsing
    <2>9. CASE ParseValue
        BY <2>2, <2>3, <2>9 DEF ParseValue, IsFlag, Parsing
    <2>10. CASE ParseEnds
        BY <2>2, <2>3, <2>10 DEF ParseEnds
    <2>11. CASE OpenFile
        BY <2>2, <2>3, <2>11 DEF OpenFile
    <2>12. CASE ReadLine
        BY <2>2, <2>3, <2>12 DEF ReadLine
    <2>13. CASE FileEnds \/ Resolve
        BY <2>3, <2>13 DEF FileEnds, Resolve
    <2> QED
        BY <2>1, <2>4, <2>5, <2>6, <2>7, <2>8, <2>9, <2>10, <2>11, <2>12, <2>13
        DEF IntakeNext, StartupNext, Over, intakeVars
<1> QED
    BY <1>1, <1>2, PTL DEF IntakeSpec

\* Ports and identifiers are of the types of the messages.
LEMMA SendTypes ==
    /\ \A n : parse_port(n) => n \in Unsigned(2)
    /\ Number(0).a \in Unsigned(2)
    /\ \A v : max_connections_ok(v) => v.a \in Unsigned(4) /\ v.a > 0
    /\ Bytes(16) \in Array(16) /\ Bytes(32) \in Array(32)
<1>1. \A n : parse_port(n) => n \in Nat /\ n <= 65535
    BY DEF parse_port
<1>2. \A v : max_connections_ok(v) => v.a \in Nat /\ v.a <= 65535 /\ v.a > 0
    BY DEF max_connections_ok
<1>3. Number(0).a = 0 /\ 0 \in Nat /\ 0 <= 65535
    BY DEF Number, Text
<1>4. Bytes(16) \in Array(16) /\ Bytes(32) \in Array(32)
    BY DEF Bytes, Array, Byte
<1> QED
    BY <1>1, <1>2, <1>3, <1>4, ShortFits, LongFits

\* What config.rs lets pass, protocol.rs of the peer accepts: no client that
\* starts is refused for the port it asks for, and no REGISTERED of a server
\* that starts is a protocol error, whichever end of ALLOWED_PORTS it assigns.
THEOREM PeerAcceptsHolds == IntakeSpec => []PeerAccepts
<1>1. Vetted => PeerAccepts
    <2> SUFFICES ASSUME Vetted PROVE PeerAccepts
        OBVIOUS
    <2>1. ASSUME NEW m, decode(m.ty, encode(m)) = Ok(m) PROVE Accepted(m)
        BY <2>1 DEF Accepted, Ok
    <2>2. ASSUME outcome = "expose" PROVE Accepted(FirstHello)
        <3> DEFINE port == get(merged, "REMOTE_PORT", Number(0)).a
        <3>1. port \in Unsigned(2) /\ (port >= 1024 \/ port = 0)
            <4>1. merged["REMOTE_PORT"] # Absent => remote_port_ok(merged["REMOTE_PORT"])
                BY <2>2 DEF Vetted, expose
            <4>2. CASE merged["REMOTE_PORT"] = Absent
                <5>1. port = 0
                    BY <4>2 DEF get, Number, Text
                <5> QED
                    BY <5>1, SendTypes DEF Number, Text
            <4>3. CASE merged["REMOTE_PORT"] # Absent
                <5>1. port = merged["REMOTE_PORT"].a
                    BY <4>3 DEF get
                <5> QED
                    BY <4>1, <4>3, <5>1, SendTypes DEF remote_port_ok
            <4> QED
                BY <4>2, <4>3
        <3>2. FirstHello = [ty |-> "ControlHello", instance_id |-> Bytes(16), client_nonce |-> Bytes(32),
                            mode |-> "Fresh", requested_port |-> port]
            BY DEF FirstHello
        <3> HIDE DEF port
        <3>3. decode("ControlHello", encode(FirstHello)) = Ok(FirstHello)
            BY <3>1, <3>2, SendTypes, HelloBack
        <3>4. FirstHello.ty = "ControlHello"
            BY <3>2
        <3> QED
            BY <2>1, <3>3, <3>4
    <2>3. ASSUME outcome = "server", NEW port \in Unsigned(2), port >= 1024
          PROVE  Accepted(RegisteredAt(port))
        <3> DEFINE maximum == get(merged, "MAX_CONNECTIONS", Number(256)).a
        <3>1. maximum \in Unsigned(4) /\ maximum > 0
            BY <2>3, SendTypes DEF Vetted, server
        <3>2. RegisteredAt(port) = [ty |-> "Registered", assigned_port |-> port,
                                    max_connections |-> maximum, ready_mac |-> Bytes(32)]
            BY DEF RegisteredAt
        <3> HIDE DEF maximum
        <3>3. decode("Registered", encode(RegisteredAt(port))) = Ok(RegisteredAt(port))
            BY <2>3, <3>1, <3>2, SendTypes, RegisteredBack
        <3>4. RegisteredAt(port).ty = "Registered"
            BY <3>2
        <3> QED
            BY <2>1, <3>3, <3>4
    <2>4. ASSUME outcome = "server"
          PROVE  LET range == get(merged, "ALLOWED_PORTS", PortRange(10000, 65535))
                 IN  /\ range.a \in Unsigned(2) /\ range.a >= 1024
                     /\ range.b \in Unsigned(2) /\ range.b >= 1024
        <3> DEFINE range == get(merged, "ALLOWED_PORTS", PortRange(10000, 65535))
        <3>1. parse_port(range.a) /\ parse_port(range.b) /\ range.a >= 1024 /\ range.a <= range.b
            BY <2>4 DEF Vetted, server, parse_port_range
        <3> HIDE DEF range
        <3>2. range.a \in Unsigned(2) /\ range.b \in Unsigned(2)
            BY <3>1, SendTypes
        <3>3. range.a \in Nat /\ range.b \in Nat
            BY <3>2 DEF Unsigned
        <3>4. range.b >= 1024
            BY <3>1, <3>3
        <3> QED
            BY <3>1, <3>2, <3>4 DEF range
    <2> QED
        BY <2>2, <2>3, <2>4 DEF PeerAccepts
<1> QED
    BY <1>1, VettedHolds, PTL

-----------------------------------------------------------------------------
(* The words of a command line *)

\* What IsValue is defined to be.
Marks(f, a, n) ==
    /\ f \in [0 .. n -> BOOLEAN]
    /\ \A k \in 0 .. n : f[k] = (k > 1 /\ ~f[k - 1] /\ Takes(a[k - 1]))

\* There is such a function for every length.
LEMMA MarksExist ==
    ASSUME NEW a, NEW n \in Nat
    PROVE  \E f : Marks(f, a, n)
<1> DEFINE S == {j \in Nat : \E f : Marks(f, a, j)}
<1>1. 0 \in S
    <2> DEFINE f == [k \in 0 .. 0 |-> FALSE]
    <2>1. f \in [0 .. 0 -> BOOLEAN]
        OBVIOUS
    <2>2. ASSUME NEW k \in 0 .. 0 PROVE f[k] = (k > 1 /\ ~f[k - 1] /\ Takes(a[k - 1]))
        <3>1. ~(k > 1) /\ f[k] = FALSE
            OBVIOUS
        <3> HIDE DEF f
        <3> QED
            BY <3>1, Zenon
    <2>3. Marks(f, a, 0)
        BY <2>1, <2>2 DEF Marks
    <2> QED
        BY <2>3
<1>2. ASSUME NEW j \in Nat, j \in S PROVE j + 1 \in S
    <2>1. PICK f : Marks(f, a, j)
        BY <1>2
    <2> DEFINE next == j + 1 > 1 /\ ~f[j] /\ Takes(a[j])
               g == [k \in 0 .. j + 1 |-> IF k = j + 1 THEN next ELSE f[k]]
    <2>2. f \in [0 .. j -> BOOLEAN] /\ \A k \in 0 .. j : f[k] = (k > 1 /\ ~f[k - 1] /\ Takes(a[k - 1]))
        BY <2>1 DEF Marks
    <2>3. next \in BOOLEAN /\ (j + 1) - 1 = j
        OBVIOUS
    <2>4. g \in [0 .. j + 1 -> BOOLEAN]
        <3> HIDE DEF next
        <3> QED
            BY <2>2, <2>3
    <2>5. ASSUME NEW k \in 0 .. j + 1 PROVE g[k] = (k > 1 /\ ~g[k - 1] /\ Takes(a[k - 1]))
        <3>1. CASE k = j + 1
            <4>1. g[j + 1] = next /\ g[j] = f[j]
                <5> HIDE DEF next
                <5> QED
                    OBVIOUS
            <4> QED
                BY <2>3, <3>1, <4>1
        <3>2. CASE k # j + 1
            <4>1. k \in 0 .. j /\ k \in 0 .. j + 1 /\ k # j + 1
                BY <3>2
            <4>2. g[k] = f[k]
                <5> HIDE DEF next
                <5> QED
                    BY <4>1
            <4>3. CASE k > 1
                <5>1. k - 1 \in 0 .. j + 1 /\ k - 1 # j + 1
                    BY <4>1, <4>3
                <5>2. g[k - 1] = f[k - 1]
                    <6> HIDE DEF next
                    <6> QED
                        BY <5>1
                <5> HIDE DEF g
                <5> QED
                    BY <2>2, <4>1, <4>2, <5>2
            <4>4. CASE ~(k > 1)
                <5> HIDE DEF g
                <5> QED
                    BY <2>2, <4>1, <4>2, <4>4
            <4> QED
                BY <4>3, <4>4
        <3> QED
            BY <3>1, <3>2
    <2>6. Marks(g, a, j + 1)
        <3> HIDE DEF g
        <3> QED
            BY <2>4, <2>5 DEF Marks
    <2> QED
        BY <2>6
<1> HIDE DEF S
<1>3. Nat \subseteq S
    BY <1>1, <1>2, Induction
<1> QED
    BY <1>3 DEF S

\* An argument is a value if the one before it is a word that takes one.
LEMMA IsValueIs ==
    ASSUME NEW a, Len(a) \in Nat
    PROVE  Marks(IsValue(a), a, Len(a))
<1> DEFINE n == Len(a)
           Is(f) == f = [k \in 0 .. n |-> k > 1 /\ ~f[k - 1] /\ Takes(a[k - 1])]
           value == CHOOSE f : Is(f)
<1>1. PICK g : Marks(g, a, n)
    BY MarksExist
<1>2. Is(g)
    BY <1>1 DEF Marks
<1>3. Is(value)
    <2> HIDE DEF Is
    <2> QED
        BY <1>2
<1>4. IsValue(a) = value
    BY DEF IsValue
<1> HIDE DEF value
<1>5. \A k \in 0 .. n : value[k] = (k > 1 /\ ~value[k - 1] /\ Takes(a[k - 1]))
    BY <1>3
<1>6. value \in [0 .. n -> BOOLEAN]
    BY <1>3
<1> QED
    BY <1>4, <1>5, <1>6 DEF Marks

\* j is where the next word after i is, if there is one.
After(a, i, j) ==
    /\ j \in 1 .. Len(a) + 1
    /\ j <= Len(a) => j \in Words(a)
    /\ \A k \in Words(a) : k < j <=> (k < i \/ k = i)

\* The first argument is a word, and so is the one after a word and its value.
LEMMA WordsFollow ==
    ASSUME NEW a, Len(a) \in Nat
    PROVE  /\ 1 <= Len(a) => 1 \in Words(a)
           /\ \A i \in Words(a) :
                 /\ ~Takes(a[i]) => After(a, i, i + 1)
                 /\ Takes(a[i]) /\ i < Len(a) => After(a, i, i + 2)
<1> DEFINE n == Len(a)
           V(k) == IsValue(a)[k]
<1>1. \A k \in 0 .. n : V(k) = (k > 1 /\ ~V(k - 1) /\ Takes(a[k - 1]))
    BY IsValueIs DEF Marks
<1>2. \A k : k \in Words(a) <=> k \in 1 .. n /\ ~V(k)
    BY DEF Words
<1> HIDE DEF V
<1>3. ASSUME 1 <= n PROVE 1 \in Words(a)
    <2>1. 1 \in 0 .. n /\ 1 \in 1 .. n /\ ~(1 > 1)
        BY <1>3
    <2>2. V(1) = (1 > 1 /\ ~V(1 - 1) /\ Takes(a[1 - 1]))
        BY <1>1, <2>1
    <2>3. ~V(1)
        BY <2>1, <2>2, Zenon
    <2> QED
        BY <1>2, <2>1, <2>3
<1>4. ASSUME NEW i \in Words(a), ~Takes(a[i]) PROVE After(a, i, i + 1)
    <2>1. i \in 1 .. n /\ ~V(i)
        BY <1>2
    <2>2. i + 1 <= n => ~V(i + 1)
        <3>1. i + 1 <= n => i + 1 \in 0 .. n /\ (i + 1) - 1 = i
            BY <2>1
        <3> QED
            BY <1>1, <1>4, <3>1
    <2>3. i + 1 \in 1 .. n + 1 /\ (i + 1 <= n => i + 1 \in Words(a))
        BY <1>2, <2>1, <2>2
    <2>4. \A k \in Words(a) : k < i + 1 <=> (k < i \/ k = i)
        <3>1. \A k \in Words(a) : k \in Nat
            BY <1>2
        <3>2. i \in Nat
            BY <2>1
        <3>3. \A k \in Nat : k < i + 1 <=> (k < i \/ k = i)
            BY <3>2
        <3> QED
            BY <3>1, <3>3
    <2> QED
        BY <2>3, <2>4 DEF After
<1>5. ASSUME NEW i \in Words(a), Takes(a[i]), i < n PROVE After(a, i, i + 2)
    <2>1. i \in 1 .. n /\ ~V(i)
        BY <1>2
    <2>2. V(i + 1)
        <3>1. i + 1 \in 0 .. n /\ (i + 1) - 1 = i /\ i + 1 > 1
            BY <1>5, <2>1
        <3> QED
            BY <1>1, <1>5, <2>1, <3>1
    <2>3. i + 2 <= n => ~V(i + 2)
        <3>1. i + 2 <= n => i + 2 \in 0 .. n /\ (i + 2) - 1 = i + 1
            BY <2>1
        <3> QED
            BY <1>1, <2>2, <3>1
    <2>4. i + 2 \in 1 .. n + 1 /\ (i + 2 <= n => i + 2 \in Words(a))
        BY <1>2, <1>5, <2>1, <2>3
    <2>5. \A k \in Words(a) : k < i + 2 <=> (k < i \/ k = i)
        <3>1. \A k \in Words(a) : k \in Nat /\ k # i + 1
            BY <1>2, <2>2
        <3>2. i \in Nat
            BY <2>1
        <3>3. \A k \in Nat : k # i + 1 => (k < i + 2 <=> (k < i \/ k = i))
            BY <3>2
        <3> QED
            BY <3>1, <3>3
    <2> QED
        BY <2>4, <2>5 DEF After
<1> QED
    BY <1>3, <1>4, <1>5

-----------------------------------------------------------------------------
(* The command line *)

\* The last of a set of numbers.
LEMMA LastIs ==
    ASSUME NEW S, S \subseteq Nat, NEW k \in S, \A j \in S : j <= k
    PROVE  LastOf(S) = k
<1> DEFINE l == LastOf(S)
<1>1. l \in S /\ \A j \in S : j <= l
    BY DEF LastOf
<1> HIDE DEF l
<1>2. l <= k /\ k <= l /\ l \in Nat /\ k \in Nat
    BY <1>1
<1> QED
    BY <1>2 DEF l

\* What the flags before i give: cli while cli::parse is at i.
Before(a, name, i) == {k \in FlagsFor(a, name) : k < i}
Given(a, i) ==
    [name \in NAMES |->
        IF Before(a, name, i) = {} THEN Absent ELSE ValueAt(a, LastOf(Before(a, name, i)))]

\* The flags with values, and what each sets.
LEMMA FlagNames ==
    /\ \A f \in DOMAIN VALUE_FLAGS : VALUE_FLAGS[f] \in NAMES /\ VALUE_FLAGS[f] # "QUIET"
    /\ "QUIET" \in NAMES
    /\ \A f \in DOMAIN VALUE_FLAGS \cup {"--config", "--quiet"} : f \in Dashed /\ f \notin Subcommands
    /\ \A f \in DOMAIN VALUE_FLAGS \cup {"--config", "--quiet"} : f \notin HelpFlags \cup VersionFlags
    /\ "--quiet" \notin DOMAIN VALUE_FLAGS /\ "--config" \notin DOMAIN VALUE_FLAGS
    /\ Dashed \cap Subcommands = {}
    /\ HelpFlags \cap Subcommands = {} /\ VersionFlags \cap Subcommands = {}
    /\ "none" \notin Subcommands
<1>1. DOMAIN VALUE_FLAGS =
        {"--key", "--listen", "--data-bind", "--allowed-ports", "--max-connections",
         "--server", "--remote-port", "--target", "--log-level"}
    BY DEF VALUE_FLAGS
<1>2. \A f \in DOMAIN VALUE_FLAGS : VALUE_FLAGS[f] \in NAMES /\ VALUE_FLAGS[f] # "QUIET"
    BY DEF VALUE_FLAGS, NAMES
<1>3. "QUIET" \in NAMES
    BY DEF NAMES
<1> QED
    BY <1>1, <1>2, <1>3 DEF Dashed, HelpFlags, VersionFlags, Subcommands

\* A word sets at most one name.
LEMMA FlagSets ==
    ASSUME NEW a, NEW i \in Words(a)
    PROVE  /\ a[i].flag = "--quiet" => \A name \in NAMES : i \in FlagsFor(a, name) <=> name = "QUIET"
           /\ a[i].flag \in DOMAIN VALUE_FLAGS =>
                 \A name \in NAMES : i \in FlagsFor(a, name) <=> name = VALUE_FLAGS[a[i].flag]
           /\ a[i].flag \notin DOMAIN VALUE_FLAGS \cup {"--quiet"} =>
                 \A name \in NAMES : i \notin FlagsFor(a, name)
BY FlagNames DEF FlagsFor

\* What the flags give changes with a word that sets a name, and in that name.
LEMMA GivenNext ==
    ASSUME NEW a, Len(a) \in Nat, NEW i \in Words(a), NEW j, After(a, i, j)
    PROVE  /\ (\A name \in NAMES : i \notin FlagsFor(a, name)) => Given(a, j) = Given(a, i)
           /\ \A n \in NAMES :
                 (\A name \in NAMES : i \in FlagsFor(a, name) <=> name = n) =>
                    Given(a, j) = [Given(a, i) EXCEPT ![n] = ValueAt(a, i)]
<1>1. Words(a) \subseteq Nat
    BY DEF Words
<1>2. ASSUME NEW name, i \notin FlagsFor(a, name) PROVE Before(a, name, j) = Before(a, name, i)
    BY <1>2 DEF Before, After, FlagsFor
<1>3. ASSUME NEW name, i \in FlagsFor(a, name)
      PROVE  Before(a, name, j) # {} /\ LastOf(Before(a, name, j)) = i
    <2> DEFINE S == Before(a, name, j)
    <2>1. i \in S /\ S \subseteq Words(a) /\ \A k \in S : k < i \/ k = i
        BY <1>3 DEF Before, After, FlagsFor
    <2>2. S \subseteq Nat
        BY <1>1, <2>1
    <2> HIDE DEF S
    <2>3. \A k \in S : k <= i
        BY <2>1, <2>2
    <2>4. LastOf(S) = i
        BY <2>1, <2>2, <2>3, LastIs
    <2> QED
        BY <2>1, <2>4 DEF S
<1>4. ASSUME \A name \in NAMES : i \notin FlagsFor(a, name) PROVE Given(a, j) = Given(a, i)
    BY <1>2, <1>4 DEF Given
<1>5. ASSUME NEW n \in NAMES, \A name \in NAMES : i \in FlagsFor(a, name) <=> name = n
      PROVE  Given(a, j) = [Given(a, i) EXCEPT ![n] = ValueAt(a, i)]
    <2> DEFINE g == Given(a, i)
               h == Given(a, j)
    <2>1. h = [name \in NAMES |-> h[name]] /\ g = [name \in NAMES |-> g[name]]
        BY DEF Given
    <2>2. \A name \in NAMES : name # n => h[name] = g[name]
        BY <1>2, <1>5 DEF Given
    <2>3. h[n] = ValueAt(a, i)
        BY <1>3, <1>5 DEF Given
    <2> HIDE DEF g, h
    <2>4. h = [g EXCEPT ![n] = ValueAt(a, i)]
        BY <2>1, <2>2, <2>3
    <2> QED
        BY <2>4 DEF g, h
<1> QED
    BY <1>4, <1>5

\* The words before i are one subcommand and flags that fit, or flags that fit
\* before it.
WordsFit(a, i, m) ==
    /\ i \in 1 .. Len(a) + 1
    /\ i <= Len(a) => i \in Words(a)
    /\ \/ m = "none" /\ \A k \in Words(a) : k < i => FlagFits(a, k, i)
       \/ /\ m \in Subcommands
          /\ \E w \in Words(a) :
                /\ w < i /\ Subcommand(a, w) /\ a[w].flag = m
                /\ \A k \in Words(a) \ {w} : k < i => FlagFits(a, k, w)

\* A subcommand is no flag.
LEMMA SubcommandsApart ==
    ASSUME NEW a, NEW k, NEW w, FlagFits(a, k, w)
    PROVE  ~Subcommand(a, k)
BY FlagNames DEF FlagFits, Subcommand

\* The next word fits: the subcommand, a --config, or after it any flag that fits.
LEMMA WordsFitNext ==
    ASSUME NEW a, Len(a) \in Nat, NEW i \in Words(a), NEW m, WordsFit(a, i, m), NEW j, After(a, i, j)
    PROVE  /\ m = "none" /\ Subcommand(a, i) => WordsFit(a, j, a[i].flag)
           /\ m = "none" /\ a[i].flag = "--config" /\ FlagFits(a, i, i) => WordsFit(a, j, m)
           /\ m # "none" /\ FlagFits(a, i, i) => WordsFit(a, j, m)
<1>1. Words(a) \subseteq Nat
    BY DEF Words
<1>2. /\ j \in 1 .. Len(a) + 1 /\ (j <= Len(a) => j \in Words(a))
      /\ \A k \in Words(a) : k < j <=> (k < i \/ k = i)
    BY DEF After
<1>3. ASSUME m = "none", Subcommand(a, i) PROVE WordsFit(a, j, a[i].flag)
    <2>1. \A k \in Words(a) \ {i} : k < j => FlagFits(a, k, i)
        BY <1>2, <1>3, FlagNames DEF WordsFit
    <2>2. a[i].flag \in Subcommands /\ i < j
        BY <1>2, <1>3 DEF Subcommand
    <2> QED
        BY <1>2, <1>3, <2>1, <2>2 DEF WordsFit
<1>4. ASSUME m = "none", a[i].flag = "--config", FlagFits(a, i, i) PROVE WordsFit(a, j, m)
    <2>1. ASSUME NEW k \in Words(a), k < j PROVE FlagFits(a, k, j)
        <3>1. CASE k = i
            BY <1>4, <3>1 DEF FlagFits
        <3>2. CASE k # i
            <4>1. k < i
                BY <1>2, <2>1, <3>2
            <4>2. FlagFits(a, k, i)
                BY <1>4, <4>1, FlagNames DEF WordsFit
            <4> QED
                BY <4>1, <4>2 DEF FlagFits
        <3> QED
            BY <3>1, <3>2
    <2> QED
        BY <1>2, <1>4, <2>1 DEF WordsFit
<1>5. ASSUME m # "none", FlagFits(a, i, i) PROVE WordsFit(a, j, m)
    <2>1. PICK w \in Words(a) : /\ w < i /\ Subcommand(a, w) /\ a[w].flag = m
                                /\ \A k \in Words(a) \ {w} : k < i => FlagFits(a, k, w)
        BY <1>5 DEF WordsFit
    <2>2. FlagFits(a, i, w)
        <3>1. ~(i < w)
            BY <1>1, <2>1
        <3> QED
            BY <1>5, <3>1 DEF FlagFits
    <2>3. w < j /\ \A k \in Words(a) \ {w} : k < j => FlagFits(a, k, w)
        BY <1>2, <2>1, <2>2
    <2>4. m \in Subcommands
        BY <1>5 DEF WordsFit
    <2> QED
        BY <1>2, <2>1, <2>3, <2>4 DEF WordsFit
<1> QED
    BY <1>3, <1>4, <1>5

\* A word that does not fit spoils the command line, whatever follows.
LEMMA Spoilt ==
    ASSUME NEW a, Len(a) \in Nat, NEW i \in Words(a), NEW m, WordsFit(a, i, m)
    PROVE  /\ ~Subcommand(a, i) /\ ~FlagFits(a, i, i) => ~CommandLineOK(a)
           /\ m # "none" /\ Subcommand(a, i) => ~CommandLineOK(a)
           /\ m = "none" /\ ~Subcommand(a, i) /\ a[i].flag # "--config" => ~CommandLineOK(a)
<1>1. Words(a) \subseteq Nat
    BY DEF Words
<1>2. ASSUME CommandLineOK(a), ~Subcommand(a, i), ~FlagFits(a, i, i) PROVE FALSE
    <2>1. PICK w \in Words(a) : Subcommand(a, w) /\ \A k \in Words(a) \ {w} : FlagFits(a, k, w)
        BY <1>2 DEF CommandLineOK
    <2>2. FlagFits(a, i, w)
        BY <1>2, <2>1
    <2>3. ~(i < i)
        BY <1>1
    <2> QED
        BY <1>2, <2>2, <2>3 DEF FlagFits
<1>3. ASSUME CommandLineOK(a), m # "none", Subcommand(a, i) PROVE FALSE
    <2>1. PICK w \in Words(a) : Subcommand(a, w) /\ \A k \in Words(a) \ {w} : FlagFits(a, k, w)
        BY <1>3 DEF CommandLineOK
    <2>2. PICK u \in Words(a) : u < i /\ Subcommand(a, u)
        BY <1>3 DEF WordsFit
    <2>3. u # i
        BY <1>1, <2>2
    <2> QED
        BY <1>3, <2>1, <2>2, <2>3, SubcommandsApart
<1>4. ASSUME CommandLineOK(a), m = "none", ~Subcommand(a, i), a[i].flag # "--config" PROVE FALSE
    <2>1. PICK w \in Words(a) : Subcommand(a, w) /\ \A k \in Words(a) \ {w} : FlagFits(a, k, w)
        BY <1>4 DEF CommandLineOK
    <2>2. \A k \in Words(a) : k < i => FlagFits(a, k, i)
        BY <1>4, FlagNames DEF WordsFit
    <2>3. ~(w < i) /\ w # i
        BY <1>4, <2>1, <2>2, SubcommandsApart
    <2>4. i < w
        BY <1>1, <2>3
    <2>5. FlagFits(a, i, w)
        BY <2>1, <2>3
    <2> QED
        BY <1>4, <2>4, <2>5 DEF FlagFits
<1> QED
    BY <1>2, <1>3, <1>4

\* At the end of the command line it is known whether it is well formed.
LEMMA WordsEnd ==
    ASSUME NEW a, Len(a) \in Nat, NEW i, NEW m, WordsFit(a, i, m), i > Len(a)
    PROVE  /\ m = "none" => ~CommandLineOK(a)
           /\ m # "none" => m \in Subcommands /\ CommandLineOK(a)
           /\ i = Len(a) + 1
<1>1. \A k \in Words(a) : k < i
    BY DEF Words, WordsFit
<1>2. i = Len(a) + 1
    BY DEF WordsFit
<1>3. ASSUME m = "none", CommandLineOK(a) PROVE FALSE
    <2>1. PICK w \in Words(a) : Subcommand(a, w)
        BY <1>3 DEF CommandLineOK
    <2>2. FlagFits(a, w, i)
        BY <1>1, <1>3, FlagNames DEF WordsFit
    <2> QED
        BY <2>1, <2>2, SubcommandsApart
<1>4. m # "none" => m \in Subcommands /\ CommandLineOK(a)
    BY <1>1 DEF WordsFit, CommandLineOK
<1> QED
    BY <1>2, <1>3, <1>4

-----------------------------------------------------------------------------
(* The file, and what is merged *)

\* A set of numbers up to n has a last one.
LEMMA LastExists ==
    ASSUME NEW n \in Nat, NEW S, S \subseteq 1 .. n, S # {}
    PROVE  LastOf(S) \in S
<1> DEFINE D == {d \in Nat : n - d \in S}
<1>1. D # {} /\ D \subseteq Nat
    <2>1. PICK k \in S : TRUE
        OBVIOUS
    <2>2. n - k \in Nat /\ n - (n - k) = k
        BY <2>1
    <2>3. n - k \in D
        BY <2>1, <2>2
    <2> QED
        BY <2>3
<1>2. \E x \in D : \A y \in D : ~(<<y, x>> \in OpToRel(<, Nat))
    BY <1>1, NatLessThanWellFounded, WFMin
<1>3. PICK d \in D : \A e \in D : ~(e < d)
    BY <1>1, <1>2 DEF OpToRel
<1>4. n - d \in S /\ d \in Nat
    BY <1>3
<1>5. ASSUME NEW j \in S PROVE j <= n - d
    <2>1. n - j \in Nat /\ n - (n - j) = j /\ j \in Nat
        OBVIOUS
    <2>2. n - j \in D
        BY <2>1
    <2>3. ~(n - j < d)
        BY <1>3, <2>2
    <2> QED
        BY <1>4, <2>1, <2>3
<1>6. \E k \in S : \A j \in S : j <= k
    BY <1>4, <1>5
<1> QED
    BY <1>6 DEF LastOf

\* What the lines before n set: file while parse_file is at n.
Above(lines, name, n) == {k \in LinesFor(lines, name) : k < n}
SetBy(lines, n) ==
    [name \in NAMES |->
        IF Above(lines, name, n) = {} THEN Absent
        ELSE unquote(lines[LastOf(Above(lines, name, n))].value)]

\* Nothing at first; a line that sets a name overrides what was set before.
LEMMA SetByNext ==
    ASSUME NEW lines, Len(lines) \in Nat, DOMAIN lines = 1 .. Len(lines)
    PROVE  /\ SetBy(lines, 1) = NoSettings
           /\ \A n \in 1 .. Len(lines) :
                 /\ lines[n].kind # "setting" => SetBy(lines, n + 1) = SetBy(lines, n)
                 /\ lines[n].kind = "setting" /\ lines[n].name \in NAMES =>
                       SetBy(lines, n + 1)
                         = [SetBy(lines, n) EXCEPT ![lines[n].name] = unquote(lines[n].value)]
           /\ \A name : Above(lines, name, Len(lines) + 1) = LinesFor(lines, name)
<1>1. \A name : LinesFor(lines, name) \subseteq 1 .. Len(lines)
    BY DEF LinesFor
<1>2. SetBy(lines, 1) = NoSettings
    <2>1. \A name : Above(lines, name, 1) = {}
        BY <1>1 DEF Above
    <2> QED
        BY <2>1 DEF SetBy, NoSettings
<1>3. ASSUME NEW n \in 1 .. Len(lines), NEW name, n \notin LinesFor(lines, name)
      PROVE  Above(lines, name, n + 1) = Above(lines, name, n)
    <2>1. \A k \in LinesFor(lines, name) : k < n + 1 <=> k < n
        BY <1>1, <1>3
    <2> QED
        BY <2>1 DEF Above
<1>4. ASSUME NEW n \in 1 .. Len(lines), NEW name, n \in LinesFor(lines, name)
      PROVE  Above(lines, name, n + 1) # {} /\ LastOf(Above(lines, name, n + 1)) = n
    <2> DEFINE S == Above(lines, name, n + 1)
    <2>1. n \in S /\ S \subseteq Nat /\ \A k \in S : k <= n
        BY <1>1, <1>4 DEF Above
    <2> HIDE DEF S
    <2>2. LastOf(S) = n
        BY <2>1, LastIs
    <2> QED
        BY <2>1, <2>2 DEF S
<1>5. ASSUME NEW n \in 1 .. Len(lines), lines[n].kind # "setting"
      PROVE  SetBy(lines, n + 1) = SetBy(lines, n)
    <2>1. \A name : n \notin LinesFor(lines, name)
        BY <1>5 DEF LinesFor
    <2> QED
        BY <1>3, <2>1 DEF SetBy
<1>6. ASSUME NEW n \in 1 .. Len(lines), lines[n].kind = "setting", lines[n].name \in NAMES
      PROVE  SetBy(lines, n + 1) = [SetBy(lines, n) EXCEPT ![lines[n].name] = unquote(lines[n].value)]
    <2> DEFINE g == SetBy(lines, n)
               h == SetBy(lines, n + 1)
               it == lines[n].name
               v == unquote(lines[n].value)
    <2>1. \A name : n \in LinesFor(lines, name) <=> name = it
        BY <1>6 DEF LinesFor
    <2>2. h = [name \in NAMES |-> h[name]] /\ g = [name \in NAMES |-> g[name]]
        BY DEF SetBy
    <2>3. \A name \in NAMES : name # it => h[name] = g[name]
        BY <1>3, <2>1 DEF SetBy
    <2>4. h[it] = v
        BY <1>4, <1>6, <2>1 DEF SetBy
    <2>5. it \in NAMES
        BY <1>6
    <2> HIDE DEF g, h, it, v
    <2>6. h = [g EXCEPT ![it] = v]
        BY <2>2, <2>3, <2>4, <2>5
    <2> QED
        BY <2>6 DEF g, h, it, v
<1>7. ASSUME NEW name PROVE Above(lines, name, Len(lines) + 1) = LinesFor(lines, name)
    <2>1. \A k \in LinesFor(lines, name) : k < Len(lines) + 1
        BY <1>1
    <2> QED
        BY <2>1 DEF Above
<1> QED
    BY <1>2, <1>5, <1>6, <1>7

\* The lines of the file that is opened, if any.
LEMMA OpenedTyped ==
    ASSUME files \in FileSystems
    PROVE  Len(Opened.lines) \in Nat /\ DOMAIN Opened.lines = 1 .. Len(Opened.lines)
<1>1. CASE config \in DOMAIN files
    BY <1>1, StartupAssumption DEF Opened
<1>2. CASE config \notin DOMAIN files
    <2>1. Opened.lines = <<>>
        BY <1>2 DEF Opened, Missing, Contents
    <2> QED
        BY <2>1
<1> QED
    BY <1>1, <1>2

\* A flag of a good command line has a value.
LEMMA FlagValued ==
    ASSUME NEW a \in CommandLines, CommandLineOK(a), NEW name \in NAMES, NEW k \in FlagsFor(a, name)
    PROVE  ValueAt(a, k) # Absent
<1>1. /\ Len(a) \in Nat /\ DOMAIN a = 1 .. Len(a)
      /\ \A i \in DOMAIN a : a[i].inline \/ a[i].flag = "" => a[i].value # Absent
    BY StartupAssumption
<1>2. k \in Words(a) /\ k \in 1 .. Len(a) /\ a[k].flag \in DOMAIN VALUE_FLAGS \cup {"--quiet"}
    BY DEF FlagsFor, Words
<1>3. ASSUME NEW w PROVE Word(w) # Absent
    BY DEF Word, Absent, Text
<1>4. CASE a[k].inline
    BY <1>1, <1>2, <1>4 DEF ValueAt
<1>5. CASE ~a[k].inline /\ a[k].flag = "--quiet"
    BY <1>3, <1>5 DEF ValueAt
<1>6. CASE ~a[k].inline /\ a[k].flag # "--quiet"
    <2>1. PICK m \in Words(a) : Subcommand(a, m) /\ \A j \in Words(a) \ {m} : FlagFits(a, j, m)
        BY DEF CommandLineOK
    <2>2. k # m
        BY <1>2, <2>1, FlagNames DEF Subcommand
    <2>3. Takes(a[k]) => k < Len(a)
        BY <1>2, <2>1, <2>2 DEF FlagFits
    <2>4. k + 1 \in DOMAIN a
        <3>1. Takes(a[k])
            BY <1>2, <1>6 DEF Takes
        <3>2. k < Len(a)
            BY <2>3, <3>1
        <3>3. Len(a) \in Nat /\ DOMAIN a = 1 .. Len(a) /\ k \in 1 .. Len(a)
            BY <1>1, <1>2
        <3>4. k + 1 \in 1 .. Len(a)
            BY <3>2, <3>3
        <3> QED
            BY <3>3, <3>4
    <2>5. Whole(a[k + 1]) # Absent
        BY <1>1, <1>3, <2>4 DEF Whole
    <2> QED
        BY <1>6, <2>5 DEF ValueAt
<1> QED
    BY <1>4, <1>5, <1>6

\* What is merged of the three sources is what they mean as a whole.
LEMMA MergedIs ==
    ASSUME args \in CommandLines, environment \in Environments, files \in FileSystems,
           CommandLineOK(args), cli = Given(args, Len(args) + 1),
           file = SetBy(Opened.lines, Len(Opened.lines) + 1)
    PROVE  merge(file, env_config, cli) = Effective
<1>1. Len(args) \in Nat
    BY StartupAssumption
<1>2. ASSUME NEW name \in NAMES
      PROVE  /\ FlagsFor(args, name) = {} => cli[name] = Absent
             /\ FlagsFor(args, name) # {} =>
                   cli[name] = ValueAt(args, LastOf(FlagsFor(args, name))) /\ cli[name] # Absent
    <2>1. FlagsFor(args, name) \subseteq 1 .. Len(args)
        BY DEF FlagsFor, Words
    <2>2. Before(args, name, Len(args) + 1) = FlagsFor(args, name)
        <3>1. \A k \in FlagsFor(args, name) : k < Len(args) + 1
            BY <1>1, <2>1
        <3> QED
            BY <3>1 DEF Before
    <2>3. FlagsFor(args, name) # {} => LastOf(FlagsFor(args, name)) \in FlagsFor(args, name)
        BY <1>1, <2>1, LastExists
    <2>4. FlagsFor(args, name) # {} => ValueAt(args, LastOf(FlagsFor(args, name))) # Absent
        BY <2>3, FlagValued
    <2> QED
        BY <2>2, <2>4 DEF Given
<1>3. ASSUME NEW name \in NAMES
      PROVE  file[name] = IF LinesFor(Opened.lines, name) # {}
                          THEN unquote(Opened.lines[LastOf(LinesFor(Opened.lines, name))].value)
                          ELSE Absent
    <2>1. Above(Opened.lines, name, Len(Opened.lines) + 1) = LinesFor(Opened.lines, name)
        BY OpenedTyped, SetByNext
    <2> QED
        BY <2>1 DEF SetBy
<1>4. ASSUME NEW name \in NAMES
      PROVE  get(env_config, name, file[name])
               = IF name \in DOMAIN environment THEN environment[name] ELSE file[name]
    <2>1. name \in DOMAIN environment => environment[name] # Absent
        BY StartupAssumption
    <2> QED
        BY <2>1 DEF get, env_config
<1>5. ASSUME NEW name \in NAMES PROVE merge(file, env_config, cli)[name] = Effective[name]
    <2>1. merge(file, env_config, cli)[name] = get(cli, name, get(env_config, name, file[name]))
        BY DEF merge
    <2>2. CASE FlagsFor(args, name) = {}
        <3>1. merge(file, env_config, cli)[name] = get(env_config, name, file[name])
            BY <1>2, <2>1, <2>2 DEF get
        <3> QED
            BY <1>3, <1>4, <2>2, <3>1 DEF Effective
    <2>3. CASE FlagsFor(args, name) # {}
        <3>1. merge(file, env_config, cli)[name] = ValueAt(args, LastOf(FlagsFor(args, name)))
            BY <1>2, <2>1, <2>3 DEF get
        <3> QED
            BY <2>3, <3>1 DEF Effective
    <2> QED
        BY <2>2, <2>3
<1>6. /\ merge(file, env_config, cli) = [name \in NAMES |-> merge(file, env_config, cli)[name]]
      /\ Effective = [name \in NAMES |-> Effective[name]]
    <2>1. merge(file, env_config, cli) = [name \in NAMES |-> merge(file, env_config, cli)[name]]
        BY DEF merge
    <2>2. Effective = [name \in NAMES |-> Effective[name]]
        BY DEF Effective
    <2> QED
        BY <2>1, <2>2
<1> QED
    BY <1>5, <1>6

-----------------------------------------------------------------------------
(* A start *)

\* The inductive invariant: at every stage the locals are what was meant by what
\* has been read, and the start is over only as it should be.
Parsed == mode \in Subcommands /\ CommandLineOK(args) /\ cli = Given(args, Len(args) + 1)
LinesFit(lines, n) == \A k \in DOMAIN lines : k < n => LineOK(lines[k])
Understood ==
    /\ stage # "done" =>
          args \in CommandLines /\ environment \in Environments /\ files \in FileSystems
    /\ stage = "args" => /\ WordsFit(args, index, mode) /\ cli = Given(args, index)
                         /\ line = 0 /\ file = NoSettings
    /\ stage = "file" =>
          /\ Parsed
          /\ \/ line = 0 /\ file = NoSettings
             \/ /\ line \in 1 .. Len(Opened.lines) + 1 /\ FileThere
                /\ LinesFit(Opened.lines, line) /\ file = SetBy(Opened.lines, line)
    /\ stage = "merge" =>
          Parsed /\ FileOK /\ file = SetBy(Opened.lines, Len(Opened.lines) + 1)
    /\ stage = "config" => Parsed /\ FileOK /\ merged = Effective
    /\ StartsExactly

\* What the inputs mean depends on nothing else.
LEMMA Steady ==
    ASSUME UNCHANGED <<inputs, parsed>>
    PROVE  /\ args' = args /\ environment' = environment /\ files' = files /\ mode' = mode
           /\ cli' = cli /\ Opened' = Opened /\ FileThere' = FileThere /\ FileOK' = FileOK
           /\ Effective' = Effective /\ Valid' = Valid
<1>1. /\ args' = args /\ environment' = environment /\ files' = files /\ mode' = mode
      /\ cli' = cli /\ config' = config /\ config_explicit' = config_explicit
    BY DEF inputs, parsed
<1>2. Opened' = Opened
    BY <1>1 DEF Opened
<1>3. FileThere' = FileThere
    BY <1>1, <1>2 DEF FileThere
<1>4. FileOK' = FileOK
    BY <1>2, <1>3 DEF FileOK
<1>5. Effective' = Effective
    BY <1>1, <1>2 DEF Effective
<1>6. Valid' = Valid
    BY <1>1, <1>5 DEF Valid, server, expose, required, get, log_level, quiet
<1> QED
    BY <1>1, <1>2, <1>3, <1>4, <1>5, <1>6

\* A start that is refused has to be.
LEMMA EndsRefused ==
    ASSUME NEW r, Ends(r), r \notin Subcommands, ~(CommandLineOK(args) /\ FileOK /\ Valid)
    PROVE  Understood'
<1>1. stage' = "done" /\ outcome' = r /\ UNCHANGED <<inputs, parsed>>
    BY DEF Ends
<1>2. ~(CommandLineOK(args') /\ FileOK' /\ Valid')
    BY <1>1, Steady
<1>3. StartsExactly'
    BY <1>1, <1>2 DEF StartsExactly
<1> QED
    BY <1>1, <1>3 DEF Understood

\* The next word has been read.
LEMMA WordRead ==
    ASSUME Understood, stage = "args", UNCHANGED <<inputs, stage, line, file>>,
           WordsFit(args, index', mode'), cli' = Given(args, index')
    PROVE  Understood'
BY DEF Understood, StartsExactly, inputs

\* cli::parse keeps to Understood.
LEMMA ParsingUnderstood ==
    ASSUME Understood,
           \/ ParseHelp \/ ParseVersion \/ ParseSubcommand \/ ParseUnexpected \/ ParseConfig
           \/ ParseMisplaced \/ ParseQuiet \/ ParseUnrecognized \/ ParseValue \/ ParseEnds
    PROVE  Understood'
<1>1. stage = "args"
    BY DEF ParseHelp, ParseVersion, ParseSubcommand, ParseUnexpected, ParseConfig, ParseMisplaced,
           ParseQuiet, ParseUnrecognized, ParseValue, ParseEnds, IsFlag, Parsing
<1>2. /\ args \in CommandLines /\ WordsFit(args, index, mode) /\ cli = Given(args, index)
      /\ line = 0 /\ file = NoSettings
    BY <1>1 DEF Understood
<1>3. Len(args) \in Nat
    BY <1>2, StartupAssumption
<1>4. Parsing => index \in Words(args)
    BY <1>2 DEF Parsing, WordsFit
<1>5. index \in Nat /\ ~(index < index)
    BY <1>2, <1>3 DEF WordsFit
<1>6. "cli_error" \notin Subcommands /\ "help" \notin Subcommands /\ "version" \notin Subcommands
    BY DEF Subcommands
<1>7. ASSUME ~CommandLineOK(args), Ends("cli_error") \/ Ends("help") \/ Ends("version")
      PROVE  Understood'
    BY <1>6, <1>7, EndsRefused
\* A word that neither is a subcommand nor fits.
<1>8. ASSUME Parsing, ~Subcommand(args, index), ~FlagFits(args, index, index),
             Ends("cli_error") \/ Ends("help") \/ Ends("version")
      PROVE  Understood'
    BY <1>2, <1>3, <1>4, <1>7, <1>8, Spoilt
\* The value and the place of the next word after a flag that has one.
<1>9. ASSUME Parsing, HasValue, At.flag \in DOMAIN VALUE_FLAGS \cup {"--config"}
      PROVE  /\ After(args, index, index + Consumed) /\ FlagValue = ValueAt(args, index)
             /\ Takes(At) => index < Len(args)
    <2>1. At.flag # "--quiet"
        BY <1>9, FlagNames
    <2>2. CASE At.inline
        BY <1>3, <1>4, <1>9, <2>2, WordsFollow DEF At, Consumed, FlagValue, ValueAt, Takes
    <2>3. CASE ~At.inline
        <3>1. Takes(args[index]) /\ index < Len(args)
            BY <1>9, <2>3 DEF Takes, At, HasValue
        <3>2. Consumed = 2 /\ FlagValue = ValueAt(args, index)
            BY <2>1, <2>3 DEF At, Consumed, FlagValue, ValueAt
        <3> QED
            BY <1>3, <1>4, <1>9, <3>1, <3>2, WordsFollow
    <2> QED
        BY <2>2, <2>3
<1>10. CASE ParseHelp \/ ParseVersion
    <2>1. At.flag \in HelpFlags \cup VersionFlags /\ Parsing
        BY <1>10 DEF ParseHelp, ParseVersion
    <2>2. ~Subcommand(args, index) /\ ~FlagFits(args, index, index)
        BY <2>1, FlagNames DEF Subcommand, FlagFits, At
    <2> QED
        BY <1>8, <1>10, <2>1, <2>2 DEF ParseHelp, ParseVersion
<1>11. CASE ParseUnexpected
    <2>1. ~Subcommand(args, index) /\ ~FlagFits(args, index, index)
        BY <1>11, FlagNames DEF ParseUnexpected, Subcommand, FlagFits, At
    <2> QED
        BY <1>8, <1>11, <2>1 DEF ParseUnexpected
<1>12. CASE ParseUnrecognized
    <2>1. ~Subcommand(args, index) /\ ~FlagFits(args, index, index)
        BY <1>12, FlagNames DEF ParseUnrecognized, IsFlag, Subcommand, FlagFits, At
    <2> QED
        BY <1>8, <1>12, <2>1 DEF ParseUnrecognized, IsFlag
<1>13. CASE ParseMisplaced
    <2>1. ~Subcommand(args, index) /\ args[index].flag # "--config" /\ mode = "none" /\ Parsing
        BY <1>13, FlagNames DEF ParseMisplaced, IsFlag, Subcommand, At
    <2> QED
        BY <1>2, <1>3, <1>4, <1>7, <1>13, <2>1, Spoilt DEF ParseMisplaced
<1>14. CASE ParseSubcommand
    <2>1. Parsing /\ Subcommand(args, index)
        BY <1>14 DEF ParseSubcommand, Subcommand, At
    <2>2. CASE mode # "none" /\ Ends("cli_error")
        BY <1>2, <1>3, <1>4, <1>7, <2>1, <2>2, Spoilt
    <2>3. CASE mode = "none" /\ mode' = At.flag /\ index' = index + 1
               /\ UNCHANGED <<inputs, stage, config, config_explicit, cli, line, file, merged, outcome>>
        <3>1. ~Takes(args[index]) /\ args[index].flag \notin DOMAIN VALUE_FLAGS \cup {"--quiet"}
            BY <2>1, FlagNames DEF Takes, Subcommand
        <3>2. After(args, index, index + 1)
            BY <1>3, <1>4, <2>1, <3>1, WordsFollow
        <3>3. WordsFit(args, index + 1, At.flag)
            BY <1>2, <1>3, <1>4, <2>1, <2>3, <3>2, WordsFitNext DEF At
        <3>4. Given(args, index + 1) = Given(args, index)
            BY <1>3, <1>4, <2>1, <3>1, <3>2, FlagSets, GivenNext
        <3> QED
            BY <1>1, <1>2, <2>3, <3>3, <3>4, WordRead
    <2> QED
        BY <1>14, <2>2, <2>3 DEF ParseSubcommand
<1>15. CASE ParseConfig
    <2>1. Parsing /\ At.flag = "--config" /\ At = args[index]
        BY <1>15 DEF ParseConfig, IsFlag, At
    <2>2. ~Subcommand(args, index) /\ At.flag \notin DOMAIN VALUE_FLAGS \cup {"--quiet"}
        BY <2>1, FlagNames DEF Subcommand
    <2>3. CASE ~HasValue /\ Ends("cli_error")
        <3>1. Takes(args[index]) /\ ~(index < Len(args))
            BY <2>1, <2>3 DEF HasValue, Takes
        <3> QED
            BY <1>8, <2>1, <2>2, <2>3, <3>1 DEF FlagFits
    <2>4. CASE HasValue /\ FlagValue = Empty /\ Ends("cli_error")
        <3>1. ValueAt(args, index) = Empty
            BY <1>9, <2>1, <2>4
        <3> QED
            BY <1>8, <2>1, <2>2, <2>4, <3>1 DEF FlagFits
    <2>5. CASE /\ HasValue /\ FlagValue # Empty /\ index' = index + Consumed
               /\ UNCHANGED <<inputs, stage, mode, cli, line, file, merged, outcome>>
        <3>1. /\ After(args, index, index + Consumed) /\ FlagValue = ValueAt(args, index)
              /\ Takes(At) => index < Len(args)
            BY <1>9, <2>1, <2>5
        <3>2. FlagFits(args, index, index)
            BY <1>5, <2>1, <2>5, <3>1, FlagNames DEF FlagFits
        <3>3. WordsFit(args, index + Consumed, mode)
            BY <1>2, <1>3, <1>4, <2>1, <3>1, <3>2, WordsFitNext
        <3>4. Given(args, index + Consumed) = Given(args, index)
            BY <1>3, <1>4, <2>1, <2>2, <3>1, FlagSets, GivenNext
        <3> QED
            BY <1>1, <1>2, <2>5, <3>3, <3>4, WordRead
    <2> QED
        BY <1>15, <2>3, <2>4, <2>5 DEF ParseConfig
<1>16. CASE ParseQuiet
    <2> DEFINE v == IF At.inline THEN At.value ELSE Word("true")
    <2>1. Parsing /\ At.flag = "--quiet" /\ At = args[index] /\ mode # "none"
        BY <1>16 DEF ParseQuiet, IsFlag, At
    <2>2. ~Subcommand(args, index) /\ ~Takes(args[index])
        BY <2>1, FlagNames DEF Subcommand, Takes
    <2>3. v = ValueAt(args, index)
        BY <2>1 DEF ValueAt
    <2>4. \/ ~OneOf(v, {"true", "false"}) /\ Ends("cli_error")
          \/ /\ OneOf(v, {"true", "false"}) /\ cli' = [cli EXCEPT !["QUIET"] = v]
             /\ index' = index + 1
             /\ UNCHANGED <<inputs, stage, mode, config, config_explicit, line, file, merged, outcome>>
        BY <1>16 DEF ParseQuiet, Set
    <2> HIDE DEF v
    <2>5. CASE ~OneOf(v, {"true", "false"}) /\ Ends("cli_error")
        BY <1>8, <2>1, <2>2, <2>3, <2>5 DEF FlagFits
    <2>6. CASE /\ OneOf(v, {"true", "false"}) /\ cli' = [cli EXCEPT !["QUIET"] = v]
               /\ index' = index + 1
               /\ UNCHANGED <<inputs, stage, mode, config, config_explicit, line, file, merged, outcome>>
        <3>1. After(args, index, index + 1)
            BY <1>3, <1>4, <2>1, <2>2, WordsFollow
        <3>2. FlagFits(args, index, index)
            BY <1>5, <2>1, <2>2, <2>3, <2>6, FlagNames DEF FlagFits
        <3>3. WordsFit(args, index + 1, mode)
            BY <1>2, <1>3, <1>4, <2>1, <3>1, <3>2, WordsFitNext
        <3>4. Given(args, index + 1) = [Given(args, index) EXCEPT !["QUIET"] = v]
            BY <1>3, <1>4, <2>1, <2>3, <3>1, FlagNames, FlagSets, GivenNext
        <3> QED
            BY <1>1, <1>2, <2>6, <3>3, <3>4, WordRead
    <2> QED
        BY <2>4, <2>5, <2>6
<1>17. CASE ParseValue
    <2>1. Parsing /\ At.flag \in DOMAIN VALUE_FLAGS /\ At = args[index] /\ mode # "none"
        BY <1>17 DEF ParseValue, IsFlag, At
    <2>2. ~Subcommand(args, index) /\ At.flag # "--quiet" /\ At.flag # "--config"
        BY <2>1, FlagNames DEF Subcommand
    <2>3. CASE ~HasValue /\ Ends("cli_error")
        <3>1. Takes(args[index]) /\ ~(index < Len(args))
            BY <2>1, <2>3 DEF HasValue, Takes
        <3> QED
            BY <1>8, <2>1, <2>2, <2>3, <3>1 DEF FlagFits
    <2>4. CASE /\ HasValue /\ cli' = [cli EXCEPT ![VALUE_FLAGS[At.flag]] = FlagValue]
               /\ index' = index + Consumed
               /\ UNCHANGED <<inputs, stage, mode, config, config_explicit, line, file, merged, outcome>>
        <3>1. /\ After(args, index, index + Consumed) /\ FlagValue = ValueAt(args, index)
              /\ Takes(At) => index < Len(args)
            BY <1>9, <2>1, <2>4
        <3>2. FlagFits(args, index, index)
            BY <1>5, <2>1, <2>2, <3>1 DEF FlagFits
        <3>3. WordsFit(args, index + Consumed, mode)
            BY <1>2, <1>3, <1>4, <2>1, <3>1, <3>2, WordsFitNext
        <3>4. Given(args, index + Consumed)
                = [Given(args, index) EXCEPT ![VALUE_FLAGS[At.flag]] = FlagValue]
            <4>1. VALUE_FLAGS[At.flag] \in NAMES
                BY <2>1, FlagNames
            <4>2. \A name \in NAMES : index \in FlagsFor(args, name) <=> name = VALUE_FLAGS[At.flag]
                BY <1>4, <2>1, FlagSets
            <4> QED
                BY <1>3, <1>4, <2>1, <3>1, <4>1, <4>2, GivenNext
        <3> QED
            BY <1>1, <1>2, <2>4, <3>3, <3>4, WordRead
    <2> QED
        BY <1>17, <2>3, <2>4 DEF ParseValue, Set
<1>18. CASE ParseEnds
    <2>1. index > Len(args)
        BY <1>18 DEF ParseEnds
    <2>2. CASE mode = "none" /\ Ends("cli_error")
        BY <1>2, <1>3, <1>7, <2>1, <2>2, WordsEnd
    <2>3. CASE /\ mode # "none" /\ stage' = "file"
               /\ UNCHANGED <<inputs, index, parsed, line, file, merged, outcome>>
        <3>1. mode \in Subcommands /\ CommandLineOK(args) /\ index = Len(args) + 1
            BY <1>2, <1>3, <2>1, <2>3, WordsEnd
        <3>2. /\ args' = args /\ environment' = environment /\ files' = files /\ mode' = mode
              /\ cli' = cli /\ line' = 0 /\ file' = NoSettings
            BY <1>2, <2>3, Steady
        <3>3. Parsed'
            BY <1>2, <3>1, <3>2 DEF Parsed
        <3> QED
            BY <1>1, <2>3, <3>2, <3>3 DEF Understood, StartsExactly
    <2> QED
        BY <1>18, <2>2, <2>3 DEF ParseEnds
<1> QED
    BY <1>10, <1>11, <1>12, <1>13, <1>14, <1>15, <1>16, <1>17, <1>18

\* parse_file, merge and the typed settings keep to Understood.
LEMMA StartingUnderstood ==
    ASSUME Understood, OpenFile \/ ReadLine \/ FileEnds \/ Resolve \/ Start
    PROVE  Understood'
<1>1. "config_error" \notin Subcommands
    BY DEF Subcommands
<1>2. ASSUME stage = "file"
      PROVE  /\ args \in CommandLines /\ environment \in Environments /\ files \in FileSystems
             /\ Parsed /\ Len(Opened.lines) \in Nat /\ DOMAIN Opened.lines = 1 .. Len(Opened.lines)
    <2>1. args \in CommandLines /\ environment \in Environments /\ files \in FileSystems /\ Parsed
        BY <1>2 DEF Understood
    <2> QED
        BY <2>1, OpenedTyped
<1>3. ASSUME stage = "file", UNCHANGED <<inputs, parsed>>, stage' = "file",
             line' \in 1 .. Len(Opened.lines) + 1, FileThere,
             LinesFit(Opened.lines, line'), file' = SetBy(Opened.lines, line')
      PROVE  Understood'
    <2>1. /\ args' = args /\ environment' = environment /\ files' = files /\ mode' = mode
          /\ cli' = cli /\ Opened' = Opened /\ FileThere' = FileThere
        BY <1>3, Steady
    <2>2. Parsed'
        BY <1>2, <1>3, <2>1 DEF Parsed
    <2>3. /\ args' \in CommandLines /\ environment' \in Environments /\ files' \in FileSystems
        BY <1>2, <1>3, <2>1
    <2>4. /\ line' \in 1 .. Len(Opened'.lines) + 1 /\ FileThere'
          /\ LinesFit(Opened'.lines, line') /\ file' = SetBy(Opened'.lines, line')
        BY <1>3, <2>1
    <2> QED
        BY <1>3, <2>2, <2>3, <2>4 DEF Understood, StartsExactly
<1>4. ASSUME ~FileOK, Ends("config_error") PROVE Understood'
    BY <1>1, <1>4, EndsRefused
<1>5. CASE OpenFile
    <2>1. stage = "file" /\ line = 0
        BY <1>5 DEF OpenFile
    <2>2. file = NoSettings /\ Len(Opened.lines) \in Nat /\ DOMAIN Opened.lines = 1 .. Len(Opened.lines)
        <3>1. 0 \notin 1 .. Len(Opened.lines) + 1
            BY <1>2, <2>1
        <3> QED
            BY <1>2, <2>1, <3>1 DEF Understood
    <2>3. CASE Ends("config_error") /\ ~FileThere
        BY <1>4, <2>3 DEF FileOK
    <2>4. CASE FileThere /\ line' = 1 /\ UNCHANGED <<inputs, stage, index, parsed, file, merged, outcome>>
        <3>1. 1 \in 1 .. Len(Opened.lines) + 1
            BY <2>2
        <3>2. LinesFit(Opened.lines, 1)
            BY <2>2 DEF LinesFit
        <3>3. SetBy(Opened.lines, 1) = NoSettings
            BY <2>2, SetByNext
        <3>4. /\ UNCHANGED <<inputs, parsed>> /\ stage' = "file" /\ line' = 1
              /\ file' = SetBy(Opened.lines, 1)
            BY <2>1, <2>2, <2>4, <3>3
        <3> QED
            BY <1>3, <2>1, <2>4, <3>1, <3>2, <3>4
    <2> QED
        BY <1>5, <2>3, <2>4 DEF OpenFile, FileThere
<1>6. CASE ReadLine
    <2> DEFINE lines == Opened.lines
               l == lines[line]
    <2>1. stage = "file" /\ line \in 1 .. Len(lines)
        BY <1>6 DEF ReadLine
    <2>2. /\ Len(lines) \in Nat /\ DOMAIN lines = 1 .. Len(lines)
          /\ FileThere /\ LinesFit(lines, line) /\ file = SetBy(lines, line)
        <3>1. line # 0 /\ line + 1 \in Nat
            BY <1>2, <2>1
        <3> QED
            BY <1>2, <2>1, <3>1 DEF Understood
    <2>3. CASE ~LineOK(l) /\ Ends("config_error")
        <3>1. ~FileOK
            BY <2>1, <2>2, <2>3 DEF FileOK
        <3> QED
            BY <1>4, <2>3, <3>1
    <2>4. CASE /\ LineOK(l) /\ line' = line + 1
               /\ file' = IF l.kind = "blank" THEN file ELSE [file EXCEPT ![l.name] = unquote(l.value)]
               /\ UNCHANGED <<inputs, stage, index, parsed, merged, outcome>>
        <3>1. line + 1 \in 1 .. Len(lines) + 1
            BY <2>1, <2>2
        <3>2. LinesFit(lines, line + 1)
            <4>1. \A k \in 1 .. Len(lines) : k < line + 1 => k < line \/ k = line
                BY <2>1, <2>2
            <4> QED
                BY <2>2, <2>4, <4>1 DEF LinesFit
        <3>3. file' = SetBy(lines, line + 1)
            <4>1. CASE l.kind = "blank"
                <5>1. SetBy(lines, line + 1) = SetBy(lines, line)
                    BY <2>1, <2>2, <4>1, SetByNext
                <5> QED
                    BY <2>2, <2>4, <4>1, <5>1
            <4>2. CASE l.kind # "blank"
                <5>1. l.kind = "setting" /\ l.name \in NAMES
                    BY <2>4, <4>2 DEF LineOK, GoodLine
                <5>2. SetBy(lines, line + 1) = [SetBy(lines, line) EXCEPT ![l.name] = unquote(l.value)]
                    BY <2>1, <2>2, <5>1, SetByNext
                <5> QED
                    BY <2>2, <2>4, <4>2, <5>2
            <4> QED
                BY <4>1, <4>2
        <3>4. UNCHANGED <<inputs, parsed>> /\ stage' = "file" /\ line' = line + 1
            BY <2>1, <2>4
        <3> QED
            BY <1>3, <2>1, <2>2, <3>1, <3>2, <3>3, <3>4
    <2>5. \/ ~LineOK(l) /\ Ends("config_error")
          \/ /\ LineOK(l) /\ line' = line + 1
             /\ file' = IF l.kind = "blank" THEN file ELSE [file EXCEPT ![l.name] = unquote(l.value)]
             /\ UNCHANGED <<inputs, stage, index, parsed, merged, outcome>>
        BY <1>6 DEF ReadLine, LineOK
    <2> QED
        BY <2>3, <2>4, <2>5
<1>7. CASE FileEnds
    <2> DEFINE lines == Opened.lines
    <2>1. /\ stage = "file" /\ line > Len(lines) /\ stage' = "merge" /\ file' = file
          /\ UNCHANGED <<inputs, parsed>>
        BY <1>7 DEF FileEnds
    <2>2. Len(lines) \in Nat /\ DOMAIN lines = 1 .. Len(lines)
        BY <1>2, <2>1
    <2>3. line # 0
        BY <2>1, <2>2
    <2>4. /\ line = Len(lines) + 1 /\ FileThere /\ LinesFit(lines, line)
          /\ file = SetBy(lines, line)
        <3>1. line \in 1 .. Len(lines) + 1 /\ FileThere /\ LinesFit(lines, line) /\ file = SetBy(lines, line)
            BY <2>1, <2>3 DEF Understood
        <3> QED
            BY <2>1, <2>2, <3>1
    <2>5. FileOK
        BY <2>2, <2>4 DEF FileOK, LinesFit
    <2>6. /\ args' = args /\ environment' = environment /\ files' = files /\ mode' = mode
          /\ cli' = cli /\ Opened' = Opened /\ FileOK' = FileOK
        BY <2>1, Steady
    <2>7. Parsed' /\ args' \in CommandLines /\ environment' \in Environments /\ files' \in FileSystems
        BY <1>2, <2>1, <2>6 DEF Parsed
    <2>8. FileOK' /\ file' = SetBy(Opened'.lines, Len(Opened'.lines) + 1)
        BY <2>1, <2>4, <2>5, <2>6
    <2> QED
        BY <2>1, <2>7, <2>8 DEF Understood, StartsExactly
<1>8. CASE Resolve
    <2>1. /\ stage = "merge" /\ stage' = "config" /\ merged' = merge(file, env_config, cli)
          /\ UNCHANGED <<inputs, parsed>>
        BY <1>8 DEF Resolve
    <2>2. /\ args \in CommandLines /\ environment \in Environments /\ files \in FileSystems
          /\ Parsed /\ FileOK /\ file = SetBy(Opened.lines, Len(Opened.lines) + 1)
        BY <2>1 DEF Understood
    <2>3. merged' = Effective
        BY <2>1, <2>2, MergedIs DEF Parsed
    <2>4. /\ args' = args /\ environment' = environment /\ files' = files /\ mode' = mode
          /\ cli' = cli /\ FileOK' = FileOK /\ Effective' = Effective
        BY <2>1, Steady
    <2>5. Parsed' /\ args' \in CommandLines /\ environment' \in Environments /\ files' \in FileSystems
        BY <2>2, <2>4 DEF Parsed
    <2> QED
        BY <2>1, <2>2, <2>3, <2>4, <2>5 DEF Understood, StartsExactly
<1>9. CASE Start
    <2> DEFINE ok == IF mode = "server" THEN server(merged) ELSE expose(merged)
    <2>1. stage = "config" /\ Ends(IF ok THEN mode ELSE "config_error")
        BY <1>9 DEF Start
    <2>2. Parsed /\ FileOK /\ merged = Effective
        BY <2>1 DEF Understood
    <2>3. ok <=> Valid
        BY <2>2 DEF Valid
    <2> HIDE DEF ok
    <2>4. CASE ~ok
        BY <1>1, <2>1, <2>3, <2>4, EndsRefused
    <2>5. CASE ok
        <3>1. stage' = "done" /\ outcome' = mode /\ UNCHANGED <<inputs, parsed>>
            BY <2>1, <2>5 DEF Ends
        <3>2. args' = args /\ FileOK' = FileOK /\ Valid' = Valid
            BY <3>1, Steady
        <3>3. StartsExactly'
            BY <2>2, <2>3, <2>5, <3>1, <3>2 DEF StartsExactly, Parsed
        <3> QED
            BY <3>1, <3>3 DEF Understood
    <2> QED
        BY <2>4, <2>5
<1> QED
    BY <1>5, <1>6, <1>7, <1>8, <1>9

\* Understood is an invariant.
LEMMA UnderstoodHolds == IntakeSpec => []Understood
<1>1. IntakeInit => Understood
    <2>1. ASSUME StartupInit PROVE Understood
        <3>1. /\ args \in CommandLines /\ environment \in Environments /\ files \in FileSystems
              /\ stage = "args" /\ index = 1 /\ mode = "none" /\ cli = NoSettings
              /\ line = 0 /\ file = NoSettings
            BY <2>1 DEF StartupInit
        <3>2. Len(args) \in Nat
            BY <3>1, StartupAssumption
        <3>3. \A k \in Words(args) : ~(k < 1)
            BY <3>2 DEF Words
        <3>4. WordsFit(args, 1, "none")
            BY <3>2, <3>3, WordsFollow DEF WordsFit
        <3>5. Given(args, 1) = NoSettings
            <4>1. \A name : Before(args, name, 1) = {}
                BY <3>3 DEF Before, FlagsFor
            <4> QED
                BY <4>1 DEF Given, NoSettings
        <3> QED
            BY <3>1, <3>4, <3>5 DEF Understood, StartsExactly
    <2>2. ASSUME NotStarting PROVE Understood
        <3>1. args = <<>> /\ stage = "done" /\ outcome = "none"
            BY <2>2 DEF NotStarting
        <3>2. Words(args) = {}
            BY <3>1 DEF Words
        <3>3. ~CommandLineOK(args)
            BY <3>2 DEF CommandLineOK
        <3>4. outcome \notin Subcommands
            BY <3>1 DEF Subcommands
        <3> QED
            BY <3>1, <3>3, <3>4 DEF Understood, StartsExactly
    <2> QED
        BY <2>1, <2>2 DEF IntakeInit
<1>2. Understood /\ [IntakeNext]_intakeVars => Understood'
    <2> SUFFICES ASSUME Understood, [IntakeNext]_intakeVars PROVE Understood'
        OBVIOUS
    <2>1. CASE UNCHANGED startupVars
        <3>1. /\ UNCHANGED <<inputs, parsed>> /\ stage' = stage /\ index' = index /\ line' = line
              /\ file' = file /\ merged' = merged /\ outcome' = outcome
            BY <2>1 DEF startupVars, inputs, parsed
        <3>2. /\ args' = args /\ environment' = environment /\ files' = files /\ mode' = mode
              /\ cli' = cli /\ Opened' = Opened /\ FileThere' = FileThere /\ FileOK' = FileOK
              /\ Effective' = Effective /\ Valid' = Valid
            BY <3>1, Steady
        <3>3. Parsed' = Parsed /\ StartsExactly' = StartsExactly
            BY <3>1, <3>2 DEF Parsed, StartsExactly
        <3> QED
            BY <3>1, <3>2, <3>3 DEF Understood
    <2>2. CASE StartupNext
        BY <2>2, ParsingUnderstood, StartingUnderstood DEF StartupNext
    <2> QED
        BY <2>1, <2>2 DEF IntakeNext, Over, intakeVars
<1> QED
    BY <1>1, <1>2, PTL DEF IntakeSpec

\* "Order of precedence: flags (highest), environment variables, file, defaults
\* (lowest)" (config.rs), for every command line, environment and file.
THEOREM PrecedenceHolds == IntakeSpec => []Precedence
<1>1. Understood => Precedence
    BY DEF Understood, Precedence
<1> QED
    BY <1>1, UnderstoodHolds, PTL

\* A process starts exactly when its command line and its file are well formed
\* and the effective settings of its own mode are valid (cli.rs, config.rs).
THEOREM StartsExactlyHolds == IntakeSpec => []StartsExactly
<1>1. Understood => StartsExactly
    BY DEF Understood
<1> QED
    BY <1>1, UnderstoodHolds, PTL

=============================================================================
