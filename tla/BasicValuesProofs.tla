-------------------------- MODULE BasicValuesProofs --------------------------
(***************************************************************************)
(* Proofs about BasicValues, for bytes of any even number of values and    *)
(* both orders of bytes: with 256, the integers that C has.                *)
(***************************************************************************)
EXTENDS BasicValues, TLAPS

Width == {Byte, M16, M32, M64}

----------------------------------------------------------------------------
(* Division.                                                               *)

(* Quotient and remainder as integers.                                     *)
LEMMA DivMod ==
  ASSUME NEW a \in Int, NEW m \in Nat \ {0}
  PROVE  /\ a \div m \in Int /\ a % m \in 0 .. (m - 1)
         /\ a = m * (a \div m) + (a % m)
  OBVIOUS

(* A number without its remainder is a multiple.                           *)
LEMMA QuotientTimes ==
  ASSUME NEW a \in Int, NEW m \in Nat \ {0}
  PROVE  a \div m \in Int /\ a - (a % m) = (a \div m) * m
<1> DEFINE q == a \div m
           r == a % m
<1>1. q \in Int /\ r \in 0 .. (m - 1) /\ a = m * q + r
  BY DivMod
<1> HIDE DEF q, r
<1>2. a - r = q * m
  BY <1>1
<1>3. QED
  BY <1>1, <1>2 DEF q, r

(* A multiple of a positive number is no less than the number.             *)
LEMMA MulPos ==
  ASSUME NEW a \in Int, NEW m \in Nat \ {0}, a >= 1
  PROVE  a * m >= m
  OBVIOUS

(* Quotient and remainder are unique.                                      *)
LEMMA DivModUnique ==
  ASSUME NEW m \in Nat \ {0}, NEW q \in Int, NEW r \in 0 .. (m - 1)
  PROVE  (q * m + r) % m = r /\ (q * m + r) \div m = q
<1> DEFINE a == q * m + r
           p == a \div m
           s == a % m
<1>1. a \in Int /\ p \in Int /\ s \in 0 .. (m - 1) /\ a = m * p + s
  <2>1. a \in Int
    OBVIOUS
  <2>2. QED
    BY <2>1, DivMod
<1>2. (q - p) * m = s - r
  BY <1>1
<1> HIDE DEF a, p, s
<1>3. ~(q - p >= 1)
  <2>1. q - p \in Int
    BY <1>1
  <2>2. s - r < m
    BY <1>1
  <2>3. QED
    BY <1>2, <2>1, <2>2, MulPos, <1>1
<1>4. ~(p - q >= 1)
  <2>1. p - q \in Int /\ (p - q) * m = r - s
    BY <1>1, <1>2
  <2>2. r - s < m
    BY <1>1
  <2>3. QED
    BY <2>1, <2>2, MulPos, <1>1
<1>5. p = q
  BY <1>1, <1>3, <1>4
<1>6. s = r
  BY <1>1, <1>2, <1>5
<1>7. QED
  BY <1>5, <1>6 DEF a, p, s

(* The remainder is what is left of a multiple.                            *)
LEMMA ModMultiple ==
  ASSUME NEW m \in Nat \ {0}, NEW q \in Int
  PROVE  (q * m) % m = 0
<1>1. 0 \in 0 .. (m - 1) /\ q * m + 0 = q * m
  OBVIOUS
<1>2. QED
  BY <1>1, DivModUnique

----------------------------------------------------------------------------
(* The widths of integers.                                                 *)

(* Every width is more than the one before.                                *)
LEMMA Widths ==
  /\ Byte \in Nat /\ Byte >= 2 /\ M16 \in Nat /\ M32 \in Nat /\ M64 \in Nat
  /\ M16 >= 4 /\ M32 >= 16 /\ M64 >= 256
  /\ Byte < M16 /\ M16 < M32 /\ M32 < M64
<1>1. Byte \in Nat /\ Byte >= 2
  BY ByteAssumption
<1>2. ASSUME NEW a \in Nat, a >= 2
      PROVE  a * a \in Nat /\ a * a >= 2 * a
  BY <1>2
<1>3. M16 \in Nat /\ M16 >= 2 * Byte
  BY <1>1, <1>2 DEF M16
<1>4. M32 \in Nat /\ M32 >= 2 * M16 /\ M32 >= 16
  <2>1. ASSUME NEW a \in Nat, a >= 4 PROVE a * a >= 16
    BY <2>1
  <2>2. QED
    BY <1>1, <1>2, <1>3, <2>1 DEF M32
<1>5. M64 \in Nat /\ M64 >= 2 * M32 /\ M64 >= 256
  <2>1. ASSUME NEW a \in Nat, a >= 16 PROVE a * a >= 256
    BY <2>1
  <2>2. QED
    BY <1>2, <1>4, <2>1 DEF M64
<1>6. QED
  BY <1>1, <1>3, <1>4, <1>5

(* Every width is even and divides the union.                              *)
LEMMA WidthDivides ==
  ASSUME NEW m \in Width
  PROVE  /\ m \in Nat \ {0} /\ m >= 2 /\ m % 2 = 0 /\ 2 * (m \div 2) = m
         /\ M64 \div m \in Nat \ {0} /\ M64 = (M64 \div m) * m
<1>1. \E k \in Nat \ {0} : M64 = k * m
  <2>1. M64 = 1 * M64 /\ M64 = M32 * M32
    BY Widths DEF M64
  <2>2. M64 = (M32 * M16) * M16
    BY Widths DEF M64, M32
  <2>3. M64 = (M32 * M16 * Byte) * Byte
    <3>1. (M32 * M16) * M16 = (M32 * M16) * (Byte * Byte)
      BY DEF M16
    <3>2. QED
      BY <2>2, <3>1, Widths
  <2>4. M32 * M16 \in Nat \ {0} /\ M32 * M16 * Byte \in Nat \ {0}
    BY Widths
  <2>5. CASE m = Byte
    BY <2>3, <2>4, <2>5
  <2>6. CASE m = M16
    BY <2>2, <2>4, <2>6
  <2>7. CASE m = M32
    BY <2>1, Widths, <2>7
  <2>8. CASE m = M64
    BY <2>1, <2>8
  <2>9. QED
    BY <2>5, <2>6, <2>7, <2>8 DEF Width
<1>2. m \in Nat \ {0} /\ m >= 2
  BY Widths DEF Width
<1>3. \E h \in Nat : m = 2 * h
  <2>1. PICK b \in Nat : Byte = 2 * b
    <3>1. Byte \div 2 \in Nat /\ Byte = 2 * (Byte \div 2)
      BY ByteAssumption
    <3>2. QED
      BY <3>1
  <2>2. M16 = 2 * (b * Byte) /\ b * Byte \in Nat
    BY <2>1, Widths DEF M16
  <2>3. M32 = 2 * (b * Byte * M16) /\ b * Byte * M16 \in Nat
    BY <2>2, Widths DEF M32
  <2>4. M64 = 2 * (b * Byte * M16 * M32) /\ b * Byte * M16 * M32 \in Nat
    BY <2>3, Widths DEF M64
  <2>5. QED
    BY <2>1, <2>2, <2>3, <2>4 DEF Width
<1>4. M64 \div m \in Nat \ {0} /\ M64 = (M64 \div m) * m
  <2>1. PICK k \in Nat \ {0} : M64 = k * m
    BY <1>1
  <2>2. 0 \in 0 .. (m - 1) /\ k * m + 0 = M64
    BY <1>2, <2>1
  <2>3. M64 \div m = k
    BY <1>2, <2>2, DivModUnique
  <2>4. QED
    BY <2>1, <2>3
<1>5. QED
  BY <1>2, <1>3, <1>4

IntegerType == SignedType \cup UnsignedType

(* Every integer type has one of the widths; signed ones have two bytes.   *)
LEMMA Sizes ==
  ASSUME NEW t \in IntegerType
  PROVE  /\ Size(t) \in Width
         /\ t \in SignedType => Size(t) >= 4 /\ t # "uint64"
         /\ t = "uint64" => Size(t) = M64
<1>1. CASE t \in SignedType
  BY <1>1, Widths DEF SignedType, Size, Width
<1>2. CASE t \in UnsignedType
  BY <1>2 DEF SignedType, UnsignedType, Size, Width
<1>3. QED
  BY <1>1, <1>2 DEF IntegerType

----------------------------------------------------------------------------
(* The union.                                                              *)

(* What is stored into a member is what the member has.                    *)
LEMMA RoundTrip ==
  ASSUME NEW u \in Int, NEW m \in Width, NEW v \in 0 .. (m - 1)
  PROVE  Member(Store(u, m, v), m) = v
<1> DEFINE k == M64 \div m
<1>1. m \in Nat \ {0} /\ k \in Nat \ {0}
  BY WidthDivides
<1>2. CASE LittleEndian
  <2>1. u \div m \in Int /\ u - (u % m) = (u \div m) * m
    BY <1>1, QuotientTimes
  <2>2. Store(u, m, v) = (u \div m) * m + v
    BY <1>2, <2>1 DEF Store
  <2>3. ((u \div m) * m + v) % m = v
    BY <1>1, <2>1, DivModUnique
  <2>4. QED
    BY <1>2, <2>2, <2>3 DEF Member
<1>3. CASE ~LittleEndian
  <2>0. v \in Int
    BY <1>1
  <2> HIDE DEF k
  <2>1. u % k \in 0 .. (k - 1) /\ v \in Int
    BY <1>1, <2>0, DivMod, Zenon
  <2>2. Store(u, m, v) = v * k + (u % k)
    BY <1>3 DEF Store, k
  <2>3. (v * k + (u % k)) \div k = v
    <3>1. k \in Nat \ {0}
      BY <1>1
    <3>2. \A q \in Int, r \in 0 .. (k - 1) : (q * k + r) \div k = q
      BY <3>1, DivModUnique, Zenon
    <3>3. QED
      BY <2>1, <3>2, Zenon
  <2>4. QED
    BY <1>3, <2>2, <2>3 DEF Member, k
<1>4. QED
  BY <1>2, <1>3

(* An integer becomes its remainder, whatever the order of bytes.          *)
LEMMA IntegersAreCut ==
  ASSUME NEW i \in Int, NEW t \in IntegerType
  PROVE  IntegerAs(i, t) = {i % Size(t)} /\ i % Size(t) \in 0 .. (Size(t) - 1)
<1>1. Size(t) \in Width /\ Size(t) \in Nat \ {0} /\ M64 \in Nat \ {0}
  BY Sizes, WidthDivides, Widths
<1>2. i % M64 \in Int /\ i % Size(t) \in 0 .. (Size(t) - 1)
  BY <1>1, DivMod
<1>3. Member(Store(i % M64, Size(t), i % Size(t)), Size(t)) = i % Size(t)
  BY <1>1, <1>2, RoundTrip
<1>4. QED
  BY <1>2, <1>3 DEF IntegerAs

(* What libdbus reads for a boolean is of the type it reads.               *)
LEMMA BooleansInRange ==
  ASSUME NEW b \in {0, 1}, NEW t \in IntegerType, NEW v \in BooleanAs(b, t)
  PROVE  v \in 0 .. (Size(t) - 1)
<1> DEFINE m == Size(t)
           k == M64 \div m
           w == M64 \div M32
<1>1. PICK u \in 0 .. (M64 - 1) : v = Member(Store(u, M32, b), m)
  BY DEF BooleanAs
<1>2. /\ m \in Width /\ m \in Nat \ {0} /\ k \in Nat \ {0} /\ M64 = k * m
      /\ w \in Nat \ {0} /\ M64 = w * M32 /\ M32 \in Width
  BY Sizes, WidthDivides DEF Width
<1>3. Store(u, M32, b) \in Int
  <2>1. u % M32 \in Int /\ u % w \in Int /\ b * w \in Int
    BY <1>2, DivMod, Widths
  <2>2. QED
    BY <2>1, Widths DEF Store
<1>4. CASE LittleEndian
  BY <1>1, <1>2, <1>3, <1>4, DivMod DEF Member
<1>5. CASE ~LittleEndian
  <2> DEFINE x == Store(u, M32, b)
  <2>1. u % w \in 0 .. (w - 1)
    <3>1. u \in Int
      BY Widths
    <3> HIDE DEF w
    <3>2. QED
      BY <1>2, <3>1, DivMod, Zenon
  <2>2. x = b * w + (u % w)
    BY <1>5 DEF Store
  <2>3. x >= 0 /\ x < 2 * w
    BY <1>2, <2>1, <2>2
  <2>4. 2 * w <= w * M32
    BY <1>2, Widths
  <2>5. x \in Int /\ 0 <= x /\ x < k * m
    BY <1>2, <1>3, <2>3, <2>4
  <2> HIDE DEF x, k, m
  <2>6. x \div k \in Int /\ x % k \in 0 .. (k - 1)
        /\ x = k * (x \div k) + (x % k)
    BY <1>2, <2>5, DivMod
  <2> DEFINE y == x \div k
  <2>7. y \in Int /\ k * y <= x /\ x < k * y + k
    BY <1>2, <2>5, <2>6
  <2> HIDE DEF y
  <2>8. y >= 0
    <3>1. CASE y <= -1
      <4>1. (-y) * k >= k
        BY <1>2, <2>7, <3>1, MulPos
      <4>2. k * y + k <= 0
        BY <1>2, <2>7, <4>1
      <4>3. QED
        BY <1>2, <2>5, <2>7, <4>2
    <3>2. QED
      BY <2>7, <3>1
  <2>9. y < m
    <3>1. CASE y >= m
      <4>1. CASE y = m
        BY <1>2, <2>5, <2>7, <4>1
      <4>2. CASE y - m >= 1
        <5>1. (y - m) * k >= k
          BY <1>2, <2>7, <4>2, MulPos
        <5>2. k * y = (y - m) * k + k * m
          BY <1>2, <2>7
        <5>3. (y - m) * k \in Int /\ k * m \in Int /\ k * y \in Int
          BY <1>2, <2>7
        <5>4. QED
          BY <1>2, <2>5, <2>7, <5>1, <5>2, <5>3
      <4>3. QED
        BY <1>2, <2>7, <3>1, <4>1, <4>2
    <3>2. QED
      BY <1>2, <2>7, <3>1
  <2>10. v = y
    BY <1>1, <1>5 DEF Member, x, y, k, m
  <2>11. QED
    BY <1>2, <2>7, <2>8, <2>9, <2>10 DEF m
<1>6. QED
  BY <1>4, <1>5

(* With the lowest byte first, the lower 32 bits of a boolean are right.   *)
LEMMA BooleansLittleEndian ==
  ASSUME LittleEndian, NEW b \in {0, 1}, NEW t \in IntegerType,
         NEW v \in BooleanAs(b, t)
  PROVE  /\ Size(t) <= M32 => v = b
         /\ \E q \in Int : v = q * M32 + b
<1> DEFINE m == Size(t)
<1>1. PICK u \in 0 .. (M64 - 1) : v = Member(Store(u, M32, b), m)
  BY DEF BooleanAs
<1>2. m \in Width /\ m \in Nat \ {0} /\ m >= 2 /\ M32 \in Nat \ {0}
  BY Sizes, WidthDivides, Widths
<1>3. PICK q \in Int : Store(u, M32, b) = q * M32 + b
  <2>1. u \div M32 \in Int /\ u - (u % M32) = (u \div M32) * M32
    <3>1. u \in Int
      BY Widths
    <3>2. QED
      BY <1>2, <3>1, QuotientTimes, Zenon
  <2>2. Store(u, M32, b) = (u \div M32) * M32 + b
    BY <2>1 DEF Store
  <2>3. QED
    BY <2>1, <2>2
<1>4. v = (q * M32 + b) % m
  BY <1>1, <1>3 DEF Member
<1>5. CASE m = M64
  <2> DEFINE x == q * M32 + b
             p == x \div M64
  <2>1. x \in Int /\ M64 \in Nat \ {0}
    BY <1>2, <1>5
  <2>2. p \in Int /\ x = M64 * p + (x % M64) /\ x % M64 \in Int
    <3> HIDE DEF p, x
    <3>1. x \div M64 \in Int /\ x % M64 \in 0 .. (M64 - 1)
          /\ x = M64 * (x \div M64) + (x % M64)
      BY <2>1, DivMod, Zenon
    <3>2. QED
      BY <2>1, <3>1 DEF p
  <2>3. v = x % M64
    BY <1>4, <1>5
  <2> HIDE DEF p, x
  <2>4. v = x - (M32 * M32) * p
    BY <2>1, <2>2, <2>3 DEF M64
  <2>5. x - (M32 * M32) * p = (q - M32 * p) * M32 + b
    BY <1>2, <2>2 DEF x
  <2>6. q - M32 * p \in Int
    BY <1>2, <2>2
  <2>7. ~(m <= M32)
    BY <1>5, Widths
  <2>8. QED
    BY <2>4, <2>5, <2>6, <2>7
<1>6. CASE m # M64
  <2>1. PICK k \in Nat : M32 = k * m
    <3>1. CASE m = M32
      BY <1>2, <3>1
    <3>2. CASE m = M16
      BY <3>2, Widths DEF M32
    <3>3. CASE m = Byte
      <4>1. M32 = M16 * (Byte * Byte)
        BY DEF M32, M16
      <4>2. M32 = (M16 * Byte) * Byte
        BY <4>1, Widths
      <4>3. QED
        BY <3>3, <4>2, Widths
    <3>4. QED
      BY <1>2, <1>6, <3>1, <3>2, <3>3 DEF Width
  <2>2. q * M32 + b = (q * k) * m + b /\ q * k \in Int
    BY <1>2, <2>1
  <2>3. b \in 0 .. (m - 1)
    BY <1>2
  <2>4. v = b
    BY <1>2, <1>4, <2>2, <2>3, DivModUnique
  <2>5. v = 0 * M32 + b
    BY <1>2, <2>4
  <2>6. QED
    BY <2>4, <2>5
<1>7. QED
  BY <1>5, <1>6


(* Conversion drops the fraction.                                          *)
LEMMA TruncatedIsWhole ==
  ASSUME NEW h \in Int
  PROVE  LET j == Truncated(h)
         IN  /\ j \in Int /\ WholePart(j, h)
             /\ h >= 0 => 2 * j <= h /\ h < 2 * j + 2 /\ j >= 0
             /\ h < 0 => h <= 2 * j /\ 2 * j - 2 < h /\ j <= 0
<1>1. CASE h >= 0
  BY <1>1 DEF Truncated, WholePart
<1>2. CASE h < 0
  <2>1. (-h) \div 2 \in Int /\ 2 * ((-h) \div 2) <= -h
        /\ -h < 2 * ((-h) \div 2) + 2 /\ (-h) \div 2 >= 0
    BY <1>2
  <2> DEFINE k == (-h) \div 2
  <2>2. Truncated(h) = -k
    BY <1>2 DEF Truncated
  <2> HIDE DEF k
  <2>3. k \in Int /\ 2 * k <= -h /\ -h < 2 * k + 2 /\ k >= 0
    BY <2>1 DEF k
  <2>4. QED
    BY <1>2, <2>2, <2>3 DEF WholePart
<1>3. QED
  BY <1>1, <1>2

(* Doubles are converted to integers of the type.                          *)
LEMMA DoublesInRange ==
  ASSUME NEW h \in Int, NEW t \in IntegerType, NEW v \in FromDouble(h, t)
  PROVE  v \in 0 .. (Size(t) - 1)
<1>1. Truncated(h) \in Int /\ Size(t) \in Nat \ {0}
  BY Sizes, WidthDivides DEF Truncated
<1>2. Truncated(h) % Size(t) \in 0 .. (Size(t) - 1)
  BY <1>1, DivMod, Zenon
<1>3. QED
  BY <1>2 DEF FromDouble

----------------------------------------------------------------------------
(* What get_basic makes of the bits.                                       *)

(* An integer that fits comes back.                                        *)
LEMMA Decoded ==
  ASSUME NEW t \in IntegerType, NEW j \in Int, Fits(j, t),
         t = "uint64" => 2 * j < M64,
         NEW a, a.type = t, a.value = j % Size(t)
  PROVE  GetBasic(a) = j
<1> DEFINE m == Size(t)
           half == m \div 2
<1>1. m \in Nat \ {0} /\ half \in Int /\ m = 2 * half
  BY Sizes, WidthDivides
<1>2. j >= 0 => j < m
  BY <1>1 DEF Fits, Lowest
<1>3. ASSUME j >= 0 PROVE j % m = j
  <2>1. j \in 0 .. (m - 1) /\ 0 * m + j = j
    BY <1>1, <1>2, <1>3
  <2> HIDE DEF m
  <2>2. (0 * m + j) % m = j
    BY <1>1, <2>1, DivModUnique
  <2>3. QED
    BY <2>1, <2>2
<1>4. ASSUME j < 0 PROVE j % m = j + m /\ t \in SignedType /\ -half <= j
  <2>1. t \in SignedType /\ -half <= j
    BY <1>1, <1>4 DEF Fits, Lowest
  <2>2. j + m \in 0 .. (m - 1) /\ (-1) * m + (j + m) = j
    BY <1>1, <1>4, <2>1
  <2> HIDE DEF m, half
  <2>3. ((-1) * m + (j + m)) % m = j + m
    BY <1>1, <2>2, DivModUnique
  <2>4. QED
    BY <2>1, <2>2, <2>3
<1>5. CASE t \in SignedType
  <2>1. IsSigned(t) /\ j < half
    BY <1>1, <1>5 DEF IsSigned, Fits, Lowest
  <2>2. CASE j >= 0
    BY <1>1, <1>3, <2>1, <2>2 DEF GetBasic
  <2>3. CASE j < 0
    BY <1>1, <1>4, <2>1, <2>3 DEF GetBasic
  <2>4. QED
    BY <2>2, <2>3
<1>6. CASE t \notin SignedType
  <2>1. j >= 0 /\ a.value = j
    BY <1>1, <1>3, <1>6 DEF Fits, Lowest
  <2>2. CASE t = "uint64"
    <3>1. j < half
      BY <1>1, <2>2, Sizes
    <3>2. QED
      BY <1>1, <2>1, <3>1 DEF GetBasic
  <2>3. CASE t # "uint64"
    BY <1>6, <2>1, <2>3 DEF GetBasic, IsSigned
  <2>4. QED
    BY <2>2, <2>3
<1>7. QED
  BY <1>5, <1>6

(* The sign takes away no bits.                                            *)
LEMMA SignKeepsBits ==
  ASSUME NEW a, NEW v \in Int, a.value = v
  PROVE  GetBasic(a) = v \/ GetBasic(a) = v - Size(a.type)
  BY DEF GetBasic

----------------------------------------------------------------------------
(* The theorems.                                                           *)

(* The kinds of Lua values that become integers.                           *)
NumberKind == {"integer", "float", "boolean"}

(* What a step appends.                                                    *)
LEMMA Steps ==
  ASSUME Next
  PROVE  \/ \E x \in LuaValue, t \in Type \ {"timeout"} : AppendBasic(x, t)
         \/ \E h \in Halves : SendWithReply(h)
<1>1. ASSUME NEW x \in LuaValue
      PROVE  Natural(x.kind) \in Type \ {"timeout"}
  BY DEF Natural, Type, SignedType, UnsignedType, StringType
<1>2. QED
  BY <1>1 DEF Next

(* An integer type is given a number or a boolean, converted by its kind.  *)
LEMMA IntegerSteps ==
  ASSUME Next, arg'.type \in IntegerType
  PROVE  /\ given'.kind \in NumberKind
         /\ given'.kind = "integer" =>
              /\ given'.value \in LuaInteger /\ given'.value \in Int
              /\ arg'.value = given'.value % Size(arg'.type)
         /\ given'.kind = "float" =>
              /\ given'.value \in Int
              /\ arg'.value \in FromDouble(given'.value, arg'.type)
         /\ given'.kind = "boolean" =>
              /\ given'.value \in {0, 1}
              /\ arg'.value \in BooleanAs(given'.value, arg'.type)
<1>1. CASE \E x \in LuaValue, t \in Type \ {"timeout"} : AppendBasic(x, t)
  <2>1. PICK x \in LuaValue, t \in Type \ {"timeout"} : AppendBasic(x, t)
    BY <1>1
  <2>2. PICK v \in Converted(x, t) :
          given' = x /\ arg' = [type |-> t, value |-> v]
    BY <2>1 DEF AppendBasic
  <2>3. t \in IntegerType /\ t \notin StringType /\ t # "double"
    BY <2>2 DEF IntegerType, SignedType, UnsignedType, StringType
  <2>4. /\ x.kind \in NumberKind
        /\ x.kind = "integer" => v \in IntegerAs(x.value, t)
        /\ x.kind = "float" => v \in FromDouble(x.value, t)
        /\ x.kind = "boolean" => v \in BooleanAs(x.value, t)
    BY <2>2, <2>3 DEF Converted, NumberAs, NumberKind
  <2>5. /\ x.kind = "integer" => x.value \in LuaInteger /\ x.value \in Int
        /\ x.kind = "float" => x.value \in Int
        /\ x.kind = "boolean" => x.value \in {0, 1}
    BY InputAssumption DEF LuaValue
  <2>6. x.kind = "integer" => v = x.value % Size(t)
    BY <2>3, <2>4, <2>5, IntegersAreCut
  <2>7. QED
    BY <2>2, <2>4, <2>5, <2>6
<1>2. CASE \E h \in Halves : SendWithReply(h)
  BY <1>2, InputAssumption DEF SendWithReply, NumberKind
<1>3. QED
  BY <1>1, <1>2, Steps


(* What libdbus is given is always of the type it was told, and never an   *)
(* address that was not one in Lua: append_basic and send_with_reply       *)
(* (src/src/message_iter.c, connection.c), for bytes of any size, both     *)
(* orders of bytes and all inputs.                                         *)
THEOREM TypeCorrect == Spec => []TypeOK
<1>1. Init => TypeOK
  BY DEF Init, TypeOK, SignedType, UnsignedType, StringType
<1>2. TypeOK /\ [Next]_vars => TypeOK'
  <2> SUFFICES ASSUME TypeOK, [Next]_vars PROVE TypeOK'
    OBVIOUS
  <2>1. CASE Next
    <3>1. /\ given'.kind \in {"nil", "integer", "float", "boolean", "string"}
          /\ arg'.type \in Type \cup {"invalid"}
          /\ arg'.type = "double" => arg'.value \in Int
          /\ arg'.type \in StringType => arg'.value \in String
          /\ arg'.type \in StringType <=> given'.kind = "string"
      <4>1. CASE \E x \in LuaValue, t \in Type \ {"timeout"} :
                   AppendBasic(x, t)
        <5>1. PICK x \in LuaValue, t \in Type \ {"timeout"} :
                     AppendBasic(x, t)
          BY <4>1
        <5>2. PICK v \in Converted(x, t) :
                given' = x /\ arg' = [type |-> t, value |-> v]
          BY <5>1 DEF AppendBasic
        <5>3. x.kind \in {"integer", "float", "boolean", "string"}
          BY DEF LuaValue
        <5>4. ASSUME t = "double" PROVE v \in Int
          <6>1. t \notin StringType
            BY <5>4 DEF StringType
          <6>2. CASE x.kind = "integer"
            <7>1. v \in ToDouble(x.value)
              BY <5>2, <5>4, <6>1, <6>2 DEF Converted, NumberAs
            <7>2. x.value \in Int
              BY <6>2, InputAssumption DEF LuaValue
            <7> DEFINE error == IF x.value \in -Exact .. Exact THEN 0
                                ELSE (IF x.value < 0 THEN -x.value
                                      ELSE x.value) \div Exact
            <7>3. error \in Int
              <8>1. ASSUME NEW i \in Int PROVE i \div Exact \in Int
                BY <8>1, ExactAssumption, DivMod, Zenon
              <8>2. -x.value \in Int
                BY <7>2
              <8>3. QED
                BY <7>2, <8>1, <8>2
            <7>4. PICK j \in (x.value - error) .. (x.value + error) : v = 2 * j
              BY <7>1 DEF ToDouble
            <7> HIDE DEF error
            <7>5. QED
              BY <7>2, <7>3, <7>4
          <6>3. CASE x.kind = "float"
            BY <5>2, <5>4, <6>1, <6>3, InputAssumption
               DEF Converted, NumberAs, LuaValue
          <6>4. CASE x.kind = "boolean"
            BY <5>2, <5>4, <6>1, <6>4 DEF Converted, NumberAs, LuaValue
          <6>5. CASE x.kind = "string"
            BY <5>2, <5>4, <6>1, <6>5 DEF Converted, NumberAs
          <6>6. QED
            BY <5>3, <6>2, <6>3, <6>4, <6>5
        <5>5. ASSUME t \in StringType PROVE v \in String
          <6>0. t # "double"
            BY <5>5 DEF StringType
          <6>1. x.kind = "string" /\ v = x.value
            <7>1. v \in IF x.kind = "string" THEN {x.value} ELSE {}
              BY <5>2, <5>5, <6>0 DEF Converted
            <7>2. QED
              BY <7>1
          <6>2. x.kind = "string" => x.value \in String
            BY DEF LuaValue
          <6>3. QED
            BY <6>1, <6>2
        <5>6. t \in StringType <=> x.kind = "string"
          <6>1. CASE t \in StringType
            BY <5>2, <6>1 DEF Converted
          <6>2. CASE t \notin StringType
            BY <5>2, <5>3, <6>2 DEF Converted, NumberAs
          <6>3. QED
            BY <6>1, <6>2
        <5>7. QED
          BY <5>2, <5>3, <5>4, <5>5, <5>6
      <4>2. CASE \E h \in Halves : SendWithReply(h)
        BY <4>2 DEF SendWithReply, Type, SignedType, StringType
      <4>3. QED
        BY <2>1, <4>1, <4>2, Steps
    <3>2. arg'.type \in IntegerType =>
            arg'.value \in 0 .. (Size(arg'.type) - 1)
      BY <2>1, IntegerSteps, IntegersAreCut, DoublesInRange, BooleansInRange
         DEF NumberKind
    <3>3. QED
      BY <3>1, <3>2 DEF TypeOK, IntegerType
  <2>2. CASE UNCHANGED vars
    BY <2>2 DEF vars, TypeOK
  <2>3. QED
    BY <2>1, <2>2
<1>3. QED
  BY <1>1, <1>2, PTL DEF Spec

(* What fits comes back the same, fractions aside: all of append_basic,    *)
(* the union and get_basic (src/src/message_iter.c), and the milliseconds  *)
(* of send_with_reply (src/src/connection.c).                              *)
THEOREM InRangeValuesComeBack == Spec => []InRangeKept
<1>1. Init => InRangeKept
  BY DEF Init, InRangeKept
<1>2. InRangeKept /\ [Next]_vars => InRangeKept'
  <2> SUFFICES ASSUME InRangeKept, [Next]_vars PROVE InRangeKept'
    OBVIOUS
  <2>1. CASE Next
    <3> DEFINE t == arg'.type
               h == HalvesGiven'
               m == Size(t)
    <3> SUFFICES ASSUME t \notin StringType \cup {"double", "invalid"},
                        BooleanFits',
                        2 * Lowest(t) - 2 < h,
                        h < 2 * (Lowest(t) + m), h < M64
                 PROVE  WholePart(GetBasic(arg'), h)
      BY DEF InRangeKept
    <3>1. t \in IntegerType
      <4>1. t \in Type
        BY <2>1, Steps DEF AppendBasic, SendWithReply, Type, SignedType
      <4>2. QED
        BY <4>1 DEF Type, IntegerType
    <3>2. m \in Nat /\ m >= 2 /\ Lowest(t) \in Int /\ Lowest(t) <= 0
          /\ Lowest(t) + m >= 1
      <4>1. m \in Nat /\ m >= 2 /\ m \div 2 \in Int /\ 2 * (m \div 2) = m
        BY <3>1, Sizes, WidthDivides
      <4>2. QED
        BY <4>1 DEF Lowest
    <3>3. ASSUME NEW j \in Int, Fits(j, t), 2 * j < M64,
                 arg'.value = j % m, WholePart(j, h)
          PROVE  WholePart(GetBasic(arg'), h)
      <4>1. GetBasic(arg') = j
        BY <3>1, <3>3, Decoded
      <4>2. QED
        BY <3>3, <4>1
    <3>4. CASE given'.kind = "integer"
      <4> DEFINE j == given'.value
      <4>1. j \in Int /\ arg'.value = j % m /\ h = 2 * j
        BY <2>1, <3>1, <3>4, IntegerSteps DEF HalvesGiven
      <4>2. Fits(j, t) /\ 2 * j < M64 /\ WholePart(j, h)
        BY <3>2, <4>1 DEF Fits, WholePart
      <4>3. QED
        BY <3>3, <4>1, <4>2
    <3>5. CASE given'.kind = "float"
      <4> DEFINE j == Truncated(h)
      <4>1. h \in Int /\ arg'.value \in FromDouble(h, t)
        BY <2>1, <3>1, <3>5, IntegerSteps DEF HalvesGiven
      <4>2. /\ j \in Int /\ WholePart(j, h)
            /\ h >= 0 => 2 * j <= h /\ h < 2 * j + 2 /\ j >= 0
            /\ h < 0 => h <= 2 * j /\ 2 * j - 2 < h /\ j <= 0
        BY <4>1, TruncatedIsWhole
      <4>3. M64 \in Nat /\ M64 >= 256
        BY Widths
      <4>4. Fits(j, t) /\ 2 * j < M64
        <5> HIDE DEF j, h, t, m
        <5>1. 2 * j < M64
          BY <4>1, <4>2, <4>3
        <5>2. Lowest(t) <= j
          BY <3>2, <4>1, <4>2
        <5>3. j < Lowest(t) + m
          BY <3>2, <4>1, <4>2
        <5>4. QED
          BY <5>1, <5>2, <5>3 DEF Fits, m
      <4>5. arg'.value = j % m
        BY <4>1, <4>4 DEF FromDouble
      <4>6. QED
        BY <3>3, <4>2, <4>4, <4>5
    <3>6. CASE given'.kind = "boolean"
      <4> DEFINE b == given'.value
      <4>1. b \in {0, 1} /\ arg'.value \in BooleanAs(b, t) /\ h = 2 * b
        BY <2>1, <3>1, <3>6, IntegerSteps DEF HalvesGiven
      <4>2. arg'.value = b
        <5>1. CASE m = M32
          <6>1. PICK u \in 0 .. (M64 - 1) :
                  arg'.value = Member(Store(u, M32, b), M32)
            BY <4>1, <5>1 DEF BooleanAs
          <6>2. u \in Int /\ M32 \in Width /\ b \in 0 .. (M32 - 1)
            BY <4>1, Widths DEF Width
          <6>3. QED
            BY <6>1, <6>2, RoundTrip
        <5>2. CASE LittleEndian /\ m < M32
          BY <3>1, <3>2, <4>1, <5>2, BooleansLittleEndian, Widths
        <5>3. QED
          BY <3>6, <5>1, <5>2 DEF BooleanFits
      <4>3. b = 0 * m + b /\ b \in 0 .. (m - 1)
        BY <3>2, <4>1
      <4>4. b = b % m
        <5> HIDE DEF b, m
        <5>1. (0 * m + b) % m = b
          <6>1. m \in Nat \ {0} /\ 0 \in Int
            BY <3>2
          <6>2. QED
            BY <4>3, <6>1, DivModUnique, Zenon
        <5>2. QED
          BY <4>3, <5>1
      <4>5. Fits(b, t) /\ 2 * b < M64 /\ WholePart(b, h)
        BY <3>2, <4>1, Widths DEF Fits, WholePart
      <4>6. QED
        BY <3>3, <4>1, <4>2, <4>4, <4>5
    <3>7. QED
      BY <2>1, <3>1, <3>4, <3>5, <3>6, IntegerSteps DEF NumberKind
  <2>2. CASE UNCHANGED vars
    BY <2>2 DEF vars, InRangeKept, HalvesGiven, BooleanFits
  <2>3. QED
    BY <2>1, <2>2
<1>3. QED
  BY <1>1, <1>2, PTL DEF Spec


(* An integer that does not fit loses upper bits and nothing else, and a   *)
(* boolean of a wider type has its lower 32 bits right: append_basic and   *)
(* get_basic (src/src/message_iter.c).                                     *)
THEOREM LowBitsSurvive == Spec => []LowBitsKept
<1>1. Init => LowBitsKept
  BY DEF Init, LowBitsKept
<1>2. LowBitsKept /\ [Next]_vars => LowBitsKept'
  <2> SUFFICES ASSUME LowBitsKept, [Next]_vars PROVE LowBitsKept'
    OBVIOUS
  <2>1. CASE Next
    <3> DEFINE t == arg'.type
               i == given'.value
               g == GetBasic(arg')
               m == Size(t)
               kept == IF given'.kind = "boolean" /\ m > M32 THEN M32 ELSE m
    <3> SUFFICES ASSUME t \notin StringType \cup {"double"},
                        \/ given'.kind = "integer"
                        \/ given'.kind = "boolean" /\ LittleEndian
                 PROVE  (g - i) % kept = 0
      BY DEF LowBitsKept
    <3>1. t \in IntegerType
      <4>1. t \in Type
        BY <2>1, Steps DEF AppendBasic, SendWithReply, Type, SignedType
      <4>2. QED
        BY <4>1 DEF Type, IntegerType
    <3>2. m \in Width /\ m \in Nat \ {0} /\ M32 \in Nat \ {0}
      BY <3>1, Sizes, WidthDivides, Widths
    <3>3. ASSUME NEW q \in Int, g - i = q * kept, kept \in Nat \ {0}
          PROVE  (g - i) % kept = 0
      BY <3>3, ModMultiple
    <3>4. ASSUME NEW v \in Int, arg'.value = v PROVE g = v \/ g = v - m
      BY <3>4, SignKeepsBits
    <3>5. CASE given'.kind = "integer"
      <4> DEFINE p == i \div m
                 v == i % m
      <4>1. i \in Int /\ arg'.value = v
        BY <2>1, <3>1, <3>5, IntegerSteps
      <4>2. p \in Int /\ v \in 0 .. (m - 1) /\ i = m * p + v
        <5> HIDE DEF i, m
        <5>1. QED
          BY <3>2, <4>1, DivMod, Zenon
      <4>3. g = v \/ g = v - m
        BY <3>4, <4>1, <4>2
      <4>4. kept = m
        BY <3>5
      <4> HIDE DEF p, v, i, m, g, kept
      <4>5. CASE g = v
        <5>1. g - i = (-p) * m
          BY <3>2, <4>1, <4>2, <4>5
        <5>2. -p \in Int
          BY <4>2
        <5>3. QED
          BY <3>2, <3>3, <4>4, <5>1, <5>2, Zenon
      <4>6. CASE g = v - m
        <5>1. g - i = (-p - 1) * m
          BY <3>2, <4>1, <4>2, <4>6
        <5>2. -p - 1 \in Int
          BY <4>2
        <5>3. QED
          BY <3>2, <3>3, <4>4, <5>1, <5>2, Zenon
      <4>7. QED
        BY <4>3, <4>5, <4>6
    <3>6. CASE given'.kind = "boolean" /\ LittleEndian
      <4>1. i \in {0, 1} /\ arg'.value \in BooleanAs(i, t)
        BY <2>1, <3>1, <3>6, IntegerSteps
      <4>2. /\ m <= M32 => arg'.value = i
            /\ \E q \in Int : arg'.value = q * M32 + i
        BY <3>1, <3>6, <4>1, BooleansLittleEndian
      <4>3. CASE m <= M32
        <5>1. kept = m
          BY <3>2, <4>3
        <5>2. g = i \/ g = i - m
          BY <3>4, <4>1, <4>2, <4>3
        <5> HIDE DEF i, m, g, kept
        <5>3. g - i = 0 * m \/ g - i = (-1) * m
          BY <3>2, <4>1, <5>2
        <5>4. QED
          BY <3>2, <3>3, <5>1, <5>3
      <4>4. CASE m > M32
        <5>1. kept = M32 /\ m = M32 * M32
          BY <3>2, <3>6, <4>4, Widths DEF Width, M64
        <5>2. PICK q \in Int : arg'.value = q * M32 + i
          BY <4>2
        <5>3. q * M32 + i \in Int
          BY <3>2, <4>1
        <5>4. g = q * M32 + i \/ g = (q * M32 + i) - m
          BY <3>4, <5>2, <5>3, Zenon
        <5> HIDE DEF i, m, g, kept
        <5>5. g - i = q * M32 \/ g - i = (q - M32) * M32
          BY <3>2, <4>1, <5>1, <5>4
        <5>6. q - M32 \in Int
          BY <3>2
        <5>7. QED
          BY <3>2, <3>3, <5>1, <5>5, <5>6
      <4>5. QED
        BY <3>2, <4>3, <4>4
    <3>7. QED
      BY <3>5, <3>6
  <2>2. CASE UNCHANGED vars
    BY <2>2 DEF vars, LowBitsKept
  <2>3. QED
    BY <2>1, <2>2
<1>3. QED
  BY <1>1, <1>2, PTL DEF Spec

=============================================================================
