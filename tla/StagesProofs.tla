--------------------------- MODULE StagesProofs ---------------------------
(***************************************************************************)
(* Proofs about the two sequential loops of a scan.  The expansion of its  *)
(* target: the list is the host addresses of the target, for any number of *)
(* address bits and any limit below the size of the address space.  The    *)
(* inspection of a web service: what is kept is what the last request was  *)
(* answered with, and the findings drawn from it say what Inspect states,  *)
(* for any number of addresses and any answers.                            *)
(***************************************************************************)
EXTENDS TargetExpand, Inspect, SumProofs, SequenceTheorems

-----------------------------------------------------------------------------
(* Powers of two *)

\* A set with one element more has twice as many subsets.
LEMMA Doubling ==
    ASSUME NEW n \in Nat
    PROVE  2^n \in Nat /\ 2^(n + 1) = 2^n + 2^n
<1> DEFINE S == SUBSET (1..n)
           T == SUBSET (1..(n + 1))
           With == {s \cup {n + 1} : s \in S}
           f == [s \in S |-> s \cup {n + 1}]
<1>1. /\ IsFiniteSet(S) /\ Cardinality(S) = 2^n
      /\ IsFiniteSet(T) /\ Cardinality(T) = 2^(n + 1)
    <2>1. /\ IsFiniteSet(1..n) /\ Cardinality(1..n) = n
          /\ IsFiniteSet(1..(n + 1)) /\ Cardinality(1..(n + 1)) = n + 1
        BY FS_Interval
    <2>2. QED
        BY <2>1, FS_SUBSET
<1>2. n + 1 \notin 1..n /\ 1..(n + 1) = (1..n) \cup {n + 1}
    OBVIOUS
<1>3. f \in Bijection(S, With)
    <2>1. f \in [S -> With]
        OBVIOUS
    <2>2. \A s, t \in S : f[s] = f[t] => s = t
        BY <1>2
    <2>3. \A u \in With : \E s \in S : f[s] = u
        OBVIOUS
    <2>4. QED
        BY <2>1, <2>2, <2>3 DEF Bijection, Injection, Surjection, IsInjective
<1>4. IsFiniteSet(With) /\ Cardinality(With) = 2^n
    BY <1>1, <1>3, FS_Bijection DEF ExistsBijection
<1>5. T = S \cup With /\ S \cap With = {}
    <2>1. ASSUME NEW t \in T PROVE t \in S \cup With
        <3>1. CASE n + 1 \notin t
            BY <1>2, <3>1
        <3>2. CASE n + 1 \in t
            <4>1. t \ {n + 1} \in S
                BY <1>2
            <4>2. t = (t \ {n + 1}) \cup {n + 1}
                BY <3>2
            <4>3. QED
                BY <4>1, <4>2
        <3>3. QED
            BY <3>1, <3>2
    <2>2. S \cup With \subseteq T
        BY <1>2
    <2>3. S \cap With = {}
        BY <1>2
    <2>4. QED
        BY <2>1, <2>2, <2>3
<1> HIDE DEF S, T, With
<1>6. Cardinality(T) = 2^n + 2^n - 0
    BY <1>1, <1>4, <1>5, FS_Union, FS_EmptySet
<1>7. 2^n \in Nat
    BY <1>1, FS_CardinalityType
<1>8. QED
    BY <1>1, <1>6, <1>7

\* Powers of two are positive, and that of a sum is a product.
LEMMA PowersOfTwo ==
    ASSUME NEW m \in Nat, NEW n \in Nat
    PROVE  /\ 2^n \in Nat \ {0}
           /\ 2^(m + n) = 2^m * 2^n
<1> DEFINE W == {k \in 0..n : 2^k \in Nat \ {0} /\ 2^(m + k) = 2^m * 2^k}
<1>1. 0 \in W
    <2>1. 2^0 = 1 /\ m + 0 = m /\ 2^m \in Nat
        BY Doubling
    <2>2. 2^m = 2^m * 1
        BY <2>1
    <2>3. QED
        BY <2>1, <2>2
<1>2. ASSUME NEW k \in W, k < n PROVE k + 1 \in W
    <2>1. k \in Nat /\ m + k \in Nat /\ m + (k + 1) = (m + k) + 1 /\ k + 1 \in 0..n
        BY <1>2
    <2>2. /\ 2^m \in Nat /\ 2^k \in Nat \ {0} /\ 2^(m + k) = 2^m * 2^k
          /\ 2^(k + 1) = 2^k + 2^k /\ 2^((m + k) + 1) = 2^(m + k) + 2^(m + k)
        BY <2>1, Doubling
    <2>3. \A a, b \in Nat : a * b + a * b = a * (b + b)
        OBVIOUS
    <2>4. 2^((m + k) + 1) = 2^m * (2^k + 2^k) /\ 2^k + 2^k \in Nat \ {0}
        BY <2>2, <2>3
    <2>5. 2^(m + (k + 1)) = 2^m * 2^(k + 1) /\ 2^(k + 1) \in Nat \ {0}
        BY <2>1, <2>2, <2>4
    <2>6. QED
        BY <2>1, <2>5
<1>3. n \in W
    <2>1. W \in SUBSET (0..n)
        OBVIOUS
    <2> HIDE DEF W
    <2>2. QED
        BY <1>1, <1>2, <2>1, CountUp
<1>4. QED
    BY <1>3
-----------------------------------------------------------------------------
(* Blocks of addresses *)

\* Addresses fall into blocks of b: those of the block of x, and no others, have its
\* quotient.
LEMMA Blocks ==
    ASSUME NEW b \in Nat \ {0}, NEW x \in Nat
    PROVE  LET base == (x \div b) * b
           IN  /\ base \in Nat /\ base <= x /\ x < base + b
               /\ \A y \in Nat :
                    (y \div b = base \div b) <=> (base <= y /\ y < base + b)
<1> DEFINE a == x \div b
<1>1. a \in Nat /\ a * b <= x /\ x < a * b + b /\ a * b \in Nat
    OBVIOUS
<1>2. (a * b) \div b = a
    BY <1>1
<1>3. ASSUME NEW y \in Nat PROVE (y \div b = a) <=> (a * b <= y /\ y < a * b + b)
    <2>1. y \div b \in Nat /\ (y \div b) * b <= y /\ y < (y \div b) * b + b
        OBVIOUS
    <2>2. y \div b = a => a * b <= y /\ y < a * b + b
        BY <2>1
    <2>3. ASSUME a * b <= y, y < a * b + b PROVE y \div b = a
        BY <1>1, <2>3
    <2>4. QED
        BY <2>2, <2>3
<1>4. QED
    BY <1>1, <1>2, <1>3

\* A block within an aligned space ends within it.
LEMMA BlockFits ==
    ASSUME NEW b \in Nat \ {0}, NEW q \in Nat, NEW a \in Nat, a * b < q * b
    PROVE  a * b + b <= q * b
<1>1. a < q
    OBVIOUS
<1>2. (a + 1) * b <= q * b /\ (a + 1) * b = a * b + b
    BY <1>1
<1>3. QED
    BY <1>2

\* The first powers of two, and the next after any.
LEMMA SmallPowers ==
    ASSUME NEW k \in Nat
    PROVE  2^(2 + k) = 4 * 2^k /\ 2^(1 + k) = 2 * 2^k /\ 2^k \in Nat \ {0}
<1>1. 2^1 = 2 /\ 2^2 = 4 /\ 1 \in Nat /\ 2 \in Nat
    OBVIOUS
<1>2. 2^(2 + k) = 2^2 * 2^k /\ 2^(1 + k) = 2^1 * 2^k /\ 2^k \in Nat \ {0}
    BY <1>1, PowersOfTwo
<1>3. QED
    BY <1>1, <1>2

\* The numbers Expand works with.
LEMMA Sizes ==
    /\ 2^Bits \in Nat /\ 2^Bits >= 4
    /\ 2^HighBits \in Nat /\ 2^HighBits >= 2
    /\ 2^(Bits + HighBits) = 2^HighBits * 2^Bits
    /\ V4Block \in Nat /\ V4Block < 2^HighBits
    /\ \E h \in Nat : V4Block = h + h + 1
    /\ maxHosts \in Nat /\ 2 <= maxHosts /\ maxHosts < 2^Bits
<1> USE ExpandAssumption DEF ExpandAssumption
<1>1. /\ Bits \in Nat /\ Bits - 2 \in Nat /\ 2 + (Bits - 2) = Bits
      /\ HighBits \in Nat /\ HighBits - 1 \in Nat /\ 1 + (HighBits - 1) = HighBits
      /\ MappedOnes \in Nat /\ MappedOnes - 1 \in Nat /\ 1 + (MappedOnes - 1) = MappedOnes
      /\ HighBits - MappedOnes \in Nat
      /\ MappedOnes + (HighBits - MappedOnes) = HighBits
      /\ 1 \in Nat /\ 2 \in Nat
    OBVIOUS
<1>2. /\ 2^Bits = 4 * 2^(Bits - 2) /\ 2^(Bits - 2) \in Nat \ {0}
      /\ 2^HighBits = 2 * 2^(HighBits - 1) /\ 2^(HighBits - 1) \in Nat \ {0}
      /\ 2^MappedOnes = 2 * 2^(MappedOnes - 1) /\ 2^(MappedOnes - 1) \in Nat \ {0}
    BY <1>1, SmallPowers
<1>3. Bits + HighBits = HighBits + Bits /\ 2^(HighBits + Bits) = 2^HighBits * 2^Bits
    BY <1>1, PowersOfTwo
<1>4. 2^Bits \in Nat /\ 2^HighBits \in Nat /\ 2^Bits >= 4 /\ 2^HighBits >= 2
    BY <1>2
<1>5. /\ V4Block \in Nat /\ V4Block < 2^HighBits
      /\ \E h \in Nat : V4Block = h + h + 1
    <2>1. PICK m, h, k \in Nat \ {0} :
            m = 2^MappedOnes /\ h = 2^(MappedOnes - 1) /\ k = 2^(HighBits - MappedOnes)
        BY <1>1, SmallPowers
    <2>2. m = 2 * h /\ 2^HighBits = m * k
        BY <1>1, <1>2, <2>1, PowersOfTwo
    <2>3. m <= m * k
        BY <2>1
    <2>4. V4Block = m - 1
        BY <2>1 DEF V4Block
    <2>5. h - 1 \in Nat /\ V4Block = (h - 1) + (h - 1) + 1
        BY <2>1, <2>2, <2>4
    <2>6. QED
        BY <2>1, <2>2, <2>3, <2>4, <2>5
<1>6. QED
    BY <1>3, <1>4, <1>5

\* The address space and the block of the target, whatever its prefix.
LEMMA SpaceFacts ==
    ASSUME input \in Targets, ValidTarget(input), input.form \in {"prefix", "mapped"}
    PROVE  /\ input.addr \in Nat /\ input.addr < 2^Bits /\ ParsedIP \in Nat
           /\ 2^Width \in Nat /\ 2^Bits <= 2^Width /\ ParsedIP < 2^Width
           /\ BlockSize \in Nat \ {0}
           /\ \E q \in Nat : 2^Width = q * BlockSize
<1>1. /\ input.addr \in Nat /\ input.addr < 2^Bits
      /\ input.ones \in Nat /\ Width \in Nat /\ Width - input.ones \in Nat
      /\ input.form = "prefix" => Width = Bits
      /\ input.form = "mapped" => Width = Bits + HighBits
    BY Sizes, ExpandAssumption DEF ExpandAssumption, Targets, ValidTarget, Width
<1>2. /\ 2^Width \in Nat \ {0} /\ BlockSize \in Nat \ {0} /\ 2^input.ones \in Nat
      /\ 2^Width = 2^input.ones * BlockSize
    <2>1. input.ones + (Width - input.ones) = Width
        BY <1>1
    <2>2. QED
        BY <1>1, <2>1, PowersOfTwo DEF BlockSize
<1>3. CASE input.form = "prefix"
    BY <1>1, <1>2, <1>3 DEF ParsedIP
<1>4. CASE input.form = "mapped"
    <2>1. PICK h, v, c \in Nat : h = 2^HighBits /\ v = 2^Bits /\ c = V4Block
        BY Sizes
    <2>2. ParsedIP = c * v + input.addr /\ 2^Width = h * v /\ c < h
        BY <1>1, <1>4, <2>1, Sizes DEF ParsedIP
    <2>3. c * v \in Nat /\ c * v + v <= h * v
        <3>1. v # 0 /\ c * v < h * v
            BY <2>1, <2>2, Sizes
        <3>2. QED
            BY <3>1, BlockFits
    <2>4. PICK z, w \in Nat : z = c * v /\ w = h * v
        BY <2>1
    <2>5. ParsedIP = z + input.addr /\ 2^Width = w /\ z + v <= w
        BY <2>2, <2>3, <2>4
    <2>6. input.addr \in Nat /\ input.addr < v
        BY <1>1, <2>1
    <2>7. ParsedIP \in Nat /\ ParsedIP < 2^Width /\ v <= 2^Width
        BY <2>5, <2>6
    <2>8. QED
        BY <1>1, <1>2, <2>1, <2>7
<1>5. QED
    BY <1>3, <1>4

\* A target that is a prefix, in either way of writing it.
IsPrefix == input \in Targets /\ ValidTarget(input) /\ input.form \in {"prefix", "mapped"}

\* The block of the target lies within the address space.
LEMMA BlockOfTarget ==
    ASSUME IsPrefix
    PROVE  /\ NetworkIP \in Nat /\ NetworkIP + BlockSize <= 2^Width
           /\ \E a \in Nat : NetworkIP = a * BlockSize
           /\ NetworkIP <= ParsedIP /\ ParsedIP < NetworkIP + BlockSize
           /\ \A ip \in Nat :
                (ip \div BlockSize = NetworkIP \div BlockSize)
                    <=> (NetworkIP <= ip /\ ip < NetworkIP + BlockSize)
<1>1. PICK b, x : b = BlockSize /\ x = ParsedIP
    OBVIOUS
<1>2. b \in Nat \ {0} /\ x \in Nat /\ x < 2^Width
    BY <1>1, SpaceFacts DEF IsPrefix
<1>3. PICK q \in Nat : 2^Width = q * b
    BY <1>1, SpaceFacts DEF IsPrefix
<1>4. PICK a \in Nat : a = x \div b
    BY <1>2
<1>5. /\ a * b \in Nat /\ a * b <= x /\ x < a * b + b
      /\ \A y \in Nat : (y \div b = (a * b) \div b) <=> (a * b <= y /\ y < a * b + b)
    BY <1>2, <1>4, Blocks
<1>6. a * b + b <= q * b
    <2>1. a * b < q * b
        BY <1>2, <1>3, <1>5
    <2>2. QED
        BY <1>2, <2>1, BlockFits
<1>7. NetworkIP = a * b
    BY <1>1, <1>4 DEF NetworkIP
<1>8. QED
    BY <1>1, <1>3, <1>5, <1>6, <1>7

\* How the block of a mapped prefix relates to the IPv4 block, which has as many
\* addresses as 2^Bits: it divides it evenly, or it is an even number of times as large.
LEMMA MappedSizes ==
    ASSUME IsPrefix, input.form = "mapped"
    PROVE  /\ ParsedIP = V4Block * 2^Bits + input.addr
           /\ input.addr \in Nat /\ input.addr < 2^Bits
           /\ \/ \E q \in Nat : 2^Bits = q * BlockSize
              \/ \E c \in Nat \ {0} : BlockSize = (c + c) * 2^Bits
<1>1. /\ ParsedIP = V4Block * 2^Bits + input.addr
      /\ input.addr \in Nat /\ input.addr < 2^Bits
      /\ input.ones \in 0..(Bits + HighBits) /\ Bits \in Nat /\ HighBits \in Nat
      /\ BlockSize = 2^(Bits + HighBits - input.ones)
    BY Sizes, ExpandAssumption
       DEF ExpandAssumption, IsPrefix, Targets, ParsedIP, BlockSize, Width
<1>2. CASE input.ones >= HighBits
    <2>1. PICK m, k \in Nat : m = input.ones - HighBits /\ k = Bits + HighBits - input.ones
        BY <1>1, <1>2
    <2>2. 2^(m + k) = 2^m * 2^k /\ 2^m \in Nat
        BY PowersOfTwo
    <2>3. m + k = Bits
        BY <1>1, <2>1
    <2>4. QED
        BY <1>1, <2>1, <2>2, <2>3
<1>3. CASE input.ones < HighBits
    <2>1. PICK m \in Nat : m + 1 = HighBits - input.ones
        BY <1>1, <1>3
    <2>2. 2^(m + 1) = 2^m + 2^m /\ 2^m \in Nat \ {0}
        BY <2>1, Doubling, PowersOfTwo
    <2>3. PICK j \in Nat : j = m + 1
        BY <2>1
    <2>4. 2^(j + Bits) = 2^j * 2^Bits
        BY <1>1, PowersOfTwo
    <2>5. j + Bits = Bits + HighBits - input.ones
        BY <1>1, <2>1, <2>3
    <2>6. BlockSize = (2^m + 2^m) * 2^Bits
        BY <1>1, <2>2, <2>3, <2>4, <2>5
    <2>7. QED
        BY <1>1, <2>2, <2>6
<1>4. QED
    BY <1>1, <1>2, <1>3

\* An even multiple of a size, counted in that size, is not odd.
LEMMA EvenMultiple ==
    ASSUME NEW v \in Nat \ {0}, NEW c \in Nat, NEW a \in Nat, NEW h \in Nat
    PROVE  (a * ((c + c) * v)) \div v # h + h + 1
<1>1. a * ((c + c) * v) = (a * c + a * c) * v
    OBVIOUS
<1>2. PICK e \in Nat : e = a * c
    OBVIOUS
<1>3. ((e + e) * v) \div v = e + e
    <2>1. PICK d \in Nat : d = e + e
        OBVIOUS
    <2>2. (d * v) \div v = d
        OBVIOUS
    <2>3. QED
        BY <2>1, <2>2
<1>4. QED
    BY <1>1, <1>2, <1>3

\* The numbers of the block that begins at r * v.
LEMMA QuotientOf ==
    ASSUME NEW v \in Nat \ {0}, NEW r \in Nat, NEW x \in Nat,
           r * v <= x, x < r * v + v
    PROVE  x \div v = r /\ x % v = x - r * v
<1>1. PICK d, m \in Nat : d = x \div v /\ m = x % v /\ x = d * v + m /\ m < v
    OBVIOUS
<1>2. d <= r /\ r <= d
    BY <1>1
<1>3. QED
    BY <1>1, <1>2

\* A prefix of IPv4 addresses: they are counted without a wrap.
LEMMA V4Target ==
    ASSUME IsPrefix, IsV4(NetworkIP)
    PROVE  /\ To4(NetworkIP) \in Nat /\ To4(NetworkIP) + BlockSize <= 2^Bits
           /\ \A k \in 0..(BlockSize - 1) :
                IsV4(NetworkIP + k) /\ To4(NetworkIP + k) = To4(NetworkIP) + k
<1>1. PICK n, b, v \in Nat : n = NetworkIP /\ b = BlockSize /\ v = 2^Bits
    BY SpaceFacts, BlockOfTarget, Sizes DEF IsPrefix
<1>2. b # 0 /\ v # 0 /\ n + b <= 2^Width
    BY <1>1, SpaceFacts, BlockOfTarget, Sizes DEF IsPrefix
<1>3. CASE input.form = "prefix"
    <2>1. n + b <= v
        BY <1>1, <1>2, <1>3 DEF Width
    <2>2. \A x \in Nat : x < v => x % v = x
        BY <1>2
    <2>3. QED
        BY <1>1, <1>2, <1>3, <2>1, <2>2 DEF To4, IsV4
<1>4. CASE input.form = "mapped"
    <2>1. PICK r, z \in Nat : r = V4Block /\ z = r * v
        BY Sizes
    <2>2. n \div v = r /\ z <= n /\ n < z + v
        <3>1. n \div v = r
            BY <1>1, <1>4, <2>1 DEF IsV4
        <3>2. (n \div v) * v <= n /\ n < (n \div v) * v + v
            BY <1>2
        <3>3. QED
            BY <2>1, <3>1, <3>2
    <2>3. PICK a \in Nat : n = a * b
        BY <1>1, BlockOfTarget
    <2>4. PICK q \in Nat : v = q * b
        <3>1. ASSUME NEW c \in Nat \ {0}, b = (c + c) * v PROVE FALSE
            <4>1. PICK h \in Nat : r = h + h + 1
                BY <2>1, Sizes
            <4>2. n \div v # h + h + 1
                BY <1>2, <2>3, <3>1, EvenMultiple
            <4>3. QED
                BY <2>2, <4>1, <4>2
        <3>2. QED
            BY <1>1, <1>4, <3>1, MappedSizes
    <2>5. n + b <= z + v
        <3>1. PICK t \in Nat : t = r * q + q
            OBVIOUS
        <3>2. t * b = z + v
            BY <2>1, <2>4, <3>1
        <3>3. a * b < t * b
            BY <2>2, <2>3, <3>2
        <3>4. a * b + b <= t * b
            BY <1>2, <3>3, BlockFits
        <3>5. QED
            BY <2>3, <3>2, <3>4
    <2>6. \A x \in Nat : z <= x /\ x < z + v => x % v = x - z /\ x \div v = r
        BY <1>2, <2>1, QuotientOf
    <2>7. n % v = n - z
        BY <2>2, <2>6
    <2>8. ASSUME NEW k \in 0..(b - 1)
          PROVE  n + k \in Nat /\ (n + k) \div v = r /\ (n + k) % v = n - z + k
        <3>1. n + k \in Nat /\ z <= n + k /\ n + k < z + v
            BY <1>2, <2>2, <2>5
        <3>2. QED
            BY <2>6, <3>1
    <2>9. QED
        BY <1>1, <1>2, <2>1, <2>2, <2>5, <2>7, <2>8 DEF To4, IsV4
<1>5. QED
    BY <1>3, <1>4 DEF IsPrefix

\* A mapped prefix shorter than the mapping: its block begins before the IPv4 block,
\* whose beginning is the first IPv4 address in it.
LEMMA HighTarget ==
    ASSUME IsPrefix, ~IsV4(NetworkIP)
    PROVE  /\ input.form = "mapped"
           /\ V4Block * 2^Bits \in Nat /\ V4Block * 2^Bits < 2^Width
           /\ NetworkIP <= V4Block * 2^Bits
           /\ \A ip \in 0..(V4Block * 2^Bits) : IsV4(ip) <=> ip = V4Block * 2^Bits
<1>1. input.form = "mapped"
    BY DEF IsPrefix, IsV4
<1>2. PICK n, b, v, x, r, z \in Nat :
        /\ n = NetworkIP /\ b = BlockSize /\ v = 2^Bits /\ x = ParsedIP
        /\ r = V4Block /\ z = r * v
    BY SpaceFacts, BlockOfTarget, Sizes DEF IsPrefix
<1>3. /\ b # 0 /\ v # 0 /\ n <= x /\ x < n + b
      /\ z <= x /\ x < z + v /\ z < 2^Width
    <2>1. b # 0 /\ v # 0 /\ n <= x /\ x < n + b
        BY <1>2, SpaceFacts, BlockOfTarget, Sizes DEF IsPrefix
    <2>2. z <= x /\ x < z + v
        BY <1>1, <1>2, MappedSizes
    <2>3. x < 2^Width /\ 2^Width \in Nat
        BY <1>2, SpaceFacts DEF IsPrefix
    <2>4. QED
        BY <2>1, <2>2, <2>3
<1>4. PICK a \in Nat : n = a * b
    BY <1>2, BlockOfTarget
<1>5. n \div v # r
    BY <1>1, <1>2 DEF IsV4
<1>6. ASSUME NEW y \in Nat PROVE (z <= y /\ y < z + v) => y \div v = r
    BY <1>2, <1>3, QuotientOf
<1>7. n < z
    BY <1>3, <1>5, <1>6
<1>8. \A ip \in 0..z : (ip \div v = r) <=> (ip = z)
    <2>1. z \div v = r
        BY <1>3, <1>6
    <2>2. ASSUME NEW ip \in 0..z, ip \div v = r PROVE ip = z
        <3>1. (ip \div v) * v <= ip
            BY <1>3
        <3>2. QED
            BY <1>2, <2>2, <3>1
    <2>3. QED
        BY <2>1, <2>2
<1>9. QED
    BY <1>1, <1>2, <1>3, <1>7, <1>8 DEF IsV4

-----------------------------------------------------------------------------
(* Expand *)

\* The list so far: the first addresses of the target, as many as were kept.
Counted(k) == hosts = [i \in 1..k |-> To4(NetworkIP) + i - 1]

\* In the loop, as many addresses of an IPv4 prefix were kept as were passed, none
\* of them twice; of a prefix shorter than the mapping, none was kept, and the loop
\* has not passed the IPv4 block.
LoopInv ==
    /\ IsPrefix
    /\ IsV4(NetworkIP) =>
        \E k \in 0..maxHosts :
            /\ k <= BlockSize /\ Counted(k)
            /\ current = (NetworkIP + k) % 2^Width
    /\ ~IsV4(NetworkIP) => hosts = <<>> /\ current \in 0..(V4Block * 2^Bits)

\* A list of successive numbers, as long as it may be.
Successive == \E k \in 0..(maxHosts + 1), base \in Int : hosts = [i \in 1..k |-> base + i - 1]

ExpandInv ==
    /\ input \in Targets /\ ValidTarget(input)
    /\ step \in {"parse", "loop", "expanded", "error"}
    /\ step = "parse" => hosts = <<>>
    /\ step = "loop" => LoopInv
    /\ step \in {"expanded", "error"} => Successive /\ ExpandsToHostAddresses

\* Lists of successive numbers.
LEMMA SuccessiveLists ==
    ASSUME NEW k \in Nat, NEW base \in Int, NEW s, s = [i \in 1..k |-> base + i - 1]
    PROVE  /\ s \in Seq(Int) /\ Len(s) = k /\ DOMAIN s = 1..k
           /\ k = 0 => s = <<>>
           /\ Append(s, base + k) = [i \in 1..(k + 1) |-> base + i - 1]
           /\ k >= 2 => SubSeq(s, 2, k - 1) = [i \in 1..(k - 2) |-> (base + 1) + i - 1]
<1>1. s \in Seq(Int) /\ Len(s) = k /\ DOMAIN s = 1..k
    OBVIOUS
<1>2. k = 0 => s = <<>>
    BY <1>1, EmptySeq
<1>3. Append(s, base + k) = [i \in 1..(k + 1) |-> base + i - 1]
    <2>1. /\ Append(s, base + k) \in Seq(Int) /\ Len(Append(s, base + k)) = k + 1
          /\ \A i \in 1..k : Append(s, base + k)[i] = base + i - 1
          /\ Append(s, base + k)[k + 1] = base + k
        BY <1>1, AppendProperties
    <2>2. QED
        BY <2>1
<1>4. ASSUME k >= 2
      PROVE  SubSeq(s, 2, k - 1) = [i \in 1..(k - 2) |-> (base + 1) + i - 1]
    BY <1>1, <1>4
<1>5. QED
    BY <1>1, <1>2, <1>3, <1>4

\* The target is fixed, and what follows from it.
LEMMA TargetStays ==
    ASSUME UNCHANGED input
    PROVE  /\ IsPrefix' = IsPrefix /\ NetworkIP' = NetworkIP /\ BlockSize' = BlockSize
           /\ Width' = Width /\ IsV4(NetworkIP)' = IsV4(NetworkIP)
           /\ To4(NetworkIP)' = To4(NetworkIP)
           /\ FirstHost' = FirstHost /\ HostCount' = HostCount /\ Expandable' = Expandable
<1>1. input' = input
    OBVIOUS
<1>2. Width' = Width /\ BlockSize' = BlockSize /\ ParsedIP' = ParsedIP /\ IsPrefix' = IsPrefix
    BY <1>1 DEF Width, BlockSize, ParsedIP, IsPrefix, ValidTarget
<1>3. NetworkIP' = NetworkIP
    BY <1>2 DEF NetworkIP
<1>4. IsV4(NetworkIP)' = IsV4(NetworkIP) /\ To4(NetworkIP)' = To4(NetworkIP)
    BY <1>1, <1>3 DEF IsV4, To4
<1>5. FirstHost' = FirstHost /\ HostCount' = HostCount /\ Expandable' = Expandable
    BY <1>1, <1>2, <1>4 DEF FirstHost, HostCount, Expandable
<1>6. QED
    BY <1>2, <1>3, <1>4, <1>5

LEMMA ParseKeeps == ExpandInv /\ Parse => ExpandInv'
<1> SUFFICES ASSUME ExpandInv, Parse PROVE ExpandInv'
    OBVIOUS
<1>1. /\ input \in Targets /\ ValidTarget(input) /\ hosts = <<>> /\ UNCHANGED input
      /\ input.form \in Forms /\ input.addr \in Int /\ maxHosts \in Nat
    BY Sizes DEF ExpandInv, Parse, Targets
<1>2. input' \in Targets /\ ValidTarget(input)'
    BY <1>1 DEF ValidTarget
<1>3. CASE input.form = "other"
    <2>1. step' = "error" /\ hosts' = <<>>
        BY <1>1, <1>3 DEF Parse
    <2>2. Successive'
        <3>1. <<>> = [i \in 1..0 |-> 0 + i - 1]
            BY SuccessiveLists
        <3>2. 0 \in 0..(maxHosts + 1)
            BY <1>1
        <3>3. QED
            BY <2>1, <3>1, <3>2 DEF Successive
    <2>3. ~Expandable'
        BY <1>1, <1>3 DEF Expandable
    <2>4. QED
        BY <1>2, <2>1, <2>2, <2>3 DEF ExpandInv, ExpandsToHostAddresses
<1>4. CASE input.form = "address"
    <2>1. step' = "expanded" /\ hosts' = <<input.addr>>
        BY <1>4 DEF Parse
    <2>2. <<input.addr>> = [i \in 1..1 |-> input.addr + i - 1]
        BY <1>1
    <2>3. Successive'
        <3>1. 1 \in 0..(maxHosts + 1)
            BY <1>1
        <3>2. QED
            BY <1>1, <2>1, <2>2, <3>1 DEF Successive
    <2>4. Expandable' /\ HostCount' = 1 /\ FirstHost' = input.addr
        BY <1>1, <1>4 DEF Expandable, HostCount, FirstHost
    <2>5. QED
        BY <1>2, <2>1, <2>2, <2>3, <2>4 DEF ExpandInv, ExpandsToHostAddresses
<1>5. CASE input.form \in {"prefix", "mapped"}
    <2>1. step' = "loop" /\ current' = NetworkIP /\ hosts' = <<>>
        BY <1>1, <1>5 DEF Parse
    <2>2. IsPrefix
        BY <1>1, <1>5 DEF IsPrefix
    <2>3. IsPrefix' /\ IsV4(NetworkIP)' = IsV4(NetworkIP)
        BY <1>1, <2>2, TargetStays
    <2>4. CASE IsV4(NetworkIP)
        <3>1. /\ NetworkIP \in Nat /\ BlockSize \in Nat \ {0} /\ 2^Width \in Nat
              /\ NetworkIP < 2^Width
            BY <2>2, SpaceFacts, BlockOfTarget DEF IsPrefix
        <3>2. current' = (NetworkIP + 0) % 2^Width
            BY <2>1, <3>1
        <3>3. current' = (NetworkIP' + 0) % 2^Width'
            BY <1>1, <3>2, TargetStays
        <3>4. To4(NetworkIP) \in Int
            BY <2>2, <2>4, V4Target
        <3>5. <<>> = [i \in 1..0 |-> To4(NetworkIP) + i - 1]
            BY <3>4, SuccessiveLists
        <3>6. Counted(0)'
            BY <1>1, <2>1, <3>5, TargetStays DEF Counted
        <3>7. 0 \in 0..maxHosts /\ 0 <= BlockSize'
            BY <1>1, <3>1, TargetStays
        <3>8. LoopInv'
            BY <2>3, <2>4, <3>3, <3>6, <3>7 DEF LoopInv
        <3>9. QED
            BY <1>2, <2>1, <3>8 DEF ExpandInv
    <2>5. CASE ~IsV4(NetworkIP)
        <3>1. NetworkIP \in Nat /\ NetworkIP <= V4Block * 2^Bits /\ V4Block * 2^Bits \in Nat
            BY <2>2, <2>5, HighTarget, BlockOfTarget
        <3>2. current' \in 0..(V4Block * 2^Bits)
            BY <2>1, <3>1
        <3>3. LoopInv'
            BY <2>1, <2>3, <2>5, <3>2 DEF LoopInv
        <3>4. QED
            BY <1>2, <2>1, <3>3 DEF ExpandInv
    <2>6. QED
        BY <2>4, <2>5
<1>6. QED
    BY <1>1, <1>3, <1>4, <1>5 DEF Forms

\* In the loop over an IPv4 prefix no address has been passed twice: the limit ends
\* it before the loop variable wraps into the block again.
LEMMA V4Loop ==
    ASSUME LoopInv, IsV4(NetworkIP), NEW k \in 0..maxHosts, k <= BlockSize,
           current = (NetworkIP + k) % 2^Width
    PROVE  /\ Contains(current) <=> k < BlockSize
           /\ k < BlockSize => /\ IsV4(current) /\ To4(current) = To4(NetworkIP) + k
                               /\ Inc(current) = (NetworkIP + (k + 1)) % 2^Width
<1>1. PICK n, b, w \in Nat : n = NetworkIP /\ b = BlockSize /\ w = 2^Width
    BY SpaceFacts, BlockOfTarget DEF LoopInv, IsPrefix
<1>2. /\ b # 0 /\ n + b <= w /\ k \in Nat /\ k <= maxHosts /\ k <= b
      /\ maxHosts \in Nat /\ maxHosts < w
    BY <1>1, SpaceFacts, BlockOfTarget, Sizes DEF LoopInv, IsPrefix
<1>3. \A ip \in Nat : (ip \div b = n \div b) <=> (n <= ip /\ ip < n + b)
    BY <1>1, BlockOfTarget DEF LoopInv
<1>4. \A x \in Nat : x < w => x % w = x
    BY <1>2
<1>5. CASE k < b
    <2>1. current = n + k
        BY <1>1, <1>2, <1>4, <1>5
    <2>2. k \in 0..(BlockSize - 1)
        BY <1>1, <1>2, <1>5
    <2>3. IsV4(current) /\ To4(current) = To4(NetworkIP) + k
        BY <1>1, <2>1, <2>2, V4Target DEF LoopInv
    <2>4. current \div b = n \div b
        BY <1>2, <1>3, <1>5, <2>1
    <2>5. Inc(current) = (n + (k + 1)) % w
        BY <1>1, <1>2, <2>1 DEF Inc
    <2>6. QED
        BY <1>1, <1>2, <1>5, <2>3, <2>4, <2>5 DEF Contains
<1>6. CASE k = b
    <2>1. current \in Nat /\ ~(n <= current /\ current < n + b)
        <3>1. CASE n + b < w
            BY <1>1, <1>2, <1>4, <1>6, <3>1
        <3>2. CASE n + b = w
            <4>1. current = 0
                BY <1>1, <1>2, <1>6, <3>2
            <4>2. n # 0
                BY <1>2, <1>6, <3>2
            <4>3. QED
                BY <1>2, <4>1, <4>2
        <3>3. QED
            BY <1>2, <3>1, <3>2
    <2>2. ~(current \div b = n \div b)
        BY <1>3, <2>1
    <2>3. QED
        BY <1>1, <1>2, <1>6, <2>2 DEF Contains
<1>7. QED
    BY <1>2, <1>5, <1>6

LEMMA VisitKeeps == ExpandInv /\ Visit => ExpandInv'
<1> SUFFICES ASSUME ExpandInv, Visit PROVE ExpandInv'
    OBVIOUS
<1>1. /\ LoopInv /\ IsPrefix /\ Contains(current) /\ UNCHANGED input
      /\ maxHosts \in Nat /\ 2 <= maxHosts
    BY Sizes DEF ExpandInv, Visit, LoopInv
<1>2. input' \in Targets /\ ValidTarget(input)' /\ IsPrefix'
    BY <1>1, TargetStays DEF IsPrefix
<1>3. CASE IsV4(NetworkIP)
    <2>1. PICK k \in 0..maxHosts :
            k <= BlockSize /\ Counted(k) /\ current = (NetworkIP + k) % 2^Width
        BY <1>1, <1>3 DEF LoopInv
    <2>2. /\ k < BlockSize /\ IsV4(current) /\ To4(current) = To4(NetworkIP) + k
          /\ Inc(current) = (NetworkIP + (k + 1)) % 2^Width
        BY <1>1, <1>3, <2>1, V4Loop
    <2>3. PICK base \in Int : base = To4(NetworkIP)
        BY <1>1, <1>3, V4Target
    <2>4. hosts = [i \in 1..k |-> base + i - 1]
        BY <2>1, <2>3 DEF Counted
    <2>5. hosts' = Append(hosts, base + k)
        BY <2>2, <2>3 DEF Visit
    <2>6. hosts' = [i \in 1..(k + 1) |-> base + i - 1]
        BY <2>4, <2>5, SuccessiveLists
    <2>7. Len(hosts') = k + 1 /\ k \in Nat /\ k <= maxHosts
        BY <1>1, <2>6, SuccessiveLists
    <2>8. BlockSize \in Nat
        BY <1>1, SpaceFacts DEF IsPrefix
    <2>9. CASE k < maxHosts
        <3>1. step' = "loop" /\ current' = (NetworkIP + (k + 1)) % 2^Width
            BY <1>1, <2>2, <2>7, <2>9 DEF Visit
        <3>2. current' = (NetworkIP' + (k + 1)) % 2^Width'
            BY <1>1, <3>1, TargetStays
        <3>3. k + 1 \in 0..maxHosts /\ k + 1 <= BlockSize'
            BY <1>1, <2>2, <2>7, <2>8, <2>9, TargetStays
        <3>4. Counted(k + 1)'
            BY <1>1, <2>3, <2>6, TargetStays DEF Counted
        <3>5. IsV4(NetworkIP)'
            BY <1>1, <1>3, TargetStays
        <3>6. LoopInv'
            BY <1>2, <3>2, <3>3, <3>4, <3>5 DEF LoopInv
        <3>7. QED
            BY <1>2, <3>1, <3>6 DEF ExpandInv
    <2>10. CASE k = maxHosts
        <3>1. step' = "error"
            BY <1>1, <2>7, <2>10 DEF Visit
        <3>2. Successive'
            <4>1. k + 1 \in 0..(maxHosts + 1)
                BY <1>1, <2>7
            <4>2. QED
                BY <2>6, <4>1 DEF Successive
        <3>3. ~(BlockSize <= maxHosts) /\ input.form # "address"
            BY <1>1, <2>2, <2>8, <2>10 DEF IsPrefix
        <3>4. ~Expandable'
            BY <1>1, <3>3, TargetStays DEF Expandable
        <3>5. QED
            BY <1>2, <3>1, <3>2, <3>4 DEF ExpandInv, ExpandsToHostAddresses
    <2>11. QED
        BY <1>1, <2>7, <2>9, <2>10
<1>4. CASE ~IsV4(NetworkIP)
    <2>1. hosts = <<>> /\ current \in 0..(V4Block * 2^Bits) /\ ~IsV4(current)
        BY <1>1, <1>4 DEF LoopInv, Contains
    <2>2. /\ current # V4Block * 2^Bits /\ V4Block * 2^Bits \in Nat
          /\ 2^Width \in Nat /\ V4Block * 2^Bits < 2^Width
        BY <1>1, <1>4, <2>1, HighTarget, SpaceFacts DEF IsPrefix
    <2>3. current' = current + 1 /\ hosts' = <<>>
        <3>1. Inc(current) = current + 1
            BY <2>1, <2>2 DEF Inc
        <3>2. QED
            BY <2>1, <3>1 DEF Visit
    <2>4. step' = "loop"
        BY <1>1, <2>3 DEF Visit
    <2>5. current' \in 0..(V4Block * 2^Bits)
        BY <2>1, <2>2, <2>3
    <2>6. ~IsV4(NetworkIP)'
        BY <1>1, <1>4, TargetStays
    <2>7. LoopInv'
        BY <1>2, <2>3, <2>5, <2>6 DEF LoopInv
    <2>8. QED
        BY <1>2, <2>4, <2>7 DEF ExpandInv
<1>5. QED
    BY <1>3, <1>4

\* How many addresses a prefix has, by its length.
LEMMA PrefixSizes ==
    ASSUME IsPrefix, input.form = "prefix"
    PROVE  /\ input.ones <= Bits - 2 => BlockSize >= 4
           /\ BlockSize >= 1
<1>1. /\ input.ones \in Nat /\ input.ones <= Bits /\ Bits \in Nat
      /\ BlockSize = 2^(Bits - input.ones)
    BY ExpandAssumption DEF ExpandAssumption, IsPrefix, ValidTarget, Targets, BlockSize, Width
<1>2. ASSUME input.ones <= Bits - 2 PROVE BlockSize >= 4
    <2>1. PICK k \in Nat : k + 2 = Bits - input.ones
        BY <1>1, <1>2
    <2>2. 2 \in Nat /\ 2^2 = 4
        OBVIOUS
    <2>3. 2^(k + 2) = 2^k * 2^2 /\ 2^k \in Nat \ {0}
        BY <2>2, PowersOfTwo
    <2>4. QED
        BY <1>1, <2>1, <2>2, <2>3
<1>3. BlockSize >= 1
    BY SpaceFacts DEF IsPrefix
<1>4. QED
    BY <1>2, <1>3

LEMMA FinishKeeps == ExpandInv /\ Finish => ExpandInv'
<1> SUFFICES ASSUME ExpandInv, Finish PROVE ExpandInv'
    OBVIOUS
<1>1. /\ LoopInv /\ IsPrefix /\ ~Contains(current) /\ UNCHANGED input
      /\ maxHosts \in Nat /\ 2 <= maxHosts
    BY Sizes DEF ExpandInv, Finish, LoopInv
<1>2. input' \in Targets /\ ValidTarget(input)'
    BY <1>1, TargetStays DEF IsPrefix, ValidTarget
<1>3. CASE IsV4(NetworkIP)
    <2>1. PICK k \in 0..maxHosts :
            k <= BlockSize /\ Counted(k) /\ current = (NetworkIP + k) % 2^Width
        BY <1>1, <1>3 DEF LoopInv
    <2>2. BlockSize \in Nat \ {0}
        BY <1>1, SpaceFacts DEF IsPrefix
    <2>3. ~(k < BlockSize)
        BY <1>1, <1>3, <2>1, V4Loop
    <2>4. k = BlockSize /\ k \in Nat \ {0} /\ k <= maxHosts
        BY <1>1, <2>1, <2>2, <2>3
    <2>5. PICK base \in Int : base = To4(NetworkIP)
        BY <1>1, <1>3, V4Target
    <2>6. hosts = [i \in 1..k |-> base + i - 1]
        BY <2>1, <2>5 DEF Counted
    <2>7. Len(hosts) = k
        BY <2>4, <2>6, SuccessiveLists
    <2>8. Expandable'
        BY <1>1, <1>3, <2>4, TargetStays DEF Expandable, IsPrefix
    <2> DEFINE trimmed == input.form = "prefix" /\ input.ones <= Bits - 2
    <2>9. CASE trimmed
        <3>1. k >= 4
            BY <1>1, <2>2, <2>4, <2>9, PrefixSizes
        <3>2. Trimmed(hosts) = SubSeq(hosts, 2, k - 1)
            BY <2>4, <2>7, <2>9, <3>1 DEF Trimmed
        <3>3. SubSeq(hosts, 2, k - 1) = [i \in 1..(k - 2) |-> (base + 1) + i - 1]
            BY <2>4, <2>6, <3>1, SuccessiveLists
        <3>4. hosts' = [i \in 1..(k - 2) |-> (base + 1) + i - 1]
            BY <3>2, <3>3 DEF Finish
        <3>5. FirstHost' = base + 1 /\ HostCount' = k - 2
            BY <1>1, <2>4, <2>5, <2>9, TargetStays DEF FirstHost, HostCount
        <3>6. k - 2 \in Nat /\ k - 2 # 0 /\ base + 1 \in Int /\ k - 2 \in 0..(maxHosts + 1)
            BY <1>1, <2>4, <3>1
        <3>7. Len(hosts') = k - 2
            BY <3>4, <3>6, SuccessiveLists
        <3>8. hosts' # <<>>
            BY <3>6, <3>7
        <3>9. step' = "expanded"
            BY <3>8 DEF Finish
        <3>10. Successive'
            BY <3>4, <3>6 DEF Successive
        <3>11. QED
            BY <1>2, <2>8, <3>4, <3>5, <3>9, <3>10 DEF ExpandInv, ExpandsToHostAddresses
    <2>10. CASE ~trimmed
        <3>1. Trimmed(hosts) = hosts
            BY <2>10 DEF Trimmed
        <3>2. hosts' = [i \in 1..k |-> base + i - 1]
            BY <2>6, <3>1 DEF Finish
        <3>3. FirstHost' = base /\ HostCount' = k
            BY <1>1, <2>4, <2>5, <2>10, TargetStays DEF FirstHost, HostCount, IsPrefix
        <3>4. k \in 0..(maxHosts + 1)
            BY <1>1, <2>4
        <3>5. step' = "expanded"
            BY <2>4, <2>7, <3>1 DEF Finish
        <3>6. Successive'
            BY <3>2, <3>4 DEF Successive
        <3>7. QED
            BY <1>2, <2>8, <3>2, <3>3, <3>5, <3>6 DEF ExpandInv, ExpandsToHostAddresses
    <2>11. QED
        BY <2>9, <2>10
<1>4. CASE ~IsV4(NetworkIP)
    <2>1. hosts = <<>>
        BY <1>1, <1>4 DEF LoopInv
    <2>2. Trimmed(hosts) = <<>>
        BY <2>1 DEF Trimmed
    <2>3. step' = "error" /\ hosts' = <<>>
        BY <2>2 DEF Finish
    <2>4. Successive'
        <3>1. <<>> = [i \in 1..0 |-> 0 + i - 1]
            BY SuccessiveLists
        <3>2. 0 \in 0..(maxHosts + 1)
            BY <1>1
        <3>3. QED
            BY <2>3, <3>1, <3>2 DEF Successive
    <2>5. ~Expandable'
        BY <1>1, <1>4, TargetStays DEF Expandable, IsPrefix
    <2>6. QED
        BY <1>2, <2>3, <2>4, <2>5 DEF ExpandInv, ExpandsToHostAddresses
<1>5. QED
    BY <1>3, <1>4

LEMMA ExpandInvInductive == ExpandInv /\ [ExpandNext]_expandVars => ExpandInv'
<1>1. ExpandInv /\ UNCHANGED expandVars => ExpandInv'
    <2> SUFFICES ASSUME ExpandInv, UNCHANGED expandVars PROVE ExpandInv'
        OBVIOUS
    <2>1. UNCHANGED <<input, step, current, hosts>>
        BY DEF expandVars
    <2>2. LoopInv' = LoopInv /\ ExpandsToHostAddresses' = ExpandsToHostAddresses
        BY <2>1, TargetStays DEF LoopInv, ExpandsToHostAddresses, Counted
    <2>3. QED
        BY <2>1, <2>2 DEF ExpandInv, ValidTarget, Successive
<1>2. QED
    BY <1>1, ParseKeeps, VisitKeeps, FinishKeeps DEF ExpandNext

LEMMA ExpandInvariant == ExpandSpec => []ExpandInv
<1>1. ExpandInit => ExpandInv
    BY DEF ExpandInit, ExpandInv
<1>2. QED
    BY <1>1, ExpandInvInductive, PTL DEF ExpandSpec

\* Of any target: Expand returns exactly its host addresses, each once and in order,
\* and refuses exactly the targets that have none or more than the limit.
THEOREM AlwaysExpandsToHostAddresses == ExpandSpec => []ExpandsToHostAddresses
<1>1. ExpandInv => ExpandsToHostAddresses
    BY DEF ExpandInv, ExpandsToHostAddresses
<1>2. QED
    BY <1>1, ExpandInvariant, PTL

\* The list is at no time longer than the limit and one and holds no address twice,
\* though the loop variable of the shortest prefix wraps into it again.
THEOREM ListAlwaysStaysBounded == ExpandSpec => []ListStaysBounded
<1>1. ASSUME Successive PROVE ListStaysBounded
    <2>1. PICK k \in 0..(maxHosts + 1), base \in Int : hosts = [i \in 1..k |-> base + i - 1]
        BY <1>1 DEF Successive
    <2>2. k \in Nat /\ k <= maxHosts + 1 /\ Len(hosts) = k /\ DOMAIN hosts = 1..k
        BY <2>1, Sizes, SuccessiveLists
    <2>3. QED
        BY <2>1, <2>2 DEF ListStaysBounded
<1>2. ExpandInv => Successive
    <2> SUFFICES ASSUME ExpandInv PROVE Successive
        OBVIOUS
    <2>1. maxHosts \in Nat
        BY Sizes
    <2>2. CASE hosts = <<>>
        <3>1. <<>> = [i \in 1..0 |-> 0 + i - 1]
            BY SuccessiveLists
        <3>2. 0 \in 0..(maxHosts + 1)
            BY <2>1
        <3>3. QED
            BY <2>2, <3>1, <3>2 DEF Successive
    <2>3. CASE step = "loop" /\ IsV4(NetworkIP)
        <3>1. PICK k \in 0..maxHosts : Counted(k)
            BY <2>3 DEF ExpandInv, LoopInv
        <3>2. To4(NetworkIP) \in Int
            BY <2>3, V4Target DEF ExpandInv, LoopInv
        <3>3. k \in 0..(maxHosts + 1)
            BY <2>1
        <3>4. QED
            BY <3>1, <3>2, <3>3 DEF Counted, Successive
    <2>4. QED
        BY <2>2, <2>3 DEF ExpandInv, LoopInv
<1>3. QED
    BY <1>1, <1>2, ExpandInvariant, PTL

\* How many rounds Expand has still to go at most, the parsing and the end of the
\* loop among them: over IPv4 addresses until the list is beyond its limit, below the
\* IPv4 block until the loop is there.
RoundsLeft ==
    CASE step = "parse" -> (V4Block + 1) * 2^Bits + 2
      [] step = "loop" /\ IsV4(NetworkIP) -> maxHosts + 2 - Len(hosts)
      [] step = "loop" /\ ~IsV4(NetworkIP) -> V4Block * 2^Bits - current + 1
      [] OTHER -> 0

\* The addresses below the IPv4 block, and those below its end.
LEMMA BlockSizes ==
    /\ V4Block * 2^Bits \in Nat
    /\ (V4Block + 1) * 2^Bits = V4Block * 2^Bits + 2^Bits
<1>1. PICK c, v \in Nat : c = V4Block /\ v = 2^Bits
    BY Sizes
<1>2. c * v \in Nat /\ (c + 1) * v = c * v + v
    OBVIOUS
<1>3. QED
    BY <1>1, <1>2

\* What RoundsLeft is in each place.
RoundsTable ==
    /\ RoundsLeft \in Nat
    /\ step = "parse" => RoundsLeft = V4Block * 2^Bits + 2^Bits + 2
    /\ step = "loop" /\ IsV4(NetworkIP) =>
        /\ RoundsLeft = maxHosts + 2 - Len(hosts)
        /\ Len(hosts) \in 0..maxHosts
    /\ step = "loop" /\ ~IsV4(NetworkIP) =>
        /\ RoundsLeft = V4Block * 2^Bits - current + 1
        /\ current \in 0..(V4Block * 2^Bits)
    /\ step \in {"expanded", "error"} => RoundsLeft = 0

LEMMA RoundsAre == ExpandInv => RoundsTable
<1> SUFFICES ASSUME ExpandInv PROVE RoundsTable
    OBVIOUS
<1>1. PICK z, v, m \in Nat : z = V4Block * 2^Bits /\ v = 2^Bits /\ m = maxHosts
    BY Sizes, BlockSizes
<1>2. step \in {"parse", "loop", "expanded", "error"}
    BY DEF ExpandInv
<1>3. CASE step = "parse"
    <2>1. RoundsLeft = z + v + 2
        BY <1>1, <1>3, BlockSizes DEF RoundsLeft
    <2>2. QED
        BY <1>1, <1>3, <2>1 DEF RoundsTable
<1>4. CASE step = "loop" /\ IsV4(NetworkIP)
    <2>1. PICK k \in 0..maxHosts : Counted(k)
        BY <1>4 DEF ExpandInv, LoopInv
    <2>2. k \in Nat /\ k <= m /\ To4(NetworkIP) \in Int
        BY <1>1, <1>4, V4Target DEF ExpandInv, LoopInv
    <2>3. Len(hosts) = k
        BY <2>1, <2>2, SuccessiveLists DEF Counted
    <2>4. RoundsLeft = m + 2 - k
        BY <1>1, <1>4, <2>3 DEF RoundsLeft
    <2>5. QED
        BY <1>1, <1>4, <2>2, <2>3, <2>4 DEF RoundsTable
<1>5. CASE step = "loop" /\ ~IsV4(NetworkIP)
    <2>1. current \in 0..z
        BY <1>1, <1>5 DEF ExpandInv, LoopInv
    <2>2. RoundsLeft = z - current + 1
        BY <1>1, <1>5 DEF RoundsLeft
    <2>3. QED
        BY <1>1, <1>5, <2>1, <2>2 DEF RoundsTable
<1>6. CASE step \in {"expanded", "error"}
    BY <1>6 DEF RoundsLeft, RoundsTable
<1>7. QED
    BY <1>2, <1>3, <1>4, <1>5, <1>6

\* Every round is one less to go.
LEMMA RoundGoesOn ==
    ASSUME ExpandInv, RoundsTable, RoundsTable', ExpandNext
    PROVE  RoundsLeft' < RoundsLeft
<1>1. PICK z, v, m \in Nat :
        z = V4Block * 2^Bits /\ v = 2^Bits /\ m = maxHosts /\ m < v /\ v >= 4
    BY Sizes, BlockSizes
<1>2. /\ RoundsLeft' \in Nat
      /\ step' \in {"expanded", "error"} => RoundsLeft' = 0
      /\ step' = "loop" /\ IsV4(NetworkIP)' =>
            RoundsLeft' = m + 2 - Len(hosts') /\ Len(hosts') \in 0..m
      /\ step' = "loop" /\ ~IsV4(NetworkIP)' =>
            RoundsLeft' = z - current' + 1 /\ current' \in 0..z
    BY <1>1 DEF RoundsTable
<1>3. CASE Parse
    <2>1. RoundsLeft = z + v + 2
        BY <1>1, <1>3 DEF Parse, RoundsTable
    <2>2. step' \in {"loop", "expanded", "error"}
        BY <1>3 DEF Parse
    <2>3. QED
        BY <1>1, <1>2, <2>1, <2>2
<1>4. Visit \/ Finish => RoundsLeft \in Nat /\ RoundsLeft >= 1
    <2> SUFFICES ASSUME Visit \/ Finish PROVE RoundsLeft \in Nat /\ RoundsLeft >= 1
        OBVIOUS
    <2>1. step = "loop"
        BY DEF Visit, Finish
    <2>2. \/ RoundsLeft = m + 2 - Len(hosts) /\ Len(hosts) \in 0..m
          \/ RoundsLeft = z - current + 1 /\ current \in 0..z
        BY <1>1, <2>1 DEF RoundsTable
    <2>3. QED
        BY <1>1, <2>2
<1>5. CASE Finish
    <2>1. step' \in {"expanded", "error"}
        BY <1>5 DEF Finish
    <2>2. RoundsLeft' = 0 /\ RoundsLeft \in Nat /\ RoundsLeft >= 1
        BY <1>2, <1>4, <1>5, <2>1
    <2>3. QED
        BY <2>2
<1>6. CASE Visit
    <2>1. /\ step = "loop" /\ step' \in {"loop", "error"} /\ UNCHANGED input
          /\ LoopInv /\ IsPrefix /\ Contains(current)
        BY <1>6 DEF Visit, ExpandInv, LoopInv
    <2>2. IsV4(NetworkIP)' = IsV4(NetworkIP)
        BY <2>1, TargetStays
    <2>3. CASE step' = "error"
        <3>1. RoundsLeft' = 0 /\ RoundsLeft \in Nat /\ RoundsLeft >= 1
            BY <1>2, <1>4, <1>6, <2>3
        <3>2. QED
            BY <3>1
    <2>4. CASE step' = "loop" /\ IsV4(NetworkIP)
        <3>1. PICK k \in 0..maxHosts :
                k <= BlockSize /\ Counted(k) /\ current = (NetworkIP + k) % 2^Width
            BY <2>1, <2>4 DEF LoopInv
        <3>2. IsV4(current) /\ To4(current) = To4(NetworkIP) + k
            BY <2>1, <2>4, <3>1, V4Loop
        <3>3. PICK base \in Int : base = To4(NetworkIP)
            BY <2>1, <2>4, V4Target
        <3>4. hosts = [i \in 1..k |-> base + i - 1] /\ k \in Nat
            BY <1>1, <3>1, <3>3 DEF Counted
        <3>5. hosts' = Append(hosts, base + k)
            BY <1>6, <3>2, <3>3 DEF Visit
        <3>6. Len(hosts) = k /\ Len(hosts') = k + 1
            <4>1. hosts' = [i \in 1..(k + 1) |-> base + i - 1]
                BY <3>4, <3>5, SuccessiveLists
            <4>2. QED
                BY <3>4, <4>1, SuccessiveLists
        <3>7. RoundsLeft = m + 2 - Len(hosts)
            BY <1>1, <2>1, <2>4 DEF RoundsTable
        <3>8. RoundsLeft' = m + 2 - Len(hosts')
            BY <1>2, <2>2, <2>4
        <3>9. QED
            BY <1>1, <3>4, <3>6, <3>7, <3>8
    <2>5. CASE step' = "loop" /\ ~IsV4(NetworkIP)
        <3>1. RoundsLeft = z - current + 1 /\ current \in 0..z
            BY <1>1, <2>1, <2>5 DEF RoundsTable
        <3>2. RoundsLeft' = z - current' + 1
            BY <1>2, <2>2, <2>5
        <3>3. current < z
            <4>1. ~IsV4(current)
                BY <2>1, <2>5 DEF Contains
            <4>2. current # z
                BY <1>1, <2>1, <2>5, <3>1, <4>1, HighTarget
            <4>3. QED
                BY <1>1, <3>1, <4>2
        <3>4. z < 2^Width /\ 2^Width \in Nat
            BY <1>1, <2>1, <2>5, HighTarget, SpaceFacts DEF IsPrefix
        <3>5. current' = current + 1
            <4>1. current' = (current + 1) % 2^Width
                BY <1>6 DEF Visit, Inc
            <4>2. PICK w \in Nat : w = 2^Width
                BY <3>4
            <4>3. QED
                BY <1>1, <3>1, <3>3, <3>4, <4>1, <4>2
        <3>6. QED
            BY <1>1, <3>1, <3>2, <3>3, <3>5
    <2>6. QED
        BY <2>1, <2>3, <2>4, <2>5
<1>7. QED
    BY <1>3, <1>5, <1>6 DEF ExpandNext

\* Expand returns whatever it is given, as far as that is a matter of safety: each of
\* its rounds takes it closer to the end, a round that keeps no address too, and there
\* is no number of rounds below none.
THEOREM ExpandRoundsRunOut ==
    ExpandSpec => /\ [](RoundsLeft \in Nat)
                  /\ [][RoundsLeft' < RoundsLeft]_expandVars
<1>1. RoundsTable => RoundsLeft \in Nat
    BY DEF RoundsTable
<1>2. ExpandInv /\ RoundsTable /\ RoundsTable' /\ [ExpandNext]_expandVars
        => [RoundsLeft' < RoundsLeft]_expandVars
    BY RoundGoesOn
<1>3. QED
    BY <1>1, <1>2, RoundsAre, ExpandInvariant, PTL DEF ExpandSpec

-----------------------------------------------------------------------------
(* The inspection of a web service *)


\* The types of the variables.
InspectTypeOK ==
    /\ site \in [Urls -> Responses \cup {NoAnswer}]
    /\ start \in Urls
    /\ url \in Urls
    /\ made \in 0..maxRequests
    /\ phase \in {"request", "returned"}

\* While requests are made fewer than three were and nothing is kept; afterwards
\* what is kept is what the last address asked answered.
InspectInv ==
    /\ InspectTypeOK
    /\ phase = "request" => made < maxRequests /\ metadata = Unread
    /\ phase = "returned" =>
        metadata = IF site[url] = NoAnswer THEN Unread ELSE Fingerprints(site[url])

LEMMA InspectInvInductive == InspectInv /\ [InspectNext]_inspectVars => InspectInv'
<1> SUFFICES ASSUME InspectInv, [InspectNext]_inspectVars PROVE InspectInv'
    OBVIOUS
<1> USE InspectAssumption DEF InspectAssumption
<1>1. CASE Follow
    <2>1. site[url] \in Response
        BY <1>1 DEF Follow, InspectInv, InspectTypeOK
    <2>2. site[url].to \in Urls
        BY <1>1, <2>1 DEF Follow, Response
    <2>3. QED
        BY <1>1, <2>2 DEF Follow, InspectInv, InspectTypeOK, maxRequests
<1>2. CASE Read
    <2>1. InspectTypeOK'
        BY <1>2 DEF Read, InspectInv, InspectTypeOK, maxRequests
    <2>2. metadata' = Fingerprints(site[url]) /\ site[url] # NoAnswer
        BY <1>2 DEF Read
    <2>3. Fingerprints(site[url])' = Fingerprints(site[url])
        BY <1>2 DEF Read, Fingerprints
    <2>4. QED
        BY <1>2, <2>1, <2>2, <2>3 DEF Read, InspectInv
<1>3. CASE Unanswered
    BY <1>3 DEF Unanswered, InspectInv, InspectTypeOK, maxRequests, Unread
<1>4. CASE UNCHANGED inspectVars
    BY <1>4 DEF inspectVars, InspectInv, InspectTypeOK, Fingerprints
<1>5. QED
    BY <1>1, <1>2, <1>3, <1>4 DEF InspectNext

LEMMA InspectInvariant == InspectSpec => []InspectInv
<1>1. InspectInit => InspectInv
    BY DEF InspectInit, InspectInv, InspectTypeOK, maxRequests
<1>2. QED
    BY <1>1, InspectInvInductive, PTL DEF InspectSpec

\* What was kept of an answer has an HTTP part: it is not the empty metadata.
LEMMA AnswersAreRead ==
    ASSUME InspectInv, phase = "returned", site[url] # NoAnswer
    PROVE  /\ site[url] \in Response
           /\ metadata = Fingerprints(site[url])
           /\ metadata.http \in HTTPFingerprint /\ metadata.http # NotRead
           /\ metadata # Unread
<1>1. site[url] \in Response
    BY InspectAssumption DEF InspectAssumption, InspectInv, InspectTypeOK
<1>2. metadata = Fingerprints(site[url])
    BY DEF InspectInv
<1>3. metadata.http \in HTTPFingerprint
    BY <1>1, <1>2 DEF Fingerprints, Scheme, Response, HTTPFingerprint
<1>4. QED
    BY <1>1, <1>2, <1>3, AnalysisAssumption DEF AnalysisAssumption, Unread

\* However the redirects lead, at most three requests are made, and metadata is
\* returned exactly when the last of them was answered.
THEOREM InspectionAlwaysBounded == InspectSpec => []InspectionIsBounded
<1>1. InspectInv => InspectionIsBounded
    <2>1. InspectInv => made <= maxRequests
        BY DEF InspectInv, InspectTypeOK, maxRequests
    <2>2. QED
        BY <2>1, AnswersAreRead DEF InspectInv, InspectionIsBounded, LastResponse
<1>2. QED
    BY <1>1, InspectInvariant, PTL

\* The findings of a service by where they come from, and the titles of each kind.
LEMMA FindingKinds ==
    /\ \A severity, title : Finding(severity, title).title = title
    /\ \A found, f : f \in FingerprintFindings(found) =>
        \/ found.http # NotRead /\ f \in LoginFindings(found.http)
        \/ found.tls # NotRead /\ f \in ExpiryFindings(found.tls.days)
        \/ f.title \in {"HSTS NOT OBSERVED", "X-CONTENT-TYPE-OPTIONS NOT OBSERVED",
                        "LEGACY TLS VERSION", "SELF-SIGNED TLS CERTIFICATE"}
    /\ \A fp, f : f \in LoginFindings(fp) =>
        /\ fp.scheme = "http"
        /\ \/ /\ fp.login \cap {"password-field", "challenge"} # {}
              /\ f = Finding("HIGH", "LOGIN SURFACE OVER HTTP")
           \/ f = Finding("MEDIUM", "POSSIBLE LOGIN SURFACE OVER HTTP")
    /\ \A days, f : f \in ExpiryFindings(days) =>
        \/ days < 0 /\ f = Finding("HIGH", "TLS CERTIFICATE EXPIRED")
        \/ days \in 0..30 /\ f = Finding("MEDIUM", "TLS CERTIFICATE EXPIRING SOON")
<1>1. \A severity, title : Finding(severity, title).title = title
    BY DEF Finding
<1>2. ASSUME NEW found, NEW f \in FingerprintFindings(found)
      PROVE  \/ found.http # NotRead /\ f \in LoginFindings(found.http)
             \/ found.tls # NotRead /\ f \in ExpiryFindings(found.tls.days)
             \/ f.title \in {"HSTS NOT OBSERVED", "X-CONTENT-TYPE-OPTIONS NOT OBSERVED",
                             "LEGACY TLS VERSION", "SELF-SIGNED TLS CERTIFICATE"}
    <2>1. \/ found.http # NotRead /\ f \in HTTPFindings(found.http)
          \/ found.tls # NotRead /\ f \in TLSFindings(found.tls)
        BY <1>2 DEF FingerprintFindings
    <2>2. CASE found.http # NotRead /\ f \in HTTPFindings(found.http)
        <3>1. \/ f \in LoginFindings(found.http)
              \/ f = Finding("LOW", "HSTS NOT OBSERVED")
              \/ f = Finding("INFO", "X-CONTENT-TYPE-OPTIONS NOT OBSERVED")
            BY <2>2 DEF HTTPFindings
        <3>2. QED
            BY <1>1, <2>2, <3>1
    <2>3. CASE found.tls # NotRead /\ f \in TLSFindings(found.tls)
        <3>1. \/ f \in ExpiryFindings(found.tls.days)
              \/ f = Finding("HIGH", "LEGACY TLS VERSION")
              \/ f = Finding("INFO", "SELF-SIGNED TLS CERTIFICATE")
            BY <2>3 DEF TLSFindings
        <3>2. QED
            BY <1>1, <2>3, <3>1
    <2>4. QED
        BY <2>1, <2>2, <2>3
<1>3. ASSUME NEW fp, NEW f \in LoginFindings(fp)
      PROVE  /\ fp.scheme = "http"
             /\ \/ /\ fp.login \cap {"password-field", "challenge"} # {}
                   /\ f = Finding("HIGH", "LOGIN SURFACE OVER HTTP")
                \/ f = Finding("MEDIUM", "POSSIBLE LOGIN SURFACE OVER HTTP")
    BY <1>3 DEF LoginFindings
<1>4. ASSUME NEW days, NEW f \in ExpiryFindings(days)
      PROVE  \/ days < 0 /\ f = Finding("HIGH", "TLS CERTIFICATE EXPIRED")
             \/ days \in 0..30 /\ f = Finding("MEDIUM", "TLS CERTIFICATE EXPIRING SOON")
    BY <1>4 DEF ExpiryFindings
<1>5. QED
    BY <1>1, <1>2, <1>3, <1>4

\* So a title tells what was found.
LEMMA TitleTells ==
    ASSUME NEW found, NEW f \in FingerprintFindings(found)
    PROVE  /\ f.title = "LOGIN SURFACE OVER HTTP" =>
                /\ found.http # NotRead /\ found.http.scheme = "http"
                /\ found.http.login \cap {"password-field", "challenge"} # {}
           /\ f.title = "TLS CERTIFICATE EXPIRED" => found.tls.days < 0
           /\ f.title = "TLS CERTIFICATE EXPIRING SOON" => found.tls.days \in 0..30
<1>1. \A severity, title : Finding(severity, title).title = title
    BY FindingKinds
<1>2. \/ found.http # NotRead /\ f \in LoginFindings(found.http)
      \/ found.tls # NotRead /\ f \in ExpiryFindings(found.tls.days)
      \/ f.title \in {"HSTS NOT OBSERVED", "X-CONTENT-TYPE-OPTIONS NOT OBSERVED",
                      "LEGACY TLS VERSION", "SELF-SIGNED TLS CERTIFICATE"}
    BY FindingKinds
<1>3. CASE found.http # NotRead /\ f \in LoginFindings(found.http)
    <2>1. /\ found.http.scheme = "http"
          /\ \/ /\ found.http.login \cap {"password-field", "challenge"} # {}
                /\ f = Finding("HIGH", "LOGIN SURFACE OVER HTTP")
             \/ f = Finding("MEDIUM", "POSSIBLE LOGIN SURFACE OVER HTTP")
        BY <1>3, FindingKinds
    <2>2. \/ /\ found.http.login \cap {"password-field", "challenge"} # {}
             /\ f.title = "LOGIN SURFACE OVER HTTP"
          \/ f.title = "POSSIBLE LOGIN SURFACE OVER HTTP"
        BY <1>1, <2>1, Zenon
    <2>3. QED
        BY <1>3, <2>1, <2>2, Zenon
<1>4. CASE f \in ExpiryFindings(found.tls.days)
    <2>1. \/ found.tls.days < 0 /\ f = Finding("HIGH", "TLS CERTIFICATE EXPIRED")
          \/ /\ found.tls.days \in 0..30
             /\ f = Finding("MEDIUM", "TLS CERTIFICATE EXPIRING SOON")
        BY <1>4, FindingKinds
    <2>2. \/ found.tls.days < 0 /\ f.title = "TLS CERTIFICATE EXPIRED"
          \/ found.tls.days \in 0..30 /\ f.title = "TLS CERTIFICATE EXPIRING SOON"
        BY <1>1, <2>1, Zenon
    <2>3. QED
        BY <2>2, Zenon
<1>5. CASE f.title \in {"HSTS NOT OBSERVED", "X-CONTENT-TYPE-OPTIONS NOT OBSERVED",
                       "LEGACY TLS VERSION", "SELF-SIGNED TLS CERTIFICATE"}
    BY <1>5, Zenon
<1>6. QED
    BY <1>2, <1>3, <1>4, <1>5

\* And the other way: what is due is among them.
LEMMA FindingsDue ==
    ASSUME NEW found
    PROVE  /\ found.http # NotRead /\ found.http.scheme = "http"
              /\ found.http.login \cap {"password-field", "challenge"} # {}
              => Finding("HIGH", "LOGIN SURFACE OVER HTTP") \in FingerprintFindings(found)
           /\ found.tls # NotRead /\ found.tls.days < 0 /\ ~(found.tls.days \in 0..30)
              => Finding("HIGH", "TLS CERTIFICATE EXPIRED") \in FingerprintFindings(found)
           /\ found.tls # NotRead /\ ~(found.tls.days < 0) /\ found.tls.days \in 0..30
              => Finding("MEDIUM", "TLS CERTIFICATE EXPIRING SOON")
                    \in FingerprintFindings(found)
<1>1. LoginFindings(found.http) \subseteq HTTPFindings(found.http)
    BY DEF HTTPFindings
<1>2. ExpiryFindings(found.tls.days) \subseteq TLSFindings(found.tls)
    BY DEF TLSFindings
<1>3. /\ found.http # NotRead => HTTPFindings(found.http) \subseteq FingerprintFindings(found)
      /\ found.tls # NotRead => TLSFindings(found.tls) \subseteq FingerprintFindings(found)
    BY DEF FingerprintFindings
<1>4. found.http.scheme = "http" /\ found.http.login \cap {"password-field", "challenge"} # {}
      => Finding("HIGH", "LOGIN SURFACE OVER HTTP") \in LoginFindings(found.http)
    BY DEF LoginFindings
<1>5. found.tls.days < 0 /\ ~(found.tls.days \in 0..30)
      => Finding("HIGH", "TLS CERTIFICATE EXPIRED") \in ExpiryFindings(found.tls.days)
    BY DEF ExpiryFindings
<1>6. ~(found.tls.days < 0) /\ found.tls.days \in 0..30
      => Finding("MEDIUM", "TLS CERTIFICATE EXPIRING SOON") \in ExpiryFindings(found.tls.days)
    BY DEF ExpiryFindings
<1>7. QED
    BY <1>1, <1>2, <1>3, <1>4, <1>5, <1>6

\* A login over HTTP is said of a port exactly when the port is a plain one and
\* the last response asks for credentials.
THEOREM LoginFindingAlwaysTellsPort == InspectSpec => []LoginFindingTellsPort
<1>1. ASSUME InspectInv, phase = "returned", site[url] # NoAnswer
      PROVE  Said("LOGIN SURFACE OVER HTTP") <=>
                /\ start \notin SecureUrls
                /\ site[url].login \cap {"password-field", "challenge"} # {}
    <2> DEFINE answer == site[url]
    <2>1. /\ metadata.http # NotRead
          /\ metadata.http.scheme = Scheme(start) /\ metadata.http.login = answer.login
        BY <1>1, AnswersAreRead DEF Fingerprints
    <2>2. ASSUME Said("LOGIN SURFACE OVER HTTP")
          PROVE  Scheme(start) = "http" /\ answer.login \cap {"password-field", "challenge"} # {}
        BY <2>1, <2>2, TitleTells DEF Said
    <2>3. ASSUME Scheme(start) = "http", answer.login \cap {"password-field", "challenge"} # {}
          PROVE  Said("LOGIN SURFACE OVER HTTP")
        <3>1. Finding("HIGH", "LOGIN SURFACE OVER HTTP") \in FingerprintFindings(metadata)
            BY <2>1, <2>3, FindingsDue
        <3>2. QED
            BY <3>1, FindingKinds DEF Said
    <2>4. QED
        BY <2>2, <2>3 DEF Scheme
<1>2. ASSUME InspectInv, phase = "returned", site[url] = NoAnswer
      PROVE  metadata.http = NotRead /\ ~Said("LOGIN SURFACE OVER HTTP")
    BY <1>2 DEF InspectInv, Unread, Said, FingerprintFindings
<1>3. InspectInv => LoginFindingTellsPort
    BY <1>1, <1>2, AnswersAreRead DEF LoginFindingTellsPort, LastResponse
<1>4. QED
    BY <1>3, InspectInvariant, PTL

\* int(hours / 24) is negative from the end of the first day after the end of a
\* certificate, and more than 30 from the 31st day before it on.
LEMMA DaysOfHours ==
    ASSUME NEW hours \in Int
    PROVE  /\ DaysRemaining(hours) \in Int
           /\ DaysRemaining(hours) < 0 <=> hours <= -24
           /\ DaysRemaining(hours) \in 0..30 <=> hours > -24 /\ hours < 31 * 24
<1>1. CASE hours >= 0
    BY <1>1 DEF DaysRemaining
<1>2. CASE hours < 0
    BY <1>2 DEF DaysRemaining
<1>3. QED
    BY <1>1, <1>2

\* A certificate is reported as expired or as expiring by its remaining hours, for
\* every lifetime.
THEOREM CertificateEndAlwaysReported == InspectSpec => []CertificateEndIsReported
<1>1. ASSUME InspectInv, phase = "returned", metadata.tls # NotRead
      PROVE  LET hours == site[url].cert.hours
             IN  /\ Said("TLS CERTIFICATE EXPIRED") <=> hours <= -24
                 /\ Said("TLS CERTIFICATE EXPIRING SOON") <=> hours > -24 /\ hours < 31 * 24
    <2> DEFINE hours == site[url].cert.hours
               days  == DaysRemaining(hours)
    <2>1. site[url] # NoAnswer
        BY <1>1 DEF InspectInv, Unread
    <2>2. hours \in Int
        BY <1>1, <2>1, AnswersAreRead DEF Response, Certificate
    <2>3. metadata.tls.days = days
        BY <1>1, <2>1, AnswersAreRead DEF Fingerprints
    <2>4. days \in Int /\ (days \in 0..30 => ~(days < 0))
        BY <2>2, DaysOfHours
    <2>5. ASSUME Said("TLS CERTIFICATE EXPIRED") PROVE days < 0
        BY <2>3, <2>5, TitleTells DEF Said
    <2>6. ASSUME Said("TLS CERTIFICATE EXPIRING SOON") PROVE days \in 0..30
        BY <2>3, <2>6, TitleTells DEF Said
    <2>7. /\ days < 0 => Said("TLS CERTIFICATE EXPIRED")
          /\ days \in 0..30 => Said("TLS CERTIFICATE EXPIRING SOON")
        <3>1. /\ days < 0 => Finding("HIGH", "TLS CERTIFICATE EXPIRED")
                                \in FingerprintFindings(metadata)
              /\ days \in 0..30 => Finding("MEDIUM", "TLS CERTIFICATE EXPIRING SOON")
                                    \in FingerprintFindings(metadata)
            BY <1>1, <2>3, <2>4, FindingsDue
        <3>2. QED
            BY <3>1, FindingKinds DEF Said
    <2>8. QED
        BY <2>2, <2>5, <2>6, <2>7, DaysOfHours
<1>2. InspectInv => CertificateEndIsReported
    BY <1>1 DEF CertificateEndIsReported, LastResponse
<1>3. QED
    BY <1>2, InspectInvariant, PTL
=============================================================================
