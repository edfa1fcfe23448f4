------------------------------ MODULE SumProofs ------------------------------
(***************************************************************************)
(* What the proofs of several components need of numbers: a finite set of  *)
(* numbers has a largest, what holds of 0 and passes from each number to   *)
(* the next holds of all, and SumFunction adds in any order.               *)
(***************************************************************************)
EXTENDS Integers, Functions, FiniteSetTheorems, TLAPS

-----------------------------------------------------------------------------
(* Finite sets of numbers *)

\* A finite set of numbers that is not empty has a largest element.
LEMMA FiniteSetHasMax ==
    ASSUME NEW S \in SUBSET Nat, IsFiniteSet(S), S # {}
    PROVE  \E m \in S : \A n \in S : n <= m
<1> DEFINE Bad == {T \in FiniteSubsetsOf(S) : T # {} /\ ~\E m \in T : \A n \in T : n <= m}
<1> SUFFICES Bad = {}
    <2>1. S \in FiniteSubsetsOf(S)
        BY DEF FiniteSubsetsOf
    <2>2. QED
        BY <2>1
<1> SUFFICES ASSUME Bad # {} PROVE FALSE
    OBVIOUS
<1>1. PICK T \in Bad : \A U \in Bad : <<U, T>> \notin StrictSubsetOrdering(S)
    <2>1. Bad \subseteq FiniteSubsetsOf(S)
        OBVIOUS
    <2>2. QED
        BY <2>1, FS_StrictSubsetOrderingWellFounded, WFMin
<1>2. T \subseteq S /\ T # {}
    BY DEF FiniteSubsetsOf
<1>3. PICK x \in T : TRUE
    BY <1>2
<1>4. T \ {x} \in FiniteSubsetsOf(S)
    BY <1>2, FS_FiniteSubsetsOfFinite DEF FiniteSubsetsOf
<1>5. <<T \ {x}, T>> \in StrictSubsetOrdering(S)
    BY <1>2, <1>3 DEF StrictSubsetOrdering
<1>6. T \ {x} \notin Bad
    BY <1>1, <1>5
<1>7. CASE T \ {x} = {}
    <2>1. T = {x}
        BY <1>3, <1>7
    <2>2. x <= x
        BY <1>2, <1>3
    <2>3. QED
        BY <2>1, <2>2
<1>8. CASE T \ {x} # {}
    <2>1. PICK m \in T \ {x} : \A n \in T \ {x} : n <= m
        BY <1>4, <1>6, <1>8
    <2>2. x \in Nat /\ m \in Nat /\ \A n \in T : n \in Nat
        BY <1>2, <1>3, <2>1
    <2>3. CASE x <= m
        BY <2>1, <2>3
    <2>4. CASE m <= x
        <3>1. \A n \in T : n <= x
            BY <2>1, <2>2, <2>4
        <3>2. QED
            BY <1>3, <3>1
    <2>5. QED
        BY <2>2, <2>3, <2>4
<1>9. QED
    BY <1>7, <1>8
-----------------------------------------------------------------------------
(* Sums over finite sets *)

\* Counting up: what holds of 0, and of n + 1 when it holds of n, holds of N.  W is
\* the set of the numbers it holds of.
LEMMA CountUp ==
    ASSUME NEW N \in Nat, NEW W \in SUBSET (0..N), 0 \in W,
           \A n \in W : n < N => n + 1 \in W
    PROVE  N \in W
<1>1. IsFiniteSet(W) /\ W \subseteq Nat
    <2>1. IsFiniteSet(0..N)
        BY FS_Interval
    <2>2. IsFiniteSet(W)
        BY <2>1, FS_Subset
    <2>3. QED
        BY <2>2
<1>2. PICK m \in W : \A n \in W : n <= m
    BY <1>1, FiniteSetHasMax
<1>3. CASE m < N
    BY <1>2, <1>3
<1>4. CASE ~(m < N)
    <2>1. m \in 0..N
        OBVIOUS
    <2>2. m = N
        BY <1>4, <2>1
    <2>3. QED
        BY <2>2
<1>5. QED
    BY <1>3, <1>4

\* The element a fold over a set takes first.
First(S) == CHOOSE x \in S : TRUE

\* h maps every part of D to the sum of g over it, as Folds computes it.
SumOf(h, g, D) ==
    h = [s \in SUBSET D |-> IF s = {} THEN 0 ELSE g[First(s)] + h[s \ {First(s)}]]

\* Taking the chosen element out of a finite set that is not empty.
LEMMA FirstOf ==
    ASSUME NEW S, IsFiniteSet(S), S # {}
    PROVE  /\ First(S) \in S
           /\ \A x \in S : Cardinality(S \ {x}) = Cardinality(S) - 1
           /\ Cardinality(S) \in Nat \ {0}
<1>1. First(S) \in S
    BY DEF First
<1>2. \A x \in S : Cardinality(S \ {x}) = Cardinality(S) - 1
    BY FS_RemoveElement
<1>3. Cardinality(S) \in Nat \ {0}
    BY FS_CardinalityType, FS_EmptySet
<1>4. QED
    BY <1>1, <1>2, <1>3

\* A finite set has its table of partial sums.
LEMMA SumExists ==
    ASSUME NEW D, IsFiniteSet(D), NEW g \in [D -> Nat]
    PROVE  \E h \in [SUBSET D -> Nat] : SumOf(h, g, D)
<1> DEFINE N == Cardinality(D)
           Right(h, s) == h[s] = IF s = {} THEN 0 ELSE g[First(s)] + h[s \ {First(s)}]
           W == {n \in 0..N : \E h \in [SUBSET D -> Nat] :
                    \A s \in SUBSET D : Cardinality(s) <= n => Right(h, s)}
<1>1. \A s \in SUBSET D : /\ Cardinality(s) \in Nat /\ Cardinality(s) <= N
                          /\ s # {} => /\ First(s) \in s
                                       /\ Cardinality(s \ {First(s)}) = Cardinality(s) - 1
                                       /\ Cardinality(s) # 0
    <2> SUFFICES ASSUME NEW s \in SUBSET D
                 PROVE  /\ Cardinality(s) \in Nat /\ Cardinality(s) <= N
                        /\ s # {} => /\ First(s) \in s
                                     /\ Cardinality(s \ {First(s)}) = Cardinality(s) - 1
                                     /\ Cardinality(s) # 0
        OBVIOUS
    <2>1. IsFiniteSet(s) /\ Cardinality(s) <= N /\ Cardinality(s) \in Nat /\ N \in Nat
        BY FS_Subset, FS_CardinalityType
    <2>2. QED
        BY <2>1, FirstOf
<1>2. N \in Nat
    BY FS_CardinalityType
<1>3. 0 \in W
    <2> DEFINE h == [s \in SUBSET D |-> 0]
    <2>1. h \in [SUBSET D -> Nat]
        OBVIOUS
    <2>2. ASSUME NEW s \in SUBSET D, Cardinality(s) <= 0 PROVE Right(h, s)
        <3>1. Cardinality(s) \in Nat /\ (s # {} => Cardinality(s) # 0)
            BY <1>1
        <3>2. s = {}
            BY <2>2, <3>1
        <3>3. QED
            BY <3>2
    <2> HIDE DEF h, Right
    <2>3. QED
        BY <1>2, <2>1, <2>2
<1>4. ASSUME NEW m \in W, m < N PROVE m + 1 \in W
    <2>1. PICK h \in [SUBSET D -> Nat] :
            \A s \in SUBSET D : Cardinality(s) <= m => Right(h, s)
        OBVIOUS
    <2> DEFINE new == [s \in SUBSET D |->
                        IF s = {} THEN 0 ELSE g[First(s)] + h[s \ {First(s)}]]
    <2>2. new \in [SUBSET D -> Nat]
        <3>1. ASSUME NEW s \in SUBSET D, s # {}
              PROVE  g[First(s)] + h[s \ {First(s)}] \in Nat
            <4>1. First(s) \in D /\ s \ {First(s)} \in SUBSET D
                BY <1>1, <3>1
            <4>2. g[First(s)] \in Nat /\ h[s \ {First(s)}] \in Nat
                BY <4>1
            <4>3. QED
                BY <4>2
        <3>2. QED
            BY <3>1
    <2>3. \A s \in SUBSET D : Cardinality(s) <= m => new[s] = h[s]
        BY <2>1
    <2>4. ASSUME NEW s \in SUBSET D, Cardinality(s) <= m + 1 PROVE Right(new, s)
        <3>1. CASE s = {}
            BY <3>1
        <3>2. CASE s # {}
            <4>1. m \in Nat /\ Cardinality(s) \in Nat /\ Cardinality(s) # 0
                <5>1. m \in Nat
                    BY <1>2
                <5>2. Cardinality(s) \in Nat /\ Cardinality(s) # 0
                    BY <1>1, <3>2
                <5>3. QED
                    BY <5>1, <5>2
            <4>2. s \ {First(s)} \in SUBSET D /\ Cardinality(s \ {First(s)}) <= m
                BY <1>1, <2>4, <3>2, <4>1
            <4>3. new[s \ {First(s)}] = h[s \ {First(s)}]
                BY <2>3, <4>2
            <4>4. QED
                BY <3>2, <4>3
        <3>3. QED
            BY <3>1, <3>2
    <2>5. m + 1 \in 0..N
        BY <1>2, <1>4
    <2>6. QED
        BY <2>2, <2>4, <2>5
<1>5. N \in W
    <2> HIDE DEF W, N
    <2>1. W \in SUBSET (0..N)
        BY DEF W
    <2>2. QED
        BY <1>2, <1>3, <1>4, <2>1, CountUp
<1>6. PICK h \in [SUBSET D -> Nat] : \A s \in SUBSET D : Cardinality(s) <= N => Right(h, s)
    BY <1>5
<1>7. \A s \in SUBSET D : Right(h, s)
    <2> HIDE DEF Right
    <2>1. QED
        BY <1>1, <1>6
<1>8. h = [s \in SUBSET D |-> IF s = {} THEN 0 ELSE g[First(s)] + h[s \ {First(s)}]]
    BY <1>7
<1>9. QED
    BY <1>8 DEF SumOf

\* Two tables agree on a set on which what they sum does.
LEMMA SumsAgree ==
    ASSUME NEW D1, NEW D2, NEW g1, NEW g2, NEW h1, NEW h2,
           SumOf(h1, g1, D1), SumOf(h2, g2, D2),
           NEW S, IsFiniteSet(S), S \subseteq D1, S \subseteq D2,
           \A x \in S : g1[x] = g2[x]
    PROVE  h1[S] = h2[S]
<1> DEFINE N == Cardinality(S)
           W == {n \in 0..N : \A T \in SUBSET S : Cardinality(T) <= n => h1[T] = h2[T]}
<1>1. ASSUME NEW T \in SUBSET S
      PROVE  /\ Cardinality(T) \in Nat /\ Cardinality(T) <= N
             /\ T = {} => h1[T] = 0 /\ h2[T] = 0
             /\ T # {} => LET x == First(T)
                          IN  /\ x \in T /\ Cardinality(T \ {x}) = Cardinality(T) - 1
                              /\ Cardinality(T) # 0
                              /\ h1[T] = g1[x] + h1[T \ {x}]
                              /\ h2[T] = g1[x] + h2[T \ {x}]
    <2>1. IsFiniteSet(T) /\ Cardinality(T) <= N /\ Cardinality(T) \in Nat
        BY FS_Subset, FS_CardinalityType
    <2>2. T \in SUBSET D1 /\ T \in SUBSET D2
        OBVIOUS
    <2>3. /\ h1[T] = IF T = {} THEN 0 ELSE g1[First(T)] + h1[T \ {First(T)}]
          /\ h2[T] = IF T = {} THEN 0 ELSE g2[First(T)] + h2[T \ {First(T)}]
        BY <2>2 DEF SumOf
    <2>4. T # {} => First(T) \in T /\ Cardinality(T \ {First(T)}) = Cardinality(T) - 1
                    /\ Cardinality(T) # 0
        BY <2>1, FirstOf
    <2>5. QED
        BY <2>1, <2>3, <2>4
<1>2. N \in Nat
    BY FS_CardinalityType
<1>3. 0 \in W
    <2>1. ASSUME NEW T \in SUBSET S, Cardinality(T) <= 0 PROVE h1[T] = h2[T]
        <3>1. Cardinality(T) \in Nat /\ (T # {} => Cardinality(T) # 0)
            BY <1>1
        <3>2. T = {}
            BY <2>1, <3>1
        <3>3. QED
            BY <1>1, <3>2
    <2>2. QED
        BY <1>2, <2>1
<1>4. ASSUME NEW m \in W, m < N PROVE m + 1 \in W
    <2>1. ASSUME NEW T \in SUBSET S, Cardinality(T) <= m + 1 PROVE h1[T] = h2[T]
        <3>1. CASE T = {}
            BY <1>1, <3>1
        <3>2. CASE T # {}
            <4>1. m \in Nat
                BY <1>2
            <4>2. T \ {First(T)} \in SUBSET S /\ Cardinality(T \ {First(T)}) <= m
                BY <1>1, <2>1, <3>2, <4>1
            <4>3. h1[T \ {First(T)}] = h2[T \ {First(T)}]
                BY <4>2
            <4>4. QED
                BY <1>1, <3>2, <4>3
        <3>3. QED
            BY <3>1, <3>2
    <2>2. m + 1 \in 0..N
        BY <1>2, <1>4
    <2>3. QED
        BY <2>1, <2>2
<1>5. N \in W
    <2> HIDE DEF W, N
    <2>1. W \in SUBSET (0..N)
        BY DEF W
    <2>2. QED
        BY <1>2, <1>3, <1>4, <2>1, CountUp
<1>6. S \in SUBSET S /\ Cardinality(S) <= N
    BY <1>2
<1>7. QED
    BY <1>5, <1>6

\* The order in which elements are taken does not matter.
LEMMA SumTakesAny ==
    ASSUME NEW D, IsFiniteSet(D), NEW g \in [D -> Nat],
           NEW h \in [SUBSET D -> Nat], SumOf(h, g, D),
           NEW S \in SUBSET D, NEW y \in S
    PROVE  h[S] = g[y] + h[S \ {y}]
<1> DEFINE N == Cardinality(D)
           Any(T) == \A x \in T : h[T] = g[x] + h[T \ {x}]
           W == {n \in 0..N : \A T \in SUBSET D : Cardinality(T) <= n => Any(T)}
<1>1. ASSUME NEW T \in SUBSET D
      PROVE  /\ Cardinality(T) \in Nat /\ Cardinality(T) <= N
             /\ h[T] \in Nat
             /\ T # {} => LET x == First(T)
                          IN  /\ x \in T /\ Cardinality(T) # 0
                              /\ h[T] = g[x] + h[T \ {x}]
             /\ \A x \in T : Cardinality(T \ {x}) = Cardinality(T) - 1 /\ g[x] \in Nat
    <2>1. IsFiniteSet(T) /\ Cardinality(T) <= N /\ Cardinality(T) \in Nat
        BY FS_Subset, FS_CardinalityType
    <2>2. h[T] = IF T = {} THEN 0 ELSE g[First(T)] + h[T \ {First(T)}]
        BY DEF SumOf
    <2>3. T # {} => First(T) \in T /\ Cardinality(T) # 0
        BY <2>1, FirstOf
    <2>4. \A x \in T : Cardinality(T \ {x}) = Cardinality(T) - 1 /\ g[x] \in Nat
        BY <2>1, FS_RemoveElement
    <2>5. QED
        BY <2>1, <2>2, <2>3, <2>4
<1>2. N \in Nat
    BY FS_CardinalityType
<1>3. 0 \in W
    <2>1. ASSUME NEW T \in SUBSET D, Cardinality(T) <= 0 PROVE Any(T)
        <3>1. Cardinality(T) \in Nat /\ (T # {} => Cardinality(T) # 0)
            BY <1>1
        <3>2. T = {}
            BY <2>1, <3>1
        <3>3. QED
            BY <3>2
    <2>2. QED
        BY <1>2, <2>1
<1>4. ASSUME NEW m \in W, m < N PROVE m + 1 \in W
    <2>1. m \in Nat
        BY <1>2
    <2>2. \A T \in SUBSET D : Cardinality(T) <= m => Any(T)
        OBVIOUS
    <2>3. ASSUME NEW T \in SUBSET D, Cardinality(T) <= m + 1, NEW x \in T
          PROVE  h[T] = g[x] + h[T \ {x}]
        <3> DEFINE c == First(T)
        <3>1. c \in T /\ h[T] = g[c] + h[T \ {c}]
            BY <1>1, <2>3
        <3>2. CASE x = c
            BY <3>1, <3>2
        <3>3. CASE x # c
            <4>1. /\ T \ {c} \in SUBSET D /\ Cardinality(T \ {c}) <= m /\ x \in T \ {c}
                  /\ T \ {x} \in SUBSET D /\ Cardinality(T \ {x}) <= m /\ c \in T \ {x}
                <5>1. Cardinality(T) \in Nat /\ Cardinality(T \ {c}) = Cardinality(T) - 1
                      /\ Cardinality(T \ {x}) = Cardinality(T) - 1
                    BY <1>1, <3>1
                <5>2. QED
                    BY <2>1, <2>3, <3>1, <3>3, <5>1
            <4>2. h[T \ {c}] = g[x] + h[(T \ {c}) \ {x}]
                BY <2>2, <4>1
            <4>3. h[T \ {x}] = g[c] + h[(T \ {x}) \ {c}]
                BY <2>2, <4>1
            <4>4. (T \ {c}) \ {x} = (T \ {x}) \ {c} /\ (T \ {x}) \ {c} \in SUBSET D
                OBVIOUS
            <4>5. g[x] \in Nat /\ g[c] \in Nat /\ h[(T \ {x}) \ {c}] \in Nat
                BY <3>1, <4>4
            <4> DEFINE rest == h[(T \ {x}) \ {c}]
            <4>6. /\ h[T] = g[c] + (g[x] + rest)
                  /\ h[T \ {x}] = g[c] + rest
                BY <3>1, <4>2, <4>3, <4>4
            <4>7. rest \in Nat
                BY <4>5
            <4> HIDE DEF c, rest
            <4>8. QED
                BY <4>5, <4>6, <4>7
        <3>4. QED
            BY <3>2, <3>3
    <2>4. m + 1 \in 0..N
        BY <1>2, <1>4
    <2>5. QED
        BY <2>3, <2>4
<1>5. N \in W
    <2> HIDE DEF W, N
    <2>1. W \in SUBSET (0..N)
        BY DEF W
    <2>2. QED
        BY <1>2, <1>3, <1>4, <2>1, CountUp
<1>6. Cardinality(S) <= N
    BY <1>1
<1>7. QED
    BY <1>5, <1>6

\* SumFunction is what the table says of the whole set.
LEMMA SumFunctionIs ==
    ASSUME NEW S, IsFiniteSet(S), NEW f \in [S -> Nat]
    PROVE  \E h \in [SUBSET S -> Nat] : SumOf(h, f, S) /\ SumFunction(f) = h[S]
<1> DEFINE Eq(h) == h = [s \in SUBSET S |->
                            IF s = {} THEN 0
                            ELSE LET x == CHOOSE x \in s : TRUE IN f[x] + h[s \ {x}]]
           iter == CHOOSE e : Eq(e)
<1>1. PICK h \in [SUBSET S -> Nat] : SumOf(h, f, S)
    BY SumExists
<1>2. \A e : Eq(e) <=> SumOf(e, f, S)
    BY DEF SumOf, First
<1>3. SumFunction(f) = iter[S]
    <2>1. DOMAIN f = S
        OBVIOUS
    <2>2. SumFunction(f) = SumFunctionOnSet(f, S)
        BY <2>1 DEF SumFunction
    <2>3. SumFunctionOnSet(f, S) = iter[S]
        BY DEF SumFunctionOnSet, FoldFunctionOnSet, MapThenFoldSet
    <2>4. QED
        BY <2>2, <2>3
<1>4. Eq(iter)
    <2> HIDE DEF Eq
    <2>1. Eq(h)
        BY <1>1, <1>2
    <2>2. QED
        BY <2>1 DEF iter
<1>5. SumOf(iter, f, S)
    BY <1>2, <1>4
<1> HIDE DEF iter, Eq
<1>6. iter[S] = h[S]
    <2>1. \A x \in S : f[x] = f[x]
        OBVIOUS
    <2>2. QED
        BY <1>1, <1>5, SumsAgree
<1>7. QED
    BY <1>1, <1>3, <1>6

\* A sum of natural numbers is one.
LEMMA SumIsNat ==
    ASSUME NEW S, IsFiniteSet(S), NEW f \in [S -> Nat]
    PROVE  SumFunction(f) \in Nat
<1>1. PICK h \in [SUBSET S -> Nat] : SumOf(h, f, S) /\ SumFunction(f) = h[S]
    BY SumFunctionIs
<1>2. QED
    BY <1>1

\* The empty sum.
LEMMA SumOfNothing ==
    ASSUME NEW f \in [{} -> Nat]
    PROVE  SumFunction(f) = 0
<1>1. PICK h \in [SUBSET {} -> Nat] : SumOf(h, f, {}) /\ SumFunction(f) = h[{}]
    BY SumFunctionIs, FS_EmptySet
<1>2. h[{}] = 0
    BY <1>1 DEF SumOf
<1>3. QED
    BY <1>1, <1>2

\* A sum is one of its numbers and the sum of the others.
LEMMA SumWithout ==
    ASSUME NEW S, IsFiniteSet(S), NEW f \in [S -> Nat], NEW x \in S
    PROVE  SumFunction(f) = f[x] + SumFunction([y \in S \ {x} |-> f[y]])
<1> DEFINE rest == [y \in S \ {x} |-> f[y]]
<1>1. PICK h \in [SUBSET S -> Nat] : SumOf(h, f, S) /\ SumFunction(f) = h[S]
    BY SumFunctionIs
<1>2. rest \in [S \ {x} -> Nat] /\ IsFiniteSet(S \ {x})
    BY FS_RemoveElement
<1>3. PICK e \in [SUBSET (S \ {x}) -> Nat] :
        SumOf(e, rest, S \ {x}) /\ SumFunction(rest) = e[S \ {x}]
    <2> HIDE DEF rest
    <2> QED
        BY <1>2, SumFunctionIs
<1>4. h[S \ {x}] = e[S \ {x}]
    <2>1. \A y \in S \ {x} : f[y] = rest[y]
        OBVIOUS
    <2> HIDE DEF rest
    <2>2. S \ {x} \subseteq S /\ S \ {x} \subseteq S \ {x}
        OBVIOUS
    <2>3. QED
        BY <1>1, <1>2, <1>3, <2>1, <2>2, SumsAgree
<1>5. h[S] = f[x] + h[S \ {x}]
    BY <1>1, SumTakesAny
<1>6. QED
    BY <1>1, <1>3, <1>4, <1>5

\* What a function makes of a finite set is finite.
LEMMA FiniteImage ==
    ASSUME NEW f, IsFiniteSet(DOMAIN f)
    PROVE  IsFiniteSet({f[x] : x \in DOMAIN f})
<1> DEFINE T == {f[x] : x \in DOMAIN f}
           g == [x \in DOMAIN f |-> f[x]]
<1>1. g \in Surjection(DOMAIN f, T)
    BY DEF Surjection
<1>2. QED
    BY <1>1, FS_Surjection

\* A number is at most the sum it is part of.
LEMMA SumAtLeastEach ==
    ASSUME NEW S, IsFiniteSet(S), NEW f \in [S -> Nat], NEW x \in S
    PROVE  f[x] <= SumFunction(f)
<1> DEFINE rest == [y \in S \ {x} |-> f[y]]
<1>1. SumFunction(f) = f[x] + SumFunction(rest)
    BY SumWithout
<1>2. rest \in [S \ {x} -> Nat] /\ IsFiniteSet(S \ {x})
    BY FS_RemoveElement
<1> HIDE DEF rest
<1>3. SumFunction(rest) \in Nat
    BY <1>2, SumIsNat
<1>4. QED
    BY <1>1, <1>3

\* In the table of sums over the parts of a finite set each element can be the first.
Adds(h, f, S) ==
    h[{}] = 0 /\ \A U \in SUBSET S : \A x \in U : h[U] = f[x] + h[U \ {x}]

LEMMA AddsAny ==
    ASSUME NEW h, NEW f, NEW S, Adds(h, f, S), NEW U \in SUBSET S, NEW x \in U
    PROVE  h[U] = f[x] + h[U \ {x}]
BY DEF Adds

LEMMA SumTable ==
    ASSUME NEW S, IsFiniteSet(S), NEW f \in [S -> Nat]
    PROVE  \E h \in [SUBSET S -> Nat] : Adds(h, f, S) /\ SumFunction(f) = h[S]
<1>1. PICK h \in [SUBSET S -> Nat] : SumOf(h, f, S) /\ SumFunction(f) = h[S]
    BY SumFunctionIs
<1>2. SumOf(h, f, S) /\ SumFunction(f) = h[S]
    BY <1>1
<1>3. h[{}] = 0
    BY <1>2 DEF SumOf
<1>4. SumOf(h, f, S)
    BY <1>2
<1>5. ASSUME NEW U \in SUBSET S, NEW x \in U PROVE h[U] = f[x] + h[U \ {x}]
    BY <1>4, SumTakesAny
<1>6. Adds(h, f, S)
    BY <1>3, <1>5 DEF Adds
<1>7. QED
    BY <1>2, <1>6

\* A sum whose numbers are among those of another, each at a place of its own, is at
\* most the other.
LEMMA SumOfSome ==
    ASSUME NEW S, IsFiniteSet(S), NEW f \in [S -> Nat],
           NEW T, IsFiniteSet(T), NEW g \in [T -> Nat],
           NEW place \in [S -> T],
           \A x, y \in S : place[x] = place[y] => x = y,
           \A x \in S : f[x] = g[place[x]]
    PROVE  SumFunction(f) <= SumFunction(g)
<1>1. PICK hf \in [SUBSET S -> Nat] : Adds(hf, f, S) /\ SumFunction(f) = hf[S]
    BY SumTable
<1>2. PICK hg \in [SUBSET T -> Nat] : Adds(hg, g, T) /\ SumFunction(g) = hg[T]
    BY SumTable
<1> DEFINE N == Cardinality(S)
           Fits(U, V) == \A x \in U : place[x] \in V
           W == {n \in 0..N : \A U \in SUBSET S, V \in SUBSET T :
                    Cardinality(U) <= n /\ Fits(U, V) => hf[U] <= hg[V]}
<1>3. N \in Nat
    BY FS_CardinalityType
<1>4. ASSUME NEW U \in SUBSET S
      PROVE  /\ IsFiniteSet(U) /\ Cardinality(U) \in Nat /\ Cardinality(U) <= N
             /\ Cardinality(U) <= 0 => U = {}
    <2>1. IsFiniteSet(U) /\ Cardinality(U) <= N
        BY FS_Subset
    <2>2. QED
        BY <2>1, FS_CardinalityType, FS_EmptySet
<1>5. \A V \in SUBSET T : hf[{}] <= hg[V]
    BY <1>1, <1>2 DEF Adds
<1>6. 0 \in W
    <2>1. ASSUME NEW U \in SUBSET S, Cardinality(U) <= 0 PROVE U = {}
        BY <1>4, <2>1
    <2>2. \A U \in SUBSET S, V \in SUBSET T : Cardinality(U) <= 0 => hf[U] <= hg[V]
        BY <1>5, <2>1
    <2>3. 0 \in 0..N
        BY <1>3
    <2>4. QED
        BY <2>2, <2>3
<1>7. ASSUME NEW m \in W, m < N PROVE m + 1 \in W
    <2>1. m \in Nat /\ m + 1 \in 0..N
        BY <1>3, <1>7
    <2>2. ASSUME NEW U \in SUBSET S, NEW V \in SUBSET T,
                 Cardinality(U) <= m + 1, Fits(U, V)
          PROVE  hf[U] <= hg[V]
        <3>1. CASE U = {}
            BY <1>5, <3>1
        <3>2. ASSUME NEW x \in U PROVE hf[U] <= hg[V]
            <4>1. /\ place[x] \in V /\ place[x] \in T /\ x \in S
                  /\ f[x] = g[place[x]] /\ g[place[x]] \in Nat
                BY <2>2, <3>2
            <4>2. hf[U] = f[x] + hf[U \ {x}]
                BY <1>1, <3>2, AddsAny
            <4>3. hg[V] = g[place[x]] + hg[V \ {place[x]}]
                BY <1>2, <4>1 DEF Adds
            <4>4. U \ {x} \in SUBSET S /\ V \ {place[x]} \in SUBSET T
                OBVIOUS
            <4>5. Cardinality(U \ {x}) <= m
                <5>1. IsFiniteSet(U) /\ Cardinality(U) \in Nat
                    BY <1>4
                <5>2. Cardinality(U \ {x}) = Cardinality(U) - 1
                    BY <3>2, <5>1, FS_RemoveElement
                <5>3. QED
                    BY <2>1, <2>2, <5>1, <5>2
            <4>6. Fits(U \ {x}, V \ {place[x]})
                BY <2>2, <3>2
            <4>7. hf[U \ {x}] <= hg[V \ {place[x]}]
                BY <4>4, <4>5, <4>6
            <4>8. hf[U \ {x}] \in Nat /\ hg[V \ {place[x]}] \in Nat
                BY <4>4
            <4>9. QED
                BY <4>1, <4>2, <4>3, <4>7, <4>8
        <3>3. QED
            BY <3>1, <3>2
    <2>3. QED
        BY <2>1, <2>2
<1>8. N \in W
    <2> HIDE DEF W, N
    <2>1. W \in SUBSET (0..N)
        BY DEF W
    <2>2. QED
        BY <1>3, <1>6, <1>7, <2>1, CountUp
<1>9. Cardinality(S) <= N /\ Fits(S, T) /\ S \in SUBSET S /\ T \in SUBSET T
    BY <1>3
<1>10. hf[S] <= hg[T]
    BY <1>8, <1>9
<1>11. QED
    BY <1>1, <1>2, <1>10

\* Two functions that differ in one place have sums that differ by what they do there.
LEMMA SumDiffersAt ==
    ASSUME NEW S, IsFiniteSet(S), NEW f \in [S -> Nat], NEW g \in [S -> Nat], NEW x \in S,
           \A y \in S \ {x} : g[y] = f[y]
    PROVE  /\ SumFunction(f) \in Nat /\ SumFunction(g) \in Nat
           /\ SumFunction(g) = SumFunction(f) - f[x] + g[x]
<1> DEFINE others == [y \in S \ {x} |-> f[y]]
<1>1. SumFunction(f) = f[x] + SumFunction(others)
    BY SumWithout
<1>2. SumFunction(g) = g[x] + SumFunction([y \in S \ {x} |-> g[y]])
    BY SumWithout
<1>3. [y \in S \ {x} |-> g[y]] = others
    OBVIOUS
<1>4. others \in [S \ {x} -> Nat] /\ IsFiniteSet(S \ {x})
    BY FS_RemoveElement
<1> HIDE DEF others
<1>5. SumFunction(others) \in Nat
    BY <1>4, SumIsNat
<1>6. f[x] \in Nat /\ g[x] \in Nat
    OBVIOUS
<1>7. QED
    BY <1>1, <1>2, <1>3, <1>5, <1>6
=============================================================================
