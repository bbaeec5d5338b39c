---------------------------- MODULE NumbersProofs ---------------------------
(***************************************************************************)
(* Theorems about Numbers, for words of 4, 8, 16 and 32 bits: the          *)
(* conversions are inverse to each other, and the compute programs compute *)
(* what they are named for, wherever nothing overflows.                    *)
(*                                                                         *)
(* The only state is the argument; the work is in the functions.  Those    *)
(* that recur are shown to have the equation by which they are defined     *)
(* (Recursion), and facts about all numbers come from the smallest         *)
(* counterexample (Least, Induction): sets and functions take the place of *)
(* the predicates of the library's induction theorems.                     *)
(***************************************************************************)
EXTENDS Numbers, TLAPS, WellFoundedInduction, SequenceTheorems

-----------------------------------------------------------------------------
(* Induction and recursion.                                                  *)

\* A set of natural numbers has a smallest element.
LEMMA Least ==
  ASSUME NEW T \in SUBSET Nat, T # {}
  PROVE  \E k \in T : \A m \in T : k <= m
<1> DEFINE R == OpToRel(<, Nat)
<1>1. IsWellFoundedOn(R, Nat)
  BY NatLessThanWellFounded
<1>2. R = {ss \in Nat \X Nat : ss[1] < ss[2]}
  BY DEF OpToRel
<1> HIDE DEF R
<1>3. PICK k \in T : \A m \in T : ~ (<< m, k >> \in R)
  BY <1>1, WFMin
<1>4. \A m, j \in Nat : m < j => << m, j >> \in R
  BY <1>2
<1>5. ASSUME NEW m \in T PROVE k <= m
  <2>1. m \in Nat /\ k \in Nat /\ ~(m < k)
    BY <1>3, <1>4
  <2> QED
    BY <2>1
<1> QED
  BY <1>5

\* A set that has each number whose predecessors it has is Nat.
LEMMA Induction ==
  ASSUME NEW T, \A k \in Nat : (\A m \in Nat : m < k => m \in T) => k \in T
  PROVE  \A k \in Nat : k \in T
<1> DEFINE U == {k \in Nat : k \notin T}
<1>1. CASE U = {}
  BY <1>1
<1>2. CASE U # {}
  <2>1. PICK k \in U : \A m \in U : k <= m
    <3>1. U \in SUBSET Nat
      OBVIOUS
    <3> HIDE DEF U
    <3> QED
      BY <1>2, <3>1, Least
  <2>2. \A m \in Nat : m < k => m \in T
    BY <2>1
  <2> QED
    BY <2>1, <2>2
<1> QED
  BY <1>1, <1>2

\* f is given by first below b, and from b on by its value at an earlier number.
Solves(f, b, first, next, prev) ==
  \A k \in Nat : f[k] = IF k < b THEN first[k] ELSE next[<< k, f[prev[k]] >>]

Descends(prev, b) == \A k \in Nat : k >= b => prev[k] < k

\* There is such a function.
LEMMA Recursion ==
  ASSUME NEW S, NEW b \in Nat, NEW first \in [Nat -> S], NEW next \in [Nat \X S -> S],
         NEW prev \in [Nat -> Nat], Descends(prev, b)
  PROVE  \E f \in [Nat -> S] : Solves(f, b, first, next, prev)
<1>0. \A k \in Nat : k >= b => prev[k] < k
  BY DEF Descends
<1> DEFINE Right(g, m) ==
             \A k \in Nat : k <= m =>
               g[k] = IF k < b THEN first[k] ELSE next[<< k, g[prev[k]] >>]
<1>1. ASSUME NEW g \in [Nat -> S], NEW h \in [Nat -> S], NEW m \in Nat, NEW j \in Nat,
             Right(g, m), Right(h, j)
      PROVE  \A k \in Nat : k <= m /\ k <= j => g[k] = h[k]
  <2> DEFINE T == {k \in Nat : k <= m /\ k <= j => g[k] = h[k]}
  <2>1. ASSUME NEW k \in Nat, \A i \in Nat : i < k => i \in T, k <= m, k <= j
        PROVE  g[k] = h[k]
    <3>1. CASE k < b
      BY <1>1, <2>1, <3>1
    <3>2. CASE ~(k < b)
      <4>1. prev[k] < k /\ prev[k] \in Nat
        BY <1>0, <3>2
      <4>2. g[prev[k]] = h[prev[k]]
        BY <2>1, <4>1
      <4>3. /\ g[k] = next[<< k, g[prev[k]] >>]
            /\ h[k] = next[<< k, h[prev[k]] >>]
        BY <1>1, <2>1, <3>2
      <4> QED
        BY <4>2, <4>3
    <3> QED
      BY <3>1, <3>2
  <2>2. \A k \in Nat : (\A i \in Nat : i < k => i \in T) => k \in T
    BY <2>1
  <2> HIDE DEF T
  <2>3. \A k \in Nat : k \in T
    BY <2>2, Induction
  <2> QED
    BY <2>3 DEF T
<1>2. \A m \in Nat : \E g \in [Nat -> S] : Right(g, m)
  <2> DEFINE T == {m \in Nat : \E g \in [Nat -> S] : Right(g, m)}
  <2>1. ASSUME NEW m \in Nat, \A i \in Nat : i < m => i \in T
        PROVE  m \in T
    <3>1. CASE m = 0
      <4>1. CASE 0 < b
        <5>1. Right(first, 0)
          BY <4>1
        <5> QED
          BY <3>1, <5>1
      <4>2. CASE ~(0 < b)
        BY <1>0, <4>2
      <4> QED
        BY <4>1, <4>2
    <3>2. CASE m # 0
      <4>1. m - 1 \in Nat /\ m - 1 < m
        BY <3>2
      <4>2. PICK g \in [Nat -> S] : Right(g, m - 1)
        BY <2>1, <4>1
      <4> DEFINE v == IF m < b THEN first[m] ELSE next[<< m, g[prev[m]] >>]
                 h == [g EXCEPT ![m] = v]
      <4>3. v \in S
        OBVIOUS
      <4> HIDE DEF v
      <4>4. h \in [Nat -> S] /\ h[m] = v /\ \A k \in Nat : k # m => h[k] = g[k]
        BY <4>3
      <4> HIDE DEF h
      <4>5. Right(h, m)
        <5>1. ASSUME NEW k \in Nat, k <= m
              PROVE  h[k] = IF k < b THEN first[k] ELSE next[<< k, h[prev[k]] >>]
          <6>1. k >= b => prev[k] \in Nat /\ prev[k] < k /\ h[prev[k]] = g[prev[k]]
            BY <1>0, <4>4, <5>1
          <6>2. CASE k = m
            BY <4>4, <6>1, <6>2 DEF v
          <6>3. CASE k # m
            <7>1. k <= m - 1 /\ h[k] = g[k]
              BY <4>4, <5>1, <6>3
            <7>2. g[k] = IF k < b THEN first[k] ELSE next[<< k, g[prev[k]] >>]
              BY <4>2, <7>1
            <7> QED
              BY <6>1, <7>1, <7>2
          <6> QED
            BY <6>2, <6>3
        <5> QED
          BY <5>1
      <4> QED
        BY <4>4, <4>5
    <3> QED
      BY <3>1, <3>2
  <2> HIDE DEF T
  <2>2. \A m \in Nat : m \in T
    BY <2>1, Induction
  <2> QED
    BY <2>2 DEF T
<1> DEFINE upTo(m) == CHOOSE g \in [Nat -> S] : Right(g, m)
           f == [m \in Nat |-> upTo(m)[m]]
<1>3. \A m \in Nat : upTo(m) \in [Nat -> S] /\ Right(upTo(m), m)
  BY <1>2
<1> HIDE DEF upTo, Right
<1>4. f \in [Nat -> S] /\ \A m \in Nat : f[m] = upTo(m)[m]
  BY <1>3
<1> HIDE DEF f
<1>5. ASSUME NEW k \in Nat
      PROVE  f[k] = IF k < b THEN first[k] ELSE next[<< k, f[prev[k]] >>]
  <2>1. upTo(k) \in [Nat -> S] /\ Right(upTo(k), k)
    BY <1>3
  <2>2. upTo(k)[k] = IF k < b THEN first[k] ELSE next[<< k, upTo(k)[prev[k]] >>]
    BY <2>1 DEF Right
  <2>3. ASSUME k >= b PROVE f[prev[k]] = upTo(k)[prev[k]]
    <3>1. prev[k] \in Nat /\ prev[k] <= k
      BY <1>0, <2>3
    <3>2. upTo(prev[k]) \in [Nat -> S] /\ Right(upTo(prev[k]), prev[k])
      BY <1>3, <3>1
    <3>3. upTo(prev[k])[prev[k]] = upTo(k)[prev[k]]
      BY <1>1, <2>1, <3>1, <3>2
    <3> QED
      BY <1>4, <3>1, <3>3
  <2> QED
    BY <1>4, <2>2, <2>3
<1> QED
  BY <1>4, <1>5 DEF Solves

-----------------------------------------------------------------------------
(* Quotients and remainders.                                                 *)

\* Quotient and remainder of a division.
LEMMA Division ==
  ASSUME NEW a \in Nat, NEW d \in Nat \ {0}
  PROVE  /\ a \div d \in Nat /\ a % d \in 0 .. d - 1
         /\ a = d * (a \div d) + (a % d)
BY SMT

\* There is only one way to divide.
LEMMA Unique ==
  ASSUME NEW d \in Nat \ {0}, NEW q \in Nat, NEW r \in 0 .. d - 1
  PROVE  (d * q + r) \div d = q /\ (d * q + r) % d = r
<1> DEFINE a == d * q + r
           k == a \div d
           s == a % d
<1>1. a \in Nat
  BY SMT
<1>2. k \in Nat /\ s \in 0 .. d - 1 /\ a = d * k + s
  BY <1>1, Division
<1>3. d * q + r = d * k + s
  BY <1>2
<1> HIDE DEF k, s
<1>4. ~(q < k)
  <2> SUFFICES ASSUME q < k PROVE FALSE
    OBVIOUS
  <2>1. d * k >= d * (q + 1)
    BY <1>2, SMT
  <2>2. d * (q + 1) = d * q + d
    BY SMT
  <2> QED
    BY <1>2, <1>3, <2>1, <2>2, SMT
<1>5. ~(k < q)
  <2> SUFFICES ASSUME k < q PROVE FALSE
    OBVIOUS
  <2>1. d * q >= d * (k + 1)
    BY <1>2, SMT
  <2>2. d * (k + 1) = d * k + d
    BY <1>2, SMT
  <2> QED
    BY <1>2, <1>3, <2>1, <2>2, SMT
<1>6. k = q
  BY <1>2, <1>4, <1>5
<1>7. s = r
  <2>1. d * q + r = d * q + s
    BY <1>3, <1>6
  <2>2. d * q \in Nat
    BY SMT
  <2> QED
    BY <1>2, <2>1, <2>2
<1> QED
  BY <1>6, <1>7 DEF k, s

\* A multiple leaves no remainder.
LEMMA Multiple ==
  ASSUME NEW a \in Nat, NEW d \in Nat \ {0}
  PROVE  a % d = 0 <=> \E q \in Nat : a = d * q
<1>1. ASSUME a % d = 0 PROVE \E q \in Nat : a = d * q
  <2> DEFINE k == a \div d
  <2>1. k \in Nat /\ a = d * k + (a % d)
    BY Division
  <2> HIDE DEF k
  <2>2. a = d * k
    BY <1>1, <2>1, SMT
  <2> QED
    BY <2>1, <2>2
<1>2. ASSUME NEW q \in Nat, a = d * q PROVE a % d = 0
  <2>1. 0 \in 0 .. d - 1 /\ d * q + 0 = a
    BY <1>2, SMT
  <2> QED
    BY <2>1, Unique
<1> QED
  BY <1>1, <1>2

\* No divisor is larger than the number.
LEMMA DivisorBound ==
  ASSUME NEW a \in Nat \ {0}, NEW d \in Nat \ {0}, a % d = 0
  PROVE  d <= a
BY SMT

-----------------------------------------------------------------------------
(* P4: gcd() by subtraction.                                                 *)

Common(a, b) == {d \in Nat \ {0} : a % d = 0 /\ b % d = 0}

\* Subtracting the smaller from the larger changes no common divisor.
LEMMA CommonMinus ==
  ASSUME NEW a \in Nat, NEW b \in Nat, a > b
  PROVE  a - b \in Nat /\ Common(a - b, b) = Common(a, b)
<1>1. a - b \in Nat
  OBVIOUS
<1>2. ASSUME NEW d \in Nat \ {0}, b % d = 0
      PROVE  (a - b) % d = 0 <=> a % d = 0
  <2>1. PICK m \in Nat : b = d * m
    BY <1>2, Multiple
  <2>2. ASSUME NEW k \in Nat, a = d * k PROVE \E j \in Nat : a - b = d * j
    <3>1. k >= m
      <4> SUFFICES ASSUME k < m PROVE FALSE
        OBVIOUS
      <4>1. d * k <= d * m
        BY SMT
      <4> QED
        BY <2>1, <2>2, <4>1
    <3>2. d * (k - m) = d * k - d * m
      BY SMT
    <3> QED
      BY <2>1, <2>2, <3>1, <3>2
  <2>3. ASSUME NEW j \in Nat, a - b = d * j PROVE \E k \in Nat : a = d * k
    <3>1. d * (j + m) = d * j + d * m
      BY SMT
    <3>2. a = d * j + d * m
      BY <2>1, <2>3
    <3> QED
      BY <3>1, <3>2
  <2> QED
    BY <1>1, <2>2, <2>3, Multiple
<1> QED
  BY <1>1, <1>2 DEF Common

\* The order does not matter.
LEMMA CommonSwap == \A a, b : Common(a, b) = Common(b, a)
BY DEF Common

\* g is the greatest number that divides both.
IsGreatest(g, a, b) == g \in Common(a, b) /\ \A d \in Common(a, b) : d <= g

\* What gcd() returns when x and y are the same.
LEMMA GreatestOfSame ==
  ASSUME NEW a \in Nat \ {0}
  PROVE  \A g : IsGreatest(g, a, a) <=> g = a
<1>1. a \in Common(a, a)
  <2>1. a = a * 1
    OBVIOUS
  <2> QED
    BY <2>1, Multiple DEF Common
<1>2. \A d \in Common(a, a) : d <= a
  BY DivisorBound DEF Common
<1>3. ASSUME NEW g, IsGreatest(g, a, a) PROVE g = a
  <2>1. g \in Nat /\ g <= a /\ a <= g
    BY <1>1, <1>2, <1>3 DEF IsGreatest, Common
  <2> QED
    BY <2>1
<1> QED
  BY <1>1, <1>2, <1>3 DEF IsGreatest

\* The equation by which gcd is defined: it has a solution, the greatest common
\* divisor (and 0 for arguments with which the code does not end).
LEMMA GcdEquation ==
  gcd = [p \in Nat \X Nat |->
           IF Same(p[1], p[2]) THEN p[1]
           ELSE IF p[1] > p[2] THEN gcd[<< p[1] - p[2], p[2] >>] ELSE gcd[<< p[1], p[2] - p[1] >>]]
<1> DEFINE Greatest(a, b) == CHOOSE g : IsGreatest(g, a, b)
           G == [p \in Nat \X Nat |-> IF p[1] = 0 \/ p[2] = 0 THEN 0 ELSE Greatest(p[1], p[2])]
<1>1. ASSUME NEW a \in Nat \ {0} PROVE Greatest(a, a) = a
  BY GreatestOfSame
<1>2. ASSUME NEW a \in Nat, NEW b \in Nat, a > b
      PROVE  Greatest(a - b, b) = Greatest(a, b) /\ Greatest(b, a - b) = Greatest(b, a)
  <2>1. Common(a - b, b) = Common(a, b) /\ Common(b, a - b) = Common(b, a)
    BY <1>2, CommonMinus, CommonSwap
  <2>2. /\ \A g : IsGreatest(g, a - b, b) <=> IsGreatest(g, a, b)
        /\ \A g : IsGreatest(g, b, a - b) <=> IsGreatest(g, b, a)
    BY <2>1 DEF IsGreatest
  <2> QED
    BY <2>2
<1> HIDE DEF Greatest
<1>3. \A a, b \in Nat : G[<< a, b >>] = IF a = 0 \/ b = 0 THEN 0 ELSE Greatest(a, b)
  OBVIOUS
<1>4. ASSUME NEW a \in Nat, NEW b \in Nat
      PROVE  G[<< a, b >>] = IF Same(a, b) THEN a
                             ELSE IF a > b THEN G[<< a - b, b >>] ELSE G[<< a, b - a >>]
  <2>1. CASE a = b
    BY <1>1, <1>3, <2>1 DEF Same
  <2>2. CASE a > b
    <3>1. a - b \in Nat /\ a - b # 0 /\ a # 0 /\ a # b
      BY <2>2
    <3>2. Greatest(a - b, b) = Greatest(a, b)
      BY <1>2, <2>2
    <3> QED
      BY <1>3, <2>2, <3>1, <3>2 DEF Same
  <2>3. CASE b > a
    <3>1. b - a \in Nat /\ b - a # 0 /\ b # 0 /\ a # b /\ ~(a > b)
      BY <2>3
    <3>2. Greatest(a, b - a) = Greatest(a, b)
      BY <1>2, <2>3
    <3> QED
      BY <1>3, <3>1, <3>2 DEF Same
  <2> QED
    BY <2>1, <2>2, <2>3
<1> HIDE DEF G
<1>5. G = [p \in Nat \X Nat |->
             IF Same(p[1], p[2]) THEN p[1]
             ELSE IF p[1] > p[2] THEN G[<< p[1] - p[2], p[2] >>] ELSE G[<< p[1], p[2] - p[1] >>]]
  <2>1. G = [p \in Nat \X Nat |-> G[p]]
    BY DEF G
  <2>2. ASSUME NEW p \in Nat \X Nat
        PROVE  G[p] = IF Same(p[1], p[2]) THEN p[1]
                      ELSE IF p[1] > p[2] THEN G[<< p[1] - p[2], p[2] >>]
                           ELSE G[<< p[1], p[2] - p[1] >>]
    <3>1. p = << p[1], p[2] >> /\ p[1] \in Nat /\ p[2] \in Nat
      OBVIOUS
    <3> QED
      BY <1>4, <3>1
  <2> QED
    BY <2>1, <2>2
<1> QED
  BY <1>5, Zenon DEF gcd

\* It has no other: by induction on the sum of the arguments, which becomes less.
LEMMA GcdIsGreatest ==
  ASSUME NEW a \in Nat \ {0}, NEW b \in Nat \ {0}
  PROVE  IsGreatest(gcd[<< a, b >>], a, b)
<1> DEFINE T == {k \in Nat : \A m, j \in Nat \ {0} : m + j = k =>
                                  IsGreatest(gcd[<< m, j >>], m, j)}
<1>1. ASSUME NEW k \in Nat, \A i \in Nat : i < k => i \in T,
             NEW m \in Nat \ {0}, NEW j \in Nat \ {0}, m + j = k
      PROVE  IsGreatest(gcd[<< m, j >>], m, j)
  <2>1. gcd[<< m, j >>] = IF Same(m, j) THEN m
                          ELSE IF m > j THEN gcd[<< m - j, j >>] ELSE gcd[<< m, j - m >>]
    BY GcdEquation, Zenon
  <2>2. CASE m = j
    BY <2>1, <2>2, GreatestOfSame DEF Same
  <2>3. CASE m > j
    <3>1. m - j \in Nat \ {0} /\ (m - j) + j \in Nat /\ (m - j) + j < k /\ m # j
      BY <1>1, <2>3
    <3>2. IsGreatest(gcd[<< m - j, j >>], m - j, j)
      BY <1>1, <3>1
    <3>3. Common(m - j, j) = Common(m, j)
      BY <2>3, CommonMinus
    <3> QED
      BY <2>1, <2>3, <3>1, <3>2, <3>3 DEF Same, IsGreatest
  <2>4. CASE j > m
    <3>1. j - m \in Nat \ {0} /\ m + (j - m) \in Nat /\ m + (j - m) < k /\ m # j /\ ~(m > j)
      BY <1>1, <2>4
    <3>2. IsGreatest(gcd[<< m, j - m >>], m, j - m)
      BY <1>1, <3>1
    <3>3. Common(m, j - m) = Common(m, j)
      BY <2>4, CommonMinus, CommonSwap
    <3> QED
      BY <2>1, <3>1, <3>2, <3>3 DEF Same, IsGreatest
  <2> QED
    BY <2>2, <2>3, <2>4
<1>2. \A k \in Nat : (\A i \in Nat : i < k => i \in T) => k \in T
  BY <1>1
<1> HIDE DEF T
<1>3. a + b \in T
  BY <1>2, Induction
<1> QED
  BY <1>3 DEF T

\* For all arguments but 0, gcd() ends with the greatest common divisor.
THEOREM GcdRightHolds == Spec => []GcdRight
<1>1. GcdRight
  <2> SUFFICES ASSUME x \in Lo .. Hi - 1, NEW y \in Lo .. Hi - 1
               PROVE  LET g == gcd[<< x, y >>]
                      IN  /\ x % g = 0 /\ y % g = 0
                          /\ \A d \in g + 1 .. x : x % d # 0 \/ y % d # 0
    BY DEF GcdRight
  <2>1. x \in Nat \ {0} /\ y \in Nat \ {0}
    BY NumbersAssumption
  <2> DEFINE g == gcd[<< x, y >>]
  <2>2. IsGreatest(g, x, y)
    BY <2>1, GcdIsGreatest
  <2> HIDE DEF g
  <2>3. g \in Nat \ {0} /\ x % g = 0 /\ y % g = 0
    BY <2>2 DEF IsGreatest, Common
  <2>4. ASSUME NEW d \in g + 1 .. x PROVE x % d # 0 \/ y % d # 0
    <3>1. d \in Nat \ {0} /\ ~(d <= g)
      BY <2>1, <2>3
    <3> QED
      BY <2>2, <3>1 DEF IsGreatest, Common
  <2> QED
    BY <2>3, <2>4 DEF g
<1> QED
  BY <1>1, PTL

-----------------------------------------------------------------------------
(* Words.                                                                    *)

Word == 2 ^ Width
Root == 2 ^ (Width \div 2) - 1

\* What the four word sizes have in common.
LEMMA Sizes ==
  /\ Word \in Nat /\ Word >= 16 /\ Word <= 4294967296 /\ MaxInt \in Nat /\ MinInt = -MaxInt - 1
  /\ Word = 2 * (MaxInt + 1)
  /\ Root \in Nat /\ Root >= 3 /\ Root % 2 = 1 /\ Root * Root < Word
<1>1. CASE Width = 4
  <2>1. Word = 16 /\ MaxInt = 7 /\ Root = 3
    BY <1>1 DEF Word, MaxInt, Root
  <2> QED
    BY <2>1 DEF MinInt
<1>2. CASE Width = 8
  <2>1. Word = 256 /\ MaxInt = 127 /\ Root = 15
    BY <1>2 DEF Word, MaxInt, Root
  <2> QED
    BY <2>1 DEF MinInt
<1>3. CASE Width = 16
  <2>1. Word = 65536 /\ MaxInt = 32767 /\ Root = 255
    BY <1>3 DEF Word, MaxInt, Root
  <2> QED
    BY <2>1 DEF MinInt
<1>4. CASE Width = 32
  <2>1. Word = 4294967296 /\ MaxInt = 2147483647 /\ Root = 65535
    BY <1>4 DEF Word, MaxInt, Root
  <2> QED
    BY <2>1 DEF MinInt
<1> QED
  BY <1>1, <1>2, <1>3, <1>4, NumbersAssumption

\* What fits in a word is not changed.
LEMMA SmallUInt32 ==
  ASSUME NEW v \in Nat, v < Word
  PROVE  UInt32(v) = v
<1>1. v \in 0 .. Word - 1 /\ Word \in Nat \ {0} /\ Word * 0 + v = v
  BY Sizes
<1>2. v % Word = v
  BY <1>1, Unique
<1> QED
  BY <1>2 DEF UInt32, Word

\* The values of an unsigned word.
LEMMA UInt32Type == \A v \in Int : UInt32(v) \in Nat /\ UInt32(v) < Word
BY Sizes DEF UInt32, Word

\* What is an int is not changed.
LEMMA SmallInt32 ==
  ASSUME NEW v \in MinInt .. MaxInt
  PROVE  Int32(v) = v
<1>1. /\ v - MinInt \in 0 .. Word - 1 /\ Word \in Nat \ {0}
      /\ Word * 0 + (v - MinInt) = v - MinInt
  BY Sizes
<1>2. (v - MinInt) % Word = v - MinInt
  BY <1>1, Unique
<1> QED
  BY <1>2, Sizes DEF Int32, Word

\* The values of an int.
LEMMA Int32Type == \A v \in Int : Int32(v) \in MinInt .. MaxInt
<1> SUFFICES ASSUME NEW v \in Int PROVE Int32(v) \in MinInt .. MaxInt
  OBVIOUS
<1>1. (v - MinInt) % Word \in 0 .. Word - 1
  BY Sizes
<1> QED
  BY <1>1, Sizes DEF Int32, Word

\* The type invariant: the argument is an int.
LEMMA Argument == Spec => [](x \in MinInt .. MaxInt)
<1>1. Init => x \in MinInt .. MaxInt
  BY Sizes DEF Init
<1>2. x \in MinInt .. MaxInt /\ [NextArgument]_x => (x \in MinInt .. MaxInt)'
  BY Sizes DEF NextArgument
<1> QED
  BY <1>1, <1>2, PTL DEF Spec

-----------------------------------------------------------------------------
(* P3: is_prime() tries odd divisors up to the root.                         *)

\* The smallest element, when it is known.
LEMMA LeastIs ==
  ASSUME NEW T \in SUBSET Nat, NEW j \in T, \A m \in T : j <= m
  PROVE  (CHOOSE k \in T : \A m \in T : k <= m) = j
<1>1. \A k \in T : (\A m \in T : k <= m) => k = j
  OBVIOUS
<1> QED
  BY <1>1

\* The loop may go on for ever with a divisor that is never tried by the program; the
\* equation by which it is defined has a solution all the same.
LEMMA TriedEquation ==
  ASSUME NEW a \in Nat
  PROVE  Tried(a) = [d \in Nat |-> IF ~Tries(d, a) THEN 1
                                   ELSE IF a % d = 0 THEN 0 ELSE Tried(a)[d + 2]]
<1> DEFINE Stop(d) == ~Tries(d, a) \/ a % d = 0
           K(d) == {k \in Nat : Stop(d + 2 * k)}
           least(T) == CHOOSE k \in T : \A m \in T : k <= m
           Result(d) == IF ~Tries(d, a) THEN 1 ELSE 0
           F == [d \in Nat |-> IF K(d) = {} THEN 0 ELSE Result(d + 2 * least(K(d)))]
<1> HIDE DEF Stop, Result
<1>1. ASSUME NEW d \in Nat, Stop(d) PROVE F[d] = Result(d)
  <2>1. 0 \in K(d)
    BY <1>1
  <2>2. K(d) \in SUBSET Nat /\ \A m \in K(d) : 0 <= m
    OBVIOUS
  <2>3. least(K(d)) = 0
    <3> HIDE DEF K
    <3> QED
      BY <2>1, <2>2, LeastIs
  <2> HIDE DEF K, least
  <2> QED
    BY <2>1, <2>3
<1>2. ASSUME NEW d \in Nat, ~Stop(d) PROVE F[d] = F[d + 2]
  <2>1. \A k \in Nat : k \in K(d + 2) <=> k + 1 \in K(d)
    <3>1. \A k \in Nat : (d + 2) + 2 * k = d + 2 * (k + 1)
      OBVIOUS
    <3> QED
      BY <3>1
  <2>2. 0 \notin K(d)
    BY <1>2
  <2>3. K(d) \in SUBSET Nat /\ K(d + 2) \in SUBSET Nat
    OBVIOUS
  <2> HIDE DEF K
  <2>4. CASE K(d + 2) = {}
    <3>1. ASSUME NEW k \in K(d) PROVE FALSE
      <4>1. k \in Nat /\ k # 0
        BY <2>2, <2>3
      <4>2. k - 1 \in Nat /\ (k - 1) + 1 = k
        BY <4>1
      <4> QED
        BY <2>1, <2>4, <4>2
    <3> QED
      BY <2>4, <3>1
  <2>5. CASE K(d + 2) # {}
    <3>1. PICK j \in K(d + 2) : \A m \in K(d + 2) : j <= m
      BY <2>3, <2>5, Least
    <3>2. j \in Nat /\ j + 1 \in K(d)
      BY <2>1, <2>3
    <3>3. ASSUME NEW m \in K(d) PROVE j + 1 <= m
      <4>1. m \in Nat /\ m # 0
        BY <2>2, <2>3
      <4>2. m - 1 \in Nat /\ (m - 1) + 1 = m
        BY <4>1
      <4>3. m - 1 \in K(d + 2)
        BY <2>1, <4>2
      <4> QED
        BY <3>1, <3>2, <4>1, <4>3
    <3>4. least(K(d + 2)) = j /\ least(K(d)) = j + 1
      BY <2>3, <3>1, <3>2, <3>3, LeastIs
    <3> HIDE DEF least
    <3>5. (d + 2) + 2 * j = d + 2 * (j + 1)
      BY <3>2
    <3>6. K(d) # {}
      BY <3>2
    <3>7. F[d] = Result(d + 2 * (j + 1))
      BY <3>4, <3>6
    <3>8. F[d + 2] = Result((d + 2) + 2 * j)
      BY <2>5, <3>4
    <3> QED
      BY <3>5, <3>7, <3>8
  <2> QED
    BY <2>4, <2>5
<1>3. F = [d \in Nat |-> F[d]]
  OBVIOUS
<1> HIDE DEF F
<1>4. \A d \in Nat : F[d] = IF ~Tries(d, a) THEN 1 ELSE IF a % d = 0 THEN 0 ELSE F[d + 2]
  BY <1>1, <1>2 DEF Stop, Result
<1>5. F = [d \in Nat |-> IF ~Tries(d, a) THEN 1 ELSE IF a % d = 0 THEN 0 ELSE F[d + 2]]
  BY <1>3, <1>4
<1> QED
  BY <1>5, Zenon DEF Tried

\* Squares grow with the root.
LEMMA Squares ==
  ASSUME NEW a \in Nat, NEW b \in Nat, a <= b
  PROVE  a * a \in Nat /\ a * a <= b * b
<1>1. a * a <= a * b
  BY SMT
<1>2. a * b <= b * b
  BY SMT
<1> QED
  BY <1>1, <1>2, SMT

\* What the loop finds from an odd d on: whether a has no odd divisor from there up
\* to its root.
LEMMA TriedRight ==
  ASSUME NEW a \in Nat, a < Root * Root, NEW d \in Nat, d % 2 = 1, d <= Root
  PROVE  Tried(a)[d] = 1 <=> \A e \in d .. Root : e % 2 = 1 /\ e * e <= a => a % e # 0
<1> DEFINE Right(k) == Tried(a)[k] = 1 <=>
                         \A e \in k .. Root : e % 2 = 1 /\ e * e <= a => a % e # 0
           T == {i \in Nat : \A k \in Nat : i = Root - k /\ k % 2 = 1 => Right(k)}
<1>0. \A k \in Nat : k <= Root => (Tries(k, a) <=> k * k <= a)
  <2> SUFFICES ASSUME NEW k \in Nat, k <= Root PROVE Tries(k, a) <=> k * k <= a
    OBVIOUS
  <2>1. k * k \in Nat /\ k * k < Word
    BY Sizes, Squares
  <2> QED
    BY <2>1, SmallUInt32 DEF Tries
<1>1. ASSUME NEW i \in Nat, \A m \in Nat : m < i => m \in T,
             NEW k \in Nat, i = Root - k, k % 2 = 1
      PROVE  Right(k)
  <2>1. k <= Root
    BY <1>1, Sizes
  <2>2. Tried(a)[k] = IF k * k > a THEN 1 ELSE IF a % k = 0 THEN 0 ELSE Tried(a)[k + 2]
    <3>1. Tried(a)[k] = IF ~Tries(k, a) THEN 1 ELSE IF a % k = 0 THEN 0 ELSE Tried(a)[k + 2]
      BY TriedEquation, Zenon
    <3>2. k * k \in Nat /\ (Tries(k, a) <=> k * k <= a)
      BY <1>0, <2>1
    <3> QED
      BY <3>1, <3>2
  <2>3. CASE k * k > a
    <3>1. ASSUME NEW e \in k .. Root PROVE ~(e * e <= a)
      <4>1. e \in Nat /\ k <= e /\ k * k <= e * e /\ e * e \in Nat /\ k * k \in Nat
        BY Sizes, Squares
      <4> QED
        BY <2>3, <4>1
    <3> QED
      BY <2>2, <2>3, <3>1
  <2>4. CASE k * k <= a /\ a % k = 0
    <3>1. Tried(a)[k] = 0
      BY <2>2, <2>4
    <3>2. k \in k .. Root
      BY <2>1, Sizes
    <3> QED
      BY <1>1, <2>4, <3>1, <3>2
  <2>5. CASE k * k <= a /\ a % k # 0
    <3>1. Tried(a)[k] = Tried(a)[k + 2]
      BY <2>2, <2>5
    <3>2. k # Root
      BY <2>5, Sizes
    <3>3. k + 2 \in Nat /\ k + 2 <= Root /\ (k + 2) % 2 = 1
      BY <1>1, <2>1, <3>2, Sizes
    <3>4. Right(k + 2)
      <4>1. Root - (k + 2) \in Nat /\ Root - (k + 2) < i
        BY <1>1, <3>3, Sizes
      <4>2. Root - (k + 2) \in T
        <5> HIDE DEF T
        <5> QED
          BY <1>1, <4>1
      <4>3. \A j \in Nat : Root - (k + 2) = Root - j /\ j % 2 = 1 => Right(j)
        BY <4>2
      <4> HIDE DEF Right
      <4> QED
        BY <3>3, <4>3
    <3>5. ASSUME NEW e \in k .. Root, e # k, e % 2 = 1 PROVE e \in k + 2 .. Root
      <4>1. e \in Nat /\ e >= k + 1 /\ e <= Root
        BY <3>5, Sizes
      <4>2. (k + 1) % 2 = 0
        BY <1>1
      <4>3. e # k + 1
        BY <3>5, <4>2
      <4> QED
        BY <4>1, <4>3, Sizes
    <3>6. \A e \in k + 2 .. Root : e \in k .. Root
      BY Sizes
    <3> QED
      BY <2>5, <3>1, <3>4, <3>5, <3>6
  <2> QED
    BY <2>3, <2>4, <2>5
<1>2. \A i \in Nat : (\A m \in Nat : m < i => m \in T) => i \in T
  BY <1>1
<1> HIDE DEF T
<1>3. Root - d \in Nat /\ Root - d \in T
  BY <1>2, Induction, Sizes
<1> QED
  BY <1>3 DEF T

\* An odd number that has a divisor has an odd one, not above its root.
LEMMA SmallDivisor ==
  ASSUME NEW a \in Nat, a % 2 = 1, NEW d \in Nat, 2 <= d, d < a, a % d = 0
  PROVE  \E e \in 3 .. d : e % 2 = 1 /\ e * e <= a /\ a % e = 0
<1>1. PICK q \in Nat : a = d * q
  BY Multiple
<1>2. d % 2 = 1 /\ q % 2 = 1
  <2>1. ASSUME NEW u \in Nat, NEW v \in Nat, a = u * v PROVE u % 2 = 1
    <3>1. CASE u % 2 = 0
      <4>1. PICK k \in Nat : u = 2 * k
        BY <3>1, Multiple
      <4>2. a = 2 * (k * v) /\ k * v \in Nat
        BY <2>1, <4>1, SMT
      <4>3. a % 2 = 0
        BY <4>2, Multiple
      <4> QED
        BY <4>3
    <3>2. u % 2 \in {0, 1}
      OBVIOUS
    <3> QED
      BY <3>1, <3>2
  <2>2. a = q * d
    BY <1>1
  <2> QED
    BY <1>1, <2>1, <2>2
<1>3. d >= 3 /\ q >= 3
  <2>1. q # 0 /\ q # 1
    BY <1>1
  <2>2. d # 2 /\ q # 2
    BY <1>2
  <2> QED
    BY <2>1, <2>2
<1>4. a % q = 0
  <2>1. a = q * d /\ q \in Nat \ {0}
    BY <1>1, <1>3
  <2>2. \E k \in Nat : a = q * k
    BY <2>1
  <2> QED
    BY <2>1, <2>2, Multiple
<1>5. CASE d <= q
  <2>1. d * d <= d * q
    BY <1>5, SMT
  <2> QED
    BY <1>1, <1>2, <1>3, <2>1
<1>6. CASE q < d
  <2>1. q * q <= d * q
    BY <1>6, SMT
  <2> QED
    BY <1>1, <1>2, <1>3, <1>4, <1>6, <2>1
<1> QED
  BY <1>5, <1>6

\* is_prime() of one argument.
LEMMA IsPrimeRight ==
  ASSUME NEW a \in Nat, a < Root * Root
  PROVE  is_prime(a) = 1 <=> a >= 2 /\ \A d \in 2 .. Root : d < a => a % d # 0
<1>1. CASE a % 2 = 0 \/ a < 2
  <2>1. is_prime(a) = 1 <=> a = 2
    BY <1>1 DEF is_prime
  <2>2. a > 2 => 2 \in 2 .. Root /\ 2 < a /\ a % 2 = 0
    BY <1>1, Sizes
  <2>3. a = 2 => \A d \in 2 .. Root : ~(d < a)
    BY Sizes
  <2> QED
    BY <2>1, <2>2, <2>3
<1>2. CASE a % 2 = 1 /\ a >= 2
  <2>1. is_prime(a) = Tried(a)[3]
    BY <1>2 DEF is_prime
  <2>2. Tried(a)[3] = 1 <=> \A e \in 3 .. Root : e % 2 = 1 /\ e * e <= a => a % e # 0
    <3>1. 3 \in Nat /\ 3 % 2 = 1 /\ 3 <= Root
      BY Sizes
    <3> QED
      BY <3>1, TriedRight
  <2>3. ASSUME NEW d \in 2 .. Root, d < a, a % d = 0
        PROVE  \E e \in 3 .. Root : e % 2 = 1 /\ e * e <= a /\ a % e = 0
    <3>1. d \in Nat /\ 2 <= d /\ d <= Root
      BY Sizes
    <3>2. \E e \in 3 .. d : e % 2 = 1 /\ e * e <= a /\ a % e = 0
      BY <1>2, <2>3, <3>1, SmallDivisor
    <3>3. \A e \in 3 .. d : e \in 3 .. Root
      BY <3>1, Sizes
    <3> QED
      BY <3>2, <3>3
  <2>4. ASSUME NEW e \in 3 .. Root, e * e <= a
        PROVE  e \in 2 .. Root /\ e < a
    <3>1. e \in Nat /\ e >= 3
      BY Sizes
    <3>2. e * e >= 3 * e /\ e * e \in Nat
      BY <3>1, SMT
    <3>3. e < a
      BY <2>4, <3>1, <3>2
    <3> QED
      BY <3>1, <3>3, Sizes
  <2> QED
    BY <1>2, <2>1, <2>2, <2>3, <2>4
<1>3. a % 2 \in {0, 1}
  OBVIOUS
<1> QED
  BY <1>1, <1>2, <1>3

\* Below the square of the largest divisor whose square is a word, is_prime() tells
\* which numbers are prime.
THEOREM PrimeRightHolds == Spec => []PrimeRight
<1>1. x \in MinInt .. MaxInt => PrimeRight
  <2> SUFFICES ASSUME x \in MinInt .. MaxInt,
                      UInt32(x) < Root * Root
               PROVE  is_prime(UInt32(x)) = 1 <=>
                        /\ UInt32(x) >= 2
                        /\ \A d \in 2 .. Root : d < UInt32(x) => UInt32(x) % d # 0
    BY DEF PrimeRight, Root
  <2>1. x \in Int
    BY Sizes
  <2>2. UInt32(x) \in Nat
    BY <2>1, UInt32Type
  <2> QED
    BY <2>2, IsPrimeRight
<1> QED
  BY <1>1, Argument, PTL

-----------------------------------------------------------------------------
(* P5: weight() adds digits until there is one.                              *)

\* Dividing twice is dividing by the product.
LEMMA DivDiv ==
  ASSUME NEW a \in Nat, NEW m \in Nat \ {0}, NEW k \in Nat \ {0}
  PROVE  m * k \in Nat \ {0} /\ (a \div m) \div k = a \div (m * k)
<1> DEFINE q == a \div m
           r == a % m
           p == q \div k
           s == q % k
<1>1. q \in Nat /\ r \in 0 .. m - 1 /\ a = m * q + r
  BY Division
<1>2. p \in Nat /\ s \in 0 .. k - 1 /\ q = k * p + s
  BY <1>1, Division
<1> HIDE DEF q, r, p, s
<1>3. m * k \in Nat \ {0}
  BY SMT
<1>4. m * s \in Nat /\ m * s <= m * (k - 1)
  BY <1>2, SMT
<1>5. m * (k - 1) = m * k - m
  BY SMT
<1>6. m * s + r \in 0 .. m * k - 1
  BY <1>1, <1>3, <1>4, <1>5
<1>7. m * q = (m * k) * p + m * s
  BY <1>2, SMT
<1>8. a = (m * k) * p + (m * s + r)
  <2> DEFINE u == m * q
             v == (m * k) * p
             w == m * s
  <2>1. v \in Nat /\ w \in Nat
    BY <1>2, <1>3, SMT
  <2>2. a = u + r /\ u = v + w
    BY <1>1, <1>7
  <2> HIDE DEF u, v, w
  <2>3. a = v + (w + r)
    BY <1>1, <2>1, <2>2
  <2> QED
    BY <2>3 DEF v, w
<1>9. ((m * k) * p + (m * s + r)) \div (m * k) = p
  BY <1>2, <1>3, <1>6, Unique
<1> QED
  BY <1>3, <1>8, <1>9 DEF p, q

\* A quotient is less than the dividend.
LEMMA Smaller ==
  ASSUME NEW a \in Nat \ {0}, NEW d \in Nat, d >= 2
  PROVE  a \div d \in Nat /\ a \div d < a
<1> DEFINE q == a \div d
<1>1. q \in Nat /\ a % d \in Nat /\ a = d * q + (a % d)
  BY Division
<1> HIDE DEF q
<1>2. d * q >= 2 * q
  BY <1>1, SMT
<1>3. d * q \in Nat
  BY <1>1, SMT
<1>4. q < a
  BY <1>1, <1>2, <1>3
<1> QED
  BY <1>1, <1>4 DEF q

\* Dividing by a larger number.
LEMMA BelowDivisor ==
  ASSUME NEW d \in Nat \ {0}, NEW a \in Nat, a < d
  PROVE  a \div d = 0 /\ a % d = a
<1>1. a \in 0 .. d - 1 /\ d * 0 + a = a
  OBVIOUS
<1> QED
  BY <1>1, Unique

\* The sum of the digits, from that of the digits before the last.
LEMMA DigitSumStep ==
  ASSUME NEW B \in Nat, B >= 2
  PROVE  /\ DigitSum(B) \in [Nat -> Nat]
         /\ \A a \in Nat : a < B => DigitSum(B)[a] = a
         /\ \A a \in Nat : DigitSum(B)[a] = (a % B) + DigitSum(B)[a \div B]
<1> DEFINE first == [k \in Nat |-> k]
           next == [p \in Nat \X Nat |-> (p[1] % B) + p[2]]
           prev == [k \in Nat |-> k \div B]
<1>1. first \in [Nat -> Nat] /\ next \in [Nat \X Nat -> Nat]
  OBVIOUS
<1>2. prev \in [Nat -> Nat] /\ Descends(prev, B)
  BY Smaller, Division DEF Descends
<1>3. \A k, v \in Nat : next[<< k, v >>] = (k % B) + v
  OBVIOUS
<1>4. \A k \in Nat : first[k] = k /\ prev[k] = k \div B
  OBVIOUS
<1> HIDE DEF first, next, prev
<1>5. PICK f \in [Nat -> Nat] : Solves(f, B, first, next, prev)
  BY <1>1, <1>2, Recursion
<1>6. f = [a \in Nat |-> IF a < B THEN a ELSE (a % B) + f[a \div B]]
  <2>1. ASSUME NEW a \in Nat PROVE f[a] = IF a < B THEN a ELSE (a % B) + f[a \div B]
    <3>1. f[a] = IF a < B THEN first[a] ELSE next[<< a, f[prev[a]] >>]
      BY <1>5, Zenon DEF Solves
    <3>2. prev[a] \in Nat /\ prev[a] = a \div B /\ first[a] = a
      BY <1>2, <1>4
    <3>3. next[<< a, f[prev[a]] >>] = (a % B) + f[prev[a]]
      BY <1>3, <1>5, <3>2
    <3> QED
      BY <3>1, <3>2, <3>3
  <2> QED
    BY <2>1
<1>7. DigitSum(B) = [a \in Nat |-> IF a < B THEN a ELSE (a % B) + DigitSum(B)[a \div B]]
  BY <1>6, Zenon DEF DigitSum
<1> DEFINE D == DigitSum(B)
<1>8. \A a \in Nat : D[a] = IF a < B THEN a ELSE (a % B) + D[a \div B]
  BY <1>7, Zenon
<1>9. D = [a \in Nat |-> D[a]]
  BY <1>7
<1> HIDE DEF D
<1>10. \A a \in Nat : D[a] \in Nat
  <2> DEFINE T == {a \in Nat : D[a] \in Nat}
  <2>1. ASSUME NEW a \in Nat, \A m \in Nat : m < a => m \in T PROVE a \in T
    <3>1. CASE a < B
      BY <1>8, <3>1
    <3>2. CASE ~(a < B)
      <4>1. a \div B \in Nat /\ a \div B < a /\ a % B \in Nat
        BY <3>2, Smaller, Division
      <4>2. D[a \div B] \in Nat
        BY <2>1, <4>1
      <4> QED
        BY <1>8, <3>2, <4>1, <4>2
    <3> QED
      BY <3>1, <3>2
  <2> HIDE DEF T
  <2>2. \A a \in Nat : a \in T
    BY <2>1, Induction
  <2> QED
    BY <2>2 DEF T
<1>11. \A a \in Nat : a < B => (a % B) + D[a \div B] = a
  <2> SUFFICES ASSUME NEW a \in Nat, a < B PROVE (a % B) + D[a \div B] = a
    OBVIOUS
  <2>1. a \div B = 0 /\ a % B = a /\ D[0] = 0
    BY <1>8, BelowDivisor
  <2> QED
    BY <2>1
<1> QED
  BY <1>8, <1>9, <1>10, <1>11 DEF D

\* The masked value, from that of the higher fields.
LEMMA MaskedStep ==
  ASSUME NEW B \in Nat, B >= 2
  PROVE  /\ Masked(B) \in [Nat -> Nat]
         /\ Masked(B)[0] = 0
         /\ \A a \in Nat : Masked(B)[a] = (a % B) + B * B * Masked(B)[a \div (B * B)]
<1> DEFINE first == [k \in Nat |-> k]
           next == [p \in Nat \X Nat |-> (p[1] % B) + B * B * p[2]]
           prev == [k \in Nat |-> k \div (B * B)]
<1>0. B * B \in Nat /\ B * B >= 2 /\ B * B >= B
  BY SMT
<1>1. first \in [Nat -> Nat] /\ next \in [Nat \X Nat -> Nat]
  BY <1>0, SMT
<1>2. prev \in [Nat -> Nat] /\ Descends(prev, B)
  BY <1>0, Smaller, Division DEF Descends
<1>3. \A k, v \in Nat : next[<< k, v >>] = (k % B) + B * B * v
  OBVIOUS
<1>4. \A k \in Nat : first[k] = k /\ prev[k] = k \div (B * B)
  OBVIOUS
<1> HIDE DEF first, next, prev
<1>5. PICK f \in [Nat -> Nat] : Solves(f, B, first, next, prev)
  BY <1>1, <1>2, Recursion
<1>6. f = [a \in Nat |-> IF a < B THEN a ELSE (a % B) + B * B * f[a \div (B * B)]]
  <2>1. ASSUME NEW a \in Nat
        PROVE  f[a] = IF a < B THEN a ELSE (a % B) + B * B * f[a \div (B * B)]
    <3>1. f[a] = IF a < B THEN first[a] ELSE next[<< a, f[prev[a]] >>]
      BY <1>5, Zenon DEF Solves
    <3>2. prev[a] \in Nat /\ prev[a] = a \div (B * B) /\ first[a] = a
      BY <1>2, <1>4
    <3>3. next[<< a, f[prev[a]] >>] = (a % B) + B * B * f[prev[a]]
      BY <1>3, <1>5, <3>2
    <3> QED
      BY <3>1, <3>2, <3>3
  <2> QED
    BY <2>1
<1>7. Masked(B) = [a \in Nat |-> IF a < B THEN a
                                 ELSE (a % B) + B * B * Masked(B)[a \div (B * B)]]
  BY <1>6, Zenon DEF Masked
<1> DEFINE D == Masked(B)
<1>8. \A a \in Nat : D[a] = IF a < B THEN a ELSE (a % B) + B * B * D[a \div (B * B)]
  BY <1>7, Zenon
<1>9. D = [a \in Nat |-> D[a]]
  BY <1>7
<1> HIDE DEF D
<1>10. \A a \in Nat : D[a] \in Nat
  <2> DEFINE T == {a \in Nat : D[a] \in Nat}
  <2>1. ASSUME NEW a \in Nat, \A m \in Nat : m < a => m \in T PROVE a \in T
    <3>1. CASE a < B
      BY <1>8, <3>1
    <3>2. CASE ~(a < B)
      <4>1. a \div (B * B) \in Nat /\ a \div (B * B) < a /\ a % B \in Nat
        BY <1>0, <3>2, Smaller, Division
      <4>2. D[a \div (B * B)] \in Nat
        BY <2>1, <4>1
      <4>3. B * B * D[a \div (B * B)] \in Nat
        BY <1>0, <4>2, SMT
      <4> QED
        BY <1>8, <3>2, <4>1, <4>3
    <3> QED
      BY <3>1, <3>2
  <2> HIDE DEF T
  <2>2. \A a \in Nat : a \in T
    BY <2>1, Induction
  <2> QED
    BY <2>2 DEF T
<1>11. D[0] = 0
  BY <1>8
<1>12. \A a \in Nat : a < B => (a % B) + B * B * D[a \div (B * B)] = a
  <2> SUFFICES ASSUME NEW a \in Nat, a < B PROVE (a % B) + B * B * D[a \div (B * B)] = a
    OBVIOUS
  <2>1. a \div (B * B) = 0 /\ a % B = a
    BY <1>0, BelowDivisor
  <2>2. B * B * D[a \div (B * B)] = 0
    BY <1>0, <1>11, <2>1, SMT
  <2> QED
    BY <2>1, <2>2
<1> QED
  BY <1>8, <1>9, <1>10, <1>11, <1>12 DEF D

\* A line of weight() adds the two halves of each field.
LEMMA PairedStep ==
  ASSUME NEW B \in Nat, B >= 2, NEW a \in Nat
  PROVE  /\ Paired(a, B) \in Nat
         /\ Paired(0, B) = 0
         /\ Paired(a, B) = ((a % B) + ((a \div B) % B)) + B * B * Paired(a \div (B * B), B)
<1> DEFINE M == Masked(B)
           C == B * B
           q == a \div C
<1>0. C \in Nat /\ C >= 2
  BY SMT
<1>1. /\ M \in [Nat -> Nat] /\ M[0] = 0
      /\ \A k \in Nat : M[k] = (k % B) + C * M[k \div C]
  BY MaskedStep
<1>2. a \div B \in Nat /\ q \in Nat /\ q \div B \in Nat
  BY <1>0, Division
<1>3. (a \div B) \div C = q \div B
  <2>1. (a \div B) \div C = a \div (B * C)
    BY <1>0, DivDiv
  <2>2. (a \div C) \div B = a \div (C * B)
    BY <1>0, DivDiv
  <2>3. B * C = C * B
    BY <1>0, SMT
  <2> QED
    BY <2>1, <2>2, <2>3
<1>4. Paired(a, B) = M[a] + M[a \div B] /\ Paired(q, B) = M[q] + M[q \div B]
  BY DEF Paired
<1>5. Paired(0, B) = 0
  <2>1. 0 \div B = 0
    BY BelowDivisor
  <2> QED
    BY <1>1, <2>1 DEF Paired
<1> HIDE DEF M, q, C
<1>6. M[a] = (a % B) + C * M[q]
  BY <1>1 DEF q
<1>7. M[a \div B] = ((a \div B) % B) + C * M[q \div B]
  BY <1>1, <1>2, <1>3
<1>8. M[a] \in Nat /\ M[a \div B] \in Nat /\ M[q] \in Nat /\ M[q \div B] \in Nat
  BY <1>1, <1>2
<1>9. C * Paired(q, B) = C * M[q] + C * M[q \div B]
  BY <1>0, <1>4, <1>8, SMT
<1>10. /\ C * M[q] \in Nat /\ C * M[q \div B] \in Nat
       /\ a % B \in Nat /\ (a \div B) % B \in Nat
  <2>1. C * M[q] \in Nat /\ C * M[q \div B] \in Nat
    BY <1>0, <1>8, SMT
  <2>2. a % B \in Nat /\ (a \div B) % B \in Nat
    <3>1. B \in Nat \ {0}
      OBVIOUS
    <3>2. a % B \in 0 .. B - 1 /\ (a \div B) % B \in 0 .. B - 1
      BY <1>2, <3>1, Division
    <3> QED
      BY <3>2
  <2> QED
    BY <2>1, <2>2
<1>11. Paired(a, B) = ((a % B) + ((a \div B) % B)) + C * Paired(q, B)
  BY <1>4, <1>6, <1>7, <1>9, <1>10
<1> QED
  BY <1>4, <1>5, <1>8, <1>11 DEF C, q

\* It makes no number larger, and keeps the sum of its digits: the two digits of a
\* field become one digit of the next base.
LEMMA PairedKeeps ==
  ASSUME NEW B \in Nat, B >= 2, NEW a \in Nat
  PROVE  /\ Paired(a, B) <= a
         /\ DigitSum(B * B)[Paired(a, B)] = DigitSum(B)[a]
<1> DEFINE C == B * B
           P(k) == Paired(k, B)
           T == {k \in Nat : P(k) <= k /\ DigitSum(C)[P(k)] = DigitSum(B)[k]}
<1>0. C \in Nat \ {0} /\ C >= 2 * B /\ C >= 2 /\ B \in Nat \ {0}
  BY SMT
<1>1. ASSUME NEW k \in Nat, \A m \in Nat : m < k => m \in T PROVE k \in T
  <2> DEFINE q == k \div B
             r == k % B
             p == q \div B
             s == q % B
  <2>1. q \in Nat /\ r \in 0 .. B - 1 /\ k = B * q + r
    BY <1>0, Division
  <2>2. p \in Nat /\ s \in 0 .. B - 1 /\ q = B * p + s
    BY <1>0, <2>1, Division
  <2>3. p = k \div C
    BY <1>0, DivDiv
  <2>4. P(k) \in Nat /\ P(p) \in Nat /\ P(k) = (r + s) + C * P(p)
    BY <2>2, <2>3, PairedStep
  <2>5. /\ DigitSum(B)[k] = r + DigitSum(B)[q]
        /\ DigitSum(B)[q] = s + DigitSum(B)[p]
        /\ DigitSum(B)[p] \in Nat
    BY <2>1, <2>2, DigitSumStep
  <2>6. CASE k = 0
    <3>1. P(0) = 0
      BY PairedStep
    <3>2. DigitSum(C)[0] = 0 /\ DigitSum(B)[0] = 0
      BY <1>0, DigitSumStep
    <3> QED
      BY <2>6, <3>1, <3>2
  <2>7. CASE k # 0
    <3>1. p < k
      BY <1>0, <2>3, <2>7, Smaller
    <3>2. P(p) <= p /\ DigitSum(C)[P(p)] = DigitSum(B)[p]
      BY <1>1, <2>2, <3>1
    <3> HIDE DEF T, P, q, r, p, s, C
    <3>3. P(k) <= k
      <4>1. C * P(p) <= C * p
        BY <1>0, <2>2, <2>4, <3>2, SMT
      <4>2. s <= B * s
        BY <2>2, SMT
      <4>3. B * q = C * p + B * s
        BY <2>2, SMT DEF C
      <4>4. C * P(p) \in Nat /\ C * p \in Nat /\ B * s \in Nat
        BY <1>0, <2>2, <2>4, SMT
      <4>5. P(k) = (r + s) + C * P(p) /\ k = (C * p + B * s) + r
        BY <2>1, <2>4, <4>3
      <4> QED
        BY <2>1, <2>2, <4>1, <4>2, <4>4, <4>5
    <3>4. P(k) % C = r + s /\ P(k) \div C = P(p)
      <4>1. r + s \in 0 .. C - 1
        BY <1>0, <2>1, <2>2
      <4>2. P(k) = C * P(p) + (r + s)
        <5>1. C * P(p) \in Nat
          BY <1>0, <2>4, SMT
        <5> QED
          BY <2>1, <2>2, <2>4, <5>1
      <4> QED
        BY <1>0, <2>4, <4>1, <4>2, Unique
    <3>5. DigitSum(C)[P(k)] = (r + s) + DigitSum(C)[P(p)]
      <4>1. DigitSum(C)[P(k)] = (P(k) % C) + DigitSum(C)[P(k) \div C]
        BY <1>0, <2>4, DigitSumStep
      <4> QED
        BY <3>4, <4>1
    <3>6. DigitSum(C)[P(k)] = DigitSum(B)[k]
      BY <2>1, <2>2, <2>5, <3>2, <3>5
    <3> QED
      BY <3>3, <3>6 DEF T
  <2> QED
    BY <2>6, <2>7
<1> HIDE DEF T
<1>2. a \in T
  BY <1>1, Induction
<1> QED
  BY <1>2 DEF T

\* weight() counts the bits that are set.
THEOREM WeightRightHolds == Spec => []WeightRight
<1>1. x \in MinInt .. MaxInt => WeightRight
  <2> SUFFICES ASSUME x \in MinInt .. MaxInt
               PROVE  weight(UInt32(x)) = DigitSum(2)[UInt32(x)]
    BY DEF WeightRight
  <2> DEFINE a == UInt32(x)
             a1 == Paired(a, 2)
             a2 == Paired(a1, 4)
             a3 == Paired(a2, 16)
             a4 == Paired(a3, 256)
             a5 == Paired(a4, 65536)
  <2>1. a \in Nat /\ a < 4294967296
    <3>1. x \in Int
      BY Sizes
    <3>2. UInt32(x) \in Nat /\ UInt32(x) < Word
      BY <3>1, UInt32Type
    <3> QED
      BY <3>2, Sizes
  <2>2. a5 = weight(a)
    BY DEF weight
  <2> HIDE DEF a
  <2>3. a1 \in Nat /\ a1 <= a /\ DigitSum(4)[a1] = DigitSum(2)[a]
    <3>1. 2 * 2 = 4
      OBVIOUS
    <3> QED
      BY <2>1, <3>1, PairedStep, PairedKeeps
  <2> HIDE DEF a1
  <2>4. a2 \in Nat /\ a2 <= a1 /\ DigitSum(16)[a2] = DigitSum(4)[a1]
    <3>1. 4 * 4 = 16
      OBVIOUS
    <3> QED
      BY <2>3, <3>1, PairedStep, PairedKeeps
  <2> HIDE DEF a2
  <2>5. a3 \in Nat /\ a3 <= a2 /\ DigitSum(256)[a3] = DigitSum(16)[a2]
    <3>1. 16 * 16 = 256
      OBVIOUS
    <3> QED
      BY <2>4, <3>1, PairedStep, PairedKeeps
  <2> HIDE DEF a3
  <2>6. a4 \in Nat /\ a4 <= a3 /\ DigitSum(65536)[a4] = DigitSum(256)[a3]
    <3>1. 256 * 256 = 65536
      OBVIOUS
    <3> QED
      BY <2>5, <3>1, PairedStep, PairedKeeps
  <2> HIDE DEF a4
  <2>7. a5 \in Nat /\ a5 <= a4 /\ DigitSum(4294967296)[a5] = DigitSum(65536)[a4]
    <3>1. 65536 * 65536 = 4294967296
      OBVIOUS
    <3> QED
      BY <2>6, <3>1, PairedStep, PairedKeeps
  <2> HIDE DEF a5
  <2>8. a5 < 4294967296
    BY <2>1, <2>3, <2>4, <2>5, <2>6, <2>7
  <2>9. DigitSum(4294967296)[a5] = a5
    <3>1. 4294967296 \in Nat /\ 4294967296 >= 2
      OBVIOUS
    <3> QED
      BY <2>7, <2>8, <3>1, DigitSumStep
  <2> QED
    BY <2>2, <2>3, <2>4, <2>5, <2>6, <2>7, <2>9 DEF a
<1> QED
  BY <1>1, Argument, PTL

-----------------------------------------------------------------------------
(* Numbers as text: print_int() and atoi().                                  *)

\* The ints are integers.
LEMMA IntRange ==
  /\ MaxInt \in Nat /\ MinInt \in Int /\ MinInt = -MaxInt - 1 /\ MaxInt >= 7
  /\ \A v \in MinInt .. MaxInt : v \in Int
  /\ \A v \in Int : Int32(v) \in Int
<1>1. MaxInt \in Nat /\ MinInt \in Int /\ MinInt = -MaxInt - 1 /\ MaxInt >= 7
  BY Sizes
<1>2. \A v \in MinInt .. MaxInt : v \in Int
  BY <1>1
<1> QED
  BY <1>1, <1>2, Int32Type

\* The last digit of a number and the number without it.
LEMMA LastDigit ==
  ASSUME NEW a \in Nat
  PROVE  /\ Remainder(a, 10) = a % 10 /\ a % 10 \in 0 .. 9
         /\ a \div 10 \in Nat /\ a = 10 * (a \div 10) + (a % 10)
         /\ a < 10 => a % 10 = a
<1>1. a % 10 \in 0 .. 9 /\ a \div 10 \in Nat /\ a = 10 * (a \div 10) + (a % 10)
  BY Division
<1>2. a < 10 => a % 10 = a
  BY BelowDivisor
<1>3. Quotient(a, 10) = a \div 10
  BY DEF Quotient
<1> QED
  BY <1>1, <1>2, <1>3 DEF Remainder

\* print_int() writes the last digit after those of the quotient.
LEMMA PrintedStep ==
  /\ \A k \in Nat : printed[k] \in Seq(0 .. 9)
  /\ \A k \in Nat : k < 10 => printed[k] = << k >>
  /\ \A k \in Nat : k >= 10 => printed[k] = printed[k \div 10] \o << k % 10 >>
<1> DEFINE first == [k \in Nat |-> << k % 10 >>]
           next == [p \in Nat \X Seq(0 .. 9) |-> p[2] \o << p[1] % 10 >>]
           prev == [k \in Nat |-> k \div 10]
<1>1. first \in [Nat -> Seq(0 .. 9)]
  BY LastDigit
<1>2. next \in [Nat \X Seq(0 .. 9) -> Seq(0 .. 9)]
  <2>1. ASSUME NEW k \in Nat, NEW v \in Seq(0 .. 9) PROVE v \o << k % 10 >> \in Seq(0 .. 9)
    BY LastDigit
  <2> QED
    BY <2>1
<1>3. prev \in [Nat -> Nat] /\ Descends(prev, 10)
  BY Smaller, LastDigit DEF Descends
<1>4. \A k \in Nat, v \in Seq(0 .. 9) : next[<< k, v >>] = v \o << k % 10 >>
  OBVIOUS
<1>5. \A k \in Nat : first[k] = << k % 10 >> /\ prev[k] = k \div 10
  OBVIOUS
<1> HIDE DEF first, next, prev
<1>6. PICK f \in [Nat -> Seq(0 .. 9)] : Solves(f, 10, first, next, prev)
  BY <1>1, <1>2, <1>3, Recursion
<1>7. ASSUME NEW k \in Nat
      PROVE  f[k] = IF k < 10 THEN << k % 10 >> ELSE f[k \div 10] \o << k % 10 >>
  <2>1. f[k] = IF k < 10 THEN first[k] ELSE next[<< k, f[prev[k]] >>]
    BY <1>6, Zenon DEF Solves
  <2>2. prev[k] \in Nat /\ prev[k] = k \div 10 /\ first[k] = << k % 10 >>
    BY <1>3, <1>5
  <2>3. f[prev[k]] \in Seq(0 .. 9)
    BY <1>6, <2>2
  <2>4. next[<< k, f[prev[k]] >>] = f[prev[k]] \o << k % 10 >>
    BY <1>4, <2>3
  <2> QED
    BY <2>1, <2>2, <2>4
<1> DEFINE front(G, a) == IF a >= 10 THEN G[a \div 10] ELSE << >>
           F == [a \in Int |-> IF a >= 0 THEN f[a] ELSE << >> \o << Remainder(a, 10) >>]
<1>8. /\ \A k \in Nat : F[k] = f[k]
      /\ \A a \in Int : a < 0 => F[a] = << >> \o << Remainder(a, 10) >>
      /\ F = [a \in Int |-> F[a]]
  OBVIOUS
<1>9. /\ \A a \in Int : a >= 10 => front(F, a) = F[a \div 10]
      /\ \A a \in Int : ~(a >= 10) => front(F, a) = << >>
      /\ \A a \in Int : a >= 10 => front(printed, a) = printed[a \div 10]
      /\ \A a \in Int : ~(a >= 10) => front(printed, a) = << >>
  OBVIOUS
<1>10. \A d \in 0 .. 9 : << >> \o << d >> = << d >> /\ << d >> \in Seq(0 .. 9)
  OBVIOUS
<1> HIDE DEF F, front
<1>11. ASSUME NEW a \in Int PROVE F[a] = front(F, a) \o << Remainder(a, 10) >>
  <2>1. CASE a < 0
    <3>1. ~(a >= 10)
      BY <2>1
    <3>2. front(F, a) = << >> /\ F[a] = << >> \o << Remainder(a, 10) >>
      BY <1>8, <1>9, <2>1, <3>1, Zenon
    <3> QED
      BY <3>2, Zenon
  <2>2. CASE a >= 0 /\ a < 10
    <3>1. a \in Nat /\ ~(a >= 10)
      BY <2>2
    <3>2. a % 10 \in 0 .. 9 /\ Remainder(a, 10) = a % 10
      BY <3>1, LastDigit
    <3>3. F[a] = << a % 10 >>
      BY <1>7, <1>8, <2>2, <3>1, Zenon
    <3>4. front(F, a) = << >> /\ << >> \o << a % 10 >> = << a % 10 >>
      BY <1>9, <1>10, <3>1, <3>2, Zenon
    <3> QED
      BY <3>2, <3>3, <3>4, Zenon
  <2>3. CASE a >= 10
    <3>1. a \in Nat /\ ~(a < 10)
      BY <2>3
    <3>2. a \div 10 \in Nat /\ Remainder(a, 10) = a % 10
      BY <3>1, LastDigit
    <3>3. F[a] = f[a] /\ F[a \div 10] = f[a \div 10]
      BY <1>8, <3>1, <3>2, Zenon
    <3>4. f[a] = f[a \div 10] \o << a % 10 >>
      BY <1>7, <3>1, Zenon
    <3>5. front(F, a) = F[a \div 10]
      BY <1>9, <2>3, Zenon
    <3> QED
      BY <3>2, <3>3, <3>4, <3>5, Zenon
  <2>4. a < 0 \/ (a >= 0 /\ a < 10) \/ a >= 10
    OBVIOUS
  <2> QED
    BY <2>1, <2>2, <2>3, <2>4, Zenon
<1>12. F = [a \in Int |-> front(F, a) \o << Remainder(a, 10) >>]
  BY <1>8, <1>11
<1>13. printed = [a \in Int |-> front(printed, a) \o << Remainder(a, 10) >>]
  BY <1>12, Zenon DEF printed, front
<1>14. \A a \in Int : printed[a] = front(printed, a) \o << Remainder(a, 10) >>
  BY <1>13, Zenon
<1> DEFINE Step(k) == /\ printed[k] \in Seq(0 .. 9)
                      /\ k < 10 => printed[k] = << k >>
                      /\ k >= 10 => printed[k] = printed[k \div 10] \o << k % 10 >>
           T == {k \in Nat : Step(k)}
<1>15. ASSUME NEW k \in Nat, \A m \in Nat : m < k => m \in T PROVE k \in T
  <2>0. k \in Int /\ k % 10 \in 0 .. 9 /\ Remainder(k, 10) = k % 10 /\ (k < 10 => k % 10 = k)
    <3>1. k \in Int
      OBVIOUS
    <3> QED
      BY <3>1, LastDigit, Zenon
  <2>1. printed[k] = front(printed, k) \o << k % 10 >>
    BY <1>14, <2>0, Zenon
  <2>2. ASSUME k < 10 PROVE Step(k)
    <3>1. ~(k >= 10)
      BY <2>2
    <3>2. front(printed, k) = << >> /\ k % 10 = k
      BY <1>9, <2>0, <2>2, <3>1, Zenon
    <3>3. printed[k] = << k >> /\ << k >> \in Seq(0 .. 9)
      BY <1>10, <2>0, <2>1, <3>2, Zenon
    <3> QED
      BY <3>1, <3>3, Zenon
  <2>3. ASSUME ~(k < 10) PROVE Step(k)
    <3>1. k >= 10 /\ k \div 10 \in Nat /\ k \div 10 < k
      BY <2>3, Smaller
    <3>2. printed[k] = printed[k \div 10] \o << k % 10 >>
      BY <1>9, <2>0, <2>1, <3>1, Zenon
    <3>3. printed[k \div 10] \in Seq(0 .. 9)
      BY <1>15, <3>1, Zenon
    <3>4. \A w \in Seq(0 .. 9), d \in 0 .. 9 : w \o << d >> \in Seq(0 .. 9)
      OBVIOUS
    <3>5. printed[k] \in Seq(0 .. 9)
      BY <2>0, <3>2, <3>3, <3>4, Zenon
    <3> QED
      BY <2>3, <3>2, <3>5, Zenon
  <2> QED
    BY <2>2, <2>3, Zenon
<1>16. \A k \in Nat : k \in T
  <2> HIDE DEF T
  <2> QED
    BY <1>15, Induction
<1> QED
  BY <1>16, Zenon

\* Something is printed, and a digit first.
LEMMA PrintedType ==
  ASSUME NEW k \in Nat
  PROVE  printed[k] \in Seq(Int) /\ Len(printed[k]) >= 1 /\ printed[k][1] \in 0 .. 9
<1>1. printed[k] \in Seq(0 .. 9)
  BY PrintedStep, Zenon
<1>2. printed[k] # << >>
  <2>1. CASE k < 10
    <3>1. printed[k] = << k >>
      BY <2>1, PrintedStep, Zenon
    <3> QED
      BY <3>1
  <2>2. CASE ~(k < 10)
    <3>1. k >= 10 /\ k \div 10 \in Nat /\ k % 10 \in 0 .. 9
      BY <2>2, LastDigit
    <3>2. printed[k] = printed[k \div 10] \o << k % 10 >> /\ printed[k \div 10] \in Seq(0 .. 9)
      BY <3>1, PrintedStep, Zenon
    <3>3. \A u \in Seq(0 .. 9), d \in 0 .. 9 : u \o << d >> # << >>
      OBVIOUS
    <3> QED
      BY <3>1, <3>2, <3>3, Zenon
  <2> QED
    BY <2>1, <2>2, Zenon
<1>3. \A u \in Seq(0 .. 9) : u # << >> => u \in Seq(Int) /\ Len(u) >= 1 /\ u[1] \in 0 .. 9
  OBVIOUS
<1> QED
  BY <1>1, <1>2, <1>3, Zenon

\* The loop of atoi() computes a value from the one before.
LEMMA ReadsStep ==
  ASSUME NEW s \in BOOLEAN, NEW text \in Seq(Int), NEW p \in 0 .. Len(text)
  PROVE  /\ \A k \in 0 .. p : Reads(s, p, text)[k] = 0
         /\ \A k \in p + 1 .. Len(text) :
              Reads(s, p, text)[k] = Accumulate(s, Reads(s, p, text)[k - 1], text[k])
<1> DEFINE char(k) == IF k \in 1 .. Len(text) THEN text[k] ELSE 0
           first == [k \in Nat |-> 0]
           next == [u \in Nat \X Int |-> Accumulate(s, u[2], char(u[1]))]
           prev == [k \in Nat |-> IF k = 0 THEN 0 ELSE k - 1]
<1>1. first \in [Nat -> Int] /\ \A k \in Nat : first[k] = 0
  OBVIOUS
<1>2. ASSUME NEW v \in Int, NEW c \in Int PROVE Accumulate(s, v, c) \in Int
  <2>1. v * 10 - c \in Int /\ v * 10 + c \in Int
    OBVIOUS
  <2>2. Int32(v * 10 - c) \in Int /\ Int32(v * 10 + c) \in Int
    BY <2>1, IntRange
  <2> QED
    BY <2>2 DEF Accumulate
<1>3. \A k \in Nat : char(k) \in Int
  OBVIOUS
<1> HIDE DEF char
<1>4. next \in [Nat \X Int -> Int]
  BY <1>2, <1>3
<1>5. \A k \in Nat, v \in Int : next[<< k, v >>] = Accumulate(s, v, char(k))
  OBVIOUS
<1>6. prev \in [Nat -> Nat] /\ Descends(prev, p + 1)
  BY DEF Descends
<1>7. \A k \in Nat \ {0} : prev[k] = k - 1
  OBVIOUS
<1> HIDE DEF first, next, prev
<1>8. PICK f \in [Nat -> Int] : Solves(f, p + 1, first, next, prev)
  <2>1. p + 1 \in Nat
    OBVIOUS
  <2> QED
    BY <1>1, <1>4, <1>6, <2>1, Recursion
<1>9. ASSUME NEW k \in 0 .. Len(text)
      PROVE  f[k] = IF k <= p THEN 0 ELSE Accumulate(s, f[k - 1], text[k])
  <2>1. f[k] = IF k < p + 1 THEN first[k] ELSE next[<< k, f[prev[k]] >>]
    <3>1. k \in Nat
      OBVIOUS
    <3> QED
      BY <1>8, <3>1, Zenon DEF Solves
  <2>2. CASE k <= p
    BY <1>1, <2>1, <2>2
  <2>3. CASE ~(k <= p)
    <3>1. k \in Nat \ {0} /\ ~(k < p + 1) /\ k - 1 \in Nat /\ k \in 1 .. Len(text)
      BY <2>3
    <3>2. prev[k] = k - 1 /\ f[k - 1] \in Int /\ char(k) = text[k]
      BY <1>7, <1>8, <3>1 DEF char
    <3> QED
      BY <1>5, <2>1, <2>3, <3>1, <3>2
  <2> QED
    BY <2>2, <2>3
<1> DEFINE G == [k \in 0 .. Len(text) |-> f[k]]
<1>10. \A k \in 0 .. Len(text) : k > p => k - 1 \in 0 .. Len(text)
  OBVIOUS
<1>11. ASSUME NEW k \in 0 .. Len(text)
       PROVE  G[k] = IF k <= p THEN 0 ELSE Accumulate(s, G[k - 1], text[k])
  BY <1>9, <1>10
<1>12. G = [k \in 0 .. Len(text) |-> G[k]]
  OBVIOUS
<1> HIDE DEF G
<1>13. G = [k \in 0 .. Len(text) |-> IF k <= p THEN 0 ELSE Accumulate(s, G[k - 1], text[k])]
  BY <1>11, <1>12
<1>14. Reads(s, p, text) = [k \in 0 .. Len(text) |->
         IF k <= p THEN 0 ELSE Accumulate(s, Reads(s, p, text)[k - 1], text[k])]
  BY <1>13, Zenon DEF Reads
<1> DEFINE R == Reads(s, p, text)
<1>15. \A k \in 0 .. Len(text) : R[k] = IF k <= p THEN 0 ELSE Accumulate(s, R[k - 1], text[k])
  BY <1>14, Zenon
<1> HIDE DEF R
<1>16. /\ \A k \in 0 .. p : R[k] = 0
       /\ \A k \in p + 1 .. Len(text) : R[k] = Accumulate(s, R[k - 1], text[k])
  <2>1. /\ \A k \in 0 .. p : k \in 0 .. Len(text) /\ k <= p
        /\ \A k \in p + 1 .. Len(text) : k \in 0 .. Len(text) /\ ~(k <= p)
    OBVIOUS
  <2> QED
    BY <1>15, <2>1, Zenon
<1> QED
  BY <1>16 DEF R

\* What follows does not change what was read.
LEMMA ReadsMore ==
  ASSUME NEW s \in BOOLEAN, NEW text \in Seq(Int), NEW p \in 0 .. Len(text), NEW c \in Int
  PROVE  Reads(s, p, text \o << c >>)[Len(text \o << c >>)] =
           Accumulate(s, Reads(s, p, text)[Len(text)], c)
<1> DEFINE longer == text \o << c >>
           R == Reads(s, p, text)
           Q == Reads(s, p, longer)
           T == {k \in Nat : k <= Len(text) => Q[k] = R[k]}
<1>1. /\ longer \in Seq(Int) /\ Len(longer) = Len(text) + 1 /\ longer[Len(text) + 1] = c
      /\ \A k \in 1 .. Len(text) : longer[k] = text[k]
      /\ Len(text) \in Nat
  OBVIOUS
<1> HIDE DEF longer
<1>2. p \in 0 .. Len(longer)
  BY <1>1
<1>3. /\ \A k \in 0 .. p : R[k] = 0
      /\ \A k \in p + 1 .. Len(text) : R[k] = Accumulate(s, R[k - 1], text[k])
  BY ReadsStep
<1>4. /\ \A k \in 0 .. p : Q[k] = 0
      /\ \A k \in p + 1 .. Len(longer) : Q[k] = Accumulate(s, Q[k - 1], longer[k])
  BY <1>1, <1>2, ReadsStep
<1> HIDE DEF R, Q
<1>5. ASSUME NEW k \in Nat, \A m \in Nat : m < k => m \in T PROVE k \in T
  <2>1. SUFFICES ASSUME k <= Len(text) PROVE Q[k] = R[k]
    OBVIOUS
  <2>2. CASE k <= p
    BY <1>3, <1>4, <2>2
  <2>3. CASE ~(k <= p)
    <3>1. k \in p + 1 .. Len(text) /\ k \in p + 1 .. Len(longer) /\ k \in 1 .. Len(text)
      BY <1>1, <2>1, <2>3
    <3>2. k - 1 \in Nat /\ k - 1 < k /\ k - 1 <= Len(text)
      BY <1>1, <2>1, <3>1
    <3>3. Q[k - 1] = R[k - 1]
      BY <1>5, <3>2
    <3> QED
      BY <1>1, <1>3, <1>4, <3>1, <3>3
  <2> QED
    BY <2>2, <2>3
<1> HIDE DEF T
<1>6. Len(text) \in T
  BY <1>1, <1>5, Induction
<1>7. Q[Len(text)] = R[Len(text)]
  BY <1>1, <1>6 DEF T
<1>8. Len(longer) \in p + 1 .. Len(longer) /\ Len(longer) - 1 = Len(text)
  BY <1>1
<1>9. Q[Len(longer)] = Accumulate(s, R[Len(text)], c)
  BY <1>1, <1>4, <1>7, <1>8
<1> QED
  BY <1>9 DEF longer, Q, R

\* What is read from the digits of a number, after p other characters: the number, or
\* with s its negative.
LEMMA ReadsPrinted ==
  ASSUME NEW s \in BOOLEAN, NEW pre \in Seq(Int), NEW a \in Nat, a <= MaxInt
  PROVE  Reads(s, Len(pre), pre \o printed[a])[Len(pre \o printed[a])] = IF s THEN -a ELSE a
<1> DEFINE p == Len(pre)
           text(k) == pre \o printed[k]
           value(k) == Reads(s, p, text(k))[Len(text(k))]
           T == {k \in Nat : k <= MaxInt => value(k) = IF s THEN -k ELSE k}
<1>0. p \in Nat /\ p = Len(pre)
  OBVIOUS
<1>1. ASSUME NEW k \in Nat PROVE text(k) \in Seq(Int) /\ p \in 0 .. Len(text(k))
  <2>1. printed[k] \in Seq(Int)
    BY PrintedType
  <2>2. text(k) \in Seq(Int) /\ Len(text(k)) = p + Len(printed[k])
    BY <2>1, ConcatProperties, Zenon
  <2>3. Len(printed[k]) \in Nat
    BY <2>1
  <2> QED
    BY <1>0, <2>2, <2>3
<1>2. ASSUME NEW u \in Seq(Int), NEW w \in Seq(Int) PROVE (pre \o u) \o w = pre \o (u \o w)
  BY ConcatAssociative, SMT
<1> HIDE DEF p
<1>3. ASSUME NEW t \in Seq(Int), p \in 0 .. Len(t), NEW c \in Int
      PROVE  Reads(s, p, t \o << c >>)[Len(t \o << c >>)] = Accumulate(s, Reads(s, p, t)[Len(t)], c)
  BY <1>3, ReadsMore, Zenon
<1>4. ASSUME NEW k \in Nat, k <= MaxInt, NEW v \in Int, v = (IF s THEN -(k \div 10) ELSE k \div 10)
      PROVE  Accumulate(s, v, k % 10) = IF s THEN -k ELSE k
  <2>1. k % 10 \in 0 .. 9 /\ k \div 10 \in Nat /\ k = 10 * (k \div 10) + (k % 10)
    BY LastDigit
  <2>2. k \in MinInt .. MaxInt /\ -k \in MinInt .. MaxInt
    BY <1>4, IntRange
  <2>3. Int32(k) = k /\ Int32(-k) = -k
    BY <2>2, SmallInt32
  <2>4. CASE s
    <3>1. v * 10 - (k % 10) = -k
      BY <1>4, <2>1, <2>4
    <3> QED
      BY <2>3, <2>4, <3>1, Zenon DEF Accumulate
  <2>5. CASE ~s
    <3>1. v * 10 + (k % 10) = k
      BY <1>4, <2>1, <2>5
    <3> QED
      BY <2>3, <2>5, <3>1, Zenon DEF Accumulate
  <2> QED
    BY <2>4, <2>5
<1>5. ASSUME NEW k \in Nat, \A m \in Nat : m < k => m \in T, k <= MaxInt
      PROVE  value(k) = IF s THEN -k ELSE k
  <2>1. k % 10 \in 0 .. 9 /\ k \div 10 \in Nat /\ k = 10 * (k \div 10) + (k % 10)
    BY LastDigit
  <2>2. CASE k < 10
    <3>1. printed[k] = << k >> /\ k % 10 = k /\ k \div 10 = 0
      <4>1. k \div 10 = 0
        BY <2>2, BelowDivisor
      <4> QED
        BY <2>2, <4>1, PrintedStep, LastDigit, Zenon
    <3>2. Reads(s, p, pre)[Len(pre)] = 0
      <4>1. p \in 0 .. Len(pre) /\ Len(pre) \in 0 .. p
        BY <1>0
      <4> QED
        BY <4>1, ReadsStep
    <3>3. value(k) = Accumulate(s, 0, k)
      <4>1. p \in 0 .. Len(pre) /\ k \in Int
        BY <1>0
      <4>2. text(k) = pre \o << k >>
        BY <3>1, Zenon
      <4> HIDE DEF text, p
      <4> QED
        BY <1>3, <3>2, <4>1, <4>2, Zenon
    <3>4. 0 = (IF s THEN -(k \div 10) ELSE k \div 10)
      BY <3>1
    <3>5. Accumulate(s, 0, k % 10) = IF s THEN -k ELSE k
      BY <1>4, <1>5, <3>4
    <3> QED
      BY <3>1, <3>3, <3>5, Zenon
  <2>3. CASE ~(k < 10)
    <3> DEFINE q == k \div 10
    <3>1. q \in Nat /\ q < k /\ q <= MaxInt /\ k >= 10
      BY <1>5, <2>1, <2>3, IntRange
    <3>2. value(q) = IF s THEN -q ELSE q
      BY <1>5, <3>1
    <3>3. text(q) \in Seq(Int) /\ p \in 0 .. Len(text(q)) /\ printed[q] \in Seq(Int)
      BY <1>1, <3>1, PrintedType, Zenon
    <3>4. text(k) = text(q) \o << k % 10 >>
      <4>1. printed[k] = printed[q] \o << k % 10 >>
        BY <3>1, PrintedStep, Zenon
      <4>2. pre \o (printed[q] \o << k % 10 >>) = (pre \o printed[q]) \o << k % 10 >>
        <5>1. << k % 10 >> \in Seq(Int)
          BY <2>1
        <5> QED
          BY <1>2, <3>3, <5>1, Zenon
      <4> QED
        BY <4>1, <4>2, Zenon
    <3>5. value(k) = Accumulate(s, value(q), k % 10)
      <4>1. k % 10 \in Int
        BY <2>1
      <4> HIDE DEF text, q, p
      <4> QED
        BY <3>3, <3>4, <4>1, <1>3, Zenon
    <3>6. value(q) \in Int
      BY <3>1, <3>2
    <3> HIDE DEF value
    <3> QED
      BY <1>4, <1>5, <3>2, <3>5, <3>6
  <2> QED
    BY <2>2, <2>3
<1> HIDE DEF value
<1>6. \A k \in Nat : k \in T
  <2>1. \A k \in Nat : (\A m \in Nat : m < k => m \in T) => k \in T
    BY <1>5
  <2> HIDE DEF T
  <2> QED
    BY <2>1, Induction
<1>7. value(a) = IF s THEN -a ELSE a
  BY <1>6
<1> QED
  BY <1>7 DEF value, p

\* What print_int() prints is read as the same number by atoi(), for every word size and
\* every number but the one whose negative is none.
THEOREM RoundTripHolds == Spec => []RoundTrip
<1>1. x \in MinInt .. MaxInt => RoundTrip
  <2> SUFFICES ASSUME x \in MinInt .. MaxInt, x # MinInt
               PROVE  atoi(print_int(x)) = x
    BY DEF RoundTrip
  <2>1. CASE x >= 0
    <3>1. x \in Nat /\ x <= MaxInt
      BY <2>1, IntRange
    <3> DEFINE text == printed[x]
    <3>2. text \in Seq(Int) /\ Len(text) >= 1 /\ text[1] \in 0 .. 9
      BY <3>1, PrintedType, Zenon
    <3> HIDE DEF text
    <3>3. text # << >> /\ text = << >> \o text
      BY <3>2, ConcatEmptySeq
    <3>4. print_int(x) = text
      <4>1. ~(x < 0)
        BY <3>1
      <4> QED
        BY <4>1, Zenon DEF print_int, text
    <3>5. atoi(text) = Reads(FALSE, 0, text)[Len(text)]
      <4>1. ~(text[1] = Minus) /\ ~(text[1] \in {Minus, Plus})
        <5>1. \A c \in 0 .. 9 : ~(c = Minus) /\ ~(c \in {Minus, Plus})
          BY DEF Minus, Plus
        <5> QED
          BY <3>2, <5>1, Zenon
      <4> QED
        BY <3>3, <4>1, Zenon DEF atoi
    <3>6. Reads(FALSE, 0, text)[Len(text)] = x
      <4>1. << >> \in Seq(Int) /\ Len(<< >>) = 0
        OBVIOUS
      <4>2. Reads(FALSE, Len(<< >>), << >> \o text)[Len(<< >> \o text)] = x
        BY <3>1, <4>1, ReadsPrinted DEF text
      <4> QED
        BY <3>3, <4>1, <4>2, Zenon
    <3> QED
      BY <3>4, <3>5, <3>6
  <2>2. CASE ~(x >= 0)
    <3>1. -x \in Nat /\ -x <= MaxInt /\ -x \in MinInt .. MaxInt /\ x \in Int /\ x < 0
      BY <2>2, IntRange
    <3> DEFINE pre == << Minus >>
               text == pre \o printed[-x]
    <3>2. /\ pre \in Seq(Int) /\ Len(pre) = 1
          /\ text \in Seq(Int) /\ text # << >> /\ text[1] = Minus
      <4>1. pre \in Seq(Int) /\ Len(pre) = 1 /\ pre[1] = Minus
        BY DEF Minus
      <4>2. printed[-x] \in Seq(Int)
        BY <3>1, PrintedType, Zenon
      <4>3. Len(printed[-x]) \in Nat
        BY <4>2
      <4>4. /\ text \in Seq(Int) /\ Len(text) = Len(pre) + Len(printed[-x])
            /\ \A i \in 1 .. Len(pre) + Len(printed[-x]) :
                 text[i] = IF i <= Len(pre) THEN pre[i] ELSE printed[-x][i - Len(pre)]
        BY <4>1, <4>2, ConcatProperties
      <4> HIDE DEF text, pre
      <4>5. 1 \in 1 .. Len(pre) + Len(printed[-x]) /\ 1 <= Len(pre)
        BY <4>1, <4>3
      <4>6. text[1] = Minus
        BY <4>1, <4>4, <4>5
      <4>7. Len(text) > 0
        BY <4>1, <4>3, <4>4
      <4>8. text # << >>
        BY <4>7
      <4> QED
        BY <4>1, <4>4, <4>6, <4>8
    <3>3. print_int(x) = text
      BY <3>1, SmallInt32 DEF print_int
    <3>4. atoi(text) = Reads(TRUE, 1, text)[Len(text)]
      <4>1. (text # << >> /\ text[1] = Minus) = TRUE
        BY <3>2
      <4>2. text # << >> /\ text[1] \in {Minus, Plus}
        BY <3>2
      <4> HIDE DEF text
      <4> QED
        BY <4>1, <4>2, Zenon DEF atoi
    <3>5. Reads(TRUE, Len(pre), text)[Len(text)] = -(-x)
      BY <3>1, <3>2, ReadsPrinted
    <3>6. -(-x) = x
      BY <3>1
    <3> QED
      BY <3>2, <3>3, <3>4, <3>5, <3>6
  <2> QED
    BY <2>1, <2>2
<1> QED
  BY <1>1, Argument, PTL

-----------------------------------------------------------------------------
(* itoa() counts the digits by the powers of 10.                             *)

\* The powers of 10, up to the largest one that is an int, from round to round.
LEMMA PowersStep ==
  n[0] = 1 /\ \A k \in Nat : n[k + 1] = Int32(n[k] * 10)
<1> DEFINE first == [k \in Nat |-> 1]
           next == [u \in Nat \X Int |-> Int32(u[2] * 10)]
           prev == [k \in Nat |-> IF k = 0 THEN 0 ELSE k - 1]
<1>1. first \in [Nat -> Int] /\ \A k \in Nat : first[k] = 1
  OBVIOUS
<1>2. next \in [Nat \X Int -> Int]
  <2>1. ASSUME NEW v \in Int PROVE Int32(v * 10) \in Int
    <3>1. v * 10 \in Int
      OBVIOUS
    <3> QED
      BY <3>1, IntRange
  <2> QED
    BY <2>1
<1>3. \A k \in Nat, v \in Int : next[<< k, v >>] = Int32(v * 10)
  OBVIOUS
<1>4. prev \in [Nat -> Nat] /\ Descends(prev, 1) /\ \A k \in Nat \ {0} : prev[k] = k - 1
  BY DEF Descends
<1> HIDE DEF first, next, prev
<1>5. PICK f \in [Nat -> Int] : Solves(f, 1, first, next, prev)
  BY <1>1, <1>2, <1>4, Recursion
<1>6. ASSUME NEW k \in Nat PROVE f[k] = IF k = 0 THEN 1 ELSE Int32(f[k - 1] * 10)
  <2>1. f[k] = IF k < 1 THEN first[k] ELSE next[<< k, f[prev[k]] >>]
    BY <1>5, Zenon DEF Solves
  <2>2. CASE k = 0
    BY <1>1, <2>1, <2>2
  <2>3. CASE k # 0
    <3>1. k \in Nat \ {0} /\ k - 1 \in Nat /\ ~(k < 1)
      BY <2>3
    <3>2. prev[k] = k - 1 /\ f[k - 1] \in Int
      BY <1>4, <1>5, <3>1
    <3> QED
      BY <1>3, <2>1, <2>3, <3>1, <3>2, Zenon
  <2> QED
    BY <2>2, <2>3
<1>7. f = [k \in Nat |-> IF k = 0 THEN 1 ELSE Int32(f[k - 1] * 10)]
  BY <1>6
<1>8. n = [k \in Nat |-> IF k = 0 THEN 1 ELSE Int32(n[k - 1] * 10)]
  BY <1>7, Zenon DEF n
<1>9. \A k \in Nat : n[k] = IF k = 0 THEN 1 ELSE Int32(n[k - 1] * 10)
  BY <1>8, Zenon
<1>10. n[0] = 1
  BY <1>9
<1>11. ASSUME NEW k \in Nat PROVE n[k + 1] = Int32(n[k] * 10)
  <2>1. k + 1 \in Nat /\ k + 1 # 0 /\ (k + 1) - 1 = k
    OBVIOUS
  <2> QED
    BY <1>9, <2>1, Zenon
<1> QED
  BY <1>10, <1>11

\* A round of the loop, while nothing overflows.
LEMMA NextPower ==
  ASSUME NEW k \in Nat, n[k] \in Nat, 10 * n[k] <= MaxInt
  PROVE  n[k + 1] = 10 * n[k]
<1>1. n[k] * 10 \in MinInt .. MaxInt /\ n[k] * 10 = 10 * n[k]
  BY IntRange
<1> QED
  BY <1>1, PowersStep, SmallInt32

\* The first top rounds are right, and reach TopPower.
LEMMA Powers ==
  \E top \in 0 .. Width : /\ n[0] = 1 /\ n[top] = TopPower /\ TopPower <= MaxInt
                          /\ \A k \in 0 .. top : n[k] \in Nat \ {0}
                          /\ \A k \in 0 .. top - 1 : n[k + 1] = 10 * n[k]
<1> DEFINE tens == {1, 10, 100, 1000, 10000, 100000, 1000000, 10000000, 100000000, 1000000000}
           Top(m) == m <= MaxInt /\ m > MaxInt \div 10
<1>1. { 10 ^ k : k \in 0 .. 9 } = tens
  <2>1. 0 .. 9 = {0, 1, 2, 3, 4, 5, 6, 7, 8, 9}
    OBVIOUS
  <2>2. /\ 10 ^ 0 = 1 /\ 10 ^ 1 = 10 /\ 10 ^ 2 = 100 /\ 10 ^ 3 = 1000 /\ 10 ^ 4 = 10000
        /\ 10 ^ 5 = 100000 /\ 10 ^ 6 = 1000000 /\ 10 ^ 7 = 10000000
        /\ 10 ^ 8 = 100000000 /\ 10 ^ 9 = 1000000000
    BY SMT
  <2> QED
    BY <2>1, <2>2
<1>2. ASSUME NEW m \in tens, Top(m), \A j \in tens : Top(j) => j = m
      PROVE  TopPower = m
  <2> DEFINE S == { 10 ^ k : k \in 0 .. 9 }
  <2>1. TopPower = CHOOSE j \in S : Top(j)
    BY DEF TopPower
  <2>2. S = tens
    BY <1>1
  <2> HIDE DEF S, tens, Top
  <2> QED
    BY <1>2, <2>1, <2>2
<1>3. n[0] = 1
  BY PowersStep
<1>4. CASE Width = 4
  <2>1. MaxInt = 7
    BY <1>4 DEF MaxInt
  <2>2. TopPower = 1
    BY <1>2, <2>1
  <2> QED
    BY <1>3, <1>4, <2>1, <2>2
<1>5. CASE Width = 8
  <2>1. MaxInt = 127
    BY <1>5 DEF MaxInt
  <2>2. TopPower = 100
    BY <1>2, <2>1
  <2>3. n[1] = 10
    BY <1>3, <2>1, NextPower
  <2>4. n[2] = 100
    BY <2>1, <2>3, NextPower
  <2>5. \A k \in 0 .. 2 : k = 0 \/ k = 1 \/ k = 2
    OBVIOUS
  <2> QED
    BY <1>3, <1>5, <2>1, <2>2, <2>3, <2>4, <2>5
<1>6. CASE Width = 16
  <2>1. MaxInt = 32767
    BY <1>6 DEF MaxInt
  <2>2. TopPower = 10000
    BY <1>2, <2>1
  <2>3. n[1] = 10
    BY <1>3, <2>1, NextPower
  <2>4. n[2] = 100
    BY <2>1, <2>3, NextPower
  <2>5. n[3] = 1000
    BY <2>1, <2>4, NextPower
  <2>6. n[4] = 10000
    BY <2>1, <2>5, NextPower
  <2>7. \A k \in 0 .. 4 : k = 0 \/ k = 1 \/ k = 2 \/ k = 3 \/ k = 4
    OBVIOUS
  <2> QED
    BY <1>3, <1>6, <2>1, <2>2, <2>3, <2>4, <2>5, <2>6, <2>7
<1>7. CASE Width = 32
  <2>1. MaxInt = 2147483647
    BY <1>7 DEF MaxInt
  <2>2. TopPower = 1000000000
    BY <1>2, <2>1
  <2>3. n[1] = 10
    BY <1>3, <2>1, NextPower
  <2>4. n[2] = 100
    BY <2>1, <2>3, NextPower
  <2>5. n[3] = 1000
    BY <2>1, <2>4, NextPower
  <2>6. n[4] = 10000
    BY <2>1, <2>5, NextPower
  <2>7. n[5] = 100000
    BY <2>1, <2>6, NextPower
  <2>8. n[6] = 1000000
    BY <2>1, <2>7, NextPower
  <2>9. n[7] = 10000000
    BY <2>1, <2>8, NextPower
  <2>10. n[8] = 100000000
    BY <2>1, <2>9, NextPower
  <2>11. n[9] = 1000000000
    BY <2>1, <2>10, NextPower
  <2>12. \A k \in 0 .. 9 : \/ k = 0 \/ k = 1 \/ k = 2 \/ k = 3 \/ k = 4
                           \/ k = 5 \/ k = 6 \/ k = 7 \/ k = 8 \/ k = 9
    OBVIOUS
  <2> QED
    BY <1>3, <1>7, <2>1, <2>2, <2>3, <2>4, <2>5, <2>6, <2>7, <2>8, <2>9, <2>10, <2>11, <2>12
<1> QED
  BY <1>4, <1>5, <1>6, <1>7, NumbersAssumption

\* A number is less than a power of 10 exactly if it has no more digits than the power
\* has zeros.
LEMMA Digits ==
  ASSUME NEW top \in Nat, n[0] = 1,
         \A k \in 0 .. top : n[k] \in Nat \ {0},
         \A k \in 0 .. top - 1 : n[k + 1] = 10 * n[k],
         NEW t \in Nat \ {0}
  PROVE  \A j \in 0 .. top : t < n[j] <=> Len(printed[t]) <= j
<1> DEFINE L(k) == Len(printed[k])
           T == {k \in Nat : k # 0 => \A j \in 0 .. top : k < n[j] <=> L(k) <= j}
<1>1. \A k \in Nat : L(k) \in Nat /\ L(k) >= 1
  <2>1. \A u \in Seq(Int) : Len(u) \in Nat
    OBVIOUS
  <2> QED
    BY <2>1, PrintedType
<1>2. \A k \in Nat : k < 10 => L(k) = 1
  <2>1. \A k \in Nat : Len(<< k >>) = 1
    OBVIOUS
  <2> QED
    BY <2>1, PrintedStep, Zenon
<1>3. \A k \in Nat : k >= 10 => L(k) = L(k \div 10) + 1
  <2>1. ASSUME NEW k \in Nat, k >= 10 PROVE L(k) = L(k \div 10) + 1
    <3>1. \A u \in Seq(0 .. 9), d \in 0 .. 9 : Len(u \o << d >>) = Len(u) + 1
      OBVIOUS
    <3>2. k \div 10 \in Nat /\ k % 10 \in 0 .. 9
      BY LastDigit
    <3>3. printed[k] = printed[k \div 10] \o << k % 10 >> /\ printed[k \div 10] \in Seq(0 .. 9)
      BY <2>1, <3>2, PrintedStep, Zenon
    <3> QED
      BY <3>1, <3>2, <3>3, Zenon
  <2> QED
    BY <2>1
<1> HIDE DEF L
<1>4. ASSUME NEW k \in Nat, \A m \in Nat : m < k => m \in T, k # 0, NEW j \in 0 .. top
      PROVE  k < n[j] <=> L(k) <= j
  <2>1. CASE j = 0
    BY <1>1, <1>4, <2>1
  <2>2. CASE j # 0
    <3>1. j - 1 \in 0 .. top - 1 /\ j - 1 \in 0 .. top /\ (j - 1) + 1 = j
      BY <1>4, <2>2
    <3>2. n[j] = 10 * n[j - 1] /\ n[j - 1] \in Nat \ {0}
      BY <3>1
    <3>3. CASE k < 10
      BY <1>2, <1>4, <2>2, <3>2, <3>3
    <3>4. CASE ~(k < 10)
      <4> DEFINE q == k \div 10
      <4>1. q \in Nat /\ k % 10 \in 0 .. 9 /\ k = 10 * q + (k % 10)
        BY LastDigit
      <4> HIDE DEF q
      <4>2. q # 0 /\ q < k
        BY <3>4, <4>1
      <4>3. q < n[j - 1] <=> L(q) <= j - 1
        BY <1>4, <3>1, <4>1, <4>2
      <4>4. L(k) = L(q) + 1
        BY <1>3, <3>4 DEF q
      <4>5. k < 10 * n[j - 1] <=> q < n[j - 1]
        BY <3>2, <4>1
      <4>6. L(q) + 1 <= j <=> L(q) <= j - 1
        BY <1>1, <4>1
      <4> QED
        BY <3>2, <4>3, <4>4, <4>5, <4>6
    <3> QED
      BY <3>3, <3>4
  <2> QED
    BY <2>1, <2>2
<1>5. \A k \in Nat : k \in T
  <2>1. \A k \in Nat : (\A m \in Nat : m < k => m \in T) => k \in T
    BY <1>4
  <2> HIDE DEF T
  <2> QED
    BY <2>1, Induction
<1> QED
  BY <1>5 DEF L

\* The loop ends when it has counted the digits.
LEMMA RoundsCount ==
  ASSUME NEW t \in Nat \ {0}, t < TopPower
  PROVE  (CHOOSE k \in Rounds(t) : TRUE) = Len(printed[t]) /\ Len(printed[t]) \in Nat
<1> DEFINE L == Len(printed[t])
<1>1. L \in Nat
  <2>1. \A u \in Seq(Int) : Len(u) \in Nat
    OBVIOUS
  <2> QED
    BY <2>1, PrintedType
<1>2. PICK top \in 0 .. Width : /\ n[0] = 1 /\ n[top] = TopPower /\ TopPower <= MaxInt
                                /\ \A k \in 0 .. top : n[k] \in Nat \ {0}
                                /\ \A k \in 0 .. top - 1 : n[k + 1] = 10 * n[k]
  BY Powers
<1>3. top \in Nat /\ Width \in Nat /\ top <= Width
  BY NumbersAssumption
<1>4. \A j \in 0 .. top : t < n[j] <=> L <= j
  BY <1>2, <1>3, Digits
<1> HIDE DEF L
<1>5. L <= top
  <2>1. top \in 0 .. top
    BY <1>3
  <2> QED
    BY <1>2, <1>4, <2>1
<1>6. L \in Rounds(t)
  <2>1. L \in 0 .. Width /\ L \in 0 .. top /\ t < n[L]
    BY <1>1, <1>3, <1>4, <1>5
  <2>2. \A j \in 0 .. L - 1 : t >= n[j]
    <3>1. \A j \in 0 .. L - 1 : j \in 0 .. top /\ ~(L <= j)
      BY <1>1, <1>3, <1>5
    <3>2. \A j \in 0 .. top : n[j] \in Nat
      BY <1>2
    <3> QED
      BY <1>4, <3>1, <3>2
  <2> QED
    BY <2>1, <2>2 DEF Rounds
<1>7. ASSUME NEW k \in Rounds(t) PROVE k = L
  <2>1. k \in 0 .. Width /\ t < n[k] /\ \A j \in 0 .. k - 1 : t >= n[j]
    BY DEF Rounds
  <2>2. k \in Nat
    BY <1>3, <2>1
  <2>3. ~(k < L)
    <3>1. SUFFICES ASSUME k < L PROVE FALSE
      OBVIOUS
    <3>2. k \in 0 .. top /\ ~(L <= k)
      BY <1>1, <1>3, <1>5, <2>2, <3>1
    <3> QED
      BY <1>4, <2>1, <3>2
  <2>4. ~(L < k)
    <3>1. SUFFICES ASSUME L < k PROVE FALSE
      OBVIOUS
    <3>2. L \in 0 .. k - 1 /\ L \in 0 .. top
      BY <1>1, <1>3, <1>5, <2>2, <3>1
    <3>3. t >= n[L] /\ t < n[L] /\ n[L] \in Nat
      BY <1>1, <1>2, <1>4, <2>1, <3>2
    <3> QED
      BY <3>3
  <2> QED
    BY <1>1, <2>2, <2>3, <2>4
<1>8. (CHOOSE k \in Rounds(t) : TRUE) = L
  BY <1>6, <1>7
<1> QED
  BY <1>1, <1>8 DEF L

\* itoa() stores what print_int() prints and nothing before r, for every word size and every
\* number but 0 and those from TopPower on.
THEOREM ItoaPrintsHolds == Spec => []ItoaPrints
<1>1. ASSUME x \in MinInt .. MaxInt, x # 0, x \in 1 - TopPower .. TopPower - 1
      PROVE  Holds(itoa(x), print_int(x))
  <2>1. TopPower \in Nat /\ TopPower <= MaxInt
    <3>1. \A top \in 0 .. Width : top \in 0 .. top
      BY NumbersAssumption
    <3> QED
      BY <3>1, Powers
  <2> DEFINE t == IF x < 0 THEN -x ELSE x
             sign == IF x < 0 THEN 1 ELSE 0
             digits == printed[t]
             p == sign + Len(digits)
  <2>2. t \in Nat \ {0} /\ t < TopPower /\ x \in Int
    BY <1>1, <2>1, IntRange
  <2>3. Int32(-x) = -x
    <3>1. -x \in MinInt .. MaxInt
      BY <1>1, <2>1, IntRange
    <3> QED
      BY <3>1, SmallInt32
  <2>4. digits \in Seq(Int) /\ Len(digits) \in Nat
    BY <2>2, PrintedType, RoundsCount, Zenon
  <2>5. (CHOOSE k \in Rounds(t) : TRUE) = Len(digits)
    BY <2>2, RoundsCount
  <2>6. itoa(x) = [q \in (IF x < 0 THEN sign - 1 ELSE sign) .. p |->
                     IF q = p THEN NUL ELSE IF q < sign THEN Minus ELSE digits[q - sign + 1]]
    <3> DEFINE Place(u) == sign + CHOOSE k \in Rounds(u) : TRUE
               First(u) == Place(u) - Len(printed[u])
               Stored(u) == [q \in (IF x < 0 THEN First(u) - 1 ELSE First(u)) .. Place(u) |->
                               IF q = Place(u) THEN NUL
                               ELSE IF q < First(u) THEN Minus ELSE printed[u][q - First(u) + 1]]
               place == Place(t)
               first == First(t)
    <3>1. (IF x < 0 THEN Int32(-x) ELSE x) = t
      BY <2>3, Zenon
    <3>2. itoa(x) = [q \in (IF x < 0 THEN first - 1 ELSE first) .. place |->
                       IF q = place THEN NUL
                       ELSE IF q < first THEN Minus ELSE digits[q - first + 1]]
      <4>1. itoa(x) = Stored(IF x < 0 THEN Int32(-x) ELSE x)
        BY DEF itoa
      <4>2. Stored(IF x < 0 THEN Int32(-x) ELSE x) = Stored(t)
        <5> HIDE DEF Stored, t
        <5> QED
          BY <3>1
      <4> QED
        BY <4>1, <4>2, Zenon
    <3>3. place = p
      BY <2>5, Zenon
    <3>4. first = sign
      <4>1. sign \in Nat
        OBVIOUS
      <4>2. first = place - Len(digits)
        BY Zenon
      <4> HIDE DEF sign, digits, place, first
      <4> QED
        BY <2>4, <3>3, <4>1, <4>2
    <3> HIDE DEF place, first, sign, digits, p
    <3> QED
      BY <3>2, <3>3, <3>4, Zenon
  <2>7. CASE x < 0
    <3>1. t = -x /\ sign = 1
      BY <2>7, Zenon
    <3>2. print_int(x) = << Minus >> \o digits
      BY <2>3, <2>7, Zenon DEF print_int
    <3> HIDE DEF digits
    <3>3. /\ Len(<< Minus >> \o digits) = p
          /\ \A i \in 1 .. p : (<< Minus >> \o digits)[i] = IF i = 1 THEN Minus ELSE digits[i - 1]
      BY <2>4, <3>1 DEF Minus
    <3>4. p \in Nat
      BY <2>4, <3>1
    <3> HIDE DEF t, sign, p
    <3>5. itoa(x) = [q \in 0 .. p |->
                       IF q = p THEN NUL ELSE IF q < 1 THEN Minus ELSE digits[q - 1 + 1]]
      BY <2>6, <2>7, <3>1
    <3>6. ASSUME NEW q \in 0 .. p
          PROVE  (IF q = p THEN NUL ELSE IF q < 1 THEN Minus ELSE digits[q - 1 + 1]) =
                   IF q < p THEN (<< Minus >> \o digits)[q + 1] ELSE NUL
      BY <3>3, <3>4
    <3> QED
      BY <3>2, <3>3, <3>5, <3>6 DEF Holds
  <2>8. CASE ~(x < 0)
    <3>1. t = x /\ sign = 0
      BY <2>8, Zenon
    <3>2. print_int(x) = digits
      BY <2>8, Zenon DEF print_int
    <3>3. p = Len(digits)
      <4> HIDE DEF digits
      <4> QED
        BY <2>4, <3>1
    <3> HIDE DEF digits, t, sign, p
    <3>4. itoa(x) = [q \in 0 .. p |->
                       IF q = p THEN NUL ELSE IF q < 0 THEN Minus ELSE digits[q - 0 + 1]]
      BY <2>6, <2>8, <3>1
    <3>5. ASSUME NEW q \in 0 .. p
          PROVE  (IF q = p THEN NUL ELSE IF q < 0 THEN Minus ELSE digits[q - 0 + 1]) =
                   IF q < p THEN digits[q + 1] ELSE NUL
      BY <2>4, <3>3
    <3> QED
      BY <3>2, <3>3, <3>4, <3>5 DEF Holds
  <2> QED
    BY <2>7, <2>8
<1>2. x \in MinInt .. MaxInt => ItoaPrints
  BY <1>1 DEF ItoaPrints
<1> QED
  BY <1>2, Argument, PTL
=============================================================================
