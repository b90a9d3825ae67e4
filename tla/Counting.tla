------------------------------ MODULE Counting ------------------------------
(***************************************************************************)
(* Facts about remainders, about the slots of a ring and about sums over a *)
(* finite set, for the proofs.                                             *)
(*                                                                         *)
(* The sum of f over S is the cardinality of the set of tokens <<x, k>>    *)
(* with 1 <= k <= f[x], so that its laws follow from the laws of           *)
(* cardinality; Bound is any number that no f[x] exceeds.                  *)
(***************************************************************************)
EXTENDS Integers, FiniteSets, FiniteSetTheorems, TLAPS

Tokens(S, f, Bound) == {t \in S \X (1 .. Bound) : t[2] <= f[t[1]]}
SumOver(S, f, Bound) == Cardinality(Tokens(S, f, Bound))

-----------------------------------------------------------------------------
(* Division with a divisor that is not a numeral *)

\* Quotient and remainder of a natural number.
LEMMA DivMod ==
    ASSUME NEW C \in Nat \ {0}, NEW u \in Nat
    PROVE  /\ u = C * (u \div C) + (u % C)
           /\ u \div C \in Nat
           /\ u % C \in 0 .. (C - 1)
BY SMTT(30)

\* They are unique.
LEMMA DivModUnique ==
    ASSUME NEW C \in Nat \ {0}, NEW k \in Int, NEW l \in Int,
           NEW m \in 0 .. (C - 1), NEW n \in 0 .. (C - 1),
           C * k + m = C * l + n
    PROVE  k = l /\ m = n
<1>1. CASE k > l
  <2>1. C * (k - l) >= C  BY <1>1, SMTT(30)
  <2>2. C * (k - l) = n - m  BY SMTT(30)
  <2>. QED  BY <2>1, <2>2
<1>2. CASE k < l
  <2>1. C * (l - k) >= C  BY <1>2, SMTT(30)
  <2>2. C * (l - k) = m - n  BY SMTT(30)
  <2>. QED  BY <2>1, <2>2
<1>3. CASE k = l  BY <1>3
<1>. QED  BY <1>1, <1>2, <1>3

\* The remainder of the successor.
LEMMA ModInc ==
    ASSUME NEW C \in Nat \ {0}, NEW u \in Nat
    PROVE  (u + 1) % C = IF (u % C) + 1 = C THEN 0 ELSE (u % C) + 1
<1>. DEFINE k == u \div C
            m == u % C
            l == (u + 1) \div C
            n == (u + 1) % C
<1>1. /\ u = C * k + m /\ k \in Nat /\ m \in 0 .. (C - 1)
      /\ u + 1 = C * l + n /\ l \in Nat /\ n \in 0 .. (C - 1)
  BY DivMod, u + 1 \in Nat
<1>. HIDE DEF k, l, m, n
<1>2. CASE m + 1 = C
  <2>1. C * (k + 1) + 0 = C * l + n  BY <1>1, <1>2, SMTT(30)
  <2>2. 0 = n  BY <1>1, <2>1, DivModUnique, k + 1 \in Int, 0 \in 0 .. (C - 1), l \in Int
  <2>. QED  BY <1>2, <2>2 DEF m, n
<1>3. CASE m + 1 # C
  <2>1. C * k + (m + 1) = C * l + n  BY <1>1, <1>3, SMTT(30)
  <2>2. m + 1 \in 0 .. (C - 1)  BY <1>1, <1>3
  <2>3. m + 1 = n  BY <1>1, <2>1, <2>2, DivModUnique, k \in Int, l \in Int
  <2>. QED  BY <1>3, <2>3 DEF m, n
<1>. QED  BY <1>2, <1>3

\* Subtracting the divisor leaves the remainder alone.
LEMMA ModSub ==
    ASSUME NEW C \in Nat \ {0}, NEW u \in Nat, u >= C
    PROVE  (u - C) % C = u % C
<1>. DEFINE k == u \div C
            m == u % C
            l == (u - C) \div C
            n == (u - C) % C
<1>0. u - C \in Nat  OBVIOUS
<1>1. /\ u = C * k + m /\ k \in Nat /\ m \in 0 .. (C - 1)
      /\ u - C = C * l + n /\ l \in Nat /\ n \in 0 .. (C - 1)
  BY DivMod, <1>0
<1>. HIDE DEF k, l, m, n
<1>2. C * k + m = C * (l + 1) + n  BY <1>1, SMTT(30)
<1>3. m = n  BY <1>1, <1>2, DivModUnique, k \in Int, l + 1 \in Int
<1>. QED  BY <1>3 DEF m, n

\* A remainder does not exceed what it is the remainder of.
LEMMA ModAtMost ==
    ASSUME NEW C \in Nat \ {0}, NEW u \in Nat
    PROVE  u % C \in Nat /\ u % C <= u
<1>. DEFINE k == u \div C
            m == u % C
<1>1. u = C * k + m /\ k \in Nat /\ m \in 0 .. (C - 1)  BY DivMod
<1>. HIDE DEF k, m
<1>2. C * k >= 0  BY <1>1, SMTT(30)
<1>3. C * k \in Int  BY <1>1
<1>4. m \in Nat /\ m <= u  BY <1>1, <1>2, <1>3
<1>. QED  BY <1>4 DEF m

\* Multiplication by a natural number is monotonic.
LEMMA TimesMono ==
    ASSUME NEW C \in Nat, NEW m \in Nat, NEW n \in Nat, m <= n
    PROVE  C * m \in Nat /\ C * n \in Nat /\ C * m <= C * n
<1>1. C * m \in Int /\ C * n \in Int /\ C * (n - m) \in Int  OBVIOUS
<1>2. C * (n - m) >= 0 /\ C * m >= 0  BY SMTT(30)
<1>3. C * n = C * m + C * (n - m)  BY SMTT(30)
<1>. QED  BY <1>1, <1>2, <1>3

-----------------------------------------------------------------------------
(* Slots of a ring *)

\* The way from a to b around a ring of C slots.
Dist(C, a, b) == IF b >= a THEN b - a ELSE (b - a) + C

\* The remainder of a number that is off by at most one round.
LEMMA ModRange ==
    ASSUME NEW C \in Nat \ {0}, NEW u \in Int
    PROVE  /\ u \in 0 .. (C - 1) => u % C = u
           /\ u \in C .. (2 * C - 1) => u % C = u - C
           /\ u \in (-C) .. (-1) => u % C = u + C
<1>. DEFINE k == u \div C
            m == u % C
<1>1. u = C * k + m /\ k \in Int /\ m \in 0 .. (C - 1)  BY SMTT(30)
<1>. HIDE DEF k, m
<1>2. ASSUME u \in 0 .. (C - 1) PROVE m = u
  <2>1. C * k + m = C * 0 + u  BY <1>1, <1>2
  <2>. QED  BY <1>1, <1>2, <2>1, DivModUnique, 0 \in Int
<1>3. ASSUME u \in C .. (2 * C - 1) PROVE m = u - C
  <2>1. C * k + m = C * 1 + (u - C)  BY <1>1, <1>3
  <2>2. u - C \in 0 .. (C - 1)  BY <1>3
  <2>. QED  BY <1>1, <2>1, <2>2, DivModUnique, 1 \in Int
<1>4. ASSUME u \in (-C) .. (-1) PROVE m = u + C
  <2>1. C * k + m = C * (-1) + (u + C)  BY <1>1, <1>4
  <2>2. u + C \in 0 .. (C - 1)  BY <1>4
  <2>. QED  BY <1>1, <2>1, <2>2, DivModUnique, -1 \in Int
<1>. QED  BY <1>2, <1>3, <1>4 DEF m

\* The difference of two slots, modulo the ring, is the way between them.
LEMMA DistMod ==
    ASSUME NEW C \in Nat \ {0}, NEW a \in 0 .. (C - 1), NEW b \in 0 .. (C - 1)
    PROVE  (b - a) % C = Dist(C, a, b) /\ Dist(C, a, b) \in 0 .. (C - 1)
<1>1. CASE b >= a
  <2>1. b - a \in 0 .. (C - 1)  BY <1>1
  <2>. QED  BY <1>1, <2>1, ModRange DEF Dist
<1>2. CASE b < a
  <2>. DEFINE u == b - a
  <2>1. u \in Int /\ u \in (-C) .. (-1)  BY <1>2
  <2>2. u % C = u + C  BY <2>1, ModRange
  <2>3. Dist(C, a, b) = u + C  BY <1>2 DEF Dist
  <2>4. u + C \in 0 .. (C - 1)  BY <2>1
  <2>. QED  BY <2>2, <2>3, <2>4
<1>. QED  BY <1>1, <1>2

\* Going on from a slot by at most one round.
LEMMA WrapInc ==
    ASSUME NEW C \in Nat \ {0}, NEW a \in 0 .. (C - 1), NEW k \in 0 .. C
    PROVE  (a + k) % C = IF a + k < C THEN a + k ELSE (a + k) - C
<1>. DEFINE u == a + k
<1>0. u \in Int  OBVIOUS
<1>1. CASE u < C
  <2>1. u \in 0 .. (C - 1)  BY <1>1
  <2>. QED  BY <1>0, <1>1, <2>1, ModRange
<1>2. CASE u >= C
  <2>1. u \in C .. (2 * C - 1)  BY <1>2
  <2>2. u % C = u - C  BY <1>0, <2>1, ModRange
  <2>. HIDE DEF u
  <2>3. u % C = IF u < C THEN u ELSE u - C  BY <1>0, <1>2, <2>2
  <2>. QED  BY <2>3 DEF u
<1>. QED  BY <1>1, <1>2

\* A multiple of the divisor makes no difference.
LEMMA ModMultiple ==
    ASSUME NEW W \in Nat \ {0}, NEW T \in Nat, T % W = 0, NEW u \in Nat
    PROVE  (u + T) % W = u % W
<1>. DEFINE q == T \div W
            k == u \div W
            m == u % W
            l == (u + T) \div W
            n == (u + T) % W
<1>1. /\ T = W * q + 0 /\ q \in Nat
      /\ u = W * k + m /\ k \in Nat /\ m \in 0 .. (W - 1)
      /\ u + T = W * l + n /\ l \in Nat /\ n \in 0 .. (W - 1)
  BY DivMod, u + T \in Nat
<1>. HIDE DEF q, k, m, l, n
<1>2. W * (k + q) + m = W * l + n  BY <1>1, SMTT(30)
<1>3. m = n  BY <1>1, <1>2, DivModUnique, k + q \in Int, l \in Int
<1>. QED  BY <1>3 DEF m, n

\* The remainder of a sum, from the remainder of a summand.
LEMMA ModAdd ==
    ASSUME NEW W \in Nat \ {0}, NEW u \in Nat, NEW k \in 0 .. W
    PROVE  (u + k) % W = IF (u % W) + k < W THEN (u % W) + k
                                            ELSE ((u % W) + k) - W
<1>. DEFINE j == u \div W
            m == u % W
            l == (u + k) \div W
            n == (u + k) % W
<1>1. /\ u = W * j + m /\ j \in Nat /\ m \in 0 .. (W - 1)
      /\ u + k = W * l + n /\ l \in Nat /\ n \in 0 .. (W - 1)
  BY DivMod, u + k \in Nat
<1>. HIDE DEF j, m, l, n
<1>2. CASE m + k < W
  <2>1. W * j + (m + k) = W * l + n  BY <1>1, SMTT(30)
  <2>2. m + k \in 0 .. (W - 1)  BY <1>1, <1>2
  <2>3. m + k = n  BY <1>1, <2>1, <2>2, DivModUnique, j \in Int, l \in Int
  <2>. QED  BY <1>2, <2>3 DEF m, n
<1>3. CASE m + k >= W
  <2>0. W * (j + 1) = (W * j) + W  BY <1>1, SMTT(30)
  <2>1. W * (j + 1) + ((m + k) - W) = W * l + n
    <3>. DEFINE X == W * j
                Y == W * l
                Z == W * (j + 1)
    <3>1. X \in Int /\ Y \in Int /\ Z \in Int  BY <1>1
    <3>2. u = X + m /\ u + k = Y + n /\ Z = X + W  BY <1>1, <2>0
    <3>. HIDE DEF X, Y, Z
    <3>3. Z + ((m + k) - W) = Y + n  BY <1>1, <3>1, <3>2
    <3>. QED  BY <3>3 DEF Y, Z
  <2>2. (m + k) - W \in 0 .. (W - 1)  BY <1>1, <1>3
  <2>3. (m + k) - W = n
    <3>. DEFINE o == j + 1
                p == (m + k) - W
    <3>1. o \in Int /\ l \in Int /\ p \in 0 .. (W - 1)  BY <1>1, <2>2
    <3>2. W * o + p = W * l + n  BY <2>1
    <3>. HIDE DEF o, p
    <3>3. p = n  BY <1>1, <3>1, <3>2, DivModUnique
    <3>. QED  BY <3>3 DEF p
  <2>. QED  BY <1>1, <1>3, <2>3 DEF m, n
<1>. QED  BY <1>1, <1>2, <1>3 DEF m

\* Slots less than a window apart keep their distance when masked.
LEMMA WindowIndex ==
    ASSUME NEW W \in Nat \ {0}, NEW T \in Nat \ {0}, T % W = 0,
           NEW a \in 0 .. (T - 1), NEW b \in 0 .. (T - 1), Dist(T, a, b) <= W
    PROVE  b % W = IF (a % W) + Dist(T, a, b) < W
                   THEN (a % W) + Dist(T, a, b)
                   ELSE ((a % W) + Dist(T, a, b)) - W
<1>. DEFINE d == Dist(T, a, b)
<1>1. d \in 0 .. W  BY DEF Dist
<1>2. (a + d) % W = b % W
  <2>1. CASE b >= a  BY <2>1 DEF Dist
  <2>2. CASE b < a
    <3>1. a + d = b + T  BY <2>2 DEF Dist
    <3>. QED  BY <3>1, ModMultiple
  <2>. QED  BY <2>1, <2>2
<1>. HIDE DEF d
<1>3. (a + d) % W = IF (a % W) + d < W THEN (a % W) + d ELSE ((a % W) + d) - W
  <2>1. a \in Nat  OBVIOUS
  <2>. QED  BY <1>1, <2>1, ModAdd
<1>4. b % W = IF (a % W) + d < W THEN (a % W) + d ELSE ((a % W) + d) - W
  BY <1>2, <1>3
<1>. QED  BY <1>4 DEF d

\* The pointer after w is one slot further from a.
LEMMA RingInc ==
    ASSUME NEW C \in Nat \ {0}, NEW a \in 0 .. (C - 1), NEW w \in 0 .. (C - 1),
           (w - a) % C < C - 1
    PROVE  /\ (w + 1) % C \in 0 .. (C - 1)
           /\ (((w + 1) % C) - a) % C = ((w - a) % C) + 1
<1>. DEFINE v == (w + 1) % C
<1>1. v = IF w + 1 < C THEN w + 1 ELSE (w + 1) - C
  BY WrapInc, 1 \in 0 .. C
<1>2. v \in 0 .. (C - 1)  BY <1>1
<1>. HIDE DEF v
<1>3. (w - a) % C = Dist(C, a, w) /\ (v - a) % C = Dist(C, a, v)
  BY <1>2, DistMod
<1>4. Dist(C, a, w) < C - 1  BY <1>3
<1>5. Dist(C, a, v) = Dist(C, a, w) + 1  BY <1>1, <1>2, <1>4 DEF Dist
<1>6. v \in 0 .. (C - 1) /\ (v - a) % C = ((w - a) % C) + 1
  BY <1>2, <1>3, <1>5
<1>. QED  BY <1>6 DEF v

\* From the pointer after a it is one slot less to w.
LEMMA RingDec ==
    ASSUME NEW C \in Nat \ {0}, NEW a \in 0 .. (C - 1), NEW w \in 0 .. (C - 1),
           a # w
    PROVE  /\ (a + 1) % C \in 0 .. (C - 1)
           /\ (w - ((a + 1) % C)) % C = ((w - a) % C) - 1
           /\ (w - a) % C > 0
<1>. DEFINE v == (a + 1) % C
<1>1. v = IF a + 1 < C THEN a + 1 ELSE (a + 1) - C
  BY WrapInc, 1 \in 0 .. C
<1>2. v \in 0 .. (C - 1)  BY <1>1
<1>. HIDE DEF v
<1>3. (w - a) % C = Dist(C, a, w) /\ (w - v) % C = Dist(C, v, w)
  BY <1>2, DistMod
<1>4. Dist(C, v, w) = Dist(C, a, w) - 1 /\ Dist(C, a, w) > 0
  BY <1>1, <1>2 DEF Dist
<1>5. /\ v \in 0 .. (C - 1) /\ (w - v) % C = ((w - a) % C) - 1
      /\ (w - a) % C > 0
  BY <1>2, <1>3, <1>4
<1>. QED  BY <1>5 DEF v

\* The way from a to c over b, if it stays within one round.
LEMMA RingSum ==
    ASSUME NEW C \in Nat \ {0}, NEW a \in 0 .. (C - 1), NEW b \in 0 .. (C - 1),
           NEW c \in 0 .. (C - 1), ((b - a) % C) + ((c - b) % C) < C
    PROVE  (c - a) % C = ((b - a) % C) + ((c - b) % C)
<1>1. /\ (b - a) % C = Dist(C, a, b) /\ (c - b) % C = Dist(C, b, c)
      /\ (c - a) % C = Dist(C, a, c)
  BY DistMod
<1>2. Dist(C, a, b) + Dist(C, b, c) < C  BY <1>1
<1>3. Dist(C, a, c) = Dist(C, a, b) + Dist(C, b, c)  BY <1>2 DEF Dist
<1>. QED  BY <1>1, <1>3

\* The way is zero only from a slot to itself.
LEMMA RingZero ==
    ASSUME NEW C \in Nat \ {0}, NEW a \in 0 .. (C - 1), NEW b \in 0 .. (C - 1)
    PROVE  (b - a) % C \in 0 .. (C - 1) /\ ((b - a) % C = 0 <=> a = b)
<1>1. (b - a) % C = Dist(C, a, b)  BY DistMod
<1>2. Dist(C, a, b) \in 0 .. (C - 1) /\ (Dist(C, a, b) = 0 <=> a = b)
  BY DEF Dist
<1>. QED  BY <1>1, <1>2

\* Going on by k slots.
LEMMA RingAdd ==
    ASSUME NEW C \in Nat \ {0}, NEW a \in 0 .. (C - 1), NEW k \in 0 .. (C - 1)
    PROVE  /\ (a + k) % C \in 0 .. (C - 1)
           /\ (((a + k) % C) - a) % C = k
<1>. DEFINE v == (a + k) % C
<1>1. v = IF a + k < C THEN a + k ELSE (a + k) - C  BY WrapInc, k \in 0 .. C
<1>2. v \in 0 .. (C - 1)  BY <1>1
<1>. HIDE DEF v
<1>3. (v - a) % C = Dist(C, a, v)  BY <1>2, DistMod
<1>4. Dist(C, a, v) = k  BY <1>1, <1>2 DEF Dist
<1>5. v \in 0 .. (C - 1) /\ (v - a) % C = k  BY <1>2, <1>3, <1>4
<1>. QED  BY <1>5 DEF v

\* A slot is known by the way to another one.
LEMMA RingSame ==
    ASSUME NEW C \in Nat \ {0}, NEW a \in 0 .. (C - 1), NEW b \in 0 .. (C - 1),
           NEW c \in 0 .. (C - 1), (c - a) % C = (c - b) % C
    PROVE  a = b
<1>1. (c - a) % C = Dist(C, a, c) /\ (c - b) % C = Dist(C, b, c)  BY DistMod
<1>2. Dist(C, a, c) = Dist(C, b, c)  BY <1>1
<1>. QED  BY <1>2 DEF Dist

\* A slot on the way from a to c splits it.
LEMMA RingSplit ==
    ASSUME NEW C \in Nat \ {0}, NEW a \in 0 .. (C - 1), NEW b \in 0 .. (C - 1),
           NEW c \in 0 .. (C - 1), (b - a) % C <= (c - a) % C
    PROVE  (c - a) % C = ((b - a) % C) + ((c - b) % C)
<1>1. /\ (b - a) % C = Dist(C, a, b) /\ (c - b) % C = Dist(C, b, c)
      /\ (c - a) % C = Dist(C, a, c)
  BY DistMod
<1>2. Dist(C, a, b) <= Dist(C, a, c)  BY <1>1
<1>3. Dist(C, a, c) = Dist(C, a, b) + Dist(C, b, c)  BY <1>2 DEF Dist
<1>. QED  BY <1>1, <1>3

-----------------------------------------------------------------------------
(* Sums *)

\* The token set is finite, so a sum is a natural number.
LEMMA SumType ==
    ASSUME NEW S, IsFiniteSet(S), NEW f, NEW Bound \in Nat
    PROVE  IsFiniteSet(Tokens(S, f, Bound)) /\ SumOver(S, f, Bound) \in Nat
<1>1. IsFiniteSet(1 .. Bound)  BY FS_Interval
<1>2. IsFiniteSet(S \X (1 .. Bound))  BY <1>1, FS_Product
<1>3. Tokens(S, f, Bound) \in SUBSET (S \X (1 .. Bound))  BY DEF Tokens
<1>4. IsFiniteSet(Tokens(S, f, Bound))  BY <1>2, <1>3, FS_Subset
<1>. QED  BY <1>4, FS_CardinalityType DEF SumOver

\* The tokens of one member are as many as its value.
LEMMA ColumnSize ==
    ASSUME NEW x, NEW n \in Nat
    PROVE  /\ IsFiniteSet({x} \X (1 .. n))
           /\ Cardinality({x} \X (1 .. n)) = n
<1>1. IsFiniteSet(1 .. n) /\ Cardinality(1 .. n) = n  BY FS_Interval
<1>2. IsFiniteSet({x}) /\ Cardinality({x}) = 1  BY FS_Singleton
<1>3. /\ IsFiniteSet({x} \X (1 .. n))
      /\ Cardinality({x} \X (1 .. n)) = Cardinality({x}) * Cardinality(1 .. n)
  BY <1>1, <1>2, FS_Product
<1>. QED  BY <1>1, <1>2, <1>3

\* The tokens of all other members.
Others(S, f, Bound, x) == {t \in Tokens(S, f, Bound) : t[1] # x}

\* A sum is the value of one member and what the others contribute.
LEMMA SumSplit ==
    ASSUME NEW S, IsFiniteSet(S), NEW Bound \in Nat,
           NEW f \in [S -> 0 .. Bound], NEW x \in S
    PROVE  /\ Cardinality(Others(S, f, Bound, x)) \in Nat
           /\ SumOver(S, f, Bound)
                = f[x] + Cardinality(Others(S, f, Bound, x))
<1>. DEFINE T == Tokens(S, f, Bound)
            O == Others(S, f, Bound, x)
            X == {x} \X (1 .. f[x])
<1>1. f[x] \in Nat /\ f[x] <= Bound  OBVIOUS
<1>2. IsFiniteSet(T)  BY SumType
<1>3. O \in SUBSET T  BY DEF Others
<1>4. IsFiniteSet(O) /\ Cardinality(O) \in Nat
  BY <1>2, <1>3, FS_Subset, FS_CardinalityType
<1>5. IsFiniteSet(X) /\ Cardinality(X) = f[x]  BY <1>1, ColumnSize
<1>6. T = O \cup X
  <2>1. ASSUME NEW t \in T PROVE t \in O \cup X
    BY <2>1, <1>1 DEF Tokens, Others
  <2>2. ASSUME NEW t \in X PROVE t \in T
    BY <2>2, <1>1 DEF Tokens
  <2>. QED  BY <2>1, <2>2, <1>3
<1>7. O \cap X = {}  BY DEF Others
<1>8. Cardinality(O \cup X) = Cardinality(O) + Cardinality(X) - Cardinality({})
  BY <1>4, <1>5, <1>7, FS_Union
<1>9. Cardinality({}) = 0  BY FS_EmptySet
<1>10. Cardinality(T) = Cardinality(O) + f[x]
  BY <1>4, <1>5, <1>6, <1>8, <1>9, <1>1
<1>. QED  BY <1>1, <1>4, <1>10 DEF SumOver

\* Changing one value changes the sum by the difference.
LEMMA SumUpdate ==
    ASSUME NEW S, IsFiniteSet(S), NEW Bound \in Nat,
           NEW f \in [S -> 0 .. Bound], NEW g \in [S -> 0 .. Bound],
           NEW x \in S, \A y \in S \ {x} : g[y] = f[y]
    PROVE  SumOver(S, g, Bound) = SumOver(S, f, Bound) - f[x] + g[x]
<1>1. Others(S, g, Bound, x) = Others(S, f, Bound, x)
  BY DEF Others, Tokens
<1>2. /\ Cardinality(Others(S, f, Bound, x)) \in Nat
      /\ SumOver(S, f, Bound) = f[x] + Cardinality(Others(S, f, Bound, x))
  BY SumSplit
<1>3. SumOver(S, g, Bound) = g[x] + Cardinality(Others(S, g, Bound, x))
  BY SumSplit
<1>4. f[x] \in Nat /\ g[x] \in Nat  OBVIOUS
<1>. QED  BY <1>1, <1>2, <1>3, <1>4

\* Moving one unit from one member to another leaves the sum alone.
LEMMA SumMove ==
    ASSUME NEW S, IsFiniteSet(S), NEW Bound \in Nat,
           NEW f \in [S -> 0 .. Bound], NEW g \in [S -> 0 .. Bound],
           NEW p \in S, NEW q \in S, p # q,
           \A y \in S \ {p, q} : g[y] = f[y],
           g[p] = f[p] - 1, g[q] = f[q] + 1
    PROVE  SumOver(S, g, Bound) = SumOver(S, f, Bound)
<1>. DEFINE h == [f EXCEPT ![p] = g[p]]
<1>0. /\ h \in [S -> 0 .. Bound] /\ h[p] = g[p] /\ h[q] = f[q]
      /\ \A y \in S \ {p} : h[y] = f[y]
      /\ \A y \in S \ {q} : g[y] = h[y]
  OBVIOUS
<1>. HIDE DEF h
<1>1. SumOver(S, h, Bound) = SumOver(S, f, Bound) - f[p] + h[p]
  BY <1>0, SumUpdate
<1>2. SumOver(S, g, Bound) = SumOver(S, h, Bound) - h[q] + g[q]
  BY <1>0, SumUpdate
<1>3. f[p] \in Nat /\ f[q] \in Nat /\ SumOver(S, f, Bound) \in Nat
  BY SumType
<1>. QED  BY <1>0, <1>1, <1>2, <1>3

\* No member exceeds the sum.
LEMMA SumAtLeast ==
    ASSUME NEW S, IsFiniteSet(S), NEW Bound \in Nat,
           NEW f \in [S -> 0 .. Bound], NEW x \in S
    PROVE  f[x] <= SumOver(S, f, Bound)
<1>1. f[x] \in Nat  OBVIOUS
<1>. QED  BY <1>1, SumSplit

\* The sum of a constant function.
LEMMA SumConstant ==
    ASSUME NEW S, IsFiniteSet(S), NEW Bound \in Nat, NEW c \in 0 .. Bound
    PROVE  SumOver(S, [x \in S |-> c], Bound) = Cardinality(S) * c
<1>1. Tokens(S, [x \in S |-> c], Bound) = S \X (1 .. c)
  BY DEF Tokens
<1>2. IsFiniteSet(1 .. c) /\ Cardinality(1 .. c) = c  BY FS_Interval
<1>3. Cardinality(S \X (1 .. c)) = Cardinality(S) * Cardinality(1 .. c)
  BY <1>2, FS_Product
<1>. QED  BY <1>1, <1>2, <1>3 DEF SumOver
=============================================================================
