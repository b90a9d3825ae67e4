------------------------ MODULE ReorderBufferProofs ------------------------
(***************************************************************************)
(* Proofs about ReorderBuffer: for every number of queues, window, modulus *)
(* and run of MPDUs, the reorder buffers are consistent, strand no frame   *)
(* behind NSSN, are empty when a flush completes, and implement            *)
(* InOrderDelivery.  All of it needs "Aligned": BufSize divides SnMod.     *)
(*                                                                         *)
(* The invariant keeps, for every queue, a sequence hs of heads: hs[1] is  *)
(* the number (not modulo SnMod) that head_sn stands for, hs[i + 1] what   *)
(* it is when i messages of the fifo have been handled, and the last one   *)
(* is the firmware's NSSN.  Every message is legal at its own head, every  *)
(* frame in the lists is in the window that starts at hs[1], and nothing   *)
(* delivered is beyond it.                                                 *)
(***************************************************************************)
EXTENDS ReorderBuffer, Counting, SequenceTheorems, WellFoundedInduction, TLAPS

-----------------------------------------------------------------------------
(* Induction, and concatenation of lists *)

\* Every set of natural numbers that is not empty has a least member.
LEMMA LeastNatural ==
    ASSUME NEW T, T \subseteq Nat, T # {}
    PROVE  \E x \in T : \A y \in T : x <= y
<1>. DEFINE R == OpToRel(<, Nat)
<1>1. IsWellFoundedOn(R, Nat)
  BY NatLessThanWellFounded, Zenon
<1>2. R = {p \in Nat \X Nat : p[1] < p[2]}
  BY DEF OpToRel
<1>. HIDE DEF R
<1>3. PICK x \in T : \A y \in T : <<y, x>> \notin R
  BY <1>1, WFMin
<1>4. ASSUME NEW y \in T PROVE x <= y
  <2>1. <<y, x>> \notin {p \in Nat \X Nat : p[1] < p[2]}  BY <1>2, <1>3
  <2>2. x \in Nat /\ y \in Nat  OBVIOUS
  <2>3. ~(y < x)  BY <2>1, <2>2
  <2>. QED  BY <2>2, <2>3
<1>. QED  BY <1>4

\* Induction over the natural numbers, about a set.
LEMMA SetInduction ==
    ASSUME NEW T, 0 \in T, \A n \in Nat : n \in T => n + 1 \in T
    PROVE  Nat \subseteq T
<1>. SUFFICES ASSUME Nat \ T # {} PROVE FALSE  OBVIOUS
<1>1. PICK x \in Nat \ T : \A y \in Nat \ T : x <= y
  BY LeastNatural, Nat \ T \subseteq Nat
<1>2. x # 0  OBVIOUS
<1>3. x - 1 \in Nat /\ x - 1 \in T  BY <1>1, <1>2
<1>. QED  BY <1>3

\* F[i] is the concatenation of the first i lists.
Flat(ss, F) ==
    /\ DOMAIN F = 1..Len(ss)
    /\ \A i \in 1..Len(ss) : F[i] = IF i = 1 THEN ss[i] ELSE F[i - 1] \o ss[i]

\* What FlattenSeq computes.
LEMMA FlattenDef ==
    ASSUME NEW S, NEW ss \in Seq(Seq(S)), Len(ss) # 0
    PROVE  \E F \in [1..Len(ss) -> Seq(S)] :
              Flat(ss, F) /\ FlattenSeq(ss) = F[Len(ss)]
<1>. DEFINE n == Len(ss)
            Body(f) == [i \in 1..n |-> IF i = 1 THEN ss[i]
                                       ELSE f[i - 1] \o ss[i]]
            UpTo(f, m) == \A i \in 1..n : i <= m =>
                f[i] = IF i = 1 THEN ss[i] ELSE f[i - 1] \o ss[i]
            T == {m \in Nat : \E f \in [1..n -> Seq(S)] : UpTo(f, m)}
            F == CHOOSE f : f = Body(f)
            U == {m \in Nat : \A i \in 1..n : i <= m => F[i] \in Seq(S)}
<1>0. n \in Nat \ {0} /\ \A i \in 1..n : ss[i] \in Seq(S)
  BY LenProperties
<1>1. 0 \in T
  <2>1. [i \in 1..n |-> <<>>] \in [1..n -> Seq(S)]  BY EmptySeq
  <2>. QED  BY <2>1, <1>0
<1>2. ASSUME NEW m \in Nat, m \in T PROVE m + 1 \in T
  <2>1. PICK f \in [1..n -> Seq(S)] : UpTo(f, m)
    BY <1>2
  <2>. DEFINE g == [i \in 1..n |-> IF i = m + 1
                      THEN IF i = 1 THEN ss[i] ELSE f[i - 1] \o ss[i]
                      ELSE f[i]]
  <2>2. g \in [1..n -> Seq(S)]
    <3>. SUFFICES ASSUME NEW i \in 1..n PROVE g[i] \in Seq(S)  OBVIOUS
    <3>1. CASE i = m + 1 /\ i # 1
      <4>1. i - 1 \in 1..n  BY <3>1, <1>0
      <4>. QED  BY <3>1, <4>1, <1>0, ConcatProperties
    <3>. QED  BY <3>1, <1>0
  <2>3. ASSUME NEW i \in 1..n, i <= m + 1
        PROVE  g[i] = IF i = 1 THEN ss[i] ELSE g[i - 1] \o ss[i]
    <3>1. CASE i = 1
      <4>1. CASE m = 0  BY <3>1, <4>1
      <4>2. CASE m # 0
        <5>1. 1 <= m /\ g[1] = f[1]  BY <4>2, <1>0
        <5>. QED  BY <5>1, <3>1, <2>1
      <4>. QED  BY <4>1, <4>2
    <3>2. CASE i # 1
      <4>1. i - 1 \in 1..n /\ i - 1 # m + 1  BY <3>2, <2>3, <1>0
      <4>2. g[i - 1] = f[i - 1]  BY <4>1
      <4>3. CASE i = m + 1  BY <4>2, <4>3, <3>2
      <4>4. CASE i # m + 1
        <5>1. i <= m /\ g[i] = f[i]  BY <4>4, <2>3, <1>0
        <5>. QED  BY <5>1, <4>2, <3>2, <2>1
      <4>. QED  BY <4>3, <4>4
    <3>. QED  BY <3>1, <3>2
  <2>4. UpTo(g, m + 1)  BY <2>3
  <2>. HIDE DEF g, UpTo
  <2>. QED  BY <2>2, <2>4
<1>3. PICK f0 \in [1..n -> Seq(S)] : \A i \in 1..n :
           f0[i] = IF i = 1 THEN ss[i] ELSE f0[i - 1] \o ss[i]
  <2>1. n \in T
    <3>. HIDE DEF T, n
    <3>. QED  BY <1>0, <1>1, <1>2, SetInduction
  <2>. QED  BY <2>1, <1>0
<1>4. f0 = Body(f0)  BY <1>3
<1>5. F = Body(F)
  <2>. HIDE DEF Body
  <2>. QED  BY <1>4
<1>6. Flat(ss, F)
  <2>. HIDE DEF F
  <2>. QED  BY <1>5 DEF Flat
<1>7. n \in U
  <2>. HIDE DEF F
  <2>1. 0 \in U  BY <1>0
  <2>2. ASSUME NEW m \in Nat, m \in U PROVE m + 1 \in U
    <3>. SUFFICES ASSUME NEW i \in 1..n, i = m + 1 PROVE F[i] \in Seq(S)
      BY <2>2, <1>0
    <3>1. CASE i = 1  BY <3>1, <1>0, <1>6 DEF Flat
    <3>2. CASE i # 1
      <4>1. i - 1 \in 1..n /\ i - 1 <= m  BY <3>2, <1>0
      <4>2. F[i - 1] \in Seq(S)  BY <4>1, <2>2
      <4>3. F[i] = F[i - 1] \o ss[i]  BY <3>2, <1>6 DEF Flat
      <4>. QED  BY <4>2, <4>3, <1>0, ConcatProperties
    <3>. QED  BY <3>1, <3>2
  <2>. HIDE DEF U, n
  <2>. QED  BY <1>0, <2>1, <2>2, SetInduction
<1>8. F \in [1..n -> Seq(S)]
  <2>. HIDE DEF F
  <2>1. \A i \in 1..n : F[i] \in Seq(S)  BY <1>7, <1>0
  <2>. QED  BY <2>1, <1>5
<1>9. FlattenSeq(ss) = F[n]  BY <1>0 DEF FlattenSeq
<1>. QED  BY <1>6, <1>8, <1>9

\* The order of InOrderDelivery, on frames and on lists.
Before(f, g) == InOrder!Before(f, g)
Ordered(s) == InOrder!Ordered(s)

\* What is in a concatenation.
LEMMA ToSetConcat ==
    ASSUME NEW S, NEW s \in Seq(S), NEW t \in Seq(S)
    PROVE  ToSet(s \o t) = ToSet(s) \union ToSet(t)
<1>1. /\ s \o t \in Seq(S) /\ Len(s \o t) = Len(s) + Len(t)
      /\ \A i \in 1 .. Len(s) + Len(t) : (s \o t)[i] =
            IF i <= Len(s) THEN s[i] ELSE t[i - Len(s)]
  BY ConcatProperties
<1>2. /\ Len(s) \in Nat /\ DOMAIN s = 1..Len(s)
      /\ Len(t) \in Nat /\ DOMAIN t = 1..Len(t)
      /\ DOMAIN (s \o t) = 1..(Len(s) + Len(t))
  BY <1>1, LenProperties
<1>3. ASSUME NEW i \in DOMAIN s PROVE s[i] \in ToSet(s \o t)
  BY <1>1, <1>2, i \in 1..(Len(s) + Len(t)) DEF ToSet
<1>4. ASSUME NEW i \in DOMAIN t PROVE t[i] \in ToSet(s \o t)
  <2>1. /\ i + Len(s) \in 1..(Len(s) + Len(t)) /\ ~(i + Len(s) <= Len(s))
        /\ (i + Len(s)) - Len(s) = i
    BY <1>2
  <2>2. (s \o t)[i + Len(s)] = t[i]  BY <1>1, <2>1
  <2>. QED  BY <1>2, <2>1, <2>2 DEF ToSet
<1>5. ASSUME NEW i \in DOMAIN (s \o t)
      PROVE  (s \o t)[i] \in ToSet(s) \union ToSet(t)
  <2>1. CASE i <= Len(s)  BY <1>1, <1>2, <2>1 DEF ToSet
  <2>2. CASE ~(i <= Len(s))
    BY <1>1, <1>2, <2>2, i - Len(s) \in 1..Len(t) DEF ToSet
  <2>. QED  BY <2>1, <2>2
<1>. QED  BY <1>3, <1>4, <1>5 DEF ToSet

\* Ordered lists follow one another.
LEMMA OrderedConcat ==
    ASSUME NEW S, NEW s \in Seq(S), NEW t \in Seq(S),
           Ordered(s), Ordered(t),
           \A f \in ToSet(s), g \in ToSet(t) : Before(f, g)
    PROVE  Ordered(s \o t)
<1>1. /\ s \o t \in Seq(S) /\ Len(s \o t) = Len(s) + Len(t)
      /\ \A i \in 1 .. Len(s) + Len(t) : (s \o t)[i] =
            IF i <= Len(s) THEN s[i] ELSE t[i - Len(s)]
  BY ConcatProperties
<1>2. /\ Len(s) \in Nat /\ DOMAIN s = 1..Len(s)
      /\ Len(t) \in Nat /\ DOMAIN t = 1..Len(t)
      /\ DOMAIN (s \o t) = 1..(Len(s) + Len(t))
  BY <1>1, LenProperties
<1>. SUFFICES ASSUME NEW i \in DOMAIN (s \o t), NEW j \in DOMAIN (s \o t),
                     i < j
              PROVE  Before((s \o t)[i], (s \o t)[j])
  BY DEF Ordered, Before, InOrder!Ordered
<1>3. CASE j <= Len(s)
  <2>1. i \in 1..Len(s) /\ j \in 1..Len(s)  BY <1>2, <1>3
  <2>2. (s \o t)[i] = s[i] /\ (s \o t)[j] = s[j]  BY <1>1, <1>2, <2>1
  <2>. QED  BY <1>2, <2>1, <2>2 DEF Ordered, Before, InOrder!Ordered
<1>4. CASE ~(j <= Len(s)) /\ i <= Len(s)
  <2>1. i \in 1..Len(s) /\ j - Len(s) \in 1..Len(t)  BY <1>2, <1>4
  <2>2. (s \o t)[i] = s[i] /\ (s \o t)[j] = t[j - Len(s)]
    BY <1>1, <1>2, <1>4
  <2>. QED  BY <1>2, <2>1, <2>2 DEF ToSet
<1>5. CASE ~(j <= Len(s)) /\ ~(i <= Len(s))
  <2>1. /\ i - Len(s) \in 1..Len(t) /\ j - Len(s) \in 1..Len(t)
        /\ i - Len(s) < j - Len(s)
    BY <1>2, <1>5
  <2>2. (s \o t)[i] = t[i - Len(s)] /\ (s \o t)[j] = t[j - Len(s)]
    BY <1>1, <1>2, <1>5
  <2>. QED  BY <1>2, <2>1, <2>2 DEF Ordered, Before, InOrder!Ordered
<1>. QED  BY <1>3, <1>4, <1>5

\* The concatenation of ordered lists, each before the next, is ordered, and
\* holds what they hold.
LEMMA FlattenOrdered ==
    ASSUME NEW S, NEW ss \in Seq(Seq(S)),
           \A k \in 1..Len(ss) : Ordered(ss[k]),
           \A j, k \in 1..Len(ss) : j < k =>
              \A f \in ToSet(ss[j]), g \in ToSet(ss[k]) : Before(f, g)
    PROVE  /\ FlattenSeq(ss) \in Seq(S)
           /\ Ordered(FlattenSeq(ss))
           /\ ToSet(FlattenSeq(ss)) = UNION {ToSet(ss[k]) : k \in 1..Len(ss)}
<1>. DEFINE n == Len(ss)
<1>0. n \in Nat /\ ss \in [1..n -> Seq(S)]
  BY LenProperties
<1>1. CASE n = 0
  <2>1. ss = <<>>  BY <1>1, EmptySeq
  <2>2. FlattenSeq(ss) = <<>>  BY <1>1, <2>1 DEF FlattenSeq
  <2>3. ToSet(<<>>) = {}  BY DEF ToSet
  <2>4. Ordered(<<>>)  BY DEF Ordered, InOrder!Ordered
  <2>5. UNION {ToSet(ss[k]) : k \in 1..n} = {}  BY <1>1
  <2>. QED  BY <2>2, <2>3, <2>4, <2>5, EmptySeq
<1>2. CASE n # 0
  <2>1. PICK F \in [1..n -> Seq(S)] :
             Flat(ss, F) /\ FlattenSeq(ss) = F[n]
    BY <1>2, FlattenDef
  <2>. DEFINE All(m) == UNION {ToSet(ss[k]) : k \in 1..m}
              Good(m) == Ordered(F[m]) /\ ToSet(F[m]) = All(m)
              T == {m \in Nat : m + 1 <= n => Good(m + 1)}
  <2>2. 0 \in T
    <3>1. F[1] = ss[1]  BY <1>0, <1>2, <2>1 DEF Flat
    <3>2. All(1) = ToSet(ss[1])  BY 1..1 = {1}
    <3>3. Good(1)  BY <3>1, <3>2, <1>0, <1>2
    <3>. HIDE DEF Good
    <3>. QED  BY <3>3
  <2>3. ASSUME NEW m \in Nat, m \in T, (m + 1) + 1 <= n
        PROVE  Good((m + 1) + 1)
    <3>. DEFINE p == m + 1
    <3>1. /\ p \in 1..n /\ p + 1 \in 1..n /\ p + 1 # 1 /\ (p + 1) - 1 = p
          /\ p <= n
      BY <1>0, <2>3
    <3>3. Good(p)
      <4>. HIDE DEF Good
      <4>. QED  BY <2>3, <3>1
    <3>. HIDE DEF p
    <3>2. F[p + 1] = F[p] \o ss[p + 1]
      BY <2>1, <3>1 DEF Flat
    <3>4. F[p] \in Seq(S) /\ ss[p + 1] \in Seq(S)
      BY <1>0, <2>1, <3>1
    <3>5. \A f \in ToSet(F[p]), g \in ToSet(ss[p + 1]) : Before(f, g)
      <4>1. \A j \in 1..p : j \in 1..n /\ j < p + 1  BY <1>0, <3>1
      <4>. QED  BY <3>1, <3>3, <4>1
    <3>6. Ordered(F[p + 1])  BY <3>1, <3>2, <3>3, <3>4, <3>5, OrderedConcat
    <3>7. ToSet(F[p + 1]) = ToSet(F[p]) \union ToSet(ss[p + 1])
      BY <3>2, <3>4, ToSetConcat
    <3>8. 1..(p + 1) = 1..p \union {p + 1}  BY <3>1, <1>0
    <3>9. All(p + 1) = All(p) \union ToSet(ss[p + 1])
      <4>1. ASSUME NEW x PROVE
              (\E k \in 1..(p + 1) : x \in ToSet(ss[k]))
              <=> \/ \E k \in 1..p : x \in ToSet(ss[k])
                  \/ x \in ToSet(ss[p + 1])
        BY <3>8
      <4>. QED  BY <4>1
    <3>10. Good(p + 1)
      <4>. HIDE DEF All
      <4>. QED  BY <3>3, <3>6, <3>7, <3>9
    <3>. QED  BY <3>10 DEF p
  <2>4. n - 1 \in Nat /\ (n - 1) + 1 = n  BY <1>0, <1>2
  <2>5. n - 1 \in T
    <3>. HIDE DEF Good, n
    <3>1. \A m \in Nat : m \in T => m + 1 \in T  BY <2>3
    <3>. HIDE DEF T
    <3>. QED  BY <2>2, <2>4, <3>1, SetInduction
  <2>6. Good(n)
    <3>. HIDE DEF Good, n
    <3>. QED  BY <2>4, <2>5, <1>0, <1>2
  <2>7. F[n] \in Seq(S)  BY <2>1, <1>0, <1>2
  <2>. QED  BY <2>1, <2>6, <2>7
<1>. QED  BY <1>1, <1>2

-----------------------------------------------------------------------------
\* The buffer's size divides the number of sequence numbers.
Aligned == SnMod % BufSize = 0

\* The frames in the lists, and what the lists are.
Held0(lists) == UNION {ToSet(lists[i]) : i \in 0..(BufSize - 1)}

Lists == [0..(BufSize - 1) -> Seq(Frames)]

\* The lists hold the frames of a window that starts at h, each in its place.
Window(lists, h) ==
    /\ lists \in Lists
    /\ \A i \in 0..(BufSize - 1) :
          /\ Ordered(lists[i])
          /\ \A f \in ToSet(lists[i]) :
                /\ h <= f[1] /\ f[1] < h + BufSize
                /\ f[1] % BufSize = i

\* The number of a frame and of its subframe.
LEMMA FrameType ==
    ASSUME NEW f \in Frames
    PROVE  /\ f[1] \in Mpdus /\ f[1] \in Nat /\ f[2] \in {1, 2}
           /\ f[2] \in Subframes(f[1]) /\ f = <<f[1], f[2]>>
<1>1. PICK n \in Mpdus : f \in {n} \X Subframes(n)  BY DEF Frames
<1>2. n \in Nat  BY SnAssumption, ReorderBounds DEF Mpdus, LastMpdu
<1>. QED  BY <1>1, <1>2 DEF Subframes

\* The lists hold frames.
LEMMA ListFrames ==
    ASSUME NEW lists \in Lists, NEW i \in 0..(BufSize - 1)
    PROVE  ToSet(lists[i]) \subseteq Frames
<1>1. lists[i] \in Seq(Frames)  BY DEF Lists
<1>. QED  BY <1>1, LenProperties, ElementOfSeq DEF ToSet

\* Comparing and adding sequence numbers modulo SnMod (ieee80211_sn_less,
\* ieee80211_sn_add) is right for numbers at most a window apart.
LEMMA SnSteps ==
    ASSUME NEW h \in Nat, NEW d \in 0..BufSize
    PROVE  /\ Sn(h) \in 0..(SnMod - 1) /\ Sn(h + d) \in 0..(SnMod - 1)
           /\ SnAdd(Sn(h), d) = Sn(h + d)
           /\ (Sn(h + d) - Sn(h)) % SnMod = d
           /\ SnLess(Sn(h), Sn(h + d)) <=> d > 0
           /\ ~SnLess(Sn(h + d), Sn(h))
           /\ Sn(h) = Sn(h + d) <=> d = 0
<1>. DEFINE a == Sn(h)
            b == Sn(h + d)
<1>0. SnMod \in Nat \ {0} /\ BufSize \in Nat \ {0} /\ 2 * BufSize < SnMod
  BY SnAssumption
<1>1. d \in 0..SnMod /\ d \in 0..(SnMod - 1)  BY <1>0
<1>2. a \in 0..(SnMod - 1) /\ b \in 0..(SnMod - 1)
  BY <1>0, DivMod, h + d \in Nat DEF Sn
<1>3. b = IF a + d < SnMod THEN a + d ELSE (a + d) - SnMod
  BY <1>0, <1>1, ModAdd DEF Sn
<1>4. (a + d) % SnMod = b
  BY <1>0, <1>1, <1>2, <1>3, WrapInc
<1>. HIDE DEF a, b
<1>5. (b - a) % SnMod = d
  <2>1. Dist(SnMod, a, b) = d  BY <1>0, <1>1, <1>2, <1>3 DEF Dist
  <2>. QED  BY <2>1, <1>0, <1>2, DistMod
<1>6. (a - b) % SnMod = IF d = 0 THEN 0 ELSE SnMod - d
  <2>1. Dist(SnMod, b, a) = IF d = 0 THEN 0 ELSE SnMod - d
    BY <1>0, <1>1, <1>2, <1>3 DEF Dist
  <2>. QED  BY <2>1, <1>0, <1>2, DistMod
<1>7. SnMod \div 2 \in Nat /\ 2 * (SnMod \div 2) <= SnMod
      /\ SnMod <= 2 * (SnMod \div 2) + 1
  BY <1>0
<1>8. SnLess(a, b) <=> d > 0
  BY <1>0, <1>1, <1>6, <1>7 DEF SnLess
<1>9. ~SnLess(b, a)
  BY <1>0, <1>1, <1>5, <1>7 DEF SnLess
<1>10. a = b <=> d = 0  BY <1>0, <1>1, <1>2, <1>3
<1>. QED  BY <1>2, <1>4, <1>5, <1>8, <1>9, <1>10 DEF a, b, SnAdd

\* A multiple of C does not change the remainder modulo C.
LEMMA TimesMod ==
    ASSUME NEW W \in Nat \ {0}, NEW x \in Nat
    PROVE  W * x \in Nat /\ (W * x) % W = 0
<1>1. W * x \in Nat  OBVIOUS
<1>2. /\ W * x = W * ((W * x) \div W) + ((W * x) % W)
      /\ (W * x) \div W \in Nat /\ (W * x) % W \in 0..(W - 1)
  BY <1>1, DivMod
<1>. DEFINE k == (W * x) \div W
            m == (W * x) % W
<1>3. W * x + 0 = W * k + m /\ k \in Nat /\ m \in 0..(W - 1)
  BY <1>1, <1>2
<1>. HIDE DEF k, m
<1>4. m = 0  BY <1>3, DivModUnique, 0 \in 0..(W - 1), x \in Int, k \in Int
<1>. QED  BY <1>1, <1>4 DEF m

\* The index of a list depends on the number alone, not on its wraps: this
\* is what needs Aligned.
LEMMA IndexSn ==
    ASSUME Aligned, NEW n \in Nat
    PROVE  Index(Sn(n)) = n % BufSize /\ n % BufSize \in 0..(BufSize - 1)
<1>0. SnMod \in Nat \ {0} /\ BufSize \in Nat \ {0}
  BY SnAssumption
<1>. DEFINE k == n \div SnMod
            m == n % SnMod
            j == SnMod \div BufSize
<1>1. n = SnMod * k + m /\ k \in Nat /\ m \in 0..(SnMod - 1)
  BY <1>0, DivMod
<1>2. SnMod = BufSize * j /\ j \in Nat
  BY <1>0, DivMod, SnMod % BufSize = 0 DEF Aligned
<1>. HIDE DEF k, m, j
<1>3. SnMod * k = BufSize * (j * k) /\ j * k \in Nat  BY <1>0, <1>1, <1>2
<1>4. SnMod * k \in Nat /\ (SnMod * k) % BufSize = 0
  BY <1>0, <1>3, TimesMod
<1>. DEFINE T == SnMod * k
<1>5. T \in Nat /\ T % BufSize = 0 /\ m \in Nat /\ n = m + T
  BY <1>0, <1>1, <1>4
<1>. HIDE DEF T
<1>6. n % BufSize = m % BufSize
  BY <1>0, <1>5, ModMultiple
<1>. QED  BY <1>0, <1>6, DivMod DEF Index, Sn, m

\* Numbers of one window have lists of their own.
LEMMA SlotsDiffer ==
    ASSUME NEW u \in Nat, NEW v \in Nat, u < v, v < u + BufSize
    PROVE  u % BufSize # v % BufSize
<1>0. BufSize \in Nat \ {0} /\ v - u \in 0..BufSize /\ v - u # 0
      /\ v - u < BufSize
  BY SnAssumption
<1>1. u + (v - u) = v  OBVIOUS
<1>2. v % BufSize = IF (u % BufSize) + (v - u) < BufSize
                    THEN (u % BufSize) + (v - u)
                    ELSE ((u % BufSize) + (v - u)) - BufSize
  BY <1>0, <1>1, ModAdd
<1>3. u % BufSize \in 0..(BufSize - 1)  BY <1>0, DivMod
<1>. QED  BY <1>0, <1>2, <1>3

\* Two numbers of one window that share a list are equal.
LEMMA SameSlot ==
    ASSUME NEW h \in Nat, NEW u \in Nat, NEW v \in Nat,
           h <= u, u < h + BufSize, h <= v, v < h + BufSize,
           u % BufSize = v % BufSize
    PROVE  u = v
<1>0. BufSize \in Nat  BY SnAssumption
<1>1. CASE u < v  BY <1>0, <1>1, SlotsDiffer, v < u + BufSize
<1>2. CASE v < u  BY <1>0, <1>2, SlotsDiffer, u < v + BufSize
<1>. QED  BY <1>1, <1>2

\* The loop of iwl_mld_reorder_release_frames visits the lists of the numbers
\* from the head to NSSN, in this order, each once.
LEMMA VisitedLists ==
    ASSUME Aligned, NEW q \in Queues, NEW h \in Nat, head_sn[q] = Sn(h),
           NEW d \in 0..BufSize
    PROVE  Visited(q, Sn(h + d)) = [k \in 1..d |-> (h + k - 1) % BufSize]
<1>0. BufSize \in Nat  BY SnAssumption
<1>1. Steps(q, Sn(h + d)) = d
  <2>1. /\ (Sn(h + d) - Sn(h)) % SnMod = d
        /\ SnLess(Sn(h), Sn(h + d)) <=> d > 0
    BY SnSteps
  <2>. QED  BY <1>0, <2>1 DEF Steps
<1>2. ASSUME NEW k \in 1..d
      PROVE  Index(SnAdd(head_sn[q], k - 1)) = (h + k - 1) % BufSize
  <2>1. k - 1 \in 0..BufSize /\ h + (k - 1) \in Nat /\ h + (k - 1) = h + k - 1
    BY <1>0
  <2>2. SnAdd(Sn(h), k - 1) = Sn(h + (k - 1))  BY <2>1, SnSteps
  <2>. QED  BY <2>1, <2>2, IndexSn
<1>. QED  BY <1>1, <1>2 DEF Visited

\* What the loop takes out: the frames below the new head, in order; the
\* others stay, and form a window that starts at the new head.
LEMMA Released ==
    ASSUME Aligned, NEW q \in Queues, NEW h \in Nat, head_sn[q] = Sn(h),
           NEW d \in 0..BufSize, NEW lists, Window(lists, h)
    PROVE  LET out == TakenOut(q, lists, Sn(h + d))
               left == Emptied(q, lists, Sn(h + d))
           IN  /\ out \in Seq(Frames) /\ Ordered(out)
               /\ ToSet(out) = {f \in Held0(lists) : f[1] < h + d}
               /\ Window(left, h + d)
               /\ Held0(left) = {f \in Held0(lists) : ~(f[1] < h + d)}
<1>. DEFINE out == TakenOut(q, lists, Sn(h + d))
            left == Emptied(q, lists, Sn(h + d))
            slot(k) == (h + k - 1) % BufSize
            v == [k \in 1..d |-> slot(k)]
            ss == [k \in 1..d |-> lists[slot(k)]]
<1>0. BufSize \in Nat \ {0} /\ d \in Nat /\ d <= BufSize  BY SnAssumption
<1>1. Visited(q, Sn(h + d)) = v  BY VisitedLists
<1>2. ASSUME NEW k \in 1..d
      PROVE  /\ slot(k) \in 0..(BufSize - 1) /\ h + k - 1 \in Nat
             /\ h <= h + k - 1 /\ h + k - 1 < h + BufSize
             /\ h + k - 1 < h + d
  <2>1. h + k - 1 \in Nat  OBVIOUS
  <2>. QED  BY <1>0, <2>1, DivMod
<1>3. ASSUME NEW k \in 1..d, NEW f \in ToSet(lists[slot(k)])
      PROVE  f \in Frames /\ f[1] \in Nat /\ f[1] = h + k - 1
  <2>1. f \in Frames  BY <1>2, ListFrames DEF Window
  <2>2. f[1] \in Nat  BY <2>1, FrameType
  <2>3. h <= f[1] /\ f[1] < h + BufSize /\ f[1] % BufSize = slot(k)
    BY <1>2 DEF Window
  <2>4. f[1] = h + k - 1  BY <2>2, <2>3, <1>2, SameSlot
  <2>. QED  BY <2>1, <2>2, <2>4
<1>4. ASSUME NEW j \in 1..d, NEW k \in 1..d, slot(j) = slot(k) PROVE j = k
  <2>1. h + j - 1 = h + k - 1
    <3>. HIDE DEF slot
    <3>. QED  BY <1>2, <1>4, SameSlot DEF slot
  <2>. QED  BY <2>1
<1>5. ss \in Seq(Seq(Frames)) /\ Len(ss) = d
      /\ \A k \in 1..d : ss[k] = lists[slot(k)]
  <2>1. \A k \in 1..d : lists[slot(k)] \in Seq(Frames)
    BY <1>2 DEF Window, Lists
  <2>. HIDE DEF slot
  <2>. QED  BY <2>1, <1>0
<1>6. out = FlattenSeq(ss)
  <2>1. \A k \in 1..d : \A j \in 1..(k - 1) : j \in 1..d /\ j # k
    BY <1>0
  <2>2. ~ \E k \in 1..d : \E j \in 1..(k - 1) : v[j] = v[k]
    <3>. HIDE DEF slot
    <3>. QED  BY <2>1, <1>4
  <2>3. DOMAIN v = 1..d /\ \A k \in 1..d : v[k] = slot(k)  OBVIOUS
  <2>. DEFINE w == [k \in DOMAIN v |->
                      IF \E j \in 1..(k - 1) : v[j] = v[k] THEN <<>>
                      ELSE lists[v[k]]]
  <2>4. w = ss
    <3>. HIDE DEF slot, v
    <3>. QED  BY <2>2, <2>3
  <2>5. out = FlattenSeq(w)  BY <1>1 DEF TakenOut
  <2>. QED  BY <2>4, <2>5
<1>7. \A k \in 1..Len(ss) : Ordered(ss[k])
  BY <1>2, <1>5 DEF Window
<1>8. \A j, k \in 1..Len(ss) : j < k =>
         \A f \in ToSet(ss[j]), g \in ToSet(ss[k]) : Before(f, g)
  <2>. SUFFICES ASSUME NEW j \in 1..d, NEW k \in 1..d, j < k,
                       NEW f \in ToSet(lists[slot(j)]),
                       NEW g \in ToSet(lists[slot(k)])
                PROVE  Before(f, g)
    <3>. HIDE DEF slot
    <3>. QED  BY <1>5
  <2>1. f[1] = h + j - 1 /\ g[1] = h + k - 1  BY <1>3
  <2>. QED  BY <2>1 DEF Before, InOrder!Before
<1>. HIDE DEF out, left, ss, slot, v
<1>9. /\ out \in Seq(Frames) /\ Ordered(out)
      /\ ToSet(out) = UNION {ToSet(ss[k]) : k \in 1..d}
  BY <1>5, <1>6, <1>7, <1>8, FlattenOrdered
<1>10. ASSUME NEW i \in 0..(BufSize - 1), NEW f \in ToSet(lists[i]),
              f[1] < h + d
       PROVE  \E k \in 1..d : slot(k) = i
  <2>1. f[1] \in Nat  BY ListFrames, FrameType DEF Window
  <2>2. h <= f[1] /\ f[1] % BufSize = i  BY DEF Window
  <2>3. (f[1] - h) + 1 \in 1..d /\ h + ((f[1] - h) + 1) - 1 = f[1]
    BY <2>1, <2>2, <1>10
  <2>4. slot((f[1] - h) + 1) = i  BY <2>2, <2>3 DEF slot
  <2>. QED  BY <2>3, <2>4
<1>11. ToSet(out) = {f \in Held0(lists) : f[1] < h + d}
  <2>1. ASSUME NEW f \in ToSet(out) PROVE f \in Held0(lists) /\ f[1] < h + d
    <3>1. PICK k \in 1..d : f \in ToSet(lists[slot(k)])  BY <1>5, <1>9
    <3>. QED  BY <3>1, <1>2, <1>3 DEF Held0
  <2>2. ASSUME NEW f \in Held0(lists), f[1] < h + d PROVE f \in ToSet(out)
    <3>1. PICK i \in 0..(BufSize - 1) : f \in ToSet(lists[i])  BY DEF Held0
    <3>2. PICK k \in 1..d : slot(k) = i  BY <2>2, <3>1, <1>10
    <3>3. f \in ToSet(ss[k])  BY <3>1, <3>2, <1>5
    <3>. QED  BY <3>2, <3>3, <1>9
  <2>. QED  BY <2>1, <2>2
<1>12. DOMAIN v = 1..d /\ \A k \in 1..d : v[k] = slot(k)  BY DEF v
<1>13. DOMAIN lists = 0..(BufSize - 1) /\ lists \in Lists
  BY DEF Window, Lists
<1>14. left = [i \in 0..(BufSize - 1) |->
                 IF \E k \in 1..d : slot(k) = i THEN <<>> ELSE lists[i]]
  BY <1>1, <1>12, <1>13 DEF left, Emptied
<1>15. ToSet(<<>>) = {}  BY DEF ToSet
<1>16. left \in Lists
  <2>1. <<>> \in Seq(Frames)  BY EmptySeq
  <2>. QED  BY <1>13, <1>14, <2>1 DEF Lists
<1>17. ASSUME NEW i \in 0..(BufSize - 1)
       PROVE  ToSet(left[i]) = {f \in ToSet(lists[i]) : ~(f[1] < h + d)}
  <2>1. CASE \E k \in 1..d : slot(k) = i
    <3>1. PICK k \in 1..d : slot(k) = i  BY <2>1
    <3>2. \A f \in ToSet(lists[i]) : f[1] < h + d  BY <3>1, <1>2, <1>3
    <3>3. left[i] = <<>>  BY <2>1, <1>14
    <3>. QED  BY <3>2, <3>3, <1>15
  <2>2. CASE ~ \E k \in 1..d : slot(k) = i
    <3>1. left[i] = lists[i]  BY <2>2, <1>14
    <3>. QED  BY <3>1, <2>2, <1>10
  <2>. QED  BY <2>1, <2>2
<1>18. Held0(left) = {f \in Held0(lists) : ~(f[1] < h + d)}
  BY <1>17 DEF Held0
<1>19. ASSUME NEW i \in 0..(BufSize - 1) PROVE Ordered(left[i])
  <2>1. Ordered(<<>>)  BY DEF Ordered, InOrder!Ordered
  <2>. QED  BY <1>14, <2>1 DEF Window
<1>20. ASSUME NEW i \in 0..(BufSize - 1), NEW f \in ToSet(left[i])
       PROVE  /\ h + d <= f[1] /\ f[1] < (h + d) + BufSize
              /\ f[1] % BufSize = i
  <2>1. f \in ToSet(lists[i]) /\ ~(f[1] < h + d)  BY <1>17
  <2>2. f[1] \in Nat  BY <2>1, <1>13, ListFrames, FrameType
  <2>3. h <= f[1] /\ f[1] < h + BufSize /\ f[1] % BufSize = i
    BY <2>1 DEF Window
  <2>. QED  BY <2>1, <2>2, <2>3, <1>0
<1>21. Window(left, h + d)  BY <1>16, <1>19, <1>20 DEF Window
<1>. QED  BY <1>9, <1>11, <1>18, <1>21 DEF out, left

\* What is in a list with one more element.
LEMMA ToSetAppend ==
    ASSUME NEW S, NEW s \in Seq(S), NEW x \in S
    PROVE  ToSet(Append(s, x)) = ToSet(s) \union {x}
<1>1. <<x>> \in Seq(S) /\ Append(s, x) = s \o <<x>>  OBVIOUS
<1>2. ToSet(<<x>>) = {x}  BY DEF ToSet
<1>3. ToSet(s \o <<x>>) = ToSet(s) \union ToSet(<<x>>)
  BY <1>1, ToSetConcat
<1>. QED  BY <1>1, <1>2, <1>3

\* The elements of a list of frames are frames.
LEMMA ToSetType ==
    ASSUME NEW S, NEW s \in Seq(S)
    PROVE  ToSet(s) \subseteq S /\ (ToSet(s) = {} <=> s = <<>>)
<1>1. Len(s) \in Nat /\ DOMAIN s = 1..Len(s) /\ \A i \in 1..Len(s) : s[i] \in S
  BY LenProperties
<1>2. s # <<>> => Len(s) # 0 /\ 1 \in DOMAIN s  BY <1>1, EmptySeq
<1>3. ToSet(<<>>) = {}  BY DEF ToSet
<1>. QED  BY <1>1, <1>2, <1>3 DEF ToSet

\* There are finitely many frames, at most two for each MPDU.
LEMMA FramesFinite ==
    IsFiniteSet(Frames) /\ Cardinality(Frames) <= 2 * (MaxMpdus + 1)
<1>0. FirstSn \in Nat /\ MaxMpdus \in Nat /\ FirstSn # 0
  BY SnAssumption, ReorderBounds
<1>1. IsFiniteSet(Mpdus) /\ Cardinality(Mpdus) = MaxMpdus + 1
  BY <1>0, FS_Interval DEF Mpdus, LastMpdu
<1>2. 1..2 = {1, 2} /\ IsFiniteSet({1, 2}) /\ Cardinality({1, 2}) = 2
  <2>1. 1..2 = {1, 2}  OBVIOUS
  <2>2. /\ IsFiniteSet(1..2)
        /\ Cardinality(1..2) = IF 1 > 2 THEN 0 ELSE 2 - 1 + 1
    BY FS_Interval, 1 \in Int, 2 \in Int, Zenon
  <2>. QED  BY <2>1, <2>2
<1>3. /\ IsFiniteSet(Mpdus \X {1, 2})
      /\ Cardinality(Mpdus \X {1, 2}) = Cardinality(Mpdus) * 2
  BY <1>1, <1>2, FS_Product
<1>4. Frames \in SUBSET (Mpdus \X {1, 2})  BY FrameType
<1>. QED  BY <1>0, <1>1, <1>3, <1>4, FS_Subset, FS_CardinalityType

\* An ordered list has no duplicates: it is as long as the set of its frames.
LEMMA OrderedLen ==
    ASSUME NEW s \in Seq(Frames), Ordered(s)
    PROVE  Len(s) = Cardinality(ToSet(s))
<1>1. /\ Len(s) \in Nat /\ DOMAIN s = 1..Len(s)
      /\ \A i \in 1..Len(s) : s[i] \in Frames
  BY LenProperties
<1>2. s \in [1..Len(s) -> ToSet(s)]
  BY <1>1, LenProperties DEF ToSet
<1>3. s \in Surjection(1..Len(s), ToSet(s))
  BY <1>1, <1>2 DEF Surjection, ToSet
<1>4. ASSUME NEW i \in 1..Len(s), NEW j \in 1..Len(s), s[i] = s[j] PROVE i = j
  <2>1. ASSUME NEW f \in Frames PROVE ~Before(f, f)
    <3>1. f[1] \in Nat /\ f[2] \in Nat  BY FrameType
    <3>. QED  BY <3>1 DEF Before, InOrder!Before
  <2>2. i < j => Before(s[i], s[j])
    BY <1>1 DEF Ordered, InOrder!Ordered, Before
  <2>3. j < i => Before(s[j], s[i])
    BY <1>1 DEF Ordered, InOrder!Ordered, Before
  <2>. QED  BY <1>1, <1>4, <2>1, <2>2, <2>3
<1>5. s \in Injection(1..Len(s), ToSet(s))
  <2>1. \A i, j \in 1..Len(s) : s[i] = s[j] => i = j  BY <1>4
  <2>. QED  BY <1>2, <2>1, Zenon DEF Injection, IsInjective
<1>6. /\ IsFiniteSet(1..Len(s))
      /\ Cardinality(1..Len(s)) = IF 1 > Len(s) THEN 0 ELSE Len(s) - 1 + 1
  BY <1>1, FS_Interval, 1 \in Int, Len(s) \in Int, Zenon
<1>7. Cardinality(1..Len(s)) = Len(s)  BY <1>1, <1>6
<1>. QED  BY <1>3, <1>5, <1>6, <1>7, FS_Surjection

\* Subframes of one MPDU are in their order.
Precedes(f, g) == f[1] = g[1] => f[2] < g[2]

\* A frame of the window is put behind the subframes before it.
LEMMA Stored ==
    ASSUME Aligned, NEW h \in Nat, NEW lists, Window(lists, h),
           NEW f \in Frames, h <= f[1], f[1] < h + BufSize,
           \A g \in Held0(lists) : Precedes(g, f)
    PROVE  LET i == Index(Sn(f[1]))
               more == [lists EXCEPT ![i] = Append(@, f)]
           IN  Window(more, h) /\ Held0(more) = Held0(lists) \union {f}
<1>. DEFINE i == Index(Sn(f[1]))
            more == [lists EXCEPT ![i] = Append(@, f)]
<1>0. f[1] \in Nat  BY FrameType
<1>1. i = f[1] % BufSize /\ i \in 0..(BufSize - 1)  BY <1>0, IndexSn
<1>2. lists \in Lists /\ DOMAIN lists = 0..(BufSize - 1)
      /\ lists[i] \in Seq(Frames)
  BY <1>1 DEF Window, Lists
<1>. HIDE DEF i
<1>3. Append(lists[i], f) \in Seq(Frames)  BY <1>2, AppendProperties
<1>4. /\ more \in Lists /\ more[i] = Append(lists[i], f)
      /\ \A j \in 0..(BufSize - 1) : j # i => more[j] = lists[j]
  BY <1>1, <1>2, <1>3 DEF Lists
<1>5. ToSet(Append(lists[i], f)) = ToSet(lists[i]) \union {f}
  BY <1>2, ToSetAppend
<1>. HIDE DEF more
<1>6. Ordered(more[i])
  <2>1. Append(lists[i], f) = lists[i] \o <<f>> /\ <<f>> \in Seq(Frames)
    BY <1>2
  <2>2. Ordered(<<f>>)  BY DEF Ordered, InOrder!Ordered
  <2>3. ToSet(<<f>>) = {f}  BY DEF ToSet
  <2>4. ASSUME NEW g \in ToSet(lists[i]) PROVE Before(g, f)
    <3>1. g \in Frames /\ g[1] \in Nat  BY <1>1, <1>2, ListFrames, FrameType
    <3>2. h <= g[1] /\ g[1] < h + BufSize /\ g[1] % BufSize = f[1] % BufSize
      BY <1>1 DEF Window
    <3>3. g[1] = f[1]  BY <1>0, <3>1, <3>2, SameSlot
    <3>4. g \in Held0(lists)  BY <1>1 DEF Held0
    <3>. QED  BY <3>3, <3>4 DEF Precedes, Before, InOrder!Before
  <2>5. Ordered(lists[i])  BY <1>1 DEF Window
  <2>. QED  BY <1>2, <1>4, <2>1, <2>2, <2>3, <2>4, <2>5, OrderedConcat
<1>7. Held0(more) = Held0(lists) \union {f}
  <2>1. ASSUME NEW g \in Held0(more) PROVE g \in Held0(lists) \union {f}
    <3>1. PICK j \in 0..(BufSize - 1) : g \in ToSet(more[j])  BY DEF Held0
    <3>. QED  BY <3>1, <1>4, <1>5 DEF Held0
  <2>2. ASSUME NEW g \in Held0(lists) PROVE g \in Held0(more)
    <3>1. PICK j \in 0..(BufSize - 1) : g \in ToSet(lists[j])  BY DEF Held0
    <3>2. g \in ToSet(more[j])  BY <3>1, <1>4, <1>5
    <3>. QED  BY <3>2 DEF Held0
  <2>3. f \in Held0(more)  BY <1>1, <1>4, <1>5 DEF Held0
  <2>. QED  BY <2>1, <2>2, <2>3
<1>8. Window(more, h)
  <2>. SUFFICES ASSUME NEW j \in 0..(BufSize - 1)
                PROVE  /\ Ordered(more[j])
                       /\ \A g \in ToSet(more[j]) :
                            /\ h <= g[1] /\ g[1] < h + BufSize
                            /\ g[1] % BufSize = j
    BY <1>4 DEF Window
  <2>1. CASE j = i  BY <2>1, <1>1, <1>4, <1>5, <1>6 DEF Window
  <2>2. CASE j # i  BY <2>2, <1>4 DEF Window
  <2>. QED  BY <2>1, <2>2
<1>. QED  BY <1>7, <1>8 DEF more, i

-----------------------------------------------------------------------------
(* The messages on a queue *)

\* What can be on a fifo.
MpduMessages ==
    [type : {"mpdu"}, frame : Frames, nssn : Nat, old : BOOLEAN, dup : BOOLEAN]
ReleaseMessages == [type : {"release"}, nssn : Nat]
SyncMessages == [type : {"sync"}, sync : {"empty", "del_ba"}, cookie : Nat]
Messages == MpduMessages \union ReleaseMessages \union SyncMessages

\* The kinds of messages and their fields.
LEMMA MessageType ==
    ASSUME NEW m \in Messages
    PROVE  /\ m.type \in {"mpdu", "release", "sync"}
           /\ m.type = "mpdu" => /\ m.frame \in Frames /\ m.nssn \in Nat
                                 /\ m.old \in BOOLEAN /\ m.dup \in BOOLEAN
           /\ m.type = "release" => m.nssn \in Nat
           /\ m.type = "sync" => m.sync \in {"empty", "del_ba"}
                                 /\ m.cookie \in Nat
<1>1. CASE m \in MpduMessages  BY <1>1 DEF MpduMessages
<1>2. CASE m \in ReleaseMessages  BY <1>2 DEF ReleaseMessages
<1>3. CASE m \in SyncMessages  BY <1>3 DEF SyncMessages
<1>. QED  BY <1>1, <1>2, <1>3 DEF Messages

\* Frames that reach the buffer, and messages that move its head.
Fresh(m) == m.type = "mpdu" /\ ~m.old /\ ~m.dup
Mover(m) == m.type = "release" \/ (Fresh(m) /\ LastSubframe(m.frame))

\* What the firmware may send a queue whose head is b, and the head after it.
MpduOK(m, b) ==
    /\ m.old => m.frame[1] < b
    /\ ~m.old /\ ~m.dup =>
         \/ m.frame[1] = b /\ b < m.nssn /\ m.nssn <= b + BufSize
         \/ m.nssn = b /\ b < m.frame[1] /\ m.frame[1] < b + BufSize
MessageOK(m, b) ==
    /\ m.type = "mpdu" => MpduOK(m, b)
    /\ m.type = "release" => b <= m.nssn /\ m.nssn <= b + BufSize
HeadAfter(m, b) == IF Mover(m) THEN m.nssn ELSE b

\* The firmware has received number n: NSSN is w, g is beyond it.
Known(w, g, n) == n < w \/ n \in g

\* hs are the heads before each message of the fifo s and after the last one.
Chain(s, hs) ==
    /\ Len(hs) = Len(s) + 1
    /\ \A i \in 1..Len(s) : /\ MessageOK(s[i], hs[i])
                            /\ hs[i + 1] = HeadAfter(s[i], hs[i])
    /\ \A i, j \in 1..Len(hs) : i <= j => hs[i] <= hs[j]

\* What is delivered, held or under way was received by the firmware.
AllKnown(s, lists, del, w, g) ==
    /\ \A f \in ToSet(del) \union Held0(lists) : Known(w, g, f[1])
    /\ \A i \in 1..Len(s) : s[i].type = "mpdu" => Known(w, g, s[i].frame[1])

\* Nothing delivered is beyond the head h, and the subframes of an MPDU are
\* delivered, held and under way in their order.
InLine(s, lists, del, h) ==
    /\ \A f \in ToSet(del) : f[1] <= h
    /\ \A f \in ToSet(del), e \in Held0(lists) : Precedes(f, e)
    /\ \A i \in 1..Len(s) : Fresh(s[i]) =>
          \A f \in ToSet(del) \union Held0(lists) : Precedes(f, s[i].frame)
    /\ \A i, j \in 1..Len(s) : i < j /\ Fresh(s[i]) /\ Fresh(s[j]) =>
          Precedes(s[i].frame, s[j].frame)

\* A queue with the messages s to come is consistent.
Sound(s, lists, del, w, g, hs) ==
    /\ hs \in Seq(Nat)
    /\ Chain(s, hs)
    /\ Window(lists, hs[1])
    /\ AllKnown(s, lists, del, w, g)
    /\ InLine(s, lists, del, hs[1])

\* A message moves the head forward, at most by the window's size.
LEMMA HeadAfterNat ==
    ASSUME NEW m \in Messages, NEW b \in Nat, MessageOK(m, b)
    PROVE  HeadAfter(m, b) \in Nat /\ b <= HeadAfter(m, b)
           /\ HeadAfter(m, b) <= b + BufSize
<1>0. BufSize \in Nat  BY SnAssumption
<1>1. CASE m.type = "release"
  BY <1>0, <1>1, MessageType DEF HeadAfter, Mover, MessageOK
<1>2. CASE Fresh(m)
  <2>1. m.nssn \in Nat /\ b <= m.nssn /\ m.nssn <= b + BufSize
    BY <1>0, <1>2, MessageType DEF Fresh, MessageOK, MpduOK
  <2>. QED  BY <1>0, <2>1 DEF HeadAfter
<1>3. CASE m.type # "release" /\ ~Fresh(m)
  BY <1>0, <1>3 DEF HeadAfter, Mover
<1>. QED  BY <1>1, <1>2, <1>3

\* The first message is handled.
LEMMA PopSound ==
    ASSUME NEW s \in Seq(Messages), s # <<>>, NEW lists, NEW more \in Lists,
           NEW del \in Seq(Frames), NEW out \in Seq(Frames),
           NEW w, NEW g, NEW hs, Sound(s, lists, del, w, g, hs),
           Window(more, hs[2]),
           \A e \in Held0(more) : e \in Held0(lists)
              \/ (Fresh(Head(s)) /\ e = Head(s).frame),
           \A f \in ToSet(out) : f \in Held0(lists)
              \/ (/\ Head(s).type = "mpdu" /\ (Head(s).old \/ Fresh(Head(s)))
                  /\ f = Head(s).frame),
           \A f \in ToSet(out) : f[1] <= hs[2],
           \A f \in ToSet(out), e \in Held0(more) : Precedes(f, e)
    PROVE  Sound(Tail(s), more, del \o out, w, g, Tail(hs))
<1>. DEFINE t == Tail(s)
            ht == Tail(hs)
            m == Head(s)
<1>0. hs \in Seq(Nat) /\ Chain(s, hs)  BY DEF Sound
<1>1. /\ Len(s) \in Nat /\ Len(s) >= 1 /\ m = s[1] /\ m \in Messages
      /\ t \in Seq(Messages) /\ Len(t) = Len(s) - 1
      /\ \A i \in 1..Len(t) : t[i] = s[i + 1]
  BY LenProperties, EmptySeq, HeadTailProperties
<1>2. /\ Len(hs) = Len(s) + 1 /\ hs # <<>>
      /\ ht \in Seq(Nat) /\ Len(ht) = Len(hs) - 1
      /\ \A i \in 1..Len(ht) : ht[i] = hs[i + 1]
      /\ \A i \in 1..Len(hs) : hs[i] \in Nat
  <2>1. Len(hs) = Len(s) + 1  BY <1>0 DEF Chain
  <2>2. hs # <<>>  BY <1>0, <1>1, <2>1
  <2>. QED  BY <1>0, <2>1, <2>2, HeadTailProperties, ElementOfSeq
<1>3. ht[1] = hs[2] /\ hs[1] \in Nat /\ hs[2] \in Nat /\ hs[1] <= hs[2]
  BY <1>0, <1>1, <1>2 DEF Chain
<1>. HIDE DEF t, ht, m
<1>4. Chain(t, ht)
  <2>1. ASSUME NEW i \in 1..Len(t)
        PROVE  MessageOK(t[i], ht[i]) /\ ht[i + 1] = HeadAfter(t[i], ht[i])
    <3>1. i + 1 \in 1..Len(s) /\ i \in 1..Len(ht) /\ i + 1 \in 1..Len(ht)
      BY <1>1, <1>2
    <3>2. t[i] = s[i + 1] /\ ht[i] = hs[i + 1] /\ ht[i + 1] = hs[(i + 1) + 1]
      BY <1>1, <1>2, <3>1
    <3>. QED  BY <1>0, <3>1, <3>2 DEF Chain
  <2>2. ASSUME NEW i \in 1..Len(ht), NEW j \in 1..Len(ht), i <= j
        PROVE  ht[i] <= ht[j]
    <3>1. i + 1 \in 1..Len(hs) /\ j + 1 \in 1..Len(hs) /\ i + 1 <= j + 1
      BY <1>1, <1>2, <2>2
    <3>. QED  BY <1>0, <1>2, <3>1 DEF Chain
  <2>3. Len(ht) = Len(t) + 1  BY <1>1, <1>2
  <2>. QED  BY <2>1, <2>2, <2>3 DEF Chain
<1>5. ToSet(del \o out) = ToSet(del) \union ToSet(out)  BY ToSetConcat
<1>6. ToSet(del) \subseteq Frames /\ ToSet(out) \subseteq Frames
  BY ToSetType
<1>7. AllKnown(t, more, del \o out, w, g)
  <2>0. AllKnown(s, lists, del, w, g)  BY DEF Sound
  <2>1. m.type = "mpdu" => Known(w, g, m.frame[1])
    BY <2>0, <1>1 DEF AllKnown
  <2>2. \A f \in ToSet(del) \union Held0(lists) : Known(w, g, f[1])
    BY <2>0 DEF AllKnown
  <2>3. \A f \in ToSet(out) : Known(w, g, f[1])
    BY <2>1, <2>2 DEF m
  <2>4. \A e \in Held0(more) : Known(w, g, e[1])
    BY <2>1, <2>2 DEF m, Fresh
  <2>5. \A i \in 1..Len(t) : t[i].type = "mpdu" => Known(w, g, t[i].frame[1])
    <3>1. \A i \in 1..Len(t) : i + 1 \in 1..Len(s) /\ t[i] = s[i + 1]
      BY <1>1
    <3>. QED  BY <3>1, <2>0 DEF AllKnown
  <2>. QED  BY <2>2, <2>3, <2>4, <2>5, <1>5 DEF AllKnown
<1>8. InLine(t, more, del \o out, hs[2])
  <2>0. InLine(s, lists, del, hs[1])  BY DEF Sound
  <2>1. \A f \in ToSet(del \o out) : f[1] <= hs[2]
    <3>1. ASSUME NEW f \in ToSet(del) PROVE f[1] <= hs[2]
      <4>1. f[1] <= hs[1] /\ f[1] \in Nat  BY <2>0, <1>6, FrameType DEF InLine
      <4>. QED  BY <4>1, <1>3
    <3>. QED  BY <3>1, <1>5
  <2>2. ASSUME NEW f \in ToSet(del \o out), NEW e \in Held0(more)
        PROVE  Precedes(f, e)
    <3>1. CASE f \in ToSet(out)  BY <3>1
    <3>2. CASE f \in ToSet(del) /\ e \in Held0(lists)
      BY <3>2, <2>0 DEF InLine
    <3>3. CASE f \in ToSet(del) /\ Fresh(m) /\ e = m.frame
      BY <3>3, <2>0, <1>1 DEF InLine
    <3>. QED  BY <3>1, <3>2, <3>3, <1>5 DEF m
  <2>3. ASSUME NEW i \in 1..Len(t), Fresh(t[i]),
               NEW f \in ToSet(del \o out) \union Held0(more)
        PROVE  Precedes(f, t[i].frame)
    <3>1. /\ i + 1 \in 1..Len(s) /\ t[i] = s[i + 1]
          /\ 1 \in 1..Len(s) /\ 1 < i + 1
      BY <1>1
    <3>2. CASE f \in ToSet(del) \union Held0(lists)
      BY <3>1, <3>2, <2>0, <2>3 DEF InLine
    <3>3. CASE Fresh(m) /\ f = m.frame
      BY <3>1, <3>3, <2>0, <2>3, <1>1 DEF InLine
    <3>4. CASE m.type = "mpdu" /\ m.old /\ f = m.frame
      <4>1. f[1] < hs[1]
        BY <3>4, <3>1, <1>0, <1>1 DEF Chain, MessageOK, MpduOK
      <4>2. f \in Frames /\ f[1] \in Nat
        BY <3>4, <1>1, MessageType, FrameType
      <4>3. /\ hs[1] <= hs[i + 1] /\ hs[i + 1] \in Nat
            /\ MessageOK(s[i + 1], hs[i + 1])
        <5>1. i + 1 \in 1..Len(hs) /\ 1 \in 1..Len(hs) /\ 1 <= i + 1
          BY <3>1, <1>1, <1>2
        <5>. QED  BY <3>1, <5>1, <1>0, <1>2 DEF Chain
      <4>4. /\ t[i] \in Messages /\ t[i].frame \in Frames
            /\ t[i].frame[1] \in Nat /\ t[i].nssn \in Nat
        BY <2>3, <1>1, ElementOfSeq, MessageType, FrameType DEF Fresh
      <4>5. hs[i + 1] <= t[i].frame[1]
        BY <3>1, <4>3, <4>4, <2>3 DEF Fresh, MessageOK, MpduOK
      <4>. QED  BY <4>1, <4>2, <4>3, <4>4, <4>5, <1>3 DEF Precedes
    <3>. QED  BY <3>2, <3>3, <3>4, <1>5 DEF m
  <2>4. ASSUME NEW i \in 1..Len(t), NEW j \in 1..Len(t), i < j,
               Fresh(t[i]), Fresh(t[j])
        PROVE  Precedes(t[i].frame, t[j].frame)
    <3>1. /\ i + 1 \in 1..Len(s) /\ j + 1 \in 1..Len(s) /\ i + 1 < j + 1
          /\ t[i] = s[i + 1] /\ t[j] = s[j + 1]
      BY <1>1, <2>4
    <3>. QED  BY <3>1, <2>0, <2>4 DEF InLine
  <2>. QED  BY <2>1, <2>2, <2>3, <2>4 DEF InLine
<1>. QED  BY <1>2, <1>3, <1>4, <1>7, <1>8 DEF Sound, t, ht

\* One more message.
LEMMA PushSound ==
    ASSUME NEW s \in Seq(Messages), NEW lists \in Lists,
           NEW del \in Seq(Frames), NEW w, NEW g, NEW hs,
           Sound(s, lists, del, w, g, hs),
           NEW m \in Messages, MessageOK(m, hs[Len(hs)]),
           m.type = "mpdu" => Known(w, g, m.frame[1]),
           Fresh(m) => \A f \in ToSet(del) \union Held0(lists) :
                          Precedes(f, m.frame),
           Fresh(m) => \A i \in 1..Len(s) : Fresh(s[i]) =>
                          Precedes(s[i].frame, m.frame)
    PROVE  LET h == HeadAfter(m, hs[Len(hs)])
           IN  /\ Sound(Append(s, m), lists, del, w, g, Append(hs, h))
               /\ Append(hs, h)[1] = hs[1]
               /\ Append(hs, h)[Len(Append(hs, h))] = h
               /\ Append(s, m) \in Seq(Messages)
<1>. DEFINE b == hs[Len(hs)]
            h == HeadAfter(m, b)
            t == Append(s, m)
            ht == Append(hs, h)
<1>0. hs \in Seq(Nat) /\ Chain(s, hs)  BY DEF Sound
<1>1. Len(s) \in Nat /\ Len(hs) = Len(s) + 1  BY <1>0, LenProperties DEF Chain
<1>2. \A i \in 1..Len(hs) : hs[i] \in Nat  BY <1>0, ElementOfSeq
<1>3. b \in Nat /\ h \in Nat /\ b <= h  BY <1>1, <1>2, HeadAfterNat
<1>4. /\ t \in Seq(Messages) /\ Len(t) = Len(s) + 1 /\ t[Len(s) + 1] = m
      /\ \A i \in 1..Len(s) : t[i] = s[i]
  BY AppendProperties
<1>5. /\ ht \in Seq(Nat) /\ Len(ht) = Len(hs) + 1 /\ ht[Len(hs) + 1] = h
      /\ \A i \in 1..Len(hs) : ht[i] = hs[i]
  <2>. HIDE DEF h
  <2>. QED  BY <1>0, <1>3, AppendProperties
<1>6. ht[1] = hs[1]  BY <1>1, <1>5
<1>. HIDE DEF t, ht
<1>7. Chain(t, ht)
  <2>1. ASSUME NEW i \in 1..Len(t)
        PROVE  MessageOK(t[i], ht[i]) /\ ht[i + 1] = HeadAfter(t[i], ht[i])
    <3>1. CASE i = Len(s) + 1
      <4>1. ht[i] = b /\ t[i] = m /\ ht[i + 1] = h  BY <3>1, <1>1, <1>4, <1>5
      <4>. QED  BY <4>1
    <3>2. CASE i # Len(s) + 1
      <4>1. i \in 1..Len(s) /\ i \in 1..Len(hs) /\ i + 1 \in 1..Len(hs)
        BY <3>2, <1>1, <1>4
      <4>2. t[i] = s[i] /\ ht[i] = hs[i] /\ ht[i + 1] = hs[i + 1]
        BY <4>1, <1>4, <1>5
      <4>. QED  BY <4>1, <4>2, <1>0 DEF Chain
    <3>. QED  BY <3>1, <3>2
  <2>2. ASSUME NEW i \in 1..Len(ht), NEW j \in 1..Len(ht), i <= j
        PROVE  ht[i] <= ht[j]
    <3>. HIDE DEF b, h
    <3>0. \A k \in 1..Len(hs) : hs[k] <= b
      BY <1>0, <1>1 DEF Chain, b
    <3>1. CASE i \in 1..Len(hs) /\ j \in 1..Len(hs)
      <4>1. ht[i] = hs[i] /\ ht[j] = hs[j]  BY <3>1, <1>5
      <4>. QED  BY <3>1, <4>1, <2>2, <1>0 DEF Chain
    <3>2. CASE i \in 1..Len(hs) /\ j = Len(hs) + 1
      <4>1. ht[i] = hs[i] /\ ht[j] = h  BY <3>2, <1>5
      <4>2. hs[i] <= b /\ hs[i] \in Nat  BY <3>0, <3>2, <1>2
      <4>. QED  BY <4>1, <4>2, <1>3
    <3>3. CASE i = Len(hs) + 1 /\ j = Len(hs) + 1
      BY <3>3, <1>3, <1>5
    <3>. QED  BY <3>1, <3>2, <3>3, <2>2, <1>1, <1>5
  <2>3. Len(ht) = Len(t) + 1  BY <1>1, <1>4, <1>5
  <2>. QED  BY <2>1, <2>2, <2>3 DEF Chain
<1>. HIDE DEF b, h
<1>8. AllKnown(t, lists, del, w, g)
  <2>0. AllKnown(s, lists, del, w, g)  BY DEF Sound
  <2>1. ASSUME NEW i \in 1..Len(t), t[i].type = "mpdu"
        PROVE  Known(w, g, t[i].frame[1])
    <3>1. CASE i = Len(s) + 1  BY <3>1, <2>1, <1>4
    <3>2. CASE i # Len(s) + 1
      <4>1. i \in 1..Len(s) /\ t[i] = s[i]  BY <3>2, <1>1, <1>4
      <4>. QED  BY <4>1, <2>0, <2>1 DEF AllKnown
    <3>. QED  BY <3>1, <3>2
  <2>. QED  BY <2>0, <2>1 DEF AllKnown
<1>9. InLine(t, lists, del, hs[1])
  <2>0. InLine(s, lists, del, hs[1])  BY DEF Sound
  <2>1. ASSUME NEW i \in 1..Len(t), Fresh(t[i]),
               NEW f \in ToSet(del) \union Held0(lists)
        PROVE  Precedes(f, t[i].frame)
    <3>1. CASE i = Len(s) + 1  BY <3>1, <2>1, <1>4
    <3>2. CASE i # Len(s) + 1
      <4>1. i \in 1..Len(s) /\ t[i] = s[i]  BY <3>2, <1>1, <1>4
      <4>. QED  BY <4>1, <2>0, <2>1 DEF InLine
    <3>. QED  BY <3>1, <3>2
  <2>2. ASSUME NEW i \in 1..Len(t), NEW j \in 1..Len(t), i < j,
               Fresh(t[i]), Fresh(t[j])
        PROVE  Precedes(t[i].frame, t[j].frame)
    <3>0. i \in 1..Len(s) /\ t[i] = s[i]  BY <2>2, <1>1, <1>4
    <3>1. CASE j = Len(s) + 1  BY <3>0, <3>1, <2>2, <1>4
    <3>2. CASE j # Len(s) + 1
      <4>1. j \in 1..Len(s) /\ t[j] = s[j]  BY <3>2, <1>1, <1>4
      <4>. QED  BY <3>0, <4>1, <2>0, <2>2 DEF InLine
    <3>. QED  BY <3>1, <3>2
  <2>. QED  BY <2>0, <2>1, <2>2 DEF InLine
<1>10. Window(lists, hs[1])  BY DEF Sound
<1>. QED  BY <1>4, <1>5, <1>6, <1>7, <1>8, <1>9, <1>10 DEF Sound, t, ht, h, b

\* The firmware forgets nothing.
LEMMA KnownSound ==
    ASSUME NEW s \in Seq(Messages), NEW lists \in Lists,
           NEW del \in Seq(Frames), NEW w, NEW g, NEW x, NEW y, NEW hs,
           Sound(s, lists, del, w, g, hs),
           \A n \in Nat : Known(w, g, n) => Known(x, y, n)
    PROVE  Sound(s, lists, del, x, y, hs)
<1>1. ToSet(del) \union Held0(lists) \subseteq Frames
  BY ToSetType, ListFrames DEF Held0
<1>2. AllKnown(s, lists, del, w, g)  BY DEF Sound
<1>3. \A f \in ToSet(del) \union Held0(lists) : Known(x, y, f[1])
  BY <1>1, <1>2, FrameType DEF AllKnown
<1>4. ASSUME NEW i \in 1..Len(s), s[i].type = "mpdu"
      PROVE  Known(x, y, s[i].frame[1])
  <2>1. s[i] \in Messages  BY ElementOfSeq
  <2>2. s[i].frame[1] \in Nat  BY <1>4, <2>1, MessageType, FrameType
  <2>. QED  BY <1>2, <1>4, <2>2 DEF AllKnown
<1>5. AllKnown(s, lists, del, x, y)  BY <1>3, <1>4 DEF AllKnown
<1>. QED  BY <1>5 DEF Sound

-----------------------------------------------------------------------------
(* The inductive invariant *)

\* Types, those of the fifos included.
Types ==
    /\ session \in {"idle", "fw", "up", "stop", "flush", "closed"}
    /\ head_sn \in [Queues -> 0..(SnMod - 1)]
    /\ DOMAIN num_stored = Queues
    /\ num_stored = [q \in Queues |-> num_stored[q]]
    /\ valid \in [Queues -> BOOLEAN]
    /\ entries \in [Queues -> Lists]
    /\ sync_state \subseteq Queues
    /\ cookie \in Nat /\ syncing \in {None, "empty", "del_ba"}
    /\ in_hw_restart \in BOOLEAN
    /\ win \in FirstSn..(LastMpdu + 1)
    /\ got \subseteq Mpdus
    /\ fifo \in [Queues -> Seq(Messages)]
    /\ delivered \in [Queues -> Seq(Frames)]
    /\ purged \subseteq Frames

\* What the phase of the session says of the firmware and the synchronisation.
SessionOK ==
    /\ got \subseteq (win + 1)..(win + BufSize - 1)
    /\ session \in {"idle", "fw"} => /\ win = FirstSn /\ got = {}
                                     /\ syncing = None /\ ~in_hw_restart
    /\ session \in {"stop", "closed"} => syncing = None
    /\ session = "flush" <=> syncing = "del_ba"

\* Sync notifications carry cookies up to the current one; nothing follows that
\* which ends the session.
Notifs(s, c, t) ==
    \A i \in 1..Len(s) : s[i].type = "sync" =>
        /\ s[i].cookie <= c
        /\ s[i].cookie = c => s[i].sync = t /\ (t = "del_ba" => i = Len(s))

\* Before the session only frames with old numbers are under way.
AllOld(s) == \A i \in 1..Len(s) : s[i].type = "mpdu" /\ s[i].old

\* A queue is consistent, ends at NSSN, and its head_sn is the first head.
QueueOK(q) ==
    \E hs : /\ Sound(fifo[q], entries[q], delivered[q], win, got, hs)
            /\ hs[Len(hs)] = win
            /\ Published => head_sn[q] = Sn(hs[1])
            /\ session \in {"idle", "fw"} => hs[1] = FirstSn

\* The queue is, or will be, reordered: it has not been flushed.
Reordering(q) ==
    /\ ~in_hw_restart
    /\ \/ session \in {"idle", "fw", "up", "stop"}
       \/ session = "flush" /\ q \in sync_state

\* What holds of each queue in each phase of the session.
QueueInv(q) ==
    /\ num_stored[q] = Cardinality(Held0(entries[q]))
    /\ ~valid[q] \/ session = "closed" => Held0(entries[q]) = {}
    /\ session \in {"idle", "fw"} => ~valid[q] /\ AllOld(fifo[q])
    /\ in_hw_restart => fifo[q] = <<>>
    /\ Notifs(fifo[q], cookie, syncing)
    /\ session = "flush" /\ q \notin sync_state =>
          fifo[q] = <<>> /\ Held0(entries[q]) = {}
    /\ Reordering(q) => QueueOK(q)

\* The inductive invariant.
IInv == Types /\ SessionOK /\ \A q \in Queues : QueueInv(q)

\* What a queue holds, from its lists.
LEMMA HeldLists == \A q : Held(q) = Held0(entries[q])
BY DEF Held, Held0

\* The same in the next state.
LEMMA HeldListsNext == \A q : Held(q)' = Held0(entries'[q])
BY DEF Held, Held0

\* A queue holds finitely many frames; none, if the count is zero.
LEMMA HeldFinite ==
    ASSUME NEW lists \in Lists
    PROVE  /\ Held0(lists) \subseteq Frames /\ IsFiniteSet(Held0(lists))
           /\ Cardinality(Held0(lists)) \in Nat
           /\ Cardinality(Held0(lists)) <= 2 * (MaxMpdus + 1)
           /\ Cardinality(Held0(lists)) = 0 <=> Held0(lists) = {}
<1>1. Held0(lists) \subseteq Frames  BY ListFrames DEF Held0
<1>2. /\ IsFiniteSet(Held0(lists))
      /\ Cardinality(Held0(lists)) <= Cardinality(Frames)
  BY <1>1, FramesFinite, FS_Subset
<1>3. Cardinality(Held0(lists)) \in Nat /\ Cardinality(Frames) \in Nat
  BY <1>2, FramesFinite, FS_CardinalityType
<1>4. Cardinality(Held0(lists)) = 0 <=> Held0(lists) = {}
  BY <1>2, FS_EmptySet
<1>5. MaxMpdus \in Nat  BY ReorderBounds
<1>. QED  BY <1>1, <1>2, <1>3, <1>4, <1>5, FramesFinite

-----------------------------------------------------------------------------
(* A message is handled *)

\* The buffer takes what arrived: out goes up, more is held, the head is h.
Handled(q, arrived, out, more, h) ==
    /\ out \in Seq(Frames) /\ Ordered(out)
    /\ more \in Lists /\ Window(more, h)
    /\ delivered' = [delivered EXCEPT ![q] = @ \o out]
    /\ entries' = [entries EXCEPT ![q] = more]
    /\ head_sn' = [head_sn EXCEPT ![q] = Sn(h)]
    /\ num_stored' = [num_stored EXCEPT ![q] = Cardinality(Held0(more))]
    /\ Held0(more) \union ToSet(out) = Held0(entries[q]) \union arrived
    /\ Held0(more) \intersect ToSet(out) = {}
    /\ \A f \in ToSet(out) : f[1] <= h
    /\ \A f \in ToSet(out), e \in Held0(more) : Precedes(f, e)

\* iwl_mld_reorder_release_frames from a window that starts at the head.
LEMMA ReleaseHandled ==
    ASSUME Aligned, NEW q \in Queues, NEW h \in Nat, head_sn[q] = Sn(h),
           NEW d \in 0..BufSize, NEW lists, Window(lists, h), NEW arrived,
           Held0(lists) = Held0(entries[q]) \union arrived,
           NEW stored, stored = Cardinality(Held0(lists)),
           ReleaseFrames(q, lists, stored, Sn(h + d))
    PROVE  \E out, more : /\ Handled(q, arrived, out, more, h + d)
                          /\ \A f \in Held0(more) : /\ f \in Held0(lists)
                                                    /\ ~(f[1] < h + d)
<1>. DEFINE out == TakenOut(q, lists, Sn(h + d))
            more == Emptied(q, lists, Sn(h + d))
<1>0. h + d \in Nat  BY SnAssumption
<1>1. /\ out \in Seq(Frames) /\ Ordered(out)
      /\ ToSet(out) = {f \in Held0(lists) : f[1] < h + d}
      /\ Window(more, h + d)
      /\ Held0(more) = {f \in Held0(lists) : ~(f[1] < h + d)}
  BY Released
<1>2. /\ delivered' = [delivered EXCEPT ![q] = @ \o out]
      /\ entries' = [entries EXCEPT ![q] = more]
      /\ num_stored' = [num_stored EXCEPT ![q] = stored - Len(out)]
      /\ head_sn' = [head_sn EXCEPT ![q] = Sn(h + d)]
  BY DEF ReleaseFrames
<1>. HIDE DEF out, more
<1>3. lists \in Lists /\ more \in Lists  BY <1>1 DEF Window
<1>4. stored - Len(out) = Cardinality(Held0(more))
  <2>1. Held0(more) = Held0(lists) \ ToSet(out)  BY <1>1
  <2>2. IsFiniteSet(Held0(lists)) /\ ToSet(out) \subseteq Held0(lists)
    BY <1>1, <1>3, HeldFinite
  <2>3. Cardinality(Held0(lists) \ ToSet(out))
           = Cardinality(Held0(lists))
               - Cardinality(Held0(lists) \cap ToSet(out))
    BY <2>2, FS_Difference, FS_Subset
  <2>4. Held0(lists) \cap ToSet(out) = ToSet(out)  BY <2>2
  <2>5. Len(out) = Cardinality(ToSet(out))  BY <1>1, OrderedLen
  <2>. QED  BY <2>1, <2>3, <2>4, <2>5
<1>5. ToSet(out) \subseteq Frames /\ Held0(more) \subseteq Frames
  BY <1>1, <1>3, ToSetType, HeldFinite
<1>6. \A f \in ToSet(out) : f[1] <= h + d
  BY <1>0, <1>1, <1>5, FrameType
<1>7. \A f \in ToSet(out), e \in Held0(more) : Precedes(f, e)
  <2>. SUFFICES ASSUME NEW f \in ToSet(out), NEW e \in Held0(more)
                PROVE  f[1] # e[1]
    BY DEF Precedes
  <2>. QED  BY <1>1
<1>8. Held0(more) \union ToSet(out) = Held0(entries[q]) \union arrived
  BY <1>1
<1>9. Held0(more) \intersect ToSet(out) = {}  BY <1>1
<1>10. Handled(q, arrived, out, more, h + d)
  BY <1>1, <1>2, <1>3, <1>4, <1>6, <1>7, <1>8, <1>9 DEF Handled
<1>. QED  BY <1>1, <1>10

\* The buffer is left as it is.
LEMMA KeptHandled ==
    ASSUME NEW q \in Queues, Types, NEW h \in Nat, head_sn[q] = Sn(h),
           Window(entries[q], h),
           num_stored[q] = Cardinality(Held0(entries[q])),
           UNCHANGED <<head_sn, num_stored, entries, delivered>>
    PROVE  Handled(q, {}, <<>>, entries[q], h)
<1>1. <<>> \in Seq(Frames) /\ Ordered(<<>>) /\ ToSet(<<>>) = {}
  BY EmptySeq DEF Ordered, InOrder!Ordered, ToSet
<1>2. delivered[q] \in Seq(Frames) /\ delivered[q] \o <<>> = delivered[q]
  BY ConcatEmptySeq DEF Types
<1>3. delivered' = [delivered EXCEPT ![q] = @ \o <<>>]
  BY <1>2 DEF Types
<1>4. entries[q] \in Lists  BY DEF Types
<1>5. /\ entries' = [entries EXCEPT ![q] = entries[q]]
      /\ head_sn' = [head_sn EXCEPT ![q] = Sn(h)]
  BY DEF Types
<1>6. num_stored' = [num_stored EXCEPT ![q] = Cardinality(Held0(entries[q]))]
  BY DEF Types
<1>. QED  BY <1>1, <1>3, <1>4, <1>5, <1>6 DEF Handled

\* Empty lists are a window wherever it starts.
LEMMA EmptyWindow ==
    ASSUME NEW lists, NEW h, NEW k, Window(lists, h), Held0(lists) = {}
    PROVE  Window(lists, k)
<1>1. \A i \in 0..(BufSize - 1) : ToSet(lists[i]) = {}  BY DEF Held0
<1>. QED  BY <1>1 DEF Window

\* A frame goes up as it comes.
LEMMA PassHandled ==
    ASSUME NEW q \in Queues, Types, NEW h, NEW k, Window(entries[q], h),
           num_stored[q] = Cardinality(Held0(entries[q])),
           Held0(entries[q]) = {}, NEW f \in Frames, f[1] <= k,
           delivered' = [delivered EXCEPT ![q] = Append(@, f)],
           head_sn' = [head_sn EXCEPT ![q] = Sn(k)],
           UNCHANGED <<num_stored, entries>>
    PROVE  Handled(q, {f}, <<f>>, entries[q], k)
<1>1. <<f>> \in Seq(Frames) /\ Ordered(<<f>>) /\ ToSet(<<f>>) = {f}
  BY DEF Ordered, InOrder!Ordered, ToSet
<1>2. Append(delivered[q], f) = delivered[q] \o <<f>>
  BY DEF Types
<1>3. delivered' = [delivered EXCEPT ![q] = @ \o <<f>>]
  BY <1>2
<1>4. entries[q] \in Lists /\ Window(entries[q], k)
  BY EmptyWindow DEF Types
<1>5. entries' = [entries EXCEPT ![q] = entries[q]]
  BY DEF Types
<1>6. num_stored' = [num_stored EXCEPT ![q] = Cardinality(Held0(entries[q]))]
  BY DEF Types
<1>. QED  BY <1>1, <1>3, <1>4, <1>5, <1>6 DEF Handled

\* What the invariant says of the message that a queue handles next.
LEMMA FirstMessage ==
    ASSUME NEW q \in Queues, Types, NEW hs,
           Sound(fifo[q], entries[q], delivered[q], win, got, hs),
           fifo[q] # <<>>
    PROVE  /\ fifo[q] \in Seq(Messages) /\ Head(fifo[q]) = fifo[q][1]
           /\ Head(fifo[q]) \in Messages /\ 1 \in 1..Len(fifo[q])
           /\ hs[1] \in Nat /\ hs[2] \in Nat /\ hs[1] <= hs[2]
           /\ hs[2] <= hs[1] + BufSize
           /\ MessageOK(Head(fifo[q]), hs[1])
           /\ hs[2] = HeadAfter(Head(fifo[q]), hs[1])
           /\ hs \in Seq(Nat) /\ Len(hs) = Len(fifo[q]) + 1
<1>1. fifo[q] \in Seq(Messages)  BY DEF Types
<1>2. /\ Head(fifo[q]) = fifo[q][1] /\ Head(fifo[q]) \in Messages
      /\ 1 \in 1..Len(fifo[q]) /\ Len(fifo[q]) \in Nat
  BY <1>1, EmptySeq, LenProperties, HeadTailProperties
<1>3. hs \in Seq(Nat) /\ Chain(fifo[q], hs)  BY DEF Sound
<1>4. Len(hs) = Len(fifo[q]) + 1  BY <1>3 DEF Chain
<1>5. hs[1] \in Nat  BY <1>2, <1>3, <1>4, ElementOfSeq
<1>6. /\ MessageOK(fifo[q][1], hs[1])
      /\ hs[1 + 1] = HeadAfter(fifo[q][1], hs[1])
  BY <1>2, <1>3 DEF Chain
<1>. QED  BY <1>1, <1>2, <1>3, <1>4, <1>5, <1>6, HeadAfterNat

\* iwl_mld_reorder for a frame that is neither old nor a duplicate: it goes
\* up or is stored, and the head becomes what the invariant says.
LEMMA FreshHandled ==
    ASSUME Aligned, NEW q \in Queues, Types, QueueInv(q), NEW hs,
           Sound(fifo[q], entries[q], delivered[q], win, got, hs),
           head_sn[q] = Sn(hs[1]), Published, fifo[q] # <<>>,
           Fresh(Head(fifo[q])), Reorder(q, Head(fifo[q]))
    PROVE  /\ \E out, more :
                 Handled(q, {Head(fifo[q]).frame}, out, more, hs[2])
           /\ valid' = [valid EXCEPT ![q] = TRUE]
<1>. DEFINE m == Head(fifo[q])
            f == m.frame
            h == hs[1]
            lists == [entries[q] EXCEPT ![Index(Sn(f[1]))] = Append(@, f)]
<1>0. BufSize \in Nat \ {0}  BY SnAssumption
<1>1. /\ m = fifo[q][1] /\ m \in Messages /\ 1 \in 1..Len(fifo[q])
      /\ h \in Nat /\ hs[2] \in Nat /\ h <= hs[2]
      /\ MessageOK(m, h) /\ hs[2] = HeadAfter(m, h)
  BY FirstMessage
<1>2. m.type = "mpdu" /\ ~m.old /\ ~m.dup  BY DEF Fresh
<1>3. f \in Frames /\ f[1] \in Nat /\ m.nssn \in Nat
  BY <1>1, <1>2, MessageType, FrameType
<1>4. \/ f[1] = h /\ h < m.nssn /\ m.nssn <= h + BufSize
      \/ m.nssn = h /\ h < f[1] /\ f[1] < h + BufSize
  BY <1>1, <1>2 DEF MessageOK, MpduOK
<1>5. hs[2] = IF LastSubframe(f) THEN m.nssn ELSE h
  BY <1>1, <1>2 DEF HeadAfter, Mover, Fresh
<1>6. Window(entries[q], h) /\ entries[q] \in Lists
  BY DEF Sound, Types
<1>7. \A e \in Held0(entries[q]) : Precedes(e, f)
  BY <1>1 DEF Sound, InLine
<1>8. num_stored[q] = Cardinality(Held0(entries[q]))  BY DEF QueueInv
<1>9. num_stored[q] = 0 <=> Held0(entries[q]) = {}
  BY <1>6, <1>8, HeldFinite
<1>10. Window(lists, h) /\ Held0(lists) = Held0(entries[q]) \union {f}
  <2>1. h <= f[1] /\ f[1] < h + BufSize  BY <1>0, <1>1, <1>3, <1>4
  <2>. HIDE DEF f, h
  <2>. QED  BY <1>1, <1>3, <1>6, <1>7, <2>1, Stored
<1>11. num_stored[q] + 1 = Cardinality(Held0(lists))
  <2>1. f \notin Held0(entries[q])
    <3>1. f[2] \in Nat  BY <1>3, FrameType
    <3>. QED  BY <3>1, <1>7 DEF Precedes
  <2>. QED  BY <2>1, <1>6, <1>8, <1>10, HeldFinite, FS_AddElement
<1>. HIDE DEF m, lists
<1>12. /\ valid' = [valid EXCEPT ![q] = TRUE]
       /\ IF num_stored[q] = 0 /\ SnLess(Sn(f[1]), Sn(m.nssn))
          THEN PassAndMove(q, f, Sn(m.nssn))
          ELSE IF num_stored[q] = 0 /\ Sn(f[1]) = head_sn[q]
          THEN PassAndMove(q, f, SnAdd(Sn(f[1]), 1))
          ELSE Store(q, f, Sn(m.nssn))
  BY <1>2 DEF Reorder, m
<1>13. CASE f[1] = h /\ h < m.nssn /\ num_stored[q] = 0
  <2>1. /\ m.nssn - h \in 0..BufSize /\ h + (m.nssn - h) = m.nssn
        /\ m.nssn - h > 0
    BY <1>0, <1>1, <1>3, <1>4, <1>13
  <2>. DEFINE d == m.nssn - h
  <2>2. SnLess(Sn(f[1]), Sn(m.nssn))
    <3>1. d \in 0..BufSize /\ h + d = m.nssn /\ d > 0  BY <2>1
    <3>. HIDE DEF d, h
    <3>2. SnLess(Sn(h), Sn(h + d)) <=> d > 0  BY <1>1, <3>1, SnSteps
    <3>. QED  BY <1>13, <3>1, <3>2
  <2>3. PassAndMove(q, f, Sn(m.nssn))  BY <1>12, <1>13, <2>2
  <2>4. head_sn' = [head_sn EXCEPT ![q] = Sn(hs[2])]
    BY <2>3, <1>5 DEF PassAndMove
  <2>5. f[1] <= hs[2]  BY <1>1, <1>3, <1>13
  <2>6. /\ delivered' = [delivered EXCEPT ![q] = Append(@, f)]
        /\ UNCHANGED <<num_stored, entries>>
    BY <2>3 DEF PassAndMove, Pass
  <2>7. Handled(q, {f}, <<f>>, entries[q], hs[2])
    BY <1>3, <1>6, <1>8, <1>9, <1>13, <2>4, <2>5, <2>6, PassHandled
  <2>. QED  BY <1>12, <2>7 DEF m
<1>14. CASE ~(f[1] = h /\ h < m.nssn /\ num_stored[q] = 0)
  <2>1. Store(q, f, Sn(m.nssn))
    <3>1. CASE num_stored[q] # 0  BY <3>1, <1>12
    <3>2. CASE m.nssn = h /\ h < f[1] /\ f[1] < h + BufSize
      <4>1. f[1] - h \in 0..BufSize /\ h + (f[1] - h) = f[1] /\ f[1] - h # 0
        BY <1>0, <1>1, <1>3, <3>2
      <4>2. ~SnLess(Sn(f[1]), Sn(m.nssn)) /\ Sn(f[1]) # head_sn[q]
        <5>. DEFINE d == f[1] - h
        <5>1. d \in 0..BufSize /\ h + d = f[1] /\ d # 0  BY <4>1
        <5>. HIDE DEF d, h
        <5>2. /\ ~SnLess(Sn(h + d), Sn(h))
              /\ Sn(h) = Sn(h + d) <=> d = 0
          BY <1>1, <5>1, SnSteps
        <5>3. head_sn[q] = Sn(h)  BY DEF h
        <5>. QED  BY <3>2, <5>1, <5>2, <5>3
      <4>. QED  BY <4>2, <1>12
    <3>. QED  BY <3>1, <3>2, <1>4, <1>14
  <2>2. CASE LastSubframe(f)
    <3>1. ReleaseFrames(q, lists, num_stored[q] + 1, Sn(m.nssn))
      BY <2>1, <2>2 DEF Store, lists
    <3>2. m.nssn - h \in 0..BufSize /\ h + (m.nssn - h) = m.nssn
      BY <1>0, <1>1, <1>3, <1>4
    <3>3. \E out, more : Handled(q, {f}, out, more, h + (m.nssn - h))
      BY <1>1, <1>10, <1>11, <3>1, <3>2, ReleaseHandled
    <3>. QED  BY <1>12, <1>5, <2>2, <3>2, <3>3 DEF m
  <2>3. CASE ~LastSubframe(f)
    <3>1. /\ entries' = [entries EXCEPT ![q] = lists]
          /\ num_stored' = [num_stored EXCEPT ![q] = @ + 1]
          /\ head_sn' = [head_sn EXCEPT
                           ![q] = IF num_stored[q] = 0 THEN Sn(m.nssn) ELSE @]
          /\ UNCHANGED delivered
      BY <2>1, <2>3 DEF Store, lists
    <3>2. num_stored[q] = 0 => m.nssn = h  BY <1>4, <1>14
    <3>3. head_sn' = [head_sn EXCEPT ![q] = Sn(h)]
      BY <3>1, <3>2 DEF Types
    <3>4. num_stored' = [num_stored EXCEPT ![q] = Cardinality(Held0(lists))]
      BY <3>1, <1>11
    <3>5. <<>> \in Seq(Frames) /\ Ordered(<<>>) /\ ToSet(<<>>) = {}
      BY EmptySeq DEF Ordered, InOrder!Ordered, ToSet
    <3>6. delivered' = [delivered EXCEPT ![q] = @ \o <<>>]
      <4>1. delivered[q] \in Seq(Frames)  BY DEF Types
      <4>2. delivered[q] \o <<>> = delivered[q]  BY <4>1, ConcatEmptySeq
      <4>. QED  BY <3>1, <4>2 DEF Types
    <3>7. lists \in Lists  BY <1>10 DEF Window
    <3>8. Handled(q, {f}, <<>>, lists, h)
      BY <1>10, <3>1, <3>3, <3>4, <3>5, <3>6, <3>7 DEF Handled
    <3>. QED  BY <1>12, <1>5, <2>3, <3>8 DEF m
  <2>. QED  BY <2>2, <2>3
<1>. QED  BY <1>13, <1>14

\* The messages that remain.
LEMMA TailFacts ==
    ASSUME NEW s \in Seq(Messages), s # <<>>
    PROVE  /\ Tail(s) \in Seq(Messages) /\ Len(Tail(s)) = Len(s) - 1
           /\ Len(s) \in Nat /\ Len(Tail(s)) \in Nat
           /\ \A i \in 1..Len(Tail(s)) :
                 i + 1 \in 1..Len(s) /\ Tail(s)[i] = s[i + 1]
<1>1. /\ Tail(s) \in Seq(Messages) /\ Len(Tail(s)) = Len(s) - 1
      /\ \A i \in 1..Len(Tail(s)) : Tail(s)[i] = s[i + 1]
  BY HeadTailProperties
<1>2. Len(s) \in Nat /\ Len(Tail(s)) \in Nat  BY <1>1, LenProperties
<1>. QED  BY <1>1, <1>2

\* Their notifications are those of before.
LEMMA NotifsTail ==
    ASSUME NEW s \in Seq(Messages), s # <<>>, NEW c, NEW t, Notifs(s, c, t)
    PROVE  Notifs(Tail(s), c, t)
<1>1. ASSUME NEW i \in 1..Len(Tail(s)), Tail(s)[i].type = "sync"
      PROVE  /\ Tail(s)[i].cookie <= c
             /\ Tail(s)[i].cookie = c => /\ Tail(s)[i].sync = t
                                         /\ t = "del_ba" => i = Len(Tail(s))
  <2>1. /\ i + 1 \in 1..Len(s) /\ Tail(s)[i] = s[i + 1]
        /\ Len(Tail(s)) = Len(s) - 1 /\ Len(s) \in Nat
    BY TailFacts
  <2>2. /\ s[i + 1].cookie <= c
        /\ s[i + 1].cookie = c => /\ s[i + 1].sync = t
                                  /\ t = "del_ba" => i + 1 = Len(s)
    BY <1>1, <2>1 DEF Notifs
  <2>3. i + 1 = Len(s) => i = Len(Tail(s))
    <3>1. i \in Int  OBVIOUS
    <3>. DEFINE n == Len(s)
                k == Len(Tail(s))
    <3>2. k = n - 1 /\ n \in Nat  BY <2>1
    <3>. HIDE DEF n, k
    <3>3. i + 1 = n => i = k  BY <3>1, <3>2
    <3>. QED  BY <3>3 DEF n, k
  <2>4. Tail(s)[i] = s[i + 1]  BY <2>1
  <2>. QED  BY <2>2, <2>3, <2>4, Zenon
<1>. QED  BY <1>1 DEF Notifs

\* Before the session runs they are late frames.
LEMMA AllOldTail ==
    ASSUME NEW s \in Seq(Messages), s # <<>>, AllOld(s)
    PROVE  AllOld(Tail(s))
BY TailFacts DEF AllOld

\* What a step of queue q leaves alone.
OnlyQueue(q) ==
    /\ fifo' = [fifo EXCEPT ![q] = Tail(@)]
    /\ valid' = [valid EXCEPT ![q] = valid'[q]] /\ valid'[q] \in BOOLEAN
    /\ sync_state \ {q} \subseteq sync_state'
    /\ sync_state' \subseteq sync_state
    /\ UNCHANGED <<session, cookie, syncing, fw, purged>>

\* A queue's part of the invariant is kept by steps of other queues.
LEMMA OtherQueue ==
    ASSUME NEW r \in Queues, QueueInv(r),
           num_stored'[r] = num_stored[r], entries'[r] = entries[r],
           valid'[r] = valid[r], fifo'[r] = fifo[r],
           delivered'[r] = delivered[r], head_sn'[r] = head_sn[r],
           r \in sync_state' <=> r \in sync_state,
           UNCHANGED <<session, cookie, syncing, fw>>
    PROVE  QueueInv(r)'
<1>1. /\ session' = session /\ cookie' = cookie /\ syncing' = syncing
      /\ win' = win /\ got' = got /\ in_hw_restart' = in_hw_restart
  BY DEF fw
<1>2. Reordering(r)' <=> Reordering(r)  BY <1>1 DEF Reordering
<1>3. QueueOK(r) => QueueOK(r)'  BY <1>1 DEF QueueOK, Published
<1>. QED  BY <1>1, <1>2, <1>3 DEF QueueInv

\* A step of one queue keeps the invariant if it keeps the queue's part.
LEMMA QueueStep ==
    ASSUME IInv, NEW q \in Queues, OnlyQueue(q), fifo[q] # <<>>,
           NEW more \in Lists, NEW del \in Seq(Frames),
           NEW sn \in 0..(SnMod - 1), NEW n,
           delivered' = [delivered EXCEPT ![q] = del],
           entries' = [entries EXCEPT ![q] = more],
           head_sn' = [head_sn EXCEPT ![q] = sn],
           num_stored' = [num_stored EXCEPT ![q] = n],
           QueueInv(q)'
    PROVE  IInv'
<1>1. Types'
  <2>1. /\ win' = win /\ got' = got /\ in_hw_restart' = in_hw_restart
        /\ session' = session /\ cookie' = cookie /\ syncing' = syncing
        /\ purged' = purged
    BY DEF OnlyQueue, fw
  <2>2. Tail(fifo[q]) \in Seq(Messages)
    BY TailFacts DEF IInv, Types
  <2>3. fifo' \in [Queues -> Seq(Messages)]
    BY <2>2 DEF IInv, Types, OnlyQueue
  <2>4. /\ delivered' \in [Queues -> Seq(Frames)]
        /\ entries' \in [Queues -> Lists]
    BY DEF IInv, Types
  <2>5. /\ head_sn' \in [Queues -> 0..(SnMod - 1)]
        /\ valid' \in [Queues -> BOOLEAN]
    BY DEF IInv, Types, OnlyQueue
  <2>6. /\ DOMAIN num_stored' = Queues
        /\ num_stored' = [r \in Queues |-> num_stored'[r]]
    BY DEF IInv, Types
  <2>7. sync_state' \subseteq Queues  BY DEF IInv, Types, OnlyQueue
  <2>. QED  BY <2>1, <2>3, <2>4, <2>5, <2>6, <2>7 DEF IInv, Types
<1>2. SessionOK'  BY DEF IInv, SessionOK, OnlyQueue, fw
<1>3. ASSUME NEW r \in Queues, r # q PROVE QueueInv(r)'
  <2>1. /\ num_stored'[r] = num_stored[r] /\ entries'[r] = entries[r]
        /\ delivered'[r] = delivered[r] /\ head_sn'[r] = head_sn[r]
    BY <1>3 DEF IInv, Types
  <2>2. valid'[r] = valid[r] /\ fifo'[r] = fifo[r]
    BY <1>3 DEF IInv, Types, OnlyQueue
  <2>3. r \in sync_state' <=> r \in sync_state  BY <1>3 DEF OnlyQueue
  <2>4. UNCHANGED <<session, cookie, syncing, fw>>  BY DEF OnlyQueue
  <2>5. QueueInv(r)  BY DEF IInv
  <2>. QED  BY <2>1, <2>2, <2>3, <2>4, <2>5, OtherQueue
<1>. QED  BY <1>1, <1>2, <1>3 DEF IInv

\* Handling a message by the buffer keeps the invariant.
LEMMA HandledStep ==
    ASSUME IInv, NEW q \in Queues, OnlyQueue(q), fifo[q] # <<>>, Published,
           Reordering(q), NEW hs,
           Sound(fifo[q], entries[q], delivered[q], win, got, hs),
           hs[Len(hs)] = win,
           NEW arrived, arrived = {} \/ ( /\ Fresh(Head(fifo[q]))
                                          /\ arrived = {Head(fifo[q]).frame}
                                          /\ valid'[q]),
           NEW out, NEW more, Handled(q, arrived, out, more, hs[2]),
           valid[q] => valid'[q],
           session = "flush" => q \in sync_state'
    PROVE  IInv'
<1>0. Types /\ QueueInv(q)  BY DEF IInv
<1>. DEFINE s == fifo[q]
            t == Tail(s)
            ht == Tail(hs)
            del == delivered[q] \o out
<1>1. /\ s \in Seq(Messages) /\ hs[1] \in Nat /\ hs[2] \in Nat
      /\ hs \in Seq(Nat) /\ Len(hs) = Len(s) + 1 /\ 1 \in 1..Len(s)
  BY <1>0, FirstMessage
<1>2. /\ out \in Seq(Frames) /\ more \in Lists
      /\ delivered' = [delivered EXCEPT ![q] = del]
      /\ entries' = [entries EXCEPT ![q] = more]
      /\ head_sn' = [head_sn EXCEPT ![q] = Sn(hs[2])]
      /\ num_stored' = [num_stored EXCEPT ![q] = Cardinality(Held0(more))]
      /\ Held0(more) \union ToSet(out) = Held0(entries[q]) \union arrived
  BY DEF Handled
<1>3. delivered[q] \in Seq(Frames) /\ del \in Seq(Frames)
  BY <1>0, <1>2, ConcatProperties DEF Types
<1>4. Sn(hs[2]) \in 0..(SnMod - 1)
  <2>0. SnMod \in Nat \ {0}  BY SnAssumption
  <2>1. hs[2] % SnMod \in 0..(SnMod - 1)  BY <1>1, <2>0, DivMod
  <2>. QED  BY <2>1 DEF Sn
<1>5. /\ delivered'[q] = del /\ entries'[q] = more /\ head_sn'[q] = Sn(hs[2])
      /\ num_stored'[q] = Cardinality(Held0(more)) /\ fifo'[q] = t
  BY <1>0, <1>2 DEF Types, OnlyQueue
<1>6. /\ session' = session /\ cookie' = cookie /\ syncing' = syncing
      /\ win' = win /\ got' = got /\ in_hw_restart' = in_hw_restart
  BY DEF OnlyQueue, fw
<1>7. Sound(t, more, del, win, got, ht)
  <2>1. /\ Window(more, hs[2])
        /\ \A f \in ToSet(out) : f[1] <= hs[2]
        /\ \A f \in ToSet(out), e \in Held0(more) : Precedes(f, e)
    BY DEF Handled
  <2>2. \A e \in Held0(more) : e \in Held0(entries[q])
           \/ (Fresh(Head(s)) /\ e = Head(s).frame)
    BY <1>2
  <2>3. \A f \in ToSet(out) : f \in Held0(entries[q])
           \/ (/\ Head(s).type = "mpdu" /\ (Head(s).old \/ Fresh(Head(s)))
               /\ f = Head(s).frame)
    BY <1>2 DEF Fresh
  <2>. QED  BY <1>1, <1>2, <1>3, <2>1, <2>2, <2>3, PopSound
<1>8. ht[1] = hs[2] /\ ht[Len(ht)] = win
  <2>1. hs # <<>> /\ Len(s) \in Nat  BY <1>1, LenProperties
  <2>2. /\ Len(ht) = Len(hs) - 1
        /\ \A i \in 1..Len(ht) : ht[i] = hs[i + 1]
    BY <1>1, <2>1, HeadTailProperties
  <2>3. /\ 1 \in 1..Len(ht) /\ Len(ht) \in 1..Len(ht) /\ Len(ht) + 1 = Len(hs)
    BY <1>1, <2>1, <2>2
  <2>. QED  BY <2>2, <2>3
<1>. HIDE DEF s, t, ht, del
<1>9. QueueOK(q)'
  <2>1. session \notin {"idle", "fw"}  BY DEF Published
  <2>. QED  BY <1>5, <1>6, <1>7, <1>8, <2>1 DEF QueueOK
<1>10. Notifs(t, cookie, syncing)
  BY <1>0, <1>1, NotifsTail DEF QueueInv, s, t
<1>11. ~valid'[q] => Held0(more) = {}
  <2>1. valid[q] \in BOOLEAN /\ valid'[q] \in BOOLEAN
    BY <1>0 DEF Types, OnlyQueue
  <2>. QED  BY <1>0, <1>2, <2>1 DEF QueueInv
<1>12. QueueInv(q)'
  <2>1. session \notin {"idle", "fw", "closed"} /\ ~in_hw_restart
    BY DEF Published, Reordering
  <2>. QED  BY <1>5, <1>6, <1>9, <1>10, <1>11, <2>1 DEF QueueInv
<1>. QED  BY <1>2, <1>3, <1>4, <1>12, QueueStep

\* So does passing a late frame, or dropping a message.
LEMMA BypassStep ==
    ASSUME IInv, NEW q \in Queues, OnlyQueue(q), fifo[q] # <<>>,
           UNCHANGED <<head_sn, num_stored, valid, entries>>,
           session = "flush" => UNCHANGED sync_state,
           Reordering(q) => ~Mover(Head(fifo[q])),
           NEW out, \/ out = <<>>
                    \/ /\ out = <<Head(fifo[q]).frame>>
                       /\ Head(fifo[q]).type = "mpdu"
                       /\ Reordering(q) => Head(fifo[q]).old,
           delivered' = [delivered EXCEPT ![q] = @ \o out]
    PROVE  IInv'
<1>0. Types /\ QueueInv(q)  BY DEF IInv
<1>. DEFINE s == fifo[q]
            t == Tail(s)
            f == Head(s).frame
            del == delivered[q] \o out
<1>1. s \in Seq(Messages)  BY <1>0 DEF Types
<1>2. Head(s) \in Messages /\ (Head(s).type = "mpdu" => f \in Frames)
  <2>1. Head(s) \in Messages  BY <1>1, HeadTailProperties
  <2>. QED  BY <2>1, MessageType
<1>3. /\ out \in Seq(Frames)
      /\ \/ ToSet(out) = {}
         \/ /\ ToSet(out) = {f} /\ Head(s).type = "mpdu" /\ f \in Frames
            /\ Reordering(q) => Head(s).old
  <2>1. CASE out = <<>>
    <3>1. ToSet(<<>>) = {}  BY DEF ToSet
    <3>. QED  BY <2>1, <3>1, EmptySeq
  <2>2. CASE /\ out = <<f>> /\ Head(s).type = "mpdu"
             /\ Reordering(q) => Head(s).old
    <3>1. ToSet(<<f>>) = {f}  BY DEF ToSet
    <3>2. f \in Frames /\ <<f>> \in Seq(Frames)  BY <1>2, <2>2
    <3>. HIDE DEF f
    <3>. QED  BY <2>2, <3>1, <3>2
  <2>. QED  BY <2>1, <2>2
<1>4. delivered[q] \in Seq(Frames) /\ del \in Seq(Frames)
  BY <1>0, <1>3, ConcatProperties DEF Types
<1>5. delivered'[q] = del /\ fifo'[q] = t
  BY <1>0 DEF Types, OnlyQueue
<1>6. /\ session' = session /\ cookie' = cookie /\ syncing' = syncing
      /\ win' = win /\ got' = got /\ in_hw_restart' = in_hw_restart
  BY DEF OnlyQueue, fw
<1>7. /\ entries[q] \in Lists /\ head_sn[q] \in 0..(SnMod - 1)
      /\ entries' = [entries EXCEPT ![q] = entries[q]]
      /\ head_sn' = [head_sn EXCEPT ![q] = head_sn[q]]
      /\ num_stored' = [num_stored EXCEPT ![q] = num_stored[q]]
      /\ entries'[q] = entries[q] /\ head_sn'[q] = head_sn[q]
      /\ num_stored'[q] = num_stored[q] /\ valid'[q] = valid[q]
  BY <1>0 DEF Types
<1>8. ASSUME Reordering(q) PROVE QueueOK(q)'
  <2>1. PICK hs : /\ Sound(s, entries[q], delivered[q], win, got, hs)
                  /\ hs[Len(hs)] = win
                  /\ Published => head_sn[q] = Sn(hs[1])
                  /\ session \in {"idle", "fw"} => hs[1] = FirstSn
    BY <1>0, <1>8 DEF QueueInv, QueueOK
  <2>. DEFINE ht == Tail(hs)
  <2>2. /\ hs[1] \in Nat /\ MessageOK(Head(s), hs[1])
        /\ hs[2] = HeadAfter(Head(s), hs[1]) /\ 1 \in 1..Len(s)
        /\ hs \in Seq(Nat) /\ Len(hs) = Len(s) + 1
    BY <1>0, <2>1, FirstMessage
  <2>3. hs[2] = hs[1]  BY <1>8, <2>2 DEF HeadAfter
  <2>4. ASSUME ToSet(out) # {}
        PROVE  /\ ToSet(out) = {f} /\ f \in Frames /\ f[1] < hs[1]
               /\ Head(s).type = "mpdu" /\ Head(s).old
    BY <1>3, <1>8, <2>2, <2>4 DEF MessageOK, MpduOK
  <2>5. Window(entries[q], hs[1])  BY <2>1 DEF Sound
  <2>6. \A g \in ToSet(out) : g[1] <= hs[2]
    <3>1. f \in Frames => f[1] \in Nat  BY FrameType
    <3>. HIDE DEF f
    <3>. QED  BY <2>2, <2>3, <2>4, <3>1
  <2>7. \A g \in ToSet(out), e \in Held0(entries[q]) : Precedes(g, e)
    <3>. SUFFICES ASSUME ToSet(out) # {}, NEW e \in Held0(entries[q])
                  PROVE  f[1] # e[1]
      BY <2>4 DEF Precedes
    <3>1. f[1] \in Nat /\ e \in Frames /\ e[1] \in Nat
      BY <1>7, <2>4, HeldFinite, FrameType
    <3>2. hs[1] <= e[1]  BY <2>5 DEF Window, Held0
    <3>. QED  BY <2>2, <2>4, <3>1, <3>2
  <2>8. Sound(t, entries[q], del, win, got, ht)
    <3>1. \A g \in ToSet(out) : g \in Held0(entries[q])
             \/ (/\ Head(s).type = "mpdu" /\ (Head(s).old \/ Fresh(Head(s)))
                 /\ g = Head(s).frame)
      BY <2>4
    <3>2. Window(entries[q], hs[2])  BY <2>3, <2>5
    <3>. HIDE DEF f
    <3>. QED  BY <1>1, <1>3, <1>4, <1>7, <2>1, <2>6, <2>7, <3>1, <3>2, PopSound
  <2>9. ht[1] = hs[2] /\ ht[Len(ht)] = win
    <3>1. hs # <<>> /\ Len(s) \in Nat  BY <1>1, <2>2, LenProperties
    <3>2. /\ Len(ht) = Len(hs) - 1
          /\ \A i \in 1..Len(ht) : ht[i] = hs[i + 1]
      BY <2>2, <3>1, HeadTailProperties
    <3>3. /\ 1 \in 1..Len(ht) /\ Len(ht) \in 1..Len(ht)
          /\ Len(ht) + 1 = Len(hs)
      BY <2>2, <3>1, <3>2
    <3>. QED  BY <2>1, <3>2, <3>3
  <2>. HIDE DEF ht, t, del, s
  <2>. QED  BY <1>5, <1>6, <1>7, <2>1, <2>3, <2>8, <2>9 DEF QueueOK, Published
<1>9. Notifs(t, cookie, syncing)
  BY <1>0, <1>1, NotifsTail DEF QueueInv
<1>10. session \in {"idle", "fw"} => AllOld(t)
  BY <1>0, <1>1, AllOldTail DEF QueueInv
<1>. HIDE DEF t, del
<1>11. Reordering(q)' <=> Reordering(q)
  BY <1>6 DEF Reordering, OnlyQueue
<1>12. ~in_hw_restart /\ ~(session = "flush" /\ q \notin sync_state)
  BY <1>0 DEF QueueInv
<1>13. QueueInv(q)'
  BY <1>0, <1>5, <1>6, <1>7, <1>8, <1>9, <1>10, <1>11, <1>12 DEF QueueInv
<1>14. delivered' = [delivered EXCEPT ![q] = del]  BY DEF del
<1>15. PICK more \in Lists : more = entries[q]  BY <1>7
<1>16. PICK sn \in 0..(SnMod - 1) : sn = head_sn[q]  BY <1>7
<1>17. PICK n : n = num_stored[q]  OBVIOUS
<1>18. /\ entries' = [entries EXCEPT ![q] = more]
       /\ head_sn' = [head_sn EXCEPT ![q] = sn]
       /\ num_stored' = [num_stored EXCEPT ![q] = n]
  BY <1>7, <1>15, <1>16, <1>17
<1>. QED  BY <1>4, <1>13, <1>14, <1>18, QueueStep

\* The message changes nothing but what goes up as it comes.
Bypassed(q) ==
    /\ OnlyQueue(q) /\ fifo[q] # <<>>
    /\ UNCHANGED <<head_sn, num_stored, valid, entries>>
    /\ session = "flush" => UNCHANGED sync_state
    /\ Reordering(q) => ~Mover(Head(fifo[q]))
    /\ \E out :
          /\ \/ out = <<>>
             \/ /\ out = <<Head(fifo[q]).frame>>
                /\ Head(fifo[q]).type = "mpdu"
                /\ Reordering(q) => Head(fifo[q]).old
                /\ session = "closed" \/ ~valid[q]
          /\ delivered' = [delivered EXCEPT ![q] = @ \o out]

\* What arrives in the buffer with the first message: its frame, or nothing.
Arrival(q, arrived) ==
    \/ arrived = {}
    \/ /\ Fresh(Head(fifo[q])) /\ valid'[q]
       /\ arrived = {Head(fifo[q]).frame}

\* The message is handled by the buffer.
Reordered(q) ==
    /\ OnlyQueue(q) /\ fifo[q] # <<>> /\ Published /\ Reordering(q)
    /\ valid[q] => valid'[q]
    /\ UNCHANGED sync_state
    /\ \E hs, arrived, out, more :
          /\ Sound(fifo[q], entries[q], delivered[q], win, got, hs)
          /\ hs[Len(hs)] = win
          /\ Arrival(q, arrived)
          /\ Handled(q, arrived, out, more, hs[2])

\* The buffer is flushed.
Flushed(q) ==
    /\ OnlyQueue(q) /\ fifo[q] # <<>> /\ Published /\ Reordering(q)
    /\ UNCHANGED valid
    /\ sync_state' = sync_state \ {q}
    /\ session = "flush" /\ Tail(fifo[q]) = <<>>
    /\ \E hs, out, more :
          /\ Sound(fifo[q], entries[q], delivered[q], win, got, hs)
          /\ Handled(q, {}, out, more, hs[1] + BufSize)
          /\ Held0(more) = {}

\* A queue with a message belongs to a firmware that runs; it reorders, or
\* the session is over.
LEMMA RunningQueue ==
    ASSUME IInv, NEW q \in Queues, fifo[q] # <<>>
    PROVE  /\ ~in_hw_restart
           /\ Reordering(q) \/ session = "closed"
           /\ session \in {"idle", "fw"} => Head(fifo[q]).type = "mpdu"
                                            /\ Head(fifo[q]).old
           /\ fifo[q] \in Seq(Messages) /\ Head(fifo[q]) \in Messages
           /\ Head(fifo[q]) = fifo[q][1] /\ 1 \in 1..Len(fifo[q])
<1>0. Types /\ QueueInv(q)  BY DEF IInv
<1>1. fifo[q] \in Seq(Messages)  BY <1>0 DEF Types
<1>2. /\ Head(fifo[q]) = fifo[q][1] /\ Head(fifo[q]) \in Messages
      /\ 1 \in 1..Len(fifo[q])
  BY <1>1, EmptySeq, LenProperties, HeadTailProperties
<1>3. ~in_hw_restart /\ ~(session = "flush" /\ q \notin sync_state)
  BY <1>0 DEF QueueInv
<1>4. Reordering(q) \/ session = "closed"
  BY <1>0, <1>3 DEF Types, Reordering
<1>5. session \in {"idle", "fw"} => Head(fifo[q]).type = "mpdu"
                                    /\ Head(fifo[q]).old
  BY <1>0, <1>2 DEF QueueInv, AllOld
<1>. QED  BY <1>1, <1>2, <1>3, <1>4, <1>5

\* iwl_mld_rx_mpdu bypasses the buffer or goes through it.
LEMMA RxMpduEffect ==
    ASSUME Aligned, IInv, NEW q \in Queues, RxMpdu(q)
    PROVE  Bypassed(q) \/ Reordered(q)
<1>. DEFINE m == Head(fifo[q])
<1>0. Types /\ QueueInv(q)  BY DEF IInv
<1>1. fifo[q] # <<>> /\ m.type = "mpdu" /\ fifo' = [fifo EXCEPT ![q] = Tail(@)]
  BY DEF RxMpdu, Take
<1>2. /\ ~in_hw_restart /\ (Reordering(q) \/ session = "closed")
      /\ session \in {"idle", "fw"} => m.old
      /\ fifo[q] \in Seq(Messages) /\ m \in Messages
  BY <1>1, RunningQueue
<1>3. m.old \in BOOLEAN /\ m.dup \in BOOLEAN /\ m.frame \in Frames
  BY <1>1, <1>2, MessageType
<1>4. UNCHANGED <<session, sync, fw, purged>>  BY DEF RxMpdu
<1>5. ASSUME valid' = [valid EXCEPT ![q] = TRUE] \/ UNCHANGED valid
      PROVE  OnlyQueue(q) /\ (valid[q] => valid'[q])
  <2>1. /\ valid' = [valid EXCEPT ![q] = valid'[q]] /\ valid'[q] \in BOOLEAN
        /\ valid[q] => valid'[q]
    BY <1>0, <1>5 DEF Types
  <2>. QED  BY <1>1, <1>4, <2>1 DEF OnlyQueue, sync
<1>6. /\ delivered[q] \in Seq(Frames)
      /\ delivered = [delivered EXCEPT ![q] = @ \o <<>>]
  <2>1. delivered[q] \in Seq(Frames)  BY <1>0 DEF Types
  <2>2. delivered[q] \o <<>> = delivered[q]  BY <2>1, ConcatEmptySeq
  <2>. QED  BY <1>0, <2>1, <2>2 DEF Types
<1>. HIDE DEF m
<1>7. CASE in_hw_restart \/ IsDup(q, m)
  <2>1. UNCHANGED buffers  BY <1>7 DEF RxMpdu, Drop, m
  <2>2. /\ UNCHANGED <<head_sn, num_stored, valid, entries>>
        /\ UNCHANGED delivered
    BY <2>1 DEF buffers
  <2>3. m.old \/ m.dup  BY <1>2, <1>7 DEF IsDup
  <2>5. ~Mover(m)  BY <1>1, <2>3 DEF Mover, Fresh
  <2>4. delivered' = [delivered EXCEPT ![q] = @ \o <<>>]  BY <1>6, <2>2
  <2>. QED  BY <1>1, <1>4, <1>5, <2>2, <2>4, <2>5 DEF Bypassed, sync, m
<1>8. CASE ~in_hw_restart /\ ~IsDup(q, m)
  <2>1. Reorder(q, m)  BY <1>8 DEF RxMpdu, m
  <2>2. CASE ~Published \/ (~valid[q] /\ m.old)
    <3>1. /\ delivered' = [delivered EXCEPT ![q] = Append(@, m.frame)]
          /\ UNCHANGED <<head_sn, num_stored, valid, entries>>
      BY <2>1, <2>2 DEF Reorder, Pass
    <3>2. delivered' = [delivered EXCEPT ![q] = @ \o <<m.frame>>]
      <4>1. Append(delivered[q], m.frame) = delivered[q] \o <<m.frame>>
        BY <1>3, <1>6
      <4>. QED  BY <3>1, <4>1
    <3>3. session = "closed" \/ (m.old /\ ~valid[q])
      BY <1>0, <1>2, <2>2 DEF Types, QueueInv, Published
    <3>4. Reordering(q) => m.old  BY <3>3 DEF Reordering
    <3>5. Reordering(q) => ~Mover(m)
      BY <1>1, <3>4 DEF Mover, Fresh
    <3>. QED
      BY <1>1, <1>4, <1>5, <3>1, <3>2, <3>3, <3>4, <3>5 DEF Bypassed, sync, m
  <2>3. CASE Published /\ ~(~valid[q] /\ m.old)
    <3>0. Reordering(q)  BY <1>2, <2>3 DEF Published
    <3>1. valid' = [valid EXCEPT ![q] = TRUE]
      BY <2>1, <2>3 DEF Reorder
    <3>2. PICK hs : /\ Sound(fifo[q], entries[q], delivered[q], win, got, hs)
                    /\ hs[Len(hs)] = win
                    /\ head_sn[q] = Sn(hs[1])
      BY <1>0, <2>3, <3>0 DEF QueueInv, QueueOK
    <3>3. valid'[q]  BY <1>0, <3>1 DEF Types
    <3>4. UNCHANGED sync_state  BY <1>4 DEF sync
    <3>5. \E arrived, out, more :
             Arrival(q, arrived) /\ Handled(q, arrived, out, more, hs[2])
      <4>1. CASE m.dup \/ m.old
        <5>1. UNCHANGED <<head_sn, num_stored, entries, delivered>>
          BY <2>1, <2>3, <4>1 DEF Reorder
        <5>2. hs[1] \in Nat /\ hs[2] = HeadAfter(m, hs[1])
          BY <1>0, <1>1, <3>2, FirstMessage DEF m
        <5>3. hs[2] = hs[1]  BY <1>1, <4>1, <5>2 DEF HeadAfter, Mover, Fresh
        <5>4. Window(entries[q], hs[1])  BY <3>2 DEF Sound
        <5>5. num_stored[q] = Cardinality(Held0(entries[q]))
          BY <1>0 DEF QueueInv
        <5>6. Handled(q, {}, <<>>, entries[q], hs[1])
          BY <1>0, <3>2, <5>1, <5>2, <5>4, <5>5, KeptHandled
        <5>. QED  BY <5>3, <5>6 DEF Arrival
      <4>2. CASE ~m.dup /\ ~m.old
        <5>1. Fresh(m)  BY <1>1, <4>2 DEF Fresh
        <5>2. \E out, more : Handled(q, {m.frame}, out, more, hs[2])
          BY <1>0, <1>1, <2>1, <2>3, <3>2, <5>1, FreshHandled DEF m
        <5>. QED  BY <3>3, <5>1, <5>2 DEF Arrival, m
      <4>. QED  BY <4>1, <4>2
    <3>6. OnlyQueue(q) /\ (valid[q] => valid'[q])  BY <1>5, <3>1
    <3>. QED  BY <1>1, <2>3, <3>0, <3>2, <3>4, <3>5, <3>6 DEF Reordered
  <2>. QED  BY <2>2, <2>3
<1>. QED  BY <1>7, <1>8

\* So does iwl_mld_release_frames_from_notif.
LEMMA RxReleaseEffect ==
    ASSUME Aligned, IInv, NEW q \in Queues, RxRelease(q)
    PROVE  Bypassed(q) \/ Reordered(q)
<1>. DEFINE m == Head(fifo[q])
<1>0. Types /\ QueueInv(q)  BY DEF IInv
<1>1. fifo[q] # <<>> /\ m.type = "release"
      /\ fifo' = [fifo EXCEPT ![q] = Tail(@)]
  BY DEF RxRelease, Take
<1>2. /\ ~in_hw_restart /\ (Reordering(q) \/ session = "closed")
      /\ session \notin {"idle", "fw"}
      /\ fifo[q] \in Seq(Messages) /\ m \in Messages
  BY <1>1, RunningQueue
<1>4. UNCHANGED <<session, sync, fw, purged>>  BY DEF RxRelease
<1>5. UNCHANGED valid  BY DEF RxRelease, Drop, buffers
<1>6. OnlyQueue(q)
  <2>1. valid' = [valid EXCEPT ![q] = valid'[q]] /\ valid'[q] \in BOOLEAN
    BY <1>0, <1>5 DEF Types
  <2>. QED  BY <1>1, <1>4, <2>1 DEF OnlyQueue, sync
<1>. HIDE DEF m
<1>7. CASE ~Published
  <2>1. UNCHANGED buffers  BY <1>7 DEF RxRelease, Drop
  <2>2. /\ UNCHANGED <<head_sn, num_stored, valid, entries>>
        /\ UNCHANGED delivered
    BY <2>1 DEF buffers
  <2>3. ~Reordering(q) /\ session # "flush"
    BY <1>2, <1>7 DEF Reordering, Published
  <2>4. delivered' = [delivered EXCEPT ![q] = @ \o <<>>]
    <3>1. delivered[q] \in Seq(Frames)  BY <1>0 DEF Types
    <3>2. delivered[q] \o <<>> = delivered[q]  BY <3>1, ConcatEmptySeq
    <3>. QED  BY <1>0, <2>2, <3>2 DEF Types
  <2>. QED  BY <1>1, <1>6, <2>2, <2>3, <2>4 DEF Bypassed
<1>8. CASE Published
  <2>0. Reordering(q)  BY <1>2, <1>8 DEF Published
  <2>1. ReleaseFrames(q, entries[q], num_stored[q], Sn(m.nssn))
    BY <1>8 DEF RxRelease, m
  <2>2. PICK hs : /\ Sound(fifo[q], entries[q], delivered[q], win, got, hs)
                  /\ hs[Len(hs)] = win
                  /\ head_sn[q] = Sn(hs[1])
    BY <1>0, <1>8, <2>0 DEF QueueInv, QueueOK
  <2>. DEFINE h == hs[1]
              d == hs[2] - h
  <2>3. /\ h \in Nat /\ hs[2] \in Nat /\ h <= hs[2] /\ hs[2] <= h + BufSize
        /\ hs[2] = HeadAfter(m, h)
    BY <1>0, <1>1, <2>2, FirstMessage DEF m
  <2>4. hs[2] = m.nssn  BY <1>1, <2>3 DEF HeadAfter, Mover
  <2>5. d \in 0..BufSize /\ h + d = hs[2]
    <3>1. BufSize \in Nat  BY SnAssumption
    <3>. QED  BY <2>3, <3>1
  <2>6. Window(entries[q], h)  BY <2>2 DEF Sound
  <2>7. num_stored[q] = Cardinality(Held0(entries[q]))  BY <1>0 DEF QueueInv
  <2>. HIDE DEF d, h
  <2>8. ReleaseFrames(q, entries[q], num_stored[q], Sn(h + d))
    BY <2>1, <2>4, <2>5
  <2>9. head_sn[q] = Sn(h)  BY <2>2 DEF h
  <2>10. Held0(entries[q]) = Held0(entries[q]) \union {}  OBVIOUS
  <2>11. \E out, more : Handled(q, {}, out, more, h + d)
    BY <2>3, <2>5, <2>6, <2>7, <2>8, <2>9, <2>10, ReleaseHandled
  <2>12. UNCHANGED sync_state /\ (valid[q] => valid'[q])
    BY <1>4, <1>5 DEF sync
  <2>13. Arrival(q, {})  BY DEF Arrival
  <2>. QED  BY <1>1, <1>6, <1>8, <2>0, <2>2, <2>5, <2>11, <2>12, <2>13
            DEF Reordered
<1>. QED  BY <1>7, <1>8

\* iwl_mld_handle_rx_queues_sync_notif flushes the buffer, or changes none.
LEMMA RxSyncEffect ==
    ASSUME Aligned, IInv, NEW q \in Queues, RxSync(q)
    PROVE  Bypassed(q) \/ Flushed(q)
<1>. DEFINE m == Head(fifo[q])
<1>0. Types /\ SessionOK /\ QueueInv(q)  BY DEF IInv
<1>1. fifo[q] # <<>> /\ m.type = "sync"
      /\ fifo' = [fifo EXCEPT ![q] = Tail(@)]
  BY DEF RxSync, Take
<1>2. /\ ~in_hw_restart /\ (Reordering(q) \/ session = "closed")
      /\ session \notin {"idle", "fw"}
      /\ fifo[q] \in Seq(Messages) /\ m \in Messages
      /\ m = fifo[q][1] /\ 1 \in 1..Len(fifo[q])
  BY <1>1, RunningQueue
<1>3. m.sync \in {"empty", "del_ba"}  BY <1>1, <1>2, MessageType
<1>4. /\ UNCHANGED <<session, cookie, syncing, fw, purged>>
      /\ sync_state \ {q} \subseteq sync_state'
      /\ sync_state' \subseteq sync_state
  BY DEF RxSync
<1>5. UNCHANGED valid  BY DEF RxSync, DelBa, Drop, buffers
<1>6. OnlyQueue(q)
  <2>1. valid' = [valid EXCEPT ![q] = valid'[q]] /\ valid'[q] \in BOOLEAN
    BY <1>0, <1>5 DEF Types
  <2>. QED  BY <1>1, <1>4, <2>1 DEF OnlyQueue
<1>7. cookie = m.cookie => /\ m.sync = syncing
                           /\ syncing = "del_ba" => Len(fifo[q]) = 1
  BY <1>0, <1>1, <1>2 DEF QueueInv, Notifs
<1>. HIDE DEF m
<1>8. ASSUME Drop, session = "flush" => UNCHANGED sync_state
      PROVE  Bypassed(q)
  <2>2. /\ UNCHANGED <<head_sn, num_stored, valid, entries>>
        /\ UNCHANGED delivered
    BY <1>8 DEF Drop, buffers
  <2>3. ~Mover(m)  BY <1>1 DEF Mover, Fresh
  <2>4. delivered' = [delivered EXCEPT ![q] = @ \o <<>>]
    <3>1. delivered[q] \in Seq(Frames)  BY <1>0 DEF Types
    <3>2. delivered[q] \o <<>> = delivered[q]  BY <3>1, ConcatEmptySeq
    <3>. QED  BY <1>0, <2>2, <3>2 DEF Types
  <2>. QED  BY <1>1, <1>6, <1>8, <2>2, <2>3, <2>4 DEF Bypassed, m
<1>9. CASE cookie # m.cookie
  BY <1>8, <1>9 DEF RxSync, ThisCookie, m
<1>10. CASE cookie = m.cookie /\ m.sync = "empty"
  <2>1. Drop  BY <1>10 DEF RxSync, ThisCookie, m
  <2>2. session # "flush"  BY <1>0, <1>7, <1>10 DEF SessionOK
  <2>. QED  BY <1>8, <2>1, <2>2
<1>11. CASE cookie = m.cookie /\ m.sync = "del_ba"
  <2>1. DelBa(q) /\ sync_state' = sync_state \ {q}
    BY <1>11 DEF RxSync, ThisCookie, m
  <2>2. session = "flush" /\ Len(fifo[q]) = 1 /\ Published
    BY <1>0, <1>7, <1>11 DEF SessionOK, Published
  <2>3. Reordering(q)  BY <1>2, <2>2
  <2>4. Tail(fifo[q]) = <<>>
    <3>1. Tail(fifo[q]) \in Seq(Messages) /\ Len(Tail(fifo[q])) = 0
      BY <1>1, <1>2, <2>2, TailFacts
    <3>. QED  BY <3>1, EmptySeq
  <2>5. ReleaseFrames(q, entries[q], num_stored[q], SnAdd(head_sn[q], BufSize))
    BY <2>1, <2>2 DEF DelBa
  <2>6. PICK hs : /\ Sound(fifo[q], entries[q], delivered[q], win, got, hs)
                  /\ hs[Len(hs)] = win
                  /\ head_sn[q] = Sn(hs[1])
    BY <1>0, <2>2, <2>3 DEF QueueInv, QueueOK
  <2>. DEFINE h == hs[1]
  <2>7. h \in Nat  BY <1>0, <1>1, <2>6, FirstMessage
  <2>8. Window(entries[q], h) /\ entries[q] \in Lists
    BY <1>0, <2>6 DEF Sound, Types
  <2>9. num_stored[q] = Cardinality(Held0(entries[q]))  BY <1>0 DEF QueueInv
  <2>. HIDE DEF h
  <2>10. head_sn[q] = Sn(h)  BY <2>6 DEF h
  <2>11. BufSize \in Nat /\ BufSize \in 0..BufSize  BY SnAssumption
  <2>12. SnAdd(head_sn[q], BufSize) = Sn(h + BufSize)
    BY <2>7, <2>10, <2>11, SnSteps
  <2>13. Held0(entries[q]) = Held0(entries[q]) \union {}  OBVIOUS
  <2>14. PICK out, more : /\ Handled(q, {}, out, more, h + BufSize)
                          /\ \A f \in Held0(more) :
                                /\ f \in Held0(entries[q])
                                /\ ~(f[1] < h + BufSize)
    <3>1. PICK d \in 0..BufSize : d = BufSize  BY <2>11
    <3>2. ReleaseFrames(q, entries[q], num_stored[q], Sn(h + d))
      BY <2>5, <2>12, <3>1
    <3>3. \E out, more : /\ Handled(q, {}, out, more, h + d)
                         /\ \A f \in Held0(more) :
                               /\ f \in Held0(entries[q])
                               /\ ~(f[1] < h + d)
      BY <2>7, <2>8, <2>9, <2>10, <2>13, <3>2, ReleaseHandled
    <3>. QED  BY <3>1, <3>3
  <2>15. Held0(more) = {}
    <3>1. \A f \in Held0(entries[q]) : f[1] < h + BufSize
      BY <2>8 DEF Held0, Window
    <3>. QED  BY <2>14, <3>1
  <2>. QED  BY <1>1, <1>5, <1>6, <2>1, <2>2, <2>3, <2>4, <2>6, <2>14, <2>15
            DEF Flushed, h
<1>. QED  BY <1>3, <1>9, <1>10, <1>11

\* A flushed buffer is empty, and so is its queue.
LEMMA FlushedStep ==
    ASSUME IInv, NEW q \in Queues, Flushed(q)
    PROVE  IInv'
<1>0. Types /\ QueueInv(q)  BY DEF IInv
<1>1. /\ OnlyQueue(q) /\ fifo[q] # <<>> /\ UNCHANGED valid
      /\ sync_state' = sync_state \ {q}
      /\ session = "flush" /\ Tail(fifo[q]) = <<>>
  BY DEF Flushed
<1>2. PICK hs, out, more :
         /\ Sound(fifo[q], entries[q], delivered[q], win, got, hs)
         /\ Handled(q, {}, out, more, hs[1] + BufSize)
         /\ Held0(more) = {}
  BY DEF Flushed
<1>3. hs[1] \in Nat  BY <1>0, <1>1, <1>2, FirstMessage
<1>. DEFINE del == delivered[q] \o out
            sn == Sn(hs[1] + BufSize)
            n == Cardinality(Held0(more))
<1>4. sn \in 0..(SnMod - 1)
  <2>1. BufSize \in 0..BufSize  BY SnAssumption
  <2>. QED  BY <1>3, <2>1, SnSteps
<1>5. /\ out \in Seq(Frames) /\ more \in Lists
      /\ delivered' = [delivered EXCEPT ![q] = del]
      /\ entries' = [entries EXCEPT ![q] = more]
      /\ head_sn' = [head_sn EXCEPT ![q] = sn]
      /\ num_stored' = [num_stored EXCEPT ![q] = n]
  BY <1>2 DEF Handled
<1>6. del \in Seq(Frames)
  BY <1>0, <1>5, ConcatProperties DEF Types
<1>7. /\ entries'[q] = more /\ num_stored'[q] = n /\ fifo'[q] = <<>>
  BY <1>0, <1>1, <1>5 DEF Types, OnlyQueue
<1>8. session' = "flush" /\ ~Reordering(q)'
  BY <1>1 DEF OnlyQueue, Reordering
<1>9. Notifs(<<>>, cookie', syncing')  BY DEF Notifs
<1>10. QueueInv(q)'
  BY <1>2, <1>7, <1>8, <1>9 DEF QueueInv, n
<1>. HIDE DEF del, sn, n
<1>. QED  BY <1>1, <1>4, <1>5, <1>6, <1>10, QueueStep

\* What handling the first message of a queue amounts to, whatever it is.
LEMMA PollEffect ==
    ASSUME Aligned, IInv, NEW q \in Queues, Poll(q)
    PROVE  Bypassed(q) \/ Reordered(q) \/ Flushed(q)
BY RxMpduEffect, RxReleaseEffect, RxSyncEffect DEF Poll

\* Polling a queue keeps the invariant.
LEMMA PollInv ==
    ASSUME Aligned, IInv, NEW q \in Queues, Poll(q)
    PROVE  IInv'
<1>1. CASE Bypassed(q)
  <2>1. PICK out :
          /\ \/ out = <<>>
             \/ /\ out = <<Head(fifo[q]).frame>>
                /\ Head(fifo[q]).type = "mpdu"
                /\ Reordering(q) => Head(fifo[q]).old
          /\ delivered' = [delivered EXCEPT ![q] = @ \o out]
    BY <1>1 DEF Bypassed
  <2>2. /\ OnlyQueue(q) /\ fifo[q] # <<>>
        /\ UNCHANGED <<head_sn, num_stored, valid, entries>>
        /\ session = "flush" => UNCHANGED sync_state
        /\ Reordering(q) => ~Mover(Head(fifo[q]))
    BY <1>1 DEF Bypassed
  <2>. QED  BY <2>1, <2>2, BypassStep
<1>2. CASE Reordered(q)
  <2>1. PICK hs, arrived, out, more :
          /\ Sound(fifo[q], entries[q], delivered[q], win, got, hs)
          /\ hs[Len(hs)] = win
          /\ Arrival(q, arrived)
          /\ Handled(q, arrived, out, more, hs[2])
    BY <1>2 DEF Reordered
  <2>2. /\ OnlyQueue(q) /\ fifo[q] # <<>> /\ Published /\ Reordering(q)
        /\ valid[q] => valid'[q]
        /\ UNCHANGED sync_state
    BY <1>2 DEF Reordered
  <2>3. session = "flush" => q \in sync_state'
    BY <2>2 DEF Reordering
  <2>4. arrived = {} \/ ( /\ Fresh(Head(fifo[q]))
                          /\ arrived = {Head(fifo[q]).frame}
                          /\ valid'[q])
    BY <2>1 DEF Arrival
  <2>. QED  BY <2>1, <2>2, <2>3, <2>4, HandledStep
<1>. QED  BY <1>1, <1>2, PollEffect, FlushedStep

-----------------------------------------------------------------------------
(* The session and its synchronisations *)

\* No notification under way has the next cookie.
LEMMA NotifsNext ==
    ASSUME NEW s \in Seq(Messages), NEW c \in Nat, NEW t, NEW u,
           Notifs(s, c, t)
    PROVE  Notifs(s, c + 1, u)
<1>1. ASSUME NEW i \in 1..Len(s), s[i].type = "sync"
      PROVE  s[i].cookie <= c + 1 /\ s[i].cookie # c + 1
  <2>1. s[i] \in Messages  BY ElementOfSeq
  <2>2. s[i].cookie \in Nat  BY <1>1, <2>1, MessageType
  <2>3. s[i].cookie <= c  BY <1>1 DEF Notifs
  <2>. QED  BY <2>2, <2>3
<1>. QED  BY <1>1 DEF Notifs

\* A synchronisation that starts has the last of the notifications with its
\* cookie.
LEMMA NotifsPush ==
    ASSUME NEW s \in Seq(Messages), NEW c \in Nat, Notifs(s, c, None),
           NEW t \in {"empty", "del_ba"}
    PROVE  /\ SyncNotif(t, c) \in Messages
           /\ Notifs(Append(s, SyncNotif(t, c)), c, t)
<1>. DEFINE m == SyncNotif(t, c)
            r == Append(s, m)
<1>1. m \in Messages  BY DEF SyncNotif, Messages, SyncMessages
<1>2. m.type = "sync" /\ m.cookie = c /\ m.sync = t  BY DEF SyncNotif
<1>. HIDE DEF m
<1>3. /\ Len(r) = Len(s) + 1 /\ Len(s) \in Nat /\ r[Len(s) + 1] = m
      /\ \A i \in 1..Len(s) : r[i] = s[i]
  BY <1>1, AppendProperties, LenProperties
<1>. HIDE DEF r
<1>4. ASSUME NEW i \in 1..Len(r), r[i].type = "sync"
      PROVE  /\ r[i].cookie <= c
             /\ r[i].cookie = c => /\ r[i].sync = t
                                   /\ t = "del_ba" => i = Len(r)
  <2>1. CASE i = Len(r)  BY <1>2, <1>3, <2>1
  <2>2. CASE i # Len(r)
    <3>1. i \in 1..Len(s) /\ r[i] = s[i]  BY <1>3, <2>2
    <3>2. s[i] \in Messages  BY <3>1, ElementOfSeq
    <3>3. s[i].sync # None  BY <1>4, <3>1, <3>2, MessageType DEF None
    <3>. QED  BY <1>4, <3>1, <3>3 DEF Notifs
  <2>. QED  BY <2>1, <2>2
<1>. QED  BY <1>1, <1>4 DEF Notifs, r, m

\* The first and the last head.
Ends(hs, a, b) == hs[1] = a /\ hs[Len(hs)] = b

\* A notification moves no window.
LEMMA SyncSound ==
    ASSUME NEW s \in Seq(Messages), NEW lists \in Lists,
           NEW del \in Seq(Frames), NEW w, NEW g, NEW hs,
           Sound(s, lists, del, w, g, hs), hs[Len(hs)] = w,
           NEW m \in Messages, m.type = "sync"
    PROVE  \E ht : /\ Sound(Append(s, m), lists, del, w, g, ht)
                   /\ Ends(ht, hs[1], w)
<1>1. ~Fresh(m) /\ ~Mover(m) /\ MessageOK(m, hs[Len(hs)])
  BY DEF Fresh, Mover, MessageOK
<1>2. HeadAfter(m, hs[Len(hs)]) = w  BY <1>1 DEF HeadAfter
<1>. DEFINE ht == Append(hs, w)
<1>3. /\ Sound(Append(s, m), lists, del, w, g, ht)
      /\ ht[1] = hs[1] /\ ht[Len(ht)] = w
  BY <1>1, <1>2, PushSound
<1>. QED  BY <1>3 DEF Ends

\* The session starts in the firmware.
LEMMA StartBaInFwInv ==
    ASSUME IInv, StartBaInFw
    PROVE  IInv'
<1>1. /\ session = "idle" /\ session' = "fw"
      /\ UNCHANGED <<head_sn, num_stored, valid, entries, delivered, fifo>>
      /\ UNCHANGED <<sync_state, cookie, syncing, purged>>
      /\ UNCHANGED <<win, got, in_hw_restart>>
  BY DEF StartBaInFw, buffers, sync, fw
<1>2. Types'  BY <1>1 DEF IInv, Types
<1>3. SessionOK'  BY <1>1 DEF IInv, SessionOK
<1>4. ASSUME NEW q \in Queues PROVE QueueInv(q)'
  <2>1. QueueInv(q)  BY DEF IInv
  <2>2. QueueOK(q) => QueueOK(q)'  BY <1>1 DEF QueueOK, Published
  <2>3. Reordering(q)' => Reordering(q)  BY <1>1 DEF Reordering
  <2>. QED  BY <1>1, <2>1, <2>2, <2>3 DEF QueueInv
<1>. QED  BY <1>2, <1>3, <1>4 DEF IInv

\* The buffers start where the firmware does.
LEMMA InitReorderBufferInv ==
    ASSUME IInv, InitReorderBuffer
    PROVE  IInv'
<1>1. /\ session = "fw" /\ session' = "up"
      /\ head_sn' = [q \in Queues |-> Sn(FirstSn)]
      /\ UNCHANGED <<num_stored, valid, entries, delivered, fifo>>
      /\ UNCHANGED <<sync_state, cookie, syncing, purged>>
      /\ UNCHANGED <<win, got, in_hw_restart>>
  BY DEF InitReorderBuffer, buffers, sync, fw
<1>2. Types'
  <2>1. FirstSn \in Nat /\ 0 \in 0..BufSize  BY SnAssumption
  <2>2. Sn(FirstSn) \in 0..(SnMod - 1)  BY <2>1, SnSteps
  <2>3. head_sn' \in [Queues -> 0..(SnMod - 1)]  BY <1>1, <2>2
  <2>. QED  BY <1>1, <2>3 DEF IInv, Types
<1>3. SessionOK'  BY <1>1 DEF IInv, SessionOK, None
<1>4. ASSUME NEW q \in Queues PROVE QueueInv(q)'
  <2>1. QueueInv(q)  BY DEF IInv
  <2>2. head_sn'[q] = Sn(FirstSn)  BY <1>1
  <2>3. QueueOK(q) => QueueOK(q)'  BY <1>1, <2>2 DEF QueueOK
  <2>4. Reordering(q)' => Reordering(q)  BY <1>1 DEF Reordering
  <2>. QED  BY <1>1, <2>1, <2>3, <2>4 DEF QueueInv
<1>. QED  BY <1>2, <1>3, <1>4 DEF IInv

\* The session stops in the firmware.
LEMMA StopBaInFwInv ==
    ASSUME IInv, StopBaInFw
    PROVE  IInv'
<1>1. /\ session = "up" /\ session' = "stop" /\ syncing = None
      /\ UNCHANGED <<head_sn, num_stored, valid, entries, delivered, fifo>>
      /\ UNCHANGED <<sync_state, cookie, syncing, purged>>
      /\ UNCHANGED <<win, got, in_hw_restart>>
  BY DEF StopBaInFw, buffers, sync, fw
<1>2. Types'  BY <1>1 DEF IInv, Types
<1>3. SessionOK'  BY <1>1 DEF IInv, SessionOK, None
<1>4. ASSUME NEW q \in Queues PROVE QueueInv(q)'
  <2>1. QueueInv(q)  BY DEF IInv
  <2>2. QueueOK(q) => QueueOK(q)'  BY <1>1 DEF QueueOK, Published
  <2>3. Reordering(q)' => Reordering(q)  BY <1>1 DEF Reordering
  <2>. QED  BY <1>1, <2>1, <2>2, <2>3 DEF QueueInv
<1>. QED  BY <1>2, <1>3, <1>4 DEF IInv

\* The queues are asked to respond, and to flush if the session ends.
LEMMA StartSyncInv ==
    ASSUME IInv, NEW t, StartSync(t),
           \/ session = "up" /\ session' = "up" /\ t = "empty"
           \/ session = "stop" /\ session' = "flush" /\ t = "del_ba",
           UNCHANGED <<buffers, fw, purged>>
    PROVE  IInv'
<1>1. /\ UNCHANGED <<head_sn, num_stored, valid, entries, delivered>>
      /\ UNCHANGED <<win, got, in_hw_restart, purged>>
  BY DEF buffers, fw
<1>2. /\ syncing = None /\ ~in_hw_restart /\ syncing' = t
      /\ sync_state' = Queues /\ cookie' = cookie
      /\ fifo' = [q \in Queues |-> Append(fifo[q], SyncNotif(t, cookie))]
  BY DEF StartSync
<1>3. t \in {"empty", "del_ba"} /\ cookie \in Nat  BY DEF IInv, Types
<1>4. ASSUME NEW q \in Queues
      PROVE  /\ fifo[q] \in Seq(Messages) /\ SyncNotif(t, cookie) \in Messages
             /\ Append(fifo[q], SyncNotif(t, cookie)) \in Seq(Messages)
             /\ Notifs(Append(fifo[q], SyncNotif(t, cookie)), cookie, t)
  <2>1. fifo[q] \in Seq(Messages) /\ Notifs(fifo[q], cookie, None)
    BY <1>2 DEF IInv, Types, QueueInv
  <2>2. /\ SyncNotif(t, cookie) \in Messages
        /\ Notifs(Append(fifo[q], SyncNotif(t, cookie)), cookie, t)
    BY <1>3, <2>1, NotifsPush
  <2>. QED  BY <2>1, <2>2, AppendProperties
<1>5. Types'
  <2>1. fifo' \in [Queues -> Seq(Messages)]  BY <1>2, <1>4
  <2>. QED  BY <1>1, <1>2, <1>3, <2>1 DEF IInv, Types
<1>6. SessionOK'  BY <1>1, <1>2 DEF IInv, SessionOK, None
<1>7. ASSUME NEW q \in Queues PROVE QueueInv(q)'
  <2>1. QueueInv(q)  BY DEF IInv
  <2>. DEFINE m == SyncNotif(t, cookie)
  <2>2. fifo'[q] = Append(fifo[q], m)  BY <1>2
  <2>3. m.type = "sync"  BY DEF SyncNotif
  <2>. HIDE DEF m
  <2>4. QueueOK(q)
    BY <1>2, <2>1 DEF QueueInv, Reordering
  <2>5. PICK hs : /\ Sound(fifo[q], entries[q], delivered[q], win, got, hs)
                  /\ hs[Len(hs)] = win
                  /\ Published => head_sn[q] = Sn(hs[1])
    BY <2>4 DEF QueueOK
  <2>6. entries[q] \in Lists /\ delivered[q] \in Seq(Frames)
    BY DEF IInv, Types
  <2>12. fifo[q] \in Seq(Messages) /\ m \in Messages  BY <1>4 DEF m
  <2>7. PICK ht : /\ Sound(Append(fifo[q], m), entries[q], delivered[q], win,
                           got, ht)
                  /\ Ends(ht, hs[1], win)
    BY <2>3, <2>5, <2>6, <2>12, SyncSound
  <2>8. Published /\ session' \notin {"idle", "fw"}  BY DEF Published
  <2>9. QueueOK(q)'
    BY <1>1, <2>2, <2>5, <2>7, <2>8 DEF QueueOK, Ends
  <2>10. Notifs(Append(fifo[q], m), cookie, t)  BY <1>4 DEF m
  <2>11. session' \notin {"idle", "fw", "closed"} /\ session # "closed"
    OBVIOUS
  <2>. QED  BY <1>1, <1>2, <2>1, <2>2, <2>9, <2>10, <2>11 DEF QueueInv
<1>. QED  BY <1>5, <1>6, <1>7 DEF IInv

\* A synchronisation in the course of the session ends, or fails.
LEMMA NextCookieInv ==
    ASSUME IInv, session = "up", UNCHANGED session, cookie' = cookie + 1,
           syncing' = None, sync_state' \subseteq sync_state,
           UNCHANGED <<buffers, fw, fifo, purged>>
    PROVE  IInv'
<1>1. /\ UNCHANGED <<head_sn, num_stored, valid, entries, delivered>>
      /\ UNCHANGED <<win, got, in_hw_restart, purged, fifo>>
  BY DEF buffers, fw
<1>2. Types'  BY <1>1 DEF IInv, Types
<1>3. SessionOK'  BY <1>1 DEF IInv, SessionOK, None
<1>4. ASSUME NEW q \in Queues PROVE QueueInv(q)'
  <2>1. QueueInv(q)  BY DEF IInv
  <2>2. QueueOK(q) => QueueOK(q)'  BY <1>1 DEF QueueOK, Published
  <2>3. Reordering(q)' => Reordering(q)  BY <1>1 DEF Reordering
  <2>4. fifo[q] \in Seq(Messages) /\ cookie \in Nat  BY DEF IInv, Types
  <2>5. Notifs(fifo[q], cookie + 1, None)
    BY <2>1, <2>4, NotifsNext DEF QueueInv
  <2>. QED  BY <1>1, <2>1, <2>2, <2>3, <2>5 DEF QueueInv
<1>. QED  BY <1>2, <1>3, <1>4 DEF IInv

\* The session ends: the buffers are empty, whatever was in them.
LEMMA PurgeInv ==
    ASSUME IInv, Purge, cookie' = cookie + 1, syncing' = None,
           sync_state' \subseteq sync_state
    PROVE  IInv'
<1>. DEFINE none == [i \in 0..(BufSize - 1) |-> <<>>]
<1>1. /\ session' = "closed"
      /\ entries' = [q \in Queues |-> none]
      /\ num_stored' = [q \in Queues |-> 0]
      /\ UNCHANGED <<head_sn, valid, delivered, fifo>>
      /\ UNCHANGED <<win, got, in_hw_restart>>
  BY DEF Purge, fw
<1>2. none \in Lists /\ Held0(none) = {}
  <2>1. <<>> \in Seq(Frames) /\ ToSet(<<>>) = {}  BY EmptySeq DEF ToSet
  <2>. QED  BY <2>1 DEF Lists, Held0
<1>3. purged' \subseteq Frames
  <2>1. purged' = UNION {ToSet(entries[q][i]) : q \in {r \in Queues :
                            num_stored[r] # 0}, i \in 0..(BufSize - 1)}
    BY DEF Purge
  <2>2. \A q \in Queues, i \in 0..(BufSize - 1) :
           ToSet(entries[q][i]) \subseteq Frames
    BY ListFrames DEF IInv, Types
  <2>. QED  BY <2>1, <2>2
<1>. HIDE DEF none
<1>4. Types'
  BY <1>1, <1>2, <1>3 DEF IInv, Types
<1>5. SessionOK'  BY <1>1 DEF IInv, SessionOK, None
<1>6. ASSUME NEW q \in Queues PROVE QueueInv(q)'
  <2>1. QueueInv(q)  BY DEF IInv
  <2>2. entries'[q] = none /\ num_stored'[q] = 0  BY <1>1
  <2>3. Cardinality(Held0(none)) = 0  BY <1>2, FS_EmptySet
  <2>4. ~Reordering(q)'  BY <1>1 DEF Reordering
  <2>5. fifo[q] \in Seq(Messages) /\ cookie \in Nat  BY DEF IInv, Types
  <2>6. Notifs(fifo[q], cookie + 1, None)
    BY <2>1, <2>5, NotifsNext DEF QueueInv
  <2>. QED  BY <1>1, <1>2, <2>1, <2>2, <2>3, <2>4, <2>6 DEF QueueInv
<1>. QED  BY <1>4, <1>5, <1>6 DEF IInv

\* Every step of the session keeps the invariant.
LEMMA SessionInv ==
    ASSUME IInv, Session
    PROVE  IInv'
<1>0. Types /\ SessionOK  BY DEF IInv
<1>1. CASE StartBaInFw  BY <1>1, StartBaInFwInv
<1>2. CASE InitReorderBuffer  BY <1>2, InitReorderBufferInv
<1>3. CASE StopBaInFw  BY <1>3, StopBaInFwInv
<1>4. CASE FlushBuffers
  <2>1. /\ session = "stop" /\ session' = "flush" /\ StartSync("del_ba")
        /\ UNCHANGED <<buffers, fw, purged>>
    BY <1>4 DEF FlushBuffers
  <2>. QED  BY <2>1, StartSyncInv
<1>5. CASE SyncEmpty
  <2>1. /\ session = "up" /\ session' = "up" /\ StartSync("empty")
        /\ UNCHANGED <<buffers, fw, purged>>
    BY <1>5 DEF SyncEmpty
  <2>. QED  BY <2>1, StartSyncInv
<1>6. CASE SyncEmptyFails
  <2>1. /\ session = "up" /\ UNCHANGED session /\ cookie' = cookie + 1
        /\ syncing' = None /\ sync_state' = sync_state
        /\ UNCHANGED <<buffers, fw, fifo, purged>>
    BY <1>6 DEF SyncEmptyFails, FailSync
  <2>. QED  BY <2>1, NextCookieInv
<1>7. CASE SyncEmptyEnds
  <2>1. /\ syncing = "empty" /\ UNCHANGED session /\ cookie' = cookie + 1
        /\ syncing' = None /\ sync_state' = {}
        /\ UNCHANGED <<buffers, fw, fifo, purged>>
    BY <1>7 DEF SyncEmptyEnds, EndSync
  <2>2. session = "up"  BY <1>0, <2>1 DEF SessionOK, Types, None
  <2>. QED  BY <2>1, <2>2, NextCookieInv
<1>8. CASE FreeBuffers \/ FreeBuffersTimedOut
  <2>1. /\ Purge /\ cookie' = cookie + 1 /\ syncing' = None
        /\ sync_state' = {}
    BY <1>8 DEF FreeBuffers, FreeBuffersTimedOut, EndSync
  <2>. QED  BY <2>1, PurgeInv
<1>9. CASE FreeBuffersNoSync
  <2>1. /\ Purge /\ cookie' = cookie + 1 /\ syncing' = None
        /\ sync_state' = sync_state
    BY <1>9 DEF FreeBuffersNoSync, FailSync
  <2>. QED  BY <2>1, PurgeInv
<1>. QED
  BY <1>1, <1>2, <1>3, <1>4, <1>5, <1>6, <1>7, <1>8, <1>9 DEF Session

-----------------------------------------------------------------------------
(* The firmware *)

\* What stays in the window when NSSN is x.
Beyond(received, x) == {n \in received : n > x}
\* NSSN moves from w, over what was received, to x; g stays beyond it.
Moved(w, received, x, g) ==
    /\ x \in Nat /\ w <= x /\ x <= win + BufSize
    /\ x \in FirstSn..(LastMpdu + 1)
    /\ w \in received => w < x
    /\ w \notin received => x = w
    /\ g \subseteq (x + 1)..(x + BufSize - 1) /\ g \subseteq Mpdus
    /\ \A k \in Nat : k < win \/ k \in received => Known(x, g, k)

\* NSSN moves to the first MPDU not received, at most by the window's size;
\* what was known stays so.
LEMMA WindowMoves ==
    ASSUME Types, SessionOK, NEW w \in Nat, win <= w, w <= win + BufSize,
           w <= LastMpdu + 1, NEW received, received \subseteq Mpdus,
           received \subseteq win..(win + BufSize - 1)
    PROVE  LET x == Advance(w, received)
           IN  Moved(w, received, x, Beyond(received, x))
<1>. DEFINE x == Advance(w, received)
            g == Beyond(received, x)
<1>0. /\ BufSize \in Nat /\ FirstSn \in Nat /\ LastMpdu \in Int
      /\ win \in Nat /\ win \in FirstSn..(LastMpdu + 1)
  BY SnAssumption, ReorderBounds DEF Types, LastMpdu
<1>. DEFINE T == {y \in w..(LastMpdu + 1) : y \notin received}
<1>1. T \subseteq Nat /\ T # {}
  <2>1. LastMpdu + 1 \notin received  BY <1>0 DEF Mpdus
  <2>2. LastMpdu + 1 \in w..(LastMpdu + 1)  BY <1>0
  <2>3. LastMpdu + 1 \in T  BY <2>1, <2>2
  <2>. QED  BY <1>0, <2>3
<1>2. PICK z \in T : \A y \in T : z <= y  BY <1>1, LeastNatural
<1>3. \A y \in w..(z - 1) : y \in received  BY <1>0, <1>2
<1>4. z \in w..(LastMpdu + 1) /\ z \notin received  BY <1>2
<1>5. \E y \in w..(LastMpdu + 1) :
         y \notin received /\ \A k \in w..(y - 1) : k \in received
  BY <1>3, <1>4
<1>6. /\ x \in w..(LastMpdu + 1) /\ x \notin received
      /\ \A y \in w..(x - 1) : y \in received
  BY <1>5 DEF Advance
<1>. HIDE DEF x
<1>7. x \in Nat /\ w <= x /\ x \in FirstSn..(LastMpdu + 1)  BY <1>0, <1>6
<1>8. x <= win + BufSize
  <2>1. CASE x = w  BY <2>1
  <2>2. CASE x # w
    <3>1. x - 1 \in w..(x - 1)  BY <1>7, <2>2
    <3>2. x - 1 \in win..(win + BufSize - 1)  BY <1>6, <3>1
    <3>. QED  BY <1>0, <1>7, <3>2
  <2>. QED  BY <2>1, <2>2
<1>9. w \in received => w < x  BY <1>6, <1>7
<1>10. w \notin received => x = w
  <2>1. w # x => w \in w..(x - 1)  BY <1>7
  <2>. QED  BY <1>6, <2>1
<1>11. g \subseteq (x + 1)..(x + BufSize - 1)
  <2>. SUFFICES ASSUME NEW k \in received, k > x
                PROVE  k \in (x + 1)..(x + BufSize - 1)
    BY DEF Beyond
  <2>1. k \in win..(win + BufSize - 1)  OBVIOUS
  <2>. QED  BY <1>0, <1>7, <2>1
<1>12. ASSUME NEW k \in Nat, k < win \/ k \in received PROVE Known(x, g, k)
  <2>1. k # x
    <3>1. k \in received => k # x  BY <1>6
    <3>2. k < win => k # x  BY <1>0, <1>7
    <3>. QED  BY <1>12, <3>1, <3>2
  <2>2. CASE k < x  BY <2>2 DEF Known
  <2>3. CASE ~(k < x)
    <3>1. k > x  BY <1>7, <2>1, <2>3
    <3>2. k \in received  BY <1>0, <1>7, <1>12, <2>3
    <3>. QED  BY <3>1, <3>2 DEF Known, Beyond
  <2>. QED  BY <2>2, <2>3
<1>13. g \subseteq Mpdus  BY DEF Beyond
<1>. QED
  BY <1>7, <1>8, <1>9, <1>10, <1>11, <1>12, <1>13 DEF Moved, x

\* A queue of the session to which the firmware adds messages: s is on the
\* queue, w and g is what the firmware has received, and b the head when all
\* of s has been handled.
OnWay(s, lists, del, w, g, a, b) ==
    \E hs : Sound(s, lists, del, w, g, hs) /\ Ends(hs, a, b)
\* The queue's first head is a.
Starts(q, a) ==
    /\ Published => head_sn[q] = Sn(a)
    /\ session \in {"idle", "fw"} => a = FirstSn
\* A queue that the firmware adds messages to, up to the head b.
Growing(q, s, w, g, b) ==
    /\ s \in Seq(Messages)
    /\ Notifs(s, cookie, syncing)
    /\ session \in {"idle", "fw"} => AllOld(s)
    /\ \E a : /\ OnWay(s, entries[q], delivered[q], w, g, a, b)
              /\ Starts(q, a)

\* Subframe sub of MPDU n comes after all that the queue knows of n.
Unseen(q, s, n, sub) ==
    /\ \A f \in ToSet(delivered[q]) \union Held0(entries[q]) :
          Precedes(f, <<n, sub>>)
    /\ \A i \in 1..Len(s) : Fresh(s[i]) => Precedes(s[i].frame, <<n, sub>>)

\* The invariant says that a queue is one to which messages may be added ...
LEMMA GrowingStarts ==
    ASSUME IInv, NEW q \in Queues, session \in {"fw", "up"}, ~in_hw_restart
    PROVE  Growing(q, fifo[q], win, got, win)
<1>1. Types /\ QueueInv(q) /\ QueueOK(q)
  BY DEF IInv, QueueInv, Reordering
<1>2. PICK hs : /\ Sound(fifo[q], entries[q], delivered[q], win, got, hs)
                /\ hs[Len(hs)] = win
                /\ Published => head_sn[q] = Sn(hs[1])
                /\ session \in {"idle", "fw"} => hs[1] = FirstSn
  BY <1>1 DEF QueueOK
<1>3. Ends(hs, hs[1], win)  BY <1>2 DEF Ends
<1>4. OnWay(fifo[q], entries[q], delivered[q], win, got, hs[1], win)
  BY <1>2, <1>3 DEF OnWay
<1>5. Starts(q, hs[1])  BY <1>2 DEF Starts
<1>. QED  BY <1>1, <1>4, <1>5 DEF Growing, Types, QueueInv

\* ... and holds for it when they have been added and NSSN moved.
LEMMA GrowingEnds ==
    ASSUME IInv, NEW q \in Queues,
           Growing(q, fifo'[q], win', got', win'), ~in_hw_restart,
           session \in {"fw", "up"},
           UNCHANGED <<session, buffers, sync, in_hw_restart>>
    PROVE  QueueInv(q)'
<1>1. /\ UNCHANGED <<head_sn, num_stored, valid, entries, delivered>>
      /\ UNCHANGED <<session, sync_state, cookie, syncing, in_hw_restart>>
  BY DEF buffers, sync
<1>2. QueueInv(q)  BY DEF IInv
<1>3. PICK a : /\ OnWay(fifo'[q], entries[q], delivered[q], win', got', a,
                        win')
               /\ Starts(q, a)
  BY DEF Growing
<1>4. PICK hs : /\ Sound(fifo'[q], entries[q], delivered[q], win', got', hs)
                /\ Ends(hs, a, win')
  BY <1>3 DEF OnWay
<1>5. /\ hs[1] = a /\ hs[Len(hs)] = win'  BY <1>4 DEF Ends
<1>6. QueueOK(q)'
  BY <1>1, <1>3, <1>4, <1>5 DEF QueueOK, Starts, Published
<1>7. /\ Notifs(fifo'[q], cookie, syncing)
      /\ session \in {"idle", "fw"} => AllOld(fifo'[q])
  BY DEF Growing
<1>. QED  BY <1>1, <1>2, <1>6, <1>7 DEF QueueInv

\* The firmware forgets nothing.
LEMMA GrowingKnown ==
    ASSUME Types, NEW q \in Queues, NEW s, NEW w, NEW g, NEW b,
           Growing(q, s, w, g, b), NEW x, NEW y,
           \A k \in Nat : Known(w, g, k) => Known(x, y, k)
    PROVE  Growing(q, s, x, y, b)
<1>1. PICK a : OnWay(s, entries[q], delivered[q], w, g, a, b) /\ Starts(q, a)
  BY DEF Growing
<1>2. PICK hs : /\ Sound(s, entries[q], delivered[q], w, g, hs)
                /\ Ends(hs, a, b)
  BY <1>1 DEF OnWay
<1>3. /\ s \in Seq(Messages) /\ entries[q] \in Lists
      /\ delivered[q] \in Seq(Frames)
  BY DEF Growing, Types
<1>4. Sound(s, entries[q], delivered[q], x, y, hs)
  BY <1>2, <1>3, KnownSound
<1>5. OnWay(s, entries[q], delivered[q], x, y, a, b)
  BY <1>2, <1>4 DEF OnWay
<1>. QED  BY <1>1, <1>5 DEF Growing

\* What the firmware has not received is nowhere.
LEMMA NotKnown ==
    ASSUME Types, NEW q \in Queues, NEW s, NEW w, NEW g, NEW b,
           Growing(q, s, w, g, b), NEW n \in Nat, ~Known(w, g, n), NEW sub
    PROVE  Unseen(q, s, n, sub)
<1>1. PICK a : OnWay(s, entries[q], delivered[q], w, g, a, b)
  BY DEF Growing
<1>2. PICK hs : Sound(s, entries[q], delivered[q], w, g, hs)
  BY <1>1 DEF OnWay
<1>3. AllKnown(s, entries[q], delivered[q], w, g)  BY <1>2 DEF Sound
<1>4. <<n, sub>>[1] = n  OBVIOUS
<1>5. ASSUME NEW f \in ToSet(delivered[q]) \union Held0(entries[q])
      PROVE  Precedes(f, <<n, sub>>)
  BY <1>3, <1>4 DEF AllKnown, Precedes
<1>6. ASSUME NEW i \in 1..Len(s), Fresh(s[i])
      PROVE  Precedes(s[i].frame, <<n, sub>>)
  BY <1>3, <1>4, <1>6 DEF AllKnown, Precedes, Fresh
<1>. QED  BY <1>5, <1>6 DEF Unseen

\* A frame or a release notification is no response that is waited for.
LEMMA OtherNotifs ==
    ASSUME NEW s \in Seq(Messages), NEW m \in Messages, m.type # "sync",
           NEW c, NEW t, t # "del_ba", Notifs(s, c, t)
    PROVE  Notifs(Append(s, m), c, t)
<1>. DEFINE r == Append(s, m)
<1>1. /\ Len(r) = Len(s) + 1 /\ Len(s) \in Nat /\ r[Len(s) + 1] = m
      /\ \A i \in 1..Len(s) : r[i] = s[i]
  BY AppendProperties, LenProperties
<1>. HIDE DEF r
<1>2. ASSUME NEW i \in 1..Len(r), r[i].type = "sync"
      PROVE  /\ r[i].cookie <= c
             /\ r[i].cookie = c => r[i].sync = t
  <2>1. i # Len(s) + 1  BY <1>1, <1>2
  <2>2. i \in 1..Len(s) /\ r[i] = s[i]  BY <1>1, <2>1
  <2>. QED  BY <1>2, <2>2 DEF Notifs
<1>. QED  BY <1>2 DEF Notifs, r

\* Before the session runs, late frames arrive.
LEMMA OldPushed ==
    ASSUME NEW s \in Seq(Messages), NEW m \in Messages, m.type = "mpdu", m.old,
           AllOld(s)
    PROVE  AllOld(Append(s, m))
<1>1. /\ Len(Append(s, m)) = Len(s) + 1 /\ Len(s) \in Nat
      /\ Append(s, m)[Len(s) + 1] = m
      /\ \A i \in 1..Len(s) : Append(s, m)[i] = s[i]
  BY AppendProperties, LenProperties
<1>2. ASSUME NEW i \in 1..Len(Append(s, m))
      PROVE  Append(s, m)[i].type = "mpdu" /\ Append(s, m)[i].old
  <2>1. CASE i = Len(s) + 1  BY <1>1, <2>1
  <2>2. CASE i # Len(s) + 1
    <3>1. i \in 1..Len(s) /\ Append(s, m)[i] = s[i]  BY <1>1, <2>2
    <3>. QED  BY <3>1 DEF AllOld
  <2>. QED  BY <2>1, <2>2
<1>. QED  BY <1>2 DEF AllOld

\* The firmware adds a message to a queue.
LEMMA Push ==
    ASSUME Types, SessionOK, session \in {"fw", "up"}, NEW q \in Queues,
           NEW s, NEW w, NEW g, NEW b, Growing(q, s, w, g, b),
           NEW m \in Messages, MessageOK(m, b), m.type # "sync",
           m.type = "mpdu" => Known(w, g, m.frame[1]),
           Fresh(m) => Unseen(q, s, m.frame[1], m.frame[2]),
           session = "fw" => m.type = "mpdu" /\ m.old
    PROVE  Growing(q, Append(s, m), w, g, HeadAfter(m, b))
<1>1. PICK a : OnWay(s, entries[q], delivered[q], w, g, a, b) /\ Starts(q, a)
  BY DEF Growing
<1>2. PICK hs : /\ Sound(s, entries[q], delivered[q], w, g, hs)
                /\ Ends(hs, a, b)
  BY <1>1 DEF OnWay
<1>3. /\ s \in Seq(Messages) /\ entries[q] \in Lists
      /\ delivered[q] \in Seq(Frames) /\ Notifs(s, cookie, syncing)
      /\ session = "fw" => AllOld(s)
  BY DEF Growing, Types
<1>4. hs[1] = a /\ hs[Len(hs)] = b  BY <1>2 DEF Ends
<1>5. ASSUME Fresh(m)
      PROVE  /\ \A f \in ToSet(delivered[q]) \union Held0(entries[q]) :
                   Precedes(f, m.frame)
             /\ \A i \in 1..Len(s) : Fresh(s[i]) =>
                   Precedes(s[i].frame, m.frame)
  <2>1. m.frame = <<m.frame[1], m.frame[2]>>
    BY <1>5, MessageType, FrameType DEF Fresh
  <2>. QED  BY <1>5, <2>1 DEF Unseen
<1>6. MessageOK(m, hs[Len(hs)])  BY <1>4
<1>. DEFINE h == HeadAfter(m, hs[Len(hs)])
            ht == Append(hs, h)
<1>7. /\ Sound(Append(s, m), entries[q], delivered[q], w, g, ht)
      /\ ht[1] = hs[1] /\ ht[Len(ht)] = h
      /\ Append(s, m) \in Seq(Messages)
  BY <1>2, <1>3, <1>5, <1>6, PushSound
<1>8. h = HeadAfter(m, b)  BY <1>4
<1>. HIDE DEF ht, h
<1>9. Ends(ht, a, HeadAfter(m, b))  BY <1>4, <1>7, <1>8 DEF Ends
<1>10. OnWay(Append(s, m), entries[q], delivered[q], w, g, a, HeadAfter(m, b))
  BY <1>7, <1>9 DEF OnWay
<1>11. Notifs(Append(s, m), cookie, syncing)
  <2>1. syncing # "del_ba"  BY DEF SessionOK
  <2>. QED  BY <1>3, <2>1, OtherNotifs
<1>12. session \in {"idle", "fw"} => AllOld(Append(s, m))
  BY <1>3, OldPushed
<1>. QED  BY <1>1, <1>7, <1>10, <1>11, <1>12 DEF Growing

\* How the number of an MPDU and its NSSN relate to the NSSN before, b.
Numbered(n, x, old, dup, b) ==
    /\ n \in Mpdus /\ x \in Nat /\ b \in Nat
    /\ old \in BOOLEAN /\ dup \in BOOLEAN
    /\ old => n < b
    /\ old \/ dup => x = b
    /\ ~old /\ ~dup => \/ n = b /\ b < x /\ x <= b + BufSize
                       \/ x = b /\ b < n /\ n < b + BufSize

\* The firmware adds a frame to a queue.
LEMMA PushMpdu ==
    ASSUME Types, SessionOK, session \in {"fw", "up"}, NEW q \in Queues,
           NEW s, NEW w, NEW g, NEW b, Growing(q, s, w, g, b),
           NEW n, NEW x, NEW old, NEW dup, Numbered(n, x, old, dup, b),
           NEW sub \in Subframes(n), Known(w, g, n),
           ~old /\ ~dup => Unseen(q, s, n, sub),
           session = "fw" => old
    PROVE  LET r == Append(s, Mpdu(n, sub, x, old, dup))
           IN  /\ Growing(q, r, w, g, IF sub = LastOf(n) THEN x ELSE b)
               /\ ~old /\ ~dup /\ sub = 1 => Unseen(q, r, n, 2)
<1>. DEFINE m == Mpdu(n, sub, x, old, dup)
            r == Append(s, m)
<1>1. <<n, sub>> \in Frames  BY DEF Numbered, Frames
<1>2. /\ m.type = "mpdu" /\ m.frame = <<n, sub>> /\ m.nssn = x
      /\ m.old = old /\ m.dup = dup
  BY DEF Mpdu
<1>3. m \in Messages
  BY <1>1 DEF Mpdu, Messages, MpduMessages, Numbered
<1>4. m.frame[1] = n /\ m.frame[2] = sub  BY <1>2
<1>. HIDE DEF m
<1>5. Fresh(m) <=> ~old /\ ~dup  BY <1>2 DEF Fresh
<1>6. MessageOK(m, b)
  BY <1>2, <1>4 DEF MessageOK, MpduOK, Numbered
<1>7. HeadAfter(m, b) = IF sub = LastOf(n) THEN x ELSE b
  BY <1>2, <1>4, <1>5 DEF HeadAfter, Mover, LastSubframe, Numbered
<1>8. Growing(q, r, w, g, HeadAfter(m, b))
  BY <1>2, <1>3, <1>4, <1>5, <1>6, Push
<1>9. ASSUME ~old, ~dup, sub = 1 PROVE Unseen(q, r, n, 2)
  <2>1. Unseen(q, s, n, sub)  BY <1>9
  <2>2. s \in Seq(Messages)  BY DEF Growing
  <2>3. /\ Len(r) = Len(s) + 1 /\ Len(s) \in Nat /\ r[Len(s) + 1] = m
        /\ \A i \in 1..Len(s) : r[i] = s[i]
    BY <1>3, <2>2, AppendProperties, LenProperties
  <2>4. ASSUME NEW f, Precedes(f, <<n, sub>>), f[2] \in Int
        PROVE  Precedes(f, <<n, 2>>)
    BY <1>9, <2>4 DEF Precedes
  <2>5. ASSUME NEW f \in ToSet(delivered[q]) \union Held0(entries[q])
        PROVE  Precedes(f, <<n, 2>>)
    <3>1. f \in Frames
      BY HeldFinite, ToSetType DEF Types
    <3>2. f[2] \in Int  BY <3>1, FrameType
    <3>. QED  BY <2>1, <2>4, <3>2 DEF Unseen
  <2>. HIDE DEF r
  <2>6. ASSUME NEW i \in 1..Len(r), Fresh(r[i])
        PROVE  Precedes(r[i].frame, <<n, 2>>)
    <3>1. CASE i = Len(s) + 1
      BY <1>2, <1>9, <2>3, <3>1 DEF Precedes
    <3>2. CASE i # Len(s) + 1
      <4>1. i \in 1..Len(s) /\ r[i] = s[i]  BY <2>3, <3>2
      <4>2. s[i] \in Messages  BY <2>2, <4>1, ElementOfSeq
      <4>3. s[i].frame[2] \in Int
        BY <2>6, <4>1, <4>2, MessageType, FrameType DEF Fresh
      <4>. QED  BY <2>1, <2>4, <2>6, <4>1, <4>3 DEF Unseen
    <3>. QED  BY <3>1, <3>2
  <2>. QED  BY <2>5, <2>6 DEF Unseen
<1>. QED  BY <1>7, <1>8, <1>9 DEF r, m

\* The firmware adds a release notification to a queue.
LEMMA PushRelease ==
    ASSUME Types, SessionOK, session = "up", NEW q \in Queues,
           NEW s, NEW w, NEW g, NEW b \in Nat, Growing(q, s, w, g, b),
           NEW x \in Nat, b <= x, x <= b + BufSize
    PROVE  Growing(q, Append(s, ReleaseNotif(x)), w, g, x)
<1>. DEFINE m == ReleaseNotif(x)
<1>1. m.type = "release" /\ m.nssn = x /\ m \in Messages
  BY DEF ReleaseNotif, Messages, ReleaseMessages
<1>. HIDE DEF m
<1>2. MessageOK(m, b) /\ HeadAfter(m, b) = x /\ ~Fresh(m)
  BY <1>1 DEF MessageOK, HeadAfter, Mover, Fresh
<1>3. Growing(q, Append(s, m), w, g, HeadAfter(m, b))
  BY <1>1, <1>2, Push
<1>. QED  BY <1>2, <1>3 DEF m

\* The messages that an MPDU puts on a queue.
Msgs(n, to, q, x, old, dup) ==
    [k \in 1..Cardinality({s \in Subframes(n) : to[s] = q}) |->
       LET s == IF to[1] = q THEN k ELSE 2
       IN  Mpdu(n, s, x, old, dup)]

\* They are its subframes, in order, as far as they are for this queue.
LEMMA MessagesTo ==
    ASSUME NEW n, NEW to, NEW q, NEW x, NEW old, NEW dup
    PROVE  LET ms == Msgs(n, to, q, x, old, dup)
               m1 == Mpdu(n, 1, x, old, dup)
               m2 == Mpdu(n, 2, x, old, dup)
           IN  \/ ms = <<>> /\ to[LastOf(n)] # q
               \/ ms = <<m1>> /\ (to[LastOf(n)] = q <=> LastOf(n) = 1)
               \/ ms = <<m2>> /\ to[LastOf(n)] = q /\ LastOf(n) = 2
               \/ ms = <<m1, m2>> /\ to[LastOf(n)] = q /\ LastOf(n) = 2
<1>. DEFINE S == {s \in Subframes(n) : to[s] = q}
            ms == Msgs(n, to, q, x, old, dup)
            e(k) == Mpdu(n, IF to[1] = q THEN k ELSE 2, x, old, dup)
<1>0. ms = [k \in 1..Cardinality(S) |-> e(k)]  BY DEF Msgs
<1>. HIDE DEF ms, e
<1>1. CASE S = {}
  <2>1. Cardinality(S) = 0  BY <1>1, FS_EmptySet
  <2>2. ms = <<>>  BY <1>0, <2>1
  <2>3. to[LastOf(n)] # q  BY <1>1 DEF Subframes, LastOf
  <2>. QED  BY <2>2, <2>3 DEF ms
<1>2. CASE S = {1}
  <2>1. Cardinality(S) = 1  BY <1>2, FS_Singleton
  <2>2. to[1] = q  BY <1>2
  <2>3. ms = <<e(1)>>  BY <1>0, <2>1
  <2>4. to[LastOf(n)] = q <=> LastOf(n) = 1
    BY <1>2 DEF Subframes, LastOf
  <2>. QED  BY <2>2, <2>3, <2>4 DEF ms, e
<1>3. CASE S = {2}
  <2>1. Cardinality(S) = 1  BY <1>3, FS_Singleton
  <2>2. to[1] # q  BY <1>3 DEF Subframes
  <2>3. ms = <<e(1)>>  BY <1>0, <2>1
  <2>4. to[LastOf(n)] = q /\ LastOf(n) = 2
    BY <1>3 DEF Subframes, LastOf
  <2>. QED  BY <2>2, <2>3, <2>4 DEF ms, e
<1>4. CASE S = {1, 2}
  <2>1. Cardinality(S) = 2
    <3>1. S = {1} \union {2} /\ 2 \notin {1}  BY <1>4
    <3>2. IsFiniteSet({1}) /\ Cardinality({1}) = 1  BY FS_Singleton
    <3>3. Cardinality({1} \union {2}) = 1 + 1  BY <3>1, <3>2, FS_AddElement
    <3>. QED  BY <3>1, <3>3
  <2>2. to[1] = q  BY <1>4
  <2>3. ms = <<e(1), e(2)>>  BY <1>0, <2>1
  <2>4. to[LastOf(n)] = q /\ LastOf(n) = 2
    BY <1>4 DEF Subframes, LastOf
  <2>. QED  BY <2>2, <2>3, <2>4 DEF ms, e
<1>5. S = {} \/ S = {1} \/ S = {2} \/ S = {1, 2}
  BY DEF Subframes
<1>. QED  BY <1>1, <1>2, <1>3, <1>4, <1>5

\* What the firmware adds to one queue when an MPDU arrives.
LEMMA QueueGrows ==
    ASSUME Types, SessionOK, session \in {"fw", "up"}, NEW q \in Queues,
           NEW s, NEW w, NEW g, NEW b, Growing(q, s, w, g, b),
           NEW n, NEW x, NEW old, NEW dup, Numbered(n, x, old, dup, b),
           b <= x, x <= b + BufSize, Known(w, g, n),
           ~old /\ ~dup => Unseen(q, s, n, 1) /\ Unseen(q, s, n, 2),
           session = "fw" => old, NEW to, NEW news,
           news = IF x = b \/ q \in {to[LastOf(n)]} THEN <<>>
                  ELSE <<ReleaseNotif(x)>>
    PROVE  Growing(q, s \o Msgs(n, to, q, x, old, dup) \o news, w, g, x)
<1>. DEFINE ms == Msgs(n, to, q, x, old, dup)
            m1 == Mpdu(n, 1, x, old, dup)
            m2 == Mpdu(n, 2, x, old, dup)
            s1 == Append(s, m1)
            rel == ReleaseNotif(x)
<1>0. s \in Seq(Messages) /\ b \in Nat /\ x \in Nat
  BY DEF Growing, Numbered
<1>1. session = "fw" => x = b  BY DEF Numbered
<1>2. 1 \in Subframes(n) /\ (LastOf(n) = 2 => 2 \in Subframes(n))
      /\ (LastOf(n) # 2 => LastOf(n) = 1)
  BY DEF Subframes, LastOf
<1>3. /\ Growing(q, s1, w, g, IF 1 = LastOf(n) THEN x ELSE b)
      /\ ~old /\ ~dup => Unseen(q, s1, n, 2)
  BY <1>2, PushMpdu
<1>4. m1 \in Messages /\ (LastOf(n) = 2 => m2 \in Messages) /\ rel \in Messages
  <2>1. <<n, 1>> \in Frames /\ (LastOf(n) = 2 => <<n, 2>> \in Frames)
    BY <1>2 DEF Numbered, Frames
  <2>. QED  BY <1>0, <2>1 DEF Mpdu, Messages, MpduMessages, Numbered,
                              ReleaseNotif, ReleaseMessages
<1>. HIDE DEF m1, m2, rel
<1>5. s1 = s \o <<m1>> /\ s1 \in Seq(Messages)  BY <1>0, <1>4
<1>6. CASE ms = <<>> /\ to[LastOf(n)] # q
  <2>1. s \o ms = s  BY <1>0, <1>6
  <2>2. CASE x = b
    <3>1. s \o ms \o news = s  BY <1>0, <2>1, <2>2
    <3>. QED  BY <2>2, <3>1
  <2>3. CASE x # b
    <3>1. news = <<rel>>  BY <1>6, <2>3 DEF rel
    <3>5. s \o <<rel>> = Append(s, rel)  BY <1>0, <1>4
    <3>2. s \o ms \o news = Append(s, rel)  BY <2>1, <3>1, <3>5
    <3>3. session = "up"  BY <1>1, <2>3
    <3>4. Growing(q, Append(s, rel), w, g, x)
      BY <1>0, <3>3, PushRelease DEF rel
    <3>. QED  BY <3>2, <3>4
  <2>. QED  BY <2>2, <2>3
<1>7. CASE ms = <<m1>> /\ (to[LastOf(n)] = q <=> LastOf(n) = 1)
  <2>1. s \o ms = s1  BY <1>5, <1>7
  <2>2. CASE LastOf(n) = 1 \/ x = b
    <3>1. news = <<>>  BY <1>7, <2>2
    <3>2. s \o ms \o news = s1  BY <1>5, <2>1, <3>1
    <3>. QED  BY <1>3, <2>2, <3>2
  <2>3. CASE LastOf(n) # 1 /\ x # b
    <3>1. news = <<rel>>  BY <1>7, <2>3 DEF rel
    <3>. HIDE DEF s1
    <3>6. s1 \o <<rel>> = Append(s1, rel)  BY <1>4, <1>5
    <3>2. s \o ms \o news = Append(s1, rel)  BY <2>1, <3>1, <3>6
    <3>3. session = "up"  BY <1>1, <2>3
    <3>4. Growing(q, s1, w, g, b)  BY <1>3, <2>3
    <3>5. Growing(q, Append(s1, rel), w, g, x)
      BY <1>0, <3>3, <3>4, PushRelease DEF rel
    <3>. QED  BY <3>2, <3>5
  <2>. QED  BY <2>2, <2>3
<1>8. CASE ms = <<m2>> /\ to[LastOf(n)] = q /\ LastOf(n) = 2
  <2>1. news = <<>>  BY <1>8
  <2>2. s \o ms \o news = Append(s, m2)  BY <1>0, <1>4, <1>8, <2>1
  <2>3. Growing(q, Append(s, m2), w, g, IF 2 = LastOf(n) THEN x ELSE b)
    BY <1>2, <1>8, PushMpdu DEF m2
  <2>. QED  BY <1>8, <2>2, <2>3
<1>9. CASE ms = <<m1, m2>> /\ to[LastOf(n)] = q /\ LastOf(n) = 2
  <2>1. news = <<>>  BY <1>9
  <2>2. s \o ms \o news = Append(s1, m2)
    BY <1>0, <1>4, <1>9, <2>1
  <2>. HIDE DEF s1
  <2>3. Growing(q, s1, w, g, b)  BY <1>3, <1>9
  <2>4. Growing(q, Append(s1, m2), w, g, IF 2 = LastOf(n) THEN x ELSE b)
    BY <1>2, <1>3, <1>9, <2>3, PushMpdu DEF m2
  <2>. QED  BY <1>9, <2>2, <2>4
<1>. HIDE DEF s1, ms
<1>. QED  BY <1>6, <1>7, <1>8, <1>9, MessagesTo DEF m1, m2, ms

\* A step of the firmware that leaves every queue in order.
LEMMA FirmwareStep ==
    ASSUME IInv, session \in {"fw", "up"}, ~in_hw_restart,
           UNCHANGED <<session, buffers, sync, in_hw_restart, purged>>,
           win' \in FirstSn..(LastMpdu + 1), got' \subseteq Mpdus,
           got' \subseteq (win' + 1)..(win' + BufSize - 1),
           session = "fw" => UNCHANGED <<win, got>>,
           fifo' = [q \in Queues |-> fifo'[q]],
           \A q \in Queues : Growing(q, fifo'[q], win', got', win')
    PROVE  IInv'
<1>1. /\ UNCHANGED <<head_sn, num_stored, valid, entries, delivered>>
      /\ UNCHANGED <<session, sync_state, cookie, syncing, in_hw_restart>>
      /\ purged' = purged
  BY DEF buffers, sync
<1>2. Types'
  <2>1. \A q \in Queues : fifo'[q] \in Seq(Messages)  BY DEF Growing
  <2>2. fifo' \in [Queues -> Seq(Messages)]  BY <2>1
  <2>. QED  BY <1>1, <2>2 DEF IInv, Types
<1>3. SessionOK'  BY <1>1 DEF IInv, SessionOK
<1>4. \A q \in Queues : QueueInv(q)'  BY GrowingEnds
<1>. QED  BY <1>2, <1>3, <1>4 DEF IInv

\* An MPDU that the firmware receives keeps the invariant.
LEMMA FwReceivesInv ==
    ASSUME IInv, NEW n \in Mpdus, NEW to, FwReceives(n, to)
    PROVE  IInv'
<1>. DEFINE old == n < win
            dup == n \in got
            received == IF old THEN got ELSE got \union {n}
            x == Advance(win, received)
            g == Beyond(received, x)
            news(q) == IF x = win \/ q \in {to[LastOf(n)]} THEN <<>>
                       ELSE <<ReleaseNotif(x)>>
<1>0. Types /\ SessionOK  BY DEF IInv
<1>1. /\ session \in {"fw", "up"} /\ ~in_hw_restart
      /\ n < win + BufSize
      /\ session = "fw" => n < FirstSn
      /\ UNCHANGED <<session, buffers, sync, in_hw_restart, purged>>
  BY DEF FwReceives
<1>2. /\ win' = x /\ got' = g
      /\ fifo' = [q \in Queues |->
                    fifo[q] \o Msgs(n, to, q, x, old, dup) \o news(q)]
  BY DEF FwReceives, MoveWindow, Msgs, Beyond
<1>3. /\ BufSize \in Nat \ {0} /\ FirstSn \in Nat /\ win \in Nat /\ n \in Nat
      /\ win \in FirstSn..(LastMpdu + 1) /\ win <= win + BufSize
      /\ LastMpdu \in Int /\ win <= LastMpdu + 1
  <2>1. BufSize \in Nat \ {0} /\ FirstSn \in Nat \ {0}  BY SnAssumption
  <2>2. LastMpdu \in Int  BY SnAssumption, ReorderBounds DEF LastMpdu
  <2>3. n \in Nat  BY <2>1, <2>2 DEF Mpdus
  <2>4. win \in FirstSn..(LastMpdu + 1)  BY <1>0 DEF Types
  <2>. QED  BY <2>1, <2>2, <2>3, <2>4
<1>4. got \subseteq (win + 1)..(win + BufSize - 1) /\ got \subseteq Mpdus
  BY <1>0 DEF SessionOK, Types
<1>5. received \subseteq Mpdus /\ received \subseteq win..(win + BufSize - 1)
  BY <1>1, <1>3, <1>4
<1>6. win \in received <=> n = win
  BY <1>3, <1>4
<1>7. \A k \in Nat : Known(win, got, k) => k < win \/ k \in received
  BY DEF Known
<1>8. ~old => n \in received  OBVIOUS
<1>9. ~old /\ ~dup => ~Known(win, got, n)  BY DEF Known
<1>10. old \in BOOLEAN /\ dup \in BOOLEAN  OBVIOUS
<1>11. n = win => ~old /\ ~dup  BY <1>3, <1>4
<1>12. ~old /\ n # win => win < n  BY <1>3
<1>13. old => n < win  OBVIOUS
<1>. HIDE DEF received, x, g, old, dup, news
<1>14. /\ x \in Nat /\ win <= x /\ x <= win + BufSize
       /\ x \in FirstSn..(LastMpdu + 1)
       /\ win \in received => win < x
       /\ win \notin received => x = win
       /\ g \subseteq (x + 1)..(x + BufSize - 1) /\ g \subseteq Mpdus
       /\ \A k \in Nat : k < win \/ k \in received => Known(x, g, k)
  <2>0. /\ win \in Nat /\ win <= win /\ win <= win + BufSize
        /\ win <= LastMpdu + 1
    BY <1>3
  <2>1. Moved(win, received, x, g)
    BY <1>0, <1>5, <2>0, WindowMoves DEF x, g
  <2>. QED  BY <2>1 DEF Moved
<1>15. Numbered(n, x, old, dup, win)
  BY <1>1, <1>3, <1>6, <1>10, <1>11, <1>12, <1>13, <1>14 DEF Numbered
<1>16. Known(x, g, n)  BY <1>3, <1>8, <1>13, <1>14
<1>17. \A k \in Nat : Known(win, got, k) => Known(x, g, k)
  BY <1>7, <1>14
<1>18. session = "fw" => old /\ x = win /\ g = got
  <2>1. session = "fw" => old  BY <1>0, <1>1, <1>3 DEF SessionOK, old
  <2>2. old => received = got  BY DEF received
  <2>3. old => x = win  BY <1>6, <1>11, <1>14
  <2>4. old => g = got
    <3>. SUFFICES ASSUME old PROVE got \subseteq {k \in got : k > x}
      BY <2>2 DEF g, Beyond
    <3>. QED  BY <1>3, <1>4, <2>3
  <2>. QED  BY <2>1, <2>3, <2>4
<1>19. ASSUME NEW q \in Queues PROVE Growing(q, fifo'[q], x, g, x)
  <2>1. Growing(q, fifo[q], win, got, win)  BY <1>1, GrowingStarts
  <2>2. Growing(q, fifo[q], x, g, win)
    BY <1>0, <1>17, <2>1, GrowingKnown
  <2>3. ~old /\ ~dup => Unseen(q, fifo[q], n, 1) /\ Unseen(q, fifo[q], n, 2)
    BY <1>0, <1>3, <1>9, <2>1, NotKnown
  <2>4. news(q) = IF x = win \/ q \in {to[LastOf(n)]} THEN <<>>
                  ELSE <<ReleaseNotif(x)>>
    BY DEF news
  <2>5. Growing(q, fifo[q] \o Msgs(n, to, q, x, old, dup) \o news(q), x, g, x)
    BY <1>0, <1>1, <1>14, <1>15, <1>16, <1>18, <2>2, <2>3, <2>4, QueueGrows
  <2>. QED  BY <1>2, <2>5
<1>20. fifo' = [q \in Queues |-> fifo'[q]]  BY <1>2
<1>. QED  BY <1>1, <1>2, <1>14, <1>18, <1>19, <1>20, FirmwareStep

\* A hole that it gives up keeps the invariant.
LEMMA FwSkipsInv ==
    ASSUME IInv, NEW n \in FirstSn..(LastMpdu + 1), FwSkips(n)
    PROVE  IInv'
<1>. DEFINE x == Advance(n, got)
            g == Beyond(got, x)
            none == [q \in Queues |-> <<>>]
<1>0. Types /\ SessionOK  BY DEF IInv
<1>1. /\ session = "up" /\ ~in_hw_restart /\ n > win /\ n <= win + BufSize
      /\ UNCHANGED <<session, buffers, sync, in_hw_restart, purged>>
  BY DEF FwSkips
<1>2. /\ win' = x /\ got' = g
      /\ fifo' = [q \in Queues |-> fifo[q] \o none[q] \o
                    (IF x = win \/ q \in {} THEN <<>>
                     ELSE <<ReleaseNotif(x)>>)]
  BY DEF FwSkips, MoveWindow, Beyond
<1>3. /\ BufSize \in Nat \ {0} /\ FirstSn \in Nat /\ win \in Nat /\ n \in Nat
      /\ LastMpdu \in Int /\ n <= LastMpdu + 1 /\ win <= n
  BY <1>0, <1>1, SnAssumption, ReorderBounds DEF Types, LastMpdu
<1>4. /\ got \subseteq Mpdus /\ got \subseteq win..(win + BufSize - 1)
  BY <1>0, <1>3 DEF SessionOK, Types
<1>. HIDE DEF x, g
<1>5. /\ x \in Nat /\ n <= x /\ x <= win + BufSize
      /\ x \in FirstSn..(LastMpdu + 1)
      /\ g \subseteq (x + 1)..(x + BufSize - 1) /\ g \subseteq Mpdus
      /\ \A k \in Nat : k < win \/ k \in got => Known(x, g, k)
  <2>1. Moved(n, got, x, g)
    BY <1>0, <1>1, <1>3, <1>4, WindowMoves DEF x, g
  <2>. QED  BY <2>1 DEF Moved
<1>6. x # win /\ win <= x  BY <1>1, <1>3, <1>5
<1>7. ASSUME NEW q \in Queues PROVE Growing(q, fifo'[q], x, g, x)
  <2>1. Growing(q, fifo[q], win, got, win)  BY <1>1, GrowingStarts
  <2>2. \A k \in Nat : Known(win, got, k) => Known(x, g, k)
    BY <1>5 DEF Known
  <2>3. Growing(q, fifo[q], x, g, win)  BY <1>0, <2>1, <2>2, GrowingKnown
  <2>4. Growing(q, Append(fifo[q], ReleaseNotif(x)), x, g, x)
    BY <1>0, <1>1, <1>3, <1>5, <1>6, <2>3, PushRelease
  <2>5. ReleaseNotif(x) \in Messages /\ fifo[q] \in Seq(Messages)
    BY <1>0, <1>5 DEF ReleaseNotif, Messages, ReleaseMessages, Types
  <2>6. fifo'[q] = fifo[q] \o <<>> \o <<ReleaseNotif(x)>>
    BY <1>2, <1>6
  <2>7. fifo'[q] = Append(fifo[q], ReleaseNotif(x))
    BY <2>5, <2>6
  <2>. QED  BY <2>4, <2>7
<1>8. fifo' = [q \in Queues |-> fifo'[q]]  BY <1>2
<1>. QED  BY <1>1, <1>2, <1>5, <1>7, <1>8, FirmwareStep

\* A dead firmware leaves empty queues.
LEMMA FwDiesInv ==
    ASSUME IInv, FwDies
    PROVE  IInv'
<1>1. /\ session \in {"up", "stop", "flush"} /\ in_hw_restart' = TRUE
      /\ fifo' = [q \in Queues |-> <<>>]
      /\ UNCHANGED <<head_sn, num_stored, valid, entries, delivered>>
      /\ UNCHANGED <<session, sync_state, cookie, syncing, win, got, purged>>
  BY DEF FwDies, buffers, sync
<1>2. Types'
  <2>1. fifo' \in [Queues -> Seq(Messages)]  BY <1>1, EmptySeq
  <2>. QED  BY <1>1, <2>1 DEF IInv, Types
<1>3. SessionOK'  BY <1>1 DEF IInv, SessionOK
<1>4. ASSUME NEW q \in Queues PROVE QueueInv(q)'
  <2>1. QueueInv(q)  BY DEF IInv
  <2>2. fifo'[q] = <<>>  BY <1>1
  <2>3. Notifs(<<>>, cookie, syncing)  BY DEF Notifs
  <2>4. ~Reordering(q)'  BY <1>1 DEF Reordering
  <2>. QED  BY <1>1, <2>1, <2>2, <2>3, <2>4 DEF QueueInv
<1>. QED  BY <1>2, <1>3, <1>4 DEF IInv

-----------------------------------------------------------------------------
(* The invariant *)

\* The invariant holds at the start.
LEMMA InitInv == Init => IInv
<1>. SUFFICES ASSUME Init PROVE IInv  OBVIOUS
<1>. DEFINE none == [i \in 0..(BufSize - 1) |-> <<>>]
<1>1. /\ session = "idle" /\ sync_state = {} /\ cookie = 0 /\ syncing = None
      /\ in_hw_restart = FALSE /\ win = FirstSn /\ got = {} /\ purged = {}
      /\ head_sn = [q \in Queues |-> 0] /\ num_stored = [q \in Queues |-> 0]
      /\ valid = [q \in Queues |-> FALSE]
      /\ entries = [q \in Queues |-> none]
      /\ fifo = [q \in Queues |-> <<>>] /\ delivered = [q \in Queues |-> <<>>]
  BY DEF Init
<1>2. ToSet(<<>>) = {} /\ Ordered(<<>>)
  BY DEF ToSet, Ordered, InOrder!Ordered
<1>3. none \in Lists /\ Held0(none) = {} /\ Window(none, FirstSn)
  <2>1. none \in Lists /\ Held0(none) = {}
    BY <1>2, EmptySeq DEF Lists, Held0
  <2>. QED  BY <1>2, <2>1 DEF Window
<1>. HIDE DEF none
<1>4. /\ FirstSn \in Nat /\ BufSize \in Nat /\ SnMod \in Nat /\ 0 < SnMod
      /\ FirstSn \in FirstSn..(LastMpdu + 1)
  BY SnAssumption, ReorderBounds DEF LastMpdu
<1>5. Types
  <2>1. /\ head_sn \in [Queues -> 0..(SnMod - 1)]
        /\ valid \in [Queues -> BOOLEAN] /\ entries \in [Queues -> Lists]
    BY <1>1, <1>3, <1>4
  <2>2. /\ fifo \in [Queues -> Seq(Messages)]
        /\ delivered \in [Queues -> Seq(Frames)]
    BY <1>1, EmptySeq
  <2>. QED  BY <1>1, <1>4, <2>1, <2>2 DEF Types
<1>6. SessionOK  BY <1>1 DEF SessionOK, None
<1>7. ASSUME NEW q \in Queues PROVE QueueInv(q)
  <2>1. /\ num_stored[q] = 0 /\ entries[q] = none /\ fifo[q] = <<>>
        /\ delivered[q] = <<>> /\ valid[q] = FALSE
    BY <1>1
  <2>2. Cardinality(Held0(none)) = 0  BY <1>3, FS_EmptySet
  <2>3. Notifs(<<>>, cookie, syncing) /\ AllOld(<<>>)  BY DEF Notifs, AllOld
  <2>. DEFINE hs == <<FirstSn>>
  <2>4. hs \in Seq(Nat) /\ Len(hs) = 1 /\ hs[1] = FirstSn  BY <1>4
  <2>. HIDE DEF hs
  <2>5. Chain(<<>>, hs)  BY <1>4, <2>4 DEF Chain
  <2>6. AllKnown(<<>>, none, <<>>, win, got)  BY <1>2, <1>3 DEF AllKnown
  <2>7. InLine(<<>>, none, <<>>, FirstSn)  BY <1>2, <1>3 DEF InLine
  <2>8. Sound(<<>>, none, <<>>, win, got, hs)
    BY <1>3, <2>4, <2>5, <2>6, <2>7 DEF Sound
  <2>9. hs[Len(hs)] = win /\ hs[1] = FirstSn  BY <1>1, <2>4
  <2>10. QueueOK(q)
    BY <1>1, <2>1, <2>8, <2>9 DEF QueueOK, Published
  <2>. QED  BY <1>1, <1>3, <2>1, <2>2, <2>3, <2>10 DEF QueueInv
<1>. QED  BY <1>5, <1>6, <1>7 DEF IInv

\* Nothing changes.
LEMMA Stuttering ==
    ASSUME IInv, UNCHANGED vars
    PROVE  IInv'
<1>1. /\ UNCHANGED <<head_sn, num_stored, valid, entries, delivered, fifo>>
      /\ UNCHANGED <<session, sync_state, cookie, syncing, purged>>
      /\ UNCHANGED <<win, got, in_hw_restart, dup_data>>
  BY DEF vars, buffers, sync, fw
<1>2. Types'  BY <1>1 DEF IInv, Types
<1>3. SessionOK'  BY <1>1 DEF IInv, SessionOK
<1>4. ASSUME NEW q \in Queues PROVE QueueInv(q)'
  <2>1. QueueInv(q)  BY DEF IInv
  <2>2. QueueOK(q) => QueueOK(q)'  BY <1>1 DEF QueueOK, Published
  <2>3. Reordering(q)' => Reordering(q)  BY <1>1 DEF Reordering
  <2>. QED  BY <1>1, <2>1, <2>2, <2>3 DEF QueueInv
<1>. QED  BY <1>2, <1>3, <1>4 DEF IInv

\* Every step keeps the invariant.
LEMMA NextInv ==
    ASSUME Aligned, IInv, [Next]_vars
    PROVE  IInv'
<1>1. ASSUME NEW q \in Queues, Poll(q) PROVE IInv'  BY <1>1, PollInv
<1>2. CASE Session  BY <1>2, SessionInv
<1>3. CASE Firmware
  BY <1>3, FwReceivesInv, FwSkipsInv, FwDiesInv DEF Firmware
<1>4. CASE UNCHANGED vars  BY <1>4, Stuttering
<1>. QED  BY <1>1, <1>2, <1>3, <1>4 DEF Next

\* The inductive invariant of the reorder buffers: for every queue that
\* reorders, the messages under way take it from its window to the firmware's.
THEOREM Invariance ==
    ASSUME Aligned
    PROVE  Spec => []IInv
BY InitInv, NextInv, PTL DEF Spec

-----------------------------------------------------------------------------
(* What follows *)

\* The state of the session keeps its types; num_stored counts the frames in
\* the lists and never exceeds the number of frames there are.
THEOREM TypeCorrect ==
    ASSUME Aligned
    PROVE  Spec => []TypeOK
<1>1. IInv => TypeOK
  <2>. SUFFICES ASSUME IInv PROVE TypeOK  OBVIOUS
  <2>1. Types  BY DEF IInv
  <2>2. \A q \in Queues : num_stored[q] \in 0..(2 * (MaxMpdus + 1))
    <3>. SUFFICES ASSUME NEW q \in Queues
                  PROVE  num_stored[q] \in 0..(2 * (MaxMpdus + 1))
      OBVIOUS
    <3>1. num_stored[q] = Cardinality(Held0(entries[q]))
      BY DEF IInv, QueueInv
    <3>2. entries[q] \in Lists  BY <2>1 DEF Types
    <3>3. MaxMpdus \in Nat  BY ReorderBounds
    <3>. QED  BY <3>1, <3>2, <3>3, HeldFinite
  <2>3. num_stored \in [Queues -> 0..(2 * (MaxMpdus + 1))]
    BY <2>1, <2>2 DEF Types
  <2>4. win \in Nat  BY <2>1, SnAssumption, ReorderBounds DEF Types, LastMpdu
  <2>. QED  BY <2>1, <2>3, <2>4 DEF Types, TypeOK, Lists
<1>. QED  BY <1>1, Invariance, PTL

\* A queue that has handled all its messages holds only frames for which the
\* firmware still waits: iwl_mld_reorder and the release notifications leave
\* none behind NSSN.
THEOREM NoFrameStranded ==
    ASSUME Aligned
    PROVE  Spec => []NothingStranded
<1>1. IInv => NothingStranded
  <2>. SUFFICES ASSUME IInv, NEW q \in Queues, session = "up",
                       ~in_hw_restart, fifo[q] = <<>>, NEW f \in Held(q)
                PROVE  f[1] >= win
    BY DEF NothingStranded
  <2>1. QueueOK(q)  BY DEF IInv, QueueInv, Reordering
  <2>2. PICK hs : /\ Sound(<<>>, entries[q], delivered[q], win, got, hs)
                  /\ hs[Len(hs)] = win
    BY <2>1 DEF QueueOK
  <2>3. hs[1] = win
    <3>1. Len(hs) = 0 + 1  BY <2>2 DEF Sound, Chain
    <3>. QED  BY <2>2, <3>1
  <2>4. win \in Nat
    BY SnAssumption, ReorderBounds DEF IInv, Types, LastMpdu
  <2>5. Window(entries[q], win)  BY <2>2, <2>3 DEF Sound
  <2>6. f \in Held0(entries[q])  BY HeldLists
  <2>7. win <= f[1]  BY <2>5, <2>6 DEF Window, Held0
  <2>8. f[1] \in Nat
    BY <2>6, HeldFinite, FrameType DEF IInv, Types
  <2>. QED  BY <2>4, <2>7, <2>8
<1>. QED  BY <1>1, Invariance, PTL

\* When all queues responded, their buffers are empty.
LEMMA NothingToPurge ==
    ASSUME IInv, FreeBuffers
    PROVE  purged' = {}
<1>1. /\ session = "flush" /\ sync_state = {}
      /\ purged' = UNION {ToSet(entries[q][i]) : q \in {r \in Queues :
                            num_stored[r] # 0}, i \in 0..(BufSize - 1)}
  BY DEF FreeBuffers, Purge
<1>2. ASSUME NEW q \in Queues PROVE num_stored[q] = 0
  <2>1. /\ num_stored[q] = Cardinality(Held0(entries[q]))
        /\ Held0(entries[q]) = {}
    BY <1>1 DEF IInv, QueueInv
  <2>. QED  BY <2>1, FS_EmptySet
<1>. QED  BY <1>1, <1>2

\* iwl_mld_free_reorder_buffer finds no frame to purge when all queues
\* responded to the synchronisation, also after one that timed out.
THEOREM FlushIsComplete ==
    ASSUME Aligned
    PROVE  Spec => SyncFlushes
<1>1. IInv /\ [Next]_vars => [FreeBuffers => purged' = {}]_vars
  BY NothingToPurge
<1>. QED  BY <1>1, Invariance, PTL DEF Spec, SyncFlushes

-----------------------------------------------------------------------------
(* In-order delivery *)

\* The second part of a concatenation.
LEMMA SubSeqConcat ==
    ASSUME NEW S, NEW s \in Seq(S), NEW t \in Seq(S)
    PROVE  SubSeq(s \o t, Len(s) + 1, Len(s \o t)) = t
<1>. DEFINE r == s \o t
            u == SubSeq(r, Len(s) + 1, Len(r))
<1>1. /\ r \in Seq(S) /\ Len(r) = Len(s) + Len(t)
      /\ Len(s) \in Nat /\ Len(t) \in Nat
      /\ \A i \in 1..Len(t) : r[Len(s) + i] = t[i]
  BY ConcatProperties, LenProperties
<1>. HIDE DEF r
<1>2. u = [i \in 1..Len(t) |-> r[Len(s) + i]]
  <2>1. u = [i \in 1..(Len(r) - (Len(s) + 1) + 1) |-> r[i + (Len(s) + 1) - 1]]
    BY <1>1
  <2>2. Len(r) - (Len(s) + 1) + 1 = Len(t)  BY <1>1
  <2>. QED  BY <1>1, <2>1, <2>2
<1>3. t = [i \in 1..Len(t) |-> t[i]]  BY LenProperties
<1>. QED  BY <1>1, <1>2, <1>3 DEF r

\* Handling a message by the buffer keeps the promise.
LEMMA HandledInOrder ==
    ASSUME IInv, NEW q \in Queues, OnlyQueue(q), fifo[q] # <<>>, NEW hs,
           Sound(fifo[q], entries[q], delivered[q], win, got, hs),
           NEW arrived, Arrival(q, arrived), NEW out, NEW more, NEW h,
           Handled(q, arrived, out, more, h), valid[q] => valid'[q]
    PROVE  \E f \in Frames : InOrder!Handle(q, {f})
<1>0. Types /\ QueueInv(q)  BY DEF IInv
<1>. DEFINE m == Head(fifo[q])
<1>1. /\ m \in Messages /\ m = fifo[q][1] /\ 1 \in 1..Len(fifo[q])
      /\ hs[1] \in Nat /\ MessageOK(m, hs[1])
  BY <1>0, FirstMessage
<1>2. PICK f \in Frames : arrived \subseteq {f}
  <2>1. CASE arrived = {}
    <3>1. FirstSn \in Nat \ {0} /\ MaxMpdus \in Nat
      BY SnAssumption, ReorderBounds
    <3>2. FirstSn \in Int /\ FirstSn - 1 \in Mpdus
      BY <3>1 DEF Mpdus, LastMpdu
    <3>3. <<FirstSn - 1, 1>> \in Frames  BY <3>2 DEF Frames, Subframes
    <3>. QED  BY <2>1, <3>3
  <2>2. CASE Fresh(m) /\ arrived = {m.frame}
    BY <1>1, <2>2, MessageType DEF Fresh
  <2>. QED  BY <2>1, <2>2 DEF Arrival
<1>3. /\ out \in Seq(Frames) /\ Ordered(out) /\ more \in Lists
      /\ delivered' = [delivered EXCEPT ![q] = @ \o out]
      /\ entries' = [entries EXCEPT ![q] = more]
      /\ Held0(more) \union ToSet(out) = Held0(entries[q]) \union arrived
      /\ Held0(more) \intersect ToSet(out) = {}
  BY DEF Handled
<1>4. /\ delivered[q] \in Seq(Frames) /\ delivered'[q] = delivered[q] \o out
      /\ entries'[q] = more
      /\ \A r \in Queues \ {q} : entries'[r] = entries[r]
  BY <1>0, <1>3 DEF Types
<1>5. SubSeq(delivered'[q], Len(delivered[q]) + 1, Len(delivered'[q])) = out
  BY <1>3, <1>4, SubSeqConcat
<1>6. ASSUME NEW e \in ToSet(delivered[q]), NEW d \in ToSet(out)
      PROVE  Before(e, d)
  <2>1. e \in Frames /\ d \in Frames  BY <1>3, <1>4, ToSetType
  <2>2. e[1] \in Nat /\ d[1] \in Nat  BY <2>1, FrameType
  <2>3. InLine(fifo[q], entries[q], delivered[q], hs[1])
        /\ Window(entries[q], hs[1])
    BY DEF Sound
  <2>4. e[1] <= hs[1]  BY <2>3 DEF InLine
  <2>5. hs[1] <= d[1] /\ Precedes(e, d)
    <3>1. CASE d \in Held0(entries[q])
      <4>1. hs[1] <= d[1]  BY <2>3, <3>1 DEF Window, Held0
      <4>2. Precedes(e, d)  BY <2>3, <3>1 DEF InLine
      <4>. QED  BY <4>1, <4>2
    <3>2. CASE d \notin Held0(entries[q])
      <4>1. Fresh(m) /\ d = m.frame  BY <1>3, <3>2 DEF Arrival
      <4>2. Precedes(e, d)  BY <1>1, <2>3, <4>1 DEF InLine
      <4>3. hs[1] <= d[1]
        BY <1>1, <2>2, <4>1 DEF MessageOK, MpduOK, Fresh
      <4>. QED  BY <4>2, <4>3
    <3>. QED  BY <3>1, <3>2
  <2>. QED  BY <1>1, <2>2, <2>4, <2>5 DEF Precedes, Before, InOrder!Before
<1>7. valid'[q] \in BOOLEAN /\ valid[q] \in BOOLEAN
  BY <1>0 DEF OnlyQueue, Types
<1>8. Held0(more) # {} \/ out # <<>> => valid'[q]
  <2>. SUFFICES ASSUME ~valid'[q] PROVE Held0(more) = {} /\ out = <<>>
    OBVIOUS
  <2>1. Held0(entries[q]) = {} /\ arrived = {}
    BY <1>0, <1>7 DEF QueueInv, Arrival
  <2>2. Held0(more) = {} /\ ToSet(out) = {}  BY <1>3, <2>1
  <2>3. out = <<>>
    <3>1. Len(out) \in Nat /\ \A i \in 1..Len(out) : out[i] \in ToSet(out)
      BY <1>3, LenProperties DEF ToSet
    <3>2. Len(out) = 0
      <4>1. Len(out) # 0 => 1 \in 1..Len(out)  BY <3>1
      <4>. QED  BY <2>2, <3>1, <4>1
    <3>. QED  BY <1>3, <3>2, EmptySeq
  <2>. QED  BY <2>2, <2>3
<1>9. session' = session
      /\ \A r \in Queues \ {q} : valid'[r] = valid[r]
  BY <1>0 DEF OnlyQueue, Types
<1>10. /\ \A r \in Queues : [p \in Queues |-> Held(p)][r] = Held0(entries[r])
       /\ \A r \in Queues : [p \in Queues |-> Held(p)]'[r] = Held0(entries'[r])
  BY HeldLists, HeldListsNext
<1>11. /\ InOrder!ToSet(out) = ToSet(out)
       /\ InOrder!ToSet(delivered[q]) = ToSet(delivered[q])
  BY DEF InOrder!ToSet, ToSet
<1>12. PICK H : H = [p \in Queues |-> Held(p)]  OBVIOUS
<1>13. PICK K : K = [p \in Queues |-> Held(p)]'  OBVIOUS
<1>14. /\ H[q] = Held0(entries[q]) /\ K[q] = Held0(more)
       /\ \A r \in Queues \ {q} : K[r] = H[r]
  BY <1>4, <1>10, <1>12, <1>13
<1>15. /\ InOrder!ToSet(out) \subseteq H[q] \union {f}
       /\ InOrder!Ordered(out)
       /\ \A e \in InOrder!ToSet(delivered[q]), d \in InOrder!ToSet(out) :
             InOrder!Before(e, d)
       /\ K[q] \subseteq H[q] \union {f}
       /\ H[q] \subseteq K[q] \union InOrder!ToSet(out)
       /\ K[q] \intersect InOrder!ToSet(out) = {}
  BY <1>2, <1>3, <1>6, <1>11, <1>14 DEF Before, Ordered
<1>16. /\ K[q] # {} \/ out # <<>> => valid'[q]
       /\ valid[q] => valid'[q]
       /\ \A r \in Queues \ {q} : K[r] = H[r] /\ valid'[r] = valid[r]
  BY <1>8, <1>9, <1>14
<1>17. (session \in {"fw", "up", "stop", "flush"})'
          = (session \in {"fw", "up", "stop", "flush"})
  BY <1>9
<1>18. InOrder!Handle(q, {f})
  BY <1>3, <1>5, <1>12, <1>13, <1>15, <1>16, <1>17, Zenon
     DEF InOrder!Handle
<1>. QED  BY <1>18

\* Nothing that the stack sees has changed.
Invisible ==
    /\ session' \in {"fw", "up", "stop", "flush"}
          <=> session \in {"fw", "up", "stop", "flush"}
    /\ UNCHANGED <<valid, entries, delivered>>

\* Such a step is none of InOrderDelivery.
LEMMA InvisibleInOrder ==
    ASSUME Invisible
    PROVE  UNCHANGED InOrder!vars
<1>1. (session \in {"fw", "up", "stop", "flush"})'
         = (session \in {"fw", "up", "stop", "flush"})
  BY DEF Invisible
<1>2. [q \in Queues |-> Held(q)]' = [q \in Queues |-> Held(q)]
  BY DEF Held, Invisible
<1>. QED  BY <1>1, <1>2 DEF InOrder!vars, Invisible

\* A message that bypasses the buffer is a late frame, or nothing.
LEMMA BypassedInOrder ==
    ASSUME IInv, NEW q \in Queues, Bypassed(q)
    PROVE  \/ \E f \in Frames : InOrder!Bypass(q, f)
           \/ UNCHANGED InOrder!vars
<1>0. Types  BY DEF IInv
<1>1. /\ OnlyQueue(q) /\ fifo[q] # <<>>
      /\ UNCHANGED <<valid, entries>>
  BY DEF Bypassed
<1>2. session' = session  BY <1>1 DEF OnlyQueue
<1>3. delivered[q] \in Seq(Frames)  BY <1>0 DEF Types
<1>4. PICK out :
         /\ \/ out = <<>>
            \/ /\ out = <<Head(fifo[q]).frame>>
               /\ Head(fifo[q]).type = "mpdu"
               /\ session = "closed" \/ ~valid[q]
         /\ delivered' = [delivered EXCEPT ![q] = @ \o out]
  BY DEF Bypassed
<1>5. CASE out = <<>>
  <2>1. delivered[q] \o <<>> = delivered[q]  BY <1>3, ConcatEmptySeq
  <2>2. delivered' = delivered  BY <1>0, <1>4, <1>5, <2>1 DEF Types
  <2>. QED  BY <1>1, <1>2, <2>2, InvisibleInOrder DEF Invisible
<1>6. CASE /\ out = <<Head(fifo[q]).frame>>
           /\ Head(fifo[q]).type = "mpdu"
           /\ session = "closed" \/ ~valid[q]
  <2>1. Head(fifo[q]) \in Messages  BY <1>1, RunningQueue
  <2>2. PICK f \in Frames : f = Head(fifo[q]).frame
    BY <1>6, <2>1, MessageType
  <2>3. delivered[q] \o <<f>> = Append(delivered[q], f)  BY <1>3, <2>2
  <2>4. delivered' = [delivered EXCEPT ![q] = Append(@, f)]
    BY <1>4, <1>6, <2>2, <2>3
  <2>5. (session \in {"fw", "up", "stop", "flush"})'
           = (session \in {"fw", "up", "stop", "flush"})
    BY <1>2
  <2>6. [p \in Queues |-> Held(p)]' = [p \in Queues |-> Held(p)]
    BY <1>1 DEF Held
  <2>7. session \notin {"fw", "up", "stop", "flush"} \/ ~valid[q]
    BY <1>6
  <2>8. InOrder!Bypass(q, f)
    BY <1>1, <2>4, <2>5, <2>6, <2>7 DEF InOrder!Bypass
  <2>. QED  BY <2>8
<1>. QED  BY <1>4, <1>5, <1>6

\* Polling a queue is a step of InOrderDelivery, or none.
LEMMA PollInOrder ==
    ASSUME Aligned, IInv, NEW q \in Queues, Poll(q)
    PROVE  [InOrder!Next]_(InOrder!vars)
<1>1. CASE Bypassed(q)
  BY <1>1, BypassedInOrder DEF InOrder!Next
<1>2. CASE Reordered(q)
  <2>1. PICK hs, arrived, out, more :
          /\ Sound(fifo[q], entries[q], delivered[q], win, got, hs)
          /\ Arrival(q, arrived)
          /\ Handled(q, arrived, out, more, hs[2])
    BY <1>2 DEF Reordered
  <2>2. OnlyQueue(q) /\ fifo[q] # <<>> /\ (valid[q] => valid'[q])
    BY <1>2 DEF Reordered
  <2>3. \E f \in Frames : InOrder!Handle(q, {f})
    BY <2>1, <2>2, HandledInOrder
  <2>. QED  BY <2>3 DEF InOrder!Next
<1>3. CASE Flushed(q)
  <2>1. PICK hs, out, more :
          /\ Sound(fifo[q], entries[q], delivered[q], win, got, hs)
          /\ Handled(q, {}, out, more, hs[1] + BufSize)
    BY <1>3 DEF Flushed
  <2>2. OnlyQueue(q) /\ fifo[q] # <<>> /\ (valid[q] => valid'[q])
    BY <1>3 DEF Flushed
  <2>3. Arrival(q, {})  BY DEF Arrival
  <2>4. \E f \in Frames : InOrder!Handle(q, {f})
    BY <2>1, <2>2, <2>3, HandledInOrder
  <2>. QED  BY <2>4 DEF InOrder!Next
<1>. QED  BY <1>1, <1>2, <1>3, PollEffect

\* The session's start and end are those of InOrderDelivery.
LEMMA SessionInOrder ==
    ASSUME IInv, Session
    PROVE  [InOrder!Next]_(InOrder!vars)
<1>1. CASE StartBaInFw
  <2>1. session = "idle" /\ session' = "fw"
        /\ UNCHANGED <<valid, entries, delivered>>
    BY <1>1 DEF StartBaInFw, buffers
  <2>2. ~(session \in {"fw", "up", "stop", "flush"})
        /\ (session \in {"fw", "up", "stop", "flush"})' = TRUE
    BY <2>1
  <2>3. [q \in Queues |-> Held(q)]' = [q \in Queues |-> Held(q)]
    BY <2>1 DEF Held
  <2>4. InOrder!Open  BY <2>1, <2>2, <2>3 DEF InOrder!Open
  <2>. QED  BY <2>4 DEF InOrder!Next
<1>2. CASE FreeBuffers \/ FreeBuffersTimedOut \/ FreeBuffersNoSync
  <2>1. session \in {"stop", "flush"} /\ Purge
    BY <1>2 DEF FreeBuffers, FreeBuffersTimedOut, FreeBuffersNoSync
  <2>2. /\ session' = "closed" /\ UNCHANGED <<valid, delivered>>
        /\ entries' = [q \in Queues |-> [i \in 0..(BufSize - 1) |-> <<>>]]
    BY <2>1 DEF Purge
  <2>3. [q \in Queues |-> Held(q)]' = [q \in Queues |-> {}]
    <3>1. ToSet(<<>>) = {}  BY DEF ToSet
    <3>2. ASSUME NEW q \in Queues PROVE Held(q)' = {}
      <4>1. \A i \in 0..(BufSize - 1) : entries'[q][i] = <<>>  BY <2>2
      <4>2. Held0(entries'[q]) = {}  BY <3>1, <4>1 DEF Held0
      <4>. QED  BY <4>2, HeldListsNext
    <3>. QED  BY <3>2
  <2>4. (session \in {"fw", "up", "stop", "flush"})
        /\ (session \in {"fw", "up", "stop", "flush"})' = FALSE
    BY <2>1, <2>2
  <2>5. InOrder!Close  BY <2>2, <2>3, <2>4 DEF InOrder!Close
  <2>. QED  BY <2>5 DEF InOrder!Next
<1>3. CASE InitReorderBuffer \/ StopBaInFw \/ FlushBuffers \/ SyncEmpty
           \/ SyncEmptyFails \/ SyncEmptyEnds
  <2>1. Invisible
    BY <1>3 DEF Invisible, InitReorderBuffer, StopBaInFw, FlushBuffers,
                SyncEmpty, SyncEmptyFails, SyncEmptyEnds, buffers
  <2>. QED  BY <2>1, InvisibleInOrder
<1>. QED  BY <1>1, <1>2, <1>3 DEF Session

\* What the firmware does is not seen.
LEMMA FirmwareInOrder ==
    ASSUME Firmware
    PROVE  [InOrder!Next]_(InOrder!vars)
<1>1. Invisible
  <2>1. ASSUME NEW n, NEW to, FwReceives(n, to) PROVE Invisible
    BY <2>1 DEF FwReceives, buffers, Invisible
  <2>2. ASSUME NEW n, FwSkips(n) PROVE Invisible
    BY <2>2 DEF FwSkips, buffers, Invisible
  <2>3. CASE FwDies  BY <2>3 DEF FwDies, buffers, Invisible
  <2>. QED  BY <2>1, <2>2, <2>3 DEF Firmware
<1>. QED  BY <1>1, InvisibleInOrder

\* Every step is a step of InOrderDelivery, or none.
LEMMA NextInOrder ==
    ASSUME Aligned, IInv, [Next]_vars
    PROVE  [InOrder!Next]_(InOrder!vars)
<1>1. ASSUME NEW q \in Queues, Poll(q) PROVE [InOrder!Next]_(InOrder!vars)
  BY <1>1, PollInOrder
<1>2. CASE Session  BY <1>2, SessionInOrder
<1>3. CASE Firmware  BY <1>3, FirmwareInOrder
<1>4. CASE UNCHANGED vars
  BY <1>4, InvisibleInOrder DEF Invisible, vars, buffers
<1>. QED  BY <1>1, <1>2, <1>3, <1>4 DEF Next

\* It starts as InOrderDelivery does.
LEMMA InitInOrder == Init => InOrder!Init
<1>. SUFFICES ASSUME Init PROVE InOrder!Init  OBVIOUS
<1>1. (session \in {"fw", "up", "stop", "flush"}) = FALSE  BY DEF Init
<1>2. [q \in Queues |-> Held(q)] = [q \in Queues |-> {}]
  <2>1. ToSet(<<>>) = {}  BY DEF ToSet
  <2>2. ASSUME NEW q \in Queues PROVE Held(q) = {}
    <3>1. \A i \in 0..(BufSize - 1) : entries[q][i] = <<>>  BY DEF Init
    <3>. QED  BY <2>1, <3>1 DEF Held
  <2>. QED  BY <2>2
<1>. QED  BY <1>1, <1>2 DEF Init, InOrder!Init

\* The reorder buffers of all queues, with the firmware's release
\* notifications and the synchronisation at the end, deliver in order: every
\* behaviour is one of InOrderDelivery.
THEOREM Refinement ==
    ASSUME Aligned
    PROVE  Spec => DeliversInOrder
BY InitInOrder, NextInOrder, Invariance, PTL
   DEF Spec, DeliversInOrder, InOrder!Spec
============================================================================
