------------------------------ MODULE SumsProofs ------------------------------
(***************************************************************************)
(* What the sum of a sequence of numbers is as one joins it or leaves it.  *)
(* Its partial sums exist, and are one, by induction on a set of numbers.  *)
(***************************************************************************)
EXTENDS Sums, TLAPS, SequenceTheorems, WellFoundedInduction

\* A set of numbers has a least one.
LEMMA LeastNatural ==
    ASSUME NEW T \in SUBSET Nat, T # {}
    PROVE  \E x \in T : \A y \in T : x <= y
<1>1. PICK x \in T : \A y \in T : ~(<<y, x>> \in OpToRel(<, Nat))
  BY WFMin, NatLessThanWellFounded, Zenon
<1>2. \A y \in T : ~(y < x)
  BY <1>1 DEF OpToRel
<1> QED BY <1>2

\* A set that has 0, and with a number the next one, has every number.
LEMMA NatByStep ==
    ASSUME NEW G, 0 \in G, \A n \in Nat : n \in G => n + 1 \in G
    PROVE  \A n \in Nat : n \in G
<1> DEFINE T == Nat \ G
<1>1. SUFFICES ASSUME T # {} PROVE FALSE
  OBVIOUS
<1>2. PICK x \in T : \A y \in T : x <= y
  BY <1>1, LeastNatural
<1>3. x # 0 /\ x - 1 \in Nat /\ x - 1 \in G
  BY <1>2
<1> QED BY <1>3

\* f sums the first n entries of q.
PartialSums(q, n, f) == f = [i \in 0 .. n |-> IF i = 0 THEN 0 ELSE f[i - 1] + q[i]]

\* Partial sums start at 0, and each adds the next entry.
LEMMA PartialNext ==
    ASSUME NEW q, NEW n \in Nat, NEW f, PartialSums(q, n, f)
    PROVE  f[0] = 0 /\ \A i \in Nat : i + 1 <= n => f[i + 1] = f[i] + q[i + 1]
<1>1. \A i \in 0 .. n : f[i] = IF i = 0 THEN 0 ELSE f[i - 1] + q[i]
  BY DEF PartialSums
<1>2. ASSUME NEW i \in Nat, i + 1 <= n PROVE f[i + 1] = f[i] + q[i + 1]
  <2>1. i + 1 \in 0 .. n /\ i + 1 # 0 /\ (i + 1) - 1 = i
    BY <1>2
  <2> QED BY <1>1, <2>1
<1>3. 0 \in 0 .. n
  OBVIOUS
<1> QED BY <1>1, <1>2, <1>3

\* A sequence has partial sums, and its sum is the last of them.
LEMMA SumIsPartial ==
    ASSUME NEW q \in Seq(Nat)
    PROVE  \E f \in [0 .. Len(q) -> Nat] : PartialSums(q, Len(q), f) /\ SumOf(q) = f[Len(q)]
<1> DEFINE n == Len(q)
           s == CHOOSE f : f = [i \in 0 .. n |-> IF i = 0 THEN 0 ELSE f[i - 1] + q[i]]
           G == {k \in Nat : k <= n => \E f \in [0 .. k -> Nat] : PartialSums(q, k, f)}
<1>1. n \in Nat /\ \A i \in 1 .. n : q[i] \in Nat
  BY LenProperties, ElementOfSeq
<1>2. 0 \in G
  <2>1. [i \in 0 .. 0 |-> 0] \in [0 .. 0 -> Nat] /\ PartialSums(q, 0, [i \in 0 .. 0 |-> 0])
    BY DEF PartialSums
  <2> QED BY <2>1
<1>3. ASSUME NEW k \in Nat, k \in G PROVE k + 1 \in G
  <2>1. SUFFICES ASSUME k + 1 <= n PROVE \E f \in [0 .. k + 1 -> Nat] : PartialSums(q, k + 1, f)
    OBVIOUS
  <2>2. PICK f \in [0 .. k -> Nat] : PartialSums(q, k, f)
    <3>1. k <= n
      BY <1>1, <2>1
    <3> HIDE DEF n
    <3> QED BY <1>3, <3>1
  <2> DEFINE g == [i \in 0 .. k + 1 |-> IF i = k + 1 THEN f[k] + q[k + 1] ELSE f[i]]
  <2>3. g \in [0 .. k + 1 -> Nat]
    <3>1. q[k + 1] \in Nat /\ f[k] \in Nat
      BY <1>1, <2>1, <2>2
    <3> QED BY <2>2, <3>1, SMTT(180)
  <2>4. ASSUME NEW i \in 0 .. k + 1 PROVE g[i] = IF i = 0 THEN 0 ELSE g[i - 1] + q[i]
    <3>1. CASE i = k + 1
      BY <3>1
    <3>2. CASE i # k + 1
      <4>1. i \in 0 .. k /\ (i # 0 => i - 1 \in 0 .. k)
        BY <3>2
      <4>2. f[i] = IF i = 0 THEN 0 ELSE f[i - 1] + q[i]
        BY <2>2, <4>1 DEF PartialSums
      <4>3. g[i] = f[i] /\ (i # 0 => g[i - 1] = f[i - 1])
        BY <4>1
      <4> QED BY <4>2, <4>3
    <3> QED BY <3>1, <3>2
  <2>5. PartialSums(q, k + 1, g)
    BY <2>4 DEF PartialSums
  <2> QED BY <2>3, <2>5
<1>4. \A k \in Nat : k \in G
  BY <1>2, <1>3, NatByStep, Zenon
<1>5. PICK f \in [0 .. n -> Nat] : PartialSums(q, n, f)
  BY <1>1, <1>4
<1>6. PartialSums(q, n, s)
  <2>1. f = [i \in 0 .. n |-> IF i = 0 THEN 0 ELSE f[i - 1] + q[i]]
    BY <1>5 DEF PartialSums
  <2>2. s = [i \in 0 .. n |-> IF i = 0 THEN 0 ELSE s[i - 1] + q[i]]
    BY <2>1
  <2> QED BY <2>2 DEF PartialSums
<1>7. \A i \in 0 .. n : s[i] = f[i]
  <2> HIDE DEF s
  <2> DEFINE H == {i \in Nat : i <= n => s[i] = f[i]}
  <2>1. 0 \in H
    BY <1>1, <1>5, <1>6, PartialNext
  <2>2. ASSUME NEW i \in Nat, i \in H PROVE i + 1 \in H
    <3>1. SUFFICES ASSUME i + 1 <= n PROVE s[i + 1] = f[i + 1]
      OBVIOUS
    <3>2. f[i + 1] = f[i] + q[i + 1]
      BY <1>1, <1>5, <3>1, PartialNext, ZenonT(180)
    <3>3. s[i + 1] = s[i] + q[i + 1]
      BY <1>1, <1>6, <3>1, PartialNext
    <3>4. s[i] = f[i]
      BY <1>1, <2>2, <3>1
    <3> QED BY <3>2, <3>3, <3>4
  <2>3. \A i \in Nat : i \in H
    BY <2>1, <2>2, NatByStep, Zenon
  <2> QED BY <1>1, <2>3
<1>8. SumOf(q) = s[n]
  BY DEF SumOf
<1> QED BY <1>1, <1>5, <1>7, <1>8, SMTT(180)

\* Nothing sums to nothing.
LEMMA SumOfEmpty == SumOf(<<>>) = 0
<1>1. <<>> \in Seq(Nat) /\ Len(<<>>) = 0
  OBVIOUS
<1>2. PICK f \in [0 .. 0 -> Nat] : PartialSums(<<>>, 0, f) /\ SumOf(<<>>) = f[0]
  BY <1>1, SumIsPartial
<1> QED BY <1>2, PartialNext

\* A number joins the sum of those before it.
LEMMA SumOfAppend ==
    ASSUME NEW q \in Seq(Nat), NEW m \in Nat
    PROVE  SumOf(Append(q, m)) = SumOf(q) + m /\ SumOf(q) \in Nat
<1> DEFINE p == Append(q, m)
           n == Len(q)
<1>1. /\ n \in Nat /\ p \in Seq(Nat) /\ Len(p) = n + 1 /\ p[n + 1] = m
      /\ \A i \in 1 .. n : p[i] = q[i] /\ q[i] \in Nat
  BY AppendProperties, LenProperties, ElementOfSeq
<1>2. PICK f \in [0 .. n -> Nat] : PartialSums(q, n, f) /\ SumOf(q) = f[n]
  BY SumIsPartial
<1>3. PICK g \in [0 .. n + 1 -> Nat] : PartialSums(p, n + 1, g) /\ SumOf(p) = g[n + 1]
  BY <1>1, SumIsPartial
<1> HIDE DEF p, n
<1>4. n \in Nat /\ n + 1 \in Nat /\ \A i \in Nat : i + 1 <= n => i + 1 <= n + 1
  BY <1>1
<1>5. f[0] = 0 /\ \A i \in Nat : i + 1 <= n => f[i + 1] = f[i] + q[i + 1]
  BY <1>2, <1>4, PartialNext, ZenonT(180)
<1>6. g[0] = 0 /\ \A i \in Nat : i + 1 <= n + 1 => g[i + 1] = g[i] + p[i + 1]
  BY <1>3, <1>4, PartialNext, ZenonT(180)
<1>7. f[n] = g[n]
  <2> DEFINE G == {i \in Nat : i <= n => f[i] = g[i]}
  <2>1. 0 \in G
    BY <1>5, <1>6
  <2>2. ASSUME NEW i \in Nat, i \in G PROVE i + 1 \in G
    <3>1. SUFFICES ASSUME i + 1 <= n PROVE f[i + 1] = g[i + 1]
      OBVIOUS
    <3>2. i + 1 \in 1 .. n /\ f[i] = g[i]
      BY <1>1, <2>2, <3>1
    <3>3. p[i + 1] = q[i + 1]
      BY <1>1, <3>2
    <3>4. f[i + 1] = f[i] + q[i + 1] /\ g[i + 1] = g[i] + p[i + 1]
      BY <1>4, <1>5, <1>6, <3>1
    <3> QED BY <3>2, <3>3, <3>4
  <2>3. \A i \in Nat : i \in G
    BY <2>1, <2>2, NatByStep, Zenon
  <2> QED BY <1>1, <2>3
<1>8. g[n + 1] = g[n] + p[n + 1]
  <2>1. n \in Nat /\ n + 1 <= n + 1
    BY <1>1
  <2> QED BY <1>6, <2>1
<1>9. f[n] \in Nat
  BY <1>1, <1>2
<1> QED BY <1>1, <1>2, <1>3, <1>7, <1>8, <1>9 DEF p

\* The first leaves the sum of those behind it.
LEMMA SumOfTail ==
    ASSUME NEW q \in Seq(Nat), q # <<>>
    PROVE  SumOf(Tail(q)) = SumOf(q) - Head(q) /\ SumOf(Tail(q)) \in Nat
<1> DEFINE p == Tail(q)
           n == Len(p)
<1>1. /\ n \in Nat /\ Len(q) = n + 1 /\ p \in Seq(Nat) /\ Head(q) = q[1] /\ q[1] \in Nat
      /\ \A i \in 1 .. n : p[i] = q[i + 1] /\ p[i] \in Nat
  <2>1. p \in Seq(Nat) /\ Len(q) \in Nat \ {0} /\ Len(p) = Len(q) - 1
        /\ \A i \in 1 .. Len(p) : p[i] = q[i + 1]
    BY HeadTailProperties, LenProperties, EmptySeq
  <2>2. \A i \in 1 .. Len(p) : p[i] \in Nat
    BY <2>1, ElementOfSeq
  <2>3. Head(q) = q[1] /\ Head(q) \in Nat
    BY HeadTailProperties
  <2> QED BY <2>1, <2>2, <2>3
<1>2. PICK f \in [0 .. n + 1 -> Nat] : PartialSums(q, n + 1, f) /\ SumOf(q) = f[n + 1]
  BY <1>1, SumIsPartial
<1>3. PICK g \in [0 .. n -> Nat] : PartialSums(p, n, g) /\ SumOf(p) = g[n]
  BY <1>1, SumIsPartial
<1> HIDE DEF p, n
<1>4. n \in Nat /\ n + 1 \in Nat /\ 0 + 1 <= n + 1
  BY <1>1
<1>5. f[0] = 0 /\ \A i \in Nat : i + 1 <= n + 1 => f[i + 1] = f[i] + q[i + 1]
  BY <1>2, <1>4, PartialNext, ZenonT(180)
<1>6. g[0] = 0 /\ \A i \in Nat : i + 1 <= n => g[i + 1] = g[i] + p[i + 1]
  BY <1>3, <1>4, PartialNext, ZenonT(180)
<1>7. f[n + 1] = g[n] + q[1]
  <2> DEFINE G == {i \in Nat : i <= n => f[i + 1] = g[i] + q[1]}
  <2>1. 0 \in G
    <3>1. f[0 + 1] = f[0] + q[0 + 1]
      BY <1>4, <1>5
    <3>2. f[0 + 1] = g[0] + q[1]
      BY <1>5, <1>6, <3>1
    <3> QED BY <3>2
  <2>2. ASSUME NEW i \in Nat, i \in G PROVE i + 1 \in G
    <3>1. SUFFICES ASSUME i + 1 <= n PROVE f[i + 1 + 1] = g[i + 1] + q[1]
      OBVIOUS
    <3>2. i \in 0 .. n /\ i + 1 \in 1 .. n /\ i + 1 \in Nat /\ i + 1 + 1 <= n + 1
      BY <1>1, <3>1
    <3>3. f[i + 1 + 1] = f[i + 1] + q[i + 1 + 1]
      BY <1>5, <3>2
    <3>4. g[i + 1] = g[i] + p[i + 1]
      BY <1>6, <3>1
    <3>5. p[i + 1] = q[i + 1 + 1] /\ p[i + 1] \in Nat
      BY <1>1, <3>2
    <3>6. f[i + 1] = g[i] + q[1]
      BY <2>2, <3>2
    <3>7. g[i] \in Nat /\ q[1] \in Nat
      BY <1>1, <1>3, <3>2
    <3> HIDE DEF G
    <3> QED BY <3>3, <3>4, <3>5, <3>6, <3>7
  <2>3. \A i \in Nat : i \in G
    BY <2>1, <2>2, NatByStep, Zenon
  <2> QED BY <1>1, <2>3
<1>8. g[n] \in Nat
  BY <1>1, <1>3
<1> QED BY <1>1, <1>2, <1>3, <1>7, <1>8 DEF p
===============================================================================
