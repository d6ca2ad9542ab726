-------------------------- MODULE OfflineBufferProofs --------------------------
(***************************************************************************)
(* What OfflineBuffer's operators do: the two queues are flushed in the    *)
(* order of their pushes, whole; a push adds the last entry and evicts     *)
(* from the front.                                                         *)
(***************************************************************************)
EXTENDS OfflineBuffer, SumsProofs

Flags == [QueueKinds -> BOOLEAN]

\* What the offline buffer holds.
BufferEntries == [id : Nat, ack : BOOLEAN, bytes : Nat, order : Nat, live : BOOLEAN]
Buffers == [queue : [QueueKinds -> Seq(BufferEntries)], dropped : Flags, next : Nat]

\* f counts the text among the first n.
TextsTo(text, binary, n, f) ==
    f = [i \in 0 .. n |->
            IF i = 0 THEN 0
            ELSE f[i - 1] + IF TextIsNext(text, binary, f[i - 1], i - 1 - f[i - 1]) THEN 1 ELSE 0]

\* The counts exist, and what is merged goes by them.
LEMMA MergeCounts ==
    ASSUME NEW text \in Seq(BufferEntries), NEW binary \in Seq(BufferEntries)
    PROVE  LET n == Len(text) + Len(binary) IN
           \E f \in [0 .. n -> Nat] :
              /\ TextsTo(text, binary, n, f)
              /\ Merged(text, binary) =
                    [i \in 1 .. n |-> IF f[i] = f[i - 1] THEN binary[i - f[i]] ELSE text[f[i]]]
<1> DEFINE n == Len(text) + Len(binary)
           Next1(t, u) == IF TextIsNext(text, binary, t, u) THEN 1 ELSE 0
           s == CHOOSE f : f = [i \in 0 .. n |->
                   IF i = 0 THEN 0
                   ELSE f[i - 1]
                        + IF TextIsNext(text, binary, f[i - 1], i - 1 - f[i - 1]) THEN 1 ELSE 0]
           G == {k \in Nat : \E f \in [0 .. k -> Nat] : TextsTo(text, binary, k, f)}
<1>1. n \in Nat
  BY LenProperties
<1>2. 0 \in G
  <2>1. [i \in 0 .. 0 |-> 0] \in [0 .. 0 -> Nat] /\ TextsTo(text, binary, 0, [i \in 0 .. 0 |-> 0])
    BY DEF TextsTo
  <2> QED BY <2>1
<1>3. ASSUME NEW k \in Nat, k \in G PROVE k + 1 \in G
  <2>2. PICK f \in [0 .. k -> Nat] : TextsTo(text, binary, k, f)
    BY <1>3
  <2> DEFINE one == Next1(f[k], k - f[k])
             g == [i \in 0 .. k + 1 |-> IF i = k + 1 THEN f[k] + one ELSE f[i]]
  <2>3. one \in Nat /\ f[k] \in Nat
    BY <2>2
  <2>4. g \in [0 .. k + 1 -> Nat]
    <3> HIDE DEF one
    <3> QED BY <2>2, <2>3
  <2>5. ASSUME NEW i \in 0 .. k + 1
        PROVE  g[i] = IF i = 0 THEN 0 ELSE g[i - 1] + Next1(g[i - 1], i - 1 - g[i - 1])
    <3>1. CASE i = k + 1
      <4>1. g[i] = f[k] + one /\ g[i - 1] = f[k] /\ i # 0 /\ i - 1 = k
        <5> HIDE DEF one
        <5> QED BY <3>1, <2>2
      <4> QED BY <4>1
    <3>2. CASE i # k + 1
      <4>1. g[i] = f[i] /\ (i # 0 => g[i - 1] = f[i - 1])
        BY <3>2
      <4>2. f[i] = IF i = 0 THEN 0 ELSE f[i - 1] + Next1(f[i - 1], i - 1 - f[i - 1])
        BY <2>2, <3>2 DEF TextsTo
      <4> QED BY <4>1, <4>2
    <3> QED BY <3>1, <3>2
  <2>6. TextsTo(text, binary, k + 1, g)
    BY <2>5, Zenon DEF TextsTo
  <2>7. k + 1 \in Nat
    OBVIOUS
  <2> HIDE DEF g
  <2> QED BY <2>4, <2>6, <2>7, Zenon
<1>4. \A k \in Nat : k \in G
  BY <1>2, <1>3, NatByStep, Zenon
<1>5. PICK f \in [0 .. n -> Nat] : TextsTo(text, binary, n, f)
  BY <1>1, <1>4
<1>6. TextsTo(text, binary, n, s)
  <2>1. f = [i \in 0 .. n |->
               IF i = 0 THEN 0
               ELSE f[i - 1] + IF TextIsNext(text, binary, f[i - 1], i - 1 - f[i - 1]) THEN 1 ELSE 0]
    BY <1>5 DEF TextsTo
  <2>2. s = [i \in 0 .. n |->
               IF i = 0 THEN 0
               ELSE s[i - 1] + IF TextIsNext(text, binary, s[i - 1], i - 1 - s[i - 1]) THEN 1 ELSE 0]
    BY <2>1, Zenon
  <2> QED BY <2>2, Zenon DEF TextsTo
<1>7. s \in [0 .. n -> Nat]
  <2> HIDE DEF s, n
  <2> DEFINE H == {i \in Nat : i <= n => s[i] \in Nat}
  <2>1. 0 \in H
    BY <1>1, <1>6 DEF TextsTo
  <2>2. ASSUME NEW i \in Nat, i \in H PROVE i + 1 \in H
    <3>1. SUFFICES ASSUME i + 1 <= n PROVE s[i + 1] \in Nat
      OBVIOUS
    <3>2. s[i + 1] = s[i] + Next1(s[i], i - s[i])
      BY <1>1, <1>6, <3>1 DEF TextsTo
    <3>3. s[i] \in Nat
      BY <2>2, <3>1, <1>1
    <3> QED BY <3>2, <3>3
  <2>3. \A i \in Nat : i \in H
    BY <2>1, <2>2, NatByStep, Zenon
  <2>4. \A i \in 0 .. n : s[i] \in Nat
    BY <1>1, <2>3
  <2>5. s = [i \in 0 .. n |-> s[i]]
    BY <1>6 DEF TextsTo
  <2> HIDE DEF H
  <2> QED BY <2>4, <2>5
<1>8. Merged(text, binary) =
          [i \in 1 .. n |-> IF s[i] = s[i - 1] THEN binary[i - s[i]] ELSE text[s[i]]]
  BY Zenon DEF Merged
<1> HIDE DEF s
<1> QED BY <1>6, <1>7, <1>8

\* The entries of a queue are in the order of their publishes, and so are two queues'.
Sorted(q) == \A i, j \in 1 .. Len(q) : i < j => q[i].id < q[j].id /\ q[i].order < q[j].order
SortedAcross(q, r) ==
    \A i \in 1 .. Len(q), j \in 1 .. Len(r) :
        /\ q[i].order < r[j].order <=> q[i].id < r[j].id
        /\ q[i].id # r[j].id

\* What m has of q's first t and r's first u: these, in order, before all that is left.
Has(q, r, m, t, u) ==
    /\ t \in 0 .. Len(q) /\ u \in 0 .. Len(r)
    /\ \A i \in 1 .. t + u : (\E j \in 1 .. t : m[i] = q[j]) \/ (\E j \in 1 .. u : m[i] = r[j])
    /\ \A j \in 1 .. t : \E i \in 1 .. t + u : m[i] = q[j]
    /\ \A j \in 1 .. u : \E i \in 1 .. t + u : m[i] = r[j]
    /\ \A i \in 1 .. t + u, j \in t + 1 .. Len(q) : m[i].id < q[j].id
    /\ \A i \in 1 .. t + u, j \in u + 1 .. Len(r) : m[i].id < r[j].id
    /\ \A i, j \in 1 .. t + u : i < j => m[i].id < m[j].id

\* The first of what is left goes next.
LEMMA NextGoes ==
    ASSUME NEW q \in Seq(BufferEntries), NEW r \in Seq(BufferEntries), NEW m, NEW t, NEW u,
           Has(q, r, m, t, u), Sorted(q), Sorted(r), t < Len(q), m[t + u + 1] = q[t + 1],
           u < Len(r) => q[t + 1].id < r[u + 1].id
    PROVE  Has(q, r, m, t + 1, u)
<1> DEFINE v == Len(q)
           w == Len(r)
           k == t + u
<1>1. /\ v \in Nat /\ w \in Nat /\ t \in Nat /\ u \in Nat /\ k \in Nat /\ t <= v /\ u <= w
      /\ t + 1 <= v /\ t + 1 + u = k + 1
  <2>1. v \in Nat /\ w \in Nat
    BY LenProperties
  <2>2. t \in 0 .. v /\ u \in 0 .. w
    BY DEF Has
  <2> QED BY <2>1, <2>2
<1>2. (\A i \in 1 .. v : q[i].id \in Nat) /\ (\A i \in 1 .. w : r[i].id \in Nat)
  <2>1. \A i \in 1 .. v : q[i] \in BufferEntries
    BY ElementOfSeq
  <2>2. \A i \in 1 .. w : r[i] \in BufferEntries
    BY ElementOfSeq
  <2> QED BY <2>1, <2>2 DEF BufferEntries
<1>3. (\A j \in t + 2 .. v : q[t + 1].id < q[j].id) /\ (\A j \in u + 1 .. w : q[t + 1].id < r[j].id)
  <2>1. \A j \in t + 2 .. v : q[t + 1].id < q[j].id
    BY <1>1 DEF Sorted
  <2>2. ASSUME NEW j \in u + 1 .. w PROVE q[t + 1].id < r[j].id
    <3>1. u + 1 \in 1 .. w /\ j \in 1 .. w /\ u < w /\ (j = u + 1 \/ u + 1 < j) /\ t + 1 \in 1 .. v
      BY <1>1
    <3>2. q[t + 1].id < r[u + 1].id /\ (j = u + 1 \/ r[u + 1].id < r[j].id)
      BY <3>1 DEF Sorted
    <3>3. q[t + 1].id \in Nat /\ r[u + 1].id \in Nat /\ r[j].id \in Nat
      BY <1>2, <3>1
    <3> QED BY <3>2, <3>3, SMTT(180)
  <2> QED BY <2>1, <2>2
<1>4. /\ \A i \in 1 .. k : (\E j \in 1 .. t : m[i] = q[j]) \/ (\E j \in 1 .. u : m[i] = r[j])
      /\ \A j \in 1 .. t : \E i \in 1 .. k : m[i] = q[j]
      /\ \A j \in 1 .. u : \E i \in 1 .. k : m[i] = r[j]
      /\ \A i \in 1 .. k, j \in t + 1 .. v : m[i].id < q[j].id
      /\ \A i \in 1 .. k, j \in u + 1 .. w : m[i].id < r[j].id
      /\ \A i, j \in 1 .. k : i < j => m[i].id < m[j].id
      /\ m[k + 1] = q[t + 1]
  BY DEF Has
<1> HIDE DEF v, w, k
<1>5. \A i \in 1 .. k + 1 : (\E j \in 1 .. t + 1 : m[i] = q[j]) \/ (\E j \in 1 .. u : m[i] = r[j])
  <2>1. SUFFICES ASSUME NEW i \in 1 .. k + 1
                 PROVE (\E j \in 1 .. t + 1 : m[i] = q[j]) \/ (\E j \in 1 .. u : m[i] = r[j])
    OBVIOUS
  <2>2. CASE i = k + 1
    <3>1. t + 1 \in 1 .. t + 1 /\ m[i] = q[t + 1]
      BY <1>1, <1>4, <2>2
    <3> QED BY <3>1
  <2>3. CASE i # k + 1
    <3>1. i \in 1 .. k /\ \A j \in 1 .. t : j \in 1 .. t + 1
      BY <1>1, <2>1, <2>3
    <3> QED BY <1>4, <3>1
  <2> QED BY <2>2, <2>3
<1>6. \A j \in 1 .. t + 1 : \E i \in 1 .. k + 1 : m[i] = q[j]
  <2>1. SUFFICES ASSUME NEW j \in 1 .. t + 1 PROVE \E i \in 1 .. k + 1 : m[i] = q[j]
    OBVIOUS
  <2>2. CASE j = t + 1
    <3>1. k + 1 \in 1 .. k + 1 /\ m[k + 1] = q[j]
      BY <1>1, <1>4, <2>2
    <3> QED BY <3>1
  <2>3. CASE j # t + 1
    <3>1. j \in 1 .. t /\ \A i \in 1 .. k : i \in 1 .. k + 1
      BY <1>1, <2>1, <2>3
    <3> QED BY <1>4, <3>1
  <2> QED BY <2>2, <2>3
<1>7. \A j \in 1 .. u : \E i \in 1 .. k + 1 : m[i] = r[j]
  <2>1. \A i \in 1 .. k : i \in 1 .. k + 1
    BY <1>1
  <2> QED BY <1>4, <2>1
<1>8. \A i \in 1 .. k + 1 : i \in 1 .. k \/ i = k + 1
  BY <1>1
<1>9. \A i \in 1 .. k + 1, j \in t + 2 .. v : m[i].id < q[j].id
  <2>1. \A j \in t + 2 .. v : j \in t + 1 .. v
    BY <1>1
  <2> QED BY <1>3, <1>4, <1>8, <2>1
<1>10. \A i \in 1 .. k + 1, j \in u + 1 .. w : m[i].id < r[j].id
  BY <1>3, <1>4, <1>8
<1>11. \A i, j \in 1 .. k + 1 : i < j => m[i].id < m[j].id
  <2>1. SUFFICES ASSUME NEW i \in 1 .. k + 1, NEW j \in 1 .. k + 1, i < j PROVE m[i].id < m[j].id
    OBVIOUS
  <2>2. i \in 1 .. k /\ t + 1 \in t + 1 .. v
    BY <1>1, <2>1
  <2>3. CASE j = k + 1
    BY <1>4, <2>2, <2>3
  <2>4. CASE j \in 1 .. k
    BY <1>4, <2>1, <2>2, <2>4
  <2> QED BY <1>8, <2>3, <2>4
<1>12. t + 1 \in 0 .. v /\ u \in 0 .. w /\ t + 1 + 1 = t + 2
  BY <1>1
<1> QED BY <1>1, <1>5, <1>6, <1>7, <1>9, <1>10, <1>11, <1>12 DEF Has, v, w

\* What m has of two queues it has of them the other way round.
LEMMA HasEither ==
    ASSUME NEW q \in Seq(BufferEntries), NEW r \in Seq(BufferEntries), NEW m, NEW t, NEW u,
           Has(q, r, m, t, u)
    PROVE  Has(r, q, m, u, t) /\ t \in Nat /\ u \in Nat /\ t + u = u + t
<1>1. t \in 0 .. Len(q) /\ u \in 0 .. Len(r) /\ Len(q) \in Nat /\ Len(r) \in Nat
  BY LenProperties DEF Has
<1>2. t \in Nat /\ u \in Nat /\ t + u = u + t
  BY <1>1
<1> QED BY <1>1, <1>2 DEF Has

\* Two queues are merged in the order of their publishes, whole (ServerChannelBuffer.flush).
LEMMA MergeIsSorted ==
    ASSUME NEW text \in Seq(BufferEntries), NEW binary \in Seq(BufferEntries),
           Sorted(text), Sorted(binary), SortedAcross(text, binary)
    PROVE  LET m == Merged(text, binary)
               n == Len(text) + Len(binary) IN
           /\ n \in Nat /\ m \in Seq(BufferEntries) /\ Len(m) = n
           /\ Has(text, binary, m, Len(text), Len(binary))
<1> DEFINE m == Merged(text, binary)
           p == Len(text)
           q == Len(binary)
           n == p + q
<1>1. p \in Nat /\ q \in Nat /\ n \in Nat
  BY LenProperties
<1>2. PICK f \in [0 .. n -> Nat] :
         /\ TextsTo(text, binary, n, f)
         /\ m = [i \in 1 .. n |-> IF f[i] = f[i - 1] THEN binary[i - f[i]] ELSE text[f[i]]]
  BY MergeCounts
<1> HIDE DEF m, n
<1>3. /\ f[0] = 0
      /\ \A k \in Nat : k + 1 <= n =>
            IF TextIsNext(text, binary, f[k], k - f[k])
            THEN f[k + 1] = f[k] + 1 /\ m[k + 1] = text[f[k] + 1]
            ELSE f[k + 1] = f[k] /\ m[k + 1] = binary[k + 1 - f[k]]
  <2>1. f[0] = 0
    BY <1>1, <1>2 DEF TextsTo
  <2>2. ASSUME NEW k \in Nat, k + 1 <= n
        PROVE IF TextIsNext(text, binary, f[k], k - f[k])
              THEN f[k + 1] = f[k] + 1 /\ m[k + 1] = text[f[k] + 1]
              ELSE f[k + 1] = f[k] /\ m[k + 1] = binary[k + 1 - f[k]]
    <3>1. k + 1 \in 1 .. n /\ k + 1 \in 0 .. n /\ k + 1 # 0 /\ k + 1 - 1 = k /\ k \in 0 .. n
      BY <1>1, <2>2
    <3>2. PICK t \in Nat : t = f[k]
      BY <1>2, <3>1
    <3>3. f[k + 1] = t + IF TextIsNext(text, binary, t, k - t) THEN 1 ELSE 0
      BY <1>2, <3>1, <3>2 DEF TextsTo
    <3>4. m[k + 1] = IF f[k + 1] = t THEN binary[k + 1 - f[k + 1]] ELSE text[f[k + 1]]
      <4> DEFINE e(i) == IF f[i] = f[i - 1] THEN binary[i - f[i]] ELSE text[f[i]]
      <4>1. m = [i \in 1 .. n |-> e(i)]
        BY <1>2
      <4>2. \A i \in 1 .. n : e(i) = IF f[i] = f[i - 1] THEN binary[i - f[i]] ELSE text[f[i]]
        OBVIOUS
      <4> HIDE DEF e
      <4>3. m[k + 1] = e(k + 1)
        BY <3>1, <4>1
      <4>4. e(k + 1) = IF f[k + 1] = f[k + 1 - 1] THEN binary[k + 1 - f[k + 1]] ELSE text[f[k + 1]]
        BY <3>1, <4>2, SMTT(180)
      <4>5. f[k + 1 - 1] = t
        BY <3>1, <3>2
      <4>6. m[k + 1] = IF f[k + 1] = t THEN binary[k + 1 - f[k + 1]] ELSE text[f[k + 1]]
        BY <4>3, <4>4, <4>5
      <4> QED BY <4>6
    <3>5. CASE TextIsNext(text, binary, t, k - t)
      <4>1. f[k + 1] = t + 1 /\ t + 1 # t
        BY <3>3, <3>5
      <4>2. m[k + 1] = text[t + 1]
        BY <3>4, <4>1, Zenon
      <4> QED BY <3>2, <3>5, <4>1, <4>2, Zenon
    <3>6. CASE ~TextIsNext(text, binary, t, k - t)
      <4>1. f[k + 1] = t
        BY <3>3, <3>6
      <4>2. m[k + 1] = binary[k + 1 - t]
        BY <3>4, <4>1, Zenon
      <4> QED BY <3>2, <3>6, <4>1, <4>2, Zenon
    <3> QED BY <3>5, <3>6
  <2> QED BY <2>1, <2>2, Zenon
<1>4. Has(text, binary, m, f[0], 0 - f[0])
  BY <1>1, <1>3 DEF Has, p, q
<1>5. ASSUME NEW k \in Nat, k + 1 <= n, Has(text, binary, m, f[k], k - f[k])
      PROVE  Has(text, binary, m, f[k + 1], k + 1 - f[k + 1])
  <2>1. PICK t, u : t = f[k] /\ u = k - f[k]
    OBVIOUS
  <2>2. Has(text, binary, m, t, u)
    BY <1>5, <2>1
  <2>3. t \in 0 .. p /\ u \in 0 .. q
    BY <2>2 DEF Has
  <2>4. k = t + u
    BY <1>1, <1>5, <2>1, <2>3
  <2>5. IF TextIsNext(text, binary, t, u)
        THEN f[k + 1] = t + 1 /\ m[k + 1] = text[t + 1]
        ELSE f[k + 1] = t /\ m[k + 1] = binary[k + 1 - t]
    BY <1>3, <1>5, <2>1, Zenon
  <2>6. CASE TextIsNext(text, binary, t, u)
    <3>1. t < p /\ f[k + 1] = t + 1 /\ k + 1 - f[k + 1] = u /\ m[t + u + 1] = text[t + 1]
      <4>1. f[k + 1] = t + 1 /\ m[k + 1] = text[t + 1]
        BY <2>5, <2>6, Zenon
      <4>2. k + 1 - (t + 1) = u
        BY <1>1, <2>3, <2>4
      <4>3. t < p
        BY <2>6 DEF TextIsNext
      <4> QED BY <2>4, <4>1, <4>2, <4>3, Zenon
    <3>2. u < q => text[t + 1].id < binary[u + 1].id
      <4>1. SUFFICES ASSUME u < q PROVE text[t + 1].id < binary[u + 1].id
        OBVIOUS
      <4>2. t + 1 \in 1 .. p /\ u + 1 \in 1 .. q
        BY <1>1, <2>3, <3>1, <4>1
      <4>3. text[t + 1].order < binary[u + 1].order
        BY <2>6, <4>1 DEF TextIsNext
      <4> QED BY <4>2, <4>3 DEF SortedAcross
    <3>3. Has(text, binary, m, t + 1, u)
      BY <2>2, <3>1, <3>2, NextGoes
    <3> QED BY <3>1, <3>3
  <2>7. CASE ~TextIsNext(text, binary, t, u)
    <3>1. u < q /\ f[k + 1] = t /\ k + 1 - f[k + 1] = u + 1 /\ m[u + t + 1] = binary[u + 1]
      <4>1. u < q
        <5>1. u < q \/ t < p
          BY <1>1, <1>5, <2>3, <2>4 DEF n
        <5>2. t < p => u < q
          BY <2>7 DEF TextIsNext
        <5> QED BY <5>1, <5>2
      <4>2. f[k + 1] = t /\ m[k + 1] = binary[k + 1 - t]
        BY <2>5, <2>7, Zenon
      <4>3. k + 1 - t = u + 1 /\ u + t + 1 = k + 1
        BY <1>1, <2>3, <2>4
      <4> QED BY <4>1, <4>2, <4>3, Zenon
    <3>2. t < p => binary[u + 1].id < text[t + 1].id
      <4>1. SUFFICES ASSUME t < p PROVE binary[u + 1].id < text[t + 1].id
        OBVIOUS
      <4>2. t + 1 \in 1 .. p /\ u + 1 \in 1 .. q
        BY <1>1, <2>3, <3>1, <4>1, SMTT(180)
      <4>3. ~(text[t + 1].order < binary[u + 1].order)
        BY <2>7, <4>1 DEF TextIsNext
      <4>4. ~(text[t + 1].id < binary[u + 1].id) /\ text[t + 1].id # binary[u + 1].id
        BY <4>2, <4>3 DEF SortedAcross
      <4>5. text[t + 1] \in BufferEntries /\ binary[u + 1] \in BufferEntries
        BY <4>2, ElementOfSeq
      <4>6. text[t + 1].id \in Nat /\ binary[u + 1].id \in Nat
        BY <4>5 DEF BufferEntries
      <4> QED BY <4>4, <4>6
    <3>3. Has(binary, text, m, u + 1, t)
      <4>1. Has(binary, text, m, u, t)
        BY <2>2, HasEither
      <4> QED BY <3>1, <3>2, <4>1, NextGoes
    <3>4. Has(text, binary, m, t, u + 1)
      BY <3>3, HasEither
    <3> QED BY <3>1, <3>4
  <2> QED BY <2>6, <2>7
<1>6. Has(text, binary, m, f[n], n - f[n])
  <2> DEFINE G == {k \in Nat : k <= n => Has(text, binary, m, f[k], k - f[k])}
  <2>1. 0 \in G
    BY <1>4
  <2>2. ASSUME NEW k \in Nat, k \in G PROVE k + 1 \in G
    <3>1. k + 1 <= n => Has(text, binary, m, f[k + 1], k + 1 - f[k + 1])
      <4>1. k + 1 <= n => k <= n
        BY <1>1
      <4> QED BY <1>5, <2>2, <4>1
    <3> QED BY <3>1, SMTT(180)
  <2>3. \A k \in Nat : k \in G
    BY <2>1, <2>2, NatByStep, Zenon
  <2>4. n \in G /\ n <= n
    BY <1>1, <2>3
  <2> QED BY <2>4
<1>7. f[n] = p /\ n - f[n] = q
  <2>1. f[n] \in 0 .. p /\ n - f[n] \in 0 .. q
    BY <1>6 DEF Has
  <2> QED BY <1>1, <2>1 DEF n
<1>8. Has(text, binary, m, p, q)
  BY <1>6, <1>7
<1>9. m \in Seq(BufferEntries) /\ Len(m) = n
  <2> DEFINE e(i) == IF f[i] = f[i - 1] THEN binary[i - f[i]] ELSE text[f[i]]
  <2>1. m = [i \in 1 .. n |-> e(i)]
    BY <1>2
  <2> HIDE DEF e
  <2>2. DOMAIN m = 1 .. n /\ m = [i \in 1 .. n |-> m[i]]
    BY <2>1
  <2>3. \A i \in 1 .. n : m[i] \in BufferEntries
    <3>1. \A i \in 1 .. n : (\E j \in 1 .. p : m[i] = text[j]) \/ (\E j \in 1 .. q : m[i] = binary[j])
      BY <1>8, Zenon DEF Has, n
    <3>2. \A j \in 1 .. p : text[j] \in BufferEntries
      BY ElementOfSeq
    <3>3. \A j \in 1 .. q : binary[j] \in BufferEntries
      BY ElementOfSeq
    <3> QED BY <3>1, <3>2, <3>3
  <2>4. m \in [1 .. n -> BufferEntries]
    BY <2>2, <2>3
  <2>5. m \in Seq(BufferEntries)
    BY <1>1, <2>4, SeqDef
  <2> QED BY <1>1, <2>2, <2>5, LenProperties
<1> QED BY <1>1, <1>8, <1>9 DEF m, n

\* z is q with an entry numbered n + 1 and ordered o behind it, and r the other queue.
Appended(q, r, z, n, o) ==
    /\ z \in Seq(BufferEntries) /\ Sorted(z)
    /\ \A i \in 1 .. Len(z) : z[i].order < o + 1 /\ z[i].id \in 1 .. n + 1
    /\ \A i \in 1 .. Len(r) : r[i].order < o + 1 /\ r[i].id \in 1 .. n + 1
    /\ \A y : (\E i \in 1 .. Len(z) : z[i].id = y) <=>
                  (\E i \in 1 .. Len(q) : q[i].id = y) \/ y = n + 1
    /\ SortedAcross(q, r) => SortedAcross(z, r)
    /\ SortedAcross(r, q) => SortedAcross(r, z)

\* A queue stays in order with a later entry behind it, and so it is with the other queue.
LEMMA AppendSorted ==
    ASSUME NEW q \in Seq(BufferEntries), NEW r \in Seq(BufferEntries), NEW e \in BufferEntries,
           NEW n \in Nat, NEW o \in Nat, e.id = n + 1, e.order = o, Sorted(q),
           \A i \in 1 .. Len(q) : q[i].order < o /\ q[i].id \in 1 .. n,
           \A i \in 1 .. Len(r) : r[i].order < o /\ r[i].id \in 1 .. n
    PROVE  Appended(q, r, Append(q, e), n, o)
<1> DEFINE z == Append(q, e)
<1>1. PICK k \in Nat : k = Len(q)
  BY LenProperties
<1>2. /\ z \in Seq(BufferEntries) /\ Len(z) = k + 1 /\ z[k + 1] = e
      /\ \A i \in 1 .. k : z[i] = q[i]
  <2>1. z \in Seq(BufferEntries) /\ Len(z) = Len(q) + 1 /\ z[Len(q) + 1] = e
        /\ \A i \in 1 .. Len(q) : z[i] = q[i]
    BY AppendProperties
  <2> QED BY <1>1, <2>1, Zenon
<1> HIDE DEF z
<1>3. \A i \in 1 .. k : q[i].order \in Nat /\ q[i].id \in Nat
  <2>1. \A i \in 1 .. k : q[i] \in BufferEntries
    BY <1>1, ElementOfSeq
  <2> QED BY <2>1 DEF BufferEntries
<1>4. \A i \in 1 .. Len(r) : r[i].order \in Nat /\ r[i].id \in Nat
  <2>1. \A i \in 1 .. Len(r) : r[i] \in BufferEntries
    BY ElementOfSeq
  <2> QED BY <2>1 DEF BufferEntries
<1>5. \A i \in 1 .. k + 1 : i \in 1 .. k \/ i = k + 1
  OBVIOUS
<1>6. \A i \in 1 .. k : /\ z[i].order = q[i].order /\ z[i].id = q[i].id
                        /\ z[i].order < o /\ z[i].id \in 1 .. n
                        /\ z[i].order \in Nat /\ z[i].id \in Nat
  BY <1>1, <1>2, <1>3
<1>7. z[k + 1].order = o /\ z[k + 1].id = n + 1
  BY <1>2
<1>8. Sorted(z)
  <2>1. SUFFICES ASSUME NEW i \in 1 .. k + 1, NEW j \in 1 .. k + 1, i < j
                 PROVE z[i].id < z[j].id /\ z[i].order < z[j].order
    BY <1>2 DEF Sorted
  <2>2. i \in 1 .. k
    BY <2>1
  <2>3. CASE j \in 1 .. k
    <3>1. q[i].id < q[j].id /\ q[i].order < q[j].order
      BY <1>1, <2>1, <2>2, <2>3 DEF Sorted
    <3> QED BY <1>6, <2>2, <2>3, <3>1
  <2>4. CASE j = k + 1
    <3>1. z[i].order < o /\ z[i].id < n + 1
      BY <1>6, <2>2
    <3> QED BY <1>7, <2>4, <3>1
  <2> QED BY <1>5, <2>3, <2>4
<1>9. \A i \in 1 .. k + 1 : z[i].order < o + 1 /\ z[i].id \in 1 .. n + 1
  <2>1. \A i \in 1 .. k : z[i].order < o + 1 /\ z[i].id \in 1 .. n + 1
    <3>1. \A x \in Nat : (x < o => x < o + 1) /\ (x \in 1 .. n => x \in 1 .. n + 1)
      OBVIOUS
    <3> QED BY <1>6, <3>1
  <2>2. z[k + 1].order < o + 1 /\ z[k + 1].id \in 1 .. n + 1
    BY <1>7
  <2> QED BY <1>5, <2>1, <2>2
<1>10. \A i \in 1 .. Len(r) : r[i].order < o + 1 /\ r[i].id \in 1 .. n + 1
  BY <1>4
<1>11. ASSUME NEW y
       PROVE (\E i \in 1 .. k + 1 : z[i].id = y) <=> (\E i \in 1 .. k : q[i].id = y) \/ y = n + 1
  <2>1. k + 1 \in 1 .. k + 1 /\ \A i \in 1 .. k : i \in 1 .. k + 1
    OBVIOUS
  <2> QED BY <1>5, <1>6, <1>7, <2>1
<1>12. ASSUME SortedAcross(q, r) PROVE SortedAcross(z, r)
  <2>1. SUFFICES ASSUME NEW i \in 1 .. k + 1, NEW j \in 1 .. Len(r)
                 PROVE (z[i].order < r[j].order <=> z[i].id < r[j].id) /\ z[i].id # r[j].id
    BY <1>2 DEF SortedAcross
  <2>2. CASE i \in 1 .. k
    <3>1. (q[i].order < r[j].order <=> q[i].id < r[j].id) /\ q[i].id # r[j].id
      BY <1>1, <1>12, <2>2 DEF SortedAcross
    <3> QED BY <1>6, <2>2, <3>1
  <2>3. CASE i = k + 1
    <3>1. r[j].order < o /\ r[j].id <= n /\ r[j].order \in Nat /\ r[j].id \in Nat
      BY <1>4
    <3>2. ~(o < r[j].order) /\ ~(n + 1 < r[j].id) /\ n + 1 # r[j].id
      BY <3>1
    <3> QED BY <1>7, <2>3, <3>2
  <2> QED BY <1>5, <2>2, <2>3
<1>13. ASSUME SortedAcross(r, q) PROVE SortedAcross(r, z)
  <2>1. SUFFICES ASSUME NEW i \in 1 .. k + 1, NEW j \in 1 .. Len(r)
                 PROVE (r[j].order < z[i].order <=> r[j].id < z[i].id) /\ r[j].id # z[i].id
    BY <1>2 DEF SortedAcross
  <2>2. CASE i \in 1 .. k
    <3>1. (r[j].order < q[i].order <=> r[j].id < q[i].id) /\ r[j].id # q[i].id
      BY <1>1, <1>13, <2>2 DEF SortedAcross
    <3> QED BY <1>6, <2>2, <3>1
  <2>3. CASE i = k + 1
    <3>1. r[j].order < o /\ r[j].id < n + 1 /\ r[j].id # n + 1
      BY <1>4
    <3> QED BY <1>7, <2>3, <3>1
  <2> QED BY <1>5, <2>2, <2>3
<1>14. Appended(q, r, z, n, o)
  BY <1>1, <1>2, <1>8, <1>9, <1>10, <1>11, <1>12, <1>13, Zenon DEF Appended
<1> QED BY <1>14 DEF z

\* The two queues of a buffer are in the order of their publishes, up to n of them.
BufferSorted(b, n) ==
    /\ \A k \in QueueKinds : Sorted(b.queue[k])
    /\ SortedAcross(b.queue["text"], b.queue["binary"])
    /\ \A k \in QueueKinds : \A i \in 1 .. Len(b.queue[k]) :
          b.queue[k][i].order < b.next /\ b.queue[k][i].id \in 1 .. n

\* What the two queues hold.
LEMMA EntriesAre ==
    ASSUME NEW b \in Buffers
    PROVE  /\ \A e : e \in Entries(b) <=> \E k \in QueueKinds : \E i \in 1 .. Len(b.queue[k]) : e = b.queue[k][i]
           /\ \A k \in QueueKinds : b.queue[k] \in Seq(BufferEntries) /\ Len(b.queue[k]) \in Nat
           /\ \A k \in QueueKinds : \A i \in 1 .. Len(b.queue[k]) :
                 b.queue[k][i] \in BufferEntries /\ b.queue[k][i] \in Entries(b)
<1>1. \A k \in QueueKinds : b.queue[k] \in Seq(BufferEntries)
  BY DEF Buffers
<1>2. \A k \in QueueKinds : Len(b.queue[k]) \in Nat /\ DOMAIN b.queue[k] = 1 .. Len(b.queue[k])
  BY <1>1, LenProperties
<1>3. \A k \in QueueKinds : \A i \in 1 .. Len(b.queue[k]) : b.queue[k][i] \in BufferEntries
  BY <1>1, ElementOfSeq
<1>4. \A e : e \in Entries(b) <=> \E k \in QueueKinds : \E i \in DOMAIN b.queue[k] : e = b.queue[k][i]
  BY DEF Entries, ToSet, QueueKinds
<1> QED BY <1>1, <1>2, <1>3, <1>4

\* An empty buffer.
LEMMA EmptyBufferIs ==
    /\ EmptyBuffer \in Buffers /\ Entries(EmptyBuffer) = {} /\ StillWaiting(EmptyBuffer) = {}
    /\ \A k \in QueueKinds : EmptyBuffer.queue[k] = <<>>
    /\ \A n : BufferSorted(EmptyBuffer, n)
<1>1. <<>> \in Seq(BufferEntries) /\ Len(<<>>) = 0
  OBVIOUS
<1>2. EmptyBuffer \in Buffers /\ \A k \in QueueKinds : EmptyBuffer.queue[k] = <<>>
  BY <1>1 DEF EmptyBuffer, Buffers, Flags
<1>3. \A k \in QueueKinds : Len(EmptyBuffer.queue[k]) = 0
  BY <1>1, <1>2
<1>4. \A i : i \notin 1 .. 0
  OBVIOUS
<1>5. Entries(EmptyBuffer) = {}
  BY <1>2, <1>3, <1>4, EntriesAre
<1>6. \A n : BufferSorted(EmptyBuffer, n)
  <2>1. "text" \in QueueKinds /\ "binary" \in QueueKinds
    BY DEF QueueKinds
  <2> QED BY <1>3, <1>4, <2>1 DEF BufferSorted, Sorted, SortedAcross
<1> QED BY <1>2, <1>5, <1>6 DEF StillWaiting

\* What an ack request's callbacks are rejected for stays, but for what waited (rejectAcks).
Rejected(e) == [e EXCEPT !.live = @ /\ ~e.ack]

\* rejectAcks: the entries stay, and those that asked for an ack wait no longer.
LEMMA RejectDoes ==
    ASSUME NEW b \in Buffers
    PROVE  LET c == RejectAcks(b) IN
           /\ c \in Buffers /\ c.next = b.next
           /\ \A k \in QueueKinds : /\ Len(c.queue[k]) = Len(b.queue[k])
                                    /\ \A i \in 1 .. Len(b.queue[k]) : c.queue[k][i] = Rejected(b.queue[k][i])
           /\ \A e \in BufferEntries : /\ Rejected(e) \in BufferEntries
                                       /\ Rejected(e).id = e.id /\ Rejected(e).order = e.order
                                       /\ Rejected(e).ack = e.ack /\ Rejected(e).live = (e.live /\ ~e.ack)
<1> DEFINE q == [k \in QueueKinds |-> [i \in DOMAIN b.queue[k] |-> Rejected(b.queue[k][i])]]
           c == [b EXCEPT !.queue = q]
<1>1. RejectAcks(b) = c
  BY DEF RejectAcks, Buffers, Rejected
<1>2. \A e \in BufferEntries : /\ Rejected(e) \in BufferEntries
                               /\ Rejected(e).id = e.id /\ Rejected(e).order = e.order
                               /\ Rejected(e).ack = e.ack /\ Rejected(e).live = (e.live /\ ~e.ack)
  BY DEF Rejected, BufferEntries
<1>3. ASSUME NEW k \in QueueKinds
      PROVE  /\ q[k] \in Seq(BufferEntries) /\ Len(q[k]) = Len(b.queue[k])
             /\ \A i \in 1 .. Len(b.queue[k]) : q[k][i] = Rejected(b.queue[k][i])
  <2> DEFINE r == b.queue[k]
             n == Len(r)
             z == [i \in 1 .. n |-> Rejected(r[i])]
  <2>1. r \in Seq(BufferEntries) /\ n \in Nat /\ \A i \in 1 .. n : r[i] \in BufferEntries
    BY EntriesAre
  <2>2. DOMAIN r = 1 .. n
    BY <2>1, LenProperties
  <2>3. q[k] = z
    BY <2>2
  <2>4. z \in [1 .. n -> BufferEntries]
    <3>1. \A i \in 1 .. n : Rejected(r[i]) \in BufferEntries
      BY <1>2, <2>1
    <3> HIDE DEF r, n
    <3> QED BY <3>1
  <2> HIDE DEF z, q, n, r
  <2>5. z \in Seq(BufferEntries)
    BY <2>1, <2>4, SeqDef
  <2>6. Len(z) = n
    BY <2>1, <2>4, <2>5, LenProperties
  <2>7. \A i \in 1 .. n : z[i] = Rejected(r[i])
    BY DEF z
  <2> QED BY <2>3, <2>5, <2>6, <2>7 DEF r, n
<1>4. q \in [QueueKinds -> Seq(BufferEntries)]
  <2>1. q = [k \in QueueKinds |-> q[k]]
    OBVIOUS
  <2> HIDE DEF q
  <2> QED BY <1>3, <2>1
<1> HIDE DEF q
<1>5. c \in Buffers /\ c.next = b.next /\ c.queue = q
  BY <1>4 DEF Buffers
<1> HIDE DEF c
<1> QED BY <1>1, <1>2, <1>3, <1>5

\* evict leaves an end of the queue.
LEMMA EvictDoes ==
    ASSUME NEW q \in Seq(BufferEntries), NEW budget \in Nat
    PROVE  \E n \in 0 .. Len(q) : Evict(q, budget) = SubSeq(q, n + 1, Len(q))
<1> DEFINE Rest(n) == SubSeq(q, n + 1, Len(q))
           T == {n \in 0 .. Len(q) : QueueBytes(Rest(n)) <= budget}
<1>1. PICK l \in Nat : l = Len(q)
  BY LenProperties
<1>2. QueueBytes(<<>>) = 0
  <2> DEFINE D == DOMAIN <<>>
             F(f) == f = [s \in SUBSET D |-> IF s = {} THEN 0
                            ELSE LET x == Max(s) IN f[s \ {x}] + <<>>[x].bytes]
  <2>1. D = {}
    OBVIOUS
  <2>2. QueueBytes(<<>>) = (CHOOSE f : F(f))[D]
    BY Zenon DEF QueueBytes, FoldLeft, MapThenFoldSet
  <2>3. F([s \in SUBSET D |-> 0])
    BY <2>1
  <2>4. F(CHOOSE f : F(f))
    <3> HIDE DEF F
    <3> QED BY <2>3, Zenon
  <2>5. \A f : F(f) => f[D] = 0
    BY <2>1
  <2> HIDE DEF F
  <2> QED BY <2>2, <2>4, <2>5
<1>3. Rest(l) = <<>>
  BY <1>1
<1>4. l \in T
  <2>1. l \in 0 .. Len(q) /\ 0 <= budget
    BY <1>1
  <2> HIDE DEF Rest
  <2> QED BY <1>2, <1>3, <2>1
<1>5. T \in SUBSET Nat /\ T # {}
  BY <1>1, <1>4
<1>6. PICK x \in T : \A y \in T : x <= y
  BY <1>5, LeastNatural
<1>7. Min(T) \in T
  <2> HIDE DEF T
  <2> QED BY <1>6, Zenon DEF Min
<1>8. Evict(q, budget) = Rest(Min(T))
  BY DEF Evict
<1> HIDE DEF T
<1>9. Min(T) \in 0 .. Len(q)
  BY <1>7 DEF T
<1> QED BY <1>8, <1>9
\* What is left of a sequence without its first m.
LEMMA SuffixIs ==
    ASSUME NEW S, NEW z \in Seq(S), NEW m \in 0 .. Len(z)
    PROVE  LET y == SubSeq(z, m + 1, Len(z)) IN
           /\ y \in Seq(S) /\ Len(y) \in Nat /\ Len(y) = Len(z) - m
           /\ \A i \in 1 .. Len(y) : y[i] = z[m + i] /\ m + i \in m + 1 .. Len(z)
           /\ \A j \in m + 1 .. Len(z) : \E i \in 1 .. Len(y) : y[i] = z[j] /\ j = m + i
<1> DEFINE y == SubSeq(z, m + 1, Len(z))
<1>1. PICK l \in Nat : l = Len(z)
  BY LenProperties
<1>2. m + 1 \in 1 .. l + 1 /\ l \in m .. l /\ m \in Nat /\ m <= l
  BY <1>1
<1>3. y \in Seq(S) /\ Len(y) = l - m /\ \A i \in 1 .. l - m : y[i] = z[m + i]
  BY <1>1, <1>2
<1> HIDE DEF y
<1>4. l - m \in Nat /\ \A i \in 1 .. l - m : m + i \in m + 1 .. l
  BY <1>1, <1>2
<1>5. ASSUME NEW j \in m + 1 .. l PROVE \E i \in 1 .. l - m : y[i] = z[j] /\ j = m + i
  <2>1. j - m \in 1 .. l - m /\ m + (j - m) = j
    BY <1>1, <1>2
  <2> QED BY <1>3, <2>1
<1> QED BY <1>1, <1>3, <1>4, <1>5 DEF y

\* A queue and the other one stay in order with what was evicted of it gone.
LEMMA SuffixSorted ==
    ASSUME NEW z \in Seq(BufferEntries), NEW r \in Seq(BufferEntries), NEW m \in 0 .. Len(z), Sorted(z)
    PROVE  LET y == SubSeq(z, m + 1, Len(z)) IN
           /\ Sorted(y)
           /\ SortedAcross(z, r) => SortedAcross(y, r)
           /\ SortedAcross(r, z) => SortedAcross(r, y)
<1> DEFINE y == SubSeq(z, m + 1, Len(z))
<1>1. PICK l \in Nat : l = Len(z)
  BY LenProperties
<1>2. \A i \in 1 .. Len(y) : y[i] = z[m + i] /\ m + i \in 1 .. l
  <2>1. \A i \in 1 .. Len(y) : y[i] = z[m + i] /\ m + i \in m + 1 .. l
    BY <1>1, SuffixIs
  <2>2. \A i \in m + 1 .. l : i \in 1 .. l
    BY <1>1
  <2> QED BY <2>1, <2>2
<1> HIDE DEF y
<1>3. Sorted(y)
  <2>1. \A i, j \in 1 .. Len(y) : i < j => m + i < m + j
    <3>1. \A i \in 1 .. Len(y) : i \in Int
      OBVIOUS
    <3>2. m \in Int
      BY <1>1
    <3> QED BY <3>1, <3>2
  <2> QED BY <1>1, <1>2, <2>1 DEF Sorted
<1>4. SortedAcross(z, r) => SortedAcross(y, r)
  BY <1>1, <1>2 DEF SortedAcross
<1>5. SortedAcross(r, z) => SortedAcross(r, y)
  BY <1>1, <1>2 DEF SortedAcross
<1> QED BY <1>3, <1>4, <1>5 DEF y

\* c is b with what was pushed to queue `kind` behind it, and all but the last entries of it gone.
PushedTo(b, c, kind, n, ack) ==
    /\ c \in Buffers /\ BufferSorted(c, n + 1)
    /\ \A k \in QueueKinds : k # kind => c.queue[k] = b.queue[k]
    /\ \E m \in Nat : \E l \in Nat :
          /\ Len(b.queue[kind]) = l /\ m <= l + 1 /\ Len(c.queue[kind]) = l + 1 - m
          /\ \A i \in 1 .. l + 1 - m :
                IF m + i = l + 1
                THEN /\ c.queue[kind][i].id = n + 1 /\ c.queue[kind][i].ack = ack
                     /\ c.queue[kind][i].live
                ELSE m + i \in 1 .. l /\ c.queue[kind][i] = b.queue[kind][m + i]

\* A push adds an entry behind its queue, of which what is over the budget goes from the front.
LEMMA PushDoes ==
    ASSUME NEW b \in Buffers, NEW n \in Nat, BufferSorted(b, n), NEW x, x.kind \in QueueKinds,
           x.ack \in BOOLEAN, x.bytes \in Nat
    PROVE  PushedTo(b, PushEntry(b, x.kind, n + 1, x.ack, x.bytes), x.kind, n, x.ack)
<1>0. PICK kind \in QueueKinds, ack \in BOOLEAN, bytes \in Nat :
          kind = x.kind /\ ack = x.ack /\ bytes = x.bytes
  OBVIOUS
<1> DEFINE c == PushEntry(b, kind, n + 1, ack, bytes)
           entry == [id |-> n + 1, ack |-> ack, bytes |-> Max({bytes, 1}), order |-> b.next,
                     live |-> TRUE]
           grown == Append(b.queue[kind], entry)
           kept == IF entry.bytes > BufferBudgets[kind] THEN <<>>
                   ELSE Evict(grown, BufferBudgets[kind])
           gap == b.dropped[kind] \/ kept # grown
<1>1. c = [b EXCEPT !.queue[kind] = kept, !.dropped[kind] = @ \/ kept # grown, !.next = @ + 1]
  BY DEF PushEntry
<1>2. Max({bytes, 1}) \in Nat
  <2>1. \E m \in {bytes, 1} : \A y \in {bytes, 1} : m >= y
    <3>1. bytes >= 1 \/ 1 >= bytes
      OBVIOUS
    <3> QED BY <3>1
  <2>2. Max({bytes, 1}) \in {bytes, 1}
    BY <2>1, Zenon DEF Max
  <2> QED BY <2>2
<1>3. b.next \in Nat /\ b.queue \in [QueueKinds -> Seq(BufferEntries)] /\ b.dropped \in Flags
  BY DEF Buffers
<1>4. /\ entry \in BufferEntries /\ entry.id = n + 1 /\ entry.order = b.next /\ entry.ack = ack /\ entry.live
  <2> DEFINE size == Max({bytes, 1})
  <2>1. size \in Nat
    BY <1>2
  <2> HIDE DEF size
  <2>2. [id |-> n + 1, ack |-> ack, bytes |-> size, order |-> b.next, live |-> TRUE] \in BufferEntries
    BY <1>3, <2>1 DEF BufferEntries
  <2> QED BY <2>2 DEF size
<1>5. PICK other \in QueueKinds : \A k \in QueueKinds : (k = kind \/ k = other) /\ other # kind
  BY DEF QueueKinds
<1>6. PICK q \in Seq(BufferEntries), r \in Seq(BufferEntries), l \in Nat :
          q = b.queue[kind] /\ r = b.queue[other] /\ l = Len(q)
  <2>1. b.queue[kind] \in Seq(BufferEntries) /\ b.queue[other] \in Seq(BufferEntries)
    BY <1>3
  <2>2. Len(b.queue[kind]) \in Nat
    BY <2>1, LenProperties
  <2> QED BY <2>1, <2>2
<1>7. grown = Append(q, entry)
  BY <1>6
<1> HIDE DEF entry
<1>8. /\ Sorted(q) /\ Sorted(r)
      /\ \A i \in 1 .. Len(q) : q[i].order < b.next /\ q[i].id \in 1 .. n
      /\ \A i \in 1 .. Len(r) : r[i].order < b.next /\ r[i].id \in 1 .. n
  BY <1>6 DEF BufferSorted
<1> DEFINE z == Append(q, entry)
<1>9. /\ z \in Seq(BufferEntries) /\ Sorted(z)
      /\ \A i \in 1 .. Len(z) : z[i].order < b.next + 1 /\ z[i].id \in 1 .. n + 1
      /\ \A i \in 1 .. Len(r) : r[i].order < b.next + 1 /\ r[i].id \in 1 .. n + 1
      /\ SortedAcross(q, r) => SortedAcross(z, r)
      /\ SortedAcross(r, q) => SortedAcross(r, z)
  <2> HIDE DEF c, grown, kept, gap
  <2>1. PICK o \in Nat : o = b.next
    BY <1>3
  <2>2. \A i \in 1 .. Len(q) : q[i].order < o /\ q[i].id \in 1 .. n
    BY <1>8, <2>1
  <2>3. \A i \in 1 .. Len(r) : r[i].order < o /\ r[i].id \in 1 .. n
    BY <1>8, <2>1
  <2>4. entry.order = o
    BY <1>4, <2>1
  <2>5. Appended(q, r, z, n, o)
    BY <1>4, <1>8, <2>2, <2>3, <2>4, AppendSorted
  <2> HIDE DEF z
  <2> QED BY <2>1, <2>5 DEF Appended
<1>10. Len(z) = l + 1
  BY <1>4, <1>6, AppendProperties
<1>11. PICK m \in 0 .. l + 1 : kept = SubSeq(z, m + 1, l + 1)
  <2> HIDE DEF grown, z
  <2>1. CASE entry.bytes > BufferBudgets[kind]
    <3>1. kept = <<>>
      BY <2>1
    <3>2. l + 1 \in 0 .. l + 1 /\ SubSeq(z, l + 2, l + 1) = <<>> /\ l + 1 + 1 = l + 2
      OBVIOUS
    <3> QED BY <3>1, <3>2
  <2>2. CASE ~(entry.bytes > BufferBudgets[kind])
    <3>1. kept = Evict(z, BufferBudgets[kind])
      BY <1>7, <2>2 DEF z
    <3>2. BufferBudgets[kind] \in Nat
      BY BudgetsAssumption
    <3>3. \E m \in 0 .. Len(z) : Evict(z, BufferBudgets[kind]) = SubSeq(z, m + 1, Len(z))
      BY <1>9, <3>2, EvictDoes
    <3> QED BY <1>10, <3>1, <3>3
  <2> QED BY <2>1, <2>2
<1> DEFINE y == SubSeq(z, m + 1, l + 1)
<1>12. /\ y \in Seq(BufferEntries) /\ Len(y) \in Nat
       /\ \A i \in 1 .. Len(y) : y[i] = z[m + i] /\ m + i \in m + 1 .. l + 1
  <2> HIDE DEF z
  <2> QED BY <1>9, <1>10, SuffixIs
<1>13. /\ Sorted(y)
       /\ SortedAcross(z, r) => SortedAcross(y, r)
       /\ SortedAcross(r, z) => SortedAcross(r, y)
  <2> HIDE DEF z
  <2> QED BY <1>9, <1>10, SuffixSorted
<1>14. \A i \in 1 .. Len(y) : y[i].order < b.next + 1 /\ y[i].id \in 1 .. n + 1
  <2>1. \A i \in m + 1 .. l + 1 : i \in 1 .. Len(z)
    <3> HIDE DEF z
    <3> QED BY <1>10
  <2> HIDE DEF z, y
  <2> QED BY <1>9, <1>12, <2>1
<1>15. gap \in BOOLEAN
  OBVIOUS
<1> HIDE DEF z, y, kept, grown, gap
<1>16. c = [b EXCEPT !.queue[kind] = y, !.dropped[kind] = gap, !.next = @ + 1]
  BY <1>1, <1>3, <1>11 DEF gap, y, z
<1> HIDE DEF c
<1>17. /\ c.queue = [b.queue EXCEPT ![kind] = y] /\ c.dropped = [b.dropped EXCEPT ![kind] = gap]
       /\ c.next = b.next + 1 /\ c = [queue |-> c.queue, dropped |-> c.dropped, next |-> c.next]
  BY <1>16 DEF Buffers
<1>18. c.queue[kind] = y /\ c.queue[other] = r
  BY <1>3, <1>5, <1>6, <1>17
<1>19. c.queue \in [QueueKinds -> Seq(BufferEntries)] /\ c.dropped \in Flags /\ c.next \in Nat
  <2>1. c.queue \in [QueueKinds -> Seq(BufferEntries)]
    BY <1>3, <1>12, <1>17
  <2>2. c.dropped \in Flags
    BY <1>3, <1>15, <1>17 DEF Flags
  <2>3. c.next = b.next + 1 /\ b.next \in Nat
    BY <1>3, <1>17
  <2>4. c.next \in Nat
    BY <2>3
  <2> QED BY <2>1, <2>2, <2>4
<1>20. c \in Buffers
  <2>1. [queue |-> c.queue, dropped |-> c.dropped, next |-> c.next] \in Buffers
    BY <1>19 DEF Buffers
  <2> QED BY <1>17, <2>1
<1>21. SortedAcross(c.queue["text"], c.queue["binary"])
  <2>1. SortedAcross(b.queue["text"], b.queue["binary"])
    BY DEF BufferSorted
  <2>2. CASE kind = "text"
    <3>1. other = "binary"
      BY <1>5, <2>2 DEF QueueKinds
    <3> QED BY <1>6, <1>9, <1>13, <1>18, <2>1, <2>2, <3>1
  <2>3. CASE kind = "binary"
    <3>1. other = "text"
      BY <1>5, <2>3 DEF QueueKinds
    <3> QED BY <1>6, <1>9, <1>13, <1>18, <2>1, <2>3, <3>1
  <2> QED BY <2>2, <2>3 DEF QueueKinds
<1>22. BufferSorted(c, n + 1)
  <2>1. \A k \in QueueKinds : Sorted(c.queue[k])
    BY <1>5, <1>8, <1>13, <1>18
  <2>2. \A k \in QueueKinds : \A i \in 1 .. Len(c.queue[k]) :
            c.queue[k][i].order < c.next /\ c.queue[k][i].id \in 1 .. n + 1
    <3>1. ASSUME NEW k \in QueueKinds, NEW held, c.queue[k] = held,
                 \A i \in 1 .. Len(held) :
                     held[i].order < b.next + 1 /\ held[i].id \in 1 .. n + 1
          PROVE  \A i \in 1 .. Len(c.queue[k]) :
                     c.queue[k][i].order < c.next /\ c.queue[k][i].id \in 1 .. n + 1
      BY <1>17, <3>1
    <3>2. ASSUME NEW k \in QueueKinds
          PROVE  c.queue[k] = y \/ c.queue[k] = r
      BY <1>5, <1>18
    <3> QED BY <1>9, <1>14, <3>1, <3>2
  <2> QED BY <1>21, <2>1, <2>2 DEF BufferSorted
<1>23. \A k \in QueueKinds : k # kind => c.queue[k] = b.queue[k]
  BY <1>5, <1>6, <1>18
<1>24. /\ Len(c.queue[kind]) = l + 1 - m /\ m \in Nat /\ m <= l + 1
       /\ \A i \in 1 .. l + 1 - m : c.queue[kind][i] = z[m + i] /\ m + i \in 1 .. l + 1
  <2>1. m \in Nat /\ m <= l + 1 /\ l + 1 \in Nat
    BY <1>6, <1>11
  <2>2. Len(SubSeq(z, m + 1, l + 1)) = l + 1 - m
    BY <1>9, <1>10, <2>1, SuffixIs
  <2>3. Len(y) = l + 1 - m
    BY <2>2 DEF y
  <2>4. \A i \in 1 .. l + 1 - m : m + i \in 1 .. l + 1
    BY <2>1
  <2> QED BY <1>12, <1>18, <2>1, <2>3, <2>4
<1>25. z[l + 1] = entry /\ \A i \in 1 .. l : z[i] = q[i]
  BY <1>4, <1>6 DEF z
<1>26. ASSUME NEW i \in 1 .. l + 1 - m
       PROVE  IF m + i = l + 1
              THEN /\ c.queue[kind][i].id = n + 1 /\ c.queue[kind][i].ack = ack
                   /\ c.queue[kind][i].live
              ELSE m + i \in 1 .. l /\ c.queue[kind][i] = b.queue[kind][m + i]
  <2>1. m + i # l + 1 => m + i \in 1 .. l
    BY <1>24
  <2> QED BY <1>4, <1>6, <1>24, <1>25, <2>1, ZenonT(180)
<1>27. PushedTo(b, c, kind, n, ack)
  BY <1>6, <1>20, <1>22, <1>23, <1>24, <1>26, ZenonT(180) DEF PushedTo
<1>28. c = PushEntry(b, x.kind, n + 1, x.ack, x.bytes)
  BY <1>0, Zenon DEF c
<1> QED BY <1>0, <1>27, <1>28

================================================================================
