-------------------------- MODULE BroadcastsProofs --------------------------
(***************************************************************************)
(* Proofs about how a broadcast is listened to, for any instance: the      *)
(* adapter of one process (InMemoryBroadcast), the loop that consumes what *)
(* arrives (MessageLoop), and a page with its server (PageBroadcast).      *)
(***************************************************************************)
EXTENDS InMemoryBroadcast, MessageLoop, PageBroadcast, OfflineBufferProofs

-----------------------------------------------------------------------------
(***************************************************************************)
(* InMemoryBroadcast, for any listeners, publishes, messages and budget:   *)
(* listeners hear messages in the order of their publishes, seqs ascend    *)
(* with them, and what waits is counted, bounded and due to a timer.       *)
(***************************************************************************)

(* What a queue holds *)

\* An empty queue holds nothing.
LEMMA BytesOfEmpty == Bytes(<<>>) = 0
<1>1. [i \in DOMAIN <<>> |-> <<>>[i].size] = <<>>
  OBVIOUS
<1> QED BY <1>1, SumOfEmpty DEF Bytes

\* A message joins a queue with its size.
LEMMA BytesOfAppend ==
    ASSUME NEW S, NEW q \in Seq(S), NEW m \in S, \A s \in S : s.size \in Nat
    PROVE  Bytes(Append(q, m)) = Bytes(q) + m.size /\ Bytes(q) \in Nat
<1> DEFINE p == Append(q, m)
           a == [i \in DOMAIN q |-> q[i].size]
           b == [i \in DOMAIN p |-> p[i].size]
<1>1. /\ Len(q) \in Nat /\ DOMAIN q = 1 .. Len(q) /\ DOMAIN p = 1 .. Len(q) + 1 /\ p[Len(q) + 1] = m
      /\ \A i \in 1 .. Len(q) : p[i] = q[i] /\ q[i] \in S
  BY AppendProperties, LenProperties, ElementOfSeq
<1>2. a \in Seq(Nat) /\ Len(a) = Len(q) /\ m.size \in Nat
  BY <1>1, IsASeq
<1>3. b \in Seq(Nat) /\ Len(b) = Len(q) + 1
  <2>1. \A i \in 1 .. Len(q) + 1 : p[i].size \in Nat
    BY <1>1
  <2> QED BY <1>1, <2>1, IsASeq
<1>4. b = Append(a, m.size)
  <2>1. /\ Append(a, m.size) \in Seq(Nat) /\ Len(Append(a, m.size)) = Len(q) + 1
        /\ \A i \in 1 .. Len(q) : Append(a, m.size)[i] = a[i]
        /\ Append(a, m.size)[Len(q) + 1] = m.size
    <3> HIDE DEF a
    <3> QED BY <1>2, AppendProperties
  <2>2. \A i \in 1 .. Len(q) + 1 : b[i] = Append(a, m.size)[i]
    BY <1>1, <2>1
  <2> HIDE DEF a, b
  <2> QED BY <1>3, <2>1, <2>2, SeqEqual
<1> QED BY <1>2, <1>4, SumOfAppend DEF Bytes

\* One leaves it with its size.
LEMMA BytesOfTail ==
    ASSUME NEW S, NEW q \in Seq(S), q # <<>>, \A s \in S : s.size \in Nat
    PROVE  Bytes(Tail(q)) = Bytes(q) - Head(q).size /\ Bytes(Tail(q)) \in Nat
<1> DEFINE p == Tail(q)
           a == [i \in DOMAIN q |-> q[i].size]
           b == [i \in DOMAIN p |-> p[i].size]
<1>1. /\ p \in Seq(S) /\ Len(q) \in Nat \ {0} /\ Len(p) = Len(q) - 1
      /\ \A i \in 1 .. Len(q) - 1 : p[i] = q[i + 1] /\ p[i] \in S
      /\ DOMAIN q = 1 .. Len(q) /\ DOMAIN p = 1 .. Len(q) - 1 /\ Head(q) = q[1]
      /\ \A i \in 1 .. Len(q) : q[i] \in S
  <2>1. /\ p \in Seq(S) /\ Len(q) \in Nat \ {0} /\ Len(p) = Len(q) - 1
        /\ \A i \in 1 .. Len(p) : p[i] = q[i + 1]
    BY HeadTailProperties, LenProperties, EmptySeq
  <2>2. (\A i \in 1 .. Len(p) : p[i] \in S) /\ \A i \in 1 .. Len(q) : q[i] \in S
    BY <2>1, ElementOfSeq
  <2>3. Head(q) = q[1] /\ DOMAIN q = 1 .. Len(q) /\ DOMAIN p = 1 .. Len(p)
    BY <2>1, HeadTailProperties, LenProperties
  <2> QED BY <2>1, <2>2, <2>3
<1>2. a \in Seq(Nat) /\ Len(a) = Len(q) /\ a[1] = q[1].size
  BY <1>1, IsASeq
<1>3. b \in Seq(Nat) /\ Len(b) = Len(q) - 1
  BY <1>1, IsASeq
<1>4. b = Tail(a) /\ Head(a) = q[1].size /\ a # <<>>
  <2>1. a # <<>>
    BY <1>1, <1>2
  <2>2. /\ Tail(a) \in Seq(Nat) /\ Len(Tail(a)) = Len(q) - 1 /\ Head(a) = a[1]
        /\ \A i \in 1 .. Len(q) - 1 : Tail(a)[i] = a[i + 1]
    <3> HIDE DEF a
    <3> QED BY <1>2, <2>1, HeadTailProperties
  <2>3. \A i \in 1 .. Len(q) - 1 : b[i] = Tail(a)[i]
    BY <1>1, <2>2
  <2>4. b = Tail(a)
    <3> HIDE DEF a, b
    <3> QED BY <1>1, <1>3, <2>2, <2>3, SeqEqual
  <2> QED BY <1>2, <2>1, <2>2, <2>4
<1> QED BY <1>1, <1>2, <1>4, SumOfTail DEF Bytes

-----------------------------------------------------------------------------
(* The state *)

Messages == [id : Ids, place : Places, size : use.sizes, within : 0 .. use.publishes]

Adapters ==
    [subs : [Places -> Seq(UseListeners)], keySeqs : [Keys -> Nat], highestSeq : Nat,
     queued : Seq(Messages), queuedBytes : Nat, delivering : BOOLEAN, publishesSinceTurn : Nat,
     holding : BOOLEAN, holdSoon : BOOLEAN, timers : Nat]

Turns ==
    [doing : {"nothing", "publish", "drain"}, msg : 0 .. use.publishes,
     place : [key : Keys \cup {"none"}, kind : Kinds], at : Nat, live : BOOLEAN, called : BOOLEAN,
     left : Nat, held : Seq(Messages)]

Receipts == [key : Keys \cup {"none"}, seq : Nat, within : 0 .. use.publishes]

\* The type of every variable, and what the run's fields are together.
TypesHold ==
    /\ use \in AdapterUses
    /\ adapter \in Adapters
    /\ turn \in Turns
    /\ calls \in 0 .. use.publishes
    /\ receipts \in [Ids -> Receipts]
    /\ hearings \in [UseListeners -> Seq(Ids)]

TurnHolds ==
    /\ adapter.delivering = (turn.doing # "nothing")
    /\ turn.doing = "nothing" => turn = Idle
    /\ turn.doing # "nothing" => turn.place \in Places
    /\ turn.doing = "publish" => turn.left = 0 /\ turn.held = <<>>
    /\ turn.left <= Len(adapter.queued)
    /\ Len(turn.held) <= 1

-----------------------------------------------------------------------------
(* What waits may be delivered next *)

IsDelivered(i) == receipts[i].seq > 0

\* m waits, and may follow what was delivered; n may follow m.
Waits(m, c) ==
    /\ m.id <= c /\ ~IsDelivered(m.id)
    /\ \A d \in Ids : IsDelivered(d) /\ m.id < d => receipts[d].within = m.id
MayFollow(n, m) == n.id # m.id /\ (n.id < m.id => m.within = n.id)

\* The queue, and after it the message held, may be delivered in order, c publishes called.
InOrder(queue, held, c) ==
    /\ \A i \in DOMAIN queue :
          /\ Waits(queue[i], c)
          /\ \A j \in DOMAIN queue : i < j => MayFollow(queue[j], queue[i])
    /\ \A k \in DOMAIN held :
          /\ Waits(held[k], c)
          /\ \A i \in DOMAIN queue : MayFollow(held[k], queue[i])

\* The counters are past the seqs they gave; a key that has one has a subscriber.
Counters(a, c) ==
    /\ \A d \in Ids : IsDelivered(d) =>
          /\ d <= c /\ receipts[d].key \in Keys /\ receipts[d].seq <= a.highestSeq
          /\ a.keySeqs[receipts[d].key] > 0 => receipts[d].seq <= a.keySeqs[receipts[d].key]
    /\ \A k \in Keys : a.keySeqs[k] <= a.highestSeq
    /\ \A k \in Keys : a.keySeqs[k] > 0 => HasSubscriber(a, k)

\* The message a run delivers may follow all that were.
Latest(t) ==
    t.doing # "nothing" =>
        /\ t.msg \in Ids /\ IsDelivered(t.msg)
        /\ \A d \in Ids : IsDelivered(d) => ~CalledBefore(t.msg, d)

HeardIsDelivered == \A l \in UseListeners : \A i \in DOMAIN hearings[l] : IsDelivered(hearings[l][i])

\* What waits is bounded: within the budget but for the message a drain's end let in, and what its
\* listeners published since is.
Bounded(bytes, isAll) ==
    Largest <= use.budget => bytes <= use.budget + Largest /\ (isAll \/ bytes <= use.budget)

BoundHolds ==
    /\ Bounded(adapter.queuedBytes, turn.doing = "nothing" \/ (turn.doing = "drain"
                                                                /\ turn.left = Len(adapter.queued)))

\* What a timer is for, has one.
TimersHold ==
    /\ adapter.holdSoon \/ adapter.holding \/ turn.held # <<>> => adapter.timers > 0
    /\ turn.doing = "nothing" /\ adapter.queued # <<>> => adapter.timers > 0
    /\ turn.doing # "nothing" => ~adapter.holding

OrderHolds ==
    /\ InOrder(adapter.queued, turn.held, calls)
    /\ Counters(adapter, calls) /\ SeqsAscend
    /\ Latest(turn) /\ HeardIsDelivered /\ HeardInCallOrder

\* The inductive invariant.
AdapterInv ==
    /\ TypesHold /\ TurnHolds
    /\ adapter.queuedBytes = Bytes(adapter.queued)
    /\ BoundHolds /\ TimersHold /\ OrderHolds

-----------------------------------------------------------------------------
(* Facts about them *)

\* What the constants' assumption says of the use.
LEMMA UseFacts ==
    ASSUME use \in AdapterUses
    PROVE  /\ use.budget \in Nat /\ use.between \in Nat /\ use.publishes \in Nat
           /\ use.toggles \in Nat
           /\ \A s \in use.sizes : s \in Nat \ {0} /\ s <= Largest
           /\ Largest \in Nat
           /\ \A l \in UseListeners : use.listensTo[l] \in Places
           /\ \A p \in Places : p.key \in Keys /\ p.kind \in Kinds /\ Place(p.key, p.kind) = p
           /\ \A m \in Messages : m.size \in Nat
<1>1. PICK s \in use.sizes : \A t \in use.sizes : t <= s
  BY AdapterUsesAssumption
<1>2. Largest \in use.sizes /\ \A t \in use.sizes : t <= Largest
  BY <1>1 DEF Largest
<1>3. \A t \in use.sizes : t \in Nat \ {0}
  BY AdapterUsesAssumption
<1>4. \A l \in UseListeners : use.listensTo[l] \in Places
  <2>1. SUFFICES ASSUME NEW l \in UseListeners PROVE use.listensTo[l] \in Places
    OBVIOUS
  <2>2. use.listensTo[l] \in [key : Keys, kind : Kinds]
    BY AdapterUsesAssumption DEF Keys, UseListeners, Kinds
  <2>3. use.listensTo[l] = Place(use.listensTo[l].key, use.listensTo[l].kind)
    BY <2>2 DEF Place
  <2> QED BY <2>2, <2>3 DEF Places
<1>5. \A p \in Places : p.key \in Keys /\ p.kind \in Kinds /\ Place(p.key, p.kind) = p
  BY DEF Places, Place
<1>6. \A m \in Messages : m.size \in Nat
  BY <1>3 DEF Messages
<1>7. use.budget \in Nat /\ use.between \in Nat /\ use.publishes \in Nat /\ use.toggles \in Nat
  BY AdapterUsesAssumption
<1> QED BY <1>2, <1>3, <1>4, <1>5, <1>6, <1>7

\* The sets named are those of the use.
LEMMA SameUse ==
    ASSUME use' = use
    PROVE  /\ Ids' = Ids /\ Keys' = Keys /\ Places' = Places /\ UseListeners' = UseListeners
           /\ Messages' = Messages /\ Adapters' = Adapters /\ Turns' = Turns /\ Receipts' = Receipts
           /\ Largest' = Largest
<1>1. Ids' = Ids /\ UseListeners' = UseListeners /\ Largest' = Largest
  BY DEF Ids, UseListeners, Largest
<1>2. Keys' = Keys
  BY <1>1 DEF Keys
<1>3. Places' = Places
  BY <1>2 DEF Places
<1>4. Messages' = Messages /\ Receipts' = Receipts
  BY <1>1, <1>2, <1>3 DEF Messages, Receipts
<1> QED BY <1>1, <1>2, <1>3, <1>4 DEF Adapters, Turns

\* A queue's entries, as it loses its head.
LEMMA QueueFacts ==
    ASSUME use \in AdapterUses, NEW q \in Seq(Messages)
    PROVE  /\ Len(q) \in Nat /\ DOMAIN q = 1 .. Len(q) /\ \A i \in DOMAIN q : q[i] \in Messages
           /\ Len(q) = 0 <=> q = <<>>
           /\ q # <<>> => /\ Head(q) = q[1] /\ Head(q) \in Messages /\ Tail(q) \in Seq(Messages)
                          /\ Len(Tail(q)) = Len(q) - 1
                          /\ \A i \in 1 .. Len(q) - 1 : Tail(q)[i] = q[i + 1]
                          /\ Bytes(Tail(q)) = Bytes(q) - Head(q).size /\ Bytes(Tail(q)) \in Nat
           /\ Bytes(<<>>) = 0
<1>1. \A m \in Messages : m.size \in Nat
  BY UseFacts
<1>2. Len(q) \in Nat /\ DOMAIN q = 1 .. Len(q) /\ \A i \in DOMAIN q : q[i] \in Messages
  BY LenProperties, ElementOfSeq
<1>3. Len(q) = 0 <=> q = <<>>
  BY EmptySeq
<1>4. ASSUME q # <<>>
      PROVE  /\ Head(q) = q[1] /\ Head(q) \in Messages /\ Tail(q) \in Seq(Messages)
             /\ Len(Tail(q)) = Len(q) - 1 /\ \A i \in 1 .. Len(q) - 1 : Tail(q)[i] = q[i + 1]
             /\ Bytes(Tail(q)) = Bytes(q) - Head(q).size /\ Bytes(Tail(q)) \in Nat
  <2>1. Bytes(Tail(q)) = Bytes(q) - Head(q).size /\ Bytes(Tail(q)) \in Nat
    BY <1>1, <1>4, BytesOfTail
  <2>2. /\ Head(q) = q[1] /\ Head(q) \in Messages /\ Tail(q) \in Seq(Messages)
        /\ Len(Tail(q)) = Len(q) - 1 /\ \A i \in 1 .. Len(Tail(q)) : Tail(q)[i] = q[i + 1]
    BY <1>4, HeadTailProperties
  <2> QED BY <2>1, <2>2
<1> QED BY <1>2, <1>3, <1>4, BytesOfEmpty

\* A message joins the queue.
LEMMA PushFacts ==
    ASSUME use \in AdapterUses, NEW a \in Adapters, NEW m \in Messages,
           a.queuedBytes = Bytes(a.queued)
    PROVE  /\ Push(a, m) \in Adapters
           /\ Push(a, m).queued = Append(a.queued, m)
           /\ Push(a, m).queuedBytes = a.queuedBytes + m.size
           /\ Push(a, m).queuedBytes = Bytes(Push(a, m).queued)
           /\ Push(a, m).subs = a.subs /\ Push(a, m).keySeqs = a.keySeqs
           /\ Push(a, m).highestSeq = a.highestSeq /\ Push(a, m).delivering = a.delivering
           /\ Push(a, m).holding = a.holding /\ Push(a, m).holdSoon = a.holdSoon
           /\ Push(a, m).timers = a.timers
           /\ Len(Append(a.queued, m)) = Len(a.queued) + 1 /\ Append(a.queued, m) # <<>>
           /\ \A i \in 1 .. Len(a.queued) : Append(a.queued, m)[i] = a.queued[i]
           /\ Append(a.queued, m)[Len(a.queued) + 1] = m
<1>1. a.queued \in Seq(Messages) /\ m.size \in Nat /\ \A n \in Messages : n.size \in Nat
  BY UseFacts DEF Adapters
<1>2. /\ Append(a.queued, m) \in Seq(Messages) /\ Len(Append(a.queued, m)) = Len(a.queued) + 1
      /\ \A i \in 1 .. Len(a.queued) : Append(a.queued, m)[i] = a.queued[i]
      /\ Append(a.queued, m)[Len(a.queued) + 1] = m /\ Append(a.queued, m) # <<>>
  BY <1>1, AppendProperties
<1>3. Bytes(Append(a.queued, m)) = Bytes(a.queued) + m.size
  BY <1>1, BytesOfAppend
<1>4. a.queuedBytes + m.size \in Nat
  BY <1>1 DEF Adapters
<1>5. /\ Push(a, m) \in Adapters
      /\ Push(a, m).queued = Append(a.queued, m) /\ Push(a, m).queuedBytes = a.queuedBytes + m.size
      /\ Push(a, m).subs = a.subs /\ Push(a, m).keySeqs = a.keySeqs
      /\ Push(a, m).highestSeq = a.highestSeq /\ Push(a, m).delivering = a.delivering
      /\ Push(a, m).holding = a.holding /\ Push(a, m).holdSoon = a.holdSoon
      /\ Push(a, m).timers = a.timers
  BY <1>2, <1>4 DEF Push, Adapters
<1> QED BY <1>2, <1>3, <1>5

\* The newest message joins the queue last, from a listener of a drain or not.
LEMMA NewestJoins ==
    ASSUME use \in AdapterUses, NEW q \in Seq(Messages), NEW p \in Seq(Messages),
           NEW h \in Seq(Messages),
           NEW c \in Nat, NEW m \in Messages, m.id = c + 1,
           InOrder(q, h, c), \A d \in Ids : IsDelivered(d) => d <= c,
           receipts \in [Ids -> Receipts],
           \A k \in DOMAIN h : m.within = h[k].id,
           Len(p) = Len(q) + 1, \A i \in 1 .. Len(q) : p[i] = q[i], p[Len(q) + 1] = m
    PROVE  InOrder(p, h, c + 1)
<1>1. DOMAIN p = 1 .. Len(q) + 1 /\ DOMAIN q = 1 .. Len(q) /\ Len(q) \in Nat
  BY LenProperties
<1>2. \A n \in Messages : n.id \in Nat \ {0}
  <2>1. Ids \subseteq Nat \ {0}
    BY UseFacts, SMTT(180) DEF Ids
  <2> QED BY <2>1 DEF Messages
<1>3. (\A i \in DOMAIN q : q[i] \in Messages) /\ (\A i \in DOMAIN h : h[i] \in Messages)
  BY ElementOfSeq, LenProperties
<1>4. \A n \in Messages : Waits(n, c) => Waits(n, c + 1)
  BY <1>2 DEF Waits
<1>5. Waits(m, c + 1)
  <2>1. m.id \in Ids /\ ~IsDelivered(m.id)
    BY DEF Messages
  <2>2. \A d \in Ids : IsDelivered(d) => ~(m.id < d)
    BY UseFacts DEF Ids
  <2> QED BY <2>1, <2>2 DEF Waits
<1>6. \A n \in Messages : Waits(n, c) => MayFollow(m, n)
  BY <1>2 DEF Waits, MayFollow
<1>7. \A k \in DOMAIN h : MayFollow(h[k], m)
  <2>1. SUFFICES ASSUME NEW k \in DOMAIN h PROVE MayFollow(h[k], m)
    OBVIOUS
  <2>2. Waits(h[k], c)
    BY DEF InOrder
  <2> QED BY <1>2, <1>3, <2>2 DEF Waits, MayFollow
<1>8. ASSUME NEW i \in DOMAIN p
      PROVE  /\ Waits(p[i], c + 1) /\ \A j \in DOMAIN p : i < j => MayFollow(p[j], p[i])
             /\ \A k \in DOMAIN h : MayFollow(h[k], p[i])
  <2>1. CASE i = Len(q) + 1
    BY <1>1, <1>5, <1>7, <2>1
  <2>2. CASE i # Len(q) + 1
    <3>1. i \in DOMAIN q /\ p[i] = q[i] /\ q[i] \in Messages /\ Waits(q[i], c)
      BY <1>1, <1>3, <2>2 DEF InOrder
    <3>2. ASSUME NEW j \in DOMAIN p, i < j PROVE MayFollow(p[j], q[i])
      <4>1. CASE j = Len(q) + 1
        BY <1>6, <3>1, <4>1
      <4>2. CASE j # Len(q) + 1
        <5>1. j \in DOMAIN q /\ p[j] = q[j]
          BY <1>1, <4>2
        <5> QED BY <3>1, <3>2, <5>1 DEF InOrder
      <4> QED BY <4>1, <4>2
    <3> QED BY <1>4, <3>1, <3>2 DEF InOrder
  <2> QED BY <2>1, <2>2
<1>9. \A k \in DOMAIN h : Waits(h[k], c + 1)
  BY <1>3, <1>4 DEF InOrder
<1> QED BY <1>8, <1>9 DEF InOrder

\* The message held joins the queue as its drain ends.
LEMMA HeldJoins ==
    ASSUME use \in AdapterUses, NEW q \in Seq(Messages), NEW p \in Seq(Messages),
           NEW h \in Seq(Messages),
           NEW c \in Nat, InOrder(q, h, c), Len(h) = 1,
           Len(p) = Len(q) + 1, \A i \in 1 .. Len(q) : p[i] = q[i], p[Len(q) + 1] = h[1]
    PROVE  InOrder(p, <<>>, c)
<1>1. DOMAIN p = 1 .. Len(q) + 1 /\ DOMAIN q = 1 .. Len(q) /\ Len(q) \in Nat /\ DOMAIN h = 1 .. 1
  BY LenProperties
<1>2. Waits(h[1], c) /\ \A i \in DOMAIN q : MayFollow(h[1], q[i])
  BY <1>1 DEF InOrder
<1>3. ASSUME NEW i \in DOMAIN p
      PROVE  Waits(p[i], c) /\ \A j \in DOMAIN p : i < j => MayFollow(p[j], p[i])
  <2>1. CASE i = Len(q) + 1
    BY <1>1, <1>2, <2>1
  <2>2. CASE i # Len(q) + 1
    <3>1. i \in DOMAIN q /\ p[i] = q[i]
      BY <1>1, <2>2
    <3>2. ASSUME NEW j \in DOMAIN p, i < j PROVE MayFollow(p[j], q[i])
      <4>1. CASE j = Len(q) + 1
        BY <1>2, <3>1, <4>1
      <4>2. CASE j # Len(q) + 1
        <5>1. j \in DOMAIN q /\ p[j] = q[j]
          BY <1>1, <4>2
        <5> QED BY <3>1, <3>2, <5>1 DEF InOrder
      <4> QED BY <4>1, <4>2
    <3> QED BY <3>1, <3>2 DEF InOrder
  <2> QED BY <2>1, <2>2
<1> QED BY <1>3 DEF InOrder

-----------------------------------------------------------------------------
(* A delivery *)

\* What a delivery needs of what waits, and leaves of it.
LEMMA DeliverStep ==
    ASSUME TypesHold, use' = use, hearings' = hearings,
           NEW c \in 0 .. use.publishes, calls' = c, NEW a \in Adapters, NEW r \in Turns,
           NEW m \in Messages, Waits(m, c), InOrder(a.queued, r.held, c),
           \A i \in DOMAIN a.queued : MayFollow(a.queued[i], m),
           \A k \in DOMAIN r.held : MayFollow(r.held[k], m),
           Counters(a, c), SeqsAscend, HeardIsDelivered, HeardInCallOrder,
           r.doing # "nothing", Deliver(a, r, m)
    PROVE  /\ TypesHold' /\ OrderHolds'
           /\ adapter'.queued = a.queued /\ adapter'.queuedBytes = a.queuedBytes
           /\ adapter'.delivering = TRUE /\ adapter'.holding = a.holding
           /\ adapter'.holdSoon = a.holdSoon /\ adapter'.timers = a.timers
           /\ turn'.doing = r.doing /\ turn'.left = r.left /\ turn'.held = r.held
           /\ turn'.place \in Places
<1> DEFINE key == m.place.key
           seq == NextSeqOf(a, key)
<1>1. /\ key \in Keys /\ m.place \in Places /\ m.id \in Ids /\ m.within \in 0 .. use.publishes
      /\ a.keySeqs \in [Keys -> Nat] /\ a.highestSeq \in Nat
  BY UseFacts DEF TypesHold, Messages, Adapters
<1>2. seq \in Nat \ {0} /\ seq > a.keySeqs[key]
  BY <1>1 DEF NextSeqOf, Counters
<1>3. /\ adapter' = [a EXCEPT !.delivering = TRUE,
                              !.highestSeq = IF seq > @ THEN seq ELSE @,
                              !.keySeqs[key] = IF HasSubscriber(a, key) THEN seq ELSE @]
      /\ turn' = [r EXCEPT !.msg = m.id, !.place = m.place, !.at = 0, !.called = FALSE,
                           !.live = a.subs[m.place] # <<>>]
      /\ receipts' = [receipts EXCEPT ![m.id] = [key |-> key, seq |-> seq, within |-> m.within]]
  BY DEF Deliver
<1>4. /\ adapter' \in Adapters
      /\ adapter'.queued = a.queued /\ adapter'.queuedBytes = a.queuedBytes
      /\ adapter'.delivering = TRUE /\ adapter'.holding = a.holding
      /\ adapter'.holdSoon = a.holdSoon /\ adapter'.timers = a.timers /\ adapter'.subs = a.subs
      /\ adapter'.highestSeq = (IF seq > a.highestSeq THEN seq ELSE a.highestSeq)
      /\ adapter'.keySeqs = [a.keySeqs EXCEPT ![key] = IF HasSubscriber(a, key) THEN seq ELSE @]
  <2> HIDE DEF seq, key
  <2>1. [a.keySeqs EXCEPT ![key] = IF HasSubscriber(a, key) THEN seq ELSE @] \in [Keys -> Nat]
    BY <1>1, <1>2
  <2> QED BY <1>1, <1>2, <1>3, <2>1 DEF Adapters
<1>5. /\ turn' \in Turns /\ turn'.doing = r.doing /\ turn'.left = r.left /\ turn'.held = r.held
      /\ turn'.place = m.place /\ turn'.msg = m.id
  <2>1. m.place \in [key : Keys \cup {"none"}, kind : Kinds] /\ m.id \in 0 .. use.publishes
    BY <1>1, UseFacts, SMTT(180) DEF TypesHold, Places, Place, Ids
  <2> QED BY <1>3, <2>1 DEF Turns
<1>6. receipts' \in [Ids -> Receipts]
  BY <1>1, <1>2, <1>3 DEF TypesHold, Receipts
<1>7. TypesHold'
  BY <1>4, <1>5, <1>6, SameUse DEF TypesHold
<1>8. /\ receipts'[m.id].key = key /\ receipts'[m.id].seq = seq /\ receipts'[m.id].within = m.within
      /\ \A d \in Ids : d # m.id => receipts'[d] = receipts[d]
  BY <1>1, <1>3 DEF TypesHold
<1>9. /\ \A d \in Ids : IsDelivered(d)' <=> (IsDelivered(d) \/ d = m.id)
      /\ ~IsDelivered(m.id) /\ IsDelivered(m.id)'
  BY <1>1, <1>2, <1>8 DEF IsDelivered, Waits
<1>10. \A n \in Messages : Waits(n, c) /\ MayFollow(n, m) => Waits(n, c)'
  <2>1. SUFFICES ASSUME NEW n \in Messages, Waits(n, c), MayFollow(n, m) PROVE Waits(n, c)'
    OBVIOUS
  <2>2. n.id \in Ids /\ n.id # m.id
    BY <2>1 DEF Messages, MayFollow
  <2>3. ASSUME NEW d \in Ids, IsDelivered(d)', n.id < d PROVE receipts'[d].within = n.id
    <3>1. CASE d = m.id
      BY <1>8, <2>1, <2>3, <3>1 DEF MayFollow
    <3>2. CASE d # m.id
      BY <1>8, <1>9, <2>1, <2>3, <3>2 DEF Waits
    <3> QED BY <3>1, <3>2
  <2>4. Ids' = Ids /\ ~IsDelivered(n.id)'
    BY <1>9, <2>1, <2>2, SameUse DEF Waits
  <2> QED BY <2>1, <2>3, <2>4 DEF Waits
<1>11. InOrder(adapter.queued, turn.held, calls)'
  <2>1. \A i \in DOMAIN a.queued : a.queued[i] \in Messages
    BY QueueFacts DEF TypesHold, Adapters
  <2>2. \A k \in DOMAIN r.held : r.held[k] \in Messages
    BY QueueFacts DEF TypesHold, Turns
  <2>3. InOrder(a.queued, r.held, c)'
    BY <1>10, <2>1, <2>2 DEF InOrder, MayFollow
  <2> QED BY <1>4, <1>5, <2>3
<1>12. Counters(adapter, calls)'
  <2>1. ASSUME NEW d \in Ids, IsDelivered(d)'
        PROVE  /\ d <= c /\ receipts'[d].key \in Keys /\ receipts'[d].seq <= adapter'.highestSeq
               /\ adapter'.keySeqs[receipts'[d].key] > 0
                    => receipts'[d].seq <= adapter'.keySeqs[receipts'[d].key]
    <3>1. CASE d = m.id
      <4>1. d <= c /\ receipts'[d].key = key /\ receipts'[d].seq = seq
        BY <1>8, <3>1 DEF Waits
      <4>2. seq <= adapter'.highestSeq
        BY <1>1, <1>2, <1>4
      <4>3. ~HasSubscriber(a, key) => a.keySeqs[key] = 0
        BY <1>1 DEF Counters
      <4>4. adapter'.keySeqs[key] > 0 => seq <= adapter'.keySeqs[key]
        <5> HIDE DEF seq, key
        <5> QED BY <1>1, <1>2, <1>4, <4>3
      <4> QED BY <1>1, <4>1, <4>2, <4>4
    <3>2. CASE d # m.id
      <4>1. IsDelivered(d) /\ receipts'[d] = receipts[d]
        BY <1>8, <1>9, <2>1, <3>2
      <4>2. d <= c /\ receipts[d].key \in Keys /\ receipts[d].seq <= a.highestSeq
            /\ (a.keySeqs[receipts[d].key] > 0 => receipts[d].seq <= a.keySeqs[receipts[d].key])
            /\ receipts[d].seq \in Nat
        BY <4>1 DEF Counters, TypesHold, Receipts
      <4>3. receipts[d].seq <= adapter'.highestSeq
        <5> HIDE DEF seq
        <5> QED BY <1>1, <1>2, <1>4, <4>2
      <4>4. adapter'.keySeqs[receipts[d].key] > 0
              => receipts[d].seq <= adapter'.keySeqs[receipts[d].key]
        <5>1. CASE receipts[d].key = key /\ HasSubscriber(a, key)
          <6>1. adapter'.keySeqs[key] = seq
            BY <1>1, <1>4, <5>1
          <6>2. seq = (IF a.keySeqs[key] > 0 THEN a.keySeqs[key] ELSE a.highestSeq) + 1
            BY DEF NextSeqOf
          <6>3. receipts[d].seq <= seq
            <7> HIDE DEF seq, key
            <7> QED BY <1>1, <4>2, <5>1, <6>2
          <6> QED BY <5>1, <6>1, <6>3
        <5>2. CASE ~(receipts[d].key = key /\ HasSubscriber(a, key))
          <6>1. adapter'.keySeqs[receipts[d].key] = a.keySeqs[receipts[d].key]
            BY <1>1, <1>4, <4>2, <5>2
          <6> QED BY <4>2, <6>1
        <5> QED BY <5>1, <5>2
      <4> QED BY <4>1, <4>2, <4>3, <4>4
    <3> QED BY <3>1, <3>2
  <2>2. ASSUME NEW k \in Keys
        PROVE  /\ adapter'.keySeqs[k] <= adapter'.highestSeq
               /\ adapter'.keySeqs[k] > 0 => HasSubscriber(a, k)
    <3>1. /\ a.keySeqs[k] <= a.highestSeq /\ a.keySeqs[k] \in Nat
          /\ a.keySeqs[k] > 0 => HasSubscriber(a, k)
      BY <1>1 DEF Counters
    <3> HIDE DEF seq, key
    <3> QED BY <1>1, <1>2, <1>4, <3>1
  <2>3. \A k \in Keys : HasSubscriber(adapter, k)' <=> HasSubscriber(a, k)
    BY <1>4 DEF HasSubscriber
  <2> QED BY <2>1, <2>2, <2>3, SameUse DEF Counters
<1>13. SeqsAscend'
  <2>1. SUFFICES ASSUME NEW i \in Ids, NEW j \in Ids,
                        CalledBefore(i, j)', receipts'[i].key = receipts'[j].key,
                        receipts'[i].seq > 0, receipts'[j].seq > 0
                 PROVE  receipts'[i].seq < receipts'[j].seq
    BY SameUse DEF SeqsAscend
  <2>2. i # j /\ i \in Int /\ j \in Int
    BY <2>1 DEF CalledBefore, Ids
  <2>3. CASE i = m.id
    <3>1. IsDelivered(j) /\ receipts'[j] = receipts[j]
      BY <1>8, <1>9, <2>1, <2>2, <2>3 DEF IsDelivered
    <3>2. m.id < j /\ receipts[j].within # m.id
      BY <2>1, <2>3, <3>1 DEF CalledBefore
    <3> QED BY <3>1, <3>2 DEF Waits
  <2>4. CASE j = m.id
    <3>1. IsDelivered(i) /\ receipts'[i] = receipts[i] /\ receipts[i].key = key
      BY <1>8, <1>9, <2>1, <2>2, <2>4 DEF IsDelivered
    <3>2. receipts[i].seq <= a.highestSeq /\ receipts[i].seq \in Nat
          /\ (a.keySeqs[key] > 0 => receipts[i].seq <= a.keySeqs[key])
      BY <3>1 DEF Counters, TypesHold, Receipts
    <3>3. seq = (IF a.keySeqs[key] > 0 THEN a.keySeqs[key] ELSE a.highestSeq) + 1
      BY DEF NextSeqOf
    <3>4. receipts[i].seq < seq
      <4> HIDE DEF seq, key
      <4> QED BY <1>1, <3>2, <3>3
    <3> QED BY <1>8, <2>4, <3>1, <3>4
  <2>5. CASE i # m.id /\ j # m.id
    <3>1. receipts'[i] = receipts[i] /\ receipts'[j] = receipts[j]
      BY <1>8, <2>5
    <3> QED BY <2>1, <3>1 DEF SeqsAscend, CalledBefore
  <2> QED BY <2>3, <2>4, <2>5
<1>14. Latest(turn)'
  <2>1. ASSUME NEW d \in Ids, IsDelivered(d)' PROVE ~CalledBefore(m.id, d)'
    <3>1. CASE d = m.id
      BY <1>1, <3>1 DEF CalledBefore, Ids
    <3>2. CASE d # m.id
      BY <1>8, <1>9, <2>1, <3>2 DEF CalledBefore, Waits
    <3> QED BY <3>1, <3>2
  <2> QED BY <1>1, <1>5, <1>9, <2>1, SameUse DEF Latest
<1>15. ASSUME NEW l \in UseListeners, NEW i \in DOMAIN hearings[l]
       PROVE  /\ hearings[l][i] \in Ids /\ IsDelivered(hearings[l][i])'
              /\ receipts'[hearings[l][i]] = receipts[hearings[l][i]]
  <2>1. hearings[l][i] \in Ids /\ IsDelivered(hearings[l][i])
    BY ElementOfSeq, LenProperties DEF HeardIsDelivered, TypesHold
  <2> QED BY <1>8, <1>9, <2>1
<1>16. HeardIsDelivered'
  BY <1>15, SameUse DEF HeardIsDelivered
<1>17. HeardInCallOrder'
  BY <1>15, SameUse DEF HeardInCallOrder, CalledBefore
<1> QED BY <1>1, <1>4, <1>5, <1>7, <1>11, <1>12, <1>13, <1>14, <1>16, <1>17 DEF OrderHolds

-----------------------------------------------------------------------------
(* A drain *)

\* What a drain of `left` messages needs of the adapter and the run.
CanDrain(a, r, left, c) ==
    /\ a \in Adapters /\ r \in Turns /\ left \in Nat /\ left <= Len(a.queued) /\ Len(r.held) <= 1
    /\ a.queuedBytes = Bytes(a.queued) /\ Bounded(a.queuedBytes, left = Len(a.queued))
    /\ a.holdSoon \/ r.held # <<>> => a.timers > 0
    /\ InOrder(a.queued, r.held, c) /\ Counters(a, c)

\* A drain that goes on delivers the message that waited longest.
LEMMA DrainGoesOn ==
    ASSUME TypesHold, use' = use, hearings' = hearings,
           NEW c \in 0 .. use.publishes, calls' = c, NEW a, NEW r, NEW left, CanDrain(a, r, left,
           c),
           SeqsAscend, HeardIsDelivered, HeardInCallOrder,
           NEW more \in Nat \ {0}, more = left \/ more = Len(a.queued),
           Deliver([[a EXCEPT !.delivering = FALSE, !.holding = FALSE]
                        EXCEPT !.queued = Tail(@), !.queuedBytes = @ - Head(a.queued).size],
                   [r EXCEPT !.doing = "drain", !.left = more - 1], Head(a.queued))
    PROVE  AdapterInv'
<1> DEFINE m == Head(a.queued)
           b == [[a EXCEPT !.delivering = FALSE, !.holding = FALSE]
                    EXCEPT !.queued = Tail(@), !.queuedBytes = @ - m.size]
           t == [r EXCEPT !.doing = "drain", !.left = more - 1]
<1>1. /\ a \in Adapters /\ r \in Turns /\ a.queued \in Seq(Messages) /\ left <= Len(a.queued)
      /\ Len(a.queued) \in Nat /\ a.queued # <<>> /\ more <= Len(a.queued)
  BY EmptySeq, LenProperties, SMTT(180) DEF CanDrain, Adapters
<1>2. /\ m = a.queued[1] /\ m \in Messages /\ Tail(a.queued) \in Seq(Messages)
      /\ Len(Tail(a.queued)) = Len(a.queued) - 1
      /\ \A i \in 1 .. Len(a.queued) - 1 : Tail(a.queued)[i] = a.queued[i + 1]
      /\ Bytes(Tail(a.queued)) = a.queuedBytes - m.size /\ Bytes(Tail(a.queued)) \in Nat
      /\ DOMAIN a.queued = 1 .. Len(a.queued)
      /\ DOMAIN Tail(a.queued) = 1 .. Len(a.queued) - 1
  BY <1>1, QueueFacts, LenProperties DEF CanDrain, TypesHold
<1>3. /\ b \in Adapters /\ b.queued = Tail(a.queued) /\ b.queuedBytes = a.queuedBytes - m.size
      /\ b.holding = FALSE /\ b.holdSoon = a.holdSoon /\ b.timers = a.timers
      /\ b.keySeqs = a.keySeqs /\ b.highestSeq = a.highestSeq /\ b.subs = a.subs
  <2>1. a.queuedBytes - m.size \in Nat
    BY <1>2
  <2> HIDE DEF m
  <2> QED BY <1>1, <1>2, <2>1 DEF Adapters
<1>4. /\ t \in Turns /\ t.doing = "drain" /\ t.left = more - 1 /\ t.held = r.held
  <2>1. r \in Turns /\ more - 1 \in Nat
    BY <1>1
  <2> QED BY <2>1 DEF Turns
<1>5. InOrder(b.queued, t.held, c)
  <2>1. \A i \in DOMAIN Tail(a.queued) :
           /\ i \in Nat /\ i + 1 \in DOMAIN a.queued /\ Tail(a.queued)[i] = a.queued[i + 1]
    BY <1>1, <1>2
  <2>2. InOrder(a.queued, r.held, c)
    BY DEF CanDrain
  <2>3. ASSUME NEW i \in DOMAIN Tail(a.queued)
        PROVE  /\ Waits(Tail(a.queued)[i], c)
               /\ \A j \in DOMAIN Tail(a.queued) : i < j => MayFollow(Tail(a.queued)[j], Tail(a.queued)[i])
               /\ \A k \in DOMAIN r.held : MayFollow(r.held[k], Tail(a.queued)[i])
    <3>1. ASSUME NEW j \in DOMAIN Tail(a.queued), i < j
          PROVE MayFollow(Tail(a.queued)[j], Tail(a.queued)[i])
      <4>1. i + 1 < j + 1
        BY <2>1, <3>1
      <4> QED BY <2>1, <2>2, <4>1 DEF InOrder
    <3> QED BY <2>1, <2>2, <3>1 DEF InOrder
  <2>4. \A k \in DOMAIN r.held : Waits(r.held[k], c)
    BY <2>2 DEF InOrder
  <2> QED BY <1>3, <1>4, <2>3, <2>4 DEF InOrder
<1>6. Waits(m, c) /\ (\A i \in DOMAIN b.queued : MayFollow(b.queued[i], m))
      /\ (\A k \in DOMAIN t.held : MayFollow(t.held[k], m))
  <2>1. 1 \in DOMAIN a.queued /\ InOrder(a.queued, r.held, c)
    BY <1>1, <1>2 DEF CanDrain
  <2>2. ASSUME NEW i \in DOMAIN Tail(a.queued) PROVE MayFollow(Tail(a.queued)[i], m)
    <3>1. i + 1 \in DOMAIN a.queued /\ 1 < i + 1 /\ Tail(a.queued)[i] = a.queued[i + 1]
      BY <1>1, <1>2, SMTT(180)
    <3> QED BY <1>2, <2>1, <3>1 DEF InOrder
  <2> QED BY <1>2, <1>3, <1>4, <2>1, <2>2 DEF InOrder
<1>7. Counters(b, c)
  BY <1>3 DEF CanDrain, Counters, HasSubscriber
<1>8. /\ TypesHold' /\ OrderHolds'
      /\ adapter'.queued = b.queued /\ adapter'.queuedBytes = b.queuedBytes
      /\ adapter'.delivering = TRUE /\ adapter'.holding = b.holding
      /\ adapter'.holdSoon = b.holdSoon /\ adapter'.timers = b.timers
      /\ turn'.doing = t.doing /\ turn'.left = t.left /\ turn'.held = t.held
      /\ turn'.place \in Places
  <2>1. Deliver(b, t, m)
    OBVIOUS
  <2> HIDE DEF b, t, m
  <2> QED BY <1>2, <1>3, <1>4, <1>5, <1>6, <1>7, <2>1, DeliverStep
<1>9. /\ adapter'.queued = Tail(a.queued) /\ adapter'.queuedBytes = a.queuedBytes - m.size
      /\ turn'.doing = "drain" /\ turn'.left = more - 1 /\ turn'.held = r.held
      /\ ~adapter'.holding /\ adapter'.holdSoon = a.holdSoon /\ adapter'.timers = a.timers
  BY <1>3, <1>4, <1>8
<1>10. TurnHolds'
  <2>1. turn'.left <= Len(adapter'.queued) /\ Len(turn'.held) <= 1
    BY <1>1, <1>2, <1>9 DEF CanDrain
  <2> QED BY <1>8, <1>9, <2>1, SameUse DEF TurnHolds
<1>11. BoundHolds'
  <2>1. SUFFICES ASSUME Largest <= use.budget
                 PROVE  /\ adapter'.queuedBytes <= use.budget + Largest
                        /\ turn'.left = Len(adapter'.queued) \/ adapter'.queuedBytes <= use.budget
    BY <1>9, SameUse DEF BoundHolds, Bounded
  <2>2. /\ a.queuedBytes <= use.budget + Largest
        /\ left = Len(a.queued) \/ a.queuedBytes <= use.budget
    BY <2>1 DEF CanDrain, Bounded
  <2>3. /\ m.size \in Nat /\ use.budget \in Nat /\ Largest \in Nat /\ a.queuedBytes \in Nat
    BY <1>1, <1>2, UseFacts DEF TypesHold, Adapters
  <2>4. turn'.left = more - 1 /\ Len(adapter'.queued) = Len(a.queued) - 1
    BY <1>2, <1>9
  <2> HIDE DEF m
  <2> QED BY <1>9, <2>2, <2>3, <2>4, SMTT(180)
<1>12. TimersHold'
  BY <1>9 DEF CanDrain, TimersHold
<1>13. adapter'.queuedBytes = Bytes(adapter'.queued)
  BY <1>2, <1>9
<1> QED BY <1>8, <1>10, <1>11, <1>12, <1>13 DEF AdapterInv, Bytes


\* For lengths.
LEMMA AtMostOne == \A n \in Nat : n <= 1 => n \in {0, 1} /\ n \in 0 .. 1
OBVIOUS

\* The run is over.
LEMMA IdleFacts ==
    ASSUME use \in AdapterUses
    PROVE  /\ Idle \in Turns /\ Idle.doing = "nothing" /\ Idle.left = 0 /\ Idle.held = <<>>
<1>1. <<>> \in Seq(Messages) /\ Place("none", "text") \in [key : Keys \cup {"none"}, kind : Kinds]
  BY EmptySeq DEF Place, Kinds
<1>2. 0 \in 0 .. use.publishes
  BY UseFacts
<1> QED BY <1>1, <1>2 DEF Idle, Turns

\* Where receipts and hearings stay, so does their order.
LEMMA OrderStays ==
    ASSUME use' = use, receipts' = receipts, hearings' = hearings,
           SeqsAscend, HeardIsDelivered, HeardInCallOrder
    PROVE  SeqsAscend' /\ HeardIsDelivered' /\ HeardInCallOrder'
           /\ \A m, c : Waits(m, c)' <=> Waits(m, c)
<1>1. \A i, j : (CalledBefore(i, j)' <=> CalledBefore(i, j)) /\ (IsDelivered(i)' <=> IsDelivered(i))
  BY DEF CalledBefore, IsDelivered
<1>2. SeqsAscend'
  BY <1>1, SameUse DEF SeqsAscend
<1>3. HeardIsDelivered'
  BY <1>1, SameUse DEF HeardIsDelivered
<1>4. HeardInCallOrder'
  BY <1>1, SameUse DEF HeardInCallOrder
<1>5. \A m, c : Waits(m, c)' <=> Waits(m, c)
  BY <1>1, SameUse DEF Waits
<1> QED BY <1>2, <1>3, <1>4, <1>5

\* A drain that ends lets in the message held, its listeners' publishes due to a timer.
LEMMA DrainIsOver ==
    ASSUME TypesHold, use' = use, hearings' = hearings,
           NEW c \in 0 .. use.publishes, calls' = c, NEW a, NEW r, NEW left, CanDrain(a, r, left,
           c),
           SeqsAscend, HeardIsDelivered, HeardInCallOrder, left = 0,
           DrainEnds([a EXCEPT !.delivering = FALSE, !.holding = FALSE], r)
    PROVE  AdapterInv'
<1> DEFINE b == [a EXCEPT !.delivering = FALSE, !.holding = FALSE]
           d == [b EXCEPT !.timers = IF b.queued # <<>> THEN @ + 1 ELSE @]
<1>1. /\ a \in Adapters /\ r \in Turns /\ a.queued \in Seq(Messages) /\ use \in AdapterUses
      /\ r.held \in Seq(Messages) /\ a.queuedBytes \in Nat /\ a.timers \in Nat
      /\ use.budget \in Nat /\ Largest \in Nat /\ c \in Nat
  <2>1. use \in AdapterUses /\ a \in Adapters /\ r \in Turns
    BY DEF CanDrain, TypesHold
  <2>2. use.budget \in Nat /\ Largest \in Nat /\ use.publishes \in Nat
    BY <2>1, UseFacts
  <2>3. a.queued \in Seq(Messages) /\ a.queuedBytes \in Nat /\ a.timers \in Nat
    BY <2>1 DEF Adapters
  <2>4. r.held \in Seq(Messages)
    BY <2>1 DEF Turns
  <2> QED BY <2>1, <2>2, <2>3, <2>4
<1>2. /\ b \in Adapters /\ b.delivering = FALSE /\ b.holding = FALSE /\ b.queued = a.queued
      /\ b.queuedBytes = a.queuedBytes /\ b.holdSoon = a.holdSoon /\ b.timers = a.timers
      /\ b.keySeqs = a.keySeqs /\ b.highestSeq = a.highestSeq /\ b.subs = a.subs
  BY <1>1 DEF Adapters
<1>3. /\ d \in Adapters /\ d.delivering = FALSE /\ d.holding = FALSE /\ d.queued = a.queued
      /\ d.queuedBytes = a.queuedBytes /\ d.holdSoon = a.holdSoon
      /\ d.timers = (IF a.queued # <<>> THEN a.timers + 1 ELSE a.timers)
      /\ d.keySeqs = a.keySeqs /\ d.highestSeq = a.highestSeq /\ d.subs = a.subs
  <2>1. (IF b.queued # <<>> THEN b.timers + 1 ELSE b.timers) \in Nat
    BY <1>1, <1>2
  <2> HIDE DEF b
  <2> QED BY <1>2, <2>1 DEF Adapters
<1>4. adapter' = (IF r.held = <<>> THEN d ELSE Push(d, r.held[1])) /\ turn' = Idle /\ receipts' = receipts
  BY DEF DrainEnds
<1>5. /\ d.queuedBytes = Bytes(d.queued) /\ InOrder(d.queued, r.held, c) /\ Counters(d, c)
      /\ d.holdSoon \/ r.held # <<>> \/ d.queued # <<>> => d.timers > 0
      /\ Len(r.held) \in {0, 1}
  <2>1. Counters(a, c) /\ InOrder(a.queued, r.held, c) /\ a.queuedBytes = Bytes(a.queued)
    BY DEF CanDrain
  <2>2. Counters(d, c)
    BY <1>3, <2>1 DEF Counters, HasSubscriber
  <2>3. Len(r.held) \in {0, 1}
    <3>1. Len(r.held) \in Nat
      BY <1>1, LenProperties
    <3>2. Len(r.held) <= 1
      BY DEF CanDrain
    <3> QED BY <3>1, <3>2, AtMostOne, Zenon
  <2>4. a.holdSoon \/ r.held # <<>> => a.timers > 0
    BY DEF CanDrain
  <2> HIDE DEF d
  <2> QED BY <1>1, <1>3, <2>1, <2>2, <2>3, <2>4
<1>6. Largest <= use.budget => d.queuedBytes <= use.budget
  <2>1. Largest <= use.budget => (left = Len(a.queued) \/ a.queuedBytes <= use.budget)
    BY DEF CanDrain, Bounded
  <2>2. left = Len(a.queued) => a.queuedBytes = 0
    BY <1>1, QueueFacts DEF CanDrain
  <2> HIDE DEF d
  <2> QED BY <1>1, <1>3, <2>1, <2>2
<1>7. /\ adapter' \in Adapters /\ adapter'.queuedBytes = Bytes(adapter'.queued)
      /\ InOrder(adapter'.queued, <<>>, c) /\ Counters(adapter', c)
      /\ adapter'.delivering = FALSE /\ adapter'.holding = FALSE
      /\ adapter'.holdSoon \/ adapter'.queued # <<>> => adapter'.timers > 0
      /\ Largest <= use.budget => adapter'.queuedBytes <= use.budget + Largest
  <2>1. CASE r.held = <<>>
    <3> HIDE DEF d
    <3> QED BY <1>1, <1>3, <1>4, <1>5, <1>6, <2>1, SMTT(180) DEF Adapters
  <2>2. CASE r.held # <<>>
    <3> DEFINE m == r.held[1]
    <3>1. Len(r.held) = 1 /\ m \in Messages
      BY <1>1, <1>5, <2>2, QueueFacts
    <3>2. m.size \in Nat /\ m.size <= Largest
      BY <1>1, <3>1, UseFacts DEF Messages
    <3>3. /\ Push(d, m) \in Adapters
          /\ Push(d, m).queued = Append(d.queued, m)
          /\ Push(d, m).queuedBytes = d.queuedBytes + m.size
          /\ Push(d, m).queuedBytes = Bytes(Push(d, m).queued)
          /\ Push(d, m).subs = d.subs /\ Push(d, m).keySeqs = d.keySeqs
          /\ Push(d, m).highestSeq = d.highestSeq /\ Push(d, m).delivering = d.delivering
          /\ Push(d, m).holding = d.holding /\ Push(d, m).holdSoon = d.holdSoon
          /\ Push(d, m).timers = d.timers
          /\ Len(Append(d.queued, m)) = Len(d.queued) + 1
          /\ \A i \in 1 .. Len(d.queued) : Append(d.queued, m)[i] = d.queued[i]
          /\ Append(d.queued, m)[Len(d.queued) + 1] = m
      <4> HIDE DEF d, m
      <4> QED BY <1>1, <1>3, <1>5, <3>1, PushFacts
    <3>4. adapter' = Push(d, m)
      BY <1>4, <2>2
    <3>5. Append(d.queued, m) \in Seq(Messages) /\ d.queued \in Seq(Messages)
      BY <1>1, <1>3, <3>1, AppendProperties
    <3>6. InOrder(Append(d.queued, m), <<>>, c)
      <4> HIDE DEF d
      <4> QED BY <1>1, <1>5, <3>1, <3>3, <3>5, HeldJoins, ZenonT(180)
    <3>7. Counters(adapter', c)
      <4> HIDE DEF d, m
      <4> QED BY <1>5, <3>3, <3>4 DEF Counters, HasSubscriber
    <3>8. Largest <= use.budget => d.queuedBytes + m.size <= use.budget + Largest
      <4>1. d.queuedBytes \in Nat
        BY <1>1, <1>3
      <4> HIDE DEF d, m
      <4> QED BY <1>1, <1>6, <3>2, <4>1
    <3> HIDE DEF d, m
    <3> QED BY <1>3, <1>5, <2>2, <3>3, <3>4, <3>6, <3>7, <3>8
  <2> QED BY <2>1, <2>2
<1>8. TypesHold'
  BY <1>1, <1>4, <1>7, IdleFacts, SameUse DEF TypesHold
<1>9. TurnHolds'
  <2>1. Len(adapter'.queued) \in Nat
    BY <1>1, <1>7, QueueFacts DEF Adapters
  <2>2. turn'.doing = "nothing" /\ turn'.left = 0 /\ turn'.held = <<>>
    BY <1>1, <1>4, IdleFacts
  <2>3. Len(turn'.held) <= 1
    BY <2>2
  <2>4. turn'.left <= Len(adapter'.queued)
    BY <2>1, <2>2
  <2> HIDE DEF b, d
  <2> QED BY <1>4, <1>7, <2>2, <2>3, <2>4 DEF TurnHolds
<1>10. BoundHolds' /\ TimersHold'
  BY <1>1, <1>4, <1>7, IdleFacts, SameUse DEF BoundHolds, TimersHold, Bounded
<1>11. OrderHolds'
  <2>1. InOrder(adapter.queued, turn.held, calls)'
    <3>1. turn'.held = <<>> /\ DOMAIN turn'.held = {}
      BY <1>1, <1>4, IdleFacts
    <3>2. \A i \in DOMAIN adapter'.queued :
             /\ Waits(adapter'.queued[i], c)
             /\ \A j \in DOMAIN adapter'.queued : i < j => MayFollow(adapter'.queued[j], adapter'.queued[i])
      BY <1>7 DEF InOrder
    <3>3. \A m : Waits(m, c)' <=> Waits(m, c)
      BY <1>4, OrderStays
    <3>4. \A i \in DOMAIN adapter'.queued : \A j \in DOMAIN adapter'.queued :
             i < j => MayFollow(adapter.queued[j], adapter.queued[i])'
      BY <3>2 DEF MayFollow
    <3> HIDE DEF b, d
    <3> QED BY <3>1, <3>2, <3>3, <3>4 DEF InOrder
  <2>2. Counters(adapter, calls)'
    BY <1>4, <1>7, SameUse DEF Counters, IsDelivered, HasSubscriber
  <2>3. Latest(turn)'
    BY <1>1, <1>4, IdleFacts DEF Latest
  <2> QED BY <1>4, <2>1, <2>2, <2>3, OrderStays DEF OrderHolds
<1> QED BY <1>7, <1>8, <1>9, <1>10, <1>11 DEF AdapterInv, Bytes

\* A drain keeps the invariant, whatever it starts from.
LEMMA DrainStep ==
    ASSUME TypesHold, use' = use, hearings' = hearings,
           NEW c \in 0 .. use.publishes, calls' = c, NEW a, NEW r, NEW left, CanDrain(a, r, left,
           c),
           SeqsAscend, HeardIsDelivered, HeardInCallOrder, Drain(a, r, left)
    PROVE  AdapterInv'
<1> DEFINE more == IF left = 0 /\ use.worker THEN Len(a.queued) ELSE left
           b    == [a EXCEPT !.delivering = FALSE, !.holding = FALSE]
<1>1. a \in Adapters /\ left \in Nat /\ Len(a.queued) \in Nat /\ left <= Len(a.queued)
  BY LenProperties DEF CanDrain, Adapters
<1>2. b.queued = a.queued
  BY <1>1 DEF Adapters
<1>3. CASE more = 0
  <2>1. DrainEnds(b, r) /\ left = 0
    BY <1>1, <1>3 DEF Drain
  <2> QED BY <2>1, DrainIsOver
<1>4. CASE more # 0
  <2>1. more \in Nat \ {0} /\ (more = left \/ more = Len(a.queued))
    BY <1>1, <1>4
  <2>2. Deliver([b EXCEPT !.queued = Tail(@), !.queuedBytes = @ - Head(a.queued).size],
                [r EXCEPT !.doing = "drain", !.left = more - 1], Head(a.queued))
    BY <1>4 DEF Drain
  <2> HIDE DEF more
  <2> QED BY <2>1, <2>2, DrainGoesOn
<1> QED BY <1>3, <1>4

-----------------------------------------------------------------------------
(* The steps *)

\* An adapter starts with nothing queued, heard or published.
LEMMA AdapterInvInit == AdapterInit => AdapterInv
<1> SUFFICES ASSUME AdapterInit PROVE AdapterInv
  OBVIOUS
<1>1. /\ use \in AdapterUses /\ turn = Idle /\ calls = 0 /\ Bytes(<<>>) = 0
      /\ receipts = [i \in Ids |-> [key |-> "none", seq |-> 0, within |-> 0]]
      /\ hearings = [l \in UseListeners |-> <<>>]
      /\ adapter = [subs |-> [p \in Places |-> <<>>], keySeqs |-> [k \in Keys |-> 0],
                    highestSeq |-> 0, queued |-> <<>>, queuedBytes |-> 0, delivering |-> FALSE,
                    publishesSinceTurn |-> 0, holding |-> FALSE, holdSoon |-> FALSE, timers |-> 0]
  BY BytesOfEmpty DEF AdapterInit
<1>2. use.publishes \in Nat /\ use.budget \in Nat /\ Largest \in Nat
  BY <1>1, UseFacts
<1>3. TypesHold
  <2>1. adapter \in Adapters
    BY <1>1 DEF Adapters
  <2>2. turn \in Turns /\ calls \in 0 .. use.publishes
    BY <1>1, <1>2, IdleFacts
  <2>3. receipts \in [Ids -> Receipts]
    BY <1>1, <1>2 DEF Receipts
  <2>4. hearings \in [UseListeners -> Seq(Ids)]
    BY <1>1
  <2> QED BY <1>1, <2>1, <2>2, <2>3, <2>4 DEF TypesHold
<1>4. /\ turn.doing = "nothing" /\ turn.left = 0 /\ turn.held = <<>> /\ adapter.queued = <<>>
      /\ adapter.queuedBytes = 0 /\ ~adapter.delivering /\ ~adapter.holding /\ ~adapter.holdSoon
  BY <1>1, IdleFacts
<1>5. TurnHolds
  <2>1. Len(turn.held) <= 1 /\ turn.left <= Len(adapter.queued)
    BY <1>4
  <2> QED BY <1>1, <1>4, <2>1 DEF TurnHolds
<1>6. BoundHolds /\ TimersHold
  BY <1>2, <1>4 DEF BoundHolds, Bounded, TimersHold
<1>7. \A i \in Ids : ~IsDelivered(i) /\ receipts[i].seq = 0
  BY <1>1 DEF IsDelivered
<1>8. OrderHolds
  <2>1. InOrder(adapter.queued, turn.held, calls)
    BY <1>4 DEF InOrder
  <2>2. Counters(adapter, calls)
    BY <1>1, <1>7 DEF Counters
  <2>3. SeqsAscend
    BY <1>7 DEF SeqsAscend
  <2>4. HeardIsDelivered /\ HeardInCallOrder
    BY <1>1 DEF HeardIsDelivered, HeardInCallOrder
  <2>5. Latest(turn)
    BY <1>4 DEF Latest
  <2> QED BY <2>1, <2>2, <2>3, <2>4, <2>5 DEF OrderHolds
<1> QED BY <1>1, <1>3, <1>4, <1>5, <1>6, <1>8 DEF AdapterInv

\* The message of a publish, and what it may join.
NewestMessage(place, size) ==
    [id |-> calls + 1, place |-> place, size |-> size,
     within |-> IF turn.held = <<>> THEN 0 ELSE turn.held[1].id]

\* What the next publish makes is behind every message there is, and within the one being delivered.
LEMMA NewestFacts ==
    ASSUME AdapterInv, NEW place \in Places, NEW size \in use.sizes, calls < use.publishes,
           NEW m, m = NewestMessage(place, size)
    PROVE  /\ m \in Messages /\ m.id = calls + 1 /\ calls \in Nat
           /\ calls + 1 \in 0 .. use.publishes
           /\ m.size \in Nat /\ m.size <= Largest /\ m.place = place
           /\ \A k \in DOMAIN turn.held : m.within = turn.held[k].id
           /\ \A d \in Ids : IsDelivered(d) => d <= calls
           /\ InOrder(Append(adapter.queued, m), turn.held, calls + 1)
<1>1. /\ use \in AdapterUses /\ adapter.queued \in Seq(Messages) /\ turn.held \in Seq(Messages)
      /\ calls \in Nat /\ use.publishes \in Nat /\ receipts \in [Ids -> Receipts]
  <2>1. use.publishes \in Nat
    BY UseFacts DEF AdapterInv, TypesHold
  <2> QED BY <2>1 DEF AdapterInv, TypesHold, Adapters, Turns
<1>2. m = [id |-> calls + 1, place |-> place, size |-> size,
           within |-> IF turn.held = <<>> THEN 0 ELSE turn.held[1].id]
  BY DEF NewestMessage
<1>3. DOMAIN turn.held = 1 .. Len(turn.held) /\ Len(turn.held) \in 0 .. 1
      /\ (Len(turn.held) = 0 <=> turn.held = <<>>) /\ \A i \in DOMAIN turn.held : turn.held[i] \in Messages
  <2>1. Len(turn.held) <= 1
    BY DEF AdapterInv, TurnHolds
  <2>2. /\ Len(turn.held) \in Nat /\ DOMAIN turn.held = 1 .. Len(turn.held)
        /\ \A i \in DOMAIN turn.held : turn.held[i] \in Messages
        /\ (Len(turn.held) = 0 <=> turn.held = <<>>)
    BY <1>1, QueueFacts
  <2>3. Len(turn.held) \in 0 .. 1
    BY <2>1, <2>2, AtMostOne, Zenon
  <2> QED BY <2>2, <2>3
<1>4. (IF turn.held = <<>> THEN 0 ELSE turn.held[1].id) \in 0 .. use.publishes
  <2>1. CASE turn.held = <<>>
    BY <1>1, <2>1
  <2>2. CASE turn.held # <<>>
    <3>1. turn.held[1] \in Messages
      BY <1>3, <2>2
    <3>2. turn.held[1].id \in Ids
      BY <3>1 DEF Messages
    <3> QED BY <1>1, <2>2, <3>2 DEF Ids
  <2> QED BY <2>1, <2>2
<1>5. m \in Messages /\ m.id = calls + 1
  <2>1. calls + 1 \in Ids
    BY <1>1 DEF Ids
  <2> QED BY <1>2, <1>4, <2>1 DEF Messages
<1>6. \A k \in DOMAIN turn.held : m.within = turn.held[k].id
  BY <1>2, <1>3
<1>7. \A d \in Ids : IsDelivered(d) => d <= calls
  BY DEF AdapterInv, OrderHolds, Counters
<1>8. /\ Append(adapter.queued, m) \in Seq(Messages)
      /\ Len(Append(adapter.queued, m)) = Len(adapter.queued) + 1
      /\ \A i \in 1 .. Len(adapter.queued) : Append(adapter.queued, m)[i] = adapter.queued[i]
      /\ Append(adapter.queued, m)[Len(adapter.queued) + 1] = m
  BY <1>1, <1>5, AppendProperties
<1>9. InOrder(Append(adapter.queued, m), turn.held, calls + 1)
  <2>1. InOrder(adapter.queued, turn.held, calls)
    BY DEF AdapterInv, OrderHolds
  <2> QED BY <1>1, <1>5, <1>6, <1>7, <1>8, <2>1, NewestJoins
<1>10. m.size \in Nat /\ m.size <= Largest
  <2>1. m.size = size
    BY <1>2
  <2> QED BY <1>1, <2>1, UseFacts
<1> QED BY <1>1, <1>2, <1>5, <1>6, <1>7, <1>9, <1>10

\* The invariant's types, for the steps.
LEMMA InvFacts ==
    ASSUME AdapterInv
    PROVE  /\ use \in AdapterUses /\ adapter \in Adapters /\ turn \in Turns
           /\ adapter.queued \in Seq(Messages) /\ Len(adapter.queued) \in Nat
           /\ adapter.queuedBytes \in Nat /\ adapter.timers \in Nat
           /\ use.budget \in Nat /\ Largest \in Nat /\ use.publishes \in Nat
           /\ calls \in 0 .. use.publishes /\ calls \in Nat
           /\ adapter.queuedBytes = Bytes(adapter.queued)
           /\ SeqsAscend /\ HeardIsDelivered /\ HeardInCallOrder
           /\ InOrder(adapter.queued, turn.held, calls) /\ Counters(adapter, calls) /\ Latest(turn)
<1>1. /\ use \in AdapterUses /\ adapter \in Adapters /\ turn \in Turns
      /\ calls \in 0 .. use.publishes
      /\ adapter.queuedBytes = Bytes(adapter.queued)
  BY DEF AdapterInv, TypesHold
<1>2. /\ SeqsAscend /\ HeardIsDelivered /\ HeardInCallOrder
      /\ InOrder(adapter.queued, turn.held, calls) /\ Counters(adapter, calls) /\ Latest(turn)
  BY DEF AdapterInv, OrderHolds
<1>3. adapter.queued \in Seq(Messages) /\ adapter.queuedBytes \in Nat /\ adapter.timers \in Nat
  BY <1>1 DEF Adapters
<1>4. Len(adapter.queued) \in Nat
  BY <1>3, LenProperties
<1>5. use.budget \in Nat /\ Largest \in Nat /\ use.publishes \in Nat
  BY <1>1, UseFacts
<1> QED BY <1>1, <1>2, <1>3, <1>4, <1>5

\* The newest message may wait, last or alone.
LEMMA NewestWaits ==
    ASSUME AdapterInv, NEW place \in Places, NEW size \in use.sizes, calls < use.publishes,
           NEW m, m = NewestMessage(place, size)
    PROVE  /\ Waits(m, calls + 1) /\ InOrder(adapter.queued, turn.held, calls + 1)
           /\ Counters(adapter, calls + 1)
           /\ \A i \in DOMAIN adapter.queued : MayFollow(m, adapter.queued[i])
<1> DEFINE p == Append(adapter.queued, m)
<1>1. /\ m \in Messages /\ InOrder(p, turn.held, calls + 1)
      /\ adapter.queued \in Seq(Messages) /\ calls \in Nat
  BY NewestFacts, InvFacts
<1>2. /\ DOMAIN p = 1 .. Len(adapter.queued) + 1 /\ p[Len(adapter.queued) + 1] = m
      /\ Len(adapter.queued) \in Nat /\ DOMAIN adapter.queued = 1 .. Len(adapter.queued)
      /\ \A i \in 1 .. Len(adapter.queued) : p[i] = adapter.queued[i]
  BY <1>1, AppendProperties, LenProperties
<1>3. /\ Len(adapter.queued) + 1 \in DOMAIN p
      /\ \A i \in DOMAIN adapter.queued : i \in DOMAIN p /\ i < Len(adapter.queued) + 1
                                          /\ p[i] = adapter.queued[i]
  BY <1>2
<1>4. Waits(m, calls + 1)
  BY <1>1, <1>2, <1>3 DEF InOrder
<1>5. \A i \in DOMAIN adapter.queued : MayFollow(m, adapter.queued[i])
  BY <1>1, <1>2, <1>3 DEF InOrder
<1>6. InOrder(adapter.queued, turn.held, calls + 1)
  <2>1. ASSUME NEW i \in DOMAIN adapter.queued
        PROVE  /\ Waits(adapter.queued[i], calls + 1)
               /\ \A j \in DOMAIN adapter.queued :
                     i < j => MayFollow(adapter.queued[j], adapter.queued[i])
               /\ \A k \in DOMAIN turn.held : MayFollow(turn.held[k], adapter.queued[i])
    BY <1>1, <1>3 DEF InOrder
  <2>2. \A k \in DOMAIN turn.held : Waits(turn.held[k], calls + 1)
    BY <1>1 DEF InOrder
  <2> QED BY <2>1, <2>2 DEF InOrder
<1>7. Counters(adapter, calls + 1)
  <2>1. \A d \in Ids : d <= calls => d <= calls + 1
    BY <1>1 DEF Ids
  <2> QED BY <2>1, InvFacts DEF Counters
<1> QED BY <1>4, <1>5, <1>6, <1>7

\* A message is queued, within the budget.
LEMMA PushStep ==
    ASSUME AdapterInv, NEW place \in Places, NEW size \in use.sizes, calls < use.publishes,
           NEW m, m = NewestMessage(place, size), MustQueue, ~Full(m), adapter' = Push(adapter, m),
           calls' = calls + 1, UNCHANGED <<use, turn, receipts, toggles, hearings>>
    PROVE  AdapterInv'
<1>1. /\ m \in Messages /\ calls + 1 \in 0 .. use.publishes /\ m.size \in Nat /\ m.size <= Largest
      /\ InOrder(Append(adapter.queued, m), turn.held, calls + 1) /\ Counters(adapter, calls + 1)
  BY NewestFacts, NewestWaits
<1>2. /\ adapter' \in Adapters
      /\ adapter'.queued = Append(adapter.queued, m)
      /\ adapter'.queuedBytes = adapter.queuedBytes + m.size
      /\ adapter'.queuedBytes = Bytes(adapter'.queued)
      /\ adapter'.subs = adapter.subs /\ adapter'.keySeqs = adapter.keySeqs
      /\ adapter'.highestSeq = adapter.highestSeq /\ adapter'.delivering = adapter.delivering
      /\ adapter'.holding = adapter.holding /\ adapter'.holdSoon = adapter.holdSoon
      /\ adapter'.timers = adapter.timers
      /\ Len(adapter'.queued) = Len(adapter.queued) + 1
  <2>1. use \in AdapterUses /\ adapter \in Adapters /\ adapter.queuedBytes = Bytes(adapter.queued)
    BY InvFacts
  <2> QED BY <1>1, <2>1, PushFacts
<1>3. TypesHold'
  BY <1>1, <1>2, SameUse DEF AdapterInv, TypesHold
<1>4. TurnHolds'
  <2>1. turn.left \in Nat /\ turn.left <= Len(adapter.queued)
    BY DEF AdapterInv, TurnHolds, TypesHold, Turns
  <2>2. turn.left <= Len(adapter'.queued)
    BY <1>2, <2>1, InvFacts
  <2> QED BY <1>2, <2>2, SameUse DEF AdapterInv, TurnHolds
<1>5. BoundHolds'
  <2>1. ASSUME Largest <= use.budget
        PROVE  /\ adapter.queuedBytes + m.size <= use.budget
               /\ adapter.queuedBytes + m.size <= use.budget + Largest
    BY <1>1, <2>1, InvFacts, SMTT(180) DEF Full
  <2> QED BY <1>2, <2>1, SameUse DEF BoundHolds, Bounded
<1>6. TimersHold'
  <2>1. turn.doing = "nothing" => adapter.timers > 0
    BY DEF AdapterInv, TurnHolds, TimersHold, MustQueue
  <2> QED BY <1>2, <2>1 DEF AdapterInv, TimersHold
<1>7. OrderHolds'
  <2>1. InOrder(adapter.queued, turn.held, calls)'
    <3>1. InOrder(adapter'.queued, turn'.held, calls')
      BY <1>1, <1>2
    <3>2. \A m_1, c : Waits(m_1, c)' <=> Waits(m_1, c)
      BY InvFacts, OrderStays
    <3> QED BY <3>1, <3>2 DEF InOrder, MayFollow
  <2>2. Counters(adapter, calls)'
    BY <1>1, <1>2, SameUse DEF Counters, IsDelivered, HasSubscriber
  <2>3. Latest(turn)'
    BY InvFacts, SameUse DEF Latest, IsDelivered, CalledBefore
  <2> QED BY <2>1, <2>2, <2>3, InvFacts, OrderStays DEF OrderHolds
<1> QED BY <1>2, <1>3, <1>4, <1>5, <1>6, <1>7 DEF AdapterInv, Bytes

\* A listener's publish that finds no room is refused.
LEMMA RefusedStep ==
    ASSUME AdapterInv, NEW place \in Places, NEW size \in use.sizes, calls < use.publishes,
           calls' = calls + 1, UNCHANGED <<use, adapter, turn, receipts, toggles, hearings>>
    PROVE  AdapterInv'
<1>1. /\ calls + 1 \in 0 .. use.publishes
      /\ InOrder(adapter.queued, turn.held, calls + 1) /\ Counters(adapter, calls + 1)
  BY NewestFacts, NewestWaits
<1>2. TypesHold' /\ TurnHolds'
  BY <1>1, SameUse DEF AdapterInv, TypesHold, TurnHolds
<1>3. BoundHolds' /\ TimersHold'
  BY SameUse DEF AdapterInv, BoundHolds, Bounded, TimersHold
<1>4. OrderHolds'
  <2>1. InOrder(adapter.queued, turn.held, calls)'
    BY <1>1, InvFacts, OrderStays DEF InOrder, MayFollow
  <2>2. Counters(adapter, calls)'
    BY <1>1, SameUse DEF Counters, IsDelivered, HasSubscriber
  <2>3. Latest(turn)'
    BY InvFacts, SameUse DEF Latest, IsDelivered, CalledBefore
  <2> QED BY <2>1, <2>2, <2>3, InvFacts, OrderStays DEF OrderHolds
<1> QED BY <1>2, <1>3, <1>4, InvFacts DEF AdapterInv, Bytes

\* A publish outside a listener that finds no room has what waits delivered first.
LEMMA MakeRoomStep ==
    ASSUME AdapterInv, NEW place \in Places, NEW size \in use.sizes, calls < use.publishes,
           NEW m, m = NewestMessage(place, size), MustQueue, ~adapter.delivering,
           calls' = calls + 1, UNCHANGED <<use, toggles, hearings>>,
           Drain(adapter, [Idle EXCEPT !.held = <<m>>], Len(adapter.queued))
    PROVE  AdapterInv'
<1> DEFINE r == [Idle EXCEPT !.held = <<m>>]
<1>1. /\ m \in Messages /\ calls + 1 \in 0 .. use.publishes /\ Waits(m, calls + 1)
      /\ InOrder(adapter.queued, turn.held, calls + 1) /\ Counters(adapter, calls + 1)
      /\ \A i \in DOMAIN adapter.queued : MayFollow(m, adapter.queued[i])
  BY NewestFacts, NewestWaits
<1>2. <<m>> \in Seq(Messages) /\ Len(<<m>>) = 1 /\ DOMAIN <<m>> = {1} /\ <<m>>[1] = m
  BY <1>1
<1>3. r \in Turns /\ r.held = <<m>>
  <2>1. Idle \in Turns
    BY InvFacts, IdleFacts
  <2> QED BY <1>2, <2>1 DEF Turns
<1>4. turn.doing = "nothing" /\ adapter.timers > 0
  BY DEF AdapterInv, TurnHolds, TimersHold, MustQueue
<1>5. InOrder(adapter.queued, <<m>>, calls + 1)
  BY <1>1, <1>2 DEF InOrder
<1>6. Bounded(adapter.queuedBytes, TRUE)
  BY DEF AdapterInv, BoundHolds, Bounded
<1>7. CanDrain(adapter, r, Len(adapter.queued), calls + 1)
  <2>1. /\ adapter \in Adapters /\ Len(adapter.queued) \in Nat
        /\ adapter.queuedBytes = Bytes(adapter.queued)
    BY InvFacts
  <2>2. Len(adapter.queued) <= Len(adapter.queued) /\ Len(r.held) <= 1
    BY <1>2, <1>3, <2>1
  <2> HIDE DEF r
  <2> QED BY <1>1, <1>3, <1>4, <1>5, <1>6, <2>1, <2>2 DEF CanDrain
<1>8. TypesHold /\ SeqsAscend /\ HeardIsDelivered /\ HeardInCallOrder
  BY InvFacts DEF AdapterInv
<1> HIDE DEF r
<1>9. Drain(adapter, r, Len(adapter.queued))
  BY DEF r
<1> QED BY <1>1, <1>7, <1>8, <1>9, DrainStep

\* A publish that need not wait is delivered.
LEMMA PublishNowStep ==
    ASSUME AdapterInv, NEW place \in Places, NEW size \in use.sizes, calls < use.publishes,
           NEW m, m = NewestMessage(place, size), PublishNow(m),
           calls' = calls + 1, UNCHANGED <<use, toggles, hearings>>
    PROVE  AdapterInv'
<1> DEFINE full == adapter.publishesSinceTurn + 1 = use.between /\ ~use.worker
           a == [adapter EXCEPT !.publishesSinceTurn = @ + 1, !.holdSoon = @ \/ full,
                                !.timers = IF full THEN @ + 1 ELSE @]
           r == [Idle EXCEPT !.doing = "publish"]
<1>1. /\ m \in Messages /\ calls + 1 \in 0 .. use.publishes /\ Waits(m, calls + 1)
      /\ Counters(adapter, calls + 1)
  BY NewestFacts, NewestWaits
<1>2. ~adapter.delivering /\ ~adapter.holding /\ adapter.queued = <<>> /\ Deliver(a, r, m)
  BY DEF PublishNow, MustQueue
<1>3. /\ use \in AdapterUses /\ adapter \in Adapters /\ adapter.timers \in Nat
      /\ adapter.publishesSinceTurn \in Nat /\ adapter.queuedBytes = 0
  <2>1. /\ use \in AdapterUses /\ adapter \in Adapters /\ adapter.timers \in Nat
        /\ adapter.queuedBytes = Bytes(adapter.queued)
    BY InvFacts
  <2>2. adapter.publishesSinceTurn \in Nat
    BY <2>1 DEF Adapters
  <2> QED BY <1>2, <2>1, <2>2, BytesOfEmpty
<1>4. /\ a \in Adapters /\ a.queued = <<>> /\ a.queuedBytes = 0 /\ a.subs = adapter.subs
      /\ a.keySeqs = adapter.keySeqs /\ a.highestSeq = adapter.highestSeq /\ a.holding = FALSE
      /\ a.holdSoon = (adapter.holdSoon \/ full)
      /\ a.timers = (IF full THEN adapter.timers + 1 ELSE adapter.timers)
  <2>1. full \in BOOLEAN
    OBVIOUS
  <2>2. /\ adapter.publishesSinceTurn + 1 \in Nat /\ (adapter.holdSoon \/ full) \in BOOLEAN
        /\ (IF full THEN adapter.timers + 1 ELSE adapter.timers) \in Nat
    BY <1>3
  <2> HIDE DEF full
  <2> QED BY <1>2, <1>3, <2>2 DEF Adapters
<1>5. r \in Turns /\ r.doing = "publish" /\ r.left = 0 /\ r.held = <<>>
  <2>1. Idle \in Turns /\ Idle.held = <<>> /\ Idle.left = 0
    BY <1>3, IdleFacts
  <2> QED BY <2>1 DEF Turns
<1>6. a.holdSoon => a.timers > 0
  <2>1. adapter.holdSoon => adapter.timers > 0
    BY DEF AdapterInv, TimersHold
  <2>2. CASE full
    <3>1. a.timers = adapter.timers + 1
      BY <1>4, <2>2
    <3> HIDE DEF a, full
    <3> QED BY <1>3, <3>1
  <2>3. CASE ~full
    <3>1. a.timers = adapter.timers /\ (a.holdSoon <=> adapter.holdSoon)
      BY <1>4, <2>3
    <3> HIDE DEF a, full
    <3> QED BY <2>1, <3>1
  <2> QED BY <2>2, <2>3
<1>7. InOrder(a.queued, r.held, calls + 1) /\ Counters(a, calls + 1)
  <2>1. DOMAIN a.queued = {} /\ DOMAIN r.held = {}
    BY <1>4, <1>5
  <2>2. InOrder(a.queued, r.held, calls + 1)
    <3> HIDE DEF a, r
    <3> QED BY <2>1 DEF InOrder
  <2>3. Counters(a, calls + 1)
    <3> HIDE DEF a
    <3> QED BY <1>1, <1>4 DEF Counters, HasSubscriber
  <2> QED BY <2>2, <2>3
<1>8. TypesHold /\ SeqsAscend /\ HeardIsDelivered /\ HeardInCallOrder
  BY InvFacts DEF AdapterInv
<1>9. /\ TypesHold' /\ OrderHolds'
      /\ adapter'.queued = a.queued /\ adapter'.queuedBytes = a.queuedBytes
      /\ adapter'.delivering = TRUE /\ adapter'.holding = a.holding
      /\ adapter'.holdSoon = a.holdSoon /\ adapter'.timers = a.timers
      /\ turn'.doing = r.doing /\ turn'.left = r.left /\ turn'.held = r.held
      /\ turn'.place \in Places
  <2>1. \A i \in DOMAIN a.queued : MayFollow(a.queued[i], m)
    BY <1>4
  <2>2. \A k \in DOMAIN r.held : MayFollow(r.held[k], m)
    BY <1>5
  <2>3. r.doing # "nothing"
    BY <1>5
  <2> HIDE DEF a, r
  <2> QED BY <1>1, <1>2, <1>4, <1>5, <1>7, <1>8, <2>1, <2>2, <2>3, DeliverStep
<1>10. TurnHolds'
  <2>1. turn'.left <= Len(adapter'.queued) /\ Len(turn'.held) <= 1
    BY <1>4, <1>5, <1>9
  <2> HIDE DEF a, r
  <2> QED BY <1>5, <1>9, <2>1, SameUse DEF TurnHolds
<1>11. BoundHolds'
  <2>1. use.budget \in Nat /\ Largest \in Nat /\ adapter'.queuedBytes = 0
    BY <1>4, <1>9, InvFacts
  <2> HIDE DEF a, r
  <2> QED BY <2>1, SameUse DEF BoundHolds, Bounded
<1>12. TimersHold'
  <2> HIDE DEF a, r
  <2> QED BY <1>4, <1>5, <1>6, <1>9 DEF TimersHold
<1>13. adapter'.queuedBytes = Bytes(adapter'.queued)
  <2> HIDE DEF a, r
  <2> QED BY <1>4, <1>9, BytesOfEmpty
<1> HIDE DEF a, r
<1> QED BY <1>9, <1>10, <1>11, <1>12, <1>13 DEF AdapterInv, Bytes

\* A publish keeps the invariant.
LEMMA AdapterPublishStep ==
    ASSUME AdapterInv, NEW place \in Places, NEW size \in use.sizes, PublishLocally(place, size)
    PROVE  AdapterInv'
<1> DEFINE m == NewestMessage(place, size)
<1>1. /\ calls < use.publishes /\ calls' = calls + 1 /\ UNCHANGED <<use, toggles, hearings>>
      /\ PublishQueued(m) \/ PublishNow(m)
  BY DEF PublishLocally, NewestMessage
<1> HIDE DEF m
<1>2. m = NewestMessage(place, size)
  BY DEF m
<1>3. CASE PublishNow(m)
  BY <1>1, <1>2, <1>3, PublishNowStep
<1>4. CASE PublishQueued(m) /\ ~Full(m)
  BY <1>1, <1>2, <1>4, PushStep DEF PublishQueued
<1>5. CASE PublishQueued(m) /\ Full(m) /\ adapter.delivering
  BY <1>1, <1>5, RefusedStep DEF PublishQueued
<1>6. CASE PublishQueued(m) /\ Full(m) /\ ~adapter.delivering
  <2>1. Drain(adapter, [Idle EXCEPT !.held = <<m>>], Len(adapter.queued)) /\ MustQueue
    BY <1>6 DEF PublishQueued
  <2> QED BY <1>1, <1>2, <1>6, <2>1, MakeRoomStep
<1> QED BY <1>1, <1>3, <1>4, <1>5, <1>6

\* What a step that only subscribes or unsubscribes leaves.
LEMMA ToggleStep ==
    ASSUME AdapterInv, UNCHANGED <<use, calls, receipts, hearings>>,
           adapter' \in Adapters, turn' \in Turns, Counters(adapter', calls),
           adapter'.queued = adapter.queued, adapter'.queuedBytes = adapter.queuedBytes,
           adapter'.delivering = adapter.delivering, adapter'.holding = adapter.holding,
           adapter'.holdSoon = adapter.holdSoon, adapter'.timers = adapter.timers,
           turn'.doing = turn.doing, turn'.msg = turn.msg, turn'.place = turn.place,
           turn'.left = turn.left, turn'.held = turn.held, turn.doing = "nothing" => turn' = turn
    PROVE  AdapterInv'
<1>1. TypesHold'
  BY SameUse DEF AdapterInv, TypesHold
<1>2. TurnHolds'
  BY SameUse DEF AdapterInv, TurnHolds
<1>3. BoundHolds' /\ TimersHold'
  BY SameUse DEF AdapterInv, BoundHolds, Bounded, TimersHold
<1>4. OrderHolds'
  <2>1. InOrder(adapter.queued, turn.held, calls)'
    <3>1. InOrder(adapter'.queued, turn'.held, calls')
      BY InvFacts
    <3>2. \A m, c : Waits(m, c)' <=> Waits(m, c)
      BY InvFacts, OrderStays
    <3> QED BY <3>1, <3>2 DEF InOrder, MayFollow
  <2>2. Counters(adapter, calls)'
    BY SameUse DEF Counters, IsDelivered, HasSubscriber
  <2>3. Latest(turn)'
    BY InvFacts, SameUse DEF Latest, IsDelivered, CalledBefore
  <2> QED BY <2>1, <2>2, <2>3, InvFacts, OrderStays DEF OrderHolds
<1>5. adapter'.queuedBytes = Bytes(adapter'.queued)
  BY InvFacts
<1> QED BY <1>1, <1>2, <1>3, <1>4, <1>5 DEF AdapterInv, Bytes

\* A subscribe keeps the invariant, in the middle of a delivery too.
LEMMA SubscribeStep ==
    ASSUME AdapterInv, NEW l \in UseListeners, Subscribe(l)
    PROVE  AdapterInv'
<1> DEFINE p == use.listensTo[l]
           new == Append(adapter.subs[p], l)
<1>1. /\ adapter' = [adapter EXCEPT !.subs[p] = new] /\ turn' = turn
      /\ UNCHANGED <<use, calls, receipts, hearings>>
  BY DEF Subscribe, Toggle
<1>2. /\ adapter \in Adapters /\ p \in Places /\ adapter.subs[p] \in Seq(UseListeners)
      /\ new \in Seq(UseListeners) /\ new # <<>>
  <2>1. adapter \in Adapters /\ p \in Places
    BY InvFacts, UseFacts
  <2>2. adapter.subs[p] \in Seq(UseListeners)
    BY <2>1 DEF Adapters
  <2> HIDE DEF p
  <2> QED BY <2>1, <2>2, AppendProperties
<1>3. /\ adapter' \in Adapters
      /\ adapter'.queued = adapter.queued /\ adapter'.queuedBytes = adapter.queuedBytes
      /\ adapter'.delivering = adapter.delivering /\ adapter'.holding = adapter.holding
      /\ adapter'.holdSoon = adapter.holdSoon /\ adapter'.timers = adapter.timers
      /\ adapter'.keySeqs = adapter.keySeqs /\ adapter'.highestSeq = adapter.highestSeq
      /\ adapter'.subs = [adapter.subs EXCEPT ![p] = new]
      /\ adapter.subs \in [Places -> Seq(UseListeners)]
  <2> HIDE DEF p, new
  <2> QED BY <1>1, <1>2 DEF Adapters
<1>4. Counters(adapter', calls)
  <2>1. \A k \in Keys : HasSubscriber(adapter, k) => HasSubscriber(adapter', k)
    <3> HIDE DEF p, new
    <3> QED BY <1>2, <1>3 DEF HasSubscriber, Places
  <2> QED BY <1>3, <2>1, InvFacts DEF Counters
<1> QED BY <1>1, <1>3, <1>4, ToggleStep, InvFacts

\* An unsubscribe keeps it, also where it takes a listener that was called or is to be called next.
LEMMA UnsubscribeStep ==
    ASSUME AdapterInv, NEW l \in UseListeners, Unsubscribe(l)
    PROVE  AdapterInv'
<1> DEFINE p    == use.listensTo[l]
           old  == adapter.subs[p]
           at   == CHOOSE i \in DOMAIN old : old[i] = l
           left == SubSeq(old, 1, at - 1) \o SubSeq(old, at + 1, Len(old))
           a    == [adapter EXCEPT !.subs[p] = left]
           here == turn.doing # "nothing" /\ turn.live /\ turn.place = p
<1>1. /\ adapter' = (IF HasSubscriber(a, p.key) THEN a ELSE [a EXCEPT !.keySeqs[p.key] = 0])
      /\ turn' = IF here /\ left = <<>> THEN [turn EXCEPT !.live = FALSE]
                 ELSE IF here /\ at <= turn.at THEN [turn EXCEPT !.at = @ - 1] ELSE turn
      /\ UNCHANGED <<use, calls, receipts, hearings>> /\ IsSubscribed(l)
  BY DEF Unsubscribe, Toggle
<1>2. /\ adapter \in Adapters /\ turn \in Turns /\ p \in Places /\ p.key \in Keys
      /\ old \in Seq(UseListeners) /\ at \in DOMAIN old /\ DOMAIN old = 1 .. Len(old)
      /\ Len(old) \in Nat
  <2>1. adapter \in Adapters /\ turn \in Turns /\ p \in Places
    BY InvFacts, UseFacts
  <2>2. old \in Seq(UseListeners) /\ p.key \in Keys
    BY <2>1, InvFacts, UseFacts DEF Adapters
  <2>3. at \in DOMAIN old
    BY <1>1 DEF IsSubscribed
  <2> QED BY <2>1, <2>2, <2>3, LenProperties
<1>3. left \in Seq(UseListeners)
  <2> HIDE DEF old, at
  <2>1. at \in 1 .. Len(old)
    BY <1>2
  <2>2. SubSeq(old, 1, at - 1) \in Seq(UseListeners)
    BY <1>2, <2>1, SubSeqProperties
  <2>3. SubSeq(old, at + 1, Len(old)) \in Seq(UseListeners)
    BY <1>2, <2>1, SubSeqProperties
  <2> QED BY <2>2, <2>3, ConcatProperties
<1>4. /\ a \in Adapters
      /\ a.queued = adapter.queued /\ a.queuedBytes = adapter.queuedBytes
      /\ a.delivering = adapter.delivering /\ a.holding = adapter.holding
      /\ a.holdSoon = adapter.holdSoon /\ a.timers = adapter.timers
      /\ a.keySeqs = adapter.keySeqs /\ a.highestSeq = adapter.highestSeq
      /\ a.subs = [adapter.subs EXCEPT ![p] = left]
      /\ adapter.subs \in [Places -> Seq(UseListeners)]
  <2> HIDE DEF p, left
  <2> QED BY <1>2, <1>3 DEF Adapters
<1>5. /\ adapter' \in Adapters
      /\ adapter'.queued = adapter.queued /\ adapter'.queuedBytes = adapter.queuedBytes
      /\ adapter'.delivering = adapter.delivering /\ adapter'.holding = adapter.holding
      /\ adapter'.holdSoon = adapter.holdSoon /\ adapter'.timers = adapter.timers
      /\ adapter'.highestSeq = adapter.highestSeq /\ adapter'.subs = a.subs
      /\ adapter'.keySeqs = IF HasSubscriber(a, p.key) THEN adapter.keySeqs
                            ELSE [adapter.keySeqs EXCEPT ![p.key] = 0]
  <2>1. CASE HasSubscriber(a, p.key)
    BY <1>1, <1>4, <2>1
  <2>2. CASE ~HasSubscriber(a, p.key)
    <3>1. adapter' = [a EXCEPT !.keySeqs[p.key] = 0]
      BY <1>1, <2>2
    <3> HIDE DEF a, p
    <3> QED BY <1>2, <1>4, <2>2, <3>1 DEF Adapters
  <2> QED BY <2>1, <2>2
<1>6. /\ turn' \in Turns /\ turn'.doing = turn.doing /\ turn'.msg = turn.msg
      /\ turn'.place = turn.place /\ turn'.left = turn.left /\ turn'.held = turn.held
      /\ turn.doing = "nothing" => turn' = turn
  <2>1. CASE here /\ left = <<>>
    <3>1. turn' = [turn EXCEPT !.live = FALSE] /\ turn.doing # "nothing"
      BY <1>1, <2>1
    <3> QED BY <1>2, <3>1 DEF Turns
  <2>2. CASE here /\ left # <<>> /\ at <= turn.at
    <3>1. turn' = [turn EXCEPT !.at = turn.at - 1] /\ turn.doing # "nothing"
      BY <1>1, <2>2
    <3>2. turn.at - 1 \in Nat
      <4>1. turn.at \in Nat /\ at \in 1 .. Len(old) /\ at <= turn.at
        BY <1>2, <2>2 DEF Turns
      <4> HIDE DEF at, old
      <4> QED BY <1>2, <4>1
    <3> QED BY <1>2, <3>1, <3>2 DEF Turns
  <2>3. CASE ~(here /\ left = <<>>) /\ ~(here /\ left # <<>> /\ at <= turn.at)
    <3>1. turn' = turn
      BY <1>1, <2>3
    <3> QED BY <1>2, <3>1
  <2> QED BY <2>1, <2>2, <2>3
<1>7. Counters(adapter', calls)
  <2>1. Counters(adapter, calls) /\ adapter.keySeqs \in [Keys -> Nat] /\ adapter.highestSeq \in Nat
    BY <1>2, InvFacts DEF Adapters
  <2>2. \A k \in Keys : k # p.key => (HasSubscriber(a, k) <=> HasSubscriber(adapter, k))
    <3> HIDE DEF p, left, a
    <3>1. \A q \in Places : q # p => a.subs[q] = adapter.subs[q]
      BY <1>2, <1>4
    <3>2. \A k \in Keys, kind \in Kinds : Place(k, kind) \in Places /\ Place(k, kind).key = k
      BY DEF Places, Place
    <3>3. \A k \in Keys, kind \in Kinds : k # p.key => a.subs[Place(k, kind)] = adapter.subs[Place(k, kind)]
      BY <3>1, <3>2
    <3> QED BY <3>3 DEF HasSubscriber
  <2>3. \A k \in Keys : HasSubscriber(adapter', k) <=> HasSubscriber(a, k)
    <3> HIDE DEF p, left, a
    <3> QED BY <1>5 DEF HasSubscriber
  <2>4. \A k \in Keys : /\ adapter'.keySeqs[k] \in {0, adapter.keySeqs[k]}
                        /\ k = p.key /\ ~HasSubscriber(a, k) => adapter'.keySeqs[k] = 0
    <3> HIDE DEF p, left, a
    <3> QED BY <1>5, <2>1
  <2>5. \A k \in Keys : adapter'.keySeqs[k] > 0 => HasSubscriber(adapter', k)
    <3> HIDE DEF p, left, a
    <3> QED BY <2>1, <2>2, <2>3, <2>4 DEF Counters
  <2>6. \A k \in Keys : adapter'.keySeqs[k] <= adapter'.highestSeq
    <3> HIDE DEF p, left, a
    <3> QED BY <1>5, <2>1, <2>4 DEF Counters
  <2>7. \A d \in Ids : IsDelivered(d) =>
           /\ d <= calls /\ receipts[d].key \in Keys /\ receipts[d].seq <= adapter'.highestSeq
           /\ adapter'.keySeqs[receipts[d].key] > 0
                 => receipts[d].seq <= adapter'.keySeqs[receipts[d].key]
    <3> HIDE DEF p, left, a
    <3> QED BY <1>5, <2>1, <2>4 DEF Counters
  <2> QED BY <2>5, <2>6, <2>7 DEF Counters
<1> HIDE DEF p, old, at, left, a, here
<1> QED BY <1>1, <1>5, <1>6, <1>7, ToggleStep

\* Calling the next listener keeps it: what that listener hears is behind all it heard.
LEMMA CallNextStep ==
    ASSUME AdapterInv, CallNext
    PROVE  AdapterInv'
<1> DEFINE l == adapter.subs[turn.place][turn.at + 1]
           new == Append(hearings[l], turn.msg)
<1>1. /\ turn' = [turn EXCEPT !.at = @ + 1, !.called = TRUE]
      /\ hearings' = [hearings EXCEPT ![l] = new]
      /\ UNCHANGED <<use, adapter, calls, receipts>>
      /\ turn.doing # "nothing" /\ turn.at < Len(adapter.subs[turn.place])
  BY DEF CallNext, More
<1>2. /\ turn \in Turns /\ turn.at \in Nat /\ turn.place \in Places /\ turn.msg \in Ids
      /\ adapter.subs[turn.place] \in Seq(UseListeners) /\ hearings \in [UseListeners -> Seq(Ids)]
      /\ IsDelivered(turn.msg) /\ \A d \in Ids : IsDelivered(d) => ~CalledBefore(turn.msg, d)
  <2>1. /\ turn \in Turns /\ turn.at \in Nat /\ turn.place \in Places
        /\ hearings \in [UseListeners -> Seq(Ids)]
    BY <1>1 DEF AdapterInv, TurnHolds, TypesHold, Turns
  <2>2. adapter.subs[turn.place] \in Seq(UseListeners)
    BY <2>1, InvFacts DEF Adapters
  <2> QED BY <1>1, <2>1, <2>2, InvFacts DEF Latest
<1>3. l \in UseListeners
  <2>1. turn.at + 1 \in 1 .. Len(adapter.subs[turn.place])
    BY <1>1, <1>2, LenProperties
  <2> QED BY <1>2, <2>1, ElementOfSeq
<1>4. /\ hearings[l] \in Seq(Ids) /\ new \in Seq(Ids)
      /\ DOMAIN hearings[l] = 1 .. Len(hearings[l]) /\ Len(hearings[l]) \in Nat
      /\ DOMAIN new = 1 .. Len(hearings[l]) + 1 /\ new[Len(hearings[l]) + 1] = turn.msg
      /\ \A i \in 1 .. Len(hearings[l]) : new[i] = hearings[l][i] /\ hearings[l][i] \in Ids
  <2>1. hearings[l] \in Seq(Ids)
    BY <1>2, <1>3
  <2> HIDE DEF l
  <2> QED BY <1>2, <2>1, AppendProperties, LenProperties, ElementOfSeq
<1>5. hearings' \in [UseListeners -> Seq(Ids)] /\ hearings'[l] = new
      /\ \A k \in UseListeners : k # l => hearings'[k] = hearings[k]
  <2> HIDE DEF l, new
  <2> QED BY <1>1, <1>2, <1>3, <1>4
<1>6. turn' \in Turns /\ turn'.doing = turn.doing /\ turn'.msg = turn.msg
      /\ turn'.place = turn.place /\ turn'.left = turn.left /\ turn'.held = turn.held
  <2>1. turn.at + 1 \in Nat
    BY <1>2
  <2> QED BY <1>1, <1>2, <2>1 DEF Turns
<1>7. TypesHold' /\ TurnHolds'
  <2> HIDE DEF l, new
  <2>1. TypesHold'
    BY <1>1, <1>5, <1>6, SameUse DEF AdapterInv, TypesHold
  <2>2. TurnHolds'
    BY <1>1, <1>6, SameUse DEF AdapterInv, TurnHolds
  <2> QED BY <2>1, <2>2
<1>8. BoundHolds' /\ TimersHold'
  BY <1>1, <1>6, SameUse DEF AdapterInv, BoundHolds, Bounded, TimersHold
<1>9. HeardIsDelivered'
  <2>1. SUFFICES ASSUME NEW k \in UseListeners, NEW i \in DOMAIN hearings'[k]
                 PROVE  IsDelivered(hearings'[k][i])
    BY <1>1, SameUse DEF HeardIsDelivered, IsDelivered
  <2> HIDE DEF l, new
  <2>2. CASE k = l /\ i = Len(hearings[l]) + 1
    BY <1>2, <1>4, <1>5, <2>2
  <2>3. CASE k = l /\ i # Len(hearings[l]) + 1
    <3>1. i \in DOMAIN hearings[l] /\ hearings'[k][i] = hearings[l][i]
      BY <1>4, <1>5, <2>1, <2>3
    <3> QED BY <1>3, <3>1, InvFacts DEF HeardIsDelivered
  <2>4. CASE k # l
    BY <1>5, <2>1, <2>4, InvFacts DEF HeardIsDelivered
  <2> QED BY <2>2, <2>3, <2>4
<1>10. HeardInCallOrder'
  <2>1. SUFFICES ASSUME NEW k \in UseListeners, NEW i \in DOMAIN hearings'[k],
                        NEW j \in DOMAIN hearings'[k], i < j
                 PROVE  ~CalledBefore(hearings'[k][j], hearings'[k][i])
    BY <1>1, SameUse, ZenonT(180) DEF HeardInCallOrder, CalledBefore
  <2> HIDE DEF l, new
  <2>2. CASE k = l /\ j = Len(hearings[l]) + 1
    <3>1. i \in DOMAIN hearings[l] /\ hearings'[k][i] = hearings[l][i] /\ hearings[l][i] \in Ids
          /\ hearings'[k][j] = turn.msg
      BY <1>4, <1>5, <2>1, <2>2
    <3>2. IsDelivered(hearings[l][i])
      BY <1>3, <3>1, InvFacts DEF HeardIsDelivered
    <3> QED BY <1>2, <3>1, <3>2
  <2>3. CASE k = l /\ j # Len(hearings[l]) + 1
    <3>1. /\ i \in DOMAIN hearings[l] /\ hearings'[k][i] = hearings[l][i]
          /\ j \in DOMAIN hearings[l] /\ hearings'[k][j] = hearings[l][j]
      BY <1>4, <1>5, <2>1, <2>3, SMTT(180)
    <3> QED BY <1>3, <2>1, <3>1, InvFacts DEF HeardInCallOrder
  <2>4. CASE k # l
    BY <1>5, <2>1, <2>4, InvFacts DEF HeardInCallOrder
  <2> QED BY <2>2, <2>3, <2>4
<1>11. OrderHolds'
  <2>1. InOrder(adapter.queued, turn.held, calls)'
    <3>1. InOrder(adapter'.queued, turn'.held, calls')
      BY <1>1, <1>6, InvFacts
    <3>2. \A m, c : Waits(m, c)' <=> Waits(m, c)
      BY <1>1, SameUse DEF Waits, IsDelivered
    <3> QED BY <3>1, <3>2 DEF InOrder, MayFollow
  <2>2. Counters(adapter, calls)'
    BY <1>1, InvFacts, SameUse DEF Counters, IsDelivered, HasSubscriber
  <2>3. Latest(turn)'
    BY <1>1, <1>6, InvFacts, SameUse DEF Latest, IsDelivered, CalledBefore
  <2>4. SeqsAscend'
    BY <1>1, InvFacts, SameUse DEF SeqsAscend, CalledBefore
  <2> QED BY <1>9, <1>10, <2>1, <2>2, <2>3, <2>4 DEF OrderHolds
<1>12. adapter'.queuedBytes = Bytes(adapter'.queued)
  BY <1>1, InvFacts
<1> QED BY <1>7, <1>8, <1>11, <1>12 DEF AdapterInv, Bytes

\* The end of a delivery keeps it, whether the drain goes on, ends, or a publish starts one.
LEMMA DeliveryEndsStep ==
    ASSUME AdapterInv, DeliveryEnds
    PROVE  AdapterInv'
<1>1. UNCHANGED <<use, calls, toggles, hearings>> /\ turn.doing # "nothing"
  BY DEF DeliveryEnds
<1>2. \/ turn.doing = "drain" /\ Drain(adapter, turn, turn.left)
      \/ /\ turn.doing = "publish" /\ adapter.queued = <<>> /\ turn' = Idle
         /\ adapter' = [adapter EXCEPT !.delivering = FALSE] /\ receipts' = receipts
      \/ turn.doing = "publish" /\ Drain(adapter, turn, Len(adapter.queued))
  <2>1. turn.doing \in {"publish", "drain"}
    BY <1>1, InvFacts DEF Turns
  <2> QED BY <2>1 DEF DeliveryEnds
<1>3. /\ TypesHold /\ SeqsAscend /\ HeardIsDelivered /\ HeardInCallOrder
      /\ adapter \in Adapters /\ turn \in Turns /\ Len(adapter.queued) \in Nat /\ turn.left \in Nat
      /\ turn.left <= Len(adapter.queued) /\ Len(turn.held) <= 1
      /\ adapter.queuedBytes = Bytes(adapter.queued) /\ calls \in 0 .. use.publishes
      /\ InOrder(adapter.queued, turn.held, calls) /\ Counters(adapter, calls)
      /\ adapter.holdSoon \/ turn.held # <<>> => adapter.timers > 0
  <2>1. turn.left <= Len(adapter.queued) /\ Len(turn.held) <= 1
    BY DEF AdapterInv, TurnHolds
  <2>2. adapter.holdSoon \/ turn.held # <<>> => adapter.timers > 0
    BY DEF AdapterInv, TimersHold
  <2>3. turn.left \in Nat
    BY InvFacts DEF Turns
  <2>4. TypesHold
    BY DEF AdapterInv
  <2> QED BY <2>1, <2>2, <2>3, <2>4, InvFacts
<1>4. CASE turn.doing = "drain" /\ Drain(adapter, turn, turn.left)
  <2>1. Bounded(adapter.queuedBytes, turn.left = Len(adapter.queued))
    BY <1>4 DEF AdapterInv, BoundHolds, Bounded
  <2>2. CanDrain(adapter, turn, turn.left, calls)
    BY <1>3, <2>1 DEF CanDrain
  <2> QED BY <1>1, <1>3, <1>4, <2>2, DrainStep
<1>5. CASE turn.doing = "publish" /\ Drain(adapter, turn, Len(adapter.queued))
  <2>1. Bounded(adapter.queuedBytes, TRUE)
    BY DEF AdapterInv, BoundHolds, Bounded
  <2>2. Len(adapter.queued) <= Len(adapter.queued)
    BY <1>3
  <2>3. CanDrain(adapter, turn, Len(adapter.queued), calls)
    BY <1>3, <2>1, <2>2 DEF CanDrain
  <2> QED BY <1>1, <1>3, <1>5, <2>3, DrainStep
<1>6. CASE /\ turn.doing = "publish" /\ adapter.queued = <<>> /\ turn' = Idle
           /\ adapter' = [adapter EXCEPT !.delivering = FALSE] /\ receipts' = receipts
  <2>1. /\ adapter' \in Adapters /\ adapter'.queued = <<>>
        /\ adapter'.queuedBytes = adapter.queuedBytes /\ adapter'.delivering = FALSE
        /\ adapter'.holding = adapter.holding /\ adapter'.holdSoon = adapter.holdSoon
        /\ adapter'.timers = adapter.timers /\ adapter'.subs = adapter.subs
        /\ adapter'.keySeqs = adapter.keySeqs /\ adapter'.highestSeq = adapter.highestSeq
    BY <1>3, <1>6 DEF Adapters
  <2>2. turn' \in Turns /\ turn'.doing = "nothing" /\ turn'.left = 0 /\ turn'.held = <<>>
    BY <1>6, InvFacts, IdleFacts
  <2>3. TypesHold'
    BY <1>1, <1>6, <2>1, <2>2, SameUse DEF AdapterInv, TypesHold
  <2>4. TurnHolds'
    <3>1. turn'.left <= Len(adapter'.queued) /\ Len(turn'.held) <= 1
      BY <2>1, <2>2
    <3> QED BY <1>6, <2>1, <2>2, <3>1 DEF TurnHolds
  <2>5. BoundHolds'
    <3>1. use.budget \in Nat /\ Largest \in Nat /\ adapter'.queuedBytes = 0
      BY <1>6, <2>1, InvFacts, BytesOfEmpty
    <3> QED BY <1>1, <3>1, SameUse DEF BoundHolds, Bounded
  <2>6. TimersHold'
    BY <1>6, <2>1, <2>2 DEF AdapterInv, TimersHold
  <2>7. OrderHolds'
    <3>1. InOrder(adapter.queued, turn.held, calls)'
      BY <2>1, <2>2 DEF InOrder
    <3>2. Counters(adapter, calls)'
      BY <1>1, <1>3, <1>6, <2>1, SameUse DEF Counters, IsDelivered, HasSubscriber
    <3>3. Latest(turn)'
      BY <2>2 DEF Latest
    <3> QED BY <1>1, <1>6, <3>1, <3>2, <3>3, InvFacts, OrderStays DEF OrderHolds
  <2>8. adapter'.queuedBytes = Bytes(adapter'.queued)
    BY <1>6, <2>1, InvFacts
  <2> QED BY <2>3, <2>4, <2>5, <2>6, <2>7, <2>8 DEF AdapterInv, Bytes
<1> QED BY <1>2, <1>4, <1>5, <1>6

\* The microtask that starts to hold publishes keeps it.
LEMMA HoldPublishesStep ==
    ASSUME AdapterInv, HoldPublishes
    PROVE  AdapterInv'
<1>1. /\ adapter' = [adapter EXCEPT !.holdSoon = FALSE, !.holding = TRUE, !.publishesSinceTurn = 0]
      /\ adapter.holdSoon /\ turn.doing = "nothing"
      /\ UNCHANGED <<use, turn, calls, receipts, hearings>>
  BY DEF HoldPublishes
<1>2. /\ adapter' \in Adapters /\ adapter'.queued = adapter.queued
      /\ adapter'.queuedBytes = adapter.queuedBytes /\ adapter'.delivering = adapter.delivering
      /\ adapter'.timers = adapter.timers /\ adapter'.subs = adapter.subs
      /\ adapter'.keySeqs = adapter.keySeqs /\ adapter'.highestSeq = adapter.highestSeq
  BY <1>1, InvFacts DEF Adapters
<1>3. TypesHold' /\ TurnHolds'
  BY <1>1, <1>2, SameUse DEF AdapterInv, TypesHold, TurnHolds
<1>4. BoundHolds'
  BY <1>1, <1>2, SameUse DEF AdapterInv, BoundHolds, Bounded
<1>5. TimersHold'
  <2>1. adapter.timers > 0
    BY <1>1 DEF AdapterInv, TimersHold
  <2> QED BY <1>1, <1>2, <2>1 DEF TimersHold
<1>6. OrderHolds'
  <2>1. InOrder(adapter.queued, turn.held, calls)'
    <3>1. InOrder(adapter'.queued, turn'.held, calls')
      BY <1>1, <1>2, InvFacts
    <3>2. \A m, c : Waits(m, c)' <=> Waits(m, c)
      BY <1>1, InvFacts, OrderStays
    <3> QED BY <3>1, <3>2 DEF InOrder, MayFollow
  <2>2. Counters(adapter, calls)'
    BY <1>1, <1>2, InvFacts, SameUse DEF Counters, IsDelivered, HasSubscriber
  <2>3. Latest(turn)'
    BY <1>1 DEF Latest
  <2> QED BY <1>1, <2>1, <2>2, <2>3, InvFacts, OrderStays DEF OrderHolds
<1>7. adapter'.queuedBytes = Bytes(adapter'.queued)
  BY <1>2, InvFacts
<1> QED BY <1>3, <1>4, <1>5, <1>6, <1>7 DEF AdapterInv, Bytes

\* The timer that drains what was held keeps it.
LEMMA TimerFiresStep ==
    ASSUME AdapterInv, TimerFires
    PROVE  AdapterInv'
<1> DEFINE a == [adapter EXCEPT !.timers = @ - 1]
<1>1. /\ adapter.timers > 0 /\ turn.doing = "nothing" /\ ~adapter.holdSoon
      /\ Drain(a, Idle, Len(adapter.queued)) /\ UNCHANGED <<use, calls, toggles, hearings>>
  BY DEF TimerFires
<1>2. turn = Idle /\ TypesHold /\ Idle \in Turns /\ Idle.held = <<>>
  BY <1>1, InvFacts, IdleFacts DEF AdapterInv, TurnHolds
<1>3. /\ a \in Adapters /\ a.queued = adapter.queued /\ a.queuedBytes = adapter.queuedBytes
      /\ a.holdSoon = adapter.holdSoon /\ a.subs = adapter.subs /\ a.keySeqs = adapter.keySeqs
      /\ a.highestSeq = adapter.highestSeq
  <2>1. adapter.timers - 1 \in Nat
    BY <1>1, InvFacts
  <2> QED BY <2>1, InvFacts DEF Adapters
<1>4. CanDrain(a, Idle, Len(adapter.queued), calls)
  <2>1. /\ Len(adapter.queued) \in Nat /\ adapter.queuedBytes = Bytes(adapter.queued)
        /\ InOrder(adapter.queued, Idle.held, calls) /\ Counters(adapter, calls)
    BY <1>2, InvFacts
  <2>2. Counters(a, calls)
    <3> HIDE DEF a
    <3> QED BY <1>3, <2>1 DEF Counters, HasSubscriber
  <2>3. Bounded(a.queuedBytes, TRUE)
    BY <1>3 DEF AdapterInv, BoundHolds, Bounded
  <2>4. Len(Idle.held) <= 1 /\ Len(adapter.queued) <= Len(a.queued)
    BY <1>2, <1>3, <2>1
  <2> HIDE DEF a
  <2> QED BY <1>1, <1>2, <1>3, <2>1, <2>2, <2>3, <2>4 DEF CanDrain
<1> HIDE DEF a
<1> QED BY <1>1, <1>2, <1>4, InvFacts, DrainStep

\* A step that changes nothing.
LEMMA AdapterStutter ==
    ASSUME AdapterInv, UNCHANGED adapterVars
    PROVE  AdapterInv'
<1>1. TypesHold' /\ TurnHolds'
  BY SameUse DEF AdapterInv, TypesHold, TurnHolds, adapterVars
<1>2. BoundHolds' /\ TimersHold'
  BY SameUse DEF AdapterInv, BoundHolds, Bounded, TimersHold, adapterVars
<1>3. OrderHolds'
  <2>1. UNCHANGED <<use, adapter, turn, calls, receipts, hearings>>
    BY DEF adapterVars
  <2>2. InOrder(adapter.queued, turn.held, calls)'
    <3>1. InOrder(adapter'.queued, turn'.held, calls')
      BY <2>1, InvFacts
    <3>2. \A m, c : Waits(m, c)' <=> Waits(m, c)
      BY <2>1, InvFacts, OrderStays
    <3> QED BY <3>1, <3>2 DEF InOrder, MayFollow
  <2>3. Counters(adapter, calls)' /\ Latest(turn)'
    BY <2>1, InvFacts, SameUse DEF Counters, IsDelivered, HasSubscriber, Latest, CalledBefore
  <2> QED BY <2>1, <2>2, <2>3, InvFacts, OrderStays DEF OrderHolds
<1>4. adapter'.queuedBytes = Bytes(adapter'.queued)
  BY InvFacts DEF adapterVars
<1> QED BY <1>1, <1>2, <1>3, <1>4 DEF AdapterInv, Bytes

-----------------------------------------------------------------------------
(* What holds *)

\* The invariant holds of the adapter, in every state.
THEOREM AdapterIsSound == AdapterSpec => []AdapterInv
<1>1. AdapterInit => AdapterInv
  BY AdapterInvInit
<1>2. AdapterInv /\ [AdapterNext]_adapterVars => AdapterInv'
  <2> SUFFICES ASSUME AdapterInv, [AdapterNext]_adapterVars PROVE AdapterInv'
    OBVIOUS
  <2>1. ASSUME NEW place \in Places, NEW size \in use.sizes, PublishLocally(place, size)
        PROVE AdapterInv'
    BY <2>1, AdapterPublishStep
  <2>2. ASSUME NEW l \in UseListeners, Subscribe(l) PROVE AdapterInv'
    BY <2>2, SubscribeStep
  <2>3. ASSUME NEW l \in UseListeners, Unsubscribe(l) PROVE AdapterInv'
    BY <2>3, UnsubscribeStep
  <2>4. CASE CallNext
    BY <2>4, CallNextStep
  <2>5. CASE DeliveryEnds
    BY <2>5, DeliveryEndsStep
  <2>6. CASE HoldPublishes
    BY <2>6, HoldPublishesStep
  <2>7. CASE TimerFires
    BY <2>7, TimerFiresStep
  <2>8. CASE UNCHANGED adapterVars
    BY <2>8, AdapterStutter
  <2> QED BY <2>1, <2>2, <2>3, <2>4, <2>5, <2>6, <2>7, <2>8 DEF AdapterNext, LoopStep
<1> QED BY <1>1, <1>2, PTL DEF AdapterSpec

\* Listeners hear messages in the order of their publishes and the seqs of a key ascend with
\* them, whatever waits, whoever publishes, subscribes and unsubscribes (publishInMemory,
\* queueInMemory): for any listeners, sizes and budget.
THEOREM OrderKept == AdapterSpec => []OrderIsKept
<1>1. AdapterInv => OrderIsKept
  BY DEF AdapterInv, OrderHolds, OrderIsKept
<1> QED BY <1>1, AdapterIsSound, PTL

\* What waits is counted, within maxPendingBytes and a message, and due to a timer.
THEOREM QueueKept == AdapterSpec => []QueueHolds
<1>1. AdapterInv => QueueHolds
  <2> SUFFICES ASSUME AdapterInv PROVE QueueHolds
    OBVIOUS
  <2>1. QueueIsBounded
    BY DEF AdapterInv, BoundHolds, Bounded, QueueIsBounded
  <2>2. WaitingIsScheduled
    BY DEF AdapterInv, TimersHold, WaitingIsScheduled
  <2>3. \A i \in DOMAIN adapter.queued : adapter.queued[i].id \in 1 .. calls
    <3>1. \A i \in DOMAIN adapter.queued : adapter.queued[i].id \in Ids /\ adapter.queued[i].id <= calls
      <4>1. \A i \in DOMAIN adapter.queued : adapter.queued[i] \in Messages
        BY InvFacts, QueueFacts
      <4> QED BY <4>1, InvFacts DEF Messages, InOrder, Waits
    <3> QED BY <3>1, InvFacts DEF Ids
  <2>4. AdapterTypeOK
    BY <2>3, InvFacts DEF AdapterInv, TurnHolds, Counters, AdapterTypeOK
  <2> QED BY <2>1, <2>2, <2>4 DEF QueueHolds
<1> QED BY <1>1, AdapterIsSound, PTL

-----------------------------------------------------------------------------
(***************************************************************************)
(* MessageLoop, for any messages and budgets: the body gets every message  *)
(* in order, no message keeps its source waiting, and what is held is what *)
(* is queued.                                                              *)
(***************************************************************************)

(* The state *)

Runs == {"running", "body"}
Loop ==
    [at : {"new", "running", "body", "returned", "threw", "left"}, queue : Seq(Nat),
     held : [Types -> Int], registered : BOOLEAN, ended : BOOLEAN,
     error : {"none", "behind", "failed", "aborted"}, check : BOOLEAN, body : Nat, since : Nat]

LoopTypes ==
    /\ for \in Loops /\ loop \in Loop
    /\ source \in [is : {"open", "closed", "failed"}, told : BOOLEAN]
    /\ arrived \in 0 .. Len(for.arrivals) /\ got \in Seq(Nat)

\* Where the loop is in what arrived: the last message its body got.
LastGot == loop.since + Len(got)

\* The body got the first of what arrived since the loop started, and the queue has the next.
Follows ==
    /\ \A i \in DOMAIN got : got[i] = loop.since + i
    /\ \A i \in DOMAIN loop.queue : loop.queue[i] = LastGot + i
    /\ LastGot + Len(loop.queue) <= arrived
    /\ loop.at = "body" => loop.body = LastGot /\ LastGot > 0
    /\ loop.at # "body" => loop.body = 0
    /\ loop.at \in Runs /\ loop.error = "none" => LastGot + Len(loop.queue) = arrived
    /\ loop.at = "returned" => LastGot = arrived

\* Whether the loop listens, and that what it misses otherwise never comes, or is not its to take.
Listens ==
    /\ loop.at = "new" => loop.queue = <<>> /\ got = <<>>
    /\ loop.ended /\ loop.error = "none" => source.is # "open" /\ loop.at # "new"
    /\ loop.error # "none" => loop.ended /\ loop.queue = <<>>
    /\ Over => loop.queue = <<>>
    /\ loop.at = "returned" => source.is # "open"
    /\ loop.registered <=> loop.at \in Runs /\ ~loop.ended

\* The messages whose promise is open: the queue's, and the body's.
Open == (IF loop.at = "body" THEN LastGot ELSE LastGot + 1) .. LastGot + Len(loop.queue)
SettlesAll == settled = (1 .. arrived) \ Open

\* The inductive invariant.
LoopInv == LoopTypes /\ Follows /\ Listens /\ SettlesAll /\ HeldIsQueued

-----------------------------------------------------------------------------
(* Facts about it *)

\* The types of the state, one by one.
LEMMA LoopFacts ==
    ASSUME LoopInv
    PROVE  /\ for \in Loops /\ for.arrivals \in Seq([type : Types, size : Nat])
           /\ Len(for.arrivals) \in Nat /\ DOMAIN for.arrivals = 1 .. Len(for.arrivals)
           /\ \A i \in 1 .. Len(for.arrivals) : for.arrivals[i].type \in Types /\ for.arrivals[i].size \in Nat
           /\ for.budget # <<>> => for.budget[1] \in [Types -> Nat]
           /\ loop \in Loop /\ loop.queue \in Seq(Nat) /\ Len(loop.queue) \in Nat
           /\ DOMAIN loop.queue = 1 .. Len(loop.queue)
           /\ (Len(loop.queue) = 0 <=> loop.queue = <<>>)
           /\ got \in Seq(Nat) /\ Len(got) \in Nat /\ DOMAIN got = 1 .. Len(got)
           /\ arrived \in Nat /\ arrived <= Len(for.arrivals)
           /\ loop.since \in Nat /\ loop.body \in Nat /\ LastGot \in Nat
           /\ loop.held \in [Types -> Int]
<1>1. /\ for \in Loops /\ loop \in Loop /\ arrived \in 0 .. Len(for.arrivals) /\ got \in Seq(Nat)
  BY DEF LoopInv, LoopTypes
<1>2. /\ for.arrivals \in Seq([type : Types, size : Nat])
      /\ for.budget \in Seq([Types -> Nat])
  BY <1>1, LoopsAssumption
<1>3. /\ Len(for.arrivals) \in Nat /\ DOMAIN for.arrivals = 1 .. Len(for.arrivals)
      /\ \A i \in 1 .. Len(for.arrivals) : for.arrivals[i].type \in Types /\ for.arrivals[i].size \in Nat
  <2>1. \A i \in 1 .. Len(for.arrivals) : for.arrivals[i] \in [type : Types, size : Nat]
    BY <1>2, ElementOfSeq
  <2> QED BY <1>2, <2>1, LenProperties
<1>4. for.budget # <<>> => for.budget[1] \in [Types -> Nat]
  <2>1. SUFFICES ASSUME for.budget # <<>> PROVE for.budget[1] \in [Types -> Nat]
    OBVIOUS
  <2>2. 1 \in 1 .. Len(for.budget)
    BY <1>2, <2>1, EmptySeq, LenProperties
  <2> QED BY <1>2, <2>2, ElementOfSeq
<1>5. /\ loop.queue \in Seq(Nat) /\ loop.since \in Nat /\ loop.body \in Nat
      /\ loop.held \in [Types -> Int]
  BY <1>1 DEF Loop
<1>6. /\ Len(loop.queue) \in Nat /\ DOMAIN loop.queue = 1 .. Len(loop.queue)
      /\ (Len(loop.queue) = 0 <=> loop.queue = <<>>) /\ Len(got) \in Nat /\ DOMAIN got = 1 .. Len(got)
  BY <1>1, <1>5, LenProperties, EmptySeq
<1>7. arrived \in Nat /\ arrived <= Len(for.arrivals) /\ LastGot \in Nat
  BY <1>1, <1>3, <1>5, <1>6 DEF LastGot
<1> QED BY <1>1, <1>2, <1>3, <1>4, <1>5, <1>6, <1>7

\* The queue is what arrived behind the last message got.
LEMMA QueueIs ==
    ASSUME LoopInv
    PROVE  ToSet(loop.queue) = LastGot + 1 .. LastGot + Len(loop.queue)
<1> DEFINE n == Len(loop.queue)
<1>1. \A i \in 1 .. n : loop.queue[i] = LastGot + i
  BY LoopFacts DEF LoopInv, Follows
<1>2. n \in Nat /\ LastGot \in Nat /\ DOMAIN loop.queue = 1 .. n
  BY LoopFacts
<1>3. ASSUME NEW x \in LastGot + 1 .. LastGot + n PROVE x \in ToSet(loop.queue)
  <2>1. x - LastGot \in 1 .. n /\ LastGot + (x - LastGot) = x
    BY <1>2
  <2> QED BY <1>1, <1>2, <2>1 DEF ToSet
<1>4. ASSUME NEW x \in ToSet(loop.queue) PROVE x \in LastGot + 1 .. LastGot + n
  BY <1>1, <1>2 DEF ToSet
<1> QED BY <1>3, <1>4

\* What a queue of ids holds, as one joins it, and as one leaves.
LEMMA SizesJoined ==
    ASSUME LoopInv, NEW q \in Seq(1 .. Len(for.arrivals)), NEW id \in 1 .. Len(for.arrivals),
           NEW t \in Types
    PROVE  SumOf(SizesOf(t, Append(q, id))) =
               SumOf(SizesOf(t, q)) + (IF for.arrivals[id].type = t THEN for.arrivals[id].size ELSE 0)
<1> DEFINE size(i) == IF for.arrivals[i].type = t THEN for.arrivals[i].size ELSE 0
           p == Append(q, id)
           a == SizesOf(t, q)
           b == SizesOf(t, p)
<1>1. /\ Len(q) \in Nat /\ DOMAIN q = 1 .. Len(q) /\ DOMAIN p = 1 .. Len(q) + 1
      /\ p[Len(q) + 1] = id
      /\ \A i \in 1 .. Len(q) : p[i] = q[i] /\ q[i] \in 1 .. Len(for.arrivals)
  BY AppendProperties, LenProperties, ElementOfSeq
<1>2. \A i \in 1 .. Len(for.arrivals) : size(i) \in Nat
  BY LoopFacts
<1>3. a = [i \in 1 .. Len(q) |-> size(q[i])] /\ b = [i \in 1 .. Len(q) + 1 |-> size(p[i])]
  BY <1>1 DEF SizesOf
<1>4. a \in Seq(Nat) /\ Len(a) = Len(q) /\ b \in Seq(Nat) /\ Len(b) = Len(q) + 1
  <2>1. (\A i \in 1 .. Len(q) : size(q[i]) \in Nat) /\ \A i \in 1 .. Len(q) + 1 : size(p[i]) \in Nat
    BY <1>1, <1>2, SMTT(180)
  <2> HIDE DEF a, b, size
  <2> QED BY <1>1, <1>3, <2>1
<1>5. b = Append(a, size(id))
  <2>1. /\ Append(a, size(id)) \in Seq(Nat) /\ Len(Append(a, size(id))) = Len(q) + 1
        /\ \A i \in 1 .. Len(q) : Append(a, size(id))[i] = a[i]
        /\ Append(a, size(id))[Len(q) + 1] = size(id)
    <3> HIDE DEF a, size
    <3> QED BY <1>2, <1>4, AppendProperties
  <2>2. \A i \in 1 .. Len(q) + 1 : b[i] = Append(a, size(id))[i]
    <3> HIDE DEF a, b, size
    <3> QED BY <1>1, <1>3, <2>1
  <2> HIDE DEF a, b, size
  <2> QED BY <1>4, <2>1, <2>2, SeqEqual
<1> HIDE DEF a, b
<1> QED BY <1>2, <1>4, <1>5, SumOfAppend DEF a, b

\* What is left of a queue holds the bytes of its first message less.
LEMMA SizesLeft ==
    ASSUME LoopInv, NEW q \in Seq(1 .. Len(for.arrivals)), q # <<>>, NEW t \in Types
    PROVE  SumOf(SizesOf(t, Tail(q))) =
               SumOf(SizesOf(t, q)) - (IF for.arrivals[Head(q)].type = t THEN for.arrivals[Head(q)].size ELSE 0)
<1> DEFINE size(i) == IF for.arrivals[i].type = t THEN for.arrivals[i].size ELSE 0
           p == Tail(q)
           a == SizesOf(t, q)
           b == SizesOf(t, p)
<1>1. /\ Len(q) \in Nat \ {0} /\ DOMAIN q = 1 .. Len(q) /\ DOMAIN p = 1 .. Len(q) - 1
      /\ Head(q) = q[1]
      /\ \A i \in 1 .. Len(q) - 1 : p[i] = q[i + 1]
      /\ \A i \in 1 .. Len(q) : q[i] \in 1 .. Len(for.arrivals)
  <2>1. /\ p \in Seq(1 .. Len(for.arrivals)) /\ Len(q) \in Nat \ {0} /\ Len(p) = Len(q) - 1
        /\ (\A i \in 1 .. Len(p) : p[i] = q[i + 1]) /\ Head(q) = q[1]
    BY HeadTailProperties, LenProperties, EmptySeq
  <2>2. \A i \in 1 .. Len(q) : q[i] \in 1 .. Len(for.arrivals)
    BY ElementOfSeq
  <2>3. DOMAIN q = 1 .. Len(q) /\ DOMAIN p = 1 .. Len(p)
    BY <2>1, LenProperties
  <2> QED BY <2>1, <2>2, <2>3
<1>2. \A i \in 1 .. Len(for.arrivals) : size(i) \in Nat
  BY LoopFacts
<1>3. a = [i \in 1 .. Len(q) |-> size(q[i])] /\ b = [i \in 1 .. Len(q) - 1 |-> size(p[i])]
  BY <1>1 DEF SizesOf
<1>4. a \in Seq(Nat) /\ Len(a) = Len(q) /\ b \in Seq(Nat) /\ Len(b) = Len(q) - 1
  <2>1. (\A i \in 1 .. Len(q) : size(q[i]) \in Nat) /\ \A i \in 1 .. Len(q) - 1 : size(p[i]) \in Nat
    BY <1>1, <1>2, SMTT(180)
  <2> HIDE DEF a, b, size
  <2> QED BY <1>1, <1>3, <2>1
<1>5. b = Tail(a) /\ Head(a) = size(Head(q)) /\ a # <<>>
  <2>1. a # <<>>
    <3> HIDE DEF a
    <3> QED BY <1>1, <1>4
  <2>2. /\ Tail(a) \in Seq(Nat) /\ Len(Tail(a)) = Len(q) - 1 /\ Head(a) = a[1]
        /\ \A i \in 1 .. Len(q) - 1 : Tail(a)[i] = a[i + 1]
    <3> HIDE DEF a
    <3> QED BY <1>4, <2>1, HeadTailProperties
  <2>3. (\A i \in 1 .. Len(q) - 1 : b[i] = Tail(a)[i]) /\ a[1] = size(Head(q))
    <3> HIDE DEF a, b, size
    <3> QED BY <1>1, <1>3, <2>2
  <2>4. b = Tail(a)
    <3> HIDE DEF a, b, size
    <3> QED BY <1>1, <1>4, <2>2, <2>3, SeqEqual
  <2> QED BY <2>1, <2>2, <2>3, <2>4
<1> HIDE DEF a, b
<1> QED BY <1>2, <1>4, <1>5, SumOfTail DEF a, b

\* An empty queue holds nothing.
LEMMA SizesOfNone == \A t \in Types : SumOf(SizesOf(t, <<>>)) = 0
<1> SUFFICES ASSUME NEW t \in Types PROVE SumOf(SizesOf(t, <<>>)) = 0
  OBVIOUS
<1>1. SizesOf(t, <<>>) = <<>>
  BY DEF SizesOf
<1> QED BY <1>1, SumOfEmpty

-----------------------------------------------------------------------------
(* The steps *)

\* Nothing is held of an empty queue, which is not behind.
LEMMA NoneIsHeld ==
    ASSUME for \in Loops, for' = for, loop'.queue = <<>>, loop'.held = [t \in Types |-> 0]
    PROVE  HeldIsQueued'
<1>1. ASSUME for.budget # <<>> PROVE for.budget[1] \in [Types -> Nat]
  <2>1. for.budget \in Seq([Types -> Nat])
    BY LoopsAssumption
  <2>2. 1 \in 1 .. Len(for.budget)
    BY <1>1, <2>1, EmptySeq, LenProperties
  <2> QED BY <2>1, <2>2, ElementOfSeq
<1>2. \A t \in Types : loop'.held[t] = SumOf(SizesOf(t, loop.queue))'
  <2> SUFFICES ASSUME NEW t \in Types PROVE loop'.held[t] = SumOf(SizesOf(t, loop.queue))'
    OBVIOUS
  <2>1. SizesOf(t, loop.queue)' = SizesOf(t, <<>>)
    BY DEF SizesOf
  <2> QED BY <2>1, SizesOfNone
<1>3. for.budget # <<>> => ~Behind(loop)'
  <2>1. SUFFICES ASSUME for.budget # <<>>, NEW t \in Types PROVE ~(loop'.held[t] > for.budget[1][t])
    BY DEF Behind
  <2>2. for.budget[1][t] \in Nat
    BY <1>1, <2>1
  <2>3. loop'.held[t] = 0
    OBVIOUS
  <2> QED BY <2>2, <2>3
<1> QED BY <1>2, <1>3 DEF HeldIsQueued

\* A failure ends the loop, and lets go of what is queued.
LEMMA FailStep ==
    ASSUME LoopInv, NEW l \in Loop, l.at = loop.at, l.since = loop.since, l.body = loop.body,
           l.queue = <<>>, l.held = [t \in Types |-> 0], l.error # "none", l.ended, ~l.registered,
           loop' = l, settled' = settled \cup Dropped(l), for' = for, arrived' = arrived,
           got' = got,
           source' \in [is : {"open", "closed", "failed"}, told : BOOLEAN],
           source'.is = source.is
    PROVE  LoopInv'
<1>1. LoopTypes'
  BY DEF LoopInv, LoopTypes
<1>2. LastGot' = LastGot /\ LastGot \in Nat /\ arrived \in Nat /\ Len(loop.queue) \in Nat
      /\ LastGot + Len(loop.queue) <= arrived /\ Len(loop'.queue) = 0
  BY LoopFacts DEF LastGot, LoopInv, Follows
<1>3. Follows'
  BY <1>2 DEF LoopInv, Follows
<1>4. Listens'
  BY DEF LoopInv, Listens, Over, Runs
<1>5. SettlesAll'
  <2>1. ToSet(l.queue) = {} /\ ToSet(loop.queue) = LastGot + 1 .. LastGot + Len(loop.queue)
    BY QueueIs DEF ToSet
  <2>2. settled' = settled \cup (LastGot + 1 .. LastGot + Len(loop.queue))
    BY <2>1 DEF Dropped
  <2>3. /\ settled = (1 .. arrived) \ ((IF loop.at = "body" THEN LastGot ELSE LastGot + 1)
                                          .. LastGot + Len(loop.queue))
    BY DEF LoopInv, SettlesAll, Open
  <2>4. Open' = (IF loop.at = "body" THEN LastGot ELSE LastGot + 1) .. LastGot
    BY <1>2 DEF Open
  <2>5. settled' = (1 .. arrived) \ ((IF loop.at = "body" THEN LastGot ELSE LastGot + 1) .. LastGot)
    <3>1. CASE loop.at = "body"
      BY <1>2, <2>2, <2>3, <3>1
    <3>2. CASE loop.at # "body"
      BY <1>2, <2>2, <2>3, <3>2
    <3> QED BY <3>1, <3>2
  <2> QED BY <2>4, <2>5 DEF SettlesAll
<1>6. HeldIsQueued'
  BY LoopFacts, NoneIsHeld
<1> QED BY <1>1, <1>3, <1>4, <1>5, <1>6 DEF LoopInv

\* The loop is over, and lets go of what is queued and of what its body had.
LEMMA LeaveStep ==
    ASSUME LoopInv, NEW as \in {"returned", "threw", "left"}, Leaves(loop, as),
           as = "returned" => loop.queue = <<>> /\ loop.error = "none" /\ loop.ended,
           loop.at \in Runs, UNCHANGED <<for, source, arrived, got>>
    PROVE  LoopInv'
<1>1. /\ loop' = Release([loop EXCEPT !.at = as, !.registered = FALSE, !.check = FALSE, !.body = 0])
      /\ settled' = settled \cup ToSet(loop.queue) \cup ({loop.body} \ {0})
  BY DEF Leaves
<1>2. /\ loop' \in Loop /\ loop'.at = as /\ loop'.queue = <<>> /\ loop'.held = [t \in Types |-> 0]
      /\ ~loop'.registered /\ loop'.ended = loop.ended /\ loop'.error = loop.error
      /\ loop'.body = 0 /\ loop'.since = loop.since
  <2>1. <<>> \in Seq(Nat) /\ [t \in Types |-> 0] \in [Types -> Int]
    OBVIOUS
  <2> QED BY <1>1, <2>1, LoopFacts DEF Release, Loop
<1>3. LoopTypes'
  BY <1>2 DEF LoopInv, LoopTypes
<1>4. LastGot' = LastGot /\ LastGot \in Nat /\ arrived \in Nat /\ Len(loop.queue) \in Nat
      /\ LastGot + Len(loop.queue) <= arrived /\ Len(loop'.queue) = 0
  BY <1>2, LoopFacts DEF LastGot, LoopInv, Follows
<1>5. as = "returned" => LastGot = arrived /\ source.is # "open"
  BY <1>4 DEF LoopInv, Follows, Listens
<1>6. Follows'
  <2>1. (\A i \in DOMAIN got : got[i] = loop.since + i)'
    BY <1>2 DEF LoopInv, Follows
  <2>2. (\A i \in DOMAIN loop.queue : loop.queue[i] = LastGot + i)'
    BY <1>2
  <2>3. (LastGot + Len(loop.queue) <= arrived)'
    BY <1>4
  <2>4. (loop.at # "body" => loop.body = 0)' /\ loop'.at \notin {"body", "running"}
    BY <1>2
  <2>5. (loop.at = "returned" => LastGot = arrived)'
    BY <1>2, <1>4, <1>5
  <2> QED BY <2>1, <2>2, <2>3, <2>4, <2>5 DEF Follows, Runs
<1>7. Listens'
  BY <1>2, <1>5 DEF LoopInv, Listens, Over, Runs
<1>8. SettlesAll'
  <2>1. ToSet(loop.queue) = LastGot + 1 .. LastGot + Len(loop.queue)
    BY QueueIs
  <2>2. settled = (1 .. arrived) \ ((IF loop.at = "body" THEN LastGot ELSE LastGot + 1)
                                       .. LastGot + Len(loop.queue))
    BY DEF LoopInv, SettlesAll, Open
  <2>3. Open' = LastGot + 1 .. LastGot
    <3>1. loop'.at # "body"
      BY <1>2
    <3>2. LastGot' = LastGot /\ LastGot + Len(loop'.queue) = LastGot
      BY <1>4
    <3> QED BY <3>1, <3>2 DEF Open
  <2>4. settled' = 1 .. arrived
    <3>1. CASE loop.at = "body"
      <4>1. loop.body = LastGot /\ LastGot > 0
        BY <3>1 DEF LoopInv, Follows
      <4>2. settled' = settled \cup (LastGot .. LastGot + Len(loop.queue))
        BY <1>1, <1>4, <2>1, <4>1
      <4> QED BY <1>4, <2>2, <3>1, <4>1, <4>2
    <3>2. CASE loop.at # "body"
      <4>1. settled' = settled \cup (LastGot + 1 .. LastGot + Len(loop.queue))
        BY <1>1, <2>1, <3>2 DEF LoopInv, Follows
      <4> QED BY <1>4, <2>2, <3>2, <4>1
    <3> QED BY <3>1, <3>2
  <2> QED BY <1>4, <2>3, <2>4 DEF SettlesAll
<1>9. HeldIsQueued'
  BY <1>2, LoopFacts, NoneIsHeld
<1> QED BY <1>3, <1>6, <1>7, <1>8, <1>9 DEF LoopInv

\* A step that leaves the queue, what is held, and what was got as they are.
LEMMA QueueStays ==
    ASSUME LoopInv, loop'.queue = loop.queue, loop'.held = loop.held, loop'.check = loop.check,
           for' = for
    PROVE  HeldIsQueued'
<1>1. \A t \in Types : SizesOf(t, loop.queue)' = SizesOf(t, loop.queue)
  BY DEF SizesOf
<1>2. Behind(loop)' <=> Behind(loop)
  BY DEF Behind
<1> QED BY <1>1, <1>2 DEF LoopInv, HeldIsQueued

\* The queue is of messages that may arrive.
LEMMA QueueIds ==
    ASSUME LoopInv
    PROVE  loop.queue \in Seq(1 .. Len(for.arrivals))
<1>1. /\ loop.queue \in Seq(Nat) /\ LastGot \in Nat /\ arrived \in Nat
      /\ arrived <= Len(for.arrivals)
      /\ Len(for.arrivals) \in Nat /\ Len(loop.queue) \in Nat
      /\ \A i \in 1 .. Len(loop.queue) : loop.queue[i] = LastGot + i
      /\ LastGot + Len(loop.queue) <= arrived
  BY LoopFacts DEF LoopInv, Follows
<1>2. ASSUME NEW i \in 1 .. Len(loop.queue) PROVE loop.queue[i] \in 1 .. Len(for.arrivals)
  <2>1. LastGot + i \in 1 .. Len(for.arrivals)
    BY <1>1, SMTT(180)
  <2> QED BY <1>1, <2>1
<1>3. /\ DOMAIN loop.queue = 1 .. Len(loop.queue)
      /\ loop.queue = [i \in 1 .. Len(loop.queue) |-> loop.queue[i]]
  BY <1>1, LenProperties
<1> DEFINE q == loop.queue
           n == Len(loop.queue)
           S == 1 .. Len(for.arrivals)
<1>4. n \in Nat /\ q = [i \in 1 .. n |-> q[i]] /\ \A i \in 1 .. n : q[i] \in S
  BY <1>1, <1>2, <1>3
<1> HIDE DEF q, n, S
<1>5. q \in [1 .. n -> S]
  BY <1>4
<1>6. q \in Seq(S)
  BY <1>4, <1>5, SeqDef
<1> QED BY <1>6 DEF q, S

\* The first next() starts to follow what arrives.
LEMMA StartStep ==
    ASSUME LoopInv, Starts
    PROVE  LoopInv'
<1>1. /\ loop.at = "new"
      /\ loop' = [loop EXCEPT !.at = "running", !.registered = ~loop.ended, !.since = arrived]
      /\ for' = for /\ source' = source /\ arrived' = arrived /\ got' = got /\ settled' = settled
  BY DEF Starts
<1>2. /\ loop.queue = <<>> /\ got = <<>> /\ Len(got) = 0 /\ Len(loop.queue) = 0
      /\ loop.since \in Nat /\ arrived \in Nat /\ LastGot = loop.since /\ loop.body = 0
      /\ loop \in Loop
      /\ loop.since <= arrived
  BY <1>1, LoopFacts DEF LoopInv, Listens, Follows, LastGot
<1>3. /\ loop' \in Loop /\ loop'.at = "running" /\ loop'.registered = ~loop.ended
      /\ loop'.since = arrived
      /\ loop'.queue = loop.queue /\ loop'.held = loop.held /\ loop'.check = loop.check
      /\ loop'.ended = loop.ended /\ loop'.error = loop.error /\ loop'.body = 0
  BY <1>1, <1>2 DEF Loop
<1>4. LoopTypes'
  BY <1>1, <1>3 DEF LoopInv, LoopTypes
<1>5. LastGot' = arrived
  BY <1>1, <1>2, <1>3 DEF LastGot
<1>6. Follows'
  BY <1>1, <1>2, <1>3, <1>5 DEF Follows
<1>7. Listens'
  BY <1>1, <1>2, <1>3 DEF LoopInv, Listens, Over, Runs
<1>8. SettlesAll'
  <2>1. /\ settled = (1 .. arrived) \ ((loop.since + 1) .. loop.since)
        /\ Open' = (arrived + 1) .. arrived
    BY <1>1, <1>2, <1>3, <1>5 DEF LoopInv, SettlesAll, Open
  <2> QED BY <1>1, <1>2, <2>1 DEF SettlesAll
<1>9. HeldIsQueued'
  BY <1>1, <1>3, QueueStays
<1> QED BY <1>4, <1>6, <1>7, <1>8, <1>9 DEF LoopInv

\* A message joins the queue of a loop that listens.
LEMMA JoinStep ==
    ASSUME LoopInv, MessageArrives, loop.registered
    PROVE  LoopInv'
<1> DEFINE id == arrived + 1
           m == for.arrivals[id]
           h == [loop.held EXCEPT ![m.type] = IF for.budget = <<>> THEN @ ELSE @ + m.size]
           n == Len(loop.queue)
<1>1. /\ arrived < Len(for.arrivals) /\ arrived' = id /\ for' = for /\ source' = source
      /\ got' = got
      /\ settled' = settled /\ loop' \in {[loop EXCEPT !.queue = Append(@, id), !.held = h],
                                          [loop EXCEPT !.queue = Append(@, id), !.held = h, !.check = TRUE]}
      /\ for.budget # <<>> /\ Behind(loop)' => loop'.check
  <2> DEFINE l == [loop EXCEPT !.queue = Append(@, id),
                               !.held[m.type] = IF for.budget = <<>> THEN @ ELSE @ + m.size]
  <2>1. /\ arrived < Len(for.arrivals) /\ arrived' = id /\ for' = for /\ source' = source
        /\ got' = got
        /\ settled' = settled
        /\ loop' = IF for.budget # <<>> /\ Behind(l) THEN [l EXCEPT !.check = TRUE] ELSE l
    BY DEF MessageArrives
  <2>2. l = [loop EXCEPT !.queue = Append(@, id), !.held = h]
    BY LoopFacts DEF Loop
  <2>3. [l EXCEPT !.check = TRUE] = [loop EXCEPT !.queue = Append(@, id), !.held = h, !.check = TRUE]
    BY <2>2
  <2>4. l.held = h /\ [l EXCEPT !.check = TRUE].held = h
    BY <2>2, LoopFacts DEF Loop
  <2>5. for.budget # <<>> /\ Behind(loop)' => loop'.check
    <3>1. ASSUME for.budget # <<>>, Behind(loop)' PROVE Behind(l)
      <4>1. loop'.held = h
        BY <2>1, <2>4
      <4> HIDE DEF l, h
      <4> QED BY <2>1, <2>4, <3>1, <4>1 DEF Behind
    <3>2. [l EXCEPT !.check = TRUE].check
      BY <2>2, LoopFacts DEF Loop
    <3> HIDE DEF l
    <3> QED BY <2>1, <3>1, <3>2
  <2> HIDE DEF l
  <2> QED BY <2>1, <2>2, <2>3, <2>5
<1>2. /\ id \in 1 .. Len(for.arrivals) /\ m.type \in Types /\ m.size \in Nat /\ n \in Nat
      /\ arrived \in Nat
      /\ loop.queue \in Seq(Nat) /\ loop \in Loop /\ loop.held \in [Types -> Int] /\ LastGot \in Nat
  <2>1. arrived \in Nat /\ arrived < Len(for.arrivals) /\ Len(for.arrivals) \in Nat
    BY <1>1, LoopFacts
  <2>2. id \in 1 .. Len(for.arrivals)
    BY <2>1
  <2> HIDE DEF id
  <2> QED BY <2>1, <2>2, LoopFacts
<1>3. h \in [Types -> Int] /\ Append(loop.queue, id) \in Seq(Nat)
  BY <1>2, SMTT(180)
<1>4. /\ loop' \in Loop /\ loop'.queue = Append(loop.queue, id) /\ loop'.held = h
      /\ loop'.at = loop.at /\ loop'.registered = loop.registered /\ loop'.ended = loop.ended
      /\ loop'.error = loop.error /\ loop'.body = loop.body /\ loop'.since = loop.since
  <2> HIDE DEF h
  <2> QED BY <1>1, <1>2, <1>3, ZenonT(180) DEF Loop
<1>5. /\ loop.at \in Runs /\ ~loop.ended /\ loop.error = "none" /\ LastGot + n = arrived
  BY DEF LoopInv, Listens, Follows
<1>6. LastGot' = LastGot
  BY <1>1, <1>4 DEF LastGot
<1>7. /\ Len(loop'.queue) = n + 1 /\ loop'.queue[n + 1] = id
      /\ \A i \in 1 .. n : loop'.queue[i] = LastGot + i
      /\ DOMAIN loop'.queue = 1 .. n + 1
  <2>1. \A i \in 1 .. n : loop.queue[i] = LastGot + i
    BY LoopFacts DEF LoopInv, Follows
  <2> QED BY <1>2, <1>4, <2>1, AppendProperties
<1>8. LoopTypes'
  BY <1>1, <1>2, <1>4 DEF LoopInv, LoopTypes
<1>9. Follows'
  <2>1. (\A i \in DOMAIN got : got[i] = loop.since + i)'
    BY <1>1, <1>4 DEF LoopInv, Follows
  <2>2. (\A i \in DOMAIN loop.queue : loop.queue[i] = LastGot + i)'
    <3>1. LastGot + (n + 1) = id
      BY <1>2, <1>5
    <3>2. ASSUME NEW i \in 1 .. n + 1 PROVE loop'.queue[i] = LastGot + i
      <4>1. i \in 1 .. n \/ i = n + 1
        BY <1>2
      <4> HIDE DEF id, n
      <4> QED BY <1>7, <3>1, <4>1
    <3> HIDE DEF n
    <3> QED BY <1>6, <1>7, <3>2
  <2>3. (LastGot + Len(loop.queue) = arrived)'
    BY <1>1, <1>2, <1>5, <1>6, <1>7
  <2>4. /\ loop.at = "body" => loop.body = LastGot /\ LastGot > 0
        /\ loop.at # "body" => loop.body = 0
    BY DEF LoopInv, Follows
  <2>5. /\ (loop.at = "body" => loop.body = LastGot /\ LastGot > 0)'
        /\ (loop.at # "body" => loop.body = 0)'
    BY <1>4, <1>6, <2>4
  <2>6. (LastGot + Len(loop.queue) <= arrived)'
    BY <1>1, <1>2, <2>3
  <2> QED BY <1>4, <1>5, <2>1, <2>2, <2>3, <2>5, <2>6 DEF Follows, Runs
<1>10. Listens'
  BY <1>1, <1>4, <1>5 DEF LoopInv, Listens, Over, Runs
<1>11. SettlesAll'
  <2> DEFINE first == IF loop.at = "body" THEN LastGot ELSE LastGot + 1
  <2>1. /\ settled = (1 .. arrived) \ (first .. arrived) /\ Open' = first .. arrived + 1
        /\ first \in Nat
        /\ first <= arrived + 1
    <3>1. settled = (1 .. arrived) \ (first .. LastGot + n)
      BY DEF LoopInv, SettlesAll, Open
    <3>2. Open' = first .. LastGot + (n + 1)
      <4>1. loop'.at = loop.at /\ Len(loop'.queue) = n + 1
        BY <1>4, <1>7
      <4> HIDE DEF n
      <4> QED BY <1>6, <4>1 DEF Open
    <3>3. LastGot + n = arrived /\ LastGot + (n + 1) = arrived + 1 /\ LastGot <= arrived
      <4>1. LastGot + n = arrived /\ LastGot \in Nat /\ n \in Nat
        BY <1>2, <1>5
      <4> HIDE DEF n
      <4> QED BY <4>1
    <3>4. first \in Nat /\ first <= arrived + 1
      BY <1>2, <3>3
    <3> HIDE DEF first, n
    <3> QED BY <3>1, <3>2, <3>3, <3>4
  <2> HIDE DEF first
  <2> QED BY <1>1, <1>2, <2>1 DEF SettlesAll
<1>12. HeldIsQueued'
  <2>1. SUFFICES ASSUME for.budget # <<>>
                 PROVE  \A t \in Types : loop'.held[t] = SumOf(SizesOf(t, loop.queue))'
    BY <1>1 DEF HeldIsQueued
  <2>2. SUFFICES ASSUME NEW t \in Types PROVE loop'.held[t] = SumOf(SizesOf(t, loop.queue))'
    OBVIOUS
  <2>3. SizesOf(t, loop.queue)' = SizesOf(t, Append(loop.queue, id))
    <3>1. loop'.queue = Append(loop.queue, id) /\ for' = for
      BY <1>1, <1>4
    <3> QED BY <3>1 DEF SizesOf
  <2>4. SumOf(SizesOf(t, Append(loop.queue, id))) =
            SumOf(SizesOf(t, loop.queue)) + (IF m.type = t THEN m.size ELSE 0)
    BY <1>2, QueueIds, SizesJoined
  <2>5. loop.held[t] = SumOf(SizesOf(t, loop.queue)) /\ loop.held[t] \in Int
    BY <1>2, <2>1 DEF LoopInv, HeldIsQueued
  <2>6. h[t] = loop.held[t] + (IF m.type = t THEN m.size ELSE 0)
    BY <1>2, <2>1, <2>5
  <2> HIDE DEF h
  <2> QED BY <1>4, <2>3, <2>4, <2>5, <2>6
<1> QED BY <1>8, <1>9, <1>10, <1>11, <1>12 DEF LoopInv

\* A message no loop listens to is its source's.
LEMMA MissStep ==
    ASSUME LoopInv, MessageArrives, ~loop.registered
    PROVE  LoopInv'
<1>1. /\ arrived < Len(for.arrivals) /\ arrived' = arrived + 1 /\ for' = for /\ source' = source
      /\ got' = got
      /\ settled' = settled \cup {arrived + 1} /\ loop' = loop /\ source.is = "open"
  BY DEF MessageArrives
<1>2. arrived \in Nat /\ LastGot \in Nat /\ Len(loop.queue) \in Nat /\ Len(for.arrivals) \in Nat
      /\ arrived <= Len(for.arrivals) /\ LastGot + Len(loop.queue) <= arrived
  BY LoopFacts DEF LoopInv, Follows
<1>3. LoopTypes'
  BY <1>1, <1>2 DEF LoopInv, LoopTypes
<1>4. LastGot' = LastGot
  BY <1>1 DEF LastGot
<1>5. ~(loop.at \in Runs /\ loop.error = "none") /\ loop.at # "returned"
  BY <1>1 DEF LoopInv, Listens
<1>6. Follows'
  <2>1. /\ (\A i \in DOMAIN got : got[i] = loop.since + i)
        /\ \A i \in DOMAIN loop.queue : loop.queue[i] = LastGot + i
    BY DEF LoopInv, Follows
  <2>2. /\ loop.at = "body" => loop.body = LastGot /\ LastGot > 0
        /\ loop.at # "body" => loop.body = 0
    BY DEF LoopInv, Follows
  <2>3. (LastGot + Len(loop.queue) <= arrived)'
    BY <1>1, <1>2, <1>4
  <2> QED BY <1>1, <1>4, <1>5, <2>1, <2>2, <2>3 DEF Follows
<1>7. Listens'
  BY <1>1 DEF LoopInv, Listens, Over
<1>8. SettlesAll'
  <2> DEFINE first == IF loop.at = "body" THEN LastGot ELSE LastGot + 1
  <2>1. settled = (1 .. arrived) \ (first .. LastGot + Len(loop.queue))
    BY DEF LoopInv, SettlesAll, Open
  <2>2. Open' = first .. LastGot + Len(loop.queue) /\ first \in Nat
    BY <1>1, <1>2, <1>4 DEF Open
  <2> HIDE DEF first
  <2> QED BY <1>1, <1>2, <2>1, <2>2 DEF SettlesAll
<1>9. HeldIsQueued'
  BY <1>1, QueueStays
<1> QED BY <1>3, <1>6, <1>7, <1>8, <1>9 DEF LoopInv

\* An empty queue is not behind.
LEMMA EmptyInTime ==
    ASSUME LoopInv, loop.queue = <<>>, for.budget # <<>>
    PROVE  ~Behind(loop)
<1>1. SUFFICES ASSUME NEW t \in Types PROVE ~(loop.held[t] > for.budget[1][t])
  BY DEF Behind
<1>2. loop.held[t] = 0 /\ for.budget[1][t] \in Nat
  BY LoopFacts, SizesOfNone DEF LoopInv, HeldIsQueued
<1> QED BY <1>2

\* A step that leaves what the loop has, and where it is, as they are.
LEMMA KeepStep ==
    ASSUME LoopInv, loop' \in Loop, loop'.at = loop.at, loop'.queue = loop.queue,
           loop'.held = loop.held,
           loop'.error = loop.error, loop'.body = loop.body, loop'.since = loop.since,
           for' = for, arrived' = arrived, got' = got, settled' = settled,
           source' \in [is : {"open", "closed", "failed"}, told : BOOLEAN],
           Listens', for.budget # <<>> /\ Behind(loop) => loop'.check
    PROVE  LoopInv'
<1>1. LoopTypes'
  BY DEF LoopInv, LoopTypes
<1>2. LastGot' = LastGot
  BY DEF LastGot
<1>3. Follows'
  BY <1>2 DEF LoopInv, Follows
<1>4. SettlesAll'
  <2>1. Open' = Open
    BY <1>2 DEF Open
  <2> QED BY <2>1 DEF LoopInv, SettlesAll
<1>5. HeldIsQueued'
  <2>1. \A t \in Types : SizesOf(t, loop.queue)' = SizesOf(t, loop.queue)
    BY DEF SizesOf
  <2>2. Behind(loop)' <=> Behind(loop)
    BY DEF Behind
  <2>3. for.budget # <<>> => \A t \in Types : loop.held[t] = SumOf(SizesOf(t, loop.queue))
    BY DEF LoopInv, HeldIsQueued
  <2> QED BY <2>1, <2>2, <2>3 DEF HeldIsQueued
<1> QED BY <1>1, <1>3, <1>4, <1>5 DEF LoopInv

\* A failure ends the loop, unless one did before.
LEMMA FinishStep ==
    ASSUME LoopInv, NEW err \in {"behind", "failed", "aborted"},
           NEW l \in {loop, [loop EXCEPT !.check = FALSE]}, loop' = Finish(l, err),
           settled' = settled \cup Dropped(loop'), for' = for, arrived' = arrived, got' = got,
           source' \in [is : {"open", "closed", "failed"}, told : BOOLEAN], source'.is = source.is
    PROVE  LoopInv'
<1>1. /\ loop \in Loop /\ l \in Loop /\ l.at = loop.at /\ l.queue = loop.queue /\ l.held = loop.held
      /\ l.error = loop.error /\ l.body = loop.body /\ l.since = loop.since
      /\ l.registered = loop.registered /\ l.ended = loop.ended
  BY LoopFacts DEF Loop
<1>2. CASE loop.error # "none"
  <2>1. loop' = l /\ loop.queue = <<>>
    BY <1>1, <1>2 DEF Finish, LoopInv, Listens
  <2>2. settled' = settled
    BY <1>1, <2>1 DEF Dropped, ToSet
  <2>3. Listens'
    BY <1>1, <2>1 DEF LoopInv, Listens, Over
  <2>4. ~(for.budget # <<>> /\ Behind(loop))
    BY <2>1, EmptyInTime
  <2> QED BY <1>1, <2>1, <2>2, <2>3, <2>4, KeepStep
<1>3. CASE loop.error = "none"
  <2> DEFINE done == [l EXCEPT !.ended = TRUE, !.error = err, !.registered = FALSE]
             z == [t \in Types |-> 0]
  <2>1. /\ done \in Loop /\ done.at = l.at /\ done.body = l.body /\ done.since = l.since
        /\ done.ended
        /\ done.error = err /\ ~done.registered
    BY <1>1 DEF Loop
  <2>2. loop' = [done EXCEPT !.queue = <<>>, !.held = z]
    BY <1>1, <1>3 DEF Finish, Release
  <2>3. <<>> \in Seq(Nat) /\ z \in [Types -> Int]
    OBVIOUS
  <2>4. /\ loop' \in Loop /\ loop'.at = l.at /\ loop'.body = l.body /\ loop'.since = l.since
        /\ loop'.ended
        /\ loop'.error = err /\ ~loop'.registered /\ loop'.queue = <<>> /\ loop'.held = z
    <3> HIDE DEF done, z
    <3> QED BY <2>1, <2>2, <2>3 DEF Loop
  <2> HIDE DEF done
  <2>5. err # "none"
    OBVIOUS
  <2>6. PICK r \in Loop : r = loop'
    BY <2>4
  <2> QED BY <1>1, <2>4, <2>5, <2>6, FailStep
<1> QED BY <1>2, <1>3

\* The check of how far the loop is behind.
LEMMA CheckStep ==
    ASSUME LoopInv, Checks
    PROVE  LoopInv'
<1> DEFINE l == [loop EXCEPT !.check = FALSE]
<1>1. /\ for' = for /\ source' = source /\ arrived' = arrived /\ got' = got
      /\ loop' = IF Behind(l) THEN Finish(l, "behind") ELSE l
      /\ settled' = settled \cup Dropped(loop')
  BY DEF Checks
<1>2. source' \in [is : {"open", "closed", "failed"}, told : BOOLEAN] /\ source'.is = source.is
  BY <1>1 DEF LoopInv, LoopTypes
<1>3. CASE Behind(l)
  <2>1. loop' = Finish(l, "behind")
    BY <1>1, <1>3
  <2> QED BY <1>1, <1>2, <2>1, FinishStep
<1>4. CASE ~Behind(l)
  <2>1. /\ l \in Loop /\ l.at = loop.at /\ l.queue = loop.queue /\ l.held = loop.held
        /\ l.error = loop.error /\ l.body = loop.body /\ l.since = loop.since
        /\ l.registered = loop.registered /\ l.ended = loop.ended
    BY LoopFacts DEF Loop
  <2>2. loop' = l
    BY <1>1, <1>4
  <2>3. settled' = settled
    BY <1>1, <2>1, <2>2 DEF Dropped
  <2>4. Listens'
    BY <1>1, <2>1, <2>2 DEF LoopInv, Listens, Over
  <2>5. ~Behind(loop)
    BY <1>4, <2>1 DEF Behind
  <2> HIDE DEF l
  <2> QED BY <1>1, <1>2, <2>1, <2>2, <2>3, <2>4, <2>5, KeepStep
<1> QED BY <1>3, <1>4

\* The source ends, which the loop has not seen yet.
LEMMA SourceStep ==
    ASSUME LoopInv, SourceEnds
    PROVE  LoopInv'
<1>1. /\ source.is = "open" /\ for' = for /\ loop' = loop /\ arrived' = arrived /\ got' = got
      /\ settled' = settled
      /\ source' \in [is : {"open", "closed", "failed"}, told : BOOLEAN] /\ source'.is # "open"
  BY DEF SourceEnds, LoopInv, LoopTypes
<1>2. Listens'
  BY <1>1 DEF LoopInv, Listens, Over
<1> QED BY <1>1, <1>2, LoopFacts, KeepStep DEF LoopInv, HeldIsQueued

\* The loop is told how its source ended.
LEMMA ToldStep ==
    ASSUME LoopInv, IsTold
    PROVE  LoopInv'
<1>1. /\ for' = for /\ arrived' = arrived /\ got' = got /\ source.is # "open" /\ loop.at # "new"
      /\ source' \in [is : {"open", "closed", "failed"}, told : BOOLEAN] /\ source'.is = source.is
  BY DEF IsTold, LoopInv, LoopTypes
<1>2. CASE Over
  <2>1. loop' = loop /\ settled' = settled
    BY <1>2 DEF IsTold
  <2>2. Listens'
    BY <1>1, <2>1 DEF LoopInv, Listens, Over
  <2> QED BY <1>1, <2>1, <2>2, LoopFacts, KeepStep DEF LoopInv, HeldIsQueued
<1>3. CASE ~Over /\ source.is = "failed"
  <2>1. loop' = Finish(loop, "failed") /\ settled' = settled \cup Dropped(loop')
    BY <1>3 DEF IsTold, Finishes
  <2> QED BY <1>1, <2>1, FinishStep
<1>4. CASE ~Over /\ source.is # "failed"
  <2>1. loop' = Finish(loop, "none") /\ settled' = settled \cup Dropped(loop')
    BY <1>4 DEF IsTold, Finishes
  <2>2. \/ loop' = loop
        \/ loop.error = "none" /\ loop' = [loop EXCEPT !.ended = TRUE, !.error = "none", !.registered = FALSE]
    BY <2>1 DEF Finish
  <2>3. /\ loop' \in Loop /\ loop'.at = loop.at /\ loop'.queue = loop.queue
        /\ loop'.held = loop.held
        /\ loop'.error = loop.error /\ loop'.body = loop.body /\ loop'.since = loop.since
        /\ loop'.check = loop.check
    BY <2>2, LoopFacts DEF Loop
  <2>4. settled' = settled
    BY <2>1, <2>3 DEF Dropped
  <2>5. Listens'
    <3>1. CASE loop' = loop
      BY <1>1, <3>1 DEF LoopInv, Listens, Over
    <3>2. CASE /\ loop.error = "none"
               /\ loop' = [loop EXCEPT !.ended = TRUE, !.error = "none", !.registered = FALSE]
      <4>1. loop'.ended /\ ~loop'.registered
        BY <3>2, LoopFacts DEF Loop
      <4> QED BY <1>1, <2>3, <3>2, <4>1 DEF LoopInv, Listens, Over
    <3> QED BY <2>2, <3>1, <3>2
  <2> QED BY <1>1, <2>3, <2>4, <2>5, KeepStep DEF LoopInv, HeldIsQueued
<1> QED BY <1>2, <1>3, <1>4

\* The signal ends the loop.
LEMMA AbortStep ==
    ASSUME LoopInv, SignalAborts
    PROVE  LoopInv'
<1>1. /\ for' = for /\ source' = source /\ arrived' = arrived /\ got' = got
      /\ loop' = Finish(loop, "aborted") /\ settled' = settled \cup Dropped(loop')
  BY DEF SignalAborts, Finishes
<1> QED BY <1>1, FinishStep DEF LoopInv, LoopTypes

\* The body takes the next message, and lets go of the one it had.
LEMMA TakeStep ==
    ASSUME LoopInv, loop.at \in Runs, loop.error = "none", loop.queue # <<>>,
           loop' = TakesNext(loop), got' = Append(got, Head(loop.queue)),
           settled' = settled \cup ({loop.body} \ {0}), UNCHANGED <<for, source, arrived>>
    PROVE  LoopInv'
<1> DEFINE q == loop.queue
           n == Len(q)
           id == Head(q)
           m == for.arrivals[id]
           h == [loop.held EXCEPT ![m.type] = IF for.budget = <<>> THEN @ ELSE @ - m.size]
<1>1. /\ q \in Seq(Nat) /\ n \in Nat \ {0} /\ DOMAIN q = 1 .. n /\ id = q[1]
      /\ q \in Seq(1 .. Len(for.arrivals)) /\ id \in 1 .. Len(for.arrivals) /\ id \in Nat
      /\ Tail(q) \in Seq(Nat) /\ Len(Tail(q)) = n - 1 /\ DOMAIN Tail(q) = 1 .. n - 1
      /\ \A i \in 1 .. n - 1 : Tail(q)[i] = q[i + 1]
  <2>1. /\ q \in Seq(Nat) /\ n \in Nat /\ n # 0 /\ q \in Seq(1 .. Len(for.arrivals))
        /\ DOMAIN q = 1 .. n
    BY LoopFacts, QueueIds
  <2>2. /\ id = q[1] /\ Tail(q) \in Seq(Nat) /\ Len(Tail(q)) = n - 1
        /\ \A i \in 1 .. Len(Tail(q)) : Tail(q)[i] = q[i + 1]
    <3> HIDE DEF q
    <3> QED BY <2>1, HeadTailProperties
  <2>3. 1 \in 1 .. n
    BY <2>1
  <2>4. id \in 1 .. Len(for.arrivals)
    BY <2>1, <2>2, <2>3, ElementOfSeq
  <2>5. DOMAIN Tail(q) = 1 .. Len(Tail(q))
    BY <2>2, LenProperties
  <2>6. id \in Nat
    BY <2>1, <2>2, <2>3, ElementOfSeq
  <2> HIDE DEF q, n, id
  <2> QED BY <2>1, <2>2, <2>4, <2>5, <2>6
<1>2. /\ m.type \in Types /\ m.size \in Nat /\ loop \in Loop /\ loop.held \in [Types -> Int]
      /\ LastGot \in Nat /\ arrived \in Nat /\ Len(got) \in Nat /\ got \in Seq(Nat)
      /\ loop.since \in Nat
  <2> HIDE DEF id
  <2> QED BY <1>1, LoopFacts
<1>3. h \in [Types -> Int]
  BY <1>2
<1>4. loop' = [loop EXCEPT !.queue = Tail(q), !.at = "body", !.body = id, !.held = h]
  BY <1>2 DEF TakesNext, Loop
<1>5. /\ loop' \in Loop /\ loop'.queue = Tail(q) /\ loop'.at = "body" /\ loop'.body = id
      /\ loop'.held = h
      /\ loop'.registered = loop.registered /\ loop'.ended = loop.ended /\ loop'.error = loop.error
      /\ loop'.check = loop.check /\ loop'.since = loop.since
  <2> HIDE DEF q, id, h
  <2> QED BY <1>1, <1>2, <1>3, <1>4 DEF Loop
<1>6. LastGot + n = arrived /\ id = LastGot + 1
      /\ \A i \in 1 .. n : q[i] = LastGot + i
  <2>1. LastGot + n = arrived /\ \A i \in DOMAIN q : q[i] = LastGot + i
    BY DEF LoopInv, Follows
  <2>2. 1 \in DOMAIN q
    BY <1>1
  <2> HIDE DEF q
  <2> QED BY <1>1, <2>1, <2>2
<1>7. /\ got' \in Seq(Nat) /\ Len(got') = Len(got) + 1 /\ got'[Len(got) + 1] = id
      /\ \A i \in 1 .. Len(got) : got'[i] = got[i]
      /\ DOMAIN got' = 1 .. Len(got) + 1
  <2> HIDE DEF id
  <2> QED BY <1>1, <1>2, AppendProperties
<1>8. LastGot' = LastGot + 1
  BY <1>2, <1>5, <1>7 DEF LastGot
<1>9. LoopTypes'
  BY <1>5, <1>7 DEF LoopInv, LoopTypes
<1>10. Follows'
  <2>1. (\A i \in DOMAIN got : got[i] = loop.since + i)'
    <3>1. \A i \in 1 .. Len(got) : got[i] = loop.since + i
      BY LoopFacts DEF LoopInv, Follows
    <3>2. id = loop.since + (Len(got) + 1)
      <4>1. id = loop.since + Len(got) + 1
        BY <1>6 DEF LastGot
      <4>2. loop.since \in Nat /\ Len(got) \in Nat
        BY <1>2
      <4> HIDE DEF q, n, id, m, h
      <4> QED BY <4>1, <4>2
    <3>3. ASSUME NEW i \in 1 .. Len(got) + 1 PROVE got'[i] = loop.since + i
      <4>1. i \in 1 .. Len(got) \/ i = Len(got) + 1
        BY <1>2
      <4> HIDE DEF id
      <4> QED BY <1>7, <3>1, <3>2, <4>1
    <3> QED BY <1>5, <1>7, <3>3
  <2>2. (\A i \in DOMAIN loop.queue : loop.queue[i] = LastGot + i)'
    <3>1. ASSUME NEW i \in 1 .. n - 1 PROVE Tail(q)[i] = LastGot + 1 + i
      <4>1. i + 1 \in 1 .. n
        BY <1>1
      <4>2. Tail(q)[i] = LastGot + (i + 1)
        BY <1>1, <1>6, <4>1
      <4> QED BY <1>2, <4>2
    <3> QED BY <1>1, <1>5, <1>8, <3>1
  <2>3. (LastGot + Len(loop.queue) = arrived)'
    <3>1. Len(loop'.queue) = n - 1
      BY <1>1, <1>5
    <3> HIDE DEF n, q, id
    <3> QED BY <1>1, <1>2, <1>6, <1>8, <3>1
  <2>4. loop'.body = LastGot' /\ LastGot' > 0
    BY <1>2, <1>5, <1>6, <1>8
  <2>5. (LastGot + Len(loop.queue) <= arrived)'
    BY <1>2, <2>3
  <2> QED BY <1>5, <2>1, <2>2, <2>3, <2>4, <2>5 DEF Follows
<1>11. Listens'
  BY <1>5 DEF LoopInv, Listens, Over, Runs
<1>12. SettlesAll'
  <2>1. Open' = LastGot + 1 .. arrived
    <3>1. Open' = LastGot' .. LastGot' + Len(loop'.queue)
      BY <1>5 DEF Open
    <3>2. LastGot' + Len(loop'.queue) = arrived
      <4>1. Len(loop'.queue) = n - 1
        BY <1>1, <1>5
      <4> HIDE DEF n, q, id
      <4> QED BY <1>1, <1>2, <1>6, <1>8, <4>1
    <3> QED BY <1>8, <3>1, <3>2
  <2>2. settled = (1 .. arrived) \ ((IF loop.at = "body" THEN LastGot ELSE LastGot + 1) .. arrived)
    BY <1>6 DEF LoopInv, SettlesAll, Open
  <2>3. settled' = (1 .. arrived) \ (LastGot + 1 .. arrived)
    <3>1. CASE loop.at = "body"
      <4>1. loop.body = LastGot /\ LastGot > 0 /\ LastGot <= arrived
        BY <1>1, <1>2, <1>6, <3>1 DEF LoopInv, Follows
      <4> QED BY <1>2, <2>2, <3>1, <4>1
    <3>2. CASE loop.at # "body"
      <4>1. settled' = settled
        BY <3>2 DEF LoopInv, Follows
      <4> QED BY <2>2, <3>2, <4>1
    <3> QED BY <3>1, <3>2
  <2> QED BY <2>1, <2>3 DEF SettlesAll
<1>13. HeldIsQueued'
  <2>1. ASSUME for.budget # <<>>, NEW t \in Types
        PROVE  loop'.held[t] = SumOf(SizesOf(t, loop.queue))' /\ loop'.held[t] <= loop.held[t]
    <3>1. SizesOf(t, loop.queue)' = SizesOf(t, Tail(q))
      <4>1. loop'.queue = Tail(q) /\ for' = for
        BY <1>5
      <4> HIDE DEF q
      <4> QED BY <4>1 DEF SizesOf
    <3>2. SumOf(SizesOf(t, Tail(q))) = SumOf(SizesOf(t, q)) - (IF m.type = t THEN m.size ELSE 0)
      BY <1>1, SizesLeft
    <3>3. loop.held[t] = SumOf(SizesOf(t, q)) /\ loop.held[t] \in Int
      BY <1>2, <2>1 DEF LoopInv, HeldIsQueued
    <3>4. h[t] = loop.held[t] - (IF m.type = t THEN m.size ELSE 0)
      BY <1>2, <2>1, <3>3
    <3>5. (IF m.type = t THEN m.size ELSE 0) \in Nat
      BY <1>2
    <3>6. loop'.held[t] = h[t]
      BY <1>5
    <3> DEFINE d == IF m.type = t THEN m.size ELSE 0
    <3> HIDE DEF h, q, m, d
    <3>7. h[t] = loop.held[t] - d /\ d \in Nat
      BY <3>4, <3>5 DEF d
    <3>8. h[t] = SumOf(SizesOf(t, Tail(q)))
      BY <3>2, <3>3, <3>4
    <3> QED BY <3>1, <3>3, <3>6, <3>7, <3>8
  <2>2. ASSUME for.budget # <<>>, Behind(loop)' PROVE loop'.check
    <3>1. PICK t \in Types : loop'.held[t] > for.budget[1][t]
      BY <2>2 DEF Behind
    <3>2. loop'.held[t] <= loop.held[t] /\ loop.held[t] \in Int /\ loop'.held[t] \in Int
      BY <1>2, <1>3, <1>5, <2>1, <2>2
    <3>3. for.budget[1][t] \in Nat
      BY <2>2, LoopFacts
    <3>4. loop.held[t] > for.budget[1][t]
      BY <3>1, <3>2, <3>3
    <3>5. Behind(loop)
      BY <3>4 DEF Behind
    <3> QED BY <1>5, <2>2, <3>5 DEF LoopInv, HeldIsQueued
  <2> QED BY <2>1, <2>2 DEF HeldIsQueued
<1> QED BY <1>9, <1>10, <1>11, <1>12, <1>13 DEF LoopInv

\* The body goes on, and the loop waits.
LEMMA WaitStep ==
    ASSUME LoopInv, loop.at = "body", loop.queue = <<>>,
           loop' = [loop EXCEPT !.at = "running", !.body = 0],
           settled' = settled \cup {loop.body}, UNCHANGED <<for, source, arrived, got>>
    PROVE  LoopInv'
<1>1. /\ loop' \in Loop /\ loop'.at = "running" /\ loop'.body = 0 /\ loop'.queue = loop.queue
      /\ loop'.held = loop.held /\ loop'.registered = loop.registered /\ loop'.ended = loop.ended
      /\ loop'.error = loop.error /\ loop'.check = loop.check /\ loop'.since = loop.since
  BY LoopFacts DEF Loop
<1>2. /\ LastGot' = LastGot /\ LastGot \in Nat /\ LastGot > 0 /\ loop.body = LastGot
      /\ Len(loop.queue) = 0
      /\ LastGot <= arrived /\ arrived \in Nat
  BY <1>1, LoopFacts DEF LastGot, LoopInv, Follows
<1>3. LoopTypes'
  BY <1>1 DEF LoopInv, LoopTypes
<1>4. Follows'
  BY <1>1, <1>2 DEF LoopInv, Follows, Runs
<1>5. Listens'
  BY <1>1 DEF LoopInv, Listens, Over, Runs
<1>6. SettlesAll'
  <2>1. Open' = LastGot + 1 .. LastGot /\ Open = LastGot .. LastGot
    BY <1>1, <1>2 DEF Open
  <2>2. settled = (1 .. arrived) \ (LastGot .. LastGot)
    BY <2>1 DEF LoopInv, SettlesAll
  <2> QED BY <1>2, <2>1, <2>2 DEF SettlesAll
<1>7. HeldIsQueued'
  BY <1>1, QueueStays
<1> QED BY <1>3, <1>4, <1>5, <1>6, <1>7 DEF LoopInv

\* The loop goes on: it throws, takes a message, returns or waits.
LEMMA GoStep ==
    ASSUME LoopInv, GoesOn
    PROVE  LoopInv'
<1>1. loop.at \in Runs /\ UNCHANGED <<for, source, arrived>>
  BY DEF GoesOn, Runs
<1>2. CASE loop.error # "none"
  <2>1. Leaves(loop, "threw") /\ got' = got
    BY <1>2 DEF GoesOn
  <2> QED BY <1>1, <2>1, LeaveStep
<1>3. CASE loop.error = "none" /\ loop.queue # <<>>
  <2>1. /\ loop' = TakesNext(loop) /\ got' = Append(got, Head(loop.queue))
        /\ settled' = settled \cup ({loop.body} \ {0})
    BY <1>3 DEF GoesOn
  <2> QED BY <1>1, <1>3, <2>1, TakeStep
<1>4. CASE loop.error = "none" /\ loop.queue = <<>> /\ loop.ended
  <2>1. Leaves(loop, "returned") /\ got' = got
    BY <1>4 DEF GoesOn
  <2> QED BY <1>1, <1>4, <2>1, LeaveStep
<1>5. CASE loop.error = "none" /\ loop.queue = <<>> /\ ~loop.ended
  <2>1. /\ loop.at = "body" /\ loop' = [loop EXCEPT !.at = "running", !.body = 0]
        /\ settled' = settled \cup {loop.body} /\ got' = got
    BY <1>5 DEF GoesOn
  <2> QED BY <1>1, <1>5, <2>1, WaitStep
<1> QED BY <1>2, <1>3, <1>4, <1>5

-----------------------------------------------------------------------------
(* The theorem *)

\* A loop that was not entered consumed nothing.
LEMMA LoopStarts ==
    ASSUME LoopInit
    PROVE  LoopInv
<1>1. /\ for \in Loops /\ arrived = 0 /\ got = <<>> /\ settled = {}
      /\ loop = [at |-> "new", queue |-> <<>>, held |-> [t \in Types |-> 0], registered |-> FALSE,
                 ended |-> FALSE, error |-> "none", check |-> FALSE, body |-> 0, since |-> 0]
      /\ source = [is |-> "open", told |-> FALSE]
  BY DEF LoopInit
<1>2. loop \in Loop
  <2>1. <<>> \in Seq(Nat) /\ [t \in Types |-> 0] \in [Types -> Int]
    OBVIOUS
  <2> QED BY <1>1, <2>1 DEF Loop
<1>3. for.arrivals \in Seq([type : Types, size : Nat]) /\ for.budget \in Seq([Types -> Nat])
  BY <1>1, LoopsAssumption
<1>4. Len(for.arrivals) \in Nat
  BY <1>3
<1>5. LoopTypes
  BY <1>1, <1>2, <1>4 DEF LoopTypes
<1>6. LastGot = 0 /\ Len(loop.queue) = 0
  BY <1>1 DEF LastGot
<1>7. Follows
  BY <1>1, <1>6 DEF Follows, Runs
<1>8. Listens
  BY <1>1 DEF Listens, Over, Runs
<1>9. SettlesAll
  <2>1. Open = 1 .. 0
    BY <1>1, <1>6 DEF Open
  <2> QED BY <1>1, <2>1 DEF SettlesAll
<1>10. HeldIsQueued
  <2>1. SUFFICES ASSUME for.budget # <<>>
                 PROVE  (\A t \in Types : loop.held[t] = SumOf(SizesOf(t, loop.queue))) /\ ~Behind(loop)
    BY DEF HeldIsQueued
  <2>2. \A t \in Types : loop.held[t] = SumOf(SizesOf(t, loop.queue))
    BY <1>1, SizesOfNone
  <2>3. for.budget[1] \in [Types -> Nat]
    <3>1. 1 \in 1 .. Len(for.budget)
      BY <1>3, <2>1, EmptySeq, LenProperties
    <3> QED BY <1>3, <3>1, ElementOfSeq
  <2>4. ~Behind(loop)
    <3>1. SUFFICES ASSUME NEW t \in Types PROVE ~(loop.held[t] > for.budget[1][t])
      BY DEF Behind
    <3>2. loop.held[t] = 0 /\ for.budget[1][t] \in Nat
      BY <1>1, <2>3
    <3> QED BY <3>2
  <2> QED BY <2>2, <2>4
<1> QED BY <1>5, <1>7, <1>8, <1>9, <1>10 DEF LoopInv

\* Every step of a loop keeps the invariant.
LEMMA LoopSteps ==
    ASSUME LoopInv, [LoopNext]_loopVars
    PROVE  LoopInv'
<1>1. CASE MessageArrives
  BY <1>1, JoinStep, MissStep
<1>2. CASE Breaks
  <2>1. loop.at \in Runs /\ Leaves(loop, "left") /\ UNCHANGED <<for, source, arrived, got>>
    BY <1>2 DEF Breaks, Runs
  <2> QED BY <2>1, LeaveStep
<1>3. CASE UNCHANGED loopVars
  <2>1. /\ loop' = loop /\ for' = for /\ source' = source /\ arrived' = arrived /\ got' = got
        /\ settled' = settled
    BY <1>3 DEF loopVars
  <2>2. Listens'
    BY <2>1 DEF LoopInv, Listens, Over
  <2> QED BY <2>1, <2>2, LoopFacts, KeepStep DEF LoopInv, LoopTypes, HeldIsQueued
<1>4. Starts \/ MessageArrives \/ Checks \/ SourceEnds \/ IsTold \/ SignalAborts \/ GoesOn \/ Breaks
      \/ UNCHANGED loopVars
  BY DEF LoopNext
<1> QED BY <1>1, <1>2, <1>3, <1>4, StartStep, CheckStep, SourceStep, ToldStep, AbortStep, GoStep

\* What the invariant says of the loop's promises.
LEMMA LoopInvSays ==
    ASSUME LoopInv
    PROVE  MessagesAreConsumed
<1>1. BodyGetsAllInOrder
  <2>1. \A i \in DOMAIN got : got[i] = loop.since + i
    BY DEF LoopInv, Follows
  <2>2. loop.at = "returned" => Len(got) = arrived - loop.since
    <3>1. /\ loop.since \in Nat /\ Len(got) \in Nat
          /\ (loop.at = "returned" => loop.since + Len(got) = arrived)
      BY LoopFacts DEF LoopInv, Follows, LastGot
    <3> QED BY <3>1
  <2> QED BY <2>1, <2>2 DEF BodyGetsAllInOrder
<1>2. NoMessageIsKept
  <2>1. LastGot \in Nat /\ Len(loop.queue) \in Nat
    BY LoopFacts
  <2>2. Open = ToSet(loop.queue) \cup (IF loop.at = "body" THEN {loop.body} ELSE {})
    <3>1. CASE loop.at = "body"
      <4>1. loop.body = LastGot
        BY <3>1 DEF LoopInv, Follows
      <4> QED BY <2>1, <3>1, <4>1, QueueIs DEF Open
    <3>2. CASE loop.at # "body"
      BY <2>1, <3>2, QueueIs DEF Open
    <3> QED BY <3>1, <3>2
  <2> QED BY <2>2 DEF LoopInv, SettlesAll, NoMessageIsKept
<1> QED BY <1>1, <1>2 DEF LoopInv, MessagesAreConsumed

\* A `for await` loop gives its body every message that arrives from its start, in order and
\* without a gap, gives the source back what every message held, and ends a consumer that falls
\* behind its budget: iterateMessages, whatever arrives, however the source and the signal end.
THEOREM MessagesConsumed == LoopSpec => []MessagesAreConsumed
<1>1. LoopInit => LoopInv
  BY LoopStarts
<1>2. LoopInv /\ [LoopNext]_loopVars => LoopInv'
  BY LoopSteps
<1>3. LoopInv => MessagesAreConsumed
  BY LoopInvSays
<1> QED BY <1>1, <1>2, <1>3, PTL DEF LoopSpec

-----------------------------------------------------------------------------
(***************************************************************************)
(* PageBroadcast serves its page, for any publishes, sizes,                *)
(* budgets, toggles, broken wires and aborts: the page hears what it is    *)
(* due, once and in order, and the adapter is subscribed while it is       *)
(* wanted.                                                                 *)
(*                                                                         *)
(* A publish the page is due is in one place: heard, replayed beyond what  *)
(* the page read, or in the offline buffer, whose publishes are behind     *)
(* those replayed; or it came after all of these, to a server that ended.  *)
(* So what the page hears next is the first of what it lacks.              *)
(***************************************************************************)

(* Types *)

\* What the server replays: publishes, and the end.
SentFrames == [t : {"PUBLISH"}, id : Nat] \cup [t : {"END"}]
Replayed == [frame : SentFrames, seq : Nat]

\* What a wire carries.
SubFrames == [t : {"SUB"}, kind : QueueKinds, on : BOOLEAN]
Reconciles == [t : {"RECONCILE"}, subs : Flags, lastSeq : Nat]
Answers == [t : {"RECONCILED"}, attached : BOOLEAN] \cup [t : {"ATTACH_RESULT"}]
SeqFrames == [t : {"SEQ"}, frame : SentFrames, seq : Nat]

PageEnds == [subscribed : Flags, open : BOOLEAN, awaited : BOOLEAN, held : Seq(SubFrames),
             lastSeq : Nat, ended : BOOLEAN, heard : Seq(Nat)]
ServerEnds == [registered : BOOLEAN, attached : BOOLEAN, ended : BOOLEAN,
               awaited : Seq(Reconciles), peerSubscribed : Flags, listens : Flags, hears : Flags,
               replay : Seq(Replayed), buf : Buffers, owesEnd : BOOLEAN]
Bounds == {"pageToggles", "serverToggles", "breaks", "aborts", "publishes"}

TypeInv ==
    /\ plan \in Pages
    /\ page \in PageEnds
    /\ server \in ServerEnds
    /\ wire \in {"down", "joining", "joined", "dead"}
    /\ toServer \in Seq(SubFrames \cup Reconciles)
    /\ toPage \in Seq(Answers \cup SeqFrames)
    /\ happened \in [Bounds -> Nat]
    /\ happened.publishes <= Len(plan.messages)
    /\ due \subseteq 1 .. happened.publishes

-----------------------------------------------------------------------------
(* The inductive invariant *)

\* q is answers, n of them, and then what the page lacks.
Lacks(q, n) ==
    /\ n \in Nat /\ Len(q) = n + (Len(server.replay) - page.lastSeq)
    /\ \A i \in 1 .. Len(q) :
          IF i <= n THEN q[i].t # "SEQ"
          ELSE /\ q[i].t = "SEQ"
               /\ q[i].seq = page.lastSeq + (i - n)
               /\ q[i].frame = server.replay[page.lastSeq + (i - n)].frame

\* A wire that is joined carries what the page lacks; the page's RECONCILE is the first of its
\* wire, and asks for it.
WireInv ==
    /\ page.lastSeq <= Len(server.replay)
    /\ wire \in {"down", "dead"} => toServer = <<>> /\ toPage = <<>>
    /\ wire \in {"down", "joining"} => ~page.open
    /\ wire = "joining" =>
          /\ toPage = <<>> /\ Len(toServer) = 1
          /\ toServer[1] \in Reconciles /\ toServer[1].lastSeq = page.lastSeq
    /\ wire = "joined" => toServer \in Seq(SubFrames) /\ \E n : Lacks(toPage, n)

NothingBuffered(b) == \A k \in QueueKinds : b.queue[k] = <<>>

\* A server that isn't registered replays nothing, one that is attached holds nothing.
ServerInv ==
    /\ server.attached => server.registered /\ NothingBuffered(server.buf)
    /\ ~server.registered => server.replay = <<>>
    /\ BufferSorted(server.buf, happened.publishes)

\* What was sent is numbered; its publishes are in their order, and before those in the buffer.
Publishes(r, i, id) == i \in 1 .. Len(r) /\ r[i].frame.t = "PUBLISH" /\ r[i].frame.id = id
ReplaySorted(r, b, n) ==
    /\ \A i \in 1 .. Len(r) : r[i].seq = i
    /\ \A i, j, x, y : Publishes(r, i, x) /\ Publishes(r, j, y) /\ i < j => x < y
    /\ \A i, x : Publishes(r, i, x) => x <= n
    /\ \A i, x : Publishes(r, i, x) =>
          \A k \in QueueKinds : \A j \in 1 .. Len(b.queue[k]) : x < b.queue[k][j].id
ReplayInv == ReplaySorted(server.replay, server.buf, happened.publishes)

\* The page heard, in order, of what it read.
HeardInv ==
    /\ \A i, j \in 1 .. Len(page.heard) : i < j => page.heard[i] < page.heard[j]
    /\ \A i \in 1 .. Len(page.heard) :
          \E j \in 1 .. page.lastSeq : Publishes(server.replay, j, page.heard[i])

\* A publish was heard, is to be read, is held, or came after all of these to a server that ended.
IsHeard(id) == \E i \in 1 .. Len(page.heard) : page.heard[i] = id
ToRead(id) == \E i : i > page.lastSeq /\ Publishes(server.replay, i, id)
IsBuffered(b, id) == \E k \in QueueKinds : \E i \in 1 .. Len(b.queue[k]) : b.queue[k][i].id = id
PastTheEnd(id) ==
    /\ server.ended
    /\ \A i, x : Publishes(server.replay, i, x) => x < id
    /\ \A k \in QueueKinds : \A i \in 1 .. Len(server.buf.queue[k]) : server.buf.queue[k][i].id < id
Somewhere(id) == IsHeard(id) \/ ToRead(id) \/ IsBuffered(server.buf, id) \/ PastTheEnd(id)

DueInv == \A id \in due : page.subscribed[plan.messages[id].kind] /\ Somewhere(id)

\* AdapterFollowsUse, of a server.
FollowsUse(s) ==
    \A kind \in QueueKinds :
        s.hears[kind] = (~s.ended /\ (s.peerSubscribed[kind] \/ s.listens[kind]))

PageInv ==
    TypeInv /\ FollowsUse(server) /\ WireInv /\ ServerInv /\ ReplayInv /\ HeardInv /\ DueInv

-----------------------------------------------------------------------------
(* What the server's operations do *)

\* A server as before but for what it subscribes to.
SameButUse(s, t) ==
    /\ t.registered = s.registered /\ t.attached = s.attached /\ t.ended = s.ended
    /\ t.awaited = s.awaited /\ t.replay = s.replay /\ t.buf = s.buf /\ t.owesEnd = s.owesEnd

\* The page's subscriptions and the server's own are followed (unsubscribeUnusedBroadcasts).
LEMMA UnusedGoes ==
    ASSUME NEW s \in ServerEnds, ~s.ended,
           \A k \in QueueKinds : s.peerSubscribed[k] \/ s.listens[k] => s.hears[k]
    PROVE  LET t == UnsubscribeUnused(s) IN t \in ServerEnds /\ FollowsUse(t) /\ SameButUse(s, t)
<1> DEFINE t == UnsubscribeUnused(s)
           h == [k \in QueueKinds |-> s.hears[k] /\ (s.peerSubscribed[k] \/ s.listens[k])]
<1>1. t = [s EXCEPT !.hears = h]
  BY DEF UnsubscribeUnused
<1>2. h \in Flags
  BY DEF Flags, ServerEnds
<1> HIDE DEF h, t
<1>3. /\ t \in ServerEnds /\ SameButUse(s, t) /\ t.hears = h
      /\ t.peerSubscribed = s.peerSubscribed /\ t.listens = s.listens
  BY <1>1, <1>2 DEF ServerEnds, SameButUse
<1>4. \A k \in QueueKinds : h[k] = (s.peerSubscribed[k] \/ s.listens[k])
  BY DEF h, Flags, ServerEnds
<1> QED BY <1>3, <1>4 DEF FollowsUse, SameButUse, t

\* The page's subscription is followed (onPeerSubscription).
LEMMA PeerSubscribes ==
    ASSUME NEW s \in ServerEnds, FollowsUse(s), ~s.ended, NEW kind \in QueueKinds, NEW on \in BOOLEAN
    PROVE  LET t == PeerSubscription(s, kind, on)
           IN  t \in ServerEnds /\ FollowsUse(t) /\ SameButUse(s, t)
<1> DEFINE p == [s.peerSubscribed EXCEPT ![kind] = on]
           u == [s EXCEPT !.peerSubscribed = p]
           h == [s.hears EXCEPT ![kind] = TRUE]
<1>1. p \in Flags /\ h \in Flags
  BY DEF Flags, ServerEnds
<1>2. u = [s EXCEPT !.peerSubscribed[kind] = on]
  OBVIOUS
<1>3. /\ u \in ServerEnds /\ SameButUse(s, u) /\ u.hears = s.hears /\ u.listens = s.listens
      /\ u.peerSubscribed = p
  <2> HIDE DEF p
  <2> QED BY <1>1 DEF ServerEnds, SameButUse
<1>4. \A k \in QueueKinds : p[k] = IF k = kind THEN on ELSE s.peerSubscribed[k]
  BY DEF ServerEnds, Flags
<1>5. \A k \in QueueKinds : s.hears[k] = (s.peerSubscribed[k] \/ s.listens[k])
  BY DEF FollowsUse
<1>6. CASE on
  <2>1. PeerSubscription(s, kind, on) = [u EXCEPT !.hears = h]
    <3>1. PeerSubscription(s, kind, on) = [u EXCEPT !.hears[kind] = TRUE]
      BY <1>2, <1>6 DEF PeerSubscription
    <3> HIDE DEF u
    <3> QED BY <3>1, <1>3
  <2>2. \A k \in QueueKinds : h[k] = (p[k] \/ s.listens[k])
    BY <1>4, <1>5, <1>6 DEF ServerEnds, Flags
  <2> DEFINE t == [u EXCEPT !.hears = h]
  <2>3. /\ t \in ServerEnds /\ SameButUse(s, t) /\ t.hears = h /\ t.peerSubscribed = p
        /\ t.listens = s.listens
    <3> HIDE DEF u, h, p
    <3> QED BY <1>1, <1>3 DEF ServerEnds, SameButUse
  <2> HIDE DEF t, h, p, u
  <2>4. FollowsUse(t)
    BY <2>2, <2>3 DEF FollowsUse, SameButUse
  <2> QED BY <2>1, <2>3, <2>4 DEF t
<1>7. CASE ~on
  <2>1. PeerSubscription(s, kind, on) = UnsubscribeUnused(u)
    BY <1>2, <1>7 DEF PeerSubscription
  <2>2. \A k \in QueueKinds : u.peerSubscribed[k] \/ u.listens[k] => u.hears[k]
    <3> HIDE DEF u, p
    <3> QED BY <1>3, <1>4, <1>5, <1>7
  <2>3. ~u.ended
    <3> HIDE DEF u
    <3> QED BY <1>3 DEF SameButUse
  <2> HIDE DEF u, p, h
  <2>4. LET t == UnsubscribeUnused(u) IN t \in ServerEnds /\ FollowsUse(t) /\ SameButUse(u, t)
    BY <1>3, <2>2, <2>3, UnusedGoes
  <2> QED BY <1>3, <2>1, <2>4 DEF SameButUse
<1> QED BY <1>6, <1>7

\* Nothing is buffered.
LEMMA EmptyBuffers ==
    /\ EmptyBuffer \in Buffers /\ NothingBuffered(EmptyBuffer)
    /\ \A n : BufferSorted(EmptyBuffer, n)
    /\ \A b, n : NothingBuffered(b) => BufferSorted(b, n)
    /\ \A b, id : NothingBuffered(b) => ~IsBuffered(b, id)
<1>1. <<>> \in Seq(BufferEntries) /\ Len(<<>>) = 0 /\ 1 .. 0 = {}
  BY EmptySeq
<1>2. [k \in QueueKinds |-> <<>>] \in [QueueKinds -> Seq(BufferEntries)]
  BY <1>1
<1>3. [k \in QueueKinds |-> FALSE] \in Flags
  BY DEF Flags
<1>4. EmptyBuffer \in Buffers
  BY <1>2, <1>3 DEF EmptyBuffer, Buffers
<1>5. NothingBuffered(EmptyBuffer)
  BY DEF EmptyBuffer, NothingBuffered
<1>6. ASSUME NEW b, NEW n, NothingBuffered(b) PROVE BufferSorted(b, n)
  <2>1. \A k \in QueueKinds : Len(b.queue[k]) = 0
    BY <1>1, <1>6 DEF NothingBuffered
  <2>2. "text" \in QueueKinds /\ "binary" \in QueueKinds
    BY DEF QueueKinds
  <2>3. \A k \in QueueKinds : 1 .. Len(b.queue[k]) = {}
    BY <1>1, <2>1
  <2> QED BY <2>2, <2>3, Zenon DEF BufferSorted, Sorted, SortedAcross
<1>7. ASSUME NEW b, NEW id, NothingBuffered(b) PROVE ~IsBuffered(b, id)
  <2>1. \A k \in QueueKinds : 1 .. Len(b.queue[k]) = {}
    BY <1>1, <1>7 DEF NothingBuffered
  <2> QED BY <2>1, Zenon DEF IsBuffered
<1> QED BY <1>4, <1>5, <1>6, <1>7

\* The end of a server (shutdown, endWithError).
LEMMA ServerEnding ==
    ASSUME NEW s \in ServerEnds, NEW b \in Buffers
    PROVE  LET r == EndsWithError([s EXCEPT !.buf = b]) IN
           /\ r.server \in ServerEnds /\ FollowsUse(r.server)
           /\ r.server.registered = s.registered /\ r.server.replay = s.replay
           /\ r.server.awaited = s.awaited /\ r.server.buf = b
           /\ r.server.ended /\ ~r.server.attached
           /\ r.sent \in Seq(SentFrames) /\ \A i \in 1 .. Len(r.sent) : r.sent[i].t = "END"
           /\ ~s.attached => r.sent = <<>>
<1> DEFINE s1 == [s EXCEPT !.buf = b]
           s2 == [s1 EXCEPT !.owesEnd = TRUE]
           r == EndsWithError(s1)
<1>1. /\ s1 \in ServerEnds /\ s2 \in ServerEnds /\ s1.attached = s.attached
      /\ \A t \in {s1, s2} : /\ t.registered = s.registered /\ t.replay = s.replay
                             /\ t.awaited = s.awaited /\ t.buf = b
  BY DEF ServerEnds
<1> HIDE DEF s1, s2
<1>2. NoKind \in Flags /\ \A k \in QueueKinds : NoKind[k] = FALSE
  BY DEF NoKind, Flags
<1>3. ASSUME NEW t \in ServerEnds
      PROVE  /\ Ends(t) \in ServerEnds /\ FollowsUse(Ends(t)) /\ Ends(t).ended /\ ~Ends(t).attached
             /\ Ends(t).registered = t.registered /\ Ends(t).replay = t.replay
             /\ Ends(t).awaited = t.awaited /\ Ends(t).buf = t.buf
  <2>1. /\ Ends(t) \in ServerEnds /\ Ends(t).ended /\ ~Ends(t).attached /\ Ends(t).hears = NoKind
        /\ Ends(t).registered = t.registered /\ Ends(t).replay = t.replay
        /\ Ends(t).awaited = t.awaited /\ Ends(t).buf = t.buf
    BY <1>2 DEF Ends, ServerEnds
  <2>2. \A k \in QueueKinds : Ends(t).hears[k] = FALSE
    BY <1>2, <2>1
  <2>3. \A k \in QueueKinds :
            (~Ends(t).ended /\ (Ends(t).peerSubscribed[k] \/ Ends(t).listens[k])) = FALSE
    BY <2>1, Zenon
  <2>4. FollowsUse(Ends(t))
    BY <2>2, <2>3, Zenon DEF FollowsUse
  <2> QED BY <2>1, <2>4
<1>4. CASE s.attached
  <2>1. r = [server |-> Ends(s1), sent |-> <<[t |-> "END"]>>]
    BY <1>1, <1>4 DEF EndsWithError
  <2>2. [t |-> "END"] \in SentFrames
    BY DEF SentFrames
  <2>3. r.sent \in Seq(SentFrames) /\ \A i \in 1 .. Len(r.sent) : r.sent[i].t = "END"
    BY <2>1, <2>2
  <2>4. r.server = Ends(s1)
    BY <2>1
  <2>5. r = EndsWithError([s EXCEPT !.buf = b])
    BY DEF s1
  <2> HIDE DEF r
  <2> QED BY <1>1, <1>3, <1>4, <2>3, <2>4, <2>5
<1>5. CASE ~s.attached
  <2>1. r = [server |-> Ends(s2), sent |-> <<>>]
    BY <1>1, <1>5 DEF EndsWithError, s2
  <2>2. r.sent = <<>> /\ r.server = Ends(s2)
    BY <2>1
  <2>3. <<>> \in Seq(SentFrames) /\ \A i \in 1 .. Len(<<>>) : FALSE
    BY EmptySeq
  <2>4. r = EndsWithError([s EXCEPT !.buf = b])
    BY DEF s1
  <2> HIDE DEF r
  <2>5. r.sent \in Seq(SentFrames) /\ \A i \in 1 .. Len(r.sent) : r.sent[i].t = "END"
    BY <2>2, <2>3, Zenon
  <2> QED BY <1>1, <1>3, <1>5, <2>2, <2>4, <2>5, ZenonT(180)
<1> QED BY <1>4, <1>5

\* z is p, of length k, and behind it q, of length n.
IsJoin(z, p, q, k, n) ==
    /\ Len(z) = k + n /\ k \in Nat /\ n \in Nat
    /\ \A i \in 1 .. k : z[i] = p[i]
    /\ \A i \in 1 .. n : z[k + i] = q[i]
    /\ \A i \in 1 .. k + n : i \in 1 .. k \/ \E j \in 1 .. n : i = k + j

\* A sequence behind another.
LEMMA Joined ==
    ASSUME NEW S, NEW p \in Seq(S), NEW q \in Seq(S), NEW k, k = Len(p), NEW n, n = Len(q)
    PROVE  p \o q \in Seq(S) /\ IsJoin(p \o q, p, q, k, n)
<1>1. k \in Nat /\ n \in Nat
  BY LenProperties
<1>2. /\ p \o q \in Seq(S) /\ Len(p \o q) = Len(p) + Len(q)
      /\ \A i \in 1 .. Len(p) + Len(q) : (p \o q)[i] = IF i <= Len(p) THEN p[i] ELSE q[i - Len(p)]
  BY ConcatProperties, Zenon
<1>3. \A i \in 1 .. k : (p \o q)[i] = p[i]
  BY <1>1, <1>2
<1>4. \A i \in 1 .. n : (p \o q)[k + i] = q[i]
  <2>1. \A i \in 1 .. n : k + i \in 1 .. k + n /\ ~(k + i <= k) /\ k + i - k = i
    BY <1>1
  <2> QED BY <1>1, <1>2, <2>1
<1>5. \A i \in 1 .. k + n : i \in 1 .. k \/ \E j \in 1 .. n : i = k + j
  <2>1. ASSUME NEW i \in 1 .. k + n, ~(i \in 1 .. k) PROVE i - k \in 1 .. n /\ i = k + (i - k)
    BY <1>1, <2>1
  <2> QED BY <2>1
<1> QED BY <1>1, <1>2, <1>3, <1>4, <1>5 DEF IsJoin

\* f publishes id.
Sends(q, i, id) == i \in 1 .. Len(q) /\ q[i].t = "PUBLISH" /\ q[i].id = id

\* A page that attaches is sent what was held, in the order of the publishes, and maybe the end; its
\* subscriptions are followed (_attachPeer).
LEMMA PageAttaches ==
    ASSUME NEW s \in ServerEnds, FollowsUse(s), NEW n \in Nat, BufferSorted(s.buf, n),
           NEW subs \in Flags
    PROVE  LET r == AttachPeer(s, subs) IN
           /\ r.server \in ServerEnds /\ FollowsUse(r.server) /\ NothingBuffered(r.server.buf)
           /\ r.server.registered = s.registered /\ r.server.replay = s.replay
           /\ r.server.ended = s.ended
           /\ r.sent \in Seq(SentFrames)
           /\ \A id : IsBuffered(s.buf, id) <=> \E i : Sends(r.sent, i, id)
           /\ \A i, j, x, y : Sends(r.sent, i, x) /\ Sends(r.sent, j, y) /\ i < j => x < y
<1> DEFINE m == Flushed(s.buf)
           text == s.buf.queue["text"]
           binary == s.buf.queue["binary"]
           flushed == [i \in DOMAIN m |-> PublishFrame(m[i].id)]
           end == IF s.owesEnd THEN <<[t |-> "END"]>> ELSE <<>>
           t == [s EXCEPT !.buf = EmptyBuffer, !.owesEnd = FALSE, !.attached = ~s.ended]
           r == AttachPeer(s, subs)
<1>1. /\ t \in ServerEnds /\ FollowsUse(t) /\ t.buf = EmptyBuffer /\ t.registered = s.registered
      /\ t.replay = s.replay /\ t.ended = s.ended
  <2>1. /\ t \in ServerEnds /\ t.buf = EmptyBuffer /\ t.registered = s.registered
        /\ t.replay = s.replay /\ t.ended = s.ended /\ t.peerSubscribed = s.peerSubscribed
        /\ t.listens = s.listens /\ t.hears = s.hears
    BY EmptyBuffers DEF ServerEnds
  <2> HIDE DEF t
  <2> QED BY <2>1 DEF FollowsUse
<1>2. /\ r.server = IF s.ended THEN t
                    ELSE PeerSubscription(PeerSubscription(t, "text", subs["text"]),
                                          "binary", subs["binary"])
      /\ r.sent = flushed \o end
  BY DEF AttachPeer
<1> HIDE DEF t, r, flushed, end, m
<1>3. /\ r.server \in ServerEnds /\ FollowsUse(r.server) /\ r.server.buf = EmptyBuffer
      /\ r.server.registered = s.registered /\ r.server.replay = s.replay
      /\ r.server.ended = s.ended
  <2>1. CASE s.ended
    BY <1>1, <1>2, <2>1
  <2>2. CASE ~s.ended
    <3>1. /\ subs["text"] \in BOOLEAN /\ subs["binary"] \in BOOLEAN
          /\ "text" \in QueueKinds /\ "binary" \in QueueKinds
      BY DEF Flags, QueueKinds
    <3> DEFINE u == PeerSubscription(t, "text", subs["text"])
    <3>2. u \in ServerEnds /\ FollowsUse(u) /\ SameButUse(t, u)
      BY <1>1, <2>2, <3>1, PeerSubscribes
    <3>3. ~u.ended
      BY <1>1, <2>2, <3>2 DEF SameButUse
    <3> HIDE DEF u
    <3> DEFINE w == PeerSubscription(u, "binary", subs["binary"])
    <3>4. w \in ServerEnds /\ FollowsUse(w) /\ SameButUse(u, w)
      BY <3>1, <3>2, <3>3, PeerSubscribes
    <3>5. r.server = w
      BY <1>2, <2>2 DEF u
    <3> QED BY <1>1, <3>2, <3>4, <3>5 DEF SameButUse
  <2> QED BY <2>1, <2>2
<1>4. /\ text \in Seq(BufferEntries) /\ binary \in Seq(BufferEntries)
      /\ Sorted(text) /\ Sorted(binary) /\ SortedAcross(text, binary)
  BY DEF BufferSorted, ServerEnds, Buffers, QueueKinds
<1>5. PICK p \in Nat, q \in Nat : p = Len(text) /\ q = Len(binary)
  <2>1. Len(text) \in Nat /\ Len(binary) \in Nat
    BY <1>4, LenProperties, Zenon
  <2> QED BY <2>1, Zenon
<1>6. /\ m \in Seq(BufferEntries) /\ Len(m) = p + q
      /\ \A i \in 1 .. p + q : (\E j \in 1 .. p : m[i] = text[j]) \/ (\E j \in 1 .. q : m[i] = binary[j])
      /\ \A j \in 1 .. p : \E i \in 1 .. p + q : m[i] = text[j]
      /\ \A j \in 1 .. q : \E i \in 1 .. p + q : m[i] = binary[j]
      /\ \A i, j \in 1 .. p + q : i < j => m[i].id < m[j].id
  <2>1. /\ m \in Seq(BufferEntries) /\ Len(m) = p + q /\ Has(text, binary, m, p, q)
    BY <1>4, <1>5, MergeIsSorted, Zenon DEF m, Flushed
  <2> QED BY <2>1, Zenon DEF Has
<1>7. /\ flushed \in Seq(SentFrames) /\ Len(flushed) = p + q
      /\ \A i \in 1 .. p + q : flushed[i].t = "PUBLISH" /\ flushed[i].id = m[i].id
  <2>1. DOMAIN m = 1 .. p + q
    BY <1>6, LenProperties
  <2>2. \A i \in 1 .. p + q : m[i].id \in Nat
    <3>1. \A i \in 1 .. p + q : m[i] \in BufferEntries
      BY <1>6, ElementOfSeq
    <3> QED BY <3>1 DEF BufferEntries
  <2>3. \A i \in 1 .. p + q : PublishFrame(m[i].id) \in SentFrames
    BY <2>2 DEF PublishFrame, SentFrames
  <2>4. flushed \in [1 .. p + q -> SentFrames]
    BY <2>1, <2>3 DEF flushed
  <2>5. p + q \in Nat
    OBVIOUS
  <2>6. flushed \in Seq(SentFrames) /\ DOMAIN flushed = 1 .. p + q
    BY <2>4, <2>5, SeqDef
  <2>7. Len(flushed) = p + q
    BY <2>5, <2>6, LenProperties
  <2>8. \A i \in 1 .. p + q : flushed[i] = PublishFrame(m[i].id)
    BY <2>1 DEF flushed
  <2>9. \A i \in 1 .. p + q : flushed[i].t = "PUBLISH" /\ flushed[i].id = m[i].id
    <3>1. \A id : PublishFrame(id).t = "PUBLISH" /\ PublishFrame(id).id = id
      BY DEF PublishFrame
    <3> QED BY <2>8, <3>1
  <2> QED BY <2>6, <2>7, <2>9
<1>8. end \in Seq(SentFrames) /\ \A i \in 1 .. Len(end) : end[i].t = "END"
  <2>1. [t |-> "END"] \in SentFrames
    BY DEF SentFrames
  <2>2. <<>> \in Seq(SentFrames) /\ \A i \in 1 .. Len(<<>>) : FALSE
    BY EmptySeq
  <2> QED BY <2>1, <2>2 DEF end
<1>9. /\ r.sent \in Seq(SentFrames) /\ Len(r.sent) = p + q + Len(end)
      /\ Len(end) \in Nat
      /\ \A i \in 1 .. p + q : r.sent[i] = flushed[i]
      /\ \A i \in 1 .. Len(r.sent) : i \in 1 .. p + q \/ r.sent[i].t = "END"
  <2>1. /\ r.sent \in Seq(SentFrames) /\ Len(r.sent) = p + q + Len(end) /\ Len(end) \in Nat
        /\ \A i \in 1 .. p + q : r.sent[i] = flushed[i]
        /\ \A i \in 1 .. Len(end) : r.sent[p + q + i] = end[i]
        /\ \A i \in 1 .. p + q + Len(end) :
              i \in 1 .. p + q \/ \E j \in 1 .. Len(end) : i = p + q + j
    <3>1. flushed \o end \in Seq(SentFrames) /\ IsJoin(flushed \o end, flushed, end, p + q, Len(end))
      BY <1>7, <1>8, Joined
    <3>2. r.sent \in Seq(SentFrames) /\ IsJoin(r.sent, flushed, end, p + q, Len(end))
      BY <1>2, <3>1
    <3> QED BY <3>2 DEF IsJoin
  <2>2. ASSUME NEW i \in 1 .. Len(r.sent), ~(i \in 1 .. p + q) PROVE r.sent[i].t = "END"
    <3>1. i \in 1 .. p + q + Len(end)
      BY <2>1, Zenon
    <3>2. PICK j \in 1 .. Len(end) : i = p + q + j
      BY <2>1, <2>2, <3>1, Zenon
    <3>3. r.sent[i] = end[j]
      BY <2>1, <3>2, Zenon
    <3> QED BY <1>8, <3>3
  <2> QED BY <2>1, <2>2
<1>10. \A i, x : Sends(r.sent, i, x) <=> i \in 1 .. p + q /\ x = m[i].id
  <2>1. ASSUME NEW i, NEW x, Sends(r.sent, i, x) PROVE i \in 1 .. p + q /\ x = m[i].id
    <3>1. i \in 1 .. p + q
      BY <1>9, <2>1 DEF Sends
    <3> QED BY <1>7, <1>9, <2>1, <3>1 DEF Sends
  <2>2. ASSUME NEW i \in 1 .. p + q PROVE Sends(r.sent, i, m[i].id)
    <3>1. i \in 1 .. Len(r.sent)
      BY <1>9
    <3> QED BY <1>7, <1>9, <3>1 DEF Sends
  <2> QED BY <2>1, <2>2
<1>11. \A i, j, x, y : Sends(r.sent, i, x) /\ Sends(r.sent, j, y) /\ i < j => x < y
  BY <1>6, <1>10
<1>12. ASSUME NEW id PROVE IsBuffered(s.buf, id) <=> \E i : Sends(r.sent, i, id)
  <2>1. IsBuffered(s.buf, id) <=> \/ \E j \in 1 .. p : text[j].id = id
                                  \/ \E j \in 1 .. q : binary[j].id = id
    BY <1>5 DEF IsBuffered, QueueKinds
  <2>2. (\E i : Sends(r.sent, i, id)) <=> \E i \in 1 .. p + q : m[i].id = id
    BY <1>10
  <2> HIDE DEF text, binary
  <2> QED BY <1>6, <2>1, <2>2
<1> QED BY <1>3, <1>9, <1>11, <1>12, EmptyBuffers DEF r

\* A sequenced frame on a wire.
LEMMA SeqFrame ==
    ASSUME NEW f \in Replayed
    PROVE  LET w == OnWire(f)
           IN  w \in SeqFrames /\ w.t = "SEQ" /\ w.seq = f.seq /\ w.frame = f.frame
BY DEF OnWire, SeqFrames, Replayed

\* The server sends q: it joins the replay, numbered.
Grows(q) ==
    /\ Len(server.replay) \in Nat /\ Len(q) \in Nat
    /\ Len(server'.replay) = Len(server.replay) + Len(q)
    /\ \A i \in 1 .. Len(server.replay) : server'.replay[i] = server.replay[i]
    /\ \A i \in 1 .. Len(q) : /\ server'.replay[Len(server.replay) + i].seq = Len(server.replay) + i
                              /\ server'.replay[Len(server.replay) + i].frame = q[i]

\* What the server sends joins its replay, numbered, and its wire behind what the step writes first.
LEMMA SentJoins ==
    ASSUME TypeInv, NEW r, NEW first \in Seq(Answers \cup SeqFrames),
           r.server \in ServerEnds, r.server.replay = server.replay, r.sent \in Seq(SentFrames),
           ServerDoes(r, first)
    PROVE  LET l == Len(server.replay)
               q == toPage \o first IN
           /\ server' \in ServerEnds
           /\ server'.registered = r.server.registered /\ server'.attached = r.server.attached
           /\ server'.ended = r.server.ended /\ server'.buf = r.server.buf
           /\ FollowsUse(r.server) => FollowsUse(server')
           /\ Grows(r.sent)
           /\ toPage' \in Seq(Answers \cup SeqFrames)
           /\ wire' # "joined" => toPage' = toPage
           /\ wire' = "joined" =>
                /\ q \in Seq(Answers \cup SeqFrames)
                /\ Len(toPage') = Len(q) + Len(r.sent)
                /\ \A i \in 1 .. Len(q) : toPage'[i] = q[i]
                /\ \A i \in 1 .. Len(r.sent) : /\ toPage'[Len(q) + i].t = "SEQ"
                                               /\ toPage'[Len(q) + i].seq = l + i
                                               /\ toPage'[Len(q) + i].frame = r.sent[i]
<1> DEFINE frames == Sequenced(r.server, r.sent)
           l == Len(server.replay)
           k == Len(r.sent)
           q == toPage \o first
           seqs == [i \in DOMAIN frames |-> OnWire(frames[i])]
<1>1. /\ server' = [r.server EXCEPT !.replay = @ \o frames]
      /\ toPage' = IF wire' # "joined" THEN toPage ELSE q \o seqs
  <2>1. toPage' = IF wire' # "joined" THEN toPage ELSE toPage \o first \o seqs
    BY DEF ServerDoes
  <2> QED BY <2>1 DEF ServerDoes
<1>2. l \in Nat /\ k \in Nat /\ server.replay \in Seq(Replayed)
  <2>1. server.replay \in Seq(Replayed)
    BY DEF TypeInv, ServerEnds
  <2> QED BY <2>1, LenProperties
<1>3. /\ frames \in Seq(Replayed) /\ Len(frames) = k /\ DOMAIN frames = 1 .. k
      /\ \A i \in 1 .. k : frames[i].seq = l + i /\ frames[i].frame = r.sent[i]
  <2>1. frames = [i \in 1 .. k |-> [frame |-> r.sent[i], seq |-> l + i]]
    BY LenProperties DEF Sequenced
  <2>2. \A i \in 1 .. k : r.sent[i] \in SentFrames
    BY ElementOfSeq
  <2>3. \A i \in 1 .. k : [frame |-> r.sent[i], seq |-> l + i] \in Replayed
    BY <1>2, <2>2 DEF Replayed
  <2> HIDE DEF frames, k, l
  <2>4. frames \in [1 .. k -> Replayed]
    BY <2>1, <2>3
  <2>5. frames \in Seq(Replayed) /\ DOMAIN frames = 1 .. k
    BY <1>2, <2>4, SeqDef
  <2>6. Len(frames) = k
    BY <1>2, <2>5, LenProperties
  <2>7. \A i \in 1 .. k : frames[i].seq = l + i /\ frames[i].frame = r.sent[i]
    BY <2>1
  <2> QED BY <2>5, <2>6, <2>7
<1>4. /\ seqs \in Seq(Answers \cup SeqFrames) /\ Len(seqs) = k
      /\ \A i \in 1 .. k : seqs[i].t = "SEQ" /\ seqs[i].seq = l + i /\ seqs[i].frame = r.sent[i]
  <2> HIDE DEF frames, k, l
  <2>1. \A i \in 1 .. k : frames[i] \in Replayed
    BY <1>3, ElementOfSeq
  <2>2. seqs = [i \in 1 .. k |-> OnWire(frames[i])]
    BY <1>3
  <2> HIDE DEF seqs
  <2>3. ASSUME NEW i \in 1 .. k
        PROVE  /\ seqs[i] \in SeqFrames
               /\ seqs[i].t = "SEQ" /\ seqs[i].seq = l + i /\ seqs[i].frame = r.sent[i]
    <3>1. seqs[i] = OnWire(frames[i])
      BY <2>2
    <3>2. frames[i] \in Replayed
      BY <2>1
    <3> QED BY <1>3, <3>1, <3>2, SeqFrame
  <2>4. seqs \in [1 .. k -> Answers \cup SeqFrames]
    <3>1. DOMAIN seqs = 1 .. k /\ seqs = [i \in 1 .. k |-> seqs[i]]
      BY <2>2
    <3> QED BY <2>3, <3>1
  <2>5. seqs \in Seq(Answers \cup SeqFrames) /\ DOMAIN seqs = 1 .. k
    BY <1>2, <2>4, SeqDef
  <2>6. Len(seqs) = k
    BY <1>2, <2>5, LenProperties
  <2> QED BY <2>3, <2>5, <2>6
<1> HIDE DEF frames, seqs
<1>5. /\ server.replay \o frames \in Seq(Replayed) /\ Len(server.replay \o frames) = l + k
      /\ \A i \in 1 .. l : (server.replay \o frames)[i] = server.replay[i]
      /\ \A i \in 1 .. k : (server.replay \o frames)[l + i] = frames[i]
  <2>1. /\ server.replay \o frames \in Seq(Replayed)
        /\ IsJoin(server.replay \o frames, server.replay, frames, l, k)
    BY <1>2, <1>3, Joined
  <2> QED BY <2>1, Zenon DEF IsJoin
<1>6. /\ server' \in ServerEnds /\ server'.replay = server.replay \o frames
      /\ server'.registered = r.server.registered /\ server'.attached = r.server.attached
      /\ server'.ended = r.server.ended /\ server'.buf = r.server.buf
      /\ server'.hears = r.server.hears /\ server'.listens = r.server.listens
      /\ server'.peerSubscribed = r.server.peerSubscribed
  <2>1. r.server.replay \o frames \in Seq(Replayed)
    BY <1>5
  <2>2. r.server \in ServerEnds
    OBVIOUS
  <2> QED BY <1>1, <2>1, <2>2 DEF ServerEnds
<1>7. FollowsUse(r.server) => FollowsUse(server')
  BY <1>6 DEF FollowsUse
<1>8. /\ Len(server'.replay) = l + k
      /\ \A i \in 1 .. l : server'.replay[i] = server.replay[i]
      /\ \A i \in 1 .. k : server'.replay[l + i].seq = l + i /\ server'.replay[l + i].frame = r.sent[i]
  <2>1. Len(server'.replay) = l + k
    BY <1>5, <1>6
  <2>2. \A i \in 1 .. l : server'.replay[i] = server.replay[i]
    BY <1>5, <1>6, Zenon
  <2>3. \A i \in 1 .. k : server'.replay[l + i] = frames[i]
    BY <1>5, <1>6, Zenon
  <2>4. \A i \in 1 .. k :
            server'.replay[l + i].seq = l + i /\ server'.replay[l + i].frame = r.sent[i]
    BY <1>3, <2>3, Zenon
  <2> QED BY <2>1, <2>2, <2>4
<1>9. q \in Seq(Answers \cup SeqFrames)
  BY ConcatProperties DEF TypeInv
<1> HIDE DEF q
<1>10. /\ q \o seqs \in Seq(Answers \cup SeqFrames) /\ Len(q \o seqs) = Len(q) + k
       /\ \A i \in 1 .. Len(q) : (q \o seqs)[i] = q[i]
       /\ \A i \in 1 .. k : (q \o seqs)[Len(q) + i] = seqs[i]
  <2>1. q \o seqs \in Seq(Answers \cup SeqFrames) /\ IsJoin(q \o seqs, q, seqs, Len(q), k)
    BY <1>4, <1>9, Joined
  <2> QED BY <2>1, Zenon DEF IsJoin
<1>11. toPage' \in Seq(Answers \cup SeqFrames)
  BY <1>1, <1>10 DEF TypeInv
<1>12. ASSUME wire' = "joined"
       PROVE  /\ Len(toPage') = Len(q) + k
              /\ \A i \in 1 .. Len(q) : toPage'[i] = q[i]
              /\ \A i \in 1 .. k : /\ toPage'[Len(q) + i].t = "SEQ"
                                   /\ toPage'[Len(q) + i].seq = l + i
                                   /\ toPage'[Len(q) + i].frame = r.sent[i]
  <2>1. toPage' = q \o seqs
    BY <1>1, <1>12
  <2>2. \A i \in 1 .. Len(q) : toPage'[i] = q[i]
    BY <1>10, <2>1, Zenon
  <2>3. \A i \in 1 .. k : toPage'[Len(q) + i] = seqs[i]
    BY <1>10, <2>1, Zenon
  <2>4. \A i \in 1 .. k : /\ toPage'[Len(q) + i].t = "SEQ"
                          /\ toPage'[Len(q) + i].seq = l + i
                          /\ toPage'[Len(q) + i].frame = r.sent[i]
    BY <1>4, <2>3, Zenon
  <2> QED BY <1>10, <2>1, <2>2, <2>4, Zenon
<1>13. wire' # "joined" => toPage' = toPage
  BY <1>1
<1>14. Grows(r.sent)
  BY <1>2, <1>8, Zenon DEF Grows
<1> QED BY <1>6, <1>7, <1>9, <1>11, <1>12, <1>13, <1>14 DEF q

-----------------------------------------------------------------------------
(* The wire *)

\* Nothing goes behind a sequence.
LEMMA NothingJoins ==
    ASSUME NEW S, NEW q \in Seq(S)
    PROVE  q \o <<>> = q /\ <<>> \in Seq(S)
BY ConcatEmptySeq, EmptySeq

\* A wire on which the page lacks what it carries carries what the server sends as well.
LEMMA WireCarries ==
    ASSUME TypeInv, WireInv, NEW r, NEW first \in Seq(Answers \cup SeqFrames),
           r.server \in ServerEnds, r.server.replay = server.replay, r.sent \in Seq(SentFrames),
           ServerDoes(r, first), page' = page,
           wire' = "joined" => toServer' \in Seq(SubFrames) /\ \E n : Lacks(toPage \o first, n),
           wire' # "joined" => wire' = wire /\ toServer' = toServer
    PROVE  WireInv'
<1> DEFINE l == Len(server.replay)
           k == Len(r.sent)
           q == toPage \o first
<1>1. /\ Grows(r.sent) /\ (wire' # "joined" => toPage' = toPage)
      /\ wire' = "joined" =>
            /\ q \in Seq(Answers \cup SeqFrames)
            /\ Len(toPage') = Len(q) + k
            /\ \A i \in 1 .. Len(q) : toPage'[i] = q[i]
            /\ \A i \in 1 .. k : /\ toPage'[Len(q) + i].t = "SEQ"
                                 /\ toPage'[Len(q) + i].seq = l + i
                                 /\ toPage'[Len(q) + i].frame = r.sent[i]
  BY SentJoins, ZenonT(180)
<1>2. /\ l \in Nat /\ k \in Nat /\ Len(server'.replay) = l + k
      /\ \A i \in 1 .. l : server'.replay[i] = server.replay[i]
      /\ \A i \in 1 .. k : server'.replay[l + i].frame = r.sent[i]
  BY <1>1 DEF Grows
<1>3. page.lastSeq \in Nat /\ page.lastSeq <= l
  BY DEF TypeInv, PageEnds, WireInv
<1> HIDE DEF l, k, q
<1>4. page'.lastSeq <= Len(server'.replay)
  <2>1. l <= l + k
    BY <1>2
  <2>2. page'.lastSeq = page.lastSeq
    OBVIOUS
  <2> QED BY <1>2, <1>3, <2>1, <2>2
<1>5. ASSUME wire' = "joined" PROVE \E n : Lacks(toPage, n)'
  <2>1. PICK n : Lacks(q, n)
    BY <1>5 DEF q
  <2>2. PICK a \in Nat, g \in Nat : a = page.lastSeq /\ g = Len(q)
    BY <1>1, <1>3, <1>5, LenProperties
  <2>3. /\ n \in Nat /\ g = n + (l - a) /\ a <= l
        /\ \A i \in 1 .. g :
              IF i <= n THEN q[i].t # "SEQ"
              ELSE q[i].t = "SEQ" /\ q[i].seq = a + (i - n) /\ q[i].frame = server.replay[a + (i - n)].frame
    BY <1>3, <2>1, <2>2 DEF Lacks, l
  <2>4. /\ Len(toPage') = n + (Len(server'.replay) - a)
        /\ Len(toPage') = g + k
    <3>1. Len(toPage') = g + k /\ Len(server'.replay) = l + k
      BY <1>1, <1>2, <1>5, <2>2
    <3>2. g + k = n + ((l + k) - a)
      BY <1>2, <2>2, <2>3
    <3> QED BY <3>1, <3>2
  <2>5. ASSUME NEW i \in 1 .. g + k
        PROVE  IF i <= n THEN toPage'[i].t # "SEQ"
               ELSE /\ toPage'[i].t = "SEQ"
                    /\ toPage'[i].seq = a + (i - n)
                    /\ toPage'[i].frame = server'.replay[a + (i - n)].frame
    <3>1. CASE i \in 1 .. g
      <4>1. toPage'[i] = q[i]
        BY <1>1, <1>5, <2>2, <3>1
      <4>2. i > n => a + (i - n) \in 1 .. l
        <5>1. l \in Nat /\ n \in Nat /\ g = n + (l - a) /\ a <= l
          BY <1>2, <2>3
        <5>2. i \in Nat /\ i <= g
          BY <3>1, <2>2
        <5>3. ASSUME i > n PROVE a + (i - n) >= 1 /\ a + (i - n) <= l
          BY <5>1, <5>2, <5>3
        <5> QED BY <5>1, <5>2, <5>3
      <4>3. i > n => server'.replay[a + (i - n)] = server.replay[a + (i - n)]
        BY <1>2, <4>2
      <4> QED BY <2>3, <3>1, <4>1, <4>3
    <3>2. CASE ~(i \in 1 .. g)
      <4>1. i - g \in 1 .. k /\ g + (i - g) = i /\ ~(i <= n) /\ a + (i - n) = l + (i - g)
        <5>1. i \in Nat /\ i > g /\ i <= g + k
          BY <1>2, <2>2, <3>2
        <5>2. l \in Nat /\ k \in Nat /\ n \in Nat /\ g = n + (l - a) /\ a <= l
          BY <1>2, <2>3
        <5>3. i - g \in 1 .. k /\ g + (i - g) = i
          BY <5>1, <5>2
        <5>4. ~(i <= n) /\ a + (i - n) = l + (i - g)
          BY <5>1, <5>2
        <5> QED BY <5>3, <5>4
      <4>2. /\ toPage'[i].t = "SEQ" /\ toPage'[i].seq = l + (i - g)
            /\ toPage'[i].frame = r.sent[i - g]
        BY <1>1, <1>5, <2>2, <4>1
      <4>3. server'.replay[a + (i - n)].frame = r.sent[i - g]
        BY <1>2, <4>1
      <4> QED BY <4>1, <4>2, <4>3
    <3> QED BY <3>1, <3>2
  <2>6. Lacks(toPage, n)'
    BY <2>2, <2>3, <2>4, <2>5 DEF Lacks
  <2> QED BY <2>6
<1>6. ASSUME wire' # "joined" PROVE wire' = wire /\ toServer' = toServer /\ toPage' = toPage
  BY <1>1, <1>6
<1>7. wire' = "joined" => toServer' \in Seq(SubFrames)
  OBVIOUS
<1> QED BY <1>4, <1>5, <1>6, <1>7 DEF WireInv

\* A step of the server alone, which writes nothing else, on the wire there is.
LEMMA WireGoesOn ==
    ASSUME TypeInv, WireInv, NEW r, r.server \in ServerEnds, r.server.replay = server.replay,
           r.sent \in Seq(SentFrames), ServerDoes(r, <<>>), page' = page, wire' = wire,
           toServer' = toServer \/ (wire = "joined" /\ toServer' \in Seq(SubFrames))
    PROVE  WireInv'
<1>1. toPage \o <<>> = toPage /\ <<>> \in Seq(Answers \cup SeqFrames)
  BY NothingJoins DEF TypeInv
<1>2. wire' = "joined" => toServer' \in Seq(SubFrames) /\ \E n : Lacks(toPage \o <<>>, n)
  BY <1>1 DEF WireInv
<1>3. wire' # "joined" => wire' = wire /\ toServer' = toServer
  OBVIOUS
<1> QED BY <1>1, <1>2, <1>3, WireCarries

-----------------------------------------------------------------------------
(* What is replayed, heard and due *)

\* What the server sends joins the publishes replayed.
LEMMA PublishesGrow ==
    ASSUME TypeInv, ReplayInv, NEW q \in Seq(SentFrames), Grows(q)
    PROVE  /\ \A i, x : Publishes(server'.replay, i, x) <=>
                 \/ Publishes(server.replay, i, x)
                 \/ \E j : Sends(q, j, x) /\ i = Len(server.replay) + j
           /\ \A i \in 1 .. Len(server'.replay) : server'.replay[i].seq = i
           /\ Len(server.replay) \in Nat
           /\ \A i, x : Publishes(server.replay, i, x) =>
                 i \in Nat /\ i <= Len(server.replay) /\ x \in Nat
           /\ \A i, x : Sends(q, i, x) => i \in Nat /\ 0 < i /\ x \in Nat
<1> DEFINE l == Len(server.replay)
           k == Len(q)
<1>1. /\ l \in Nat /\ k \in Nat /\ Len(server'.replay) = l + k
      /\ \A i \in 1 .. l : server'.replay[i] = server.replay[i]
      /\ \A i \in 1 .. k : server'.replay[l + i].seq = l + i /\ server'.replay[l + i].frame = q[i]
  BY DEF Grows
<1>2. /\ server.replay \in Seq(Replayed)
      /\ \A i \in 1 .. l : server.replay[i].seq = i
  BY DEF TypeInv, ServerEnds, ReplayInv, ReplaySorted
<1>3. \A i, x : Publishes(server.replay, i, x) => i \in Nat /\ i <= l /\ x \in Nat
  <2>1. SUFFICES ASSUME NEW i, NEW x, Publishes(server.replay, i, x)
                 PROVE i \in Nat /\ i <= l /\ x \in Nat
    OBVIOUS
  <2>2. i \in 1 .. l /\ server.replay[i].frame.t = "PUBLISH" /\ server.replay[i].frame.id = x
    BY <2>1 DEF Publishes
  <2>3. server.replay[i] \in Replayed
    BY <1>2, <2>2, ElementOfSeq
  <2>4. server.replay[i].frame \in SentFrames
    BY <2>3 DEF Replayed
  <2>5. x \in Nat
    BY <2>2, <2>4 DEF SentFrames
  <2> QED BY <1>1, <2>2, <2>5
<1>4. \A i, x : Sends(q, i, x) => i \in Nat /\ 0 < i /\ x \in Nat
  <2>1. SUFFICES ASSUME NEW i, NEW x, Sends(q, i, x) PROVE i \in Nat /\ 0 < i /\ x \in Nat
    OBVIOUS
  <2>2. i \in 1 .. k /\ q[i].t = "PUBLISH" /\ q[i].id = x
    BY <2>1 DEF Sends
  <2>3. q[i] \in SentFrames
    BY <2>2, ElementOfSeq
  <2>4. x \in Nat
    BY <2>2, <2>3 DEF SentFrames
  <2> QED BY <1>1, <2>2, <2>4
<1>5. \A i \in 1 .. l + k : i \in 1 .. l \/ \E j \in 1 .. k : i = l + j
  <2> HIDE DEF l, k
  <2>1. ASSUME NEW i \in 1 .. l + k, ~(i \in 1 .. l) PROVE i - l \in 1 .. k /\ i = l + (i - l)
    BY <1>1, <2>1
  <2> QED BY <2>1
<1>6. /\ \A i \in 1 .. l : i \in 1 .. l + k
      /\ \A j \in 1 .. k : l + j \in 1 .. l + k
  <2> HIDE DEF l, k
  <2> QED BY <1>1
<1>7. ASSUME NEW i, NEW x, Publishes(server'.replay, i, x)
      PROVE \/ Publishes(server.replay, i, x)
            \/ \E j : Sends(q, j, x) /\ i = l + j
  <2>1. i \in 1 .. l + k /\ server'.replay[i].frame.t = "PUBLISH" /\ server'.replay[i].frame.id = x
    BY <1>1, <1>7 DEF Publishes
  <2>2. CASE i \in 1 .. l
    BY <1>1, <2>1, <2>2 DEF Publishes
  <2>3. ASSUME NEW j \in 1 .. k, i = l + j PROVE Sends(q, j, x)
    BY <1>1, <2>1, <2>3 DEF Sends
  <2> QED BY <1>5, <2>1, <2>2, <2>3
<1>8. ASSUME NEW i, NEW x, Publishes(server.replay, i, x) PROVE Publishes(server'.replay, i, x)
  <2>1. i \in 1 .. l /\ server.replay[i].frame.t = "PUBLISH" /\ server.replay[i].frame.id = x
    BY <1>8 DEF Publishes
  <2> QED BY <1>1, <1>6, <2>1 DEF Publishes
<1>9. ASSUME NEW j, NEW x, Sends(q, j, x) PROVE Publishes(server'.replay, l + j, x)
  <2>1. j \in 1 .. k /\ q[j].t = "PUBLISH" /\ q[j].id = x
    BY <1>9 DEF Sends
  <2> QED BY <1>1, <1>6, <2>1 DEF Publishes
<1>10. \A i \in 1 .. l + k : server'.replay[i].seq = i
  <2> HIDE DEF l, k
  <2> QED BY <1>1, <1>2, <1>5, ZenonT(180)
<1> QED BY <1>1, <1>3, <1>4, <1>7, <1>8, <1>9, <1>10

\* What is sent goes behind what was replayed and before what is held.
LEMMA ReplayGrows ==
    ASSUME TypeInv, ReplayInv, NEW q \in Seq(SentFrames), Grows(q),
           happened.publishes <= happened'.publishes, happened'.publishes \in Nat,
           \A i, j, x, y : Sends(q, i, x) /\ Sends(q, j, y) /\ i < j => x < y,
           \A i, x : Sends(q, i, x) =>
               /\ x <= happened'.publishes
               /\ \A j, y : Publishes(server.replay, j, y) => y < x
               /\ \A k \in QueueKinds : \A j \in 1 .. Len(server'.buf.queue[k]) :
                     x < server'.buf.queue[k][j].id,
           \A i, x : Publishes(server.replay, i, x) =>
               \A k \in QueueKinds : \A j \in 1 .. Len(server'.buf.queue[k]) :
                     x < server'.buf.queue[k][j].id
    PROVE  ReplayInv'
<1> DEFINE l == Len(server.replay)
           n == happened.publishes
           m == happened'.publishes
<1>1. /\ \A i, x : Publishes(server'.replay, i, x) <=>
             Publishes(server.replay, i, x) \/ \E j : Sends(q, j, x) /\ i = l + j
      /\ \A i \in 1 .. Len(server'.replay) : server'.replay[i].seq = i
      /\ l \in Nat
      /\ \A i, x : Publishes(server.replay, i, x) => i \in Nat /\ i <= l /\ x \in Nat
      /\ \A i, x : Sends(q, i, x) => i \in Nat /\ 0 < i /\ x \in Nat
  BY PublishesGrow
<1>2. /\ \A i, j, x, y : Publishes(server.replay, i, x) /\ Publishes(server.replay, j, y) /\ i < j => x < y
      /\ \A i, x : Publishes(server.replay, i, x) => x <= n
      /\ n \in Nat /\ m \in Nat /\ n <= m
  BY DEF ReplayInv, ReplaySorted, TypeInv, Bounds
<1> HIDE DEF l, n, m
<1>3. \A i, j, x, y :
         Publishes(server'.replay, i, x) /\ Publishes(server'.replay, j, y) /\ i < j => x < y
  <2>1. SUFFICES ASSUME NEW i, NEW j, NEW x, NEW y, i < j,
                        Publishes(server'.replay, i, x), Publishes(server'.replay, j, y)
                 PROVE x < y
    OBVIOUS
  <2>2. CASE Publishes(server.replay, i, x) /\ Publishes(server.replay, j, y)
    BY <1>2, <2>1, <2>2
  <2>3. ASSUME Publishes(server.replay, i, x), NEW b, Sends(q, b, y), j = l + b PROVE x < y
    BY <2>3
  <2>4. ASSUME NEW a, Sends(q, a, x), i = l + a, Publishes(server.replay, j, y) PROVE FALSE
    <3>1. a \in Nat /\ 0 < a /\ j \in Nat /\ j <= l
      BY <1>1, <2>4
    <3> QED BY <1>1, <2>1, <2>4, <3>1
  <2>5. ASSUME NEW a, Sends(q, a, x), i = l + a, NEW b, Sends(q, b, y), j = l + b PROVE x < y
    <3>1. a \in Nat /\ b \in Nat
      BY <1>1, <2>5
    <3>2. a < b
      BY <1>1, <2>1, <2>5, <3>1
    <3> QED BY <2>5, <3>2
  <2> QED BY <1>1, <2>1, <2>2, <2>3, <2>4, <2>5
<1>4. \A i, x : Publishes(server'.replay, i, x) => x <= m
  <2>1. ASSUME NEW i, NEW x, Publishes(server.replay, i, x) PROVE x <= m
    BY <1>1, <1>2, <2>1
  <2>2. ASSUME NEW j, NEW x, Sends(q, j, x) PROVE x <= m
    BY <2>2 DEF m
  <2> QED BY <1>1, <2>1, <2>2
<1>5. \A i, x : Publishes(server'.replay, i, x) =>
         \A k \in QueueKinds : \A j \in 1 .. Len(server'.buf.queue[k]) : x < server'.buf.queue[k][j].id
  BY <1>1, Zenon
<1> QED BY <1>1, <1>3, <1>4, <1>5 DEF ReplayInv, ReplaySorted, m

\* What the page heard stays of what it read.
LEMMA HeardGoesOn ==
    ASSUME TypeInv, ReplayInv, HeardInv, NEW q \in Seq(SentFrames), Grows(q), page' = page
    PROVE  HeardInv'
<1>1. \A i, x : Publishes(server.replay, i, x) => Publishes(server'.replay, i, x)
  BY PublishesGrow, Zenon
<1> QED BY <1>1 DEF HeardInv

\* A publish that is somewhere stays, and one that was held is sent, held, or past the end.
LEMMA SomewhereGoesOn ==
    ASSUME TypeInv, ReplayInv, WireInv, NEW q \in Seq(SentFrames), Grows(q), page' = page,
           NEW id, Somewhere(id),
           IsBuffered(server.buf, id) =>
               \/ IsBuffered(server'.buf, id) \/ PastTheEnd(id)'
               \/ \E j : Sends(q, j, id),
           PastTheEnd(id) => PastTheEnd(id)'
    PROVE  Somewhere(id)'
<1>1. /\ \A i, x : Publishes(server.replay, i, x) => Publishes(server'.replay, i, x)
      /\ \A j, x : Sends(q, j, x) => Publishes(server'.replay, Len(server.replay) + j, x)
  BY PublishesGrow, Zenon
<1>2. IsHeard(id) => IsHeard(id)'
  BY DEF IsHeard
<1>3. ToRead(id) => ToRead(id)'
  BY <1>1 DEF ToRead
<1>4. ASSUME NEW j, Sends(q, j, id) PROVE ToRead(id)'
  <2>1. j \in Nat /\ 0 < j /\ Len(server.replay) \in Nat
    BY <1>4, PublishesGrow
  <2>2. page.lastSeq \in Nat /\ page.lastSeq <= Len(server.replay)
    BY DEF TypeInv, PageEnds, WireInv
  <2>3. Len(server.replay) + j > page.lastSeq
    BY <2>1, <2>2
  <2> QED BY <1>1, <1>4, <2>3 DEF ToRead
<1> QED BY <1>2, <1>3, <1>4 DEF Somewhere

-----------------------------------------------------------------------------
(* The server's steps *)

\* What a step of the server is to keep of the publishes.
PublishesKept == ReplayInv /\ HeardInv /\ DueInv /\ BufferSorted(server.buf, happened.publishes)

\* A step that sends no publish, and holds what it held.
LEMMA QuietStep ==
    ASSUME PageInv, NEW q \in Seq(SentFrames), Grows(q), \A i, x : ~Sends(q, i, x),
           server'.buf = server.buf, server.ended => server'.ended,
           page' = page, plan' = plan, due' = due, happened'.publishes = happened.publishes
    PROVE  PublishesKept'
<1>1. TypeInv /\ ReplayInv /\ HeardInv /\ WireInv /\ DueInv /\ ServerInv
  BY DEF PageInv
<1>2. happened.publishes \in Nat
  BY <1>1 DEF TypeInv, Bounds
<1>3. \A i, x : Publishes(server.replay, i, x) =>
         \A k \in QueueKinds : \A j \in 1 .. Len(server'.buf.queue[k]) : x < server'.buf.queue[k][j].id
  BY <1>1, Zenon DEF ReplayInv, ReplaySorted
<1>4. ReplayInv'
  <2>1. happened.publishes <= happened'.publishes /\ happened'.publishes \in Nat
    BY <1>2
  <2>2. /\ \A i, j, x, y : Sends(q, i, x) /\ Sends(q, j, y) /\ i < j => x < y
        /\ \A i, x : Sends(q, i, x) =>
             /\ x <= happened'.publishes
             /\ \A j, y : Publishes(server.replay, j, y) => y < x
             /\ \A k \in QueueKinds : \A j \in 1 .. Len(server'.buf.queue[k]) :
                   x < server'.buf.queue[k][j].id
    BY Zenon
  <2> QED BY <1>1, <1>3, <2>1, <2>2, ReplayGrows
<1>5. HeardInv'
  BY <1>1, HeardGoesOn
<1>6. ASSUME NEW id, PastTheEnd(id) PROVE PastTheEnd(id)'
  <2>1. \A i, x : Publishes(server'.replay, i, x) => Publishes(server.replay, i, x)
    BY <1>1, PublishesGrow, Zenon
  <2> QED BY <1>6, <2>1 DEF PastTheEnd
<1>7. ASSUME NEW id, Somewhere(id) PROVE Somewhere(id)'
  BY <1>1, <1>6, <1>7, SomewhereGoesOn
<1>8. DueInv'
  BY <1>1, <1>7 DEF DueInv
<1>9. BufferSorted(server.buf, happened.publishes)'
  BY <1>1 DEF ServerInv
<1> QED BY <1>4, <1>5, <1>8, <1>9 DEF PublishesKept

\* A step that sends what was held, in order.
LEMMA FlushStep ==
    ASSUME PageInv, NEW q \in Seq(SentFrames), Grows(q), NothingBuffered(server'.buf),
           \A id : IsBuffered(server.buf, id) <=> \E i : Sends(q, i, id),
           \A i, j, x, y : Sends(q, i, x) /\ Sends(q, j, y) /\ i < j => x < y,
           server.ended => server'.ended,
           page' = page, plan' = plan, due' = due, happened'.publishes = happened.publishes
    PROVE  PublishesKept'
<1>1. TypeInv /\ ReplayInv /\ HeardInv /\ WireInv /\ DueInv /\ ServerInv
  BY DEF PageInv
<1>2. happened.publishes \in Nat
  BY <1>1 DEF TypeInv, Bounds
<1>3. \A k \in QueueKinds : 1 .. Len(server'.buf.queue[k]) = {}
  <2>1. Len(<<>>) = 0 /\ 1 .. 0 = {}
    OBVIOUS
  <2> QED BY <2>1 DEF NothingBuffered
<1>4. ASSUME NEW i, NEW x, Sends(q, i, x)
      PROVE  /\ x <= happened.publishes
             /\ \A j, y : Publishes(server.replay, j, y) => y < x
  <2>1. PICK k \in QueueKinds : \E j \in 1 .. Len(server.buf.queue[k]) : server.buf.queue[k][j].id = x
    BY <1>4 DEF IsBuffered
  <2>2. PICK j \in 1 .. Len(server.buf.queue[k]) : server.buf.queue[k][j].id = x
    BY <2>1
  <2>3. server.buf.queue[k][j].id \in 1 .. happened.publishes
    BY <1>1 DEF ServerInv, BufferSorted
  <2>4. \A a, y : Publishes(server.replay, a, y) => y < server.buf.queue[k][j].id
    BY <1>1, Zenon DEF ReplayInv, ReplaySorted
  <2> QED BY <1>2, <2>2, <2>3, <2>4
<1>5. ReplayInv'
  <2>1. happened.publishes <= happened'.publishes /\ happened'.publishes \in Nat
    BY <1>2
  <2>2. /\ \A i, x : Sends(q, i, x) =>
             /\ x <= happened'.publishes
             /\ \A j, y : Publishes(server.replay, j, y) => y < x
             /\ \A k \in QueueKinds : \A j \in 1 .. Len(server'.buf.queue[k]) :
                   x < server'.buf.queue[k][j].id
        /\ \A i, x : Publishes(server.replay, i, x) =>
             \A k \in QueueKinds : \A j \in 1 .. Len(server'.buf.queue[k]) :
                   x < server'.buf.queue[k][j].id
    BY <1>3, <1>4, Zenon
  <2> QED BY <1>1, <2>1, <2>2, ReplayGrows
<1>6. HeardInv'
  BY <1>1, HeardGoesOn
<1>7. ASSUME NEW id, PastTheEnd(id) PROVE PastTheEnd(id)'
  <2>1. ASSUME NEW i, NEW x, Publishes(server'.replay, i, x) PROVE x < id
    <3>1. CASE Publishes(server.replay, i, x)
      BY <1>7, <3>1 DEF PastTheEnd
    <3>2. CASE \E j : Sends(q, j, x)
      <4>1. IsBuffered(server.buf, x)
        BY <3>2
      <4> QED BY <1>7, <4>1 DEF PastTheEnd, IsBuffered
    <3>3. Publishes(server.replay, i, x) \/ \E j : Sends(q, j, x)
      BY <1>1, <2>1, PublishesGrow, Zenon
    <3> QED BY <3>1, <3>2, <3>3
  <2> QED BY <1>3, <1>7, <2>1 DEF PastTheEnd
<1>8. ASSUME NEW id, Somewhere(id) PROVE Somewhere(id)'
  BY <1>1, <1>7, <1>8, SomewhereGoesOn
<1>9. DueInv'
  BY <1>1, <1>8 DEF DueInv
<1>10. BufferSorted(server.buf, happened.publishes)'
  BY EmptyBuffers
<1> QED BY <1>5, <1>6, <1>9, <1>10 DEF PublishesKept

\* With nothing replayed, an answer joins the answers.
LEMMA AnswerJoins ==
    ASSUME TypeInv, WireInv, wire = "joined" \/ toPage = <<>>, server.replay = <<>>,
           NEW a \in Answers
    PROVE  \E n : Lacks(toPage \o <<a>>, n)
<1>1. /\ toPage \in Seq(Answers \cup SeqFrames) /\ <<a>> \in Seq(Answers \cup SeqFrames) /\ Len(<<a>>) = 1
      /\ <<a>>[1] = a /\ a.t # "SEQ"
  BY DEF TypeInv, Answers
<1>2. PICK g \in Nat : g = Len(toPage)
  BY <1>1, LenProperties
<1>3. Len(server.replay) = 0 /\ page.lastSeq = 0
  <2>1. Len(server.replay) = 0
    OBVIOUS
  <2> QED BY <2>1 DEF TypeInv, WireInv, PageEnds
<1>4. \A i \in 1 .. g : toPage[i].t # "SEQ"
  <2>1. CASE toPage = <<>>
    <3>1. g = 0
      BY <1>2, <2>1
    <3> QED BY <3>1
  <2>2. CASE wire = "joined"
    <3>1. PICK n : Lacks(toPage, n)
      BY <2>2 DEF WireInv
    <3>2. n \in Nat /\ g = n + (0 - 0)
      BY <1>2, <1>3, <3>1 DEF Lacks
    <3>3. g = n
      BY <3>2
    <3> QED BY <1>2, <3>1, <3>3 DEF Lacks
  <2> QED BY <2>1, <2>2
<1>5. IsJoin(toPage \o <<a>>, toPage, <<a>>, g, 1)
  BY <1>1, <1>2, Joined
<1>6. \A i \in 1 .. g + 1 : (toPage \o <<a>>)[i].t # "SEQ"
  <2> DEFINE z == toPage \o <<a>>
  <2>1. /\ \A i \in 1 .. g : z[i] = toPage[i]
        /\ \A i \in 1 .. 1 : z[g + i] = <<a>>[i]
        /\ \A i \in 1 .. g + 1 : i \in 1 .. g \/ \E j \in 1 .. 1 : i = g + j
    BY <1>5 DEF IsJoin
  <2>2. \A j \in 1 .. 1 : <<a>>[j] = a
    BY <1>1
  <2> HIDE DEF z
  <2>3. ASSUME NEW i \in 1 .. g + 1 PROVE z[i].t # "SEQ"
    <3>1. CASE i \in 1 .. g
      BY <1>4, <2>1, <3>1
    <3>2. ASSUME NEW j \in 1 .. 1, i = g + j PROVE z[i] = a
      BY <2>1, <2>2, <3>2, Zenon
    <3> QED BY <1>1, <2>1, <3>1, <3>2
  <2> QED BY <2>3 DEF z
<1>7. Len(toPage \o <<a>>) = g + 1 /\ g + 1 \in Nat /\ g + 1 = g + 1 + (0 - 0)
  BY <1>5 DEF IsJoin
<1>8. \A i \in 1 .. g + 1 : i <= g + 1
  BY <1>2
<1>9. Lacks(toPage \o <<a>>, g + 1)
  BY <1>3, <1>6, <1>7, <1>8 DEF Lacks
<1> QED BY <1>9

-----------------------------------------------------------------------------
(* A publish *)

\* A push that drops nothing adds the publish, the last of all (admit).
LEMMA PushKeeps ==
    ASSUME NEW b \in Buffers, NEW n \in Nat, BufferSorted(b, n), NEW kind \in QueueKinds,
           NEW bytes \in Nat
    PROVE  LET e == PushEntry(b, kind, n + 1, FALSE, bytes) IN
           e.dropped = NoKind =>
               /\ e \in Buffers /\ BufferSorted(e, n + 1)
               /\ \A y : IsBuffered(e, y) <=> IsBuffered(b, y) \/ y = n + 1
<1> SUFFICES ASSUME NEW e, e = PushEntry(b, kind, n + 1, FALSE, bytes), e.dropped = NoKind
             PROVE  /\ e \in Buffers /\ BufferSorted(e, n + 1)
                    /\ \A y : IsBuffered(e, y) <=> IsBuffered(b, y) \/ y = n + 1
  BY Zenon
<1> DEFINE entry == [id |-> n + 1, ack |-> FALSE, bytes |-> Max({bytes, 1}), order |-> b.next,
                     live |-> TRUE]
           grown == Append(b.queue[kind], entry)
           kept == IF entry.bytes > BufferBudgets[kind] THEN <<>>
                   ELSE Evict(grown, BufferBudgets[kind])
<1>1. e = [b EXCEPT !.queue[kind] = kept, !.dropped[kind] = @ \/ kept # grown, !.next = @ + 1]
  BY DEF PushEntry
<1>2. Max({bytes, 1}) \in Nat
  <2>1. \E x \in {bytes, 1} : \A y \in {bytes, 1} : x >= y
    <3>1. bytes >= 1 \/ 1 >= bytes
      OBVIOUS
    <3> QED BY <3>1
  <2>2. Max({bytes, 1}) \in {bytes, 1}
    BY <2>1, Zenon DEF Max
  <2> QED BY <2>2
<1>3. b.next \in Nat /\ b.queue \in [QueueKinds -> Seq(BufferEntries)] /\ b.dropped \in Flags
  BY DEF Buffers
<1>4. /\ entry \in BufferEntries /\ entry.id = n + 1 /\ entry.order = b.next
  <2> DEFINE size == Max({bytes, 1})
  <2>1. size \in Nat
    BY <1>2
  <2> HIDE DEF size
  <2>2. [id |-> n + 1, ack |-> FALSE, bytes |-> size, order |-> b.next, live |-> TRUE] \in BufferEntries
    BY <1>3, <2>1 DEF BufferEntries
  <2> QED BY <2>2 DEF size
<1> HIDE DEF kept, entry
<1>5. kept = grown
  <2>1. e.dropped = [b.dropped EXCEPT ![kind] = @ \/ kept # grown]
    BY <1>1, <1>3 DEF Buffers
  <2>2. e.dropped[kind] = (b.dropped[kind] \/ kept # grown)
    BY <1>3, <2>1 DEF Flags
  <2>3. NoKind[kind] = FALSE
    BY DEF NoKind
  <2> QED BY <2>2, <2>3
<1>6. /\ e.queue = [b.queue EXCEPT ![kind] = grown] /\ e.next = b.next + 1 /\ e.dropped = NoKind
  BY <1>1, <1>5 DEF Buffers
<1>7. NoKind \in Flags
  BY DEF NoKind, Flags
<1>8. PICK other \in QueueKinds : \A k \in QueueKinds : (k = kind \/ k = other) /\ other # kind
  BY DEF QueueKinds
<1>9. PICK q \in Seq(BufferEntries), r \in Seq(BufferEntries) : q = b.queue[kind] /\ r = b.queue[other]
  BY <1>3
<1> DEFINE z == Append(q, entry)
<1>10. e.queue[kind] = z /\ e.queue[other] = r
  BY <1>3, <1>6, <1>8, <1>9
<1>11. /\ Sorted(q) /\ Sorted(r)
       /\ \A i \in 1 .. Len(q) : q[i].order < b.next /\ q[i].id \in 1 .. n
       /\ \A i \in 1 .. Len(r) : r[i].order < b.next /\ r[i].id \in 1 .. n
  BY <1>9 DEF BufferSorted
<1>12. /\ z \in Seq(BufferEntries) /\ Sorted(z)
       /\ \A i \in 1 .. Len(z) : z[i].order < b.next + 1 /\ z[i].id \in 1 .. n + 1
       /\ \A i \in 1 .. Len(r) : r[i].order < b.next + 1 /\ r[i].id \in 1 .. n + 1
       /\ \A y : (\E i \in 1 .. Len(z) : z[i].id = y) <=>
                     (\E i \in 1 .. Len(q) : q[i].id = y) \/ y = n + 1
       /\ SortedAcross(q, r) => SortedAcross(z, r)
       /\ SortedAcross(r, q) => SortedAcross(r, z)
  BY <1>3, <1>4, <1>11, AppendSorted DEF Appended
<1> HIDE DEF z
<1>13. e \in Buffers
  <2>1. DOMAIN e.queue = QueueKinds
    BY <1>3, <1>6
  <2>2. e.queue \in [QueueKinds -> Seq(BufferEntries)]
    <3>1. \A k \in QueueKinds : e.queue[k] \in Seq(BufferEntries)
      BY <1>8, <1>10, <1>12
    <3>2. e.queue = [k \in QueueKinds |-> e.queue[k]]
      BY <1>3, <1>6
    <3> QED BY <3>1, <3>2
  <2>3. e.next \in Nat
    <3>1. PICK x \in Nat : x = b.next
      BY <1>3
    <3>2. e.next = x + 1
      BY <1>6, <3>1, Zenon
    <3>3. x + 1 \in Nat
      OBVIOUS
    <3> QED BY <3>2, <3>3, Zenon
  <2>4. e.dropped \in Flags
    BY <1>6, <1>7
  <2>5. [queue |-> e.queue, dropped |-> e.dropped, next |-> e.next] \in Buffers
    BY <2>2, <2>3, <2>4 DEF Buffers
  <2>6. e = [queue |-> e.queue, dropped |-> e.dropped, next |-> e.next]
    BY <1>1 DEF Buffers
  <2> QED BY <2>5, <2>6
<1>14. SortedAcross(e.queue["text"], e.queue["binary"])
  <2>1. SortedAcross(b.queue["text"], b.queue["binary"])
    BY DEF BufferSorted
  <2>2. CASE kind = "text"
    <3>1. other = "binary"
      BY <1>8, <2>2 DEF QueueKinds
    <3> QED BY <1>9, <1>10, <1>12, <2>1, <2>2, <3>1
  <2>3. CASE kind = "binary"
    <3>1. other = "text"
      BY <1>8, <2>3 DEF QueueKinds
    <3> QED BY <1>9, <1>10, <1>12, <2>1, <2>3, <3>1
  <2> QED BY <2>2, <2>3 DEF QueueKinds
<1>15. BufferSorted(e, n + 1)
  <2>1. \A k \in QueueKinds : Sorted(e.queue[k])
    BY <1>8, <1>10, <1>11, <1>12
  <2>2. \A k \in QueueKinds : \A i \in 1 .. Len(e.queue[k]) :
            e.queue[k][i].order < e.next /\ e.queue[k][i].id \in 1 .. n + 1
    <3>1. ASSUME NEW k \in QueueKinds, NEW x, e.queue[k] = x,
                 \A i \in 1 .. Len(x) : x[i].order < b.next + 1 /\ x[i].id \in 1 .. n + 1
          PROVE  \A i \in 1 .. Len(e.queue[k]) :
                     e.queue[k][i].order < e.next /\ e.queue[k][i].id \in 1 .. n + 1
      BY <1>6, <3>1
    <3>2. ASSUME NEW k \in QueueKinds
          PROVE  e.queue[k] = z \/ e.queue[k] = r
      BY <1>8, <1>10
    <3> QED BY <1>12, <3>1, <3>2, ZenonT(180)
  <2> QED BY <1>14, <2>1, <2>2 DEF BufferSorted
<1>16. ASSUME NEW y PROVE IsBuffered(e, y) <=> IsBuffered(b, y) \/ y = n + 1
  <2>1. IsBuffered(e, y) <=> \/ \E i \in 1 .. Len(z) : z[i].id = y
                             \/ \E i \in 1 .. Len(r) : r[i].id = y
    BY <1>8, <1>10, Zenon DEF IsBuffered
  <2>2. IsBuffered(b, y) <=> \/ \E i \in 1 .. Len(q) : q[i].id = y
                             \/ \E i \in 1 .. Len(r) : r[i].id = y
    BY <1>8, <1>9, Zenon DEF IsBuffered
  <2> QED BY <1>12, <2>1, <2>2, Zenon
<1> QED BY <1>13, <1>15, <1>16, Zenon

\* A publish is sent, held, or too late, to a server that ended.
LEMMA PublishStep ==
    ASSUME PageInv, NEW q \in Seq(SentFrames), Grows(q), NEW id, id = happened.publishes + 1,
           page' = page, plan' = plan, happened'.publishes = id,
           due' \subseteq due \cup {id},
           \A i, x : Sends(q, i, x) => i = 1 /\ x = id /\ NothingBuffered(server'.buf),
           BufferSorted(server'.buf, id),
           \A y : IsBuffered(server'.buf, y) => IsBuffered(server.buf, y) \/ y = id,
           \A y : IsBuffered(server.buf, y) =>
               \/ IsBuffered(server'.buf, y)
               \/ server'.ended /\ NothingBuffered(server'.buf) /\ \A i, x : ~Sends(q, i, x),
           server.ended =>
               server'.ended /\ server'.buf = server.buf /\ \A i, x : ~Sends(q, i, x),
           id \in due' => /\ page.subscribed[plan.messages[id].kind]
                          /\ \/ \E i : Sends(q, i, id)
                             \/ IsBuffered(server'.buf, id)
                             \/ /\ server'.ended /\ \A i, x : ~Sends(q, i, x)
                                /\ server'.buf = server.buf \/ NothingBuffered(server'.buf)
    PROVE  PublishesKept'
<1>1. TypeInv /\ ReplayInv /\ HeardInv /\ WireInv /\ DueInv /\ ServerInv
  BY DEF PageInv
<1>2. happened.publishes \in Nat /\ id \in Nat /\ happened.publishes < id
  BY <1>1 DEF TypeInv, Bounds
<1>3. \A i, x : Publishes(server.replay, i, x) => x < id
  <2>1. ASSUME NEW i, NEW x, Publishes(server.replay, i, x) PROVE x < id
    <3>1. x <= happened.publishes /\ x \in Nat
      BY <1>1, <2>1, PublishesGrow, Zenon DEF ReplayInv, ReplaySorted
    <3> QED BY <1>2, <3>1
  <2> QED BY <2>1
<1>4. \A y : IsBuffered(server.buf, y) =>
          y < id /\ \A i, x : Publishes(server.replay, i, x) => x < y
  <2>1. SUFFICES ASSUME NEW y, IsBuffered(server.buf, y)
                 PROVE y < id /\ \A i, x : Publishes(server.replay, i, x) => x < y
    OBVIOUS
  <2>2. PICK k \in QueueKinds : \E j \in 1 .. Len(server.buf.queue[k]) : server.buf.queue[k][j].id = y
    BY <2>1 DEF IsBuffered
  <2>3. PICK j \in 1 .. Len(server.buf.queue[k]) : server.buf.queue[k][j].id = y
    BY <2>2
  <2>4. server.buf.queue[k][j].id \in 1 .. happened.publishes
    BY <1>1 DEF ServerInv, BufferSorted
  <2>5. \A a, x : Publishes(server.replay, a, x) => x < server.buf.queue[k][j].id
    BY <1>1, Zenon DEF ReplayInv, ReplaySorted
  <2> QED BY <1>2, <2>3, <2>4, <2>5
<1>5. \A k \in QueueKinds : \A j \in 1 .. Len(server'.buf.queue[k]) :
          IsBuffered(server'.buf, server'.buf.queue[k][j].id)
  BY DEF IsBuffered
<1>6. NothingBuffered(server'.buf) => \A k \in QueueKinds : 1 .. Len(server'.buf.queue[k]) = {}
  <2>1. Len(<<>>) = 0 /\ 1 .. 0 = {}
    OBVIOUS
  <2> QED BY <2>1 DEF NothingBuffered
<1>7. ReplayInv'
  <2>1. happened.publishes <= happened'.publishes /\ happened'.publishes \in Nat
    BY <1>2
  <2>2. \A i, j, x, y : Sends(q, i, x) /\ Sends(q, j, y) /\ i < j => x < y
    <3>1. ~(1 < 1)
      OBVIOUS
    <3> QED BY <3>1, Zenon
  <2>3. ASSUME NEW i, NEW x, Sends(q, i, x)
        PROVE  /\ x <= happened'.publishes
               /\ \A j, y : Publishes(server.replay, j, y) => y < x
               /\ \A k \in QueueKinds : \A j \in 1 .. Len(server'.buf.queue[k]) :
                     x < server'.buf.queue[k][j].id
    <3>1. x = id /\ NothingBuffered(server'.buf)
      BY <2>3
    <3>2. x <= happened'.publishes
      BY <1>2, <3>1
    <3> QED BY <1>3, <1>6, <3>1, <3>2
  <2>4. ASSUME NEW i, NEW x, Publishes(server.replay, i, x)
        PROVE \A k \in QueueKinds : \A j \in 1 .. Len(server'.buf.queue[k]) : x < server'.buf.queue[k][j].id
    BY <1>3, <1>4, <1>5, <2>4
  <2> QED BY <1>1, <2>1, <2>2, <2>3, <2>4, ReplayGrows
<1>8. HeardInv'
  BY <1>1, HeardGoesOn
<1>9. ASSUME \A i, x : ~Sends(q, i, x)
      PROVE \A i, x : Publishes(server'.replay, i, x) => Publishes(server.replay, i, x)
  BY <1>1, <1>9, PublishesGrow, Zenon
<1>10. ASSUME NEW y, PastTheEnd(y) PROVE PastTheEnd(y)'
  BY <1>9, <1>10 DEF PastTheEnd
<1>11. ASSUME NEW y, \A i, x : ~Sends(q, i, x), server'.ended,
              \A i, x : Publishes(server.replay, i, x) => x < y, NothingBuffered(server'.buf)
       PROVE PastTheEnd(y)'
  BY <1>6, <1>9, <1>11 DEF PastTheEnd
<1>12. ASSUME NEW y, Somewhere(y) PROVE Somewhere(y)'
  <2>1. IsBuffered(server.buf, y) => IsBuffered(server'.buf, y) \/ PastTheEnd(y)'
    BY <1>4, <1>11
  <2> QED BY <1>1, <1>10, <1>12, <2>1, SomewhereGoesOn
<1>13. id \in due' => Somewhere(id)'
  <2>1. ASSUME NEW i, Sends(q, i, id) PROVE ToRead(id)'
    <3>1. i \in Nat /\ 0 < i /\ Len(server.replay) \in Nat
          /\ Publishes(server'.replay, Len(server.replay) + i, id)
      BY <1>1, <2>1, PublishesGrow, Zenon
    <3>2. page.lastSeq \in Nat /\ page.lastSeq <= Len(server.replay)
      BY <1>1 DEF TypeInv, PageEnds, WireInv
    <3>3. Len(server.replay) + i > page.lastSeq
      BY <3>1, <3>2
    <3> QED BY <3>1, <3>3 DEF ToRead
  <2>2. ASSUME \A i, x : ~Sends(q, i, x), server'.ended, server'.buf = server.buf
        PROVE PastTheEnd(id)'
    <3>1. \A k \in QueueKinds : \A i \in 1 .. Len(server.buf.queue[k]) : server.buf.queue[k][i].id < id
      BY <1>4, <1>5, <2>2
    <3> QED BY <1>3, <1>9, <2>2, <3>1 DEF PastTheEnd
  <2> QED BY <1>3, <1>11, <2>1, <2>2 DEF Somewhere
<1>14. DueInv'
  BY <1>1, <1>12, <1>13 DEF DueInv
<1> QED BY <1>7, <1>8, <1>14 DEF PublishesKept

-----------------------------------------------------------------------------
(* Every step keeps the invariant *)

\* What a bound counts grows by one.
LEMMA Happening ==
    ASSUME TypeInv, NEW what \in Bounds, Happens(what)
    PROVE  /\ happened' \in [Bounds -> Nat]
           /\ what # "publishes" => happened'.publishes = happened.publishes
           /\ what = "publishes" => /\ happened.publishes < Len(plan.messages)
                                    /\ happened'.publishes = happened.publishes + 1
<1>1. happened \in [Bounds -> Nat] /\ "publishes" \in Bounds
  BY DEF TypeInv, Bounds
<1>2. happened' = [happened EXCEPT ![what] = @ + 1]
  BY DEF Happens
<1>3. happened' \in [Bounds -> Nat]
  BY <1>1, <1>2
<1>4. what # "publishes" => happened'.publishes = happened.publishes
  BY <1>1, <1>2
<1>5. what = "publishes" => /\ happened.publishes < Len(plan.messages)
                            /\ happened'.publishes = happened.publishes + 1
  BY <1>1, <1>2 DEF Happens
<1> QED BY <1>3, <1>4, <1>5

\* What a step of the server has to show.
LEMMA ServerStep ==
    ASSUME PageInv, server' \in ServerEnds, FollowsUse(server'), WireInv', PublishesKept',
           page' = page, plan' = plan, wire' \in {"down", "joining", "joined", "dead"},
           toServer' \in Seq(SubFrames \cup Reconciles), toPage' \in Seq(Answers \cup SeqFrames),
           happened' \in [Bounds -> Nat], happened'.publishes <= Len(plan.messages),
           due' \subseteq 1 .. happened'.publishes,
           server'.attached => server'.registered /\ NothingBuffered(server'.buf),
           ~server'.registered => server'.replay = <<>>
    PROVE  PageInv'
<1>1. TypeInv'
  BY DEF PageInv, TypeInv
<1>2. ServerInv'
  BY DEF ServerInv, PublishesKept
<1> QED BY <1>1, <1>2 DEF PageInv, PublishesKept

\* A sequence of none, and of one.
LEMMA NoneOrOne ==
    /\ \A i, x : ~Sends(<<>>, i, x)
    /\ \A S : <<>> \in Seq(S)
    /\ \A S : \A a \in S : <<a>> \in Seq(S)
    /\ \A f : Len(<<f>>) = 1 /\ <<f>>[1] = f
    /\ \A S : \A q \in Seq(S) : Len(q) = 0 => q = <<>>
<1>1. Len(<<>>) = 0 /\ 1 .. 0 = {}
  OBVIOUS
<1>2. \A i, x : ~Sends(<<>>, i, x)
  BY <1>1, Zenon DEF Sends
<1>3. \A S : \A q \in Seq(S) : Len(q) = 0 => q = <<>>
  BY EmptySeq
<1> QED BY <1>2, <1>3

\* The response is made.
LEMMA RegistersKeeps ==
    ASSUME PageInv, ServerRegisters
    PROVE  PageInv'
<1>1. /\ TypeInv /\ FollowsUse(server) /\ WireInv /\ ServerInv /\ server \in ServerEnds
      /\ page' = page /\ plan' = plan /\ wire' = wire /\ toServer' = toServer /\ due' = due
      /\ happened' = happened /\ ~server.registered
  BY DEF PageInv, TypeInv, ServerRegisters
<1>2. server.replay = <<>> /\ server.attached = FALSE /\ BufferSorted(server.buf, happened.publishes)
  BY <1>1 DEF ServerInv, ServerEnds
<1> DEFINE s == [server EXCEPT !.registered = TRUE, !.awaited = <<>>]
<1>3. /\ s \in ServerEnds /\ FollowsUse(s) /\ s.replay = server.replay /\ s.buf = server.buf
      /\ s.ended = server.ended /\ s.attached = FALSE /\ s.registered
  <2>1. /\ s \in ServerEnds /\ s.replay = server.replay /\ s.buf = server.buf
        /\ s.ended = server.ended /\ s.attached = FALSE /\ s.registered
        /\ s.hears = server.hears /\ s.peerSubscribed = server.peerSubscribed
        /\ s.listens = server.listens
    BY <1>1, <1>2, NoneOrOne DEF ServerEnds
  <2> HIDE DEF s
  <2> QED BY <1>1, <2>1 DEF FollowsUse
<1>4. happened.publishes \in Nat
  BY <1>1 DEF TypeInv, Bounds
<1>5. CASE server.awaited = <<>>
  <2> DEFINE r == [server |-> s, sent |-> <<>>]
  <2>1. ServerDoes(r, <<>>)
    BY <1>5 DEF ServerRegisters
  <2>2. r.server = s /\ r.sent = <<>>
    OBVIOUS
  <2> HIDE DEF s, r
  <2>3. r.server \in ServerEnds /\ r.server.replay = server.replay /\ r.sent \in Seq(SentFrames)
        /\ <<>> \in Seq(Answers \cup SeqFrames)
    BY <1>3, <2>2, NoneOrOne
  <2>4. /\ server' \in ServerEnds /\ FollowsUse(server') /\ Grows(r.sent)
        /\ server'.buf = server.buf /\ server'.ended = server.ended
        /\ server'.attached = FALSE /\ server'.registered
        /\ toPage' \in Seq(Answers \cup SeqFrames)
    BY <1>1, <1>3, <2>1, <2>2, <2>3, SentJoins
  <2>5. PublishesKept'
    BY <1>1, <2>2, <2>3, <2>4, NoneOrOne, QuietStep
  <2>6. WireInv'
    BY <1>1, <2>1, <2>3, WireGoesOn
  <2> QED BY <1>1, <2>4, <2>5, <2>6, ServerStep DEF TypeInv
<1>6. CASE server.awaited # <<>>
  <2> DEFINE subs == server.awaited[1].subs
             r == AttachPeer(s, subs)
             a == [t |-> "ATTACH_RESULT"]
  <2>1. ServerDoes(r, <<a>>)
    BY <1>6 DEF ServerRegisters
  <2>2. subs \in Flags
    <3>1. server.awaited[1] \in Reconciles
      BY <1>1, <1>6, EmptySeq, LenProperties, ElementOfSeq DEF ServerEnds
    <3> QED BY <3>1 DEF Reconciles
  <2> HIDE DEF s, subs
  <2>3. /\ r.server \in ServerEnds /\ FollowsUse(r.server) /\ NothingBuffered(r.server.buf)
        /\ r.server.registered = s.registered /\ r.server.replay = s.replay
        /\ r.server.ended = s.ended
        /\ r.sent \in Seq(SentFrames)
        /\ \A id : IsBuffered(s.buf, id) <=> \E i : Sends(r.sent, i, id)
        /\ \A i, j, x, y : Sends(r.sent, i, x) /\ Sends(r.sent, j, y) /\ i < j => x < y
    BY <1>2, <1>3, <1>4, <2>2, PageAttaches
  <2>4. a \in Answers /\ <<a>> \in Seq(Answers \cup SeqFrames)
    BY DEF Answers
  <2> HIDE DEF r, a
  <2>5. /\ server' \in ServerEnds /\ FollowsUse(server') /\ Grows(r.sent)
        /\ server'.buf = r.server.buf /\ server'.ended = server.ended
        /\ server'.registered
        /\ toPage' \in Seq(Answers \cup SeqFrames)
    BY <1>1, <1>3, <2>1, <2>3, <2>4, SentJoins, ZenonT(180)
  <2>6. PublishesKept'
    BY <1>1, <1>3, <2>3, <2>5, FlushStep
  <2>7. WireInv'
    <3>1. wire = "joined" => \E n : Lacks(toPage \o <<a>>, n)
      BY <1>1, <1>2, <2>4, AnswerJoins
    <3>2. wire = "joined" => toServer \in Seq(SubFrames)
      BY <1>1 DEF WireInv
    <3> QED BY <1>1, <1>3, <2>1, <2>3, <2>4, <3>1, <3>2, WireCarries
  <2> QED BY <1>1, <2>3, <2>5, <2>6, <2>7, ServerStep DEF TypeInv
<1> QED BY <1>5, <1>6

\* The server aborts.
LEMMA AbortsKeeps ==
    ASSUME PageInv, ServerAborts
    PROVE  PageInv'
<1>1. /\ TypeInv /\ FollowsUse(server) /\ WireInv /\ ServerInv /\ server \in ServerEnds
      /\ page' = page /\ plan' = plan /\ wire' = wire /\ toServer' = toServer /\ due' = due
      /\ Happens("aborts") /\ ServerDoes(EndsWithError(server), <<>>)
  BY DEF PageInv, TypeInv, ServerAborts
<1>2. happened' \in [Bounds -> Nat] /\ happened'.publishes = happened.publishes
  BY <1>1, Happening DEF Bounds
<1> DEFINE r == EndsWithError(server)
<1>3. /\ r.server \in ServerEnds /\ FollowsUse(r.server)
      /\ r.server.registered = server.registered /\ r.server.replay = server.replay
      /\ r.server.buf = server.buf /\ r.server.ended /\ ~r.server.attached
      /\ r.sent \in Seq(SentFrames) /\ \A i \in 1 .. Len(r.sent) : r.sent[i].t = "END"
      /\ ~server.attached => r.sent = <<>>
  <2>1. server.buf \in Buffers /\ [server EXCEPT !.buf = server.buf] = server
    BY <1>1 DEF ServerEnds
  <2> QED BY <1>1, <2>1, ServerEnding
<1> HIDE DEF r
<1>4. \A i, x : ~Sends(r.sent, i, x)
  BY <1>3 DEF Sends
<1>5. /\ server' \in ServerEnds /\ FollowsUse(server') /\ Grows(r.sent)
      /\ server'.buf = server.buf /\ server'.ended /\ ~server'.attached
      /\ server'.registered = server.registered
      /\ toPage' \in Seq(Answers \cup SeqFrames)
  BY <1>1, <1>3, NoneOrOne, SentJoins DEF r
<1>6. PublishesKept'
  BY <1>1, <1>2, <1>3, <1>4, <1>5, QuietStep
<1>7. WireInv'
  BY <1>1, <1>3, WireGoesOn DEF r
<1>8. ~server'.registered => server'.replay = <<>>
  <2>1. ASSUME ~server.registered PROVE server'.replay = <<>>
    <3>1. server.replay = <<>> /\ r.sent = <<>>
      BY <1>1, <1>3, <2>1 DEF ServerInv
    <3>2. Len(server'.replay) = Len(server.replay) + Len(r.sent)
      BY <1>5 DEF Grows
    <3>3. Len(server'.replay) = 0
      BY <3>1, <3>2
    <3>4. server'.replay \in Seq(Replayed)
      BY <1>5 DEF ServerEnds
    <3> QED BY <3>3, <3>4, NoneOrOne
  <2> QED BY <1>5, <2>1
<1>9. happened'.publishes <= Len(plan.messages) /\ due' \subseteq 1 .. happened'.publishes
  BY <1>1, <1>2 DEF TypeInv
<1> QED BY <1>1, <1>2, <1>5, <1>6, <1>7, <1>8, <1>9, ServerStep DEF TypeInv

\* The server stays as it was, but for what it subscribes to.
LEMMA UseKeeps ==
    ASSUME PageInv, server' \in ServerEnds, FollowsUse(server'),
           server'.replay = server.replay, server'.buf = server.buf,
           server'.ended = server.ended, server'.registered = server.registered,
           server'.attached => server.attached,
           page' = page, plan' = plan, due' = due, toPage' = toPage, wire' = wire,
           toServer' = toServer \/ (wire = "joined" /\ toServer' \in Seq(SubFrames)),
           happened' \in [Bounds -> Nat], happened'.publishes = happened.publishes
    PROVE  PageInv'
<1>1. TypeInv /\ WireInv /\ ServerInv
  BY DEF PageInv
<1>2. Grows(<<>>)
  <2>1. Len(server.replay) \in Nat /\ Len(<<>>) = 0 /\ 1 .. 0 = {}
    BY <1>1, LenProperties DEF TypeInv, ServerEnds
  <2> QED BY <2>1 DEF Grows
<1>3. PublishesKept'
  <2>1. <<>> \in Seq(SentFrames) /\ \A i, x : ~Sends(<<>>, i, x)
    BY NoneOrOne
  <2> QED BY <1>2, <2>1, QuietStep
<1>4. WireInv'
  <2>1. \A n : Lacks(toPage, n) => Lacks(toPage, n)'
    BY Zenon DEF Lacks
  <2>2. wire = "joined" => toServer' \in Seq(SubFrames)
    BY <1>1 DEF WireInv
  <2>3. wire # "joined" => toServer' = toServer
    OBVIOUS
  <2> QED BY <1>1, <2>1, <2>2, <2>3 DEF WireInv
<1>5. toServer' \in Seq(SubFrames \cup Reconciles)
  <2>1. Seq(SubFrames) \subseteq Seq(SubFrames \cup Reconciles)
    OBVIOUS
  <2> QED BY <1>1, <2>1 DEF TypeInv
<1>6. /\ server'.attached => server'.registered /\ NothingBuffered(server'.buf)
      /\ ~server'.registered => server'.replay = <<>>
  BY <1>1 DEF ServerInv
<1> QED BY <1>1, <1>3, <1>4, <1>5, <1>6, ServerStep DEF TypeInv

\* The server notices a dead wire.
LEMMA NoticesKeeps ==
    ASSUME PageInv, ServerNotices
    PROVE  PageInv'
<1>1. /\ TypeInv /\ FollowsUse(server) /\ server \in ServerEnds /\ happened' = happened
      /\ server' = [server EXCEPT !.attached = FALSE, !.awaited = <<>>]
      /\ page' = page /\ plan' = plan /\ due' = due /\ toPage' = toPage /\ wire' = wire
      /\ toServer' = toServer
  BY DEF PageInv, TypeInv, ServerNotices
<1>2. /\ server' \in ServerEnds /\ server'.replay = server.replay /\ server'.buf = server.buf
      /\ server'.ended = server.ended /\ server'.registered = server.registered
      /\ server'.attached = FALSE /\ server'.hears = server.hears
      /\ server'.peerSubscribed = server.peerSubscribed /\ server'.listens = server.listens
  BY <1>1, NoneOrOne DEF ServerEnds
<1>3. FollowsUse(server')
  BY <1>1, <1>2 DEF FollowsUse
<1> QED BY <1>1, <1>2, <1>3, UseKeeps DEF TypeInv

\* Its code listens, or no longer.
LEMMA ListensKeeps ==
    ASSUME PageInv, NEW kind \in QueueKinds, ServerListens(kind)
    PROVE  PageInv'
<1>1. /\ TypeInv /\ FollowsUse(server) /\ server \in ServerEnds /\ ~server.ended
      /\ page' = page /\ plan' = plan /\ due' = due /\ toPage' = toPage /\ wire' = wire
      /\ toServer' = toServer /\ Happens("serverToggles")
  BY DEF PageInv, TypeInv, ServerListens
<1>2. happened' \in [Bounds -> Nat] /\ happened'.publishes = happened.publishes
  BY <1>1, Happening DEF Bounds
<1>3. \A k \in QueueKinds : server.hears[k] = (server.peerSubscribed[k] \/ server.listens[k])
  BY <1>1 DEF FollowsUse
<1>4. server' \in ServerEnds /\ FollowsUse(server') /\ SameButUse(server, server')
  <2>1. CASE server.listens[kind]
    <3> DEFINE l == [server.listens EXCEPT ![kind] = FALSE]
               u == [server EXCEPT !.listens = l]
    <3>1. server' = UnsubscribeUnused(u)
      BY <2>1 DEF ServerListens
    <3>2. l \in Flags /\ \A k \in QueueKinds : l[k] => server.listens[k]
      BY <1>1 DEF ServerEnds, Flags
    <3> HIDE DEF l
    <3>3. /\ u \in ServerEnds /\ SameButUse(server, u) /\ ~u.ended /\ u.listens = l
          /\ u.hears = server.hears /\ u.peerSubscribed = server.peerSubscribed
      BY <1>1, <3>2 DEF ServerEnds, SameButUse
    <3> HIDE DEF u
    <3>4. \A k \in QueueKinds : u.peerSubscribed[k] \/ u.listens[k] => u.hears[k]
      BY <1>3, <3>2, <3>3
    <3>5. LET t == UnsubscribeUnused(u) IN t \in ServerEnds /\ FollowsUse(t) /\ SameButUse(u, t)
      BY <3>3, <3>4, UnusedGoes
    <3> QED BY <3>1, <3>3, <3>5 DEF SameButUse
  <2>2. CASE ~server.listens[kind]
    <3> DEFINE l == [server.listens EXCEPT ![kind] = TRUE]
               h == [server.hears EXCEPT ![kind] = TRUE]
    <3>1. server' = [server EXCEPT !.listens = l, !.hears = h]
      <4>1. server' = [server EXCEPT !.listens[kind] = TRUE, !.hears[kind] = TRUE]
        BY <2>2 DEF ServerListens
      <4> QED BY <1>1, <4>1
    <3>2. l \in Flags /\ h \in Flags
          /\ \A k \in QueueKinds : h[k] = (server.peerSubscribed[k] \/ l[k])
      BY <1>1, <1>3 DEF ServerEnds, Flags
    <3> HIDE DEF l, h
    <3>3. /\ server' \in ServerEnds /\ SameButUse(server, server') /\ server'.listens = l
          /\ server'.hears = h /\ server'.peerSubscribed = server.peerSubscribed
      BY <1>1, <3>1, <3>2 DEF ServerEnds, SameButUse
    <3> QED BY <1>1, <3>2, <3>3 DEF FollowsUse, SameButUse
  <2> QED BY <2>1, <2>2
<1> QED BY <1>1, <1>2, <1>4, UseKeeps DEF SameButUse

\* What the page lacks, as its RECONCILE says, goes behind the answer.
LEMMA LacksGoes ==
    ASSUME TypeInv, WireInv, ReplayInv
    PROVE  LET l == page.lastSeq
               first == <<Reconciled(TRUE)>> \o
                        [i \in 1 .. Len(server.replay) - l |-> OnWire(server.replay[l + i])]
           IN  first \in Seq(Answers \cup SeqFrames) /\ Lacks(first, 1)
<1> DEFINE lacks == [i \in 1 .. Len(server.replay) - page.lastSeq |->
                        OnWire(server.replay[page.lastSeq + i])]
           a == <<Reconciled(TRUE)>>
           z == a \o lacks
<1>1. PICK l \in Nat, g \in Nat : l = page.lastSeq /\ g = Len(server.replay) - l
  <2>1. page.lastSeq \in Nat /\ Len(server.replay) \in Nat /\ page.lastSeq <= Len(server.replay)
    BY LenProperties DEF TypeInv, PageEnds, ServerEnds, WireInv
  <2>2. Len(server.replay) - page.lastSeq \in Nat
    BY <2>1
  <2> QED BY <2>1, <2>2
<1>2. Len(server.replay) = l + g /\ server.replay \in Seq(Replayed)
  BY <1>1, LenProperties DEF TypeInv, ServerEnds
<1>3. \A i \in 1 .. g : l + i \in 1 .. Len(server.replay)
  BY <1>2
<1>4. \A i \in 1 .. g : /\ lacks[i] \in SeqFrames /\ lacks[i].t = "SEQ"
                        /\ lacks[i].seq = l + i /\ lacks[i].frame = server.replay[l + i].frame
  <2>1. \A i \in 1 .. g : server.replay[l + i] \in Replayed /\ server.replay[l + i].seq = l + i
    BY <1>2, <1>3, ElementOfSeq DEF ReplayInv, ReplaySorted
  <2>2. \A i \in 1 .. g : lacks[i] = OnWire(server.replay[l + i])
    BY <1>1
  <2> HIDE DEF lacks
  <2> QED BY <2>1, <2>2, SeqFrame
<1>5. lacks \in Seq(Answers \cup SeqFrames) /\ Len(lacks) = g
  <2>1. lacks = [i \in 1 .. g |-> lacks[i]]
    BY <1>1
  <2> HIDE DEF lacks
  <2>2. lacks \in [1 .. g -> Answers \cup SeqFrames] /\ DOMAIN lacks = 1 .. g
    BY <1>4, <2>1
  <2>3. lacks \in Seq(Answers \cup SeqFrames)
    BY <2>2, SeqDef
  <2> QED BY <2>2, <2>3, LenProperties
<1> HIDE DEF lacks
<1>6. a \in Seq(Answers \cup SeqFrames) /\ Len(a) = 1 /\ a[1].t # "SEQ"
  <2>1. Reconciled(TRUE) \in Answers /\ Reconciled(TRUE).t # "SEQ"
    BY DEF Reconciled, Answers
  <2> QED BY <2>1, NoneOrOne
<1> HIDE DEF a
<1>7. z \in Seq(Answers \cup SeqFrames) /\ IsJoin(z, a, lacks, 1, g)
  BY <1>5, <1>6, Joined
<1> HIDE DEF z
<1>8. /\ Len(z) = 1 + g /\ z[1] = a[1] /\ \A i \in 1 .. g : z[1 + i] = lacks[i]
      /\ \A i \in 1 .. 1 + g : i = 1 \/ \E j \in 1 .. g : i = 1 + j
  <2>1. 1 \in 1 .. 1 /\ \A i \in 1 .. 1 : i = 1
    OBVIOUS
  <2> QED BY <1>7, <2>1 DEF IsJoin
<1>9. \A i \in 1 .. Len(z) :
         IF i <= 1 THEN z[i].t # "SEQ"
         ELSE /\ z[i].t = "SEQ" /\ z[i].seq = l + (i - 1)
              /\ z[i].frame = server.replay[l + (i - 1)].frame
  <2>1. ASSUME NEW j \in 1 .. g
        PROVE  /\ z[1 + j].t = "SEQ" /\ z[1 + j].seq = l + j
               /\ z[1 + j].frame = server.replay[l + j].frame
               /\ ~(1 + j <= 1) /\ (1 + j) - 1 = j
    BY <1>4, <1>8, SMTT(180)
  <2>2. z[1].t # "SEQ" /\ 1 <= 1
    BY <1>6, <1>8
  <2>3. ASSUME NEW i \in 1 .. 1 + g
        PROVE  IF i <= 1 THEN z[i].t # "SEQ"
               ELSE /\ z[i].t = "SEQ" /\ z[i].seq = l + (i - 1)
                    /\ z[i].frame = server.replay[l + (i - 1)].frame
    <3>1. CASE i = 1
      BY <2>2, <3>1
    <3>2. ASSUME NEW j \in 1 .. g, i = 1 + j PROVE i - 1 = j /\ ~(i <= 1)
      BY <2>1, <3>2
    <3> QED BY <1>8, <2>1, <3>1, <3>2
  <2> QED BY <1>8, <2>3
<1>10. Len(z) = 1 + (Len(server.replay) - page.lastSeq)
  BY <1>1, <1>8
<1>11. Lacks(z, 1)
  BY <1>1, <1>9, <1>10 DEF Lacks
<1> QED BY <1>7, <1>11 DEF z, a, lacks

\* The server reads.
LEMMA ReadsKeeps ==
    ASSUME PageInv, ServerReads
    PROVE  PageInv'
<1> DEFINE f == Head(toServer)
<1>1. /\ TypeInv /\ FollowsUse(server) /\ WireInv /\ ServerInv /\ ReplayInv /\ server \in ServerEnds
      /\ page' = page /\ plan' = plan /\ due' = due /\ happened' = happened
      /\ wire \in {"joining", "joined"} /\ toServer # <<>>
      /\ toServer' = Tail(toServer) /\ wire' = "joined"
  BY DEF PageInv, TypeInv, ServerReads, Alive
<1>2. happened.publishes \in Nat /\ BufferSorted(server.buf, happened.publishes)
  BY <1>1 DEF TypeInv, Bounds, ServerInv
<1>3. CASE wire = "joining"
  <2>1. /\ toPage = <<>> /\ Len(toServer) = 1 /\ toServer \in Seq(SubFrames \cup Reconciles)
        /\ toServer[1] \in Reconciles /\ toServer[1].lastSeq = page.lastSeq
    BY <1>1, <1>3 DEF WireInv, TypeInv
  <2>2. f = toServer[1] /\ Tail(toServer) = <<>>
    <3>1. Tail(toServer) \in Seq(SubFrames \cup Reconciles) /\ Len(Tail(toServer)) = 0
      BY <2>1
    <3>2. Tail(toServer) = <<>>
      BY <3>1, NoneOrOne
    <3> QED BY <2>1, <3>2
  <2>3. /\ toServer' = <<>> /\ toServer' \in Seq(SubFrames)
        /\ toServer' \in Seq(SubFrames \cup Reconciles)
    BY <1>1, <2>2, NoneOrOne
  <2>4. f.t = "RECONCILE" /\ f.subs \in Flags /\ f.lastSeq = page.lastSeq /\ f \in Reconciles
    BY <2>1, <2>2 DEF Reconciles
  <2>5. TakesReconcile(f)
    BY <2>4 DEF ServerReads
  <2> HIDE DEF f
  <2>6. CASE server.registered
    <3> DEFINE first == <<Reconciled(TRUE)>> \o
                        [i \in 1 .. Len(server.replay) - page.lastSeq |->
                            OnWire(server.replay[page.lastSeq + i])]
               r == AttachPeer(server, f.subs)
    <3>1. ServerDoes(r, first)
      BY <2>4, <2>5, <2>6 DEF TakesReconcile
    <3>2. first \in Seq(Answers \cup SeqFrames) /\ Lacks(first, 1)
      BY <1>1, LacksGoes
    <3> HIDE DEF first
    <3>3. /\ r.server \in ServerEnds /\ FollowsUse(r.server) /\ NothingBuffered(r.server.buf)
          /\ r.server.registered = server.registered /\ r.server.replay = server.replay
          /\ r.server.ended = server.ended
          /\ r.sent \in Seq(SentFrames)
          /\ \A id : IsBuffered(server.buf, id) <=> \E i : Sends(r.sent, i, id)
          /\ \A i, j, x, y : Sends(r.sent, i, x) /\ Sends(r.sent, j, y) /\ i < j => x < y
      BY <1>1, <1>2, <2>4, PageAttaches
    <3> HIDE DEF r
    <3>4. /\ server' \in ServerEnds /\ FollowsUse(server') /\ Grows(r.sent)
          /\ server'.buf = r.server.buf /\ server'.ended = server.ended
          /\ server'.registered /\ toPage' \in Seq(Answers \cup SeqFrames)
      BY <1>1, <2>6, <3>1, <3>2, <3>3, SentJoins
    <3>5. PublishesKept'
      BY <1>1, <3>3, <3>4, FlushStep
    <3>6. WireInv'
      <4>1. toPage \o first = first
        BY <2>1, <3>2, ConcatEmptySeq
      <4> QED BY <1>1, <2>3, <3>1, <3>2, <3>3, <4>1, WireCarries
    <3> QED BY <1>1, <2>3, <3>3, <3>4, <3>5, <3>6, ServerStep DEF TypeInv
  <2>7. CASE ~server.registered
    <3> DEFINE s == [server EXCEPT !.awaited = <<f>>]
               r == [server |-> s, sent |-> <<>>]
               a == Reconciled(FALSE)
    <3>1. ServerDoes(r, <<a>>)
      BY <2>5, <2>7 DEF TakesReconcile
    <3>2. r.server = s /\ r.sent = <<>>
      OBVIOUS
    <3>3. /\ s \in ServerEnds /\ FollowsUse(s) /\ s.replay = server.replay /\ s.buf = server.buf
          /\ s.ended = server.ended /\ s.attached = server.attached
          /\ s.registered = server.registered
      <4>1. /\ s \in ServerEnds /\ s.replay = server.replay /\ s.buf = server.buf
            /\ s.ended = server.ended /\ s.attached = server.attached
            /\ s.registered = server.registered
            /\ s.hears = server.hears /\ s.peerSubscribed = server.peerSubscribed
            /\ s.listens = server.listens
        BY <1>1, <2>4, NoneOrOne DEF ServerEnds
      <4> HIDE DEF s
      <4> QED BY <1>1, <4>1 DEF FollowsUse
    <3>4. a \in Answers /\ <<a>> \in Seq(Answers \cup SeqFrames)
      BY DEF Answers, Reconciled
    <3> HIDE DEF s, r, a
    <3>5. /\ r.server \in ServerEnds /\ r.server.replay = server.replay
          /\ r.sent \in Seq(SentFrames)
      BY <3>2, <3>3, NoneOrOne
    <3>6. /\ server' \in ServerEnds /\ FollowsUse(server') /\ Grows(r.sent)
          /\ server'.buf = server.buf /\ server'.ended = server.ended
          /\ server'.attached = server.attached /\ server'.registered = server.registered
          /\ toPage' \in Seq(Answers \cup SeqFrames)
      BY <1>1, <3>1, <3>2, <3>3, <3>4, <3>5, SentJoins, ZenonT(180)
    <3>7. PublishesKept'
      BY <1>1, <3>2, <3>5, <3>6, NoneOrOne, QuietStep
    <3>8. server.replay = <<>> /\ ~server.attached
      BY <1>1, <2>7 DEF ServerInv
    <3>9. WireInv'
      <4>1. \E n : Lacks(toPage \o <<a>>, n)
        BY <1>1, <2>1, <3>4, <3>8, AnswerJoins
      <4> QED BY <1>1, <2>3, <3>1, <3>4, <3>5, <4>1, WireCarries
    <3>10. server'.replay = <<>>
      <4>1. Len(server'.replay) = Len(server.replay) + Len(r.sent)
        BY <3>6 DEF Grows
      <4>2. Len(server'.replay) = 0
        BY <3>2, <3>8, <4>1
      <4>3. server'.replay \in Seq(Replayed)
        BY <3>6 DEF ServerEnds
      <4> QED BY <4>2, <4>3, NoneOrOne
    <3>11. ~server'.attached
      BY <3>6, <3>8
    <3> QED BY <1>1, <2>3, <3>6, <3>7, <3>9, <3>10, <3>11, ServerStep DEF TypeInv
  <2> QED BY <2>6, <2>7
<1>4. CASE wire = "joined"
  <2>1. toServer \in Seq(SubFrames)
    BY <1>1, <1>4 DEF WireInv
  <2>2. /\ toServer' \in Seq(SubFrames) /\ f \in SubFrames
        /\ toServer' \in Seq(SubFrames \cup Reconciles)
    <3>1. Seq(SubFrames) \subseteq Seq(SubFrames \cup Reconciles)
      OBVIOUS
    <3> QED BY <1>1, <2>1, <3>1, HeadTailProperties
  <2>3. f.t = "SUB" /\ f.kind \in QueueKinds /\ f.on \in BOOLEAN
    BY <2>2 DEF SubFrames
  <2>4. CASE server.ended
    <3>1. server' = server /\ toPage' = toPage
      BY <2>3, <2>4 DEF ServerReads
    <3> QED BY <1>1, <1>4, <2>2, <3>1, UseKeeps DEF TypeInv
  <2>5. CASE ~server.ended
    <3> DEFINE s == PeerSubscription(server, f.kind, f.on)
               r == [server |-> s, sent |-> <<>>]
    <3>1. ServerDoes(r, <<>>)
      BY <2>3, <2>5 DEF ServerReads
    <3>2. r.server = s /\ r.sent = <<>>
      OBVIOUS
    <3>3. s \in ServerEnds /\ FollowsUse(s) /\ SameButUse(server, s)
      BY <1>1, <2>3, <2>5, PeerSubscribes
    <3> HIDE DEF s, r
    <3>4. /\ r.server \in ServerEnds /\ r.server.replay = server.replay
          /\ r.sent \in Seq(SentFrames) /\ <<>> \in Seq(Answers \cup SeqFrames)
      BY <3>2, <3>3, NoneOrOne DEF SameButUse
    <3>5. /\ server' \in ServerEnds /\ FollowsUse(server') /\ Grows(r.sent)
          /\ server'.buf = server.buf /\ server'.ended = server.ended
          /\ server'.attached = server.attached /\ server'.registered = server.registered
          /\ toPage' \in Seq(Answers \cup SeqFrames)
      BY <1>1, <3>1, <3>2, <3>3, <3>4, SentJoins, ZenonT(180) DEF SameButUse
    <3>6. PublishesKept'
      BY <1>1, <3>2, <3>4, <3>5, NoneOrOne, QuietStep
    <3>7. WireInv'
      BY <1>1, <1>4, <2>2, <3>1, <3>4, WireGoesOn
    <3>8. ~server'.registered => server'.replay = <<>>
      <4>1. ASSUME ~server.registered PROVE server'.replay = <<>>
        <5>1. server.replay = <<>>
          BY <1>1, <4>1 DEF ServerInv
        <5>2. Len(server'.replay) = Len(server.replay) + Len(r.sent)
          BY <3>5 DEF Grows
        <5>3. Len(server'.replay) = 0 /\ server'.replay \in Seq(Replayed)
          BY <3>2, <3>5, <5>1, <5>2 DEF ServerEnds
        <5> QED BY <5>3, NoneOrOne
      <4> QED BY <3>5, <4>1
    <3>9. server'.attached => server'.registered /\ NothingBuffered(server'.buf)
      BY <1>1, <3>5 DEF ServerInv
    <3> QED BY <1>1, <2>2, <3>5, <3>6, <3>7, <3>8, <3>9, ServerStep DEF TypeInv
  <2> QED BY <2>4, <2>5
<1> QED BY <1>1, <1>3, <1>4

\* What a publish has to show.
LEMMA PublishKeeps ==
    ASSUME PageInv, NEW r, NEW id, id = happened.publishes + 1, id <= Len(plan.messages),
           ServerDoes(r, <<>>), r.server \in ServerEnds, FollowsUse(r.server),
           r.server.replay = server.replay, r.server.registered = server.registered,
           r.sent \in Seq(SentFrames), ~server.attached => r.sent = <<>>,
           r.server.attached => r.server.registered /\ NothingBuffered(r.server.buf),
           page' = page, plan' = plan, wire' = wire, toServer' = toServer,
           happened' \in [Bounds -> Nat], happened'.publishes = id, due' \subseteq due \cup {id},
           PublishesKept'
    PROVE  PageInv'
<1>1. TypeInv /\ WireInv /\ ServerInv
  BY DEF PageInv
<1>2. /\ server' \in ServerEnds /\ FollowsUse(server') /\ Grows(r.sent)
      /\ server'.buf = r.server.buf /\ server'.attached = r.server.attached
      /\ server'.registered = server.registered
      /\ toPage' \in Seq(Answers \cup SeqFrames)
  BY <1>1, NoneOrOne, SentJoins
<1>3. WireInv'
  BY <1>1, WireGoesOn
<1>4. ~server'.registered => server'.replay = <<>>
  <2>1. ASSUME ~server.registered PROVE server'.replay = <<>>
    <3>1. server.replay = <<>> /\ r.sent = <<>>
      BY <1>1, <2>1 DEF ServerInv
    <3>2. Len(server'.replay) = Len(server.replay) + Len(r.sent)
      BY <1>2 DEF Grows
    <3>3. Len(server'.replay) = 0 /\ server'.replay \in Seq(Replayed)
      BY <1>2, <3>1, <3>2 DEF ServerEnds
    <3> QED BY <3>3, NoneOrOne
  <2> QED BY <1>2, <2>1
<1>5. due' \subseteq 1 .. happened'.publishes
  <2>1. due \subseteq 1 .. happened.publishes /\ happened.publishes \in Nat
    BY <1>1 DEF TypeInv, Bounds
  <2>2. \A i \in 1 .. happened.publishes : i \in 1 .. id
    BY <2>1
  <2>3. id \in 1 .. id
    BY <2>1
  <2> QED BY <2>1, <2>2, <2>3
<1> QED BY <1>1, <1>2, <1>3, <1>4, <1>5, ServerStep DEF TypeInv

\* The order of a buffer allows for more publishes.
LEMMA MorePublishes ==
    ASSUME NEW b, NEW n \in Nat, BufferSorted(b, n)
    PROVE  BufferSorted(b, n + 1)
<1>1. \A i \in 1 .. n : i \in 1 .. n + 1
  OBVIOUS
<1> QED BY <1>1 DEF BufferSorted

\* Anyone publishes.
LEMMA PublishesKeeps ==
    ASSUME PageInv, AnyonePublishes
    PROVE  PageInv'
<1> DEFINE n == happened.publishes
           id == n + 1
           m == plan.messages[id]
           kind == m.kind
           r == IF server.hears[kind] THEN Delivered(server, id)
                ELSE [server |-> server, sent |-> <<>>]
<1>1. /\ TypeInv /\ FollowsUse(server) /\ WireInv /\ ServerInv /\ server \in ServerEnds
      /\ ReplayInv
      /\ page' = page /\ plan' = plan /\ wire' = wire /\ toServer' = toServer
      /\ Happens("publishes") /\ ServerDoes(r, <<>>)
      /\ due' = IF page.subscribed[kind] /\ server.peerSubscribed[kind] THEN due \cup {id} ELSE due
  BY DEF PageInv, TypeInv, AnyonePublishes
<1>2. n \in Nat /\ due \subseteq 1 .. n /\ BufferSorted(server.buf, n)
  BY <1>1 DEF TypeInv, Bounds, ServerInv
<1>3. happened' \in [Bounds -> Nat] /\ happened'.publishes = id /\ n < Len(plan.messages)
  BY <1>1, Happening DEF Bounds
<1>4. m \in [kind : QueueKinds, bytes : Nat] /\ id <= Len(plan.messages) /\ id \in Nat
  <2>1. plan.messages \in Seq([kind : QueueKinds, bytes : Nat])
    BY <1>1, PagesAssumption DEF TypeInv
  <2>2. Len(plan.messages) \in Nat
    BY <2>1, LenProperties
  <2>3. id \in 1 .. Len(plan.messages) /\ id <= Len(plan.messages)
    BY <1>2, <1>3, <2>2
  <2>4. m \in [kind : QueueKinds, bytes : Nat]
    BY <2>1, <2>3, ElementOfSeq
  <2> QED BY <1>2, <2>3, <2>4
<1>5. kind \in QueueKinds /\ m.bytes \in Nat
  BY <1>4
<1>6. /\ due' \subseteq due \cup {id}
      /\ id \in due' => page.subscribed[kind] /\ server.peerSubscribed[kind]
  <2>1. ~(id \in 1 .. n)
    BY <1>2
  <2> QED BY <1>1, <1>2, <2>1
<1>7. server.hears[kind] = (~server.ended /\ (server.peerSubscribed[kind] \/ server.listens[kind]))
  BY <1>1, <1>5 DEF FollowsUse
<1>8. BufferSorted(server.buf, id)
  BY <1>2, MorePublishes
<1> HIDE DEF n, r, m
<1>9. CASE ~(server.hears[kind] /\ server.peerSubscribed[kind])
  <2>1. r = [server |-> server, sent |-> <<>>]
    BY <1>9 DEF r, Delivered, m
  <2>2. r.server = server /\ r.sent = <<>>
    BY <2>1
  <2>3. id \in due' => server.ended
    BY <1>6, <1>7, <1>9
  <2>4. r.sent \in Seq(SentFrames) /\ \A i, x : ~Sends(r.sent, i, x)
    BY <2>2, NoneOrOne
  <2>5. Grows(r.sent) /\ server'.buf = server.buf /\ server'.ended = server.ended
    BY <1>1, <2>2, <2>4, NoneOrOne, SentJoins
  <2>6. PublishesKept'
    BY <1>1, <1>3, <1>6, <1>8, <2>3, <2>4, <2>5, PublishStep DEF n, m
  <2>7. server.attached => server.registered /\ NothingBuffered(server.buf)
    BY <1>1 DEF ServerInv
  <2> QED BY <1>1, <1>3, <1>4, <1>6, <2>2, <2>4, <2>6, <2>7, PublishKeeps DEF n
<1>10. CASE server.hears[kind] /\ server.peerSubscribed[kind]
  <2>1. r = Forward(server, id) /\ ~server.ended
    BY <1>7, <1>10 DEF r, Delivered, m
  <2> DEFINE b == PushEntry(server.buf, kind, id, FALSE, m.bytes)
  <2>2. server.buf \in Buffers
    BY <1>1 DEF ServerEnds
  <2>3. CASE server.attached
    <3>1. r = [server |-> server, sent |-> <<PublishFrame(id)>>]
      BY <2>1, <2>3 DEF Forward
    <3>2. r.server = server /\ r.sent = <<PublishFrame(id)>>
      BY <3>1
    <3>3. PublishFrame(id) \in SentFrames /\ PublishFrame(id).t = "PUBLISH" /\ PublishFrame(id).id = id
      BY <1>4 DEF PublishFrame, SentFrames
    <3>4. r.sent \in Seq(SentFrames) /\ Len(r.sent) = 1 /\ r.sent[1] = PublishFrame(id)
      BY <3>2, <3>3, NoneOrOne
    <3>5. Sends(r.sent, 1, id) /\ \A i, x : Sends(r.sent, i, x) => i = 1 /\ x = id
      <4>1. 1 \in 1 .. 1 /\ \A i \in 1 .. 1 : i = 1
        OBVIOUS
      <4> QED BY <3>3, <3>4, <4>1 DEF Sends
    <3>6. Grows(r.sent) /\ server'.buf = server.buf /\ server'.ended = server.ended
      BY <1>1, <3>2, <3>4, NoneOrOne, SentJoins
    <3>7. server.registered /\ NothingBuffered(server.buf)
      BY <1>1, <2>3 DEF ServerInv
    <3> HIDE DEF id
    <3>8. PublishesKept'
      BY <1>1, <1>3, <1>6, <1>8, <2>1, <3>4, <3>5, <3>6, <3>7, PublishStep DEF n, m, id
    <3> QED BY <1>1, <1>3, <1>4, <1>6, <2>3, <3>2, <3>4, <3>7, <3>8, PublishKeeps DEF n, id
  <2>4. CASE ~server.attached /\ b.dropped = NoKind
    <3> DEFINE s == [server EXCEPT !.buf = b]
    <3>1. r = [server |-> s, sent |-> <<>>]
      BY <2>1, <2>4 DEF Forward, m
    <3>2. r.server = s /\ r.sent = <<>>
      BY <3>1
    <3>3. b \in Buffers /\ BufferSorted(b, id)
          /\ \A y : IsBuffered(b, y) <=> IsBuffered(server.buf, y) \/ y = id
      <4>1. b = PushEntry(server.buf, kind, n + 1, FALSE, m.bytes)
        OBVIOUS
      <4>2. b.dropped = NoKind /\ kind \in QueueKinds /\ m.bytes \in Nat
        BY <1>5, <2>4
      <4>3. n \in Nat /\ BufferSorted(server.buf, n)
        BY <1>2
      <4> HIDE DEF b, kind
      <4> QED BY <2>2, <4>1, <4>2, <4>3, PushKeeps
    <3> HIDE DEF b
    <3>4. /\ s \in ServerEnds /\ FollowsUse(s) /\ s.replay = server.replay /\ s.buf = b
          /\ s.registered = server.registered /\ s.attached = server.attached
      <4>1. /\ s \in ServerEnds /\ s.replay = server.replay /\ s.buf = b
            /\ s.registered = server.registered /\ s.attached = server.attached
            /\ s.ended = server.ended /\ s.hears = server.hears
            /\ s.peerSubscribed = server.peerSubscribed /\ s.listens = server.listens
        BY <1>1, <3>3 DEF ServerEnds
      <4> HIDE DEF s
      <4> QED BY <1>1, <4>1 DEF FollowsUse
    <3> HIDE DEF s
    <3>5. r.sent \in Seq(SentFrames) /\ \A i, x : ~Sends(r.sent, i, x)
      BY <3>2, NoneOrOne
    <3>6. Grows(r.sent) /\ server'.buf = b
      BY <1>1, <3>2, <3>4, <3>5, NoneOrOne, SentJoins
    <3> HIDE DEF id
    <3>7. PublishesKept'
      BY <1>1, <1>3, <1>6, <2>1, <3>3, <3>5, <3>6, PublishStep DEF n, m, id
    <3> QED BY <1>1, <1>3, <1>4, <1>6, <2>4, <3>2, <3>4, <3>5, <3>7, PublishKeeps DEF n, id
  <2>5. CASE ~server.attached /\ b.dropped # NoKind
    <3>1. r = EndsWithError([server EXCEPT !.buf = EmptyBuffer])
      BY <2>1, <2>5 DEF Forward, m
    <3>2. /\ r.server \in ServerEnds /\ FollowsUse(r.server)
          /\ r.server.registered = server.registered /\ r.server.replay = server.replay
          /\ r.server.buf = EmptyBuffer /\ r.server.ended /\ ~r.server.attached
          /\ r.sent \in Seq(SentFrames) /\ r.sent = <<>>
      BY <1>1, <2>5, <3>1, EmptyBuffers, ServerEnding
    <3>3. \A i, x : ~Sends(r.sent, i, x)
      BY <3>2, NoneOrOne
    <3>4. Grows(r.sent) /\ server'.buf = EmptyBuffer /\ server'.ended
      BY <1>1, <3>2, NoneOrOne, SentJoins
    <3>5. /\ BufferSorted(server'.buf, id) /\ NothingBuffered(server'.buf)
          /\ \A y : ~IsBuffered(server'.buf, y)
      BY <3>4, EmptyBuffers
    <3> HIDE DEF id, b
    <3>6. PublishesKept'
      BY <1>1, <1>3, <1>6, <2>1, <3>2, <3>3, <3>4, <3>5, PublishStep DEF n, m, id
    <3> QED BY <1>1, <1>3, <1>4, <1>6, <3>2, <3>6, PublishKeeps DEF n, id
  <2> QED BY <2>3, <2>4, <2>5
<1> QED BY <1>9, <1>10

\* What a step of the page, or of the wire, has to show.
LEMMA PageStep ==
    ASSUME PageInv, server' = server, plan' = plan, page' \in PageEnds,
           wire' \in {"down", "joining", "joined", "dead"},
           toServer' \in Seq(SubFrames \cup Reconciles), toPage' \in Seq(Answers \cup SeqFrames),
           happened' \in [Bounds -> Nat], happened'.publishes = happened.publishes,
           due' \subseteq due, WireInv', HeardInv', DueInv'
    PROVE  PageInv'
<1>1. TypeInv /\ FollowsUse(server) /\ ServerInv /\ ReplayInv
  BY DEF PageInv
<1>2. TypeInv'
  BY <1>1 DEF TypeInv
<1>3. FollowsUse(server') /\ ServerInv' /\ ReplayInv'
  BY <1>1 DEF ServerInv, ReplayInv
<1> QED BY <1>2, <1>3 DEF PageInv

\* The page reads nothing, so what it heard and is due is as it was.
LEMMA HeardStays ==
    ASSUME PageInv, server' = server, plan' = plan,
           page'.lastSeq = page.lastSeq, page'.heard = page.heard, due' \subseteq due,
           \A id \in due' : page.subscribed[plan.messages[id].kind] =>
                                page'.subscribed[plan.messages[id].kind]
    PROVE  HeardInv' /\ DueInv'
<1>1. HeardInv /\ DueInv
  BY DEF PageInv
<1>2. HeardInv'
  BY <1>1 DEF HeardInv
<1>3. \A id : Somewhere(id) => Somewhere(id)'
  BY Zenon DEF Somewhere, IsHeard, ToRead, PastTheEnd
<1>4. DueInv'
  BY <1>1, <1>3 DEF DueInv
<1> QED BY <1>2, <1>4

\* A publish made is of some kind.
LEMMA KindOfPublish ==
    ASSUME TypeInv, NEW id \in due
    PROVE  plan.messages[id].kind \in QueueKinds
<1>1. plan.messages \in Seq([kind : QueueKinds, bytes : Nat])
  BY PagesAssumption DEF TypeInv
<1>2. id \in 1 .. Len(plan.messages)
  <2>1. /\ id \in 1 .. happened.publishes /\ happened.publishes <= Len(plan.messages)
        /\ happened.publishes \in Nat /\ Len(plan.messages) \in Nat
    BY <1>1, LenProperties DEF TypeInv, Bounds
  <2> QED BY <2>1
<1>3. plan.messages[id] \in [kind : QueueKinds, bytes : Nat]
  BY <1>1, <1>2, ElementOfSeq
<1> QED BY <1>3

\* The page subscribes, or no longer.
LEMMA SubscribesKeeps ==
    ASSUME PageInv, NEW kind \in QueueKinds, PageSubscribes(kind)
    PROVE  PageInv'
<1> DEFINE on == ~page.subscribed[kind]
           f == SubFrame(kind, on)
           subs == [page.subscribed EXCEPT ![kind] = on]
           p == [page EXCEPT !.subscribed = subs]
<1>1. /\ TypeInv /\ WireInv /\ page \in PageEnds /\ Happens("pageToggles")
      /\ server' = server /\ plan' = plan /\ wire' = wire /\ toPage' = toPage
      /\ due' = IF on THEN due ELSE {i \in due : plan.messages[i].kind # kind}
      /\ \/ page' = p /\ toServer' = Written(toServer, <<f>>) /\ page.open
         \/ page' = [p EXCEPT !.held = Append(@, f)] /\ toServer' = toServer
  <2>1. [page EXCEPT !.subscribed[kind] = on] = p
    OBVIOUS
  <2>2. IF page.open /\ ~page.awaited THEN page' = p /\ toServer' = Written(toServer, <<f>>)
        ELSE page' = [p EXCEPT !.held = Append(@, f)] /\ UNCHANGED toServer
    BY <2>1 DEF PageSubscribes
  <2>3. /\ Happens("pageToggles") /\ server' = server /\ plan' = plan /\ wire' = wire
        /\ toPage' = toPage
        /\ due' = IF on THEN due ELSE {i \in due : plan.messages[i].kind # kind}
    BY DEF PageSubscribes
  <2>4. TypeInv /\ WireInv
    BY DEF PageInv
  <2>5. page \in PageEnds
    BY <2>4 DEF TypeInv
  <2> QED BY <2>2, <2>3, <2>4, <2>5
<1>2. happened' \in [Bounds -> Nat] /\ happened'.publishes = happened.publishes
  BY <1>1, Happening DEF Bounds
<1>3. /\ subs \in Flags
      /\ \A k \in QueueKinds : (k = kind => subs[k] = on) /\ (k # kind => subs[k] = page.subscribed[k])
      /\ f \in SubFrames
  BY <1>1 DEF PageEnds, Flags, SubFrame, SubFrames
<1> HIDE DEF on, f, subs
<1>4. p \in PageEnds /\ p.lastSeq = page.lastSeq /\ p.heard = page.heard /\ p.open = page.open
      /\ p.subscribed = subs /\ p.held = page.held
  BY <1>1, <1>3 DEF PageEnds
<1> HIDE DEF p
<1>5. /\ page' \in PageEnds /\ page'.lastSeq = page.lastSeq /\ page'.heard = page.heard
      /\ page'.open = page.open /\ page'.subscribed = subs
  <2>1. Append(p.held, f) \in Seq(SubFrames)
    BY <1>3, <1>4, AppendProperties DEF PageEnds
  <2> QED BY <1>1, <1>4, <2>1 DEF PageEnds
<1>6. /\ \/ toServer' = toServer
         \/ wire = "joined" /\ toServer' \in Seq(SubFrames)
      /\ toServer' \in Seq(SubFrames \cup Reconciles)
  <2>1. CASE toServer' = toServer
    <3>1. toServer \in Seq(SubFrames \cup Reconciles)
      BY <1>1 DEF TypeInv
    <3> QED BY <2>1, <3>1
  <2>2. CASE toServer' = Written(toServer, <<f>>) /\ page.open /\ toServer' # toServer
    <3>1. wire \in {"joined", "dead"}
      <4>1. wire \in {"down", "joining", "joined", "dead"}
        BY <1>1 DEF TypeInv
      <4>2. wire \in {"down", "joining"} => ~page.open
        BY <1>1 DEF WireInv
      <4> QED BY <2>2, <4>1, <4>2
    <3>2. CASE wire = "dead"
      <4>1. toServer' = toServer
        BY <2>2, <3>2 DEF Written, Alive
      <4> QED BY <2>2, <4>1
    <3>3. CASE wire = "joined"
      <4>1. toServer \in Seq(SubFrames) /\ <<f>> \in Seq(SubFrames)
        BY <1>1, <1>3, <3>3, NoneOrOne DEF WireInv
      <4>2. toServer' = toServer \o <<f>>
        BY <2>2, <3>3 DEF Written, Alive
      <4>3. toServer' \in Seq(SubFrames)
        BY <4>1, <4>2, ConcatProperties
      <4>4. Seq(SubFrames) \subseteq Seq(SubFrames \cup Reconciles)
        OBVIOUS
      <4> QED BY <3>3, <4>3, <4>4
    <3> QED BY <3>1, <3>2, <3>3
  <2> QED BY <1>1, <2>1, <2>2
<1>7. WireInv'
  <2>1. \A n : Lacks(toPage, n) => Lacks(toPage, n)'
    BY <1>1, <1>5, Zenon DEF Lacks
  <2>2. wire = "joined" => toServer' \in Seq(SubFrames)
    BY <1>1, <1>6 DEF WireInv
  <2>3. wire # "joined" => toServer' = toServer
    BY <1>6
  <2> QED BY <1>1, <1>5, <2>1, <2>2, <2>3 DEF WireInv
<1>8. due' \subseteq due
  BY <1>1
<1>9. \A id \in due' : page.subscribed[plan.messages[id].kind] => page'.subscribed[plan.messages[id].kind]
  <2>1. SUFFICES ASSUME NEW id \in due', page.subscribed[plan.messages[id].kind]
                 PROVE page'.subscribed[plan.messages[id].kind]
    OBVIOUS
  <2> DEFINE k == plan.messages[id].kind
  <2>2. k \in QueueKinds
    BY <1>1, <1>8, KindOfPublish
  <2>3. CASE on
    BY <1>3, <1>5, <2>1, <2>2, <2>3
  <2>4. CASE ~on
    <3>1. k # kind
      BY <1>1, <2>4
    <3> QED BY <1>3, <1>5, <2>1, <2>2, <3>1
  <2> QED BY <2>3, <2>4
<1>10. HeardInv' /\ DueInv'
  BY <1>1, <1>5, <1>8, <1>9, HeardStays
<1> QED BY <1>1, <1>2, <1>5, <1>6, <1>7, <1>8, <1>10, PageStep DEF TypeInv

\* The page reconciles over a new wire.
LEMMA ReconcilesKeeps ==
    ASSUME PageInv, PageReconciles
    PROVE  PageInv'
<1> DEFINE f == Reconcile(Declares, page.lastSeq)
<1>1. /\ TypeInv /\ WireInv /\ page \in PageEnds /\ wire = "down" /\ wire' = "joining"
      /\ server' = server /\ plan' = plan /\ happened' = happened /\ due' = due
      /\ toServer' = <<f>> /\ toPage' = <<>> /\ page' = [page EXCEPT !.held = <<>>]
  BY DEF PageInv, TypeInv, PageReconciles, HeldAfterReconcile
<1>2. /\ page' \in PageEnds /\ page'.lastSeq = page.lastSeq /\ page'.heard = page.heard
      /\ page'.open = page.open /\ page'.subscribed = page.subscribed
  BY <1>1, NoneOrOne DEF PageEnds
<1>3. f \in Reconciles /\ f.lastSeq = page.lastSeq
  BY <1>1 DEF Reconcile, Reconciles, Declares, PageEnds
<1> HIDE DEF f
<1>4. /\ toServer' \in Seq(SubFrames \cup Reconciles) /\ toPage' \in Seq(Answers \cup SeqFrames)
      /\ Len(toServer') = 1 /\ toServer'[1] = f
  BY <1>1, <1>3, NoneOrOne
<1>5. WireInv'
  BY <1>1, <1>2, <1>3, <1>4 DEF WireInv
<1>6. HeardInv' /\ DueInv'
  BY <1>1, <1>2, HeardStays
<1> QED BY <1>1, <1>2, <1>4, <1>5, <1>6, PageStep DEF TypeInv

\* A wire dies, or the page notices that it did.
LEMMA WireEndsKeeps ==
    ASSUME PageInv, WireDies \/ PageNotices
    PROVE  PageInv'
<1>1. TypeInv /\ WireInv /\ page \in PageEnds
  BY DEF PageInv, TypeInv
<1>2. CASE WireDies
  <2>1. /\ server' = server /\ plan' = plan /\ page' = page /\ due' = due /\ wire' = "dead"
        /\ toServer' = <<>> /\ toPage' = <<>> /\ Happens("breaks")
    BY <1>2 DEF WireDies
  <2>2. happened' \in [Bounds -> Nat] /\ happened'.publishes = happened.publishes
    BY <1>1, <2>1, Happening DEF Bounds
  <2>3. toServer' \in Seq(SubFrames \cup Reconciles) /\ toPage' \in Seq(Answers \cup SeqFrames)
    BY <2>1, NoneOrOne
  <2>4. WireInv'
    BY <1>1, <2>1 DEF WireInv
  <2>5. HeardInv' /\ DueInv'
    BY <2>1, HeardStays
  <2> QED BY <1>1, <2>1, <2>2, <2>3, <2>4, <2>5, PageStep
<1>3. CASE PageNotices
  <2>1. /\ server' = server /\ plan' = plan /\ due' = due /\ wire = "dead" /\ wire' = "down"
        /\ toServer' = toServer /\ toPage' = toPage /\ happened' = happened
        /\ page' = [page EXCEPT !.open = FALSE]
    BY <1>3 DEF PageNotices
  <2>2. /\ page' \in PageEnds /\ page'.lastSeq = page.lastSeq /\ page'.heard = page.heard
        /\ page'.open = FALSE /\ page'.subscribed = page.subscribed
    BY <1>1, <2>1 DEF PageEnds
  <2>3. WireInv'
    BY <1>1, <2>1, <2>2 DEF WireInv
  <2>4. HeardInv' /\ DueInv'
    BY <2>1, <2>2, HeardStays
  <2> QED BY <1>1, <2>1, <2>2, <2>3, <2>4, PageStep DEF TypeInv
<1> QED BY <1>2, <1>3

\* A wire's first frame read, the page lacks the rest; a sequenced one is the next of the replay.
LEMMA FrameRead ==
    ASSUME TypeInv, WireInv, wire = "joined", toPage # <<>>
    PROVE  LET f == Head(toPage)
               q == Tail(toPage)
               l == page.lastSeq IN
           /\ l \in Nat /\ f \in Answers \cup SeqFrames /\ q \in Seq(Answers \cup SeqFrames)
           /\ f.t = "SEQ" =>
                /\ l + 1 \in 1 .. Len(server.replay)
                /\ f.seq = l + 1 /\ f.frame = server.replay[l + 1].frame
                /\ \A i \in 1 .. Len(q) :
                      q[i].t = "SEQ" /\ q[i].seq = l + 1 + i /\ q[i].frame = server.replay[l + 1 + i].frame
                /\ Len(q) = Len(server.replay) - (l + 1)
           /\ f.t # "SEQ" => \E n : Lacks(q, n)
<1> DEFINE f == Head(toPage)
           q == Tail(toPage)
<1>1. toPage \in Seq(Answers \cup SeqFrames)
  BY DEF TypeInv
<1>2. PICK g \in Nat : Len(toPage) = g + 1
  <2>1. Len(toPage) \in Nat /\ Len(toPage) # 0
    BY <1>1, NoneOrOne, LenProperties
  <2>2. Len(toPage) - 1 \in Nat /\ Len(toPage) = Len(toPage) - 1 + 1
    BY <2>1
  <2> QED BY <2>2
<1>3. /\ q \in Seq(Answers \cup SeqFrames) /\ Len(q) = g /\ f = toPage[1]
      /\ f \in Answers \cup SeqFrames
      /\ \A i \in 1 .. g : q[i] = toPage[i + 1]
  <2>1. /\ q \in Seq(Answers \cup SeqFrames) /\ Len(q) = Len(toPage) - 1
        /\ f \in Answers \cup SeqFrames
        /\ \A i \in 1 .. Len(q) : q[i] = toPage[i + 1]
    BY <1>1, HeadTailProperties
  <2>2. f = toPage[1]
    BY <1>1
  <2> HIDE DEF q, f
  <2> QED BY <1>2, <2>1, <2>2
<1> HIDE DEF q, f
<1>4. PICK n : Lacks(toPage, n)
  BY DEF WireInv
<1>5. PICK l \in Nat, r \in Nat : l = page.lastSeq /\ Len(server.replay) = l + r
  <2>1. page.lastSeq \in Nat /\ Len(server.replay) \in Nat /\ page.lastSeq <= Len(server.replay)
    BY LenProperties DEF TypeInv, PageEnds, ServerEnds, WireInv
  <2>2. Len(server.replay) - page.lastSeq \in Nat
        /\ Len(server.replay) = page.lastSeq + (Len(server.replay) - page.lastSeq)
    BY <2>1
  <2> QED BY <2>1, <2>2
<1>6. /\ n \in Nat /\ g + 1 = n + r
      /\ \A i \in 1 .. g + 1 :
            IF i <= n THEN toPage[i].t # "SEQ"
            ELSE /\ toPage[i].t = "SEQ" /\ toPage[i].seq = l + (i - n)
                 /\ toPage[i].frame = server.replay[l + (i - n)].frame
  <2>1. /\ n \in Nat /\ g + 1 = n + ((l + r) - l)
        /\ \A i \in 1 .. g + 1 :
            IF i <= n THEN toPage[i].t # "SEQ"
            ELSE /\ toPage[i].t = "SEQ" /\ toPage[i].seq = l + (i - n)
                 /\ toPage[i].frame = server.replay[l + (i - n)].frame
    BY <1>2, <1>4, <1>5 DEF Lacks
  <2>2. (l + r) - l = r
    BY <1>5
  <2> QED BY <2>1, <2>2
<1>7. CASE f.t = "SEQ"
  <2>1. n = 0
    BY <1>3, <1>6, <1>7
  <2>2. r = g + 1
    BY <1>6, <2>1
  <2>3. f.seq = l + 1 /\ f.frame = server.replay[l + 1].frame
    <3>1. 1 \in 1 .. g + 1 /\ ~(1 <= n) /\ l + (1 - n) = l + 1
      BY <2>1
    <3> QED BY <1>3, <1>6, <3>1
  <2>4. ASSUME NEW i \in 1 .. g
        PROVE  q[i].t = "SEQ" /\ q[i].seq = l + 1 + i /\ q[i].frame = server.replay[l + 1 + i].frame
    <3>1. PICK k \in 1 .. g + 1 : k = i + 1
      OBVIOUS
    <3>2. ~(k <= n) /\ l + (k - n) = l + 1 + i
      BY <2>1, <3>1
    <3>3. /\ toPage[k].t = "SEQ" /\ toPage[k].seq = l + (k - n)
          /\ toPage[k].frame = server.replay[l + (k - n)].frame
      BY <1>6, <3>2, Zenon
    <3>4. q[i] = toPage[k]
      BY <1>3, <3>1
    <3> QED BY <3>2, <3>3, <3>4, Zenon
  <2>5. l + 1 \in 1 .. l + r /\ g = (l + r) - (l + 1)
    BY <2>2
  <2> QED BY <1>3, <1>5, <1>7, <2>3, <2>4, <2>5 DEF q, f
<1>8. CASE f.t # "SEQ"
  <2>1. n # 0
    <3>1. 1 \in 1 .. g + 1
      OBVIOUS
    <3> QED BY <1>3, <1>6, <1>8, <3>1
  <2>2. n - 1 \in Nat /\ g = (n - 1) + r
    BY <1>6, <2>1
  <2>3. ASSUME NEW i \in 1 .. g
        PROVE  IF i <= n - 1 THEN q[i].t # "SEQ"
               ELSE /\ q[i].t = "SEQ" /\ q[i].seq = l + (i - (n - 1))
                    /\ q[i].frame = server.replay[l + (i - (n - 1))].frame
    <3>1. PICK k \in 1 .. g + 1 : k = i + 1
      OBVIOUS
    <3>2. (k <= n <=> i <= n - 1) /\ l + (k - n) = l + (i - (n - 1))
      BY <1>6, <3>1
    <3>3. q[i] = toPage[k]
      BY <1>3, <3>1
    <3>4. CASE i <= n - 1
      BY <1>6, <3>2, <3>3, <3>4, Zenon
    <3>5. CASE ~(i <= n - 1)
      <4>1. /\ toPage[k].t = "SEQ" /\ toPage[k].seq = l + (k - n)
            /\ toPage[k].frame = server.replay[l + (k - n)].frame
        BY <1>6, <3>2, <3>5, Zenon
      <4> QED BY <3>2, <3>3, <3>5, <4>1, Zenon
    <3> QED BY <3>4, <3>5
  <2>4. g = (n - 1) + ((l + r) - l)
    BY <2>2
  <2>5. Lacks(q, n - 1)
    BY <1>3, <1>5, <2>2, <2>3, <2>4 DEF Lacks
  <2> QED BY <1>3, <1>5, <1>8, <2>5 DEF q, f
<1> QED BY <1>7, <1>8

\* The page reads.
LEMMA PageReadsKeeps ==
    ASSUME PageInv, PageReads
    PROVE  PageInv'
<1> DEFINE f == Head(toPage)
           l == page.lastSeq
<1>1. /\ TypeInv /\ WireInv /\ ReplayInv /\ HeardInv /\ DueInv /\ page \in PageEnds
      /\ server' = server /\ plan' = plan /\ happened' = happened /\ due' = due /\ wire' = wire
      /\ toPage # <<>> /\ wire \in {"joining", "joined"} /\ toPage' = Tail(toPage)
  BY DEF PageInv, TypeInv, PageReads, Alive
<1>2. wire = "joined" /\ toServer \in Seq(SubFrames)
  BY <1>1 DEF WireInv
<1>3. /\ l \in Nat /\ f \in Answers \cup SeqFrames /\ toPage' \in Seq(Answers \cup SeqFrames)
      /\ f.t = "SEQ" =>
           /\ l + 1 \in 1 .. Len(server.replay)
           /\ f.seq = l + 1 /\ f.frame = server.replay[l + 1].frame
           /\ \A i \in 1 .. Len(toPage') :
                 /\ toPage'[i].t = "SEQ" /\ toPage'[i].seq = l + 1 + i
                 /\ toPage'[i].frame = server.replay[l + 1 + i].frame
           /\ Len(toPage') = Len(server.replay) - (l + 1)
      /\ f.t # "SEQ" => \E n : Lacks(toPage', n)
  BY <1>1, <1>2, FrameRead, Zenon
<1>4. Len(server.replay) \in Nat /\ server.replay \in Seq(Replayed)
  BY <1>1, LenProperties DEF TypeInv, ServerEnds
<1>5. CASE f.t = "SEQ"
  <2> DEFINE p == [page EXCEPT !.lastSeq = l + 1]
             hears == f.frame.t # "END" /\ page.subscribed[plan.messages[f.frame.id].kind]
  <2>1. PageHears(f)
    BY <1>5 DEF PageReads
  <2>2. f.seq = l + 1 /\ f.seq > page.lastSeq
    BY <1>3, <1>5
  <2>3. /\ toServer' = toServer
        /\ page' = IF f.frame.t = "END" THEN [p EXCEPT !.ended = TRUE]
                   ELSE IF page.subscribed[plan.messages[f.frame.id].kind]
                   THEN [p EXCEPT !.heard = Append(@, f.frame.id)] ELSE p
    BY <2>1, <2>2 DEF PageHears
  <2>4. f.frame = server.replay[l + 1].frame /\ l + 1 \in 1 .. Len(server.replay) /\ f.frame \in SentFrames
    <3>1. f.frame = server.replay[l + 1].frame /\ l + 1 \in 1 .. Len(server.replay)
      BY <1>3, <1>5
    <3>2. server.replay[l + 1] \in Replayed
      BY <1>4, <3>1, ElementOfSeq
    <3> QED BY <3>1, <3>2 DEF Replayed
  <2>5. (f.frame.t = "PUBLISH" /\ f.frame.id \in Nat) \/ f.frame.t = "END"
    BY <2>4 DEF SentFrames
  <2> HIDE DEF f
  <2>6. /\ p \in PageEnds /\ p.lastSeq = l + 1 /\ p.heard = page.heard /\ p.open = page.open
        /\ p.subscribed = page.subscribed
    <3>1. l + 1 \in Nat
      BY <1>3
    <3> HIDE DEF l
    <3> QED BY <1>1, <3>1 DEF PageEnds
  <2> HIDE DEF p
  <2>7. /\ page' \in PageEnds /\ page'.lastSeq = l + 1 /\ page'.open = page.open
        /\ page'.subscribed = page.subscribed
        /\ page'.heard = IF hears THEN Append(page.heard, f.frame.id) ELSE page.heard
    <3>1. CASE f.frame.t = "END"
      BY <2>3, <2>6, <3>1 DEF PageEnds
    <3>2. CASE f.frame.t # "END" /\ hears
      <4>1. Append(p.heard, f.frame.id) \in Seq(Nat)
        BY <2>5, <2>6, <3>2, AppendProperties DEF PageEnds
      <4> QED BY <2>3, <2>6, <3>2, <4>1 DEF PageEnds
    <3>3. CASE f.frame.t # "END" /\ ~hears
      BY <2>3, <2>6, <3>3
    <3> QED BY <3>1, <3>2, <3>3
  <2> HIDE DEF hears, l
  <2>8. PICK h \in Nat : h = Len(page.heard)
    BY <1>1, LenProperties DEF PageEnds
  <2>9. /\ \A i \in 1 .. h : page'.heard[i] = page.heard[i]
        /\ hears => Len(page'.heard) = h + 1 /\ page'.heard[h + 1] = f.frame.id
        /\ ~hears => Len(page'.heard) = h
        /\ \A i \in 1 .. Len(page'.heard) : i \in 1 .. h \/ (hears /\ i = h + 1)
    <3>1. page.heard \in Seq(Nat)
      BY <1>1 DEF PageEnds
    <3>2. CASE hears
      <4>1. /\ \A i \in 1 .. h : Append(page.heard, f.frame.id)[i] = page.heard[i]
            /\ Len(Append(page.heard, f.frame.id)) = h + 1
            /\ Append(page.heard, f.frame.id)[h + 1] = f.frame.id
        BY <2>5, <2>8, <3>1, <3>2, AppendProperties DEF hears
      <4>2. \A i \in 1 .. h + 1 : i \in 1 .. h \/ i = h + 1
        OBVIOUS
      <4> QED BY <2>7, <3>2, <4>1, <4>2
    <3>3. CASE ~hears
      BY <2>7, <2>8, <3>3
    <3> QED BY <3>2, <3>3
  <2>10. WireInv'
    <3>1. Lacks(toPage, 0)'
      <4>1. Len(toPage') = 0 + (Len(server.replay) - (l + 1))
        BY <1>3, <1>4, <1>5 DEF l
      <4>2. \A i \in 1 .. Len(toPage') : ~(i <= 0) /\ l + 1 + (i - 0) = l + 1 + i
        BY <1>3 DEF l
      <4>3. \A i \in 1 .. Len(toPage') :
               /\ toPage'[i].t = "SEQ" /\ toPage'[i].seq = l + 1 + i
               /\ toPage'[i].frame = server.replay[l + 1 + i].frame
        BY <1>3, <1>5 DEF l
      <4> QED BY <1>1, <2>7, <4>1, <4>2, <4>3 DEF Lacks
    <3>2. l + 1 <= Len(server.replay)
      BY <1>4, <2>4
    <3> QED BY <1>1, <1>2, <2>3, <2>7, <3>1, <3>2 DEF WireInv
  <2>11. \A i \in 1 .. h : \E j \in 1 .. l : Publishes(server.replay, j, page.heard[i])
    BY <1>1, <2>8 DEF HeardInv, l
  <2>12. hears => Publishes(server.replay, l + 1, f.frame.id)
    BY <2>4, <2>5 DEF Publishes, hears
  <2>13. HeardInv'
    <3>1. ASSUME NEW i \in 1 .. h, NEW j \in 1 .. h, i < j PROVE page'.heard[i] < page'.heard[j]
      BY <1>1, <2>8, <2>9, <3>1 DEF HeardInv
    <3>2. ASSUME hears, NEW i \in 1 .. h PROVE page'.heard[i] < page'.heard[h + 1]
      <4>1. PICK j \in 1 .. l : Publishes(server.replay, j, page.heard[i])
        BY <2>11
      <4>2. j < l + 1
        BY <1>3, <4>1 DEF l
      <4>3. page.heard[i] < f.frame.id
        BY <1>1, <2>12, <3>2, <4>1, <4>2 DEF ReplayInv, ReplaySorted
      <4> QED BY <2>9, <3>2, <4>3
    <3>3. \A i, j \in 1 .. Len(page'.heard) : i < j => page'.heard[i] < page'.heard[j]
      <4>1. ASSUME NEW j \in 1 .. h PROVE ~(h + 1 < j) /\ ~(h + 1 < h + 1)
        OBVIOUS
      <4>2. ~(h + 1 < h + 1)
        OBVIOUS
      <4> QED BY <2>9, <3>1, <3>2, <4>1, <4>2
    <3>4. ASSUME NEW i \in 1 .. Len(page'.heard)
          PROVE  \E j \in 1 .. l + 1 : Publishes(server.replay, j, page'.heard[i])
      <4>1. l + 1 \in 1 .. l + 1 /\ \A j \in 1 .. l : j \in 1 .. l + 1
        BY <1>3 DEF l
      <4> QED BY <2>9, <2>11, <2>12, <4>1
    <3> QED BY <1>1, <2>7, <3>3, <3>4 DEF HeardInv
  <2>14. DueInv'
    <3>1. SUFFICES ASSUME NEW id \in due
                   PROVE page'.subscribed[plan.messages[id].kind] /\ Somewhere(id)'
      BY <1>1 DEF DueInv
    <3>2. page.subscribed[plan.messages[id].kind] /\ Somewhere(id)
      BY <1>1 DEF DueInv
    <3>3. IsBuffered(server.buf, id) => IsBuffered(server'.buf, id)
      BY <1>1
    <3>4. PastTheEnd(id) => PastTheEnd(id)'
      BY <1>1 DEF PastTheEnd
    <3>5. IsHeard(id) => IsHeard(id)'
      <4>1. \A i \in 1 .. h : i \in 1 .. Len(page'.heard)
        BY <2>9
      <4> QED BY <2>8, <2>9, <4>1 DEF IsHeard
    <3>6. ASSUME ToRead(id) PROVE IsHeard(id)' \/ ToRead(id)'
      <4>1. PICK i : i > l /\ Publishes(server.replay, i, id)
        BY <3>6 DEF ToRead, l
      <4>2. i \in Nat /\ l \in Nat
        BY <1>3, <1>4, <4>1 DEF Publishes, l
      <4>3. CASE i = l + 1
        <5>1. f.frame.t = "PUBLISH" /\ f.frame.id = id
          BY <2>4, <4>1, <4>3 DEF Publishes
        <5>2. hears
          BY <3>2, <5>1 DEF hears
        <5>3. h + 1 \in 1 .. Len(page'.heard)
          BY <2>9, <5>2
        <5> QED BY <2>9, <5>1, <5>2, <5>3 DEF IsHeard
      <4>4. CASE i # l + 1
        <5>1. i > l + 1
          BY <4>1, <4>2, <4>4
        <5> QED BY <1>1, <2>7, <4>1, <5>1 DEF ToRead
      <4> QED BY <4>3, <4>4
    <3> QED BY <2>7, <3>2, <3>3, <3>4, <3>5, <3>6 DEF Somewhere
  <2> QED BY <1>1, <1>3, <2>3, <2>7, <2>10, <2>13, <2>14, PageStep DEF TypeInv
<1>6. CASE f.t # "SEQ"
  <2>1. /\ page' \in PageEnds /\ page'.lastSeq = page.lastSeq /\ page'.heard = page.heard
        /\ page'.subscribed = page.subscribed
        /\ toServer' \in Seq(SubFrames)
    <3>1. CASE f.t = "RECONCILED" /\ ~f.attached
      <4>1. page' = [page EXCEPT !.open = TRUE, !.awaited = TRUE] /\ toServer' = toServer
        BY <3>1 DEF PageReads
      <4> QED BY <1>1, <1>2, <4>1 DEF PageEnds
    <3>2. CASE ~(f.t = "RECONCILED" /\ ~f.attached)
      <4> DEFINE p == [page EXCEPT !.open = TRUE, !.awaited = FALSE]
      <4>1. PageReleases(p)
        BY <1>6, <3>2 DEF PageReads
      <4>2. p \in PageEnds /\ p.held = page.held /\ p.lastSeq = page.lastSeq /\ p.heard = page.heard
            /\ p.subscribed = page.subscribed
        BY <1>1 DEF PageEnds
      <4> HIDE DEF p
      <4>3. page' = [p EXCEPT !.held = <<>>] /\ toServer' = toServer \o p.held
        BY <4>1 DEF PageReleases
      <4>4. p.held \in Seq(SubFrames)
        BY <4>2 DEF PageEnds
      <4>5. toServer' \in Seq(SubFrames)
        BY <1>2, <4>3, <4>4, ConcatProperties
      <4> QED BY <4>2, <4>3, <4>5, NoneOrOne DEF PageEnds
    <3> QED BY <3>1, <3>2
  <2>2. toServer' \in Seq(SubFrames \cup Reconciles)
    <3>1. Seq(SubFrames) \subseteq Seq(SubFrames \cup Reconciles)
      OBVIOUS
    <3> QED BY <2>1, <3>1
  <2>3. WireInv'
    <3>1. PICK n : Lacks(toPage', n)
      BY <1>3, <1>6
    <3>2. Lacks(toPage, n)'
      BY <1>1, <2>1, <3>1 DEF Lacks
    <3> QED BY <1>1, <1>2, <2>1, <3>2 DEF WireInv
  <2>4. HeardInv' /\ DueInv'
    BY <1>1, <2>1, HeardStays
  <2> QED BY <1>1, <1>3, <2>1, <2>2, <2>3, <2>4, PageStep DEF TypeInv
<1> QED BY <1>5, <1>6

-----------------------------------------------------------------------------
(* The theorem *)

\* The invariant holds at first.
LEMMA PageStarts == BroadcastInit => PageInv
<1> SUFFICES ASSUME BroadcastInit PROVE PageInv
  OBVIOUS
<1>1. NoKind \in Flags /\ \A k \in QueueKinds : NoKind[k] = FALSE
  BY DEF NoKind, Flags
<1>2. /\ page \in PageEnds /\ page.lastSeq = 0 /\ page.heard = <<>> /\ page.open = FALSE
  BY <1>1, NoneOrOne DEF BroadcastInit, PageEnds
<1>3. /\ server \in ServerEnds /\ server.replay = <<>> /\ server.buf = EmptyBuffer
      /\ server.attached = FALSE /\ server.ended = FALSE
      /\ server.hears = NoKind /\ server.listens = NoKind /\ server.peerSubscribed = NoKind
  BY <1>1, NoneOrOne, EmptyBuffers DEF BroadcastInit, ServerEnds
<1>4. happened \in [Bounds -> Nat] /\ happened.publishes = 0
  BY DEF BroadcastInit, Bounds
<1>5. plan \in Pages /\ wire = "down" /\ toServer = <<>> /\ toPage = <<>> /\ due = {}
  BY DEF BroadcastInit
<1>6. 0 <= Len(plan.messages)
  <2>1. Len(plan.messages) \in Nat
    BY <1>5, PagesAssumption, LenProperties
  <2> QED BY <2>1
<1>7. TypeInv
  BY <1>2, <1>3, <1>4, <1>5, <1>6, NoneOrOne DEF TypeInv
<1>8. Len(<<>>) = 0 /\ 1 .. 0 = {}
  OBVIOUS
<1>9. WireInv
  BY <1>2, <1>3, <1>5, <1>8 DEF WireInv
<1>10. ServerInv
  BY <1>3, EmptyBuffers DEF ServerInv
<1>11. \A i, x : ~Publishes(server.replay, i, x)
  BY <1>3, <1>8, Zenon DEF Publishes
<1>12. ReplayInv
  BY <1>3, <1>8, <1>11, Zenon DEF ReplayInv, ReplaySorted
<1>13. HeardInv
  BY <1>2, <1>8 DEF HeardInv
<1>14. DueInv
  BY <1>5 DEF DueInv
<1>15. FollowsUse(server)
  BY <1>1, <1>3 DEF FollowsUse
<1> QED BY <1>7, <1>9, <1>10, <1>12, <1>13, <1>14, <1>15 DEF PageInv

\* Every step keeps it.
LEMMA PageSteps == PageInv /\ [BroadcastNext]_broadcastVars => PageInv'
<1> SUFFICES ASSUME PageInv, [BroadcastNext]_broadcastVars PROVE PageInv'
  OBVIOUS
<1>1. CASE UNCHANGED broadcastVars
  <2>1. /\ plan' = plan /\ page' = page /\ server' = server /\ wire' = wire
        /\ toServer' = toServer /\ toPage' = toPage /\ happened' = happened /\ due' = due
    BY <1>1 DEF broadcastVars
  <2>2. TypeInv /\ WireInv
    BY DEF PageInv
  <2>3. WireInv'
    BY <2>1, <2>2 DEF WireInv, Lacks
  <2>4. HeardInv' /\ DueInv'
    BY <2>1, HeardStays
  <2> QED BY <2>1, <2>2, <2>3, <2>4, PageStep DEF TypeInv
<1>2. ASSUME NEW kind \in QueueKinds, PageSubscribes(kind) PROVE PageInv'
  BY <1>2, SubscribesKeeps
<1>3. ASSUME NEW kind \in QueueKinds, ServerListens(kind) PROVE PageInv'
  BY <1>3, ListensKeeps
<1>4. CASE ServerRegisters
  BY <1>4, RegistersKeeps
<1>5. CASE ServerAborts
  BY <1>5, AbortsKeeps
<1>6. CASE AnyonePublishes
  BY <1>6, PublishesKeeps
<1>7. CASE WireDies \/ PageNotices
  BY <1>7, WireEndsKeeps
<1>8. CASE ServerReads
  BY <1>8, ReadsKeeps
<1>9. CASE ServerNotices
  BY <1>9, NoticesKeeps
<1>10. CASE PageReads
  BY <1>10, PageReadsKeeps
<1>11. CASE PageReconciles
  BY <1>11, ReconcilesKeeps
<1> QED BY <1>1, <1>2, <1>3, <1>4, <1>5, <1>6, <1>7, <1>8, <1>9, <1>10, <1>11
        DEF BroadcastNext, WireStep

\* The page misses none of the publishes it is due before one it heard.
LEMMA InvServes == PageInv => PageIsServed
<1> SUFFICES ASSUME PageInv PROVE PageIsServed
  OBVIOUS
<1>1. TypeInv /\ FollowsUse(server) /\ ReplayInv /\ HeardInv /\ DueInv
  BY DEF PageInv
<1>2. page.heard \in Seq(Nat) /\ DOMAIN page.heard = 1 .. Len(page.heard) /\ page.lastSeq \in Nat
  BY <1>1, LenProperties DEF TypeInv, PageEnds
<1>3. ToSet(page.heard) = {page.heard[i] : i \in 1 .. Len(page.heard)}
  BY <1>2 DEF ToSet
<1>4. ASSUME NEW id \in due, NEW x \in ToSet(page.heard), id < x PROVE id \in ToSet(page.heard)
  <2>1. PICK i \in 1 .. Len(page.heard) : x = page.heard[i]
    BY <1>3
  <2>2. PICK j \in 1 .. page.lastSeq : Publishes(server.replay, j, x)
    BY <1>1, <2>1 DEF HeardInv
  <2>3. id \in Nat /\ x \in Nat /\ j \in Nat /\ j <= page.lastSeq
    <3>1. id \in 1 .. happened.publishes
      BY <1>1 DEF TypeInv
    <3>2. x \in Nat
      BY <1>2, <2>1, ElementOfSeq
    <3> QED BY <1>2, <2>2, <3>1, <3>2
  <2>4. ~(x < id)
    BY <1>4, <2>3
  <2>5. CASE IsHeard(id)
    BY <1>3, <2>5 DEF IsHeard
  <2>6. ASSUME ToRead(id) PROVE FALSE
    <3>1. PICK k : k > page.lastSeq /\ Publishes(server.replay, k, id)
      BY <2>6 DEF ToRead
    <3>2. k \in Nat
      <4>1. k \in 1 .. Len(server.replay)
        BY <3>1 DEF Publishes
      <4> QED BY <4>1
    <3>3. j < k
      BY <1>2, <2>3, <3>1, <3>2
    <3>4. x < id
      BY <1>1, <2>2, <3>1, <3>3, Zenon DEF ReplayInv, ReplaySorted
    <3> QED BY <2>4, <3>4
  <2>7. ASSUME IsBuffered(server.buf, id) PROVE FALSE
    <3>1. PICK k \in QueueKinds : \E a \in 1 .. Len(server.buf.queue[k]) : server.buf.queue[k][a].id = id
      BY <2>7 DEF IsBuffered
    <3>2. PICK a \in 1 .. Len(server.buf.queue[k]) : server.buf.queue[k][a].id = id
      BY <3>1
    <3>3. x < server.buf.queue[k][a].id
      BY <1>1, <2>2, Zenon DEF ReplayInv, ReplaySorted
    <3> QED BY <2>4, <3>2, <3>3
  <2>8. ASSUME PastTheEnd(id) PROVE FALSE
    BY <2>2, <2>4, <2>8 DEF PastTheEnd
  <2> QED BY <1>1, <2>5, <2>6, <2>7, <2>8 DEF DueInv, Somewhere
<1>5. PageMissesNothing
  <2>1. \A i, j \in DOMAIN page.heard : i < j => page.heard[i] < page.heard[j]
    BY <1>1, <1>2 DEF HeardInv
  <2> QED BY <1>4, <2>1 DEF PageMissesNothing
<1>6. AdapterFollowsUse
  BY <1>1 DEF FollowsUse, AdapterFollowsUse
<1> QED BY <1>5, <1>6 DEF PageIsServed

\* For any publishes, budgets, toggles, broken wires and aborts, the page is served: it hears what
\* it is due, each publish once and in order, and the adapter is subscribed while it is wanted.
THEOREM PageServed == BroadcastSpec => []PageIsServed
<1>1. BroadcastInit => PageInv
  BY PageStarts
<1>2. PageInv /\ [BroadcastNext]_broadcastVars => PageInv'
  BY PageSteps
<1>3. PageInv => PageIsServed
  BY InvServes
<1> QED BY <1>1, <1>2, <1>3, PTL DEF BroadcastSpec
=============================================================================
