-------------------------- MODULE TransportsProofs ---------------------------
(***************************************************************************)
(* Proofs about RedisTransport and SseUploads, for every constant.  Of the *)
(* first: the publishes keep the order of their calls, none is stranded by *)
(* the SUBSCRIBE it waits for, and the listeners there hear each.  Of the  *)
(* second: the server takes what a page sends in order and without a gap,  *)
(* whatever becomes of the POSTs that carry it.                            *)
(***************************************************************************)
EXTENDS RedisTransport, SseUploads, TLAPS, SequenceTheorems

-----------------------------------------------------------------------------
(* Types *)

\* Wake keeps the types (releaseWaiters).
LEMMA Woken ==
    ASSUME NEW ws \in Seq(Waits), resuming \in Seq(Waits), NEW last \in 0 .. Len(ws), NEW sub,
           Wake(ws, last, sub)
    PROVE  waiters' \in Seq(Waits) /\ resuming' \in Seq(Waits)
<1>1. PICK k \in 0 .. last : /\ waiters' = SubSeq(ws, k + 1, last)
                             /\ resuming' = resuming \o SubSeq(ws, 1, k)
  BY DEF Wake
<1>2. \A i \in 1 .. Len(ws) : ws[i] \in Waits
  BY ElementOfSeq
<1>3. SubSeq(ws, k + 1, last) \in Seq(Waits) /\ SubSeq(ws, 1, k) \in Seq(Waits)
  BY <1>2, SubSeqProperties
<1> QED BY <1>1, <1>3, ConcatProperties

\* The types hold when the transport is constructed.
LEMMA InitType == Init => TypeOK
<1>1. \A S : <<>> \in Seq(S)
  BY EmptySeq
<1> QED BY <1>1, RedisTransportAssumption DEF Init, TypeOK

\* listen keeps the types.
LEMMA ListenType ==
    ASSUME TypeOK, NEW ch \in Channels, Listen(ch)
    PROVE  TypeOK'
<1>1. subscribesSent' = subscribesSent + 1 /\ subscribesSent' \in Listeners
  BY RedisTransportAssumption DEF TypeOK, Listen, Listeners
<1>2. /\ subscribesSent' \in 0 .. MaxListens
      /\ listener' \in [Channels -> 0 .. MaxListens]
      /\ subscribing' \in [Channels -> 0 .. MaxListens]
  BY <1>1, SMTT(180) DEF TypeOK, Listen, Listeners
<1>3. [t |-> "SUBSCRIBE", ch |-> ch, order |-> subscribesSent'] \in Commands
  BY <1>1 DEF Commands
<1>4. commands' \in Seq(Commands)
  BY <1>3, AppendProperties DEF TypeOK, Listen
<1> QED BY <1>2, <1>4 DEF TypeOK, Listen

\* unsubscribe keeps the types.
LEMMA UnlistenType ==
    ASSUME TypeOK, NEW ch \in Channels, Unlisten(ch)
    PROVE  TypeOK'
<1>1. waiters' \in Seq(Waits) /\ resuming' \in Seq(Waits)
  <2>1. Len(waiters) \in 0 .. Len(waiters)
    BY LenProperties DEF TypeOK
  <2> QED BY <2>1, Woken DEF TypeOK, Unlisten
<1>2. [t |-> "UNSUBSCRIBE", ch |-> ch, order |-> 0] \in Commands
  BY DEF Commands
<1>3. commands' \in Seq(Commands)
  BY <1>2, AppendProperties DEF TypeOK, Unlisten
<1>4. /\ listener' \in [Channels -> 0 .. MaxListens]
      /\ subscribing' \in [Channels -> 0 .. MaxListens] /\ failed' \subseteq Channels
  BY RedisTransportAssumption, SMTT(180) DEF TypeOK, Unlisten
<1> QED BY <1>1, <1>3, <1>4 DEF TypeOK, Unlisten

\* publish keeps the types.
LEMMA PublishType ==
    ASSUME TypeOK, NEW ch \in Channels, Publish(ch)
    PROVE  TypeOK'
<1> DEFINE p == Len(pubs) + 1
           w == [pub |-> p, upTo |-> subscribesSent]
<1>1. p \in Publishes
  BY LenProperties, RedisTransportAssumption DEF TypeOK, Publish, Publishes
<1>2. /\ pubs' \in Seq(Calls) /\ outcome' \in [Publishes -> {"none", "pending", "failed", "sent"}]
  <2>1. [ch |-> ch, audience |-> listener[ch]] \in Calls
    BY DEF TypeOK, Calls
  <2> QED BY <1>1, <2>1, AppendProperties DEF TypeOK, Publish
<1>3. waiters' \in Seq(Waits) /\ resuming' \in Seq(Waits)
  <2>1. CASE failed = {} /\ MustWait
    <3>1. Wake(Append(waiters, w), Len(waiters) + 1, subscribing)
      BY <2>1 DEF Publish
    <3>2. w \in Waits
      BY <1>1 DEF Waits, TypeOK
    <3>3. Append(waiters, w) \in Seq(Waits) /\ Len(Append(waiters, w)) = Len(waiters) + 1
      BY <3>2, AppendProperties DEF TypeOK
    <3>4. Len(waiters) + 1 \in 0 .. Len(Append(waiters, w))
      BY <3>3, LenProperties DEF TypeOK
    <3> QED BY <3>1, <3>3, <3>4, Woken DEF TypeOK
  <2>2. CASE ~(failed = {} /\ MustWait)
    BY <2>2 DEF Publish, TypeOK
  <2> QED BY <2>1, <2>2
<1>4. sending' \in Seq(Publishes)
  BY <1>1, AppendProperties DEF Publish, TypeOK
<1> QED BY <1>2, <1>3, <1>4 DEF TypeOK, Publish

\* A publish that goes on keeps the types.
LEMMA ResumeType ==
    ASSUME TypeOK, Resume
    PROVE  TypeOK'
<1>1. Head(resuming) \in Waits /\ resuming' \in Seq(Waits)
  BY HeadTailProperties DEF TypeOK, Resume
<1>2. Head(resuming).pub \in Publishes
  BY <1>1 DEF Waits
<1>3. sending' \in Seq(Publishes)
  BY <1>2, AppendProperties DEF TypeOK, Resume
<1> QED BY <1>1, <1>3 DEF TypeOK, Resume

\* A publish that goes on to fail keeps the types.
LEMMA ResumeRejectedType ==
    ASSUME TypeOK, NEW p \in rejected, ResumeRejected(p)
    PROVE  TypeOK'
<1> QED BY DEF TypeOK, ResumeRejected

\* settleSubscribe keeps the types.
LEMMA SettleType ==
    ASSUME TypeOK, SettleSubscribe
    PROVE  TypeOK'
<1> DEFINE ack == Head(acks)
<1>1. ack \in AnswersTo /\ acks' \in Seq(AnswersTo)
  BY HeadTailProperties DEF TypeOK, SettleSubscribe
<1>2. ack.ch \in Channels
  BY <1>1 DEF AnswersTo
<1>3. CASE Current(ack)
  <2>1. PICK last \in 0 .. Len(waiters) :
          /\ rejected' = rejected \cup {waiters[i].pub : i \in last + 1 .. Len(waiters)}
          /\ Wake(waiters, last, subscribing')
    BY <1>3 DEF SettleSubscribe
  <2>2. waiters' \in Seq(Waits) /\ resuming' \in Seq(Waits)
    BY <2>1, Woken DEF TypeOK
  <2>3. \A i \in last + 1 .. Len(waiters) : waiters[i].pub \in Publishes
    <3>1. ASSUME NEW i \in last + 1 .. Len(waiters) PROVE waiters[i] \in Waits
      <4>1. Len(waiters) \in Nat
        BY LenProperties DEF TypeOK
      <4>2. i \in 1 .. Len(waiters)
        BY <4>1
      <4> QED BY <4>2, ElementOfSeq DEF TypeOK
    <3> QED BY <3>1 DEF Waits
  <2>4. rejected' \subseteq Publishes
    BY <2>1, <2>3, ZenonT(180) DEF TypeOK
  <2>5. subscribing' \in [Channels -> 0 .. MaxListens]
    <3>1. subscribing' = [subscribing EXCEPT ![ack.ch] = 0]
      BY <1>3 DEF SettleSubscribe
    <3>2. 0 \in 0 .. MaxListens
      BY RedisTransportAssumption
    <3> QED BY <3>1, <3>2 DEF TypeOK
  <2>6. failed' \subseteq Channels
    <3>1. failed' = IF ack.ok THEN failed ELSE failed \cup {ack.ch}
      BY <1>3 DEF SettleSubscribe
    <3> QED BY <1>2, <3>1 DEF TypeOK
  <2> QED BY <1>1, <2>2, <2>4, <2>5, <2>6 DEF TypeOK, SettleSubscribe
<1>4. CASE ~Current(ack)
  BY <1>1, <1>4 DEF TypeOK, SettleSubscribe
<1> QED BY <1>3, <1>4

\* What the subscriber reads keeps the types (onMessage).
LEMMA ReadReplyType ==
    ASSUME TypeOK, ReadReply
    PROVE  TypeOK'
<1> DEFINE r == Head(replies)
           l == IF r.t = "message" THEN listener[r.ch] ELSE 0
<1>1. r \in AnswersTo \cup Messages /\ replies' \in Seq(AnswersTo \cup Messages)
  BY HeadTailProperties DEF TypeOK, ReadReply
<1>2. CASE r \in AnswersTo
  <2>1. r.t # "message"
    BY <1>2 DEF AnswersTo
  <2>2. acks' = Append(acks, r) /\ heard' = heard
    BY <2>1 DEF ReadReply
  <2>3. acks' \in Seq(AnswersTo)
    BY <1>2, <2>2, AppendProperties DEF TypeOK
  <2> QED BY <1>1, <2>2, <2>3 DEF TypeOK, ReadReply
<1>3. CASE r \in Messages
  <2>1. r.t = "message" /\ r.ch \in Channels /\ r.pub \in Publishes
    BY <1>3 DEF Messages
  <2>2. acks' = acks
    BY <2>1 DEF ReadReply
  <2>3. heard' \in [Listeners -> Seq(Publishes)]
    <3>1. CASE l = 0
      BY <3>1 DEF TypeOK, ReadReply
    <3>2. CASE l # 0
      <4>1. heard' = [heard EXCEPT ![l] = Append(@, r.pub)]
        BY <3>2 DEF ReadReply
      <4>2. l \in Listeners
        BY <2>1, <3>2, RedisTransportAssumption, SMTT(180) DEF TypeOK, Listeners
      <4>3. Append(heard[l], r.pub) \in Seq(Publishes)
        BY <2>1, <4>2, AppendProperties DEF TypeOK
      <4> QED BY <4>1, <4>2, <4>3 DEF TypeOK
    <3> QED BY <3>1, <3>2
  <2> QED BY <1>1, <2>2, <2>3 DEF TypeOK, ReadReply
<1> QED BY <1>1, <1>2, <1>3

\* Redis keeps the types: what it answers is an answer.
LEMMA SubscribesType ==
    ASSUME TypeOK, RedisSubscribes
    PROVE  TypeOK'
<1> DEFINE c == Head(commands)
<1>1. c \in Commands /\ commands' \in Seq(Commands)
  BY HeadTailProperties DEF TypeOK, RedisSubscribes
<1>2. CASE c.t = "UNSUBSCRIBE"
  BY <1>1, <1>2 DEF TypeOK, RedisSubscribes
<1>3. CASE c.t # "UNSUBSCRIBE"
  <2>1. PICK ok \in BOOLEAN :
          /\ IF ok THEN UNCHANGED failures ELSE Fail
          /\ subscribed' = IF ok THEN subscribed \cup {c.ch} ELSE subscribed
          /\ replies' = Append(replies, Answer(c, ok))
    BY <1>3 DEF RedisSubscribes
  <2>2. Answer(c, ok) \in AnswersTo /\ c.ch \in Channels
    BY <1>1, <1>3 DEF Commands, Answer, AnswersTo
  <2>3. replies' \in Seq(AnswersTo \cup Messages)
    BY <2>1, <2>2, AppendProperties DEF TypeOK
  <2>4. failures' \in 0 .. MaxFailures
    BY <2>1, RedisTransportAssumption, SMTT(180) DEF TypeOK, Fail
  <2>5. subscribed' \subseteq Channels
    BY <2>1, <2>2 DEF TypeOK
  <2> QED BY <1>1, <2>3, <2>4, <2>5 DEF TypeOK, RedisSubscribes
<1> QED BY <1>2, <1>3

\* Redis keeps the types: what it publishes is a message.
LEMMA RedisPublishesType ==
    ASSUME TypeOK, RedisPublishes
    PROVE  TypeOK'
<1> DEFINE p == Head(sending)
           ch == pubs[p].ch
<1>1. p \in Publishes /\ sending' \in Seq(Publishes)
  BY HeadTailProperties DEF TypeOK, RedisPublishes
<1>2. PICK ok \in BOOLEAN :
        /\ IF ok THEN UNCHANGED failures ELSE Fail
        /\ log' = IF ok THEN Append(log, p) ELSE log
        /\ replies' = IF ok /\ ch \in subscribed
                      THEN Append(replies, [t |-> "message", ch |-> ch, pub |-> p])
                      ELSE replies
        /\ outcome' = [outcome EXCEPT ![p] = IF ok THEN "sent" ELSE "failed"]
  BY DEF RedisPublishes
<1>3. failures' \in 0 .. MaxFailures
  BY <1>2, RedisTransportAssumption, SMTT(180) DEF TypeOK, Fail
<1>4. log' \in Seq(Publishes)
  BY <1>1, <1>2, AppendProperties DEF TypeOK
<1>5. replies' \in Seq(AnswersTo \cup Messages)
  <2>1. CASE ok /\ ch \in subscribed
    <3>1. [t |-> "message", ch |-> ch, pub |-> p] \in Messages
      BY <1>1, <2>1 DEF TypeOK, Messages
    <3> QED BY <1>2, <2>1, <3>1, AppendProperties DEF TypeOK
  <2>2. CASE ~(ok /\ ch \in subscribed)
    BY <1>2, <2>2 DEF TypeOK
  <2> QED BY <2>1, <2>2
<1>6. outcome' \in [Publishes -> {"none", "pending", "failed", "sent"}]
  BY <1>1, <1>2 DEF TypeOK
<1> QED BY <1>1, <1>3, <1>4, <1>5, <1>6 DEF TypeOK, RedisPublishes

\* Every step keeps the types.
LEMMA NextType ==
    ASSUME TypeOK, [Next]_vars
    PROVE  TypeOK'
<1>1. CASE UNCHANGED vars
  BY <1>1 DEF TypeOK, vars, redis
<1>2. CASE Next
  BY <1>2, ListenType, UnlistenType, PublishType, ResumeType, ResumeRejectedType, SettleType,
     ReadReplyType, SubscribesType, RedisPublishesType DEF Next
<1> QED BY <1>1, <1>2

\* The types are those of every state of the transport (RedisTransport).
THEOREM TypeCorrect == Spec => []TypeOK
<1> QED BY InitType, NextType, PTL DEF Spec

-----------------------------------------------------------------------------
(* Sequences of publishes in their order *)

\* Which of ws go on and which still wait (releaseWaiters): those through some place k go
\* behind those that go on already, the others wait.
LEMMA WokenParts ==
    ASSUME TypeOK, NEW ws \in Seq(Waits), NEW last \in 0 .. Len(ws), NEW sub, Wake(ws, last, sub)
    PROVE  \E k \in 0 .. last :
             /\ Len(waiters') = last - k /\ \A i \in 1 .. last - k : waiters'[i] = ws[k + i]
             /\ Len(resuming') = Len(resuming) + k
             /\ \A i \in 1 .. Len(resuming) : resuming'[i] = resuming[i]
             /\ \A i \in 1 .. k : resuming'[Len(resuming) + i] = ws[i]
             /\ \A i \in 1 .. k : Cleared(ws[i].upTo, sub)
<1>1. PICK k \in 0 .. last : /\ waiters' = SubSeq(ws, k + 1, last)
                             /\ resuming' = resuming \o SubSeq(ws, 1, k)
                             /\ \A i \in 1 .. k : Cleared(ws[i].upTo, sub)
  BY DEF Wake
<1>2. Len(ws) \in Nat /\ Len(resuming) \in Nat /\ k \in Nat /\ last \in Nat /\ last <= Len(ws)
  BY LenProperties DEF TypeOK
<1>3. \A i \in 1 .. Len(ws) : ws[i] \in Waits
  BY ElementOfSeq
<1>4. Len(waiters') = last - k /\ \A i \in 1 .. last - k : waiters'[i] = ws[k + i]
  <2>1. \A i \in k + 1 .. last : ws[i] \in Waits
    BY <1>2, <1>3
  <2>2. Len(waiters') = IF k + 1 <= last THEN last - (k + 1) + 1 ELSE 0
    BY <1>1, <1>2, <2>1, SubSeqProperties
  <2>3. \A i \in 1 .. last - (k + 1) + 1 : waiters'[i] = ws[(k + 1) + i - 1]
    BY <1>1, <1>2, <2>1, SubSeqProperties
  <2> QED BY <1>2, <2>2, <2>3
<1>5. DEFINE f == SubSeq(ws, 1, k)
<1>6. f \in Seq(Waits) /\ Len(f) = k /\ \A i \in 1 .. k : f[i] = ws[i]
  <2>1. \A i \in 1 .. k : ws[i] \in Waits
    BY <1>2, <1>3
  <2> QED BY <1>2, <2>1, SubSeqProperties
<1> HIDE DEF f
<1>7. /\ Len(resuming') = Len(resuming) + k
      /\ \A i \in 1 .. Len(resuming) + k :
           resuming'[i] = IF i <= Len(resuming) THEN resuming[i] ELSE f[i - Len(resuming)]
  BY <1>1, <1>6, ConcatProperties, SMTT(180) DEF TypeOK, f
<1>8. \A i \in 1 .. Len(resuming) : resuming'[i] = resuming[i]
  BY <1>2, <1>7
<1>9. \A i \in 1 .. k : resuming'[Len(resuming) + i] = ws[i]
  <2>1. TAKE i \in 1 .. k
  <2>2. Len(resuming) + i \in 1 .. Len(resuming) + k /\ ~(Len(resuming) + i <= Len(resuming))
    BY <1>2
  <2>3. resuming'[Len(resuming) + i] = f[(Len(resuming) + i) - Len(resuming)]
    BY <1>7, <2>2
  <2>4. (Len(resuming) + i) - Len(resuming) = i
    BY <1>2
  <2> QED BY <1>6, <2>3, <2>4
<1> QED BY <1>1, <1>4, <1>7, <1>8, <1>9

\* Those that wait and then go on keep their order (releaseWaiters).
LEMMA WokenOrder ==
    ASSUME TypeOK, NEW ws \in Seq(Waits), NEW last \in 0 .. Len(ws), NEW sub, Wake(ws, last, sub),
           InOrder(ws), InOrder(resuming), Before(Going, Pubs(ws))
    PROVE  /\ InOrder(resuming') /\ InOrder(waiters') /\ Before(Going', Waiting')
           /\ Going' \cup Waiting' \subseteq Going \cup Pubs(ws)
<1>1. PICK k \in 0 .. last :
        /\ Len(waiters') = last - k /\ \A i \in 1 .. last - k : waiters'[i] = ws[k + i]
        /\ Len(resuming') = Len(resuming) + k
        /\ \A i \in 1 .. Len(resuming) : resuming'[i] = resuming[i]
        /\ \A i \in 1 .. k : resuming'[Len(resuming) + i] = ws[i]
  BY WokenParts, ZenonT(180)
<1>2. Len(ws) \in Nat /\ Len(resuming) \in Nat /\ k \in Nat /\ last \in Nat /\ last <= Len(ws)
  BY LenProperties DEF TypeOK
<1>3. \A i \in 1 .. Len(resuming), j \in 1 .. Len(ws) : resuming[i].pub < ws[j].pub
  BY DEF Before, Going, Waiting, Pubs
<1>4. InOrder(waiters')
  <2>1. ASSUME NEW i \in 1 .. last - k, NEW j \in 1 .. last - k, i < j
        PROVE  waiters'[i].pub < waiters'[j].pub
    <3>1. k + i \in 1 .. Len(ws) /\ k + j \in 1 .. Len(ws) /\ k + i < k + j
      BY <1>2, <2>1
    <3>2. ws[k + i].pub < ws[k + j].pub
      BY <3>1 DEF InOrder
    <3> QED BY <1>1, <3>2
  <2> QED BY <1>1, <2>1 DEF InOrder
<1>5. \A i \in 1 .. Len(resuming') :
        \/ i \in 1 .. Len(resuming) /\ resuming'[i] = resuming[i]
        \/ i - Len(resuming) \in 1 .. k /\ resuming'[i] = ws[i - Len(resuming)]
  BY <1>1, <1>2
<1>6. InOrder(resuming')
  <2>1. ASSUME NEW i \in 1 .. Len(resuming'), NEW j \in 1 .. Len(resuming'), i < j
        PROVE  resuming'[i].pub < resuming'[j].pub
    <3>1. CASE i \in 1 .. Len(resuming) /\ j \in 1 .. Len(resuming)
      BY <1>1, <2>1, <3>1 DEF InOrder
    <3>2. CASE i \in 1 .. Len(resuming) /\ j \notin 1 .. Len(resuming)
      <4>1. /\ j - Len(resuming) \in 1 .. Len(ws)
            /\ resuming'[i] = resuming[i] /\ resuming'[j] = ws[j - Len(resuming)]
        BY <1>1, <1>2, <1>5, <3>2
      <4> QED BY <1>3, <3>2, <4>1
    <3>3. CASE i \notin 1 .. Len(resuming)
      <4>1. /\ i - Len(resuming) \in 1 .. Len(ws) /\ j - Len(resuming) \in 1 .. Len(ws)
            /\ i - Len(resuming) < j - Len(resuming)
            /\ resuming'[i] = ws[i - Len(resuming)] /\ resuming'[j] = ws[j - Len(resuming)]
        BY <1>1, <1>2, <1>5, <2>1, <3>3, SMTT(180)
      <4> QED BY <4>1 DEF InOrder
    <3> QED BY <3>1, <3>2, <3>3
  <2> QED BY <2>1 DEF InOrder
<1>7. Before(Going', Waiting')
  <2>1. \A i \in 1 .. Len(resuming'), j \in 1 .. Len(waiters') : resuming'[i].pub < waiters'[j].pub
    <3>1. TAKE i \in 1 .. Len(resuming'), j \in 1 .. Len(waiters')
    <3>2. waiters'[j] = ws[k + j] /\ k + j \in 1 .. Len(ws)
      BY <1>1, <1>2, SMTT(180)
    <3>3. CASE i \in 1 .. Len(resuming)
      BY <1>1, <1>3, <3>2, <3>3
    <3>4. CASE i \notin 1 .. Len(resuming)
      <4>1. /\ i - Len(resuming) \in 1 .. Len(ws) /\ i - Len(resuming) < k + j
            /\ resuming'[i] = ws[i - Len(resuming)]
        BY <1>1, <1>2, <1>5, <3>2, <3>4, SMTT(180)
      <4> QED BY <3>2, <4>1 DEF InOrder
    <3> QED BY <3>3, <3>4
  <2> QED BY <2>1 DEF Before, Going, Waiting, Pubs
<1>8. Going' \subseteq Going \cup Pubs(ws)
  <2>1. \A i \in 1 .. Len(resuming') :
          \/ i \in 1 .. Len(resuming) /\ resuming'[i].pub = resuming[i].pub
          \/ i - Len(resuming) \in 1 .. Len(ws) /\ resuming'[i].pub = ws[i - Len(resuming)].pub
    BY <1>2, <1>5
  <2>2. \A i \in 1 .. Len(resuming') : resuming'[i].pub \in Pubs(resuming) \cup Pubs(ws)
    BY <2>1 DEF Pubs
  <2> QED BY <2>2 DEF Going, Pubs
<1>9. Waiting' \subseteq Pubs(ws)
  BY <1>1, <1>2, SMTT(180) DEF Waiting, Pubs
<1> QED BY <1>4, <1>6, <1>7, <1>8, <1>9

\* What is greater than every number of an increasing sequence goes to its end.
LEMMA Appended ==
    ASSUME NEW s \in Seq(Publishes), NEW p \in Publishes, Increasing(s), Before(Numbers(s), {p})
    PROVE  Increasing(Append(s, p)) /\ Numbers(Append(s, p)) = Numbers(s) \cup {p}
<1> DEFINE t == Append(s, p)
<1>1. /\ Len(s) \in Nat /\ Len(t) = Len(s) + 1 /\ t[Len(s) + 1] = p
      /\ \A i \in 1 .. Len(s) : t[i] = s[i]
  BY AppendProperties, LenProperties
<1> HIDE DEF t
<1>2. \A i \in 1 .. Len(s) : s[i] < p
  BY DEF Before, Numbers
<1>3. \A i \in 1 .. Len(t) : i \in 1 .. Len(s) \/ i = Len(s) + 1
  BY <1>1
<1>4. Increasing(t)
  BY <1>1, <1>2, <1>3 DEF Increasing
<1>5. Numbers(t) = Numbers(s) \cup {p}
  BY <1>1, <1>3 DEF Numbers
<1> QED BY <1>4, <1>5 DEF t

\* The same of waiters.
LEMMA AppendedWaiter ==
    ASSUME NEW ws \in Seq(Waits), NEW w \in Waits, InOrder(ws), Before(Pubs(ws), {w.pub})
    PROVE  InOrder(Append(ws, w)) /\ Pubs(Append(ws, w)) = Pubs(ws) \cup {w.pub}
<1> DEFINE t == Append(ws, w)
<1>1. /\ Len(ws) \in Nat /\ Len(t) = Len(ws) + 1 /\ t[Len(ws) + 1] = w
      /\ \A i \in 1 .. Len(ws) : t[i] = ws[i]
  BY AppendProperties, LenProperties
<1> HIDE DEF t
<1>2. \A i \in 1 .. Len(ws) : ws[i].pub < w.pub
  BY DEF Before, Pubs
<1>3. \A i \in 1 .. Len(t) : i \in 1 .. Len(ws) \/ i = Len(ws) + 1
  BY <1>1
<1>4. InOrder(t)
  BY <1>1, <1>2, <1>3 DEF InOrder
<1>5. Pubs(t) = Pubs(ws) \cup {w.pub}
  BY <1>1, <1>3 DEF Pubs
<1> QED BY <1>4, <1>5 DEF t

\* What is taken from the front of an increasing sequence is the least of it.
LEMMA Taken ==
    ASSUME NEW s \in Seq(Publishes), s # <<>>, Increasing(s)
    PROVE  /\ Increasing(Tail(s)) /\ Before({Head(s)}, Numbers(Tail(s)))
           /\ Numbers(s) = {Head(s)} \cup Numbers(Tail(s))
<1> DEFINE t == Tail(s)
<1>1. /\ Len(s) \in Nat \ {0} /\ Len(t) = Len(s) - 1 /\ \A i \in 1 .. Len(t) : t[i] = s[i + 1]
  BY HeadTailProperties, LenProperties, EmptySeq
<1>2. Head(s) = s[1]
  OBVIOUS
<1> HIDE DEF t
<1>3. \A i \in 1 .. Len(t) : i + 1 \in 1 .. Len(s)
  BY <1>1
<1>4. Increasing(t)
  <2>1. ASSUME NEW i \in 1 .. Len(t), NEW j \in 1 .. Len(t), i < j
        PROVE  t[i] < t[j]
    <3>1. s[i + 1] < s[j + 1]
      BY <1>1, <1>3, <2>1 DEF Increasing
    <3> QED BY <1>1, <3>1
  <2> QED BY <2>1 DEF Increasing
<1>5. Before({Head(s)}, Numbers(t))
  <2>1. \A i \in 1 .. Len(t) : s[1] < t[i]
    <3>1. \A i \in 1 .. Len(t) : s[1] < s[i + 1]
      BY <1>1, <1>3 DEF Increasing
    <3> QED BY <1>1, <3>1
  <2> QED BY <1>2, <2>1 DEF Before, Numbers
<1>6. Numbers(s) = {Head(s)} \cup Numbers(t)
  <2>1. \A i \in 1 .. Len(s) : i = 1 \/ (i - 1 \in 1 .. Len(t) /\ t[i - 1] = s[i])
    BY <1>1
  <2>2. 1 \in 1 .. Len(s)
    BY <1>1
  <2> QED BY <1>1, <1>2, <1>3, <2>1, <2>2, SMTT(180) DEF Numbers
<1> QED BY <1>4, <1>5, <1>6 DEF t

\* The same of waiters.
LEMMA TakenWaiter ==
    ASSUME NEW ws \in Seq(Waits), ws # <<>>, InOrder(ws)
    PROVE  /\ InOrder(Tail(ws)) /\ Before({Head(ws).pub}, Pubs(Tail(ws)))
           /\ Pubs(ws) = {Head(ws).pub} \cup Pubs(Tail(ws))
<1> DEFINE t == Tail(ws)
<1>1. /\ Len(ws) \in Nat \ {0} /\ Len(t) = Len(ws) - 1 /\ \A i \in 1 .. Len(t) : t[i] = ws[i + 1]
  BY HeadTailProperties, LenProperties, EmptySeq
<1>2. Head(ws) = ws[1]
  OBVIOUS
<1> HIDE DEF t
<1>3. \A i \in 1 .. Len(t) : i + 1 \in 1 .. Len(ws)
  BY <1>1
<1>4. InOrder(t)
  <2>1. ASSUME NEW i \in 1 .. Len(t), NEW j \in 1 .. Len(t), i < j
        PROVE  t[i].pub < t[j].pub
    <3>1. ws[i + 1].pub < ws[j + 1].pub
      BY <1>1, <1>3, <2>1 DEF InOrder
    <3> QED BY <1>1, <3>1
  <2> QED BY <2>1 DEF InOrder
<1>5. Before({Head(ws).pub}, Pubs(t))
  <2>1. \A i \in 1 .. Len(t) : ws[1].pub < t[i].pub
    <3>1. \A i \in 1 .. Len(t) : ws[1].pub < ws[i + 1].pub
      BY <1>1, <1>3, SMTT(180) DEF InOrder
    <3> QED BY <1>1, <3>1
  <2> QED BY <1>2, <2>1 DEF Before, Pubs
<1>6. Pubs(ws) = {Head(ws).pub} \cup Pubs(t)
  <2>1. \A i \in 1 .. Len(ws) : i = 1 \/ (i - 1 \in 1 .. Len(t) /\ t[i - 1] = ws[i])
    BY <1>1
  <2>2. 1 \in 1 .. Len(ws)
    BY <1>1
  <2> QED BY <1>1, <1>2, <1>3, <2>1, <2>2 DEF Pubs
<1> QED BY <1>4, <1>5, <1>6 DEF t

-----------------------------------------------------------------------------
(* The order of the calls.  The invariant adds only that what is queued was  *)
(* called, so that the next publish is greater than all of it.              *)

\* Every publish queued was called.
Called == \A p \in Served \cup Sending \cup Going \cup Waiting : p <= Len(pubs)

OrderInv == TypeOK /\ CallOrderIsKept /\ Called

\* What is queued is numbers of publishes.
LEMMA QueuedTypes ==
    ASSUME TypeOK
    PROVE  /\ Served \subseteq Publishes /\ Sending \subseteq Publishes
           /\ Going \subseteq Publishes /\ Waiting \subseteq Publishes
           /\ Publishes \subseteq Int
<1>1. /\ \A i \in 1 .. Len(log) : log[i] \in Publishes
      /\ \A i \in 1 .. Len(sending) : sending[i] \in Publishes
      /\ \A i \in 1 .. Len(resuming) : resuming[i] \in Waits
      /\ \A i \in 1 .. Len(waiters) : waiters[i] \in Waits
  BY ElementOfSeq DEF TypeOK
<1> QED BY <1>1 DEF Served, Sending, Going, Waiting, Numbers, Pubs, Waits, Publishes

\* Nothing is queued at first.
LEMMA InitOrder == Init => CallOrderIsKept /\ Called
<1>1. Len(<<>>) = 0
  BY EmptySeq
<1> QED BY <1>1 DEF Init, CallOrderIsKept, Called, Before, Increasing, InOrder, Served, Sending,
                    Going, Waiting, Numbers, Pubs

\* Whatever settles, what is woken keeps the order of the calls.
LEMMA WokenCallOrder ==
    ASSUME OrderInv, NEW last \in 0 .. Len(waiters), NEW sub, Wake(waiters, last, sub),
           UNCHANGED <<log, sending, pubs>>
    PROVE  CallOrderIsKept' /\ Called'
<1>1. /\ InOrder(resuming') /\ InOrder(waiters') /\ Before(Going', Waiting')
      /\ Going' \cup Waiting' \subseteq Going \cup Waiting
  BY WokenOrder DEF OrderInv, TypeOK, CallOrderIsKept, Waiting
<1>2. Served' = Served /\ Sending' = Sending
  BY DEF Served, Sending
<1>3. Before(Served', Sending' \cup Going' \cup Waiting') /\ Before(Sending', Going' \cup Waiting')
  BY <1>1, <1>2 DEF OrderInv, CallOrderIsKept, Before
<1> QED BY <1>1, <1>2, <1>3 DEF OrderInv, CallOrderIsKept, Called

\* A publish goes behind every earlier one, or fails at once (publish).
LEMMA PublishOrder ==
    ASSUME OrderInv, NEW ch \in Channels, Publish(ch)
    PROVE  CallOrderIsKept' /\ Called'
<1> DEFINE p == Len(pubs) + 1
           w == [pub |-> p, upTo |-> subscribesSent]
           ws == Append(waiters, w)
<1>1. p \in Publishes /\ Len(pubs') = p /\ Len(pubs) \in Nat /\ Served' = Served
  <2>1. [ch |-> ch, audience |-> listener[ch]] \in Calls
    BY DEF OrderInv, TypeOK, Calls
  <2>2. Len(pubs') = p /\ Len(pubs) \in Nat
    BY <2>1, AppendProperties, LenProperties DEF OrderInv, TypeOK, Publish
  <2> QED BY <2>2, RedisTransportAssumption DEF Publish, Publishes, Served
<1>2. Before(Served \cup Sending \cup Going \cup Waiting, {p})
  BY <1>1, QueuedTypes DEF OrderInv, Called, Before
<1>3. \A q \in Served \cup Sending \cup Going \cup Waiting \cup {p} : q <= Len(pubs')
  BY <1>1, QueuedTypes DEF OrderInv, Called
<1>4. CASE failed # {}
  <2>1. waiters' = waiters /\ resuming' = resuming /\ sending' = sending
    BY <1>4 DEF Publish
  <2> QED BY <1>1, <1>3, <2>1
          DEF OrderInv, CallOrderIsKept, Called, Served, Sending, Going, Waiting, Publish
<1>5. CASE failed = {} /\ MustWait
  <2>1. Wake(ws, Len(waiters) + 1, subscribing) /\ sending' = sending
    BY <1>5 DEF Publish
  <2>2. w \in Waits /\ w.pub = p
    BY <1>1 DEF Waits, OrderInv, TypeOK
  <2>3. ws \in Seq(Waits) /\ Len(ws) = Len(waiters) + 1 /\ Len(waiters) + 1 \in 0 .. Len(ws)
    BY <2>2, AppendProperties, LenProperties DEF OrderInv, TypeOK
  <2>4. InOrder(ws) /\ Pubs(ws) = Waiting \cup {p}
    <3>1. Before(Pubs(waiters), {w.pub}) /\ InOrder(waiters) /\ waiters \in Seq(Waits)
      BY <1>2, <2>2 DEF Before, Waiting, OrderInv, CallOrderIsKept, TypeOK
    <3> HIDE DEF w
    <3> QED BY <2>2, <3>1, AppendedWaiter DEF Waiting
  <2>5. Before(Going, Pubs(ws)) /\ InOrder(resuming)
    BY <1>2, <2>4 DEF OrderInv, CallOrderIsKept, Before
  <2> HIDE DEF ws
  <2>6. /\ InOrder(resuming') /\ InOrder(waiters') /\ Before(Going', Waiting')
        /\ Going' \cup Waiting' \subseteq Going \cup Pubs(ws)
    BY <2>1, <2>3, <2>4, <2>5, WokenOrder DEF OrderInv
  <2>7. Sending' = Sending /\ Increasing(sending') /\ Increasing(log')
    BY <2>1 DEF Sending, Publish, OrderInv, CallOrderIsKept
  <2>8. Going' \cup Waiting' \subseteq Going \cup Waiting \cup {p}
    BY <2>4, <2>6
  <2>9. /\ Before(Served', Sending' \cup Going' \cup Waiting')
        /\ Before(Sending', Going' \cup Waiting')
    BY <1>1, <1>2, <2>7, <2>8 DEF OrderInv, CallOrderIsKept, Before
  <2>10. Called'
    BY <1>1, <1>3, <2>7, <2>8 DEF Called
  <2> QED BY <2>6, <2>7, <2>9, <2>10 DEF CallOrderIsKept
<1>6. CASE failed = {} /\ ~MustWait
  <2>1. /\ waiters = <<>> /\ resuming = <<>> /\ waiters' = waiters /\ resuming' = resuming
        /\ sending' = Append(sending, p)
    BY <1>6 DEF Publish, MustWait
  <2>2. Waiting' = {} /\ Going' = {}
    BY <2>1, EmptySeq DEF Waiting, Going, Pubs
  <2>3. Increasing(sending') /\ Sending' = Sending \cup {p}
    <3>1. Before(Numbers(sending), {p}) /\ Increasing(sending) /\ sending \in Seq(Publishes)
      BY <1>2 DEF Before, Sending, OrderInv, CallOrderIsKept, TypeOK
    <3> QED BY <1>1, <2>1, <3>1, Appended DEF Sending
  <2>4. Increasing(log') /\ InOrder(waiters') /\ InOrder(resuming')
    BY <2>1 DEF Publish, OrderInv, CallOrderIsKept
  <2>5. Before(Served', Sending')
    BY <1>1, <1>2, <2>3 DEF OrderInv, CallOrderIsKept, Before
  <2>6. Called'
    BY <1>1, <1>3, <2>2, <2>3 DEF Called
  <2> QED BY <2>2, <2>3, <2>4, <2>5, <2>6 DEF CallOrderIsKept, Before
<1> QED BY <1>4, <1>5, <1>6

\* The oldest that goes on is sent behind those sent (publish, after its wait).
LEMMA ResumeOrder ==
    ASSUME OrderInv, Resume
    PROVE  CallOrderIsKept' /\ Called'
<1> DEFINE p == Head(resuming).pub
<1>1. /\ InOrder(resuming') /\ Before({p}, Going') /\ Going = {p} \cup Going'
      /\ Waiting' = Waiting /\ Served' = Served /\ InOrder(waiters') /\ Increasing(log')
  BY TakenWaiter DEF OrderInv, TypeOK, CallOrderIsKept, Resume, Going, Waiting, Served
<1>2. p \in Publishes
  BY <1>1, QueuedTypes DEF OrderInv
<1>3. Increasing(sending') /\ Sending' = Sending \cup {p}
  <2>1. Before(Numbers(sending), {p}) /\ Increasing(sending) /\ sending \in Seq(Publishes)
    BY <1>1 DEF OrderInv, CallOrderIsKept, Before, TypeOK, Sending
  <2>2. sending' = Append(sending, p)
    BY DEF Resume
  <2> HIDE DEF p
  <2> QED BY <1>2, <2>1, <2>2, Appended DEF Sending
<1> HIDE DEF p
<1>4. /\ Before(Served', Sending' \cup Going' \cup Waiting')
      /\ Before(Sending', Going' \cup Waiting') /\ Before(Going', Waiting')
  BY <1>1, <1>3 DEF OrderInv, CallOrderIsKept, Before
<1>5. Called'
  BY <1>1, <1>3 DEF OrderInv, Called, Resume
<1> QED BY <1>1, <1>3, <1>4, <1>5 DEF CallOrderIsKept

\* Redis serves the oldest sent.
LEMMA RedisPublishesOrder ==
    ASSUME OrderInv, RedisPublishes
    PROVE  CallOrderIsKept' /\ Called'
<1> DEFINE p == Head(sending)
<1>1. /\ Increasing(sending') /\ Before({p}, Sending') /\ Sending = {p} \cup Sending'
      /\ Waiting' = Waiting /\ Going' = Going /\ InOrder(waiters') /\ InOrder(resuming')
  BY Taken DEF OrderInv, TypeOK, CallOrderIsKept, RedisPublishes, Sending, Going, Waiting
<1>2. p \in Publishes
  BY <1>1, QueuedTypes DEF OrderInv
<1>3. log' = Append(log, p) \/ log' = log
  BY DEF RedisPublishes
<1> HIDE DEF p
<1>4. Increasing(log') /\ Served' \subseteq Served \cup {p}
  <2>1. Before(Numbers(log), {p}) /\ Increasing(log) /\ log \in Seq(Publishes)
    BY <1>1 DEF OrderInv, CallOrderIsKept, Before, TypeOK, Served
  <2> QED BY <1>2, <1>3, <2>1, Appended DEF Served
<1>5. /\ Before(Served', Sending' \cup Going' \cup Waiting')
      /\ Before(Sending', Going' \cup Waiting') /\ Before(Going', Waiting')
  BY <1>1, <1>4 DEF OrderInv, CallOrderIsKept, Before
<1>6. Called'
  BY <1>1, <1>4 DEF OrderInv, Called, RedisPublishes
<1> QED BY <1>1, <1>4, <1>5, <1>6 DEF CallOrderIsKept

\* settleSubscribe keeps the order, whatever it wakes and rejects.
LEMMA SettleOrder ==
    ASSUME OrderInv, SettleSubscribe
    PROVE  CallOrderIsKept' /\ Called'
<1>1. CASE Current(Head(acks))
  BY <1>1, WokenCallOrder DEF SettleSubscribe
<1>2. CASE ~Current(Head(acks))
  BY <1>2 DEF SettleSubscribe, OrderInv, CallOrderIsKept, Called, Served, Sending, Going, Waiting
<1> QED BY <1>1, <1>2

\* unsubscribe keeps the order of what it wakes.
LEMMA UnlistenOrder ==
    ASSUME OrderInv, NEW ch \in Channels, Unlisten(ch)
    PROVE  CallOrderIsKept' /\ Called'
<1>1. Len(waiters) \in 0 .. Len(waiters)
  BY LenProperties DEF OrderInv, TypeOK
<1> QED BY <1>1, WokenCallOrder DEF Unlisten

\* Every step keeps the order of the calls.
LEMMA NextOrder ==
    ASSUME OrderInv, [Next]_vars
    PROVE  OrderInv'
<1>1. TypeOK'
  BY NextType DEF OrderInv
<1>2. UNCHANGED <<log, sending, resuming, waiters, pubs>> => CallOrderIsKept' /\ Called'
  BY DEF OrderInv, CallOrderIsKept, Called, Served, Sending, Going, Waiting
<1>3. UNCHANGED vars => CallOrderIsKept' /\ Called'
  BY <1>2 DEF vars, redis
<1>4. ASSUME NEW ch \in Channels, Listen(ch) PROVE CallOrderIsKept' /\ Called'
  BY <1>2, <1>4 DEF Listen
<1>5. ASSUME NEW p \in rejected, ResumeRejected(p) PROVE CallOrderIsKept' /\ Called'
  BY <1>2, <1>5 DEF ResumeRejected
<1>6. ReadReply \/ RedisSubscribes => CallOrderIsKept' /\ Called'
  BY <1>2 DEF ReadReply, RedisSubscribes
<1>7. CallOrderIsKept' /\ Called'
  BY <1>3, <1>4, <1>5, <1>6, UnlistenOrder, PublishOrder, ResumeOrder, SettleOrder,
     RedisPublishesOrder DEF Next
<1> QED BY <1>1, <1>7 DEF OrderInv

\* Publishes reach Redis in the order of their calls, for any channels, listeners and failures
\* (redis/src/index.ts:176, releaseWaiters, settleSubscribe).
THEOREM CallOrder == Spec => []CallOrderIsKept
<1>1. Init => OrderInv
  BY InitType, InitOrder DEF OrderInv
<1>2. OrderInv => CallOrderIsKept
  BY DEF OrderInv
<1> QED BY <1>1, <1>2, NextOrder, PTL DEF Spec

-----------------------------------------------------------------------------
(* No publish is stranded.  The invariant adds only that a channel without a *)
(* listener waits for nothing, so that listen replaces no pending SUBSCRIBE. *)

\* A channel waits for a SUBSCRIBE only while it has a listener.
WaitsForListener == \A ch \in Channels : listener[ch] = 0 => subscribing[ch] = 0

WaitInv == TypeOK /\ NoneIsStranded /\ WaitsForListener

\* What is queued stays queued when more is, and what is added is queued.
LEMMA SubscribesAppended ==
    ASSUME NEW S, NEW s \in Seq(S), NEW e \in S, NEW kind
    PROVE  /\ Subscribes(s, kind) \subseteq Subscribes(Append(s, e), kind)
           /\ e.t = kind => <<e.ch, e.order>> \in Subscribes(Append(s, e), kind)
<1> DEFINE t == Append(s, e)
<1>1. /\ Len(s) \in Nat /\ Len(t) = Len(s) + 1 /\ t[Len(s) + 1] = e
      /\ \A i \in 1 .. Len(s) : t[i] = s[i]
  BY AppendProperties, LenProperties
<1> HIDE DEF t
<1>2. Subscribes(s, kind) \subseteq Subscribes(t, kind)
  BY <1>1 DEF Subscribes
<1>3. e.t = kind => <<e.ch, e.order>> \in Subscribes(t, kind)
  <2>1. Len(s) + 1 \in 1 .. Len(t)
    BY <1>1
  <2> QED BY <1>1, <2>1 DEF Subscribes
<1> QED BY <1>2, <1>3 DEF t

\* What is queued is still so after the first was taken, or was the first.
LEMMA SubscribesTaken ==
    ASSUME NEW S, NEW s \in Seq(S), s # <<>>, NEW kind
    PROVE  \A x \in Subscribes(s, kind) :
             \/ x \in Subscribes(Tail(s), kind)
             \/ Head(s).t = kind /\ x = <<Head(s).ch, Head(s).order>>
<1> DEFINE t == Tail(s)
<1>1. /\ Len(s) \in Nat \ {0} /\ Len(t) = Len(s) - 1 /\ \A i \in 1 .. Len(t) : t[i] = s[i + 1]
  BY HeadTailProperties, LenProperties, EmptySeq
<1>2. Head(s) = s[1]
  OBVIOUS
<1> HIDE DEF t
<1>3. \A i \in 1 .. Len(s) : i = 1 \/ (i - 1 \in 1 .. Len(t) /\ t[i - 1] = s[i])
  BY <1>1
<1>4. \A x \in Subscribes(s, kind) :
        \/ x \in Subscribes(t, kind)
        \/ Head(s).t = kind /\ x = <<Head(s).ch, Head(s).order>>
  <2>1. TAKE x \in Subscribes(s, kind)
  <2>2. PICK i \in 1 .. Len(s) : s[i].t = kind /\ x = <<s[i].ch, s[i].order>>
    BY DEF Subscribes
  <2>3. CASE i = 1
    BY <1>2, <2>2, <2>3
  <2>4. CASE i # 1
    <3>1. i - 1 \in 1 .. Len(t) /\ t[i - 1] = s[i]
      BY <1>3, <2>4
    <3> QED BY <2>2, <3>1 DEF Subscribes
  <2> QED BY <2>3, <2>4
<1> QED BY <1>4 DEF t

\* After releaseWaiters, the oldest that still waits is not cleared.
LEMMA WokenHead ==
    ASSUME TypeOK, NEW ws \in Seq(Waits), NEW last \in 0 .. Len(ws), NEW sub, Wake(ws, last, sub)
    PROVE  waiters' # <<>> => ~Cleared(Head(waiters').upTo, sub)
<1>1. PICK k \in 0 .. last :
        /\ k < last => ~Cleared(ws[k + 1].upTo, sub)
        /\ waiters' = SubSeq(ws, k + 1, last)
  BY DEF Wake
<1>2. CASE k < last
  <2>1. Len(ws) \in Nat
    BY LenProperties
  <2>2. k + 1 \in 1 .. Len(ws) /\ last \in k + 1 .. Len(ws)
    BY <1>2, <2>1
  <2>3. Head(waiters') = ws[k + 1]
    BY <1>1, <2>2, HeadTailOfSubSeq
  <2> QED BY <1>1, <1>2, <2>3
<1>3. CASE ~(k < last)
  BY <1>1, <1>3, SubSeqEmpty
<1> QED BY <1>2, <1>3

\* Nothing waits at first.
LEMMA InitWait == Init => NoneIsStranded /\ WaitsForListener
<1> QED BY DEF Init, NoneIsStranded, WaitsForListener

\* A SUBSCRIBE sent is pending and behind every publish that waits (listen).
LEMMA ListenWait ==
    ASSUME WaitInv, NEW ch \in Channels, Listen(ch)
    PROVE  NoneIsStranded' /\ WaitsForListener'
<1> DEFINE o == subscribesSent'
           c == [t |-> "SUBSCRIBE", ch |-> ch, order |-> o]
<1>1. o # 0 /\ c \in Commands /\ commands' = Append(commands, c)
      /\ listener' = [listener EXCEPT ![ch] = o] /\ subscribing' = [subscribing EXCEPT ![ch] = o]
  BY RedisTransportAssumption, SMTT(180) DEF Listen, WaitInv, TypeOK, Commands, Listeners
<1>2. WaitsForListener'
  BY <1>1 DEF WaitInv, WaitsForListener, TypeOK
<1>3. waiters' # <<>> => ~Cleared(Head(waiters').upTo, subscribing')
  <2>1. subscribing[ch] = 0
    BY DEF WaitInv, WaitsForListener, Listen
  <2>2. waiters' = waiters
    BY DEF Listen
  <2> QED BY <1>1, <2>1, <2>2 DEF WaitInv, NoneIsStranded, TypeOK, Cleared
<1>4. ToAnswer \subseteq ToAnswer' /\ <<ch, o>> \in ToAnswer'
  <2>1. /\ Subscribes(commands, "SUBSCRIBE") \subseteq Subscribes(commands', "SUBSCRIBE")
        /\ <<ch, o>> \in Subscribes(commands', "SUBSCRIBE")
    <3>1. commands \in Seq(Commands) /\ c.t = "SUBSCRIBE" /\ c.ch = ch /\ c.order = o
      BY DEF WaitInv, TypeOK
    <3> HIDE DEF c, o
    <3> QED BY <1>1, <3>1, SubscribesAppended
  <2>2. replies' = replies /\ acks' = acks
    BY DEF Listen
  <2> QED BY <2>1, <2>2 DEF ToAnswer
<1>5. \A d \in Channels : subscribing'[d] # 0 => <<d, subscribing'[d]>> \in ToAnswer'
  BY <1>1, <1>4 DEF WaitInv, NoneIsStranded, TypeOK
<1> QED BY <1>2, <1>3, <1>5 DEF NoneIsStranded

\* What waited for the removed SUBSCRIBE alone goes on (unsubscribe).
LEMMA UnlistenWait ==
    ASSUME WaitInv, NEW ch \in Channels, Unlisten(ch)
    PROVE  NoneIsStranded' /\ WaitsForListener'
<1> DEFINE c == [t |-> "UNSUBSCRIBE", ch |-> ch, order |-> 0]
<1>1. /\ listener' = [listener EXCEPT ![ch] = 0] /\ subscribing' = [subscribing EXCEPT ![ch] = 0]
      /\ Wake(waiters, Len(waiters), subscribing') /\ commands' = Append(commands, c)
      /\ replies' = replies /\ acks' = acks
  BY DEF Unlisten
<1>2. waiters' # <<>> => ~Cleared(Head(waiters').upTo, subscribing')
  <2>1. Len(waiters) \in 0 .. Len(waiters)
    BY LenProperties DEF WaitInv, TypeOK
  <2> QED BY <1>1, <2>1, WokenHead DEF WaitInv, TypeOK
<1>3. ToAnswer \subseteq ToAnswer'
  <2>1. c \in Commands
    BY DEF Commands
  <2>2. Subscribes(commands, "SUBSCRIBE") \subseteq Subscribes(commands', "SUBSCRIBE")
    <3>1. commands \in Seq(Commands)
      BY DEF WaitInv, TypeOK
    <3> HIDE DEF c
    <3> QED BY <1>1, <2>1, <3>1, SubscribesAppended
  <2> QED BY <1>1, <2>2 DEF ToAnswer
<1> QED BY <1>1, <1>2, <1>3 DEF WaitInv, NoneIsStranded, WaitsForListener, TypeOK

\* A publish waits for a SUBSCRIBE that is pending, or does not wait (publish).
LEMMA PublishWait ==
    ASSUME WaitInv, NEW ch \in Channels, Publish(ch)
    PROVE  NoneIsStranded' /\ WaitsForListener'
<1> DEFINE w == [pub |-> Len(pubs) + 1, upTo |-> subscribesSent]
<1>1. UNCHANGED <<listener, subscribing, commands, replies, acks>>
  BY DEF Publish
<1>2. waiters' # <<>> => ~Cleared(Head(waiters').upTo, subscribing)
  <2>1. CASE failed = {} /\ MustWait
    <3>1. Wake(Append(waiters, w), Len(waiters) + 1, subscribing)
      BY <2>1 DEF Publish
    <3>2. w \in Waits
      BY LenProperties, RedisTransportAssumption DEF Publish, WaitInv, TypeOK, Waits, Publishes
    <3>3. /\ Append(waiters, w) \in Seq(Waits)
          /\ Len(waiters) + 1 \in 0 .. Len(Append(waiters, w))
      BY <3>2, AppendProperties, LenProperties DEF WaitInv, TypeOK
    <3> QED BY <3>1, <3>3, WokenHead DEF WaitInv
  <2>2. CASE ~(failed = {} /\ MustWait)
    BY <2>2 DEF Publish, WaitInv, NoneIsStranded
  <2> QED BY <2>1, <2>2
<1> QED BY <1>1, <1>2 DEF WaitInv, NoneIsStranded, WaitsForListener, ToAnswer

\* A settle wakes what waited for it alone (settleSubscribe).
LEMMA SettleWait ==
    ASSUME WaitInv, SettleSubscribe
    PROVE  NoneIsStranded' /\ WaitsForListener'
<1> DEFINE ack == Head(acks)
<1>1. \A x \in ToAnswer : x \in ToAnswer' \/ x = <<ack.ch, ack.order>>
  <2>1. /\ acks \in Seq(AnswersTo) /\ acks # <<>> /\ acks' = Tail(acks)
        /\ commands' = commands /\ replies' = replies
    BY DEF WaitInv, TypeOK, SettleSubscribe
  <2> HIDE DEF ack
  <2>2. \A x \in Subscribes(acks, "answer") :
          x \in Subscribes(acks', "answer") \/ x = <<ack.ch, ack.order>>
    BY <2>1, SubscribesTaken DEF ack
  <2> QED BY <2>1, <2>2 DEF ToAnswer
<1>2. listener' = listener
  BY DEF SettleSubscribe
<1>3. CASE Current(ack)
  <2>1. subscribing' = [subscribing EXCEPT ![ack.ch] = 0]
    BY <1>3 DEF SettleSubscribe
  <2>2. PICK last \in 0 .. Len(waiters) : Wake(waiters, last, subscribing')
    BY <1>3 DEF SettleSubscribe
  <2>3. waiters' # <<>> => ~Cleared(Head(waiters').upTo, subscribing')
    BY <2>2, WokenHead DEF WaitInv, TypeOK
  <2> HIDE DEF ack
  <2>4. \A ch \in Channels : subscribing'[ch] # 0 => <<ch, subscribing'[ch]>> \in ToAnswer'
    BY <1>1, <2>1 DEF WaitInv, NoneIsStranded, TypeOK
  <2>5. WaitsForListener'
    BY <1>2, <2>1 DEF WaitInv, WaitsForListener, TypeOK
  <2> QED BY <2>3, <2>4, <2>5 DEF NoneIsStranded
<1>4. CASE ~Current(ack)
  <2>1. subscribing' = subscribing /\ waiters' = waiters
    BY <1>4 DEF SettleSubscribe
  <2>2. subscribing[ack.ch] # ack.order
    BY <1>4 DEF Current
  <2> HIDE DEF ack
  <2>3. \A ch \in Channels : subscribing[ch] # 0 => <<ch, subscribing[ch]>> \in ToAnswer'
    BY <1>1, <2>2 DEF WaitInv, NoneIsStranded
  <2> QED BY <1>2, <2>1, <2>3 DEF WaitInv, NoneIsStranded, WaitsForListener
<1> QED BY <1>3, <1>4

\* An answer read is settled next.
LEMMA ReadReplyToAnswer ==
    ASSUME TypeOK, ReadReply
    PROVE  ToAnswer \subseteq ToAnswer'
<1> DEFINE r == Head(replies)
<1>1. /\ replies \in Seq(AnswersTo \cup Messages) /\ replies # <<>> /\ replies' = Tail(replies)
      /\ commands' = commands /\ acks' = IF r.t = "message" THEN acks ELSE Append(acks, r)
      /\ acks \in Seq(AnswersTo)
  BY DEF TypeOK, ReadReply
<1>2. r \in AnswersTo \cup Messages
  BY <1>1, HeadTailProperties
<1>3. r.t = "answer" => r \in AnswersTo
  BY <1>2 DEF AnswersTo, Messages
<1>4. \A x \in Subscribes(replies, "answer") :
        x \in Subscribes(replies', "answer") \/ (r.t = "answer" /\ x = <<r.ch, r.order>>)
  BY <1>1, SubscribesTaken
<1> HIDE DEF r
<1>5. CASE r.t = "answer"
  <2>1. /\ Subscribes(acks, "answer") \subseteq Subscribes(acks', "answer")
        /\ <<r.ch, r.order>> \in Subscribes(acks', "answer")
    BY <1>1, <1>3, <1>5, SubscribesAppended
  <2> QED BY <1>1, <1>4, <2>1 DEF ToAnswer
<1>6. CASE r.t # "answer"
  <2>1. acks' = acks
    BY <1>1, <1>2, <1>6 DEF AnswersTo, Messages
  <2> QED BY <1>1, <1>4, <1>6, <2>1 DEF ToAnswer
<1> QED BY <1>5, <1>6

\* Redis answers every SUBSCRIBE, a failed one too.
LEMMA RedisSubscribesToAnswer ==
    ASSUME TypeOK, RedisSubscribes
    PROVE  ToAnswer \subseteq ToAnswer'
<1> DEFINE c == Head(commands)
<1>1. /\ commands \in Seq(Commands) /\ commands # <<>> /\ commands' = Tail(commands)
      /\ replies \in Seq(AnswersTo \cup Messages) /\ acks' = acks
  BY DEF TypeOK, RedisSubscribes
<1>2. c \in Commands
  BY <1>1, HeadTailProperties
<1>3. \A x \in Subscribes(commands, "SUBSCRIBE") :
        x \in Subscribes(commands', "SUBSCRIBE") \/ (c.t = "SUBSCRIBE" /\ x = <<c.ch, c.order>>)
  BY <1>1, SubscribesTaken
<1>4. CASE c.t = "SUBSCRIBE"
  <2>1. PICK ok \in BOOLEAN : replies' = Append(replies, Answer(c, ok))
    BY <1>4 DEF RedisSubscribes
  <2>2. /\ Answer(c, ok) \in AnswersTo /\ Answer(c, ok).t = "answer"
        /\ Answer(c, ok).ch = c.ch /\ Answer(c, ok).order = c.order
    BY <1>2, <1>4 DEF Commands, AnswersTo, Answer
  <2> HIDE DEF c
  <2>3. /\ Subscribes(replies, "answer") \subseteq Subscribes(replies', "answer")
        /\ <<c.ch, c.order>> \in Subscribes(replies', "answer")
    <3> DEFINE a == Answer(c, ok)
    <3>1. a \in AnswersTo \cup Messages /\ a.t = "answer" /\ a.ch = c.ch /\ a.order = c.order
          /\ replies' = Append(replies, a)
      BY <2>1, <2>2
    <3> HIDE DEF a
    <3> QED BY <1>1, <3>1, SubscribesAppended
  <2> QED BY <1>1, <1>3, <2>3 DEF ToAnswer
<1>5. CASE c.t # "SUBSCRIBE"
  <2>1. c.t = "UNSUBSCRIBE"
    BY <1>2, <1>5 DEF Commands
  <2>2. replies' = replies
    BY <2>1 DEF RedisSubscribes
  <2> QED BY <1>1, <1>3, <1>5, <2>2 DEF ToAnswer
<1> QED BY <1>4, <1>5

\* A message overtakes and drops no answer.
LEMMA RedisPublishesToAnswer ==
    ASSUME TypeOK, RedisPublishes
    PROVE  ToAnswer \subseteq ToAnswer'
<1> DEFINE msg == [t |-> "message", ch |-> pubs[Head(sending)].ch, pub |-> Head(sending)]
<1>1. /\ replies' = replies \/ (replies' = Append(replies, msg) /\ msg.ch \in subscribed)
      /\ commands' = commands /\ acks' = acks
  BY DEF RedisPublishes
<1>2. Head(sending) \in Publishes
  BY HeadTailProperties DEF TypeOK, RedisPublishes
<1>3. msg.ch \in subscribed => msg \in AnswersTo \cup Messages
  BY <1>2 DEF TypeOK, Messages
<1> HIDE DEF msg
<1>4. Subscribes(replies, "answer") \subseteq Subscribes(replies', "answer")
  <2>1. replies \in Seq(AnswersTo \cup Messages)
    BY DEF TypeOK
  <2> QED BY <1>1, <1>3, <2>1, SubscribesAppended
<1> QED BY <1>1, <1>4 DEF ToAnswer

\* Every step keeps the publishes that wait waiting for an answer to come.
LEMMA NextWait ==
    ASSUME WaitInv, [Next]_vars
    PROVE  WaitInv'
<1>1. TypeOK'
  BY NextType DEF WaitInv
<1>2. UNCHANGED <<listener, subscribing, waiters>> /\ ToAnswer \subseteq ToAnswer'
      => NoneIsStranded' /\ WaitsForListener'
  BY DEF WaitInv, NoneIsStranded, WaitsForListener
<1>3. UNCHANGED <<listener, subscribing, waiters, commands, replies, acks>>
      => NoneIsStranded' /\ WaitsForListener'
  BY <1>2 DEF ToAnswer
<1>4. UNCHANGED vars \/ Resume => NoneIsStranded' /\ WaitsForListener'
  BY <1>3 DEF Resume, vars, redis
<1>5. ASSUME NEW p \in rejected, ResumeRejected(p) PROVE NoneIsStranded' /\ WaitsForListener'
  BY <1>3, <1>5 DEF ResumeRejected
<1>6. ReadReply => NoneIsStranded' /\ WaitsForListener'
  BY <1>2, ReadReplyToAnswer DEF ReadReply, WaitInv
<1>7. RedisSubscribes => NoneIsStranded' /\ WaitsForListener'
  BY <1>2, RedisSubscribesToAnswer DEF RedisSubscribes, WaitInv
<1>8. RedisPublishes => NoneIsStranded' /\ WaitsForListener'
  BY <1>2, RedisPublishesToAnswer DEF RedisPublishes, WaitInv
<1>9. NoneIsStranded' /\ WaitsForListener'
  BY <1>4, <1>5, <1>6, <1>7, <1>8, ListenWait, UnlistenWait, PublishWait, SettleWait DEF Next
<1> QED BY <1>1, <1>9 DEF WaitInv

\* No publish is stranded, for any channels, listeners and failures (releaseWaiters, on every
\* settle and every removed listener).
THEOREM NoneStranded == Spec => []NoneIsStranded
<1>1. Init => WaitInv
  BY InitType, InitWait DEF WaitInv
<1>2. WaitInv => NoneIsStranded
  BY DEF WaitInv
<1> QED BY <1>1, <1>2, NextWait, PTL DEF Spec

-----------------------------------------------------------------------------
(***************************************************************************)
(* Listeners hear every publish called while they are there.               *)
(*                                                                         *)
(* A publish waits through its listener's SUBSCRIBE, so its wait ends when *)
(* that was acknowledged or failed; a failed one fails the publish; and    *)
(* what was acknowledged Redis keeps, as every UNSUBSCRIBE of the channel  *)
(* is in front of its listener's SUBSCRIBE.                                *)
(***************************************************************************)

(* The inductive invariant *)

\* SUBSCRIBEs are numbered in their order, and a channel waits for its listener's alone.
Numbered ==
    /\ \A ch \in Channels : listener[ch] <= subscribesSent /\ subscribing[ch] \in {0, listener[ch]}
    /\ \A i \in 1 .. Len(pubs) : pubs[i].audience <= subscribesSent
    /\ \A c \in Numbers(commands) : c.order <= subscribesSent
    /\ \A r \in Numbers(replies) : r.t = "answer" => r.order <= subscribesSent
    /\ \A r \in Numbers(acks) : r.order <= subscribesSent

\* No UNSUBSCRIBE of the channel is behind its listener's SUBSCRIBE.
SubscribedLast ==
    \A i, j \in 1 .. Len(commands) :
        /\ i < j /\ commands[i].t = "SUBSCRIBE" /\ commands[i].order = listener[commands[i].ch]
        => ~(commands[j].t = "UNSUBSCRIBE" /\ commands[j].ch = commands[i].ch)

\* Redis has the channel subscribed, and keeps it so.
Has(ch) ==
    ch \in subscribed /\ \A c \in Numbers(commands) : ~(c.t = "UNSUBSCRIBE" /\ c.ch = ch)

\* An answer to a listener's SUBSCRIBE is right about it.
IsRight(r) == r.order = listener[r.ch] /\ r.ok => Has(r.ch)

AnswersAreRight ==
    /\ \A r \in Numbers(replies) : r.t = "answer" => IsRight(r)
    /\ \A r \in Numbers(acks) : IsRight(r)

\* A listener whose SUBSCRIBE was acknowledged.
Active(ch) == listener[ch] # 0 /\ subscribing[ch] = 0 /\ ch \notin failed

ActiveHas == \A ch \in Channels : Active(ch) => Has(ch)

SentAreHeard == \A n \in Sending \cup Going : Hears(n) => Has(pubs[n].ch)

\* A publish waits for its listener's SUBSCRIBE too, which did not fail.
WillBeHeard(w) ==
    Hears(w.pub) => pubs[w.pub].ch \notin failed /\ pubs[w.pub].audience <= w.upTo

WaitersHear ==
    /\ \A i, j \in 1 .. Len(waiters) : i < j => waiters[i].upTo <= waiters[j].upTo
    /\ \A w \in Numbers(waiters) : w.upTo <= subscribesSent /\ WillBeHeard(w)

MessagesAreCalled ==
    \A r \in Numbers(replies) :
        r.t = "message" => r.pub <= Len(pubs) /\ r.ch = pubs[r.pub].ch

HearInv ==
    /\ OrderInv
    /\ Numbered /\ SubscribedLast /\ AnswersAreRight /\ ActiveHas
    /\ SentAreHeard /\ WaitersHear /\ MessagesAreCalled /\ ListenersHear

-----------------------------------------------------------------------------
(* Where what is queued comes from *)

\* The elements of a sequence are in its set.
LEMMA NumbersIn ==
    ASSUME NEW S, NEW s \in Seq(S)
    PROVE  Numbers(s) \subseteq S
<1> QED BY ElementOfSeq DEF Numbers

\* What is appended to a sequence is added to its elements.
LEMMA NumbersAppended ==
    ASSUME NEW S, NEW s \in Seq(S), NEW e \in S
    PROVE  Numbers(Append(s, e)) = Numbers(s) \cup {e}
<1> DEFINE t == Append(s, e)
<1>1. /\ Len(s) \in Nat /\ Len(t) = Len(s) + 1 /\ t[Len(s) + 1] = e
      /\ \A i \in 1 .. Len(s) : t[i] = s[i]
  BY AppendProperties, LenProperties
<1> HIDE DEF t
<1>2. \A i \in 1 .. Len(t) : i \in 1 .. Len(s) \/ i = Len(s) + 1
  BY <1>1
<1>3. Numbers(t) = Numbers(s) \cup {e}
  BY <1>1, <1>2 DEF Numbers
<1> QED BY <1>3 DEF t

\* The elements of a sequence are its first and the others.
LEMMA NumbersTaken ==
    ASSUME NEW S, NEW s \in Seq(S), s # <<>>
    PROVE  Numbers(s) = {Head(s)} \cup Numbers(Tail(s)) /\ Head(s) \in S
<1> DEFINE t == Tail(s)
<1>1. /\ Len(s) \in Nat \ {0} /\ Len(t) = Len(s) - 1 /\ \A i \in 1 .. Len(t) : t[i] = s[i + 1]
      /\ Head(s) \in S
  BY HeadTailProperties, LenProperties, EmptySeq
<1>2. Head(s) = s[1]
  OBVIOUS
<1> HIDE DEF t
<1>3. /\ 1 \in 1 .. Len(s) /\ \A i \in 1 .. Len(t) : i + 1 \in 1 .. Len(s)
      /\ \A i \in 1 .. Len(s) : i = 1 \/ (i - 1 \in 1 .. Len(t) /\ t[i - 1] = s[i])
  BY <1>1
<1>4. Numbers(s) = {Head(s)} \cup Numbers(t)
  BY <1>1, <1>2, <1>3 DEF Numbers
<1> QED BY <1>1, <1>4 DEF t

\* What a step does to a channel's listener and the SUBSCRIBE it waits for: nothing, a settle,
\* unsubscribe, or listen.
LEMMA ListenerStep ==
    ASSUME TypeOK, [Next]_vars
    PROVE  /\ subscribesSent' \in {subscribesSent, subscribesSent + 1}
           /\ \A ch \in Channels :
                \/ listener'[ch] = listener[ch] /\ subscribing'[ch] = subscribing[ch]
                \/ listener'[ch] = listener[ch] /\ subscribing'[ch] = 0
                \/ listener'[ch] = 0 /\ subscribing'[ch] = 0
                \/ /\ subscribesSent' = subscribesSent + 1
                   /\ listener'[ch] = subscribesSent' /\ subscribing'[ch] = subscribesSent'
<1> DEFINE Goal ==
             /\ subscribesSent' \in {subscribesSent, subscribesSent + 1}
             /\ \A ch \in Channels :
                  \/ listener'[ch] = listener[ch] /\ subscribing'[ch] = subscribing[ch]
                  \/ listener'[ch] = listener[ch] /\ subscribing'[ch] = 0
                  \/ listener'[ch] = 0 /\ subscribing'[ch] = 0
                  \/ /\ subscribesSent' = subscribesSent + 1
                     /\ listener'[ch] = subscribesSent' /\ subscribing'[ch] = subscribesSent'
<1> SUFFICES Goal
  OBVIOUS
<1>1. ASSUME NEW d \in Channels, Listen(d) PROVE Goal
  BY <1>1 DEF Listen, TypeOK
<1>2. ASSUME NEW d \in Channels, Unlisten(d) PROVE Goal
  BY <1>2 DEF Unlisten, TypeOK
<1>3. CASE SettleSubscribe
  <2>1. /\ subscribesSent' = subscribesSent /\ listener' = listener
        /\ subscribing' = subscribing \/ subscribing' = [subscribing EXCEPT ![Head(acks).ch] = 0]
    BY <1>3 DEF SettleSubscribe
  <2> QED BY <2>1 DEF TypeOK
<1>4. CASE UNCHANGED <<listener, subscribing, subscribesSent>>
  BY <1>4
<1>5. ASSUME NEW d \in Channels, Publish(d) PROVE Goal
  BY <1>4, <1>5 DEF Publish
<1>6. ASSUME NEW p \in rejected, ResumeRejected(p) PROVE Goal
  BY <1>4, <1>6 DEF ResumeRejected
<1>7. CASE Resume \/ ReadReply \/ RedisSubscribes \/ RedisPublishes \/ UNCHANGED vars
  BY <1>4, <1>7 DEF Resume, ReadReply, RedisSubscribes, RedisPublishes, vars, redis
<1> HIDE DEF Goal
<1> QED BY <1>1, <1>2, <1>3, <1>5, <1>6, <1>7 DEF Next

\* A command on its way was so before, or is listen's or unsubscribe's.
LEMMA CommandsStep ==
    ASSUME TypeOK, [Next]_vars, NEW c \in Numbers(commands')
    PROVE  \/ c \in Numbers(commands)
           \/ \E ch \in Channels :
                /\ c = [t |-> "SUBSCRIBE", ch |-> ch, order |-> subscribesSent']
                /\ subscribesSent' = subscribesSent + 1
           \/ \E ch \in Channels :
                c = [t |-> "UNSUBSCRIBE", ch |-> ch, order |-> 0] /\ listener'[ch] = 0
<1> DEFINE Goal ==
             \/ c \in Numbers(commands)
             \/ \E ch \in Channels :
                  /\ c = [t |-> "SUBSCRIBE", ch |-> ch, order |-> subscribesSent']
                  /\ subscribesSent' = subscribesSent + 1
             \/ \E ch \in Channels :
                  c = [t |-> "UNSUBSCRIBE", ch |-> ch, order |-> 0] /\ listener'[ch] = 0
<1> SUFFICES Goal
  OBVIOUS
<1>1. commands \in Seq(Commands) /\ commands' \in Seq(Commands)
  BY NextType DEF TypeOK
<1>2. ASSUME NEW ch \in Channels, Listen(ch) PROVE Goal
  <2> DEFINE e == [t |-> "SUBSCRIBE", ch |-> ch, order |-> subscribesSent']
  <2>1. commands' = Append(commands, e) /\ subscribesSent' = subscribesSent + 1
    BY <1>2 DEF Listen
  <2>2. e \in Commands
    BY RedisTransportAssumption, <1>2 DEF Listen, Commands, Listeners, TypeOK
  <2>3. Numbers(commands') = Numbers(commands) \cup {e}
    <3> HIDE DEF e
    <3> QED BY <1>1, <2>1, <2>2, NumbersAppended
  <2> QED BY <2>1, <2>3
<1>3. ASSUME NEW ch \in Channels, Unlisten(ch) PROVE Goal
  <2> DEFINE e == [t |-> "UNSUBSCRIBE", ch |-> ch, order |-> 0]
  <2>1. commands' = Append(commands, e) /\ listener'[ch] = 0
    BY <1>3 DEF Unlisten, TypeOK
  <2>2. e \in Commands
    BY DEF Commands
  <2>3. Numbers(commands') = Numbers(commands) \cup {e}
    <3> HIDE DEF e
    <3> QED BY <1>1, <2>1, <2>2, NumbersAppended
  <2> QED BY <2>1, <2>3
<1>4. CASE RedisSubscribes
  <2>1. commands # <<>> /\ commands' = Tail(commands)
    BY <1>4 DEF RedisSubscribes
  <2> QED BY <1>1, <2>1, NumbersTaken
<1>5. CASE commands' = commands
  BY <1>5
<1>6. ASSUME NEW d \in Channels, Publish(d) PROVE Goal
  BY <1>5, <1>6 DEF Publish
<1>7. ASSUME NEW p \in rejected, ResumeRejected(p) PROVE Goal
  BY <1>5, <1>7 DEF ResumeRejected
<1>8. CASE Resume \/ SettleSubscribe \/ ReadReply \/ RedisPublishes \/ UNCHANGED vars
  BY <1>5, <1>8 DEF Resume, SettleSubscribe, ReadReply, RedisPublishes, vars, redis
<1> HIDE DEF Goal
<1> QED BY <1>2, <1>3, <1>4, <1>6, <1>7, <1>8 DEF Next

\* A reply on its way was so before, or Redis just answered or published it.
LEMMA RepliesStep ==
    ASSUME TypeOK, [Next]_vars, NEW r \in Numbers(replies')
    PROVE  \/ r \in Numbers(replies)
           \/ /\ RedisSubscribes /\ Head(commands) \in Commands /\ Head(commands).t = "SUBSCRIBE"
              /\ \E ok \in BOOLEAN : r = Answer(Head(commands), ok)
                                     /\ (ok => Head(commands).ch \in subscribed')
           \/ /\ RedisPublishes /\ Head(sending) \in Publishes
              /\ r = [t |-> "message", ch |-> pubs[Head(sending)].ch, pub |-> Head(sending)]
<1> DEFINE Goal ==
             \/ r \in Numbers(replies)
             \/ /\ RedisSubscribes /\ Head(commands) \in Commands /\ Head(commands).t = "SUBSCRIBE"
                /\ \E ok \in BOOLEAN : r = Answer(Head(commands), ok)
                                       /\ (ok => Head(commands).ch \in subscribed')
             \/ /\ RedisPublishes /\ Head(sending) \in Publishes
                /\ r = [t |-> "message", ch |-> pubs[Head(sending)].ch, pub |-> Head(sending)]
<1> SUFFICES Goal
  OBVIOUS
<1>1. replies \in Seq(AnswersTo \cup Messages)
  BY DEF TypeOK
<1>2. CASE RedisSubscribes
  <2> DEFINE c == Head(commands)
  <2>1. c \in Commands
    BY <1>2, NumbersTaken DEF RedisSubscribes, TypeOK
  <2>2. CASE c.t = "UNSUBSCRIBE"
    BY <1>2, <2>2 DEF RedisSubscribes
  <2>3. CASE c.t # "UNSUBSCRIBE"
    <3>1. PICK ok \in BOOLEAN : /\ subscribed' = IF ok THEN subscribed \cup {c.ch} ELSE subscribed
                                /\ replies' = Append(replies, Answer(c, ok))
      BY <1>2, <2>3 DEF RedisSubscribes
    <3>2. Answer(c, ok) \in AnswersTo \cup Messages /\ c.t = "SUBSCRIBE"
      BY <2>1, <2>3 DEF Answer, AnswersTo, Commands
    <3>3. Numbers(replies') = Numbers(replies) \cup {Answer(c, ok)}
      <4> HIDE DEF c
      <4> QED BY <1>1, <3>1, <3>2, NumbersAppended
    <3> QED BY <1>2, <2>1, <3>1, <3>2, <3>3
  <2> QED BY <2>2, <2>3
<1>3. CASE RedisPublishes
  <2> DEFINE msg == [t |-> "message", ch |-> pubs[Head(sending)].ch, pub |-> Head(sending)]
  <2>1. Head(sending) \in Publishes
    BY <1>3, NumbersTaken DEF RedisPublishes, TypeOK
  <2>2. replies' = replies \/ (replies' = Append(replies, msg) /\ msg.ch \in subscribed)
    BY <1>3 DEF RedisPublishes
  <2>3. msg.ch \in subscribed => msg \in AnswersTo \cup Messages
    BY <2>1 DEF Messages, TypeOK
  <2>4. r \in Numbers(replies) \/ r = msg
    <3> HIDE DEF msg, Goal
    <3>1. CASE replies' = replies
      BY <3>1
    <3>2. CASE replies' # replies
      <4>1. replies' = Append(replies, msg) /\ msg \in AnswersTo \cup Messages
        BY <2>2, <2>3, <3>2
      <4>2. Numbers(replies') = Numbers(replies) \cup {msg}
        BY <1>1, <4>1, NumbersAppended
      <4> QED BY <4>2
    <3> QED BY <3>1, <3>2
  <2> QED BY <1>3, <2>1, <2>4
<1>4. CASE ReadReply
  <2>1. replies # <<>> /\ replies' = Tail(replies)
    BY <1>4 DEF ReadReply
  <2> QED BY <1>1, <2>1, NumbersTaken
<1>5. CASE replies' = replies
  BY <1>5
<1>6. ASSUME NEW ch \in Channels, Listen(ch) \/ Unlisten(ch) \/ Publish(ch) PROVE Goal
  BY <1>5, <1>6 DEF Listen, Unlisten, Publish
<1>7. ASSUME NEW p \in rejected, ResumeRejected(p) PROVE Goal
  BY <1>5, <1>7 DEF ResumeRejected
<1>8. CASE Resume \/ SettleSubscribe \/ UNCHANGED vars
  BY <1>5, <1>8 DEF Resume, SettleSubscribe, vars, redis
<1> HIDE DEF Goal
<1> QED BY <1>2, <1>3, <1>4, <1>6, <1>7, <1>8 DEF Next

\* An answer to settle was so before, or was just read.
LEMMA AcksStep ==
    ASSUME TypeOK, [Next]_vars, NEW r \in Numbers(acks')
    PROVE  r \in Numbers(acks) \/ (r \in Numbers(replies) /\ r.t = "answer")
<1> DEFINE Goal == r \in Numbers(acks) \/ (r \in Numbers(replies) /\ r.t = "answer")
<1> SUFFICES Goal
  OBVIOUS
<1>1. CASE ReadReply
  <2> DEFINE h == Head(replies)
  <2>1. acks' = IF h.t = "message" THEN acks ELSE Append(acks, h)
    BY <1>1 DEF ReadReply
  <2>2. h \in AnswersTo \cup Messages /\ h \in Numbers(replies)
    BY <1>1, NumbersTaken DEF ReadReply, TypeOK
  <2>3. h.t = "message" \/ (h.t = "answer" /\ h \in AnswersTo)
    BY <2>2 DEF AnswersTo, Messages
  <2> HIDE DEF h
  <2> QED BY <2>1, <2>2, <2>3, NumbersAppended DEF TypeOK
<1>2. CASE SettleSubscribe
  <2>1. acks # <<>> /\ acks' = Tail(acks)
    BY <1>2 DEF SettleSubscribe
  <2> QED BY <2>1, NumbersTaken DEF TypeOK
<1>3. CASE acks' = acks
  BY <1>3
<1>4. ASSUME NEW ch \in Channels, Listen(ch) \/ Unlisten(ch) \/ Publish(ch) PROVE Goal
  BY <1>3, <1>4 DEF Listen, Unlisten, Publish
<1>5. ASSUME NEW p \in rejected, ResumeRejected(p) PROVE Goal
  BY <1>3, <1>5 DEF ResumeRejected
<1>6. CASE Resume \/ RedisSubscribes \/ RedisPublishes \/ UNCHANGED vars
  BY <1>3, <1>6 DEF Resume, RedisSubscribes, RedisPublishes, vars, redis
<1> HIDE DEF Goal
<1> QED BY <1>1, <1>2, <1>4, <1>5, <1>6 DEF Next

\* A step calls no publish, or one: with the listener its channel has.
LEMMA PubsStep ==
    ASSUME TypeOK, [Next]_vars
    PROVE  \/ pubs' = pubs
           \/ \E ch \in Channels :
                /\ Publish(ch) /\ pubs' = Append(pubs, [ch |-> ch, audience |-> listener[ch]])
                /\ [ch |-> ch, audience |-> listener[ch]] \in Calls
                /\ Len(pubs) \in Nat /\ Len(pubs') = Len(pubs) + 1
                /\ pubs'[Len(pubs) + 1] = [ch |-> ch, audience |-> listener[ch]]
                /\ \A n \in 1 .. Len(pubs) : pubs'[n] = pubs[n]
<1>1. ASSUME NEW ch \in Channels, Publish(ch)
      PROVE  /\ pubs' = Append(pubs, [ch |-> ch, audience |-> listener[ch]])
             /\ [ch |-> ch, audience |-> listener[ch]] \in Calls
             /\ Len(pubs) \in Nat /\ Len(pubs') = Len(pubs) + 1
             /\ pubs'[Len(pubs) + 1] = [ch |-> ch, audience |-> listener[ch]]
             /\ \A n \in 1 .. Len(pubs) : pubs'[n] = pubs[n]
  <2> DEFINE call == [ch |-> ch, audience |-> listener[ch]]
  <2>1. pubs' = Append(pubs, call) /\ call \in Calls /\ pubs \in Seq(Calls)
    BY <1>1 DEF Publish, Calls, TypeOK
  <2> HIDE DEF call
  <2>2. /\ Len(pubs) \in Nat /\ Len(pubs') = Len(pubs) + 1 /\ pubs'[Len(pubs) + 1] = call
        /\ \A n \in 1 .. Len(pubs) : pubs'[n] = pubs[n]
    BY <2>1, AppendProperties, LenProperties
  <2> QED BY <2>1, <2>2 DEF call
<1>2. ASSUME NEW ch \in Channels, Listen(ch) \/ Unlisten(ch) PROVE pubs' = pubs
  BY <1>2 DEF Listen, Unlisten
<1>3. ASSUME NEW p \in rejected, ResumeRejected(p) PROVE pubs' = pubs
  BY <1>3 DEF ResumeRejected
<1>4. Resume \/ SettleSubscribe \/ ReadReply \/ RedisSubscribes \/ RedisPublishes \/ UNCHANGED vars
      => pubs' = pubs
  BY DEF Resume, SettleSubscribe, ReadReply, RedisSubscribes, RedisPublishes, vars, redis
<1> QED BY <1>1, <1>2, <1>3, <1>4 DEF Next

-----------------------------------------------------------------------------
(* The parts of the invariant, one at a time *)

\* Redis keeps the channel of a listener that is still there.
LEMMA HasKept ==
    ASSUME TypeOK, [Next]_vars, NEW ch \in Channels, Has(ch), listener'[ch] # 0
    PROVE  Has(ch)'
<1>1. \A c \in Numbers(commands') : ~(c.t = "UNSUBSCRIBE" /\ c.ch = ch)
  BY CommandsStep DEF Has
<1>2. ch \in subscribed'
  <2>1. CASE RedisSubscribes
    <3>1. Head(commands) \in Numbers(commands)
      BY <2>1, NumbersTaken DEF RedisSubscribes, TypeOK
    <3>2. ~(Head(commands).t = "UNSUBSCRIBE" /\ Head(commands).ch = ch)
      BY <3>1 DEF Has
    <3> QED BY <2>1, <3>2 DEF RedisSubscribes, Has
  <2>2. ASSUME NEW d \in Channels, Listen(d) \/ Unlisten(d) \/ Publish(d)
        PROVE  subscribed' = subscribed
    BY <2>2 DEF Listen, Unlisten, Publish
  <2>3. ASSUME NEW p \in rejected, ResumeRejected(p) PROVE subscribed' = subscribed
    BY <2>3 DEF ResumeRejected
  <2>4. Resume \/ SettleSubscribe \/ ReadReply \/ RedisPublishes \/ UNCHANGED vars
        => subscribed' = subscribed
    BY DEF Resume, SettleSubscribe, ReadReply, RedisPublishes, vars, redis
  <2> QED BY <2>1, <2>2, <2>3, <2>4 DEF Next, Has
<1> QED BY <1>1, <1>2 DEF Has

\* A listener that is there after a step was there before: a new one has a number of its own.
LEMMA HearsKept ==
    ASSUME TypeOK, Numbered, [Next]_vars, NEW n \in 1 .. Len(pubs), Hears(n)'
    PROVE  /\ Hears(n) /\ pubs'[n] = pubs[n]
           /\ pubs[n].ch \in Channels /\ listener'[pubs[n].ch] = listener[pubs[n].ch]
<1>1. pubs[n] \in Calls
  BY ElementOfSeq DEF TypeOK
<1>2. pubs'[n] = pubs[n]
  BY PubsStep
<1>3. /\ pubs[n].audience \in Nat \ {0} /\ pubs[n].audience <= subscribesSent
      /\ pubs[n].ch \in Channels
  BY <1>1, <1>2 DEF Hears, Calls, Numbered
<1>4. listener'[pubs[n].ch] = pubs[n].audience
  BY <1>2 DEF Hears
<1>5. listener'[pubs[n].ch] = listener[pubs[n].ch]
  BY <1>3, <1>4, ListenerStep, SMTT(180) DEF TypeOK
<1> QED BY <1>2, <1>3, <1>4, <1>5 DEF Hears

\* Every step keeps the numbering of the SUBSCRIBEs.
LEMMA NumberedStep ==
    ASSUME TypeOK, Numbered, [Next]_vars
    PROVE  Numbered'
<1> USE RedisTransportAssumption
<1>1. /\ subscribesSent \in Nat /\ subscribesSent' \in Nat /\ subscribesSent <= subscribesSent'
      /\ listener \in [Channels -> Nat]
  BY ListenerStep, SMTT(180) DEF TypeOK
<1>2. ASSUME NEW ch \in Channels
      PROVE  listener'[ch] <= subscribesSent' /\ subscribing'[ch] \in {0, listener'[ch]}
  BY <1>1, ListenerStep DEF Numbered
<1>3. ASSUME NEW i \in 1 .. Len(pubs') PROVE pubs'[i].audience <= subscribesSent'
  <2>1. \A j \in 1 .. Len(pubs) : pubs[j] \in Calls
    BY ElementOfSeq DEF TypeOK
  <2>2. CASE pubs' = pubs
    BY <1>1, <2>1, <2>2 DEF Numbered, Calls
  <2>3. CASE pubs' # pubs
    <3>1. PICK ch \in Channels :
            /\ Len(pubs) \in Nat /\ Len(pubs') = Len(pubs) + 1
            /\ pubs'[Len(pubs) + 1] = [ch |-> ch, audience |-> listener[ch]]
            /\ \A n \in 1 .. Len(pubs) : pubs'[n] = pubs[n]
      BY <2>3, PubsStep
    <3>2. CASE i = Len(pubs) + 1
      BY <1>1, <3>1, <3>2 DEF Numbered
    <3>3. CASE i # Len(pubs) + 1
      BY <1>1, <2>1, <3>1, <3>3, SMTT(180) DEF Numbered, Calls
    <3> QED BY <3>2, <3>3
  <2> QED BY <2>2, <2>3
<1>4. Numbers(commands) \subseteq Commands /\ Numbers(replies) \subseteq AnswersTo \cup Messages
      /\ Numbers(acks) \subseteq AnswersTo
  BY NumbersIn DEF TypeOK
<1>5. ASSUME NEW c \in Numbers(commands') PROVE c.order <= subscribesSent'
  <2>1. CASE c \in Numbers(commands)
    <3>1. c.order \in Nat /\ c.order <= subscribesSent
      BY <1>4, <2>1 DEF Commands, Listeners, Numbered
    <3> QED BY <1>1, <3>1
  <2>2. CASE c \notin Numbers(commands)
    <3>1. c.order \in {0, subscribesSent'}
      BY <2>2, CommandsStep
    <3> QED BY <1>1, <3>1
  <2> QED BY <2>1, <2>2
<1>6. ASSUME NEW r \in Numbers(replies'), r.t = "answer" PROVE r.order <= subscribesSent'
  <2>1. CASE r \in Numbers(replies)
    <3>1. r.order \in Nat /\ r.order <= subscribesSent
      BY <1>4, <1>6, <2>1 DEF AnswersTo, Messages, Listeners, Numbered
    <3> QED BY <1>1, <3>1
  <2>2. CASE r \notin Numbers(replies)
    <3>1. PICK ok \in BOOLEAN : /\ r = Answer(Head(commands), ok) /\ RedisSubscribes
                                /\ Head(commands) \in Commands
                                /\ Head(commands).t = "SUBSCRIBE"
      BY <1>6, <2>2, RepliesStep
    <3>2. r.order = Head(commands).order
      BY <3>1 DEF Answer
    <3>3. Head(commands) \in Numbers(commands)
      BY <3>1, NumbersTaken DEF RedisSubscribes, TypeOK
    <3>4. r.order \in Nat /\ r.order <= subscribesSent
      BY <3>1, <3>2, <3>3 DEF Numbered, Commands, Listeners
    <3> QED BY <1>1, <3>4
  <2> QED BY <2>1, <2>2
<1>7. ASSUME NEW r \in Numbers(acks') PROVE r.order <= subscribesSent'
  <2>1. r.order \in Nat /\ r.order <= subscribesSent
    BY <1>4, AcksStep DEF AnswersTo, Messages, Listeners, Numbered
  <2> QED BY <1>1, <2>1
<1> QED BY <1>2, <1>3, <1>5, <1>6, <1>7 DEF Numbered

\* Every step keeps a listener's SUBSCRIBE behind its channel's UNSUBSCRIBEs.
LEMMA SubscribedLastStep ==
    ASSUME TypeOK, Numbered, SubscribedLast, [Next]_vars
    PROVE  SubscribedLast'
<1> DEFINE Bad(i, j) ==
             /\ commands'[i].t = "SUBSCRIBE" /\ commands'[i].order = listener'[commands'[i].ch]
             /\ commands'[j].t = "UNSUBSCRIBE" /\ commands'[j].ch = commands'[i].ch
<1> SUFFICES ASSUME NEW i \in 1 .. Len(commands'), NEW j \in 1 .. Len(commands'), i < j, Bad(i, j)
             PROVE  FALSE
  BY DEF SubscribedLast
<1>1. Len(commands) \in Nat /\ \A k \in 1 .. Len(commands) : commands[k] \in Commands
  BY LenProperties, ElementOfSeq DEF TypeOK
<1>2. \A k \in 1 .. Len(commands) : commands[k].t = "SUBSCRIBE" =>
        /\ commands[k].ch \in Channels /\ commands[k].order \in Nat \ {0}
        /\ commands[k].order <= subscribesSent
  <2>1. \A k \in 1 .. Len(commands) : commands[k] \in Numbers(commands)
    BY DEF Numbers
  <2> QED BY <1>1, <2>1 DEF Numbered, Commands, Listeners
<1>3. subscribesSent \in Nat
  BY RedisTransportAssumption DEF TypeOK
<1>4. ASSUME NEW k \in 1 .. Len(commands), commands[k].t = "SUBSCRIBE",
             commands[k].order = listener'[commands[k].ch]
      PROVE  commands[k].order = listener[commands[k].ch]
  BY <1>2, <1>3, <1>4, ListenerStep
<1>5. ASSUME NEW k \in 1 .. Len(commands), NEW l \in 1 .. Len(commands), k < l,
             commands[k] = commands'[i], commands[l] = commands'[j]
      PROVE  FALSE
  <2>1. commands[k].order = listener[commands[k].ch]
    BY <1>4, <1>5
  <2> QED BY <1>5, <2>1 DEF SubscribedLast
<1>6. ASSUME NEW ch \in Channels, Listen(ch) PROVE FALSE
  <2> DEFINE e == [t |-> "SUBSCRIBE", ch |-> ch, order |-> subscribesSent']
  <2>1. commands' = Append(commands, e) /\ e \in Commands
    BY RedisTransportAssumption, <1>6 DEF Listen, Commands, Listeners, TypeOK
  <2>2. e.t = "SUBSCRIBE"
    OBVIOUS
  <2> HIDE DEF e
  <2>3. /\ Len(commands') = Len(commands) + 1 /\ commands'[Len(commands) + 1] = e
        /\ \A k \in 1 .. Len(commands) : commands'[k] = commands[k]
    BY <2>1, AppendProperties DEF TypeOK
  <2>4. j # Len(commands) + 1
    BY <2>2, <2>3
  <2>5. i \in 1 .. Len(commands) /\ j \in 1 .. Len(commands)
    BY <1>1, <2>3, <2>4
  <2> QED BY <1>5, <2>3, <2>5
<1>7. ASSUME NEW ch \in Channels, Unlisten(ch) PROVE FALSE
  <2> DEFINE e == [t |-> "UNSUBSCRIBE", ch |-> ch, order |-> 0]
  <2>1. commands' = Append(commands, e) /\ e \in Commands /\ listener'[ch] = 0
    BY <1>7 DEF Unlisten, Commands, TypeOK
  <2>2. e.t = "UNSUBSCRIBE" /\ e.ch = ch
    OBVIOUS
  <2> HIDE DEF e
  <2>3. /\ Len(commands') = Len(commands) + 1 /\ commands'[Len(commands) + 1] = e
        /\ \A k \in 1 .. Len(commands) : commands'[k] = commands[k]
    BY <2>1, AppendProperties DEF TypeOK
  <2>4. i \in 1 .. Len(commands)
    BY <1>1, <2>3
  <2>5. CASE j = Len(commands) + 1
    <3>1. commands[i].ch = ch /\ commands[i].order = 0 /\ commands[i].t = "SUBSCRIBE"
      BY <2>1, <2>2, <2>3, <2>4, <2>5
    <3> QED BY <1>2, <2>4, <3>1
  <2>6. CASE j # Len(commands) + 1
    <3>1. j \in 1 .. Len(commands)
      BY <1>1, <2>3, <2>6
    <3> QED BY <1>5, <2>3, <2>4, <3>1
  <2> QED BY <2>5, <2>6
<1>8. CASE RedisSubscribes
  <2>1. commands # <<>> /\ commands' = Tail(commands)
    BY <1>8 DEF RedisSubscribes
  <2>2. /\ Len(commands') = Len(commands) - 1
        /\ \A k \in 1 .. Len(commands') : commands'[k] = commands[k + 1]
    BY <2>1, HeadTailProperties DEF TypeOK
  <2>3. i + 1 \in 1 .. Len(commands) /\ j + 1 \in 1 .. Len(commands) /\ i + 1 < j + 1
    BY <1>1, <2>2
  <2> QED BY <1>5, <2>2, <2>3
<1>9. CASE commands' = commands
  BY <1>5, <1>9
<1>10. ASSUME NEW ch \in Channels, Publish(ch) PROVE FALSE
  BY <1>9, <1>10 DEF Publish
<1>11. ASSUME NEW p \in rejected, ResumeRejected(p) PROVE FALSE
  BY <1>9, <1>11 DEF ResumeRejected
<1>12. CASE Resume \/ SettleSubscribe \/ ReadReply \/ RedisPublishes \/ UNCHANGED vars
  BY <1>9, <1>12 DEF Resume, SettleSubscribe, ReadReply, RedisPublishes, vars, redis
<1> QED BY <1>6, <1>7, <1>8, <1>10, <1>11, <1>12 DEF Next

\* An answer that is right stays right.
LEMMA RightKept ==
    ASSUME TypeOK, [Next]_vars, NEW r \in AnswersTo, r.order <= subscribesSent, IsRight(r)
    PROVE  IsRight(r)'
<1> SUFFICES ASSUME r.order = listener'[r.ch], r.ok
             PROVE  Has(r.ch)'
  BY DEF IsRight
<1>1. r.order \in Nat \ {0} /\ r.ch \in Channels /\ subscribesSent \in Nat
  BY RedisTransportAssumption, SMTT(180) DEF AnswersTo, Listeners, TypeOK
<1>2. listener[r.ch] = r.order
  BY <1>1, ListenerStep
<1>3. Has(r.ch)
  BY <1>2 DEF IsRight
<1> QED BY <1>1, <1>3, HasKept

\* Every answer is right: Redis serves the commands in their order.
LEMMA AnswersStep ==
    ASSUME TypeOK, Numbered, SubscribedLast, AnswersAreRight, [Next]_vars
    PROVE  AnswersAreRight'
<1>1. Numbers(replies) \subseteq AnswersTo \cup Messages /\ Numbers(acks) \subseteq AnswersTo
  BY NumbersIn DEF TypeOK
<1>2. ASSUME NEW r \in Numbers(replies), r.t = "answer" PROVE IsRight(r)'
  <2>1. r \in AnswersTo /\ r.order <= subscribesSent /\ IsRight(r)
    BY <1>1, <1>2 DEF Messages, Numbered, AnswersAreRight
  <2> QED BY <2>1, RightKept
<1>3. ASSUME NEW r \in Numbers(acks) PROVE IsRight(r)'
  <2>1. r \in AnswersTo /\ r.order <= subscribesSent /\ IsRight(r)
    BY <1>1 DEF Numbered, AnswersAreRight
  <2> QED BY <2>1, RightKept
<1>4. ASSUME NEW r \in Numbers(replies'), r.t = "answer", r \notin Numbers(replies)
      PROVE  IsRight(r)'
  <2> DEFINE c == Head(commands)
  <2>1. PICK ok \in BOOLEAN : /\ r = Answer(c, ok) /\ (ok => c.ch \in subscribed')
                              /\ RedisSubscribes /\ c \in Commands /\ c.t = "SUBSCRIBE"
    BY <1>4, RepliesStep
  <2>2. commands # <<>> /\ commands' = Tail(commands) /\ listener' = listener
    BY <2>1 DEF RedisSubscribes
  <2>3. r.ch = c.ch /\ r.order = c.order /\ r.ok = ok /\ c = commands[1]
    BY <2>1, <2>2 DEF Answer
  <2>4. ASSUME r.order = listener'[r.ch], r.ok PROVE Has(r.ch)'
    <3>1. /\ Len(commands) \in Nat \ {0} /\ Len(commands') = Len(commands) - 1
          /\ \A k \in 1 .. Len(commands') : commands'[k] = commands[k + 1]
      BY <2>2, HeadTailProperties, LenProperties, EmptySeq DEF TypeOK
    <3>2. ASSUME NEW k \in 1 .. Len(commands')
          PROVE  ~(commands'[k].t = "UNSUBSCRIBE" /\ commands'[k].ch = r.ch)
      <4>1. 1 \in 1 .. Len(commands) /\ k + 1 \in 1 .. Len(commands) /\ 1 < k + 1
        BY <3>1
      <4>2. /\ commands[1].t = "SUBSCRIBE" /\ commands[1].ch = r.ch
            /\ commands[1].order = listener[commands[1].ch]
        BY <2>1, <2>2, <2>3, <2>4
      <4>3. ~(commands[k + 1].t = "UNSUBSCRIBE" /\ commands[k + 1].ch = commands[1].ch)
        BY <4>1, <4>2 DEF SubscribedLast
      <4> QED BY <3>1, <4>2, <4>3
    <3>3. \A x \in Numbers(commands') : ~(x.t = "UNSUBSCRIBE" /\ x.ch = r.ch)
      BY <3>2 DEF Numbers
    <3> QED BY <2>1, <2>3, <2>4, <3>3 DEF Has
  <2> QED BY <2>4 DEF IsRight
<1>5. \A r \in Numbers(replies') : r.t = "answer" => IsRight(r)'
  BY <1>2, <1>4
<1>6. \A r \in Numbers(acks') : IsRight(r)'
  BY <1>2, <1>3, AcksStep
<1> QED BY <1>5, <1>6 DEF AnswersAreRight

\* Redis has the channel of every acknowledged listener (settleSubscribe).
LEMMA ActiveStep ==
    ASSUME TypeOK, Numbered, AnswersAreRight, ActiveHas, [Next]_vars
    PROVE  ActiveHas'
<1> SUFFICES ASSUME NEW ch \in Channels, Active(ch)'
             PROVE  Has(ch)'
  BY DEF ActiveHas
<1>1. listener'[ch] # 0 /\ subscribing'[ch] = 0 /\ ch \notin failed'
  BY DEF Active
<1>2. Active(ch) => Has(ch)'
  BY <1>1, HasKept DEF ActiveHas
<1>3. ASSUME NEW d \in Channels, Listen(d) PROVE Active(ch)
  <2>1. /\ listener' = [listener EXCEPT ![d] = subscribesSent + 1]
        /\ subscribing' = [subscribing EXCEPT ![d] = subscribesSent + 1] /\ failed' = failed
        /\ subscribesSent \in Nat
    BY RedisTransportAssumption, <1>3 DEF Listen, TypeOK
  <2> QED BY <1>1, <2>1 DEF Active, TypeOK
<1>4. ASSUME NEW d \in Channels, Unlisten(d) PROVE Active(ch)
  <2>1. /\ listener' = [listener EXCEPT ![d] = 0] /\ subscribing' = [subscribing EXCEPT ![d] = 0]
        /\ failed' = failed \ {d}
    BY <1>4 DEF Unlisten
  <2> QED BY <1>1, <2>1 DEF Active, TypeOK
<1>5. CASE SettleSubscribe
  <2> DEFINE ack == Head(acks)
  <2>1. ack \in Numbers(acks) /\ ack \in AnswersTo
    BY <1>5, NumbersTaken DEF SettleSubscribe, TypeOK
  <2>2. listener' = listener
    BY <1>5 DEF SettleSubscribe
  <2>3. CASE Current(ack) /\ ack.ch = ch
    <3>1. failed' = IF ack.ok THEN failed ELSE failed \cup {ack.ch}
      BY <1>5, <2>3 DEF SettleSubscribe
    <3>2. ack.ok
      BY <1>1, <2>3, <3>1
    <3>3. ack.order = listener[ch]
      BY <2>1, <2>3 DEF Current, Numbered, AnswersTo, Listeners
    <3>4. Has(ch)
      BY <2>1, <2>3, <3>2, <3>3 DEF AnswersAreRight, IsRight
    <3> QED BY <1>1, <3>4, HasKept
  <2>4. CASE Current(ack) /\ ack.ch # ch
    <3>1. /\ subscribing' = [subscribing EXCEPT ![ack.ch] = 0]
          /\ failed' = IF ack.ok THEN failed ELSE failed \cup {ack.ch}
      BY <1>5, <2>4 DEF SettleSubscribe
    <3>2. Active(ch)
      BY <1>1, <2>2, <2>4, <3>1 DEF Active, TypeOK
    <3> QED BY <1>2, <3>2
  <2>5. CASE ~Current(ack)
    <3>1. subscribing' = subscribing /\ failed' = failed
      BY <1>5, <2>5 DEF SettleSubscribe
    <3> QED BY <1>1, <1>2, <2>2, <3>1 DEF Active
  <2> QED BY <2>3, <2>4, <2>5
<1>6. UNCHANGED <<listener, subscribing, failed>> => Active(ch)
  BY <1>1 DEF Active
<1>7. ASSUME NEW d \in Channels, Publish(d) PROVE Active(ch)
  BY <1>6, <1>7 DEF Publish
<1>8. ASSUME NEW p \in rejected, ResumeRejected(p) PROVE Active(ch)
  BY <1>6, <1>8 DEF ResumeRejected
<1>9. Resume \/ ReadReply \/ RedisSubscribes \/ RedisPublishes \/ UNCHANGED vars => Active(ch)
  BY <1>6 DEF Resume, ReadReply, RedisSubscribes, RedisPublishes, vars, redis
<1> QED BY <1>2, <1>3, <1>4, <1>5, <1>7, <1>8, <1>9 DEF Next

-----------------------------------------------------------------------------
(* Publishes that wait, go on and are sent *)

\* A publish that was sent or goes on will still be heard.
LEMMA SentKept ==
    ASSUME OrderInv, Numbered, SentAreHeard, [Next]_vars, NEW n \in Sending \cup Going, Hears(n)'
    PROVE  Has(pubs[n].ch)'
<1>1. n \in 1 .. Len(pubs)
  BY QueuedTypes, LenProperties DEF OrderInv, Called, TypeOK, Publishes
<1>2. /\ Hears(n) /\ pubs'[n] = pubs[n] /\ pubs[n].ch \in Channels
      /\ listener'[pubs[n].ch] = listener[pubs[n].ch]
  BY <1>1, HearsKept DEF OrderInv
<1>3. Has(pubs[n].ch) /\ listener'[pubs[n].ch] # 0
  BY <1>2 DEF SentAreHeard, Hears
<1>4. \A ch \in Channels : Has(ch) /\ listener'[ch] # 0 => Has(ch)'
  BY HasKept DEF OrderInv
<1>5. ASSUME NEW ch \in Channels, ch = pubs[n].ch PROVE Has(pubs[n].ch)'
  BY <1>2, <1>3, <1>4, <1>5 DEF Has
<1> QED BY <1>2, <1>5

\* A publish that waits, and is not failed by the step, will still be heard.
LEMMA WillKept ==
    ASSUME OrderInv, Numbered, WaitersHear, [Next]_vars, NEW w \in Numbers(waiters),
           \A ch \in failed' \ failed : subscribing[ch] # 0 /\ w.upTo < subscribing[ch]
    PROVE  WillBeHeard(w)' /\ w.upTo <= subscribesSent' /\ w.pub \in 1 .. Len(pubs)
<1>1. w \in Waits /\ w.pub \in Waiting
  BY NumbersIn DEF OrderInv, TypeOK, Numbers, Waiting, Pubs
<1>2. w.pub \in 1 .. Len(pubs)
  BY <1>1, QueuedTypes, LenProperties, SMTT(180) DEF OrderInv, Called, TypeOK, Publishes
<1>3. w.upTo <= subscribesSent'
  <2>1. w.upTo \in Nat /\ w.upTo <= subscribesSent /\ subscribesSent \in Nat
    BY <1>1, RedisTransportAssumption DEF WaitersHear, Waits, OrderInv, TypeOK
  <2>2. subscribesSent' \in {subscribesSent, subscribesSent + 1}
    BY ListenerStep DEF OrderInv
  <2> QED BY <2>1, <2>2
<1>4. ASSUME Hears(w.pub)'
      PROVE  pubs'[w.pub].ch \notin failed' /\ pubs'[w.pub].audience <= w.upTo
  <2> DEFINE n == w.pub
             ch == pubs[n].ch
  <2>1. Hears(n) /\ pubs'[n] = pubs[n] /\ ch \in Channels
    BY <1>2, <1>4, HearsKept DEF OrderInv
  <2>2. ch \notin failed /\ pubs[n].audience <= w.upTo
    BY <2>1 DEF WaitersHear, WillBeHeard
  <2>3. ASSUME ch \in failed' PROVE FALSE
    <3>1. subscribing[ch] # 0 /\ w.upTo < subscribing[ch]
      BY <2>2, <2>3
    <3>2. subscribing[ch] = pubs[n].audience
      BY <2>1, <3>1 DEF Numbered, Hears
    <3>3. pubs[n].audience \in Nat /\ w.upTo \in Nat
      <4>1. pubs[n] \in Calls
        BY <1>2, ElementOfSeq DEF OrderInv, TypeOK
      <4> QED BY <1>1, <4>1 DEF Calls, Waits
    <3> QED BY <2>2, <3>1, <3>2, <3>3
  <2> QED BY <2>1, <2>2, <2>3
<1> QED BY <1>2, <1>3, <1>4 DEF WillBeHeard

\* A publish cleared now whose listener is there and whose SUBSCRIBE has not failed.
LEMMA ClearedHas ==
    ASSUME TypeOK', Numbered', ActiveHas', NEW w \in Waits, w.pub \in 1 .. Len(pubs'),
           Cleared(w.upTo, subscribing'), WillBeHeard(w)', Hears(w.pub)'
    PROVE  Has(pubs[w.pub].ch)'
<1> DEFINE ch == pubs'[w.pub].ch
<1>1. pubs'[w.pub] \in Calls
  BY ElementOfSeq DEF TypeOK
<1>2. /\ ch \in Channels /\ ch \notin failed' /\ listener'[ch] # 0
      /\ listener'[ch] <= w.upTo /\ listener'[ch] \in Nat /\ w.upTo \in Nat
  BY <1>1 DEF Hears, WillBeHeard, Calls, Waits
<1>3. subscribing'[ch] = 0
  BY <1>2 DEF Numbered, Cleared
<1> QED BY <1>2, <1>3 DEF ActiveHas, Active

\* What releaseWaiters wakes will be heard, and so will what still waits.
LEMMA WokenHear ==
    ASSUME OrderInv, SentAreHeard, Numbered, [Next]_vars, TypeOK', Numbered', ActiveHas',
           NEW ws \in Seq(Waits), NEW last \in 0 .. Len(ws), Wake(ws, last, subscribing'),
           sending' = sending,
           \A i, j \in 1 .. Len(ws) : i < j => ws[i].upTo <= ws[j].upTo,
           \A w \in {ws[i] : i \in 1 .. last} :
             WillBeHeard(w)' /\ w.upTo <= subscribesSent' /\ w.pub \in 1 .. Len(pubs')
    PROVE  WaitersHear' /\ SentAreHeard'
<1>1. PICK k \in 0 .. last :
        /\ Len(waiters') = last - k /\ \A i \in 1 .. last - k : waiters'[i] = ws[k + i]
        /\ Len(resuming') = Len(resuming) + k
        /\ \A i \in 1 .. Len(resuming) : resuming'[i] = resuming[i]
        /\ \A i \in 1 .. k : resuming'[Len(resuming) + i] = ws[i]
        /\ \A i \in 1 .. k : Cleared(ws[i].upTo, subscribing')
  BY WokenParts DEF OrderInv
<1>2. Len(ws) \in Nat /\ Len(resuming) \in Nat /\ k \in Nat /\ last \in Nat /\ last <= Len(ws)
  BY LenProperties DEF OrderInv, TypeOK
<1>3. \A i \in 1 .. last - k : k + i \in 1 .. last /\ k + i \in 1 .. Len(ws)
  BY <1>2
<1>4. WaitersHear'
  <2>1. ASSUME NEW i \in 1 .. last - k, NEW j \in 1 .. last - k, i < j
        PROVE  waiters'[i].upTo <= waiters'[j].upTo
    <3>1. k + i < k + j
      BY <1>2, <2>1
    <3> QED BY <1>1, <1>3, <3>1
  <2>2. ASSUME NEW w \in Numbers(waiters')
        PROVE  w.upTo <= subscribesSent' /\ WillBeHeard(w)'
    <3>1. w \in {ws[i] : i \in 1 .. last}
      BY <1>1, <1>3, ZenonT(180) DEF Numbers
    <3> QED BY <3>1
  <2> QED BY <1>1, <2>1, <2>2 DEF WaitersHear
<1>5. ASSUME NEW n \in Going', Hears(n)' PROVE Has(pubs[n].ch)'
  <2>1. PICK i \in 1 .. Len(resuming') : n = resuming'[i].pub
    BY DEF Going, Pubs
  <2>2. CASE i \in 1 .. Len(resuming)
    <3>1. n \in Going
      BY <1>1, <2>1, <2>2 DEF Going, Pubs
    <3> QED BY <1>5, <3>1, SentKept
  <2>3. CASE i \notin 1 .. Len(resuming)
    <3>1. i - Len(resuming) \in 1 .. k
      BY <1>1, <1>2, <2>3
    <3>2. PICK j \in 1 .. k : n = ws[j].pub /\ Cleared(ws[j].upTo, subscribing')
      <4>1. resuming'[Len(resuming) + (i - Len(resuming))] = ws[i - Len(resuming)]
        BY <1>1, <3>1
      <4>2. Len(resuming) + (i - Len(resuming)) = i
        BY <1>2
      <4> QED BY <1>1, <2>1, <3>1, <4>1, <4>2
    <3>3. j \in 1 .. last /\ j \in 1 .. Len(ws)
      BY <1>2
    <3>4. PICK w \in {ws[x] : x \in 1 .. last} : w = ws[j]
      BY <3>3
    <3>5. w \in Waits
      BY <3>3, <3>4, ElementOfSeq
    <3> QED BY <1>5, <3>2, <3>4, <3>5, ClearedHas
  <2> QED BY <2>2, <2>3
<1>6. ASSUME NEW n \in Sending', Hears(n)' PROVE Has(pubs[n].ch)'
  BY <1>6, SentKept DEF Sending
<1> QED BY <1>4, <1>5, <1>6 DEF SentAreHeard

\* unsubscribe wakes only what will be heard.
LEMMA UnlistenHear ==
    ASSUME HearInv, [Next]_vars, TypeOK', Numbered', ActiveHas', NEW ch \in Channels, Unlisten(ch)
    PROVE  WaitersHear' /\ SentAreHeard'
<1>1. /\ Wake(waiters, Len(waiters), subscribing') /\ sending' = sending /\ pubs' = pubs
      /\ failed' = failed \ {ch}
  BY DEF Unlisten
<1>2. waiters \in Seq(Waits) /\ Len(waiters) \in 0 .. Len(waiters)
  BY LenProperties DEF HearInv, OrderInv, TypeOK
<1>3. \A w \in {waiters[i] : i \in 1 .. Len(waiters)} :
        WillBeHeard(w)' /\ w.upTo <= subscribesSent' /\ w.pub \in 1 .. Len(pubs')
  BY <1>1, WillKept DEF HearInv, Numbers
<1> QED BY <1>1, <1>2, <1>3, WokenHear DEF HearInv, WaitersHear

\* settleSubscribe wakes only what will be heard: a failed SUBSCRIBE fails what waits for it.
LEMMA SettleHear ==
    ASSUME HearInv, [Next]_vars, TypeOK', Numbered', ActiveHas', SettleSubscribe
    PROVE  WaitersHear' /\ SentAreHeard'
<1> DEFINE ack == Head(acks)
<1>1. waiters \in Seq(Waits) /\ Len(waiters) \in Nat /\ ack \in AnswersTo
  BY LenProperties, NumbersTaken DEF HearInv, OrderInv, TypeOK, SettleSubscribe
<1>2. sending' = sending /\ pubs' = pubs
  BY DEF SettleSubscribe
<1>3. CASE Current(ack)
  <2>1. PICK last \in 0 .. Len(waiters) :
          /\ IF ack.ok THEN last = Len(waiters) ELSE Rejects(ack.order, last)
          /\ Wake(waiters, last, subscribing')
    BY <1>3 DEF SettleSubscribe
  <2>2. failed' = IF ack.ok THEN failed ELSE failed \cup {ack.ch}
    BY <1>3 DEF SettleSubscribe
  <2>3. ack.order # 0 /\ subscribing[ack.ch] = ack.order
    BY <1>1, <1>3 DEF Current, AnswersTo, Listeners
  <2> HIDE DEF ack
  <2>4. ASSUME NEW i \in 1 .. last, ~ack.ok PROVE waiters[i].upTo < ack.order
    <3>1. i \in 1 .. Len(waiters) /\ last \in 1 .. Len(waiters) /\ last > 0 /\ i <= last
      BY <1>1
    <3>2. waiters[last].upTo < ack.order
      BY <2>1, <2>4, <3>1 DEF Rejects
    <3>3. i = last \/ waiters[i].upTo <= waiters[last].upTo
      BY <3>1 DEF HearInv, WaitersHear
    <3>4. waiters[i] \in Waits /\ waiters[last] \in Waits
      BY <1>1, <3>1, ElementOfSeq
    <3>5. waiters[i].upTo \in Nat /\ waiters[last].upTo \in Nat /\ ack.order \in Nat
      BY <1>1, <3>4 DEF Waits, AnswersTo, Listeners
    <3> QED BY <3>2, <3>3, <3>5
  <2>5. ASSUME NEW i \in 1 .. last
        PROVE  \A ch \in failed' \ failed :
                 subscribing[ch] # 0 /\ waiters[i].upTo < subscribing[ch]
    BY <2>2, <2>3, <2>4
  <2>6. \A w \in {waiters[i] : i \in 1 .. last} :
          /\ w \in Numbers(waiters)
          /\ \A ch \in failed' \ failed : subscribing[ch] # 0 /\ w.upTo < subscribing[ch]
    <3>1. \A i \in 1 .. last : i \in 1 .. Len(waiters)
      BY <1>1
    <3> QED BY <2>5, <3>1 DEF Numbers
  <2>7. \A w \in {waiters[i] : i \in 1 .. last} :
          WillBeHeard(w)' /\ w.upTo <= subscribesSent' /\ w.pub \in 1 .. Len(pubs')
    BY <1>2, <2>6, WillKept DEF HearInv
  <2> QED BY <1>1, <1>2, <2>1, <2>7, WokenHear DEF HearInv, WaitersHear
<1>4. CASE ~Current(ack)
  <2>1. UNCHANGED <<waiters, resuming, failed>>
    BY <1>4 DEF SettleSubscribe
  <2>2. \A w \in Numbers(waiters) : WillBeHeard(w)' /\ w.upTo <= subscribesSent'
    BY <2>1, WillKept DEF HearInv
  <2>3. \A n \in Sending \cup Going : Hears(n)' => Has(pubs[n].ch)'
    BY SentKept DEF HearInv
  <2> QED BY <1>2, <2>1, <2>2, <2>3 DEF HearInv, WaitersHear, SentAreHeard, Sending, Going
<1> QED BY <1>3, <1>4

\* publish sends at once only what will be heard.
LEMMA PublishHear ==
    ASSUME HearInv, [Next]_vars, TypeOK', Numbered', ActiveHas', NEW ch \in Channels, Publish(ch)
    PROVE  WaitersHear' /\ SentAreHeard'
<1>p. PICK p : p = Len(pubs) + 1
  OBVIOUS
<1>w. PICK w : w = [pub |-> p, upTo |-> subscribesSent]
  OBVIOUS
<1> DEFINE ws == Append(waiters, w)
<1> USE <1>p
<1>1. /\ UNCHANGED <<listener, subscribing, subscribesSent, failed>>
      /\ waiters \in Seq(Waits) /\ Len(waiters) \in Nat /\ Len(pubs) \in Nat
  BY LenProperties DEF Publish, HearInv, OrderInv, TypeOK
<1>2. Len(pubs') = p /\ pubs'[p] = [ch |-> ch, audience |-> listener[ch]] /\ p \in Publishes
  <2> DEFINE call == [ch |-> ch, audience |-> listener[ch]]
  <2>1. call \in Calls /\ pubs' = Append(pubs, call) /\ pubs \in Seq(Calls) /\ p <= MaxPublishes
    BY DEF Calls, HearInv, OrderInv, TypeOK, Publish
  <2> HIDE DEF call
  <2>2. Len(pubs') = p /\ pubs'[p] = call
    BY <2>1, AppendProperties
  <2>3. p \in Publishes
    BY <1>1, <2>1, RedisTransportAssumption DEF Publishes
  <2> QED BY <2>2, <2>3 DEF call
<1>3. \A x \in Numbers(waiters) :
        WillBeHeard(x)' /\ x.upTo <= subscribesSent' /\ x.pub \in 1 .. Len(pubs')
  <2>1. \A x \in Numbers(waiters) :
          WillBeHeard(x)' /\ x.upTo <= subscribesSent' /\ x.pub \in 1 .. Len(pubs)
    BY <1>1, WillKept DEF HearInv
  <2> QED BY <1>1, <1>2, <2>1
<1>4. \A n \in Sending \cup Going : Hears(n)' => Has(pubs[n].ch)'
  BY SentKept DEF HearInv
<1>5. CASE failed # {}
  <2>1. UNCHANGED <<waiters, resuming, sending>>
    BY <1>5 DEF Publish
  <2> QED BY <1>3, <1>4, <2>1 DEF HearInv, WaitersHear, SentAreHeard, Sending, Going
<1>6. CASE failed = {} /\ MustWait
  <2>1. Wake(ws, Len(waiters) + 1, subscribing') /\ sending' = sending
    BY <1>1, <1>6, <1>w DEF Publish
  <2>2. w \in Waits /\ w.pub = p /\ w.upTo = subscribesSent
    BY <1>2, <1>w DEF Waits, HearInv, OrderInv, TypeOK
  <2>3. WillBeHeard(w)'
    <3>1. pubs'[p].audience <= subscribesSent /\ failed' = {}
      BY <1>1, <1>2, <1>6 DEF HearInv, Numbered
    <3> QED BY <2>2, <3>1 DEF WillBeHeard
  <2>4. /\ ws \in Seq(Waits) /\ Len(ws) = Len(waiters) + 1 /\ ws[Len(waiters) + 1] = w
        /\ \A i \in 1 .. Len(waiters) : ws[i] = waiters[i]
    BY <1>1, <2>2, AppendProperties
  <2> HIDE DEF ws
  <2>5. subscribesSent \in Nat /\ subscribesSent' = subscribesSent
    BY <1>1, RedisTransportAssumption DEF HearInv, OrderInv, TypeOK
  <2>6. \A x \in {ws[i] : i \in 1 .. Len(waiters) + 1} :
          WillBeHeard(x)' /\ x.upTo <= subscribesSent' /\ x.pub \in 1 .. Len(pubs')
    <3>1. \A x \in {ws[i] : i \in 1 .. Len(waiters) + 1} : x \in Numbers(waiters) \/ x = w
      BY <1>1, <2>4 DEF Numbers
    <3>2. w.upTo <= subscribesSent' /\ w.pub \in 1 .. Len(pubs')
      BY <1>1, <1>2, <2>2, <2>5
    <3> QED BY <1>3, <2>3, <3>1, <3>2
  <2>7. ASSUME NEW i \in 1 .. Len(ws), NEW j \in 1 .. Len(ws), i < j
        PROVE  ws[i].upTo <= ws[j].upTo
    <3>1. i \in 1 .. Len(waiters) /\ ws[i] = waiters[i] /\ waiters[i].upTo <= subscribesSent
      BY <1>1, <2>4, <2>7 DEF HearInv, WaitersHear, Numbers
    <3>2. CASE j = Len(waiters) + 1
      BY <2>2, <2>4, <3>1, <3>2
    <3>3. CASE j # Len(waiters) + 1
      <4>1. j \in 1 .. Len(waiters)
        BY <1>1, <2>4, <3>3
      <4> QED BY <2>4, <2>7, <3>1, <4>1 DEF HearInv, WaitersHear
    <3> QED BY <3>2, <3>3
  <2>8. Len(waiters) + 1 \in 0 .. Len(ws)
    BY <1>1, <2>4
  <2> QED BY <2>1, <2>4, <2>6, <2>7, <2>8, WokenHear DEF HearInv
<1>7. CASE failed = {} /\ ~MustWait
  <2>1. /\ waiters' = waiters /\ resuming' = resuming /\ sending' = Append(sending, p)
        /\ \A d \in Channels : subscribing[d] = 0
    BY <1>7 DEF Publish, MustWait
  <2>2. Sending' = Sending \cup {p}
    <3>1. sending \in Seq(Publishes)
      BY DEF HearInv, OrderInv, TypeOK
    <3> QED BY <1>2, <2>1, <3>1, NumbersAppended DEF Sending
  <2>3. Hears(p)' => Has(pubs[p].ch)'
    <3>1. pubs'[p].ch = ch
      BY <1>2
    <3>2. Hears(p)' => Active(ch)'
      BY <1>1, <1>2, <1>7, <2>1 DEF Hears, Active
    <3> QED BY <3>1, <3>2 DEF ActiveHas
  <2> QED BY <1>3, <1>4, <2>1, <2>2, <2>3 DEF HearInv, WaitersHear, SentAreHeard, Going
<1> QED BY <1>5, <1>6, <1>7

\* Every step keeps that what waits, goes on and was sent will be heard.
LEMMA WaitersSentStep ==
    ASSUME HearInv, [Next]_vars, TypeOK', Numbered', ActiveHas'
    PROVE  WaitersHear' /\ SentAreHeard'
<1>1. ASSUME UNCHANGED <<waiters, failed>>, Sending' \cup Going' \subseteq Sending \cup Going
      PROVE  WaitersHear' /\ SentAreHeard'
  <2>1. \A w \in Numbers(waiters) : WillBeHeard(w)' /\ w.upTo <= subscribesSent'
    BY <1>1, WillKept DEF HearInv
  <2>2. \A n \in Sending \cup Going : Hears(n)' => Has(pubs[n].ch)'
    BY SentKept DEF HearInv
  <2> QED BY <1>1, <2>1, <2>2 DEF HearInv, WaitersHear, SentAreHeard
<1>2. ASSUME Resume PROVE WaitersHear' /\ SentAreHeard'
  <2>1. Head(resuming).pub \in Going /\ Going' \subseteq Going
    BY <1>2, TakenWaiter DEF Resume, HearInv, OrderInv, TypeOK, CallOrderIsKept, Going
  <2>2. Sending' = Sending \cup {Head(resuming).pub}
    <3> DEFINE p == Head(resuming).pub
    <3>1. sending \in Seq(Publishes) /\ sending' = Append(sending, p) /\ p \in Publishes
      BY <1>2, <2>1, QueuedTypes DEF Resume, HearInv, OrderInv, TypeOK
    <3> HIDE DEF p
    <3>2. Sending' = Sending \cup {p}
      BY <3>1, NumbersAppended DEF Sending
    <3> QED BY <3>2 DEF p
  <2> QED BY <1>1, <1>2, <2>1, <2>2 DEF Resume
<1>3. ASSUME RedisPublishes PROVE WaitersHear' /\ SentAreHeard'
  <2>1. Sending' \subseteq Sending
    BY <1>3, NumbersTaken DEF RedisPublishes, HearInv, OrderInv, TypeOK, Sending
  <2>2. Going' = Going
    BY <1>3 DEF RedisPublishes, Going
  <2> QED BY <1>1, <1>3, <2>1, <2>2 DEF RedisPublishes
<1>4. UNCHANGED <<waiters, failed, sending, resuming>> => WaitersHear' /\ SentAreHeard'
  BY <1>1 DEF Sending, Going
<1>5. ASSUME NEW ch \in Channels, Listen(ch) PROVE WaitersHear' /\ SentAreHeard'
  BY <1>4, <1>5 DEF Listen
<1>6. ASSUME NEW p \in rejected, ResumeRejected(p) PROVE WaitersHear' /\ SentAreHeard'
  BY <1>4, <1>6 DEF ResumeRejected
<1>7. ReadReply \/ RedisSubscribes \/ UNCHANGED vars => WaitersHear' /\ SentAreHeard'
  BY <1>4 DEF ReadReply, RedisSubscribes, vars, redis
<1> QED BY <1>2, <1>3, <1>5, <1>6, <1>7, UnlistenHear, SettleHear, PublishHear DEF Next

-----------------------------------------------------------------------------
(* What is heard *)

\* Every message is of a publish that was called, on its channel.
LEMMA MessagesStep ==
    ASSUME OrderInv, MessagesAreCalled, [Next]_vars
    PROVE  MessagesAreCalled'
<1>1. /\ Numbers(replies) \subseteq AnswersTo \cup Messages /\ Len(pubs) \in Nat
  BY NumbersIn, LenProperties DEF OrderInv, TypeOK
<1>2. Len(pubs) <= Len(pubs') /\ \A n \in 1 .. Len(pubs) : pubs'[n] = pubs[n]
  <2>1. CASE pubs' = pubs
    BY <1>1, <2>1
  <2>2. CASE pubs' # pubs
    <3>1. Len(pubs') = Len(pubs) + 1 /\ \A n \in 1 .. Len(pubs) : pubs'[n] = pubs[n]
      BY <2>2, PubsStep DEF OrderInv
    <3> QED BY <1>1, <3>1
  <2> QED BY <2>1, <2>2
<1>3. ASSUME NEW r \in Numbers(replies), r.t = "message"
      PROVE  r.pub <= Len(pubs') /\ r.ch = pubs'[r.pub].ch
  <2>1. r \in Messages
    BY <1>1, <1>3 DEF AnswersTo
  <2>2. r.pub \in 1 .. Len(pubs) /\ r.ch = pubs[r.pub].ch
    BY <1>1, <1>3, <2>1 DEF MessagesAreCalled, Messages, Publishes
  <2>3. Len(pubs') \in Nat
    BY NextType, LenProperties DEF OrderInv, TypeOK
  <2> QED BY <1>1, <1>2, <2>2, <2>3
<1>4. ASSUME NEW r \in Numbers(replies'), r.t = "message", r \notin Numbers(replies)
      PROVE  r.pub <= Len(pubs') /\ r.ch = pubs'[r.pub].ch
  <2>1. /\ RedisPublishes
        /\ r = [t |-> "message", ch |-> pubs[Head(sending)].ch, pub |-> Head(sending)]
    BY <1>4, RepliesStep DEF OrderInv, Answer
  <2>2. Head(sending) \in Sending
    BY <2>1, NumbersTaken DEF RedisPublishes, OrderInv, TypeOK, Sending
  <2>3. pubs' = pubs
    BY <2>1 DEF RedisPublishes
  <2> QED BY <2>1, <2>2, <2>3 DEF OrderInv, Called
<1> QED BY <1>3, <1>4 DEF MessagesAreCalled

\* Every step keeps that what Redis served is heard or on its way (onMessage).
LEMMA HeardStep ==
    ASSUME HearInv, [Next]_vars
    PROVE  ListenersHear'
<1> DEFINE Heard(n) ==
             \/ n \in Numbers(heard[pubs[n].audience])
             \/ \E r \in Numbers(replies) : r.t = "message" /\ r.pub = n
           HeardThen(n) ==
             \/ n \in Numbers(heard'[pubs[n].audience])
             \/ \E r \in Numbers(replies') : r.t = "message" /\ r.pub = n
<1>1. \A n \in Served \cup Sending : n \in 1 .. Len(pubs)
  BY QueuedTypes, LenProperties, SMTT(180) DEF HearInv, OrderInv, Called, TypeOK, Publishes
<1>2. \A n \in 1 .. Len(pubs) : Hears(n)' => Hears(n) /\ pubs'[n] = pubs[n]
  BY HearsKept DEF HearInv, OrderInv
<1>3. replies \in Seq(AnswersTo \cup Messages)
  BY DEF HearInv, OrderInv, TypeOK
<1>4. \A n \in 1 .. Len(pubs) : pubs[n] \in Calls
  BY ElementOfSeq DEF HearInv, OrderInv, TypeOK
<1>5. ASSUME Served' = Served, \A n \in Served : Hears(n) /\ Heard(n) => HeardThen(n)
      PROVE  ListenersHear'
  <2>1. ASSUME NEW n \in Served, Hears(n)'
        PROVE  \/ n \in Numbers(heard'[pubs'[n].audience])
               \/ \E r \in Numbers(replies') : r.t = "message" /\ r.pub = n
    <3>1. Hears(n) /\ pubs'[n] = pubs[n]
      BY <1>1, <1>2, <2>1
    <3>2. Heard(n)
      BY <3>1 DEF HearInv, ListenersHear
    <3> HIDE DEF Heard
    <3>3. HeardThen(n)
      BY <1>5, <3>1, <3>2
    <3> QED BY <3>1, <3>3
  <2> QED BY <1>5, <2>1 DEF ListenersHear
<1>6. UNCHANGED <<log, heard, replies>> => ListenersHear'
  BY <1>5 DEF Served
<1>7. ASSUME RedisSubscribes PROVE ListenersHear'
  <2>1. Numbers(replies) \subseteq Numbers(replies')
    <3>1. PICK c : c = Head(commands)
      OBVIOUS
    <3>2. c \in Commands
      BY <1>7, <3>1, NumbersTaken DEF RedisSubscribes, HearInv, OrderInv, TypeOK
    <3>3. CASE c.t = "UNSUBSCRIBE"
      BY <1>7, <3>1, <3>3 DEF RedisSubscribes
    <3>4. CASE c.t # "UNSUBSCRIBE"
      <4>1. PICK ok \in BOOLEAN : replies' = Append(replies, Answer(c, ok))
        BY <1>7, <3>1, <3>4 DEF RedisSubscribes
      <4>2. Answer(c, ok) \in AnswersTo \cup Messages
        BY <3>2, <3>4 DEF Answer, AnswersTo, Commands
      <4>3. Numbers(replies') = Numbers(replies) \cup {Answer(c, ok)}
        BY <1>3, <4>1, <4>2, NumbersAppended
      <4> QED BY <4>3
    <3> QED BY <3>3, <3>4
  <2>2. heard' = heard /\ log' = log
    BY <1>7 DEF RedisSubscribes
  <2> QED BY <1>5, <2>1, <2>2 DEF Served
<1>8. ASSUME ReadReply PROVE ListenersHear'
  <2>1. PICK r : r = Head(replies)
    OBVIOUS
  <2>2. PICK l : l = IF r.t = "message" THEN listener[r.ch] ELSE 0
    OBVIOUS
  <2>3. /\ Numbers(replies) = {r} \cup Numbers(replies') /\ r \in AnswersTo \cup Messages
        /\ heard' = IF l = 0 THEN heard ELSE [heard EXCEPT ![l] = Append(@, r.pub)]
        /\ log' = log
    BY <1>8, <2>1, <2>2, NumbersTaken DEF ReadReply, HearInv, OrderInv, TypeOK
  <2>4. l # 0 => l \in Listeners /\ r.t = "message" /\ r.pub \in Publishes
    <3>1. r.t = "message" => r \in Messages
      BY <2>3 DEF AnswersTo
    <3> QED BY <2>2, <3>1, RedisTransportAssumption, SMTT(180)
            DEF Messages, HearInv, OrderInv, TypeOK, Listeners
  <2>5. l # 0 => Numbers(heard'[l]) = Numbers(heard[l]) \cup {r.pub}
    <3>1. SUFFICES ASSUME l # 0 PROVE Numbers(heard'[l]) = Numbers(heard[l]) \cup {r.pub}
      OBVIOUS
    <3>2. heard \in [Listeners -> Seq(Publishes)]
      BY DEF HearInv, OrderInv, TypeOK
    <3>3. heard'[l] = Append(heard[l], r.pub) /\ heard[l] \in Seq(Publishes)
      BY <2>3, <2>4, <3>1, <3>2
    <3> QED BY <2>4, <3>1, <3>3, NumbersAppended
  <2>6. \A k \in Listeners : k # l => heard'[k] = heard[k]
    BY <2>3 DEF HearInv, OrderInv, TypeOK
  <2>7. ASSUME NEW n \in Served, Hears(n), Heard(n) PROVE HeardThen(n)
    <3>1. pubs[n].audience \in Listeners
      BY <1>1, <1>4, <2>7, RedisTransportAssumption DEF Hears, Calls, Listeners
    <3>2. CASE n \in Numbers(heard[pubs[n].audience])
      <4>1. pubs[n].audience # 0
        BY <2>7 DEF Hears
      <4>2. CASE pubs[n].audience = l
        BY <2>5, <3>2, <4>1, <4>2
      <4>3. CASE pubs[n].audience # l
        BY <2>6, <3>1, <3>2, <4>3
      <4> QED BY <4>2, <4>3
    <3>3. CASE n \notin Numbers(heard[pubs[n].audience])
      <4>1. PICK x \in Numbers(replies) : x.t = "message" /\ x.pub = n
        BY <2>7, <3>3
      <4>2. CASE x = r
        <5>1. r.ch = pubs[n].ch
          BY <4>1, <4>2 DEF HearInv, MessagesAreCalled
        <5>2. l = pubs[n].audience /\ l # 0
          BY <2>2, <2>7, <4>1, <4>2, <5>1 DEF Hears
        <5> QED BY <2>5, <4>1, <4>2, <5>2
      <4>3. CASE x # r
        BY <2>3, <4>1, <4>3
      <4> QED BY <4>2, <4>3
    <3> QED BY <3>2, <3>3
  <2> HIDE DEF Heard, HeardThen
  <2> QED BY <1>5, <2>3, <2>7 DEF Served
<1>9. ASSUME RedisPublishes PROVE ListenersHear'
  <2>1. PICK p : p = Head(sending)
    OBVIOUS
  <2>2. PICK msg : msg = [t |-> "message", ch |-> pubs[p].ch, pub |-> p]
    OBVIOUS
  <2>3. PICK ok \in BOOLEAN :
          /\ log' = IF ok THEN Append(log, p) ELSE log
          /\ replies' = IF ok /\ pubs[p].ch \in subscribed THEN Append(replies, msg) ELSE replies
    BY <1>9, <2>1, <2>2 DEF RedisPublishes
  <2>4. p \in Sending /\ p \in Publishes /\ heard' = heard /\ pubs' = pubs /\ listener' = listener
    BY <1>9, <2>1, NumbersTaken DEF RedisPublishes, HearInv, OrderInv, TypeOK, Sending
  <2>5. p \in 1 .. Len(pubs)
    BY <1>1, <2>4
  <2>6. msg.t = "message" /\ msg.pub = p /\ msg \in AnswersTo \cup Messages
    BY <1>4, <2>2, <2>4, <2>5 DEF Messages, Calls
  <2>7. pubs[p].ch \in subscribed /\ ok => Numbers(replies') = Numbers(replies) \cup {msg}
    BY <1>3, <2>3, <2>6, NumbersAppended
  <2>8. Numbers(replies) \subseteq Numbers(replies')
    BY <2>3, <2>7
  <2>9. Served' \subseteq Served \cup (IF ok THEN {p} ELSE {})
    <3>1. log \in Seq(Publishes)
      BY DEF HearInv, OrderInv, TypeOK
    <3> QED BY <2>3, <2>4, <3>1, NumbersAppended DEF Served
  <2>10. ASSUME NEW n \in Served', Hears(n)' PROVE HeardThen(n)
    <3>1. CASE n \in Served
      <4>1. Hears(n)
        BY <1>1, <1>2, <2>10, <3>1
      <4> QED BY <2>4, <2>8, <3>1, <4>1 DEF HearInv, ListenersHear
    <3>2. CASE n \notin Served
      <4>1. n = p /\ ok
        BY <2>9, <3>2
      <4>2. Hears(p)
        BY <1>2, <2>5, <2>10, <4>1
      <4>3. pubs[p].ch \in subscribed
        BY <2>4, <4>2 DEF HearInv, SentAreHeard, Has
      <4> QED BY <2>6, <2>7, <4>1, <4>3
    <3> QED BY <3>1, <3>2
  <2> QED BY <2>4, <2>10 DEF ListenersHear
<1>10. ASSUME NEW ch \in Channels, Listen(ch) \/ Unlisten(ch) \/ Publish(ch) PROVE ListenersHear'
  BY <1>6, <1>10 DEF Listen, Unlisten, Publish
<1>11. ASSUME NEW p \in rejected, ResumeRejected(p) PROVE ListenersHear'
  BY <1>6, <1>11 DEF ResumeRejected
<1>12. Resume \/ SettleSubscribe \/ UNCHANGED vars => ListenersHear'
  BY <1>6 DEF Resume, SettleSubscribe, vars, redis
<1> QED BY <1>7, <1>8, <1>9, <1>10, <1>11, <1>12 DEF Next

\* Nothing is served at first.
LEMMA InitHear == Init => HearInv
<1> SUFFICES ASSUME Init PROVE HearInv
  OBVIOUS
<1>1. OrderInv
  BY InitType, InitOrder DEF OrderInv
<1>2. Len(<<>>) = 0 /\ Numbers(<<>>) = {} /\ Pubs(<<>>) = {}
  BY EmptySeq DEF Numbers, Pubs
<1>3. Numbered
  BY <1>2 DEF Init, Numbered
<1>4. SubscribedLast /\ AnswersAreRight /\ ActiveHas
  BY <1>2 DEF Init, SubscribedLast, AnswersAreRight, ActiveHas, Active
<1>5. SentAreHeard /\ WaitersHear /\ MessagesAreCalled /\ ListenersHear
  BY <1>2 DEF Init, SentAreHeard, WaitersHear, MessagesAreCalled, ListenersHear, Sending, Going,
              Served
<1> QED BY <1>1, <1>3, <1>4, <1>5 DEF HearInv

\* Every step keeps the invariant.
LEMMA NextHear ==
    ASSUME HearInv, [Next]_vars
    PROVE  HearInv'
<1>1. OrderInv' /\ TypeOK'
  BY NextOrder DEF HearInv, OrderInv
<1>2. Numbered' /\ SubscribedLast' /\ AnswersAreRight' /\ ActiveHas'
  BY NumberedStep, SubscribedLastStep, AnswersStep, ActiveStep DEF HearInv, OrderInv
<1>3. WaitersHear' /\ SentAreHeard'
  BY <1>1, <1>2, WaitersSentStep
<1>4. MessagesAreCalled' /\ ListenersHear'
  BY MessagesStep, HeardStep DEF HearInv
<1> QED BY <1>1, <1>2, <1>3, <1>4 DEF HearInv

\* A listener hears every publish called while it was there unless the publish fails or the
\* listener goes, for any channels, listeners and failures (the wait of publish, settleSubscribe).
THEOREM AllHear == Spec => []ListenersHear
<1>1. HearInv => ListenersHear
  BY DEF HearInv
<1> QED BY <1>1, InitHear, NextHear, PTL DEF Spec

-----------------------------------------------------------------------------
(* Frames: a body goes on from the last seq taken, and to another. *)

\* Each seq comes after what the server took, or after the one before it.
Follows(last, F) ==
    \A i \in DOMAIN F : F[i].t = "DATA" =>
        \/ F[i].n <= last + 1
        \/ \E j \in 1 .. i - 1 : F[j].t = "DATA" /\ F[i].n <= F[j].n + 1

\* The last seq, taken or to come.
ReachesTo(last, F, h) == h <= last \/ \E i \in DOMAIN F : F[i].t = "DATA" /\ h <= F[i].n

Datas(h) == [t : {"DATA"}, n : 1 .. h]
FullReconciles(w) == [t : {"RECONCILE"}, session : 0 .. w - 1, changes : {FALSE}, chs : SUBSET Chs]
Changes(w) == [t : {"RECONCILE"}, session : {w}, changes : {TRUE}, chs : SUBSET (Chs \ {1})]
Uploaded(w, h) == Datas(h) \cup Changes(w)
AllFrames == [t : {"DATA"}, n : Nat]
             \cup [t : {"RECONCILE"}, session : Nat, changes : BOOLEAN, chs : SUBSET Chs]
Downs(w) == [t : {"ACK"}] \cup [t : {"RECONCILED"}, session : {w}, chs : SUBSET Chs, last : Nat]

\* The page
Pages ==
    [conn : {"down", "opening", "open"}, wire : Conns \cup {0}, last : Conns \cup {0},
     session : Conns \cup {0}, here : BOOLEAN, openPending : BOOLEAN, reconciling : BOOLEAN,
     owed : BOOLEAN, inFlight : [chs : SUBSET Chs, carried : Nat],
     st : [Chs -> {"none", "new", "declared", "open"}], awaited : SUBSET Chs,
     sent : Nat, handed : Nat, acked : Nat, stream : {"idle", "active", "failed"},
     confirmed : BOOLEAN, unconfirmed : Seq(AllFrames), outbox : Seq(AllFrames),
     post : Conns \cup {0}, posted : Seq(AllFrames), abandoned : Conns \cup {0},
     out : Seq(AllFrames), cut : SUBSET Nat, cutUploads : SUBSET Nat]

\* Where the page is with its wire.
PageStands(p) ==
    /\ (p.conn = "down" <=> p.wire = 0) /\ (p.wire # 0 => p.wire = p.last)
    /\ p.session <= p.last /\ p.post <= p.last
    /\ p.acked <= p.handed /\ p.handed <= p.sent /\ (p.session = 0 => p.acked = 0)
    /\ p.wire = 0 => p.stream # "active" /\ ~p.here
    /\ p.wire # 0 => p.stream # "idle" /\ p.st[1] # "none"
    /\ \A ch \in Chs : p.st[ch] # "none" => p.st[1] # "none"
    /\ p.stream # "active" => p.out = <<>>
    /\ p.openPending => p.conn = "opening" /\ ~p.here
    /\ p.confirmed => p.stream = "active"
    /\ p.stream = "active" => (p.confirmed <=> p.conn = "open") /\ p.outbox = <<>> /\ p.post # p.wire
    /\ p.conn = "opening" /\ ~p.openPending => p.stream = "active"
    /\ p.unconfirmed # <<>> => p.stream = "active" /\ ~p.confirmed

\* What it declared of its channels.
PageDeclares(p) ==
    /\ \A ch \in p.inFlight.chs \cup p.awaited : p.st[ch] # "none"
    /\ 1 \notin p.awaited
    /\ p.here => /\ p.session = p.wire /\ p.st[1] = "open"
                 /\ \A ch \in p.inFlight.chs : p.st[ch] # "open"
    /\ p.wire # 0 /\ ~p.here =>
          /\ p.reconciling /\ 1 \in p.inFlight.chs /\ p.inFlight.carried \in {0, 1}
          /\ \A ch \in Chs : p.st[ch] \in {"declared", "open"} => ch \in p.inFlight.chs
          /\ p.unconfirmed = <<>> /\ p.outbox = <<>> /\ p.out = <<>> /\ p.post # p.wire

\* What it keeps of what it sent is of its wire.
PageKeeps(p) ==
    /\ p.wire # 0 => p.unconfirmed \in Seq(Uploaded(p.wire, p.handed))
                     /\ p.outbox \in Seq(Uploaded(p.wire, p.handed))
    /\ p.out \in Seq(Uploaded(p.wire, p.handed))

PageShape(p) == p \in Pages /\ PageStands(p) /\ PageDeclares(p) /\ PageKeeps(p)

-----------------------------------------------------------------------------
(* Wires *)

Unread(w) == un[w].openBody # <<>> /\ Head(un[w].openBody).t = "RECONCILE"

\* The server may take data of w: it will read its RECONCILE, or the session holds the channel.
MayTakeOf(w) == un[w].wire # "closed" /\ (Unread(w) \/ 1 \in us.holds[w])

Wires ==
    [wire : {"none", "open", "closed"}, ready : BOOLEAN,
     open : {"none", "sent", "reading", "read", "lost"}, openBody : Seq(AllFrames),
     upload : {"none", "sent", "waits", "acked", "ended"}, uploadBody : Seq(AllFrames),
     batch : {"none", "sent", "reading", "answered", "refused", "lost"}, batchBody : Seq(AllFrames),
     down : Seq([t : {"ACK"}] \cup [t : {"RECONCILED"}, session : Conns, chs : SUBSET Chs, last : Nat]),
     ended : BOOLEAN, cut : BOOLEAN, uploadCut : BOOLEAN]

WireStands(w) ==
    LET u == un[w]
    IN  /\ u.uploadBody \in Seq(Uploaded(w, up.handed)) /\ u.batchBody \in Seq(Uploaded(w, up.handed))
        /\ \A i \in DOMAIN u.openBody :
              \/ u.openBody[i] \in Datas(up.handed)
              \/ i = 1 /\ u.openBody[i] \in FullReconciles(w)
        /\ u.open \in {"none", "lost", "read"} => u.openBody = <<>>
        /\ u.wire = "none" <=> u.open \in {"none", "sent", "lost"}
        /\ u.ready => u.wire = "closed" \/ u.open = "read"
        /\ us.holds[w] # {} => u.wire = "open" /\ ~Unread(w)
        /\ u.batch \in {"none", "answered"} => u.batchBody = <<>>
        /\ w > up.last => /\ u.open = "none" /\ u.upload = "none" /\ u.batch = "none"
                          /\ u.uploadBody = <<>>
        /\ u.wire = "none" => u.down = <<>>
        /\ \A i \in DOMAIN u.down : u.down[i].t = "RECONCILED" =>
              u.down[i].session = w /\ u.down[i].last <= us.last /\ ~Unread(w)

WireFollows(w) ==
    MayTakeOf(w) =>
        /\ un[w].upload # "ended" => Follows(us.last, un[w].openBody \o un[w].uploadBody)
        /\ Follows(us.last, un[w].openBody \o un[w].batchBody)

-----------------------------------------------------------------------------
(* The page's wire *)

\* All it handed over was taken, or is to come.
Covers(p, F) == Follows(us.last, F) /\ ReachesTo(us.last, F, p.handed)

PageCovers(p) ==
    LET u == un[p.wire]
    IN  p.wire # 0 /\ MayTakeOf(p.wire) =>
        /\ p.here =>
              /\ p.stream = "active" /\ u.upload # "ended" =>
                     Covers(p, u.openBody \o (u.uploadBody \o p.out))
              /\ p.stream = "active" /\ ~p.confirmed => Covers(p, u.openBody \o p.unconfirmed)
              /\ p.stream = "failed" /\ u.batch \notin {"refused", "lost"} =>
                     Covers(p, u.openBody \o (u.batchBody \o p.outbox))
        /\ ~p.here =>
              /\ p.inFlight.carried = 1 => Covers(p, u.openBody)
              /\ p.inFlight.carried = 0 => \A i \in DOMAIN u.openBody : u.openBody[i].t # "DATA"

PageAgrees(p) ==
    LET u == un[p.wire]
    IN  p.wire # 0 =>
        /\ p.post # p.wire => u.batch = "none"
        /\ ~p.here => /\ u.uploadBody = <<>>
                      /\ Unread(p.wire) => Head(u.openBody).chs = p.inFlight.chs
                      /\ \A i \in DOMAIN u.down : u.down[i].t = "RECONCILED" => u.down[i].chs = p.inFlight.chs
        /\ p.here => ~Unread(p.wire) /\ u.wire # "none"
        /\ u.wire = "open" =>
              /\ \A i \in DOMAIN u.down : u.down[i].t = "RECONCILED" => u.down[i].chs \subseteq us.holds[p.wire]
              /\ p.here => {ch \in Chs : p.st[ch] = "open"} \subseteq us.holds[p.wire]

PageGood(p) == PageShape(p) /\ PageCovers(p) /\ PageAgrees(p)

UploadTypes ==
    /\ uplan \in UploadPlans
    /\ us \in [took : Seq(Nat), last : Nat, holds : [Conns -> SUBSET Chs], cuts : Nat, drops : Nat]
    /\ un \in [Conns -> Wires]

TakenAll ==
    /\ us.last = Len(us.took) /\ \A i \in 1 .. Len(us.took) : us.took[i] = i
    /\ us.last <= up.handed

UploadInv ==
    /\ UploadTypes /\ TakenAll /\ PageGood(up)
    /\ up.out = <<>>
    /\ \A w \in Conns : WireStands(w) /\ WireFollows(w)

-----------------------------------------------------------------------------
(* Sequences of frames *)

\* What a frame of data holds.
LEMMA FramesAre ==
    ASSUME NEW F \in Seq(AllFrames)
    PROVE  /\ Len(F) \in Nat /\ DOMAIN F = 1 .. Len(F) /\ (F = <<>> <=> Len(F) = 0)
           /\ \A i \in 1 .. Len(F) : F[i] \in AllFrames /\ (F[i].t = "DATA" => F[i].n \in Nat)
<1>1. Len(F) \in Nat /\ DOMAIN F = 1 .. Len(F) /\ (F = <<>> <=> Len(F) = 0)
  BY LenProperties, EmptySeq
<1>2. ASSUME NEW i \in 1 .. Len(F) PROVE F[i] \in AllFrames
  BY ElementOfSeq
<1>3. ASSUME NEW f \in AllFrames, f.t = "DATA" PROVE f.n \in Nat
  BY <1>3 DEF AllFrames
<1> QED BY <1>1, <1>2, <1>3

\* What was taken may only grow.
LEMMA FollowsLater ==
    ASSUME NEW F \in Seq(AllFrames), NEW a \in Nat, NEW b \in Nat, a <= b
    PROVE  /\ Follows(a, F) => Follows(b, F)
           /\ \A h \in Nat : ReachesTo(a, F, h) => ReachesTo(b, F, h)
<1>1. ASSUME Follows(a, F) PROVE Follows(b, F)
  <2> SUFFICES ASSUME NEW i \in DOMAIN F, F[i].t = "DATA"
               PROVE  \/ F[i].n <= b + 1
                      \/ \E j \in 1 .. i - 1 : F[j].t = "DATA" /\ F[i].n <= F[j].n + 1
    BY DEF Follows
  <2>1. F[i].n \in Nat
    BY FramesAre
  <2> QED BY <1>1, <2>1, SMTT(180) DEF Follows
<1> QED BY <1>1, FramesAre DEF ReachesTo

\* Two parts in one.
LEMMA BothAre ==
    ASSUME NEW A \in Seq(AllFrames), NEW B \in Seq(AllFrames)
    PROVE  /\ A \o B \in Seq(AllFrames) /\ Len(A \o B) = Len(A) + Len(B)
           /\ DOMAIN (A \o B) = 1 .. Len(A) + Len(B)
           /\ \A i \in 1 .. Len(A) : (A \o B)[i] = A[i]
           /\ \A i \in 1 .. Len(B) : (A \o B)[Len(A) + i] = B[i]
           /\ \A k \in 1 .. Len(A) + Len(B) :
                 k \in 1 .. Len(A) \/ \E i \in 1 .. Len(B) : k = Len(A) + i
<1>1. /\ A \o B \in Seq(AllFrames) /\ Len(A \o B) = Len(A) + Len(B)
      /\ \A i \in 1 .. Len(A) + Len(B) :
            (A \o B)[i] = IF i <= Len(A) THEN A[i] ELSE B[i - Len(A)]
  BY ConcatProperties
<1>2. Len(A) \in Nat /\ Len(B) \in Nat
  BY FramesAre
<1>3. DOMAIN (A \o B) = 1 .. Len(A) + Len(B)
  BY <1>1, LenProperties
<1>4. ASSUME NEW i \in 1 .. Len(A) PROVE (A \o B)[i] = A[i]
  BY <1>1, <1>2
<1>5. ASSUME NEW i \in 1 .. Len(B) PROVE (A \o B)[Len(A) + i] = B[i]
  BY <1>1, <1>2
<1>6. ASSUME NEW k \in 1 .. Len(A) + Len(B)
      PROVE  k \in 1 .. Len(A) \/ \E i \in 1 .. Len(B) : k = Len(A) + i
  <2>1. CASE k <= Len(A)
    BY <1>2, <2>1
  <2>2. CASE k > Len(A)
    <3>1. k - Len(A) \in 1 .. Len(B) /\ k = Len(A) + (k - Len(A))
      BY <1>2, <2>2
    <3> QED BY <3>1
  <2> QED BY <1>2, <2>1, <2>2
<1> QED BY <1>1, <1>3, <1>4, <1>5, <1>6

\* Three parts in one, and none.
LEMMA Joined ==
    ASSUME NEW A \in Seq(AllFrames), NEW B \in Seq(AllFrames), NEW C \in Seq(AllFrames)
    PROVE  /\ A \o B \in Seq(AllFrames) /\ (A \o B) \o C = A \o (B \o C)
           /\ A \o <<>> = A /\ <<>> \o A = A /\ <<>> \in Seq(AllFrames)
<1>1. A \o B \in Seq(AllFrames)
  BY ConcatProperties
<1>2. (A \o B) \o C = A \o (B \o C)
  BY ConcatAssociative, SMTT(180)
<1>3. A \o <<>> = A /\ <<>> \o A = A /\ <<>> \in Seq(AllFrames)
  BY ConcatEmptySeq
<1> QED BY <1>1, <1>2, <1>3

\* What follows a part that reaches h may go on from h.
LEMMA FollowsOn ==
    ASSUME NEW A \in Seq(AllFrames), NEW B \in Seq(AllFrames), NEW last \in Nat, NEW h \in Nat,
           NEW h2 \in Nat, Follows(last, A), ReachesTo(last, A, h), Follows(h, B),
           ReachesTo(h, B, h2)
    PROVE  Follows(last, A \o B) /\ ReachesTo(last, A \o B, h2)
<1> DEFINE C == A \o B
<1>1. /\ DOMAIN C = 1 .. Len(A) + Len(B) /\ Len(A) \in Nat /\ Len(B) \in Nat
      /\ \A i \in 1 .. Len(A) : C[i] = A[i]
      /\ \A i \in 1 .. Len(B) : C[Len(A) + i] = B[i]
      /\ \A k \in 1 .. Len(A) + Len(B) :
            k \in 1 .. Len(A) \/ \E i \in 1 .. Len(B) : k = Len(A) + i
      /\ DOMAIN A = 1 .. Len(A) /\ DOMAIN B = 1 .. Len(B)
      /\ \A i \in 1 .. Len(A) : A[i].t = "DATA" => A[i].n \in Nat
      /\ \A i \in 1 .. Len(B) : B[i].t = "DATA" => B[i].n \in Nat
  BY BothAre, FramesAre
<1> HIDE DEF C
<1>2. ASSUME NEW n \in Nat, n <= h
      PROVE  n <= last \/ \E j \in 1 .. Len(A) : C[j].t = "DATA" /\ n <= C[j].n
  <2>1. CASE h <= last
    BY <1>2, <2>1
  <2>2. CASE \E i \in DOMAIN A : A[i].t = "DATA" /\ h <= A[i].n
    BY <1>1, <1>2, <2>2
  <2> QED BY <2>1, <2>2 DEF ReachesTo
<1>3. Follows(last, C)
  <2> SUFFICES ASSUME NEW k \in 1 .. Len(A) + Len(B), C[k].t = "DATA"
               PROVE  \/ C[k].n <= last + 1
                      \/ \E j \in 1 .. k - 1 : C[j].t = "DATA" /\ C[k].n <= C[j].n + 1
    BY <1>1 DEF Follows
  <2>1. CASE k \in 1 .. Len(A)
    <3>1. A[k].n <= last + 1 \/ \E j \in 1 .. k - 1 : A[j].t = "DATA" /\ A[k].n <= A[j].n + 1
      BY <1>1, <2>1 DEF Follows
    <3>2. \A j \in 1 .. k - 1 : j \in 1 .. Len(A)
      BY <1>1, <2>1
    <3> QED BY <1>1, <2>1, <3>1, <3>2
  <2>2. ASSUME NEW i \in 1 .. Len(B), k = Len(A) + i
        PROVE  \/ C[k].n <= last + 1
               \/ \E j \in 1 .. k - 1 : C[j].t = "DATA" /\ C[k].n <= C[j].n + 1
    <3>1. C[k] = B[i] /\ B[i].n \in Nat /\ B[i].t = "DATA"
      BY <1>1, <2>2
    <3>2. B[i].n <= h + 1 \/ \E j \in 1 .. i - 1 : B[j].t = "DATA" /\ B[i].n <= B[j].n + 1
      BY <1>1, <3>1 DEF Follows
    <3>3. CASE B[i].n <= h + 1
      <4>1. CASE B[i].n = 0
        BY <3>1, <4>1
      <4>2. CASE B[i].n # 0
        <5>1. B[i].n - 1 \in Nat /\ B[i].n - 1 <= h
          BY <3>1, <3>3, <4>2, SMTT(180)
        <5>2. B[i].n - 1 <= last \/ \E j \in 1 .. Len(A) : C[j].t = "DATA" /\ B[i].n - 1 <= C[j].n
          BY <1>2, <5>1
        <5>3. ASSUME NEW j \in 1 .. Len(A) PROVE j \in 1 .. k - 1 /\ (C[j].t = "DATA" => C[j].n \in Nat)
          BY <1>1, <2>2
        <5> QED BY <3>1, <5>2, <5>3, SMTT(180)
      <4> QED BY <4>1, <4>2
    <3>4. CASE \E j \in 1 .. i - 1 : B[j].t = "DATA" /\ B[i].n <= B[j].n + 1
      <4>1. PICK j \in 1 .. i - 1 : B[j].t = "DATA" /\ B[i].n <= B[j].n + 1
        BY <3>4
      <4>2. j \in 1 .. Len(B) /\ Len(A) + j \in 1 .. k - 1
        BY <1>1, <2>2
      <4>3. C[Len(A) + j] = B[j]
        BY <1>1, <4>2
      <4> QED BY <3>1, <4>1, <4>2, <4>3
    <3> QED BY <3>2, <3>3, <3>4
  <2> QED BY <1>1, <2>1, <2>2
<1>4. ReachesTo(last, C, h2)
  <2>1. CASE h2 <= h
    <3>1. h2 <= last \/ \E j \in 1 .. Len(A) : C[j].t = "DATA" /\ h2 <= C[j].n
      BY <1>2, <2>1
    <3>2. \A j \in 1 .. Len(A) : j \in 1 .. Len(A) + Len(B)
      BY <1>1
    <3> QED BY <1>1, <3>1, <3>2 DEF ReachesTo
  <2>2. CASE \E i \in DOMAIN B : B[i].t = "DATA" /\ h2 <= B[i].n
    <3>1. PICK i \in 1 .. Len(B) : B[i].t = "DATA" /\ h2 <= B[i].n
      BY <1>1, <2>2
    <3>2. Len(A) + i \in 1 .. Len(A) + Len(B) /\ C[Len(A) + i] = B[i]
      BY <1>1
    <3> QED BY <1>1, <3>1, <3>2 DEF ReachesTo
  <2> QED BY <2>1, <2>2 DEF ReachesTo
<1> QED BY <1>3, <1>4 DEF C

\* A part that is cut off leaves the rest.
LEMMA FollowsPrefix ==
    ASSUME NEW A \in Seq(AllFrames), NEW B \in Seq(AllFrames), NEW last \in Nat,
           Follows(last, A \o B)
    PROVE  Follows(last, A)
<1> DEFINE C == A \o B
<1>1. /\ DOMAIN C = 1 .. Len(A) + Len(B) /\ Len(A) \in Nat /\ Len(B) \in Nat
      /\ \A i \in 1 .. Len(A) : C[i] = A[i]
      /\ DOMAIN A = 1 .. Len(A)
  BY BothAre, FramesAre
<1>2. Follows(last, C)
  OBVIOUS
<1> HIDE DEF C
<1> SUFFICES ASSUME NEW k \in 1 .. Len(A), A[k].t = "DATA"
             PROVE  \/ A[k].n <= last + 1
                    \/ \E j \in 1 .. k - 1 : A[j].t = "DATA" /\ A[k].n <= A[j].n + 1
  BY <1>1 DEF Follows
<1>3. k \in 1 .. Len(A) + Len(B) /\ \A j \in 1 .. k - 1 : j \in 1 .. Len(A)
  BY <1>1
<1> QED BY <1>1, <1>2, <1>3 DEF Follows

\* Reading a frame: what is left follows what was taken with it.
LEMMA FollowsTail ==
    ASSUME NEW F \in Seq(AllFrames), F # <<>>, NEW last \in Nat, NEW now \in Nat, last <= now,
           Head(F).t = "DATA" => Head(F).n <= now
    PROVE  /\ Tail(F) \in Seq(AllFrames) /\ Len(Tail(F)) = Len(F) - 1 /\ Head(F) = F[1]
           /\ \A i \in 1 .. Len(F) - 1 : Tail(F)[i] = F[i + 1]
           /\ Follows(last, F) => Follows(now, Tail(F))
           /\ Follows(last, F) /\ Head(F).t = "DATA" => Head(F).n <= last + 1
           /\ \A h \in Nat : ReachesTo(last, F, h) => ReachesTo(now, Tail(F), h)
<1> DEFINE G == Tail(F)
<1>1. /\ G \in Seq(AllFrames) /\ Len(G) = Len(F) - 1 /\ Head(F) = F[1]
      /\ \A i \in 1 .. Len(F) - 1 : G[i] = F[i + 1]
  BY HeadTailProperties
<1>2. /\ Len(F) \in Nat /\ Len(F) # 0 /\ DOMAIN F = 1 .. Len(F) /\ DOMAIN G = 1 .. Len(F) - 1
      /\ 1 \in 1 .. Len(F)
      /\ \A i \in 1 .. Len(F) : F[i].t = "DATA" => F[i].n \in Nat
  BY <1>1, FramesAre
<1> HIDE DEF G
<1>3. ASSUME Follows(last, F) PROVE Follows(now, G)
  <2> SUFFICES ASSUME NEW k \in 1 .. Len(F) - 1, G[k].t = "DATA"
               PROVE  \/ G[k].n <= now + 1
                      \/ \E j \in 1 .. k - 1 : G[j].t = "DATA" /\ G[k].n <= G[j].n + 1
    BY <1>2 DEF Follows
  <2>1. k + 1 \in 1 .. Len(F) /\ G[k] = F[k + 1] /\ F[k + 1].n \in Nat
    BY <1>1, <1>2
  <2>2. \/ F[k + 1].n <= last + 1
        \/ \E j \in 1 .. k : F[j].t = "DATA" /\ F[k + 1].n <= F[j].n + 1
    BY <1>2, <1>3, <2>1 DEF Follows
  <2>3. ASSUME NEW j \in 1 .. k, F[j].t = "DATA", F[k + 1].n <= F[j].n + 1
        PROVE  \/ G[k].n <= now + 1
               \/ \E i \in 1 .. k - 1 : G[i].t = "DATA" /\ G[k].n <= G[i].n + 1
    <3>1. CASE j = 1
      BY <1>1, <1>2, <2>1, <2>3, <3>1, SMTT(180)
    <3>2. CASE j # 1
      <4>1. j - 1 \in 1 .. k - 1 /\ j - 1 \in 1 .. Len(F) - 1 /\ (j - 1) + 1 = j
        BY <1>2, <3>2
      <4>2. G[j - 1] = F[j]
        BY <1>1, <4>1
      <4> QED BY <2>1, <2>3, <4>1, <4>2
    <3> QED BY <3>1, <3>2
  <2> QED BY <1>2, <2>1, <2>2, <2>3
<1>4. ASSUME NEW h \in Nat, ReachesTo(last, F, h) PROVE ReachesTo(now, G, h)
  <2>1. CASE h <= last
    BY <2>1 DEF ReachesTo
  <2>2. ASSUME NEW i \in 1 .. Len(F), F[i].t = "DATA", h <= F[i].n PROVE ReachesTo(now, G, h)
    <3>1. CASE i = 1
      BY <1>1, <1>2, <2>2, <3>1 DEF ReachesTo
    <3>2. CASE i # 1
      <4>1. i - 1 \in 1 .. Len(F) - 1 /\ (i - 1) + 1 = i
        BY <1>2, <3>2
      <4>2. G[i - 1] = F[i]
        BY <1>1, <4>1
      <4> QED BY <1>2, <2>2, <4>1, <4>2 DEF ReachesTo
    <3> QED BY <3>1, <3>2
  <2> QED BY <1>2, <1>4, <2>1, <2>2 DEF ReachesTo
<1>5. ASSUME Follows(last, F), Head(F).t = "DATA" PROVE Head(F).n <= last + 1
  <2>1. ~\E j \in 1 .. 1 - 1 : TRUE
    OBVIOUS
  <2> QED BY <1>1, <1>2, <1>5, <2>1 DEF Follows
<1> QED BY <1>1, <1>3, <1>4, <1>5 DEF G

\* Reading the first part reads the whole.
LEMMA TailOfBoth ==
    ASSUME NEW A \in Seq(AllFrames), NEW B \in Seq(AllFrames), A # <<>>
    PROVE  A \o B # <<>> /\ Head(A \o B) = Head(A) /\ Tail(A \o B) = Tail(A) \o B
<1>1. /\ A \o B \in Seq(AllFrames) /\ Len(A \o B) = Len(A) + Len(B)
      /\ \A i \in 1 .. Len(A) : (A \o B)[i] = A[i]
      /\ \A i \in 1 .. Len(B) : (A \o B)[Len(A) + i] = B[i]
  BY BothAre
<1>2. Len(A) \in Nat /\ Len(B) \in Nat /\ Len(A) # 0
  BY FramesAre
<1>3. A \o B # <<>>
  <2>1. Len(A \o B) # 0
    BY <1>1, <1>2
  <2> QED BY <1>1, <2>1, FramesAre
<1>4. /\ Head(A) = A[1] /\ Tail(A) \in Seq(AllFrames) /\ Len(Tail(A)) = Len(A) - 1
      /\ \A i \in 1 .. Len(A) - 1 : Tail(A)[i] = A[i + 1]
  BY HeadTailProperties
<1>5. /\ Head(A \o B) = (A \o B)[1] /\ Tail(A \o B) \in Seq(AllFrames)
      /\ Len(Tail(A \o B)) = Len(A) + Len(B) - 1
      /\ \A i \in 1 .. Len(A) + Len(B) - 1 : Tail(A \o B)[i] = (A \o B)[i + 1]
  BY <1>1, <1>3, HeadTailProperties
<1>6. 1 \in 1 .. Len(A)
  BY <1>2
<1>7. /\ Tail(A) \o B \in Seq(AllFrames) /\ Len(Tail(A) \o B) = Len(A) - 1 + Len(B)
      /\ \A i \in 1 .. Len(A) - 1 : (Tail(A) \o B)[i] = Tail(A)[i]
      /\ \A i \in 1 .. Len(B) : (Tail(A) \o B)[Len(A) - 1 + i] = B[i]
  BY <1>4, BothAre
<1>8. ASSUME NEW i \in 1 .. Len(A) + Len(B) - 1 PROVE Tail(A \o B)[i] = (Tail(A) \o B)[i]
  <2>1. Tail(A \o B)[i] = (A \o B)[i + 1]
    BY <1>5
  <2>2. CASE i <= Len(A) - 1
    <3>1. i \in 1 .. Len(A) - 1 /\ i + 1 \in 1 .. Len(A)
      BY <1>2, <2>2
    <3> QED BY <1>1, <1>4, <1>7, <2>1, <3>1
  <2>3. CASE i > Len(A) - 1
    <3> DEFINE k == i - (Len(A) - 1)
    <3>1. k \in 1 .. Len(B) /\ i + 1 = Len(A) + k /\ i = Len(A) - 1 + k
      BY <1>2, <2>3
    <3> HIDE DEF k
    <3>2. (A \o B)[Len(A) + k] = B[k] /\ (Tail(A) \o B)[Len(A) - 1 + k] = B[k]
      BY <1>1, <1>7, <3>1
    <3> QED BY <2>1, <3>1, <3>2
  <2> QED BY <1>2, <2>2, <2>3
<1>9. Tail(A \o B) = Tail(A) \o B
  <2>1. Len(Tail(A \o B)) = Len(Tail(A) \o B) /\ Len(Tail(A \o B)) = Len(A) + Len(B) - 1
    BY <1>2, <1>5, <1>7
  <2> QED BY <1>5, <1>7, <1>8, <2>1, SeqEqual
<1> QED BY <1>1, <1>3, <1>4, <1>5, <1>6, <1>9

\* The seqs behind those handed over go on from them.
LEMMA DataGoesOn ==
    ASSUME NEW a \in Nat, NEW b \in Nat, a <= b
    PROVE  /\ Data(a + 1, b) \in Seq(Datas(b)) /\ Data(a + 1, b) \in Seq(AllFrames)
           /\ Follows(a, Data(a + 1, b)) /\ ReachesTo(a, Data(a + 1, b), b)
           /\ (Data(a + 1, b) = <<>> <=> a = b)
           /\ a < b => Data(a + 1, b)[1] = Datum(a + 1)
<1> DEFINE D == Data(a + 1, b)
           n == b - a
<1>1. n \in Nat /\ D = [i \in 1 .. n |-> Datum(a + i)]
  <2>1. (IF b < a + 1 THEN 0 ELSE b - (a + 1) + 1) = n /\ n \in Nat
    OBVIOUS
  <2>2. \A i \in 1 .. n : a + 1 + i - 1 = a + i
    OBVIOUS
  <2> QED BY <2>1, <2>2 DEF Data
<1>2. ASSUME NEW i \in 1 .. n
      PROVE  /\ D[i].t = "DATA" /\ D[i].n = a + i /\ D[i] \in Datas(b) /\ D[i] \in AllFrames
             /\ D[i] = Datum(a + i)
  <2>1. D[i] = Datum(a + i) /\ a + i \in 1 .. b /\ a + i \in Nat
    BY <1>1
  <2> QED BY <2>1 DEF Datum, Datas, AllFrames
<1>3. DOMAIN D = 1 .. n
  BY <1>1
<1>4. D \in Seq(Datas(b)) /\ D \in Seq(AllFrames) /\ Len(D) = n
  <2>1. D \in [1 .. n -> Datas(b)] /\ D \in [1 .. n -> AllFrames]
    BY <1>1, <1>2
  <2>2. D \in Seq(Datas(b)) /\ D \in Seq(AllFrames)
    BY <1>1, <2>1, SeqDef
  <2> HIDE DEF D, n
  <2> QED BY <1>1, <1>3, <2>2, LenProperties
<1>5. Follows(a, D)
  <2> SUFFICES ASSUME NEW i \in 1 .. n
               PROVE  \/ D[i].n <= a + 1
                      \/ \E j \in 1 .. i - 1 : D[j].t = "DATA" /\ D[i].n <= D[j].n + 1
    BY <1>3 DEF Follows
  <2>1. CASE i = 1
    BY <1>2, <2>1
  <2>2. CASE i # 1
    <3>1. i - 1 \in 1 .. i - 1 /\ i - 1 \in 1 .. n
      BY <1>1, <2>2
    <3>2. D[i - 1].t = "DATA" /\ D[i - 1].n = a + (i - 1) /\ D[i].n = a + i
      BY <1>2, <3>1
    <3> HIDE DEF D
    <3> QED BY <3>1, <3>2
  <2> QED BY <2>1, <2>2
<1>6. ReachesTo(a, D, b)
  <2>1. CASE a = b
    BY <2>1 DEF ReachesTo
  <2>2. CASE a # b
    <3>1. n \in 1 .. n /\ a + n = b
      BY <1>1, <2>2
    <3>2. D[n].t = "DATA" /\ D[n].n = b
      BY <1>2, <3>1
    <3> HIDE DEF D, n
    <3> QED BY <1>3, <3>1, <3>2 DEF ReachesTo
  <2> QED BY <2>1, <2>2
<1>7. (D = <<>> <=> a = b) /\ (a < b => D[1] = Datum(a + 1))
  <2>1. n = 0 <=> a = b
    OBVIOUS
  <2>2. D = <<>> <=> n = 0
    <3> HIDE DEF D, n
    <3> QED BY <1>4, FramesAre
  <2>3. a < b => 1 \in 1 .. n
    OBVIOUS
  <2> QED BY <1>2, <2>1, <2>2, <2>3
<1> QED BY <1>4, <1>5, <1>6, <1>7 DEF D

\* A RECONCILE takes no seq.
LEMMA ReconcileGoesOn ==
    ASSUME NEW r \in AllFrames, r.t = "RECONCILE", NEW a \in Nat
    PROVE  <<r>> \in Seq(AllFrames) /\ Follows(a, <<r>>) /\ ReachesTo(a, <<r>>, a)
<1>1. <<r>> \in Seq(AllFrames) /\ DOMAIN <<r>> = {1} /\ <<r>>[1] = r
  OBVIOUS
<1> QED BY <1>1 DEF Follows, ReachesTo

\* Frames of an upload are frames, and stay so as more is handed over.
LEMMA UploadedAre ==
    ASSUME NEW w \in Nat, NEW h \in Nat, NEW h2 \in Nat, h <= h2
    PROVE  /\ Seq(Datas(h)) \subseteq Seq(Uploaded(w, h)) /\ Seq(Uploaded(w, h)) \subseteq Seq(Uploaded(w, h2))
           /\ Seq(Uploaded(w, h)) \subseteq Seq(AllFrames) /\ Datas(h) \subseteq Datas(h2)
           /\ Seq(Datas(h)) \subseteq Seq(AllFrames) /\ Datas(h) \subseteq AllFrames
           /\ Seq(Datas(h)) \subseteq Seq(Datas(h2))
<1>1. Datas(h) \subseteq Datas(h2) /\ Datas(h) \subseteq Uploaded(w, h)
  BY DEF Datas, Uploaded
<1>2. Uploaded(w, h) \subseteq Uploaded(w, h2)
  BY <1>1 DEF Uploaded
<1>3. Datas(h) \subseteq AllFrames
  BY DEF Datas, AllFrames
<1>4. Changes(w) \subseteq AllFrames
  BY DEF Changes, AllFrames
<1>5. Uploaded(w, h) \subseteq AllFrames
  BY <1>3, <1>4 DEF Uploaded
<1> QED BY <1>1, <1>2, <1>3, <1>5, SeqMonotonic

\* The plan's numbers.
LEMMA UploadPlanIs ==
    ASSUME uplan \in UploadPlans
    PROVE  /\ {uplan.sends, uplan.channels, uplan.wires, uplan.cuts, uplan.drops} \subseteq Nat
           /\ uplan.wires > 0 /\ 1 \in Chs /\ Conns \subseteq Nat \ {0} /\ Chs \subseteq Nat
           /\ Conns = 1 .. uplan.wires
  BY UploadPlansAssumption DEF Conns, Chs

\* What goes on from a body goes on from its end.
LEMMA GoesOnFrom ==
    ASSUME NEW O \in Seq(AllFrames), NEW X \in Seq(AllFrames), NEW F \in Seq(AllFrames),
           NEW last \in Nat, NEW h \in Nat, NEW h2 \in Nat, Follows(h, F), ReachesTo(h, F, h2),
           Follows(last, O \o X), ReachesTo(last, O \o X, h)
    PROVE  Follows(last, O \o (X \o F)) /\ ReachesTo(last, O \o (X \o F), h2)
<1>1. O \o X \in Seq(AllFrames) /\ O \o (X \o F) = (O \o X) \o F
  BY Joined, SMTT(180)
<1> QED BY <1>1, FollowsOn

\* So it does from one of two parts.
LEMMA GoesOnFromBoth ==
    ASSUME NEW O \in Seq(AllFrames), NEW X \in Seq(AllFrames), NEW Y \in Seq(AllFrames),
           NEW F \in Seq(AllFrames),
           NEW last \in Nat, NEW h \in Nat, NEW h2 \in Nat, Follows(h, F), ReachesTo(h, F, h2),
           Follows(last, O \o (X \o Y)), ReachesTo(last, O \o (X \o Y), h)
    PROVE  Follows(last, O \o (X \o (Y \o F))) /\ ReachesTo(last, O \o (X \o (Y \o F)), h2)
<1>1. X \o Y \in Seq(AllFrames)
  BY Joined
<1>2. X \in Seq(AllFrames) /\ Y \in Seq(AllFrames) /\ F \in Seq(AllFrames)
  OBVIOUS
<1>3. X \o (Y \o F) = (X \o Y) \o F
  BY <1>2, ConcatAssociative, SMTT(180)
<1> QED BY <1>1, <1>3, GoesOnFrom

\* A page whose RECONCILE goes is of the same type.
LEMMA DeclaredIs ==
    ASSUME NEW p \in Pages,
           NEW I \in [chs : SUBSET Chs, carried : Nat],
           NEW T \in [Chs -> {"none", "new", "declared", "open"}]
    PROVE  [p EXCEPT !.reconciling = TRUE, !.owed = FALSE, !.inFlight = I, !.st = T] \in Pages
  BY ZenonT(180) DEF Pages

\* Handing over and declaring are independent.
LEMMA HandOverCommutes ==
    ASSUME NEW p \in Pages, NEW b, NEW o, NEW I, NEW T, NEW h
    PROVE  [[p EXCEPT !.handed = h] EXCEPT !.reconciling = b, !.owed = o, !.inFlight = I, !.st = T]
         = [[p EXCEPT !.reconciling = b, !.owed = o, !.inFlight = I, !.st = T] EXCEPT !.handed = h]
  BY DEF Pages

-----------------------------------------------------------------------------
(* The page's handlers *)

\* A handler keeps the page good, takes back nothing it handed over and opens no wire.
Goes(p, q) == PageGood(q) /\ p.handed <= q.handed /\ q.last = p.last

\* What the handlers find.
UploadsStand == UploadTypes /\ us.last <= up.handed /\ \A w \in Conns : WireStands(w)

\* Frames that go on from those handed over keep the page's wire covered.
LEMMA SendsOn ==
    ASSUME UploadsStand, NEW p, PageGood(p), p.here, NEW h2 \in Nat, p.handed <= h2, h2 <= p.sent,
           NEW F \in Seq(Uploaded(p.wire, h2)), Follows(p.handed, F), ReachesTo(p.handed, F, h2),
           NEW q, q = SendFrames([p EXCEPT !.handed = h2], F)
    PROVE  /\ Goes(p, q) /\ q.here /\ q.handed = h2 /\ q.wire = p.wire /\ q.st = p.st
           /\ q.sent = p.sent /\ q.awaited = p.awaited /\ q.inFlight = p.inFlight
           /\ q.conn = p.conn
<1> DEFINE w == p.wire
           u == un[w]
<1>1. /\ p \in Pages /\ PageStands(p) /\ PageDeclares(p) /\ PageKeeps(p) /\ PageCovers(p)
      /\ PageAgrees(p)
  BY DEF PageGood, PageShape
<1>2. /\ w \in Conns /\ w # 0 /\ w \in Nat /\ u \in Wires /\ p.handed \in Nat /\ p.sent \in Nat
      /\ us.last \in Nat /\ p.stream \in {"active", "failed"} /\ p.confirmed \in BOOLEAN
      /\ p.acked \in Nat
  BY <1>1, UploadPlanIs DEF Pages, PageStands, UploadsStand, UploadTypes
<1>3. /\ F \in Seq(AllFrames) /\ p.out \in Seq(AllFrames) /\ p.unconfirmed \in Seq(AllFrames)
      /\ p.outbox \in Seq(AllFrames)
      /\ p.out \in Seq(Uploaded(w, h2)) /\ p.unconfirmed \in Seq(Uploaded(w, h2))
      /\ p.outbox \in Seq(Uploaded(w, h2))
      /\ u.openBody \in Seq(AllFrames) /\ u.uploadBody \in Seq(AllFrames)
      /\ u.batchBody \in Seq(AllFrames)
  BY <1>1, <1>2, UploadedAre, ZenonT(180) DEF PageKeeps, Wires, Pages
<1>4. /\ p.out \o F \in Seq(Uploaded(w, h2)) /\ p.unconfirmed \o F \in Seq(Uploaded(w, h2))
      /\ p.outbox \o F \in Seq(Uploaded(w, h2))
      /\ p.out \o F \in Seq(AllFrames) /\ p.unconfirmed \o F \in Seq(AllFrames)
      /\ p.outbox \o F \in Seq(AllFrames)
      /\ <<>> \in Seq(AllFrames) /\ <<>> \in Seq(Uploaded(w, h2))
  BY <1>3, ConcatProperties, EmptySeq
<1>7. /\ q.handed = h2 /\ q.wire = w /\ q.here /\ q.st = p.st /\ q.sent = p.sent /\ q.conn = p.conn
      /\ q.awaited = p.awaited /\ q.inFlight = p.inFlight /\ q.last = p.last
      /\ q.session = p.session /\ q.acked = p.acked /\ q.stream = p.stream
      /\ q.confirmed = p.confirmed /\ q.openPending = p.openPending /\ q.post = p.post
      /\ q.posted = p.posted /\ q.reconciling = p.reconciling
      /\ q.out = (IF p.stream = "active" THEN p.out \o F ELSE p.out)
      /\ q.unconfirmed = (IF p.stream = "active" THEN (IF p.confirmed THEN <<>> ELSE p.unconfirmed \o F)
                          ELSE p.unconfirmed)
      /\ q.outbox = (IF p.stream = "active" THEN p.outbox ELSE p.outbox \o F)
  BY <1>1 DEF SendFrames, Pages
<1>5. ASSUME NEW X \in Seq(AllFrames), Covers(p, u.openBody \o X)
      PROVE  Covers(q, u.openBody \o (X \o F))
  <2>1. Follows(us.last, u.openBody \o X) /\ ReachesTo(us.last, u.openBody \o X, p.handed)
    BY <1>5 DEF Covers
  <2>2. /\ Follows(us.last, u.openBody \o (X \o F))
        /\ ReachesTo(us.last, u.openBody \o (X \o F), h2)
    BY <1>2, <1>3, <2>1, GoesOnFrom
  <2> QED BY <1>7, <2>2 DEF Covers
<1>6. ASSUME NEW X \in Seq(AllFrames), NEW Y \in Seq(AllFrames), Covers(p, u.openBody \o (X \o Y))
      PROVE  Covers(q, u.openBody \o (X \o (Y \o F)))
  <2>1. /\ Follows(us.last, u.openBody \o (X \o Y))
        /\ ReachesTo(us.last, u.openBody \o (X \o Y), p.handed)
    BY <1>6 DEF Covers
  <2>2. /\ Follows(us.last, u.openBody \o (X \o (Y \o F)))
        /\ ReachesTo(us.last, u.openBody \o (X \o (Y \o F)), h2)
    BY <1>2, <1>3, <2>1, GoesOnFromBoth
  <2> QED BY <1>7, <2>2 DEF Covers
<1>8. q \in Pages
  BY <1>1, <1>4, ZenonT(180) DEF SendFrames, Pages
<1>9. PageStands(q)
  <2>1. PageStands(p) /\ p.acked <= h2
    BY <1>1, <1>2 DEF PageStands
  <2>2. CASE p.stream = "active"
    BY <1>2, <1>7, <2>1, <2>2, ZenonT(180) DEF PageStands
  <2>3. CASE p.stream = "failed"
    BY <1>2, <1>7, <2>1, <2>3, ZenonT(180) DEF PageStands
  <2> QED BY <1>2, <2>2, <2>3
<1>10. PageDeclares(q)
  BY <1>1, <1>2, <1>7, SMTT(180) DEF PageDeclares
<1>11. PageKeeps(q)
  BY <1>3, <1>4, <1>7 DEF PageKeeps
<1>12. PageAgrees(q)
  BY <1>1, <1>7 DEF PageAgrees
<1>13. PageCovers(q)
  <2> SUFFICES ASSUME MayTakeOf(w)
               PROVE  /\ p.stream = "active" /\ u.upload # "ended" =>
                             Covers(q, u.openBody \o (u.uploadBody \o q.out))
                      /\ p.stream = "active" /\ ~p.confirmed => Covers(q, u.openBody \o q.unconfirmed)
                      /\ p.stream = "failed" /\ u.batch \notin {"refused", "lost"} =>
                             Covers(q, u.openBody \o (u.batchBody \o q.outbox))
    BY <1>7 DEF PageCovers
  <2>1. /\ p.stream = "active" /\ u.upload # "ended" =>
               Covers(p, u.openBody \o (u.uploadBody \o p.out))
        /\ p.stream = "active" /\ ~p.confirmed => Covers(p, u.openBody \o p.unconfirmed)
        /\ p.stream = "failed" /\ u.batch \notin {"refused", "lost"} =>
               Covers(p, u.openBody \o (u.batchBody \o p.outbox))
    BY <1>1, <1>2 DEF PageCovers
  <2>2. ASSUME p.stream = "active", u.upload # "ended"
        PROVE  Covers(q, u.openBody \o (u.uploadBody \o q.out))
    BY <1>3, <1>6, <1>7, <2>1, <2>2
  <2>3. ASSUME p.stream = "active", ~p.confirmed PROVE Covers(q, u.openBody \o q.unconfirmed)
    BY <1>3, <1>5, <1>7, <2>1, <2>3
  <2>4. ASSUME p.stream = "failed", u.batch \notin {"refused", "lost"}
        PROVE  Covers(q, u.openBody \o (u.batchBody \o q.outbox))
    BY <1>3, <1>6, <1>7, <2>1, <2>4, ZenonT(180)
  <2> QED BY <2>2, <2>3, <2>4
<1> QED BY <1>7, <1>8, <1>9, <1>10, <1>11, <1>12, <1>13 DEF Goes, PageGood, PageShape

\* The page q is p with its new channels declared, and the RECONCILE that does in flight.
Declares(p, q) ==
    \E I \in [chs : SUBSET Chs, carried : Nat], T \in [Chs -> {"none", "new", "declared", "open"}] :
        /\ q = [p EXCEPT !.reconciling = TRUE, !.owed = FALSE, !.inFlight = I, !.st = T]
        /\ \A ch \in Chs : ch \in I.chs <=> p.st[ch] = "new"
        /\ \A ch \in Chs : T[ch] = IF ch \in I.chs THEN "declared" ELSE p.st[ch]

\* On the wire that has the session, the page may declare its new channels.
LEMMA DeclaresNew ==
    ASSUME UploadsStand, NEW p, PageGood(p), p.here, NEW q, Declares(p, q)
    PROVE  /\ Goes(p, q) /\ q.here /\ q.handed = p.handed /\ q.wire = p.wire /\ q.sent = p.sent
           /\ q.awaited = p.awaited /\ q.conn = p.conn
<1>0. PICK I \in [chs : SUBSET Chs, carried : Nat], T \in [Chs -> {"none", "new", "declared", "open"}] :
        /\ q = [p EXCEPT !.reconciling = TRUE, !.owed = FALSE, !.inFlight = I, !.st = T]
        /\ \A ch \in Chs : ch \in I.chs <=> p.st[ch] = "new"
        /\ \A ch \in Chs : T[ch] = IF ch \in I.chs THEN "declared" ELSE p.st[ch]
  BY DEF Declares
<1> DEFINE C == I.chs
<1>1. /\ p \in Pages /\ PageStands(p) /\ PageDeclares(p) /\ PageKeeps(p) /\ PageCovers(p)
      /\ PageAgrees(p)
  BY DEF PageGood, PageShape
<1>2. /\ p.wire # 0 /\ p.st \in [Chs -> {"none", "new", "declared", "open"}] /\ 1 \in Chs
  BY <1>1, UploadPlanIs DEF Pages, PageStands, UploadsStand, UploadTypes
<1>3. q \in Pages
  BY <1>0, <1>1, DeclaredIs
<1>4. /\ q.handed = p.handed /\ q.wire = p.wire /\ q.here /\ q.sent = p.sent /\ q.conn = p.conn
      /\ q.awaited = p.awaited /\ q.last = p.last
      /\ q.session = p.session /\ q.acked = p.acked /\ q.stream = p.stream
      /\ q.confirmed = p.confirmed /\ q.openPending = p.openPending /\ q.post = p.post
      /\ q.out = p.out /\ q.unconfirmed = p.unconfirmed /\ q.outbox = p.outbox
      /\ q.inFlight.chs = C
      /\ q.st = T
  BY <1>0, <1>1 DEF Pages
<1>5. /\ \A ch \in Chs : q.st[ch] = "open" <=> p.st[ch] = "open"
      /\ \A ch \in Chs : p.st[ch] # "none" => q.st[ch] # "none"
      /\ \A ch \in C : q.st[ch] = "declared"
      /\ p.awaited \subseteq Chs /\ C \subseteq Chs
  BY <1>0, <1>1, <1>2, <1>4 DEF Pages
<1>6. PageStands(q)
  BY <1>1, <1>2, <1>4, <1>5 DEF PageStands
<1>7. PageDeclares(q)
  BY <1>1, <1>2, <1>4, <1>5 DEF PageDeclares
<1>8. PageKeeps(q)
  BY <1>1, <1>4 DEF PageKeeps
<1>9. PageCovers(q)
  BY <1>1, <1>4 DEF PageCovers, Covers
<1>10. PageAgrees(q)
  BY <1>1, <1>4, <1>5 DEF PageAgrees
<1>11. p.handed \in Nat
  BY <1>1 DEF Pages
<1> QED BY <1>3, <1>4, <1>6, <1>7, <1>8, <1>9, <1>10, <1>11 DEF Goes, PageGood, PageShape

\* What the gate holds goes on from what was handed over.
LEMMA HeldGoesOn ==
    ASSUME UploadsStand, NEW p, PageGood(p), 1 \notin p.awaited
    PROVE  /\ Held(p) = Data(p.handed + 1, p.sent) /\ HandOver(p) = [p EXCEPT !.handed = p.sent]
           /\ Held(p) \in Seq(Uploaded(p.wire, p.sent)) /\ Held(p) \in Seq(AllFrames)
           /\ Follows(p.handed, Held(p)) /\ ReachesTo(p.handed, Held(p), p.sent)
           /\ p.handed \in Nat /\ p.sent \in Nat /\ p.handed <= p.sent /\ p.wire \in Nat
<1>1. /\ p.handed \in Nat /\ p.sent \in Nat /\ p.handed <= p.sent /\ p.wire \in Nat
  BY UploadPlanIs, SMTT(180) DEF PageGood, PageShape, PageStands, Pages, UploadsStand, UploadTypes
<1>2. Held(p) = Data(p.handed + 1, p.sent) /\ HandOver(p) = [p EXCEPT !.handed = p.sent]
  BY DEF Held, HandOver
<1> QED BY <1>1, <1>2, DataGoesOn, UploadedAre

\* The page hands over what it holds.
LEMMA HandsOver ==
    ASSUME UploadsStand, NEW p, PageGood(p), p.here
    PROVE  /\ Goes(p, SendFrames(HandOver(p), Held(p))) /\ SendFrames(HandOver(p), Held(p)).here
<1>1. 1 \notin p.awaited
  BY DEF PageGood, PageShape, PageDeclares
<1> QED BY <1>1, HeldGoesOn, SendsOn

\* The page declares its new channels, with what it holds behind.
LEMMA ReconcileGoes ==
    ASSUME UploadsStand, NEW p, PageGood(p), p.here
    PROVE  /\ Goes(p, SendsReconcile(p)) /\ SendsReconcile(p).here
<1> DEFINE C == {ch \in Chs : p.st[ch] = "new"}
           F == Held(p)
           n == IF F = <<>> THEN 0 ELSE F[1].n
           I == [chs |-> C, carried |-> n]
           T == [ch \in Chs |-> IF ch \in C /\ p.st[ch] = "new" THEN "declared" ELSE p.st[ch]]
           r == [p EXCEPT !.reconciling = TRUE, !.owed = FALSE, !.inFlight = I, !.st = T]
           R == [t |-> "RECONCILE", session |-> p.session, changes |-> TRUE, chs |-> C]
<1>1. /\ p \in Pages /\ PageStands(p) /\ PageDeclares(p) /\ 1 \notin p.awaited
      /\ p.session = p.wire /\ p.wire # 0 /\ p.st[1] = "open" /\ 1 \in Chs
      /\ p.wire \in Nat
  BY UploadPlanIs DEF PageGood, PageShape, PageStands, PageDeclares, Pages, UploadsStand, UploadTypes
<1>2. /\ F = Data(p.handed + 1, p.sent) /\ HandOver(p) = [p EXCEPT !.handed = p.sent]
      /\ F \in Seq(Uploaded(p.wire, p.sent)) /\ F \in Seq(AllFrames)
      /\ Follows(p.handed, F) /\ ReachesTo(p.handed, F, p.sent)
      /\ p.handed \in Nat /\ p.sent \in Nat /\ p.handed <= p.sent
  BY <1>1, HeldGoesOn
<1>3. n \in Nat
  <2>1. CASE p.handed = p.sent
    BY <1>2, <2>1, DataGoesOn
  <2>2. CASE p.handed < p.sent
    <3>1. F[1] = Datum(p.handed + 1)
      BY <1>2, <2>2, DataGoesOn
    <3> QED BY <1>2, <3>1 DEF Datum
  <2> QED BY <1>2, <2>1, <2>2
<1>4. SendsReconcile(p) = SendFrames([r EXCEPT !.handed = p.sent], <<R>> \o F)
  <2>1. p.session # NoConn /\ p.here
    BY <1>1 DEF NoConn
  <2>2. BuildReconcile(p, TRUE).frames = <<R>> \o F
    BY <2>1 DEF BuildReconcile
  <2>3. BuildReconcile(p, TRUE).page =
          [HandOver(p) EXCEPT !.reconciling = TRUE, !.owed = FALSE, !.inFlight = I,
             !.st = [ch \in Chs |-> IF ch \in C /\ @[ch] = "new" THEN "declared" ELSE @[ch]]]
    BY <2>1 DEF BuildReconcile
  <2>4. HandOver(p).st = p.st
    BY <1>1, <1>2 DEF Pages
  <2>5. BuildReconcile(p, TRUE).page =
          [[p EXCEPT !.handed = p.sent] EXCEPT !.reconciling = TRUE, !.owed = FALSE, !.inFlight = I,
             !.st = T]
    <3>1. [ch \in Chs |-> IF ch \in C /\ HandOver(p).st[ch] = "new" THEN "declared" ELSE HandOver(p).st[ch]]
            = T
      BY <2>4
    <3>2. BuildReconcile(p, TRUE).page =
            [HandOver(p) EXCEPT !.reconciling = TRUE, !.owed = FALSE, !.inFlight = I,
             !.st = [ch \in Chs |-> IF ch \in C /\ HandOver(p).st[ch] = "new" THEN "declared"
                                     ELSE HandOver(p).st[ch]]]
      BY <2>3
    <3> HIDE DEF T, I
    <3> QED BY <1>2, <3>1, <3>2
  <2>6. BuildReconcile(p, TRUE).page = [r EXCEPT !.handed = p.sent]
    <3> HIDE DEF I, T
    <3>1. p \in Pages
      BY <1>1
    <3>2. [[p EXCEPT !.handed = p.sent] EXCEPT !.reconciling = TRUE, !.owed = FALSE, !.inFlight = I,
             !.st = T] = [r EXCEPT !.handed = p.sent]
      BY <3>1, HandOverCommutes
    <3> QED BY <2>5, <3>2
  <2> QED BY <2>2, <2>6 DEF SendsReconcile
<1>5. /\ Goes(p, r) /\ r.here /\ r.handed = p.handed /\ r.wire = p.wire /\ r.sent = p.sent
  <2>1. I \in [chs : SUBSET Chs, carried : Nat] /\ I.chs = C
    BY <1>3
  <2>2. p.st \in [Chs -> {"none", "new", "declared", "open"}]
    BY <1>1 DEF Pages
  <2>3. T \in [Chs -> {"none", "new", "declared", "open"}]
    BY <2>2
  <2>4. \A ch \in Chs : T[ch] = IF ch \in C THEN "declared" ELSE p.st[ch]
    OBVIOUS
  <2>5. \A ch \in Chs : ch \in C <=> p.st[ch] = "new"
    OBVIOUS
  <2> HIDE DEF n, F, C, I, T
  <2>6. Declares(p, r)
    <3>1. /\ r = [p EXCEPT !.reconciling = TRUE, !.owed = FALSE, !.inFlight = I, !.st = T]
          /\ \A ch \in Chs : ch \in I.chs <=> p.st[ch] = "new"
          /\ \A ch \in Chs : T[ch] = IF ch \in I.chs THEN "declared" ELSE p.st[ch]
      BY <2>1, <2>4, <2>5
    <3> HIDE DEF r
    <3> QED BY <2>1, <2>3, <3>1, ZenonT(180) DEF Declares
  <2> HIDE DEF r
  <2> QED BY <2>6, DeclaresNew
<1>6. R \in AllFrames /\ R.t = "RECONCILE" /\ R \in Changes(p.wire)
  <2>1. C \subseteq Chs \ {1}
    BY <1>1
  <2> HIDE DEF C
  <2> QED BY <1>1, <2>1 DEF AllFrames, Changes
<1>7. <<R>> \in Seq(Uploaded(p.wire, p.sent))
  <2> HIDE DEF R
  <2>1. R \in Uploaded(p.wire, p.sent)
    BY <1>6 DEF Uploaded
  <2> QED BY <2>1
<1>8. /\ <<R>> \o F \in Seq(Uploaded(p.wire, p.sent))
      /\ Follows(p.handed, <<R>> \o F) /\ ReachesTo(p.handed, <<R>> \o F, p.sent)
  <2>1. /\ <<R>> \in Seq(AllFrames) /\ Follows(p.handed, <<R>>)
        /\ ReachesTo(p.handed, <<R>>, p.handed)
    BY <1>2, <1>6, ReconcileGoesOn
  <2>2. <<R>> \o F \in Seq(Uploaded(p.wire, p.sent))
    BY <1>2, <1>7, ConcatProperties
  <2> HIDE DEF R, F
  <2> QED BY <1>2, <2>1, <2>2, FollowsOn
<1>9. Goes(r, SendsReconcile(p)) /\ SendsReconcile(p).here
  <2> DEFINE G == <<R>> \o F
             h2 == p.sent
  <2>1. /\ PageGood(r) /\ r.here /\ h2 \in Nat /\ r.handed <= h2 /\ h2 <= r.sent
        /\ G \in Seq(Uploaded(r.wire, h2)) /\ Follows(r.handed, G) /\ ReachesTo(r.handed, G, h2)
        /\ SendsReconcile(p) = SendFrames([r EXCEPT !.handed = h2], G)
    <3> HIDE DEF r, R, F
    <3> QED BY <1>2, <1>4, <1>5, <1>8 DEF Goes
  <2> HIDE DEF r, R, F, G, h2
  <2> QED BY <2>1, SendsOn
<1> HIDE DEF r
<1> QED BY <1>5, <1>9 DEF Goes

\* What is known of a page that is good.
LEMMA PageFacts ==
    ASSUME UploadsStand, NEW p, PageGood(p)
    PROVE  /\ p \in Pages /\ PageStands(p) /\ PageDeclares(p) /\ PageKeeps(p) /\ PageCovers(p)
           /\ PageAgrees(p)
           /\ p.handed \in Nat /\ p.sent \in Nat /\ p.acked \in Nat /\ p.wire \in Nat /\ p.last \in Nat
           /\ p.session \in Nat /\ p.post \in Nat /\ us.last \in Nat
           /\ 1 \in Chs /\ (p.wire # 0 => p.wire \in Conns)
           /\ p.st \in [Chs -> {"none", "new", "declared", "open"}]
           /\ p.stream \in {"idle", "active", "failed"} /\ p.conn \in {"down", "opening", "open"}
           /\ Goes(p, p)
<1>1. /\ p \in Pages /\ PageStands(p) /\ PageDeclares(p) /\ PageKeeps(p) /\ PageCovers(p)
      /\ PageAgrees(p)
  BY DEF PageGood, PageShape
<1>2. (\A w \in Conns : w \in Nat /\ w # 0) /\ 1 \in Chs /\ us.last \in Nat
  BY UploadPlanIs DEF UploadsStand, UploadTypes
<1>3. /\ p.handed \in Nat /\ p.sent \in Nat /\ p.acked \in Nat /\ p.wire \in Nat /\ p.last \in Nat
      /\ p.session \in Nat /\ p.post \in Nat
      /\ (p.wire # 0 => p.wire \in Conns)
      /\ p.st \in [Chs -> {"none", "new", "declared", "open"}]
      /\ p.stream \in {"idle", "active", "failed"} /\ p.conn \in {"down", "opening", "open"}
  <2>1. /\ p.handed \in Nat /\ p.sent \in Nat /\ p.acked \in Nat
        /\ p.st \in [Chs -> {"none", "new", "declared", "open"}]
        /\ p.stream \in {"idle", "active", "failed"} /\ p.conn \in {"down", "opening", "open"}
    BY <1>1 DEF Pages
  <2>2. /\ p.wire \in Conns \cup {0} /\ p.last \in Conns \cup {0} /\ p.session \in Conns \cup {0}
        /\ p.post \in Conns \cup {0}
    BY <1>1 DEF Pages
  <2> QED BY <1>2, <2>1, <2>2
<1>4. Goes(p, p)
  BY <1>3 DEF Goes
<1> QED BY <1>1, <1>2, <1>3, <1>4

\* Handlers one after another.
LEMMA GoesThrough ==
    ASSUME UploadsStand, NEW p, NEW q, NEW r, Goes(p, q), Goes(q, r), p.handed \in Nat
    PROVE  Goes(p, r)
<1>1. q.handed \in Nat /\ r.handed \in Nat
  BY PageFacts DEF Goes
<1> QED BY <1>1 DEF Goes

\* A RECONCILE that is owed goes.
LEMMA DueGoes ==
    ASSUME UploadsStand, NEW p, PageGood(p), p.here
    PROVE  Goes(p, ReconcileDue(p)) /\ ReconcileDue(p).here
  BY ReconcileGoes, PageFacts DEF ReconcileDue

\* The wire opens.
LEMMA OpenGoes ==
    ASSUME UploadsStand, NEW p, p \in Pages, NEW q, q = [p EXCEPT !.conn = "open"], PageGood(q)
    PROVE  Goes(q, EnterOpen(p))
<1> DEFINE r == ReconcileDue(q)
<1>1. EnterOpen(p) = IF q.reconciling THEN q ELSE IF r.reconciling THEN r
                     ELSE SendFrames(HandOver(r), Held(r))
  BY DEF EnterOpen
<1>2. CASE q.reconciling
  BY <1>1, <1>2, PageFacts
<1>3. CASE ~q.reconciling
  <2>1. q.conn = "open"
    BY DEF Pages
  <2>2. PageStands(q) /\ PageDeclares(q) /\ q.handed \in Nat
    BY PageFacts
  <2>3. q.here
    <3>1. q.wire # 0
      BY <2>1, <2>2 DEF PageStands
    <3> QED BY <1>3, <2>2, <3>1 DEF PageDeclares
  <2>4. Goes(q, r) /\ r.here
    BY <2>3, DueGoes
  <2> HIDE DEF r
  <2>5. Goes(r, SendFrames(HandOver(r), Held(r)))
    BY <2>4, HandsOver DEF Goes
  <2>6. Goes(q, SendFrames(HandOver(r), Held(r)))
    BY <2>2, <2>4, <2>5, GoesThrough
  <2> QED BY <1>1, <1>3, <2>4, <2>6
<1> QED BY <1>2, <1>3

\* The page q is p that lost its wire.
Lost(p, q) ==
    /\ q.conn = "down" /\ q.wire = 0 /\ ~q.here /\ ~q.openPending /\ ~q.confirmed
    /\ q.inFlight.chs = {} /\ q.awaited = {} /\ q.unconfirmed = <<>> /\ q.out = <<>>
    /\ q.stream # "active" /\ q.post \in {p.post, 0} /\ q.last = p.last /\ q.session = p.session
    /\ q.acked = p.acked /\ q.handed = p.handed /\ q.sent = p.sent /\ q.st = p.st

\* A page that lost its wire has little to keep.
LEMMA LossGoes ==
    ASSUME UploadsStand, NEW p, PageGood(p), NEW q, q \in Pages, Lost(p, q)
    PROVE  Goes(p, q)
<1>1. /\ PageStands(p) /\ PageDeclares(p) /\ 1 \in Chs
      /\ p.handed \in Nat /\ p.sent \in Nat /\ p.acked \in Nat /\ p.wire \in Nat /\ p.last \in Nat
      /\ p.session \in Nat /\ p.post \in Nat
  BY PageFacts
<1>2. PageStands(q)
  BY <1>1 DEF PageStands, Lost
<1>3. PageDeclares(q)
  BY <1>1 DEF PageDeclares, Lost
<1>4. PageKeeps(q) /\ PageCovers(q) /\ PageAgrees(q)
  <2>1. <<>> \in Seq(Uploaded(q.wire, q.handed))
    BY EmptySeq
  <2> QED BY <2>1 DEF PageKeeps, PageCovers, PageAgrees, Lost
<1>5. p.handed <= q.handed /\ q.last = p.last
  BY <1>1 DEF Lost
<1> QED BY <1>2, <1>3, <1>4, <1>5 DEF Goes, PageGood, PageShape

\* A page whose wire is lost is of the same type.
LEMMA LostIs ==
    ASSUME NEW p \in Pages, NEW I \in [chs : SUBSET Chs, carried : Nat]
    PROVE  [p EXCEPT !.conn = "down", !.here = FALSE, !.reconciling = FALSE, !.owed = FALSE,
                     !.inFlight = I, !.awaited = {}] \in Pages
  BY ZenonT(180) DEF Pages

\* What it lost, and what it keeps.
LEMMA TransportLossIs ==
    ASSUME NEW p, p \in Pages, NEW q, q = TransportLoss(p)
    PROVE  /\ q \in Pages /\ q.conn = "down" /\ ~q.here /\ q.inFlight.chs = {} /\ q.awaited = {}
           /\ q.wire = p.wire /\ q.openPending = p.openPending /\ q.confirmed = p.confirmed
           /\ q.unconfirmed = p.unconfirmed /\ q.out = p.out /\ q.stream = p.stream
           /\ q.post = p.post /\ q.last = p.last /\ q.session = p.session /\ q.acked = p.acked
           /\ q.handed = p.handed /\ q.sent = p.sent /\ q.st = p.st /\ q.cut = p.cut
           /\ q.cutUploads = p.cutUploads
<1>1. q = [p EXCEPT !.conn = "down", !.here = FALSE, !.reconciling = FALSE, !.owed = FALSE,
                    !.inFlight = NoneInFlight, !.awaited = {}]
  BY DEF TransportLoss
<1>2. NoneInFlight \in [chs : SUBSET Chs, carried : Nat] /\ NoneInFlight.chs = {}
  BY DEF NoneInFlight
<1>3. q \in Pages
  <2>1. NoneInFlight \in [chs : SUBSET Chs, carried : Nat]
    BY <1>2
  <2>2. [p EXCEPT !.conn = "down", !.here = FALSE, !.reconciling = FALSE, !.owed = FALSE,
                  !.inFlight = NoneInFlight, !.awaited = {}] \in Pages
    BY <2>1, LostIs
  <2> QED BY <1>1, <2>2
<1> QED BY <1>1, <1>2, <1>3, SMTT(180) DEF Pages

\* The page q is p with its wire gone, but for what it keeps of it.
GoneFrom(p, q) ==
    /\ q \in Pages /\ q.wire = 0 /\ ~q.openPending /\ ~q.confirmed /\ q.unconfirmed = <<>>
    /\ q.out = p.out
    /\ q.stream # "active" /\ q.post = p.post /\ q.last = p.last /\ q.session = p.session
    /\ q.acked = p.acked /\ q.handed = p.handed /\ q.sent = p.sent /\ q.st = p.st
    /\ q.cutUploads = p.cutUploads

\* It may keep which wire it gave up, and which it aborts.
LEMMA GoneIs ==
    ASSUME NEW p \in Pages, NEW c \in SUBSET Nat, NEW a \in Conns \cup {0}, NEW s \in {"idle", "failed"},
           <<>> \in Seq(AllFrames)
    PROVE  /\ GoneFrom(p, [p EXCEPT !.wire = 0, !.openPending = FALSE, !.cut = c, !.stream = s,
                                   !.confirmed = FALSE, !.unconfirmed = <<>>])
           /\ GoneFrom(p, [p EXCEPT !.wire = 0, !.openPending = FALSE, !.abandoned = a, !.stream = s,
                                   !.confirmed = FALSE, !.unconfirmed = <<>>])
           /\ [p EXCEPT !.wire = 0, !.openPending = FALSE, !.cut = c, !.stream = s,
                        !.confirmed = FALSE, !.unconfirmed = <<>>].cut = c
<1>1. GoneFrom(p, [p EXCEPT !.wire = 0, !.openPending = FALSE, !.cut = c, !.stream = s,
                            !.confirmed = FALSE, !.unconfirmed = <<>>])
  <2> DEFINE d == [p EXCEPT !.wire = 0, !.openPending = FALSE, !.cut = c, !.stream = s,
                            !.confirmed = FALSE, !.unconfirmed = <<>>]
  <2>1. d \in Pages
    BY ZenonT(180) DEF Pages
  <2>2. /\ d.wire = 0 /\ ~d.openPending /\ ~d.confirmed /\ d.unconfirmed = <<>> /\ d.out = p.out
        /\ d.stream = s /\ d.post = p.post /\ d.last = p.last /\ d.session = p.session
        /\ d.acked = p.acked /\ d.handed = p.handed /\ d.sent = p.sent /\ d.st = p.st
        /\ d.cutUploads = p.cutUploads
    BY DEF Pages
  <2> HIDE DEF d
  <2>3. GoneFrom(p, d)
    BY <2>1, <2>2 DEF GoneFrom
  <2> QED BY <2>3 DEF d
<1>2. GoneFrom(p, [p EXCEPT !.wire = 0, !.openPending = FALSE, !.abandoned = a, !.stream = s,
                            !.confirmed = FALSE, !.unconfirmed = <<>>])
  <2> DEFINE d == [p EXCEPT !.wire = 0, !.openPending = FALSE, !.abandoned = a, !.stream = s,
                            !.confirmed = FALSE, !.unconfirmed = <<>>]
  <2>1. d \in Pages
    BY ZenonT(180) DEF Pages
  <2>2. /\ d.wire = 0 /\ ~d.openPending /\ ~d.confirmed /\ d.unconfirmed = <<>> /\ d.out = p.out
        /\ d.stream = s /\ d.post = p.post /\ d.last = p.last /\ d.session = p.session
        /\ d.acked = p.acked /\ d.handed = p.handed /\ d.sent = p.sent /\ d.st = p.st
        /\ d.cutUploads = p.cutUploads
    BY DEF Pages
  <2> HIDE DEF d
  <2>3. GoneFrom(p, d)
    BY <2>1, <2>2 DEF GoneFrom
  <2> QED BY <2>3 DEF d
<1>3. [p EXCEPT !.wire = 0, !.openPending = FALSE, !.cut = c, !.stream = s,
                !.confirmed = FALSE, !.unconfirmed = <<>>].cut = c
  BY DEF Pages
<1> QED BY <1>1, <1>2, <1>3

\* The wire given up before is closed.
LEMMA CloseAbandonedIs ==
    ASSUME NEW p \in Pages, NEW c \in SUBSET Nat
    PROVE  LET q == [p EXCEPT !.abandoned = 0, !.cut = c]
           IN  /\ q \in Pages /\ q.post = p.post /\ q.last = p.last /\ q.session = p.session
               /\ q.acked = p.acked /\ q.handed = p.handed /\ q.sent = p.sent /\ q.st = p.st
               /\ q.out = p.out /\ q.cutUploads = p.cutUploads /\ q.stream = p.stream
  BY ZenonT(180) DEF Pages

\* The wire closes.
LEMMA CloseGoes ==
    ASSUME UploadsStand, NEW p, PageGood(p), p.out = <<>>
    PROVE  Goes(p, CloseWire(p)) /\ CloseWire(p).out = <<>> /\ CloseWire(p).cut = p.cut \cup {p.wire}
           /\ CloseWire(p).cutUploads = p.cutUploads
<1> DEFINE d == [p EXCEPT !.wire = NoConn, !.openPending = FALSE, !.cut = @ \cup {p.wire},
                          !.stream = IF @ = "active" THEN "idle" ELSE @,
                          !.confirmed = FALSE, !.unconfirmed = <<>>]
           q == CloseWire(p)
           c == p.cut \cup {p.wire}
           s == IF p.stream = "active" THEN "idle" ELSE p.stream
<1>1. p \in Pages /\ p.wire \in Nat /\ p.stream \in {"idle", "active", "failed"}
  BY PageFacts
<1>2. p.cut \in SUBSET Nat
  BY <1>1 DEF Pages
<1>3. <<>> \in Seq(AllFrames) /\ c \in SUBSET Nat /\ s \in {"idle", "failed"}
  BY <1>1, <1>2, EmptySeq
<1>4. d = [p EXCEPT !.wire = 0, !.openPending = FALSE, !.cut = c, !.stream = s,
                    !.confirmed = FALSE, !.unconfirmed = <<>>]
  BY DEF NoConn
<1>5. q = TransportLoss(d)
  BY DEF CloseWire
<1> HIDE DEF d, q, c, s
<1>6. GoneFrom(p, d) /\ d.cut = c
  <2> DEFINE e == [p EXCEPT !.wire = 0, !.openPending = FALSE, !.cut = c, !.stream = s,
                            !.confirmed = FALSE, !.unconfirmed = <<>>]
  <2>1. GoneFrom(p, e) /\ e.cut = c
    BY <1>1, <1>3, GoneIs, ZenonT(180)
  <2>2. d = e
    BY <1>4
  <2> HIDE DEF e
  <2> QED BY <2>1, <2>2
<1>7. /\ q \in Pages /\ Lost(p, q) /\ q.out = <<>> /\ q.cut = c /\ q.cutUploads = p.cutUploads
  BY <1>5, <1>6, TransportLossIs DEF Lost, GoneFrom
<1>8. Goes(p, q)
  BY <1>7, LossGoes
<1> QED BY <1>7, <1>8 DEF q, c

\* The wire is given up, its batch POST's frames kept or not.
LEMMA AbandonGoes ==
    ASSUME UploadsStand, NEW p, PageGood(p), p.out = <<>>,
           NEW p2, p2 \in Pages, p2.post \in {p.post, 0}, p2.last = p.last, p2.session = p.session,
           p2.acked = p.acked, p2.handed = p.handed, p2.sent = p.sent, p2.st = p.st, p2.out = p.out
    PROVE  Goes(p, AbandonWire(p2))
<1> DEFINE b == IF p2.abandoned = NoConn THEN p2.cut ELSE p2.cut \cup {p2.abandoned}
           c == CloseAbandoned(p2)
           s == IF c.stream = "active" THEN "idle" ELSE c.stream
           d == [c EXCEPT !.wire = 0, !.openPending = FALSE, !.abandoned = p2.wire, !.stream = s,
                          !.confirmed = FALSE, !.unconfirmed = <<>>]
           q == AbandonWire(p2)
<1>1. /\ p2.abandoned \in Conns \cup {0} /\ p2.wire \in Conns \cup {0} /\ p2.cut \in SUBSET Nat
      /\ p2.stream \in {"idle", "active", "failed"}
  BY DEF Pages
<1>2. b \in SUBSET Nat
  <2>1. \A w \in Conns : w \in Nat
    BY UploadPlanIs DEF UploadsStand, UploadTypes
  <2>2. p2.abandoned \in Nat
    BY <1>1, <2>1
  <2> QED BY <1>1, <2>2
<1>3. c = [p2 EXCEPT !.abandoned = 0, !.cut = b]
  BY DEF CloseAbandoned, NoConn
<1>4. AbandonWire(p2) = TransportLoss(d)
  BY DEF AbandonWire, NoConn
<1> HIDE DEF b, c
<1>5. /\ c \in Pages /\ c.post = p2.post /\ c.last = p2.last /\ c.session = p2.session
      /\ c.acked = p2.acked /\ c.handed = p2.handed /\ c.sent = p2.sent /\ c.st = p2.st
      /\ c.out = p2.out /\ c.stream = p2.stream
  BY <1>2, <1>3, CloseAbandonedIs, ZenonT(180)
<1>6. s \in {"idle", "failed"} /\ <<>> \in Seq(AllFrames)
  BY <1>1, <1>5, EmptySeq
<1> HIDE DEF s
<1>7. GoneFrom(c, d)
  BY <1>1, <1>5, <1>6, GoneIs
<1> HIDE DEF d, q
<1>8. q \in Pages /\ Lost(p, q)
  BY <1>4, <1>5, <1>7, TransportLossIs DEF Lost, q, GoneFrom
<1>9. Goes(p, q)
  BY <1>8, LossGoes
<1> QED BY <1>9 DEF q

\* The page q is p, but for what none of its wire's frames depend on.
SameFrames(p, q) ==
    /\ q.wire = p.wire /\ q.last = p.last /\ q.session = p.session /\ q.here = p.here
    /\ q.handed = p.handed /\ q.acked = p.acked /\ q.out = p.out /\ q.post = p.post

\* A send is held till the gate opens.
LEMMA SendGoes ==
    ASSUME UploadsStand, NEW p, PageGood(p)
    PROVE  LET q == [p EXCEPT !.sent = @ + 1]
           IN  Goes(p, IF SendsAreOpen(q) /\ 1 \notin q.awaited THEN SendFrames(HandOver(q), Held(q)) ELSE q)
<1> DEFINE q == [p EXCEPT !.sent = @ + 1]
<1>1. /\ p \in Pages /\ PageStands(p) /\ PageDeclares(p) /\ PageKeeps(p) /\ PageCovers(p)
      /\ PageAgrees(p) /\ p.handed \in Nat /\ p.sent \in Nat
  BY PageFacts
<1>2. q \in Pages
  <2> DEFINE n == p.sent + 1
  <2>1. n \in Nat /\ q = [p EXCEPT !.sent = n]
    BY <1>1
  <2> HIDE DEF n, q
  <2> QED BY <1>1, <2>1, ZenonT(180) DEF Pages
<1>3. /\ SameFrames(p, q) /\ q.sent = p.sent + 1 /\ q.st = p.st /\ q.conn = p.conn
      /\ q.openPending = p.openPending /\ q.reconciling = p.reconciling /\ q.inFlight = p.inFlight
      /\ q.awaited = p.awaited /\ q.stream = p.stream /\ q.confirmed = p.confirmed
      /\ q.unconfirmed = p.unconfirmed /\ q.outbox = p.outbox
  BY <1>1 DEF Pages, SameFrames
<1> HIDE DEF q
<1>4. PageStands(q)
  BY <1>1, <1>3 DEF PageStands, SameFrames
<1>5. PageDeclares(q)
  BY <1>1, <1>3 DEF PageDeclares, SameFrames
<1>6. PageKeeps(q)
  BY <1>1, <1>3 DEF PageKeeps, SameFrames
<1>7. PageCovers(q)
  BY <1>1, <1>3 DEF PageCovers, Covers, SameFrames
<1>8. PageAgrees(q)
  BY <1>1, <1>3 DEF PageAgrees, SameFrames
<1>9. Goes(p, q)
  BY <1>1, <1>2, <1>3, <1>4, <1>5, <1>6, <1>7, <1>8 DEF Goes, PageGood, PageShape, SameFrames
<1>10. ASSUME SendsAreOpen(q), 1 \notin q.awaited PROVE Goes(p, SendFrames(HandOver(q), Held(q)))
  <2>1. q.wire # 0
    BY <1>4, <1>10 DEF PageStands, SendsAreOpen
  <2>2. q.here
    BY <1>5, <1>10, <2>1 DEF PageDeclares, SendsAreOpen
  <2>3. Goes(q, SendFrames(HandOver(q), Held(q)))
    BY <1>9, <2>2, HandsOver DEF Goes
  <2> QED BY <1>1, <1>9, <2>3, GoesThrough
<1>11. Goes(p, IF SendsAreOpen(q) /\ 1 \notin q.awaited THEN SendFrames(HandOver(q), Held(q)) ELSE q)
  BY <1>9, <1>10
<1> QED BY <1>11 DEF q

\* A channel registers, behind channel 1.
LEMMA RegisterGoes ==
    ASSUME UploadsStand, NEW p, PageGood(p), NEW ch \in Chs, p.st[ch] = "none",
           ch # 1 => p.st[1] # "none", NEW o \in BOOLEAN
    PROVE  Goes(p, [p EXCEPT !.st[ch] = "new", !.owed = o])
<1> DEFINE q == [p EXCEPT !.st[ch] = "new", !.owed = o]
           T == [p.st EXCEPT ![ch] = "new"]
<1>1. /\ p \in Pages /\ PageStands(p) /\ PageDeclares(p) /\ PageKeeps(p) /\ PageCovers(p)
      /\ PageAgrees(p) /\ p.handed \in Nat /\ p.sent \in Nat /\ 1 \in Chs
      /\ p.st \in [Chs -> {"none", "new", "declared", "open"}]
  BY PageFacts
<1>2. /\ T \in [Chs -> {"none", "new", "declared", "open"}] /\ T[ch] = "new"
      /\ \A c \in Chs : c # ch => T[c] = p.st[c]
      /\ \A c \in Chs : (T[c] = "open" <=> p.st[c] = "open")
                        /\ (T[c] \in {"declared", "open"} <=> p.st[c] \in {"declared", "open"})
  BY <1>1
<1>3. q = [p EXCEPT !.st = T, !.owed = o]
  BY <1>1 DEF Pages
<1> HIDE DEF q, T
<1>4. q \in Pages
  BY <1>1, <1>2, <1>3, ZenonT(180) DEF Pages
<1>5. /\ SameFrames(p, q) /\ q.sent = p.sent /\ q.st = T /\ q.conn = p.conn
      /\ q.openPending = p.openPending /\ q.reconciling = p.reconciling /\ q.inFlight = p.inFlight
      /\ q.awaited = p.awaited /\ q.stream = p.stream /\ q.confirmed = p.confirmed
      /\ q.unconfirmed = p.unconfirmed /\ q.outbox = p.outbox
  BY <1>1, <1>3 DEF Pages, SameFrames
<1>6. T[1] # "none" /\ (p.st[1] # "none" => T[1] = p.st[1])
  BY <1>1, <1>2
<1>7. PageStands(q)
  BY <1>1, <1>5, <1>6 DEF PageStands, SameFrames
<1>8. PageDeclares(q)
  <2>1. p.inFlight.chs \subseteq Chs /\ p.awaited \subseteq Chs
    BY <1>1 DEF Pages
  <2>2. \A c \in p.inFlight.chs \cup p.awaited : c # ch
    BY <1>1 DEF PageDeclares
  <2> QED BY <1>1, <1>2, <1>5, <1>6, <2>1, <2>2 DEF PageDeclares, SameFrames
<1>9. PageKeeps(q)
  BY <1>1, <1>5 DEF PageKeeps, SameFrames
<1>10. PageCovers(q)
  BY <1>1, <1>5 DEF PageCovers, Covers, SameFrames
<1>11. PageAgrees(q)
  BY <1>1, <1>2, <1>5 DEF PageAgrees, SameFrames
<1>12. Goes(p, q)
  BY <1>1, <1>4, <1>5, <1>7, <1>8, <1>9, <1>10, <1>11 DEF Goes, PageGood, PageShape, SameFrames
<1> QED BY <1>12 DEF q

\* The open's headers came: the wire opens unless an upload is to be acknowledged.
LEMMA AnswerGoes ==
    ASSUME UploadsStand, NEW p, PageGood(p), p.openPending
    PROVE  LET q == [p EXCEPT !.openPending = FALSE]
           IN  Goes(p, IF q.stream = "active" THEN q ELSE EnterOpen(q))
<1> DEFINE q == [p EXCEPT !.openPending = FALSE]
           r == [q EXCEPT !.conn = "open"]
<1>1. /\ p \in Pages /\ PageStands(p) /\ PageDeclares(p) /\ PageKeeps(p) /\ PageCovers(p)
      /\ PageAgrees(p) /\ p.handed \in Nat /\ p.sent \in Nat
      /\ p.stream \in {"idle", "active", "failed"}
  BY PageFacts
<1>2. p.conn = "opening" /\ ~p.here /\ p.wire # 0
  BY <1>1 DEF PageStands
<1>3. /\ q \in Pages /\ SameFrames(p, q) /\ q.sent = p.sent /\ q.st = p.st /\ q.conn = p.conn
      /\ ~q.openPending /\ q.reconciling = p.reconciling /\ q.inFlight = p.inFlight
      /\ q.awaited = p.awaited /\ q.stream = p.stream /\ q.confirmed = p.confirmed
      /\ q.unconfirmed = p.unconfirmed /\ q.outbox = p.outbox
  BY <1>1, ZenonT(180) DEF Pages, SameFrames
<1> HIDE DEF q
<1>4. /\ r \in Pages /\ SameFrames(p, r) /\ r.sent = p.sent /\ r.st = p.st /\ r.conn = "open"
      /\ ~r.openPending /\ r.reconciling = p.reconciling /\ r.inFlight = p.inFlight
      /\ r.awaited = p.awaited /\ r.stream = p.stream /\ r.confirmed = p.confirmed
      /\ r.unconfirmed = p.unconfirmed /\ r.outbox = p.outbox
  BY <1>3, ZenonT(180) DEF Pages, SameFrames
<1> HIDE DEF r
<1>5. ASSUME NEW s, s \in {q, r}, PageStands(s) PROVE Goes(p, s)
  <2>1. /\ s \in Pages /\ SameFrames(p, s) /\ s.sent = p.sent /\ s.st = p.st
        /\ s.reconciling = p.reconciling /\ s.inFlight = p.inFlight
        /\ s.awaited = p.awaited /\ s.stream = p.stream /\ s.confirmed = p.confirmed
        /\ s.unconfirmed = p.unconfirmed /\ s.outbox = p.outbox
    BY <1>3, <1>4, <1>5
  <2>2. PageDeclares(s)
    BY <1>1, <2>1 DEF PageDeclares, SameFrames
  <2>3. PageKeeps(s)
    BY <1>1, <2>1 DEF PageKeeps, SameFrames
  <2>4. PageCovers(s)
    BY <1>1, <2>1 DEF PageCovers, Covers, SameFrames
  <2>5. PageAgrees(s)
    BY <1>1, <2>1 DEF PageAgrees, SameFrames
  <2> QED BY <1>1, <1>5, <2>1, <2>2, <2>3, <2>4, <2>5 DEF Goes, PageGood, PageShape, SameFrames
<1>6. CASE p.stream = "active"
  <2>1. PageStands(q)
    BY <1>1, <1>2, <1>3, <1>6 DEF PageStands, SameFrames
  <2>2. Goes(p, q) /\ q.stream = "active"
    BY <1>3, <1>5, <1>6, <2>1
  <2> QED BY <2>2 DEF q
<1>7. CASE p.stream # "active"
  <2>1. PageStands(r)
    BY <1>1, <1>2, <1>4, <1>7 DEF PageStands, SameFrames
  <2>2. Goes(p, r) /\ PageGood(r)
    BY <1>5, <2>1 DEF Goes
  <2>3. Goes(r, EnterOpen(q))
    BY <1>3, <2>2, OpenGoes DEF r
  <2>4. Goes(p, EnterOpen(q)) /\ q.stream # "active"
    BY <1>1, <1>3, <1>7, <2>2, <2>3, GoesThrough
  <2> QED BY <2>4 DEF q
<1> QED BY <1>6, <1>7

\* The upload is acknowledged: its frames need not be kept.
LEMMA ConfirmGoes ==
    ASSUME UploadsStand, NEW p, PageGood(p), Settling(p), p.stream = "active"
    PROVE  Goes(p, ConfirmUpload(p))
<1> DEFINE q == [p EXCEPT !.confirmed = TRUE, !.unconfirmed = <<>>]
           r == [q EXCEPT !.conn = "open"]
<1>1. /\ p \in Pages /\ PageStands(p) /\ PageDeclares(p) /\ PageKeeps(p) /\ PageCovers(p)
      /\ PageAgrees(p) /\ p.handed \in Nat /\ p.sent \in Nat
      /\ p.conn = "opening" /\ ~p.openPending
  BY PageFacts DEF Settling
<1>2. p.wire # 0 /\ <<>> \in Seq(AllFrames) /\ <<>> \in Seq(Uploaded(p.wire, p.handed))
  BY <1>1, EmptySeq DEF PageStands
<1>3. /\ q \in Pages /\ SameFrames(p, q) /\ q.sent = p.sent /\ q.st = p.st
      /\ ~q.openPending /\ q.reconciling = p.reconciling /\ q.inFlight = p.inFlight
      /\ q.awaited = p.awaited /\ q.stream = p.stream /\ q.confirmed
      /\ q.unconfirmed = <<>> /\ q.outbox = p.outbox
  BY <1>1, <1>2, ZenonT(180) DEF Pages, SameFrames
<1> HIDE DEF q
<1>4. /\ r \in Pages /\ SameFrames(p, r) /\ r.sent = p.sent /\ r.st = p.st /\ r.conn = "open"
      /\ ~r.openPending /\ r.reconciling = p.reconciling /\ r.inFlight = p.inFlight
      /\ r.awaited = p.awaited /\ r.stream = p.stream /\ r.confirmed
      /\ r.unconfirmed = <<>> /\ r.outbox = p.outbox
  BY <1>3, ZenonT(180) DEF Pages, SameFrames
<1> HIDE DEF r
<1>5. PageStands(r)
  BY <1>1, <1>2, <1>4 DEF PageStands, SameFrames
<1>6. PageDeclares(r)
  BY <1>1, <1>4 DEF PageDeclares, SameFrames
<1>7. PageKeeps(r)
  BY <1>1, <1>2, <1>4 DEF PageKeeps, SameFrames
<1>8. PageCovers(r)
  BY <1>1, <1>4 DEF PageCovers, Covers, SameFrames
<1>9. PageAgrees(r)
  BY <1>1, <1>4 DEF PageAgrees, SameFrames
<1>10. Goes(p, r) /\ PageGood(r)
  BY <1>1, <1>4, <1>5, <1>6, <1>7, <1>8, <1>9 DEF Goes, PageGood, PageShape, SameFrames
<1>11. Goes(r, EnterOpen(q))
  BY <1>3, <1>10, OpenGoes DEF r
<1>12. Goes(p, EnterOpen(q))
  BY <1>1, <1>10, <1>11, GoesThrough
<1> QED BY <1>12 DEF q, ConfirmUpload

\* The upload is given up: all it was written goes again.
LEMMA AbandonUploadGoes ==
    ASSUME UploadsStand, NEW p, PageGood(p), Settling(p), p.out = <<>>
    PROVE  Goes(p, AbandonUpload(p))
<1> DEFINE b == p.unconfirmed \o p.outbox
           c == p.cutUploads \cup {p.wire}
           q == [p EXCEPT !.stream = "failed", !.cutUploads = c, !.outbox = b, !.unconfirmed = <<>>]
           r == [q EXCEPT !.conn = "open"]
           u == un[p.wire]
<1>1. /\ p \in Pages /\ PageStands(p) /\ PageDeclares(p) /\ PageKeeps(p) /\ PageCovers(p)
      /\ PageAgrees(p) /\ p.handed \in Nat /\ p.sent \in Nat /\ p.wire \in Nat
      /\ p.conn = "opening" /\ ~p.openPending /\ (p.wire # 0 => p.wire \in Conns)
  BY PageFacts DEF Settling
<1>2. /\ p.wire # 0 /\ p.stream = "active" /\ ~p.confirmed /\ p.outbox = <<>> /\ p.post # p.wire
  BY <1>1 DEF PageStands
<1>3. /\ <<>> \in Seq(AllFrames) /\ p.unconfirmed \in Seq(AllFrames)
      /\ p.unconfirmed \in Seq(Uploaded(p.wire, p.handed))
  BY <1>1, <1>2, EmptySeq DEF PageKeeps, Pages
<1>4. b = p.unconfirmed /\ b \in Seq(AllFrames) /\ b \in Seq(Uploaded(p.wire, p.handed))
  BY <1>2, <1>3, Joined
<1>5. c \in SUBSET Nat
  <2>1. p.cutUploads \in SUBSET Nat
    BY <1>1 DEF Pages
  <2> QED BY <1>1, <2>1
<1>6. AbandonUpload(p) = EnterOpen(q)
  BY DEF AbandonUpload
<1> HIDE DEF b, c
<1>7. /\ q \in Pages /\ SameFrames(p, q) /\ q.sent = p.sent /\ q.st = p.st
      /\ ~q.openPending /\ q.reconciling = p.reconciling /\ q.inFlight = p.inFlight
      /\ q.awaited = p.awaited /\ q.stream = "failed" /\ ~q.confirmed
      /\ q.unconfirmed = <<>> /\ q.outbox = b
  BY <1>1, <1>2, <1>3, <1>4, <1>5, ZenonT(180) DEF Pages, SameFrames
<1> HIDE DEF q
<1>8. /\ r \in Pages /\ SameFrames(p, r) /\ r.sent = p.sent /\ r.st = p.st /\ r.conn = "open"
      /\ ~r.openPending /\ r.reconciling = p.reconciling /\ r.inFlight = p.inFlight
      /\ r.awaited = p.awaited /\ r.stream = "failed" /\ ~r.confirmed
      /\ r.unconfirmed = <<>> /\ r.outbox = b
  BY <1>7, ZenonT(180) DEF Pages, SameFrames
<1> HIDE DEF r
<1>9. PageStands(r)
  BY <1>1, <1>2, <1>8 DEF PageStands, SameFrames
<1>10. PageDeclares(r)
  BY <1>1, <1>2, <1>4, <1>8 DEF PageDeclares, SameFrames
<1>11. PageKeeps(r)
  <2>1. <<>> \in Seq(Uploaded(p.wire, p.handed))
    BY EmptySeq
  <2> QED BY <1>1, <1>4, <1>8, <2>1 DEF PageKeeps, SameFrames
<1>12. PageCovers(r)
  <2>1. u.batch = "none" /\ u.batchBody = <<>>
    BY <1>1, <1>2 DEF PageAgrees, UploadsStand, WireStands
  <2>2. <<>> \o b = b
    BY <1>4, Joined
  <2>3. MayTakeOf(p.wire) /\ p.here => Covers(p, u.openBody \o b)
    BY <1>1, <1>2, <1>4 DEF PageCovers
  <2> QED BY <1>1, <1>2, <1>8, <2>1, <2>2, <2>3 DEF PageCovers, Covers, SameFrames
<1>13. PageAgrees(r)
  BY <1>1, <1>8 DEF PageAgrees, SameFrames
<1>14. Goes(p, r) /\ PageGood(r)
  BY <1>1, <1>8, <1>9, <1>10, <1>11, <1>12, <1>13 DEF Goes, PageGood, PageShape, SameFrames
<1>15. Goes(r, EnterOpen(q))
  BY <1>7, <1>14, OpenGoes DEF r
<1> QED BY <1>1, <1>6, <1>14, <1>15, GoesThrough

\* A RECONCILED the page may read on its wire.
Answers(p, f) ==
    /\ f.chs \subseteq Chs /\ f.last \in Nat /\ f.last <= us.last /\ f.session = p.wire /\ p.wire # 0
    /\ ~Unread(p.wire) /\ un[p.wire].wire # "none" /\ ~p.openPending
    /\ ~p.here => f.chs = p.inFlight.chs
    /\ un[p.wire].wire = "open" => f.chs \subseteq us.holds[p.wire]

\* What the channels are after it: those it has are open.
StatesAfter(p, f) ==
    [ch \in Chs |-> IF ch \in p.inFlight.chs \cap f.chs THEN "open"
                    ELSE IF ch \in (p.inFlight.chs \ f.chs)
                                     \ {c \in p.inFlight.chs \ f.chs : p.st[c] # "open"} THEN "ended"
                    ELSE p.st[ch]]

AwaitedAfter(p, f) ==
    (p.awaited \ p.inFlight.chs) \cup {ch \in p.inFlight.chs \ f.chs : p.st[ch] # "open"}

AckedAfter(p, f) == IF 1 \in p.inFlight.chs \cap f.chs THEN f.last ELSE p.acked

\* The page attached, before it sends anything.
AttachedPage(p, f) ==
    [CloseAbandoned(p) EXCEPT !.session = f.session, !.here = TRUE, !.inFlight = NoneInFlight,
                              !.awaited = AwaitedAfter(p, f), !.acked = AckedAfter(p, f),
                              !.st = StatesAfter(p, f)]

ReplayFor(p, f) ==
    IF 1 \notin p.inFlight.chs \cap f.chs THEN <<>>
    ELSE Data(f.last + 1, IF p.inFlight.carried = 0 THEN p.handed ELSE p.inFlight.carried - 1)

\* What it then sends.
DrainedPage(p, f) ==
    LET q == AttachedPage(p, f)
    IN  SendFrames(IF q.st[1] = "open" THEN HandOver(q) ELSE q,
                   ReplayFor(p, f) \o (IF q.st[1] = "open" THEN Held(q) ELSE <<>>))

\* A RECONCILED attaches, drains, and has the next RECONCILE sent.
LEMMA ApplyIs ==
    ASSUME UploadsStand, NEW p, p \in Pages, NEW f
    PROVE  ApplyReconciled(p, f) =
             IF \E ch \in Chs : AttachedPage(p, f).st[ch] = "new" THEN SendsReconcile(DrainedPage(p, f))
             ELSE [DrainedPage(p, f) EXCEPT !.reconciling = FALSE]
<1> DEFINE b == IF p.abandoned = NoConn THEN p.cut ELSE p.cut \cup {p.abandoned}
           c == CloseAbandoned(p)
<1>1. p.abandoned \in Conns \cup {0} /\ p.cut \in SUBSET Nat
  BY DEF Pages
<1>2. b \in SUBSET Nat
  <2>1. \A w \in Conns : w \in Nat
    BY UploadPlanIs DEF UploadsStand, UploadTypes
  <2>2. p.abandoned \in Nat
    BY <1>1, <2>1
  <2> QED BY <1>1, <2>2
<1>3. c = [p EXCEPT !.abandoned = 0, !.cut = b]
  BY DEF CloseAbandoned, NoConn
<1>4. c.awaited = p.awaited /\ c.acked = p.acked /\ c.st = p.st
  BY <1>3 DEF Pages
<1> HIDE DEF b, c
<1>5. [c EXCEPT !.session = f.session, !.here = TRUE, !.inFlight = NoneInFlight,
                !.awaited = (@ \ p.inFlight.chs) \cup {ch \in p.inFlight.chs \ f.chs : p.st[ch] # "open"},
                !.acked = IF 1 \in p.inFlight.chs \cap f.chs THEN f.last ELSE @,
                !.st = [ch \in Chs |-> IF ch \in p.inFlight.chs \cap f.chs THEN "open"
                                       ELSE IF ch \in (p.inFlight.chs \ f.chs)
                                               \ {e \in p.inFlight.chs \ f.chs : p.st[e] # "open"}
                                            THEN "ended" ELSE @[ch]]]
      = AttachedPage(p, f)
  BY <1>4 DEF AttachedPage, AwaitedAfter, AckedAfter, StatesAfter, c
<1> QED BY <1>5 DEF ApplyReconciled, DrainedPage, ReplayFor, c

\* The page q is p with its wire attached: what that leaves as it was.
AttachedTo(p, q) ==
    /\ q \in Pages /\ q.here /\ q.wire = p.wire /\ q.last = p.last /\ q.conn = p.conn
    /\ q.openPending = p.openPending /\ q.reconciling = p.reconciling /\ q.sent = p.sent
    /\ q.handed = p.handed /\ q.stream = p.stream /\ q.confirmed = p.confirmed
    /\ q.unconfirmed = p.unconfirmed /\ q.outbox = p.outbox /\ q.post = p.post /\ q.out = p.out
    /\ q.cutUploads = p.cutUploads

\* What closing the wire given up, and then attaching, makes of a page.
Closed(p, b) == [p EXCEPT !.abandoned = 0, !.cut = b]
Attached(p, s, I, A, k, T) ==
    [p EXCEPT !.session = s, !.here = TRUE, !.inFlight = I, !.awaited = A, !.acked = k, !.st = T]

\* Attaching is of the page's type.
LEMMA AttachedTypes ==
    ASSUME NEW p \in Pages, NEW s \in Conns \cup {0}, NEW I \in [chs : SUBSET Chs, carried : Nat],
           NEW A \in SUBSET Chs, NEW k \in Nat, NEW T \in [Chs -> {"none", "new", "declared", "open"}]
    PROVE  LET q == Attached(p, s, I, A, k, T)
           IN  /\ AttachedTo(p, q) /\ q.session = s /\ q.inFlight = I /\ q.awaited = A /\ q.acked = k
               /\ q.st = T
<1> DEFINE q == Attached(p, s, I, A, k, T)
<1>1. q \in Pages
  BY ZenonT(180) DEF Pages, Attached
<1>2. /\ AttachedTo(p, q) /\ q.session = s /\ q.inFlight = I /\ q.awaited = A /\ q.acked = k
      /\ q.st = T
  BY <1>1, ZenonT(180) DEF AttachedTo, Pages, Attached
<1> QED BY <1>2

\* So is closing the wire given up before.
LEMMA ClosedTypes ==
    ASSUME NEW p \in Pages, NEW b \in SUBSET Nat
    PROVE  LET c == Closed(p, b)
           IN  /\ c \in Pages /\ c.wire = p.wire /\ c.last = p.last /\ c.conn = p.conn
               /\ c.openPending = p.openPending /\ c.reconciling = p.reconciling /\ c.sent = p.sent
               /\ c.handed = p.handed /\ c.stream = p.stream /\ c.confirmed = p.confirmed
               /\ c.unconfirmed = p.unconfirmed /\ c.outbox = p.outbox /\ c.post = p.post
               /\ c.out = p.out /\ c.cutUploads = p.cutUploads
<1>1. Closed(p, b) \in Pages
  BY ZenonT(180) DEF Pages, Closed
<1> QED BY <1>1 DEF Pages, Closed

\* No channel ends, and the page's own is open.
LEMMA StatesAre ==
    ASSUME UploadsStand, NEW p, PageGood(p), us.last <= p.handed, NEW f, Answers(p, f),
           NEW T, T = StatesAfter(p, f),
           NEW A, A = AwaitedAfter(p, f), NEW k, k = AckedAfter(p, f)
    PROVE  /\ T \in [Chs -> {"none", "new", "declared", "open"}] /\ A \in SUBSET Chs /\ k \in Nat
           /\ T[1] = "open" /\ 1 \notin A /\ (\A ch \in A : T[ch] # "none")
           /\ \A ch \in Chs : T[ch] = "open" => ch \in f.chs \/ (p.here /\ p.st[ch] = "open")
           /\ k <= p.handed
           /\ p.here => 1 \notin p.inFlight.chs /\ k = p.acked
           /\ ~p.here => 1 \in p.inFlight.chs \cap f.chs /\ k = f.last
<1>1. /\ p \in Pages /\ PageStands(p) /\ PageDeclares(p) /\ p.handed \in Nat /\ p.acked \in Nat /\ 1 \in Chs
      /\ p.st \in [Chs -> {"none", "new", "declared", "open"}]
  BY PageFacts
<1>2. p.inFlight.chs \subseteq Chs /\ p.awaited \subseteq Chs
  BY <1>1 DEF Pages
<1>3. /\ f.chs \subseteq Chs /\ f.last \in Nat /\ f.last <= us.last /\ p.wire # 0
      /\ (~p.here => f.chs = p.inFlight.chs)
  BY DEF Answers
<1>5. /\ \A ch \in p.inFlight.chs \cup p.awaited : p.st[ch] # "none"
      /\ 1 \notin p.awaited
      /\ p.here => p.st[1] = "open" /\ \A ch \in p.inFlight.chs : p.st[ch] # "open"
      /\ ~p.here => /\ 1 \in p.inFlight.chs
                    /\ \A ch \in Chs : p.st[ch] \in {"declared", "open"} => ch \in p.inFlight.chs
  BY <1>1, <1>3 DEF PageDeclares
<1>6. ASSUME NEW ch \in Chs
      PROVE  T[ch] = IF ch \in p.inFlight.chs \cap f.chs THEN "open" ELSE p.st[ch]
  <2>1. ch \notin (p.inFlight.chs \ f.chs) \ {c \in p.inFlight.chs \ f.chs : p.st[c] # "open"}
    BY <1>3, <1>5
  <2> QED BY <2>1 DEF StatesAfter
<1>7. T \in [Chs -> {"none", "new", "declared", "open"}]
  <2>1. T = [ch \in Chs |-> T[ch]]
    BY DEF StatesAfter
  <2>2. \A ch \in Chs : T[ch] \in {"none", "new", "declared", "open"}
    BY <1>1, <1>6
  <2> QED BY <2>1, <2>2
<1>8. /\ A \in SUBSET Chs /\ 1 \notin A /\ (\A ch \in A : T[ch] # "none")
  <2>1. \A ch \in A : ch \in p.awaited \/ (ch \in p.inFlight.chs \ f.chs /\ p.st[ch] # "open")
    BY DEF AwaitedAfter
  <2>2. \A ch \in A : ch \in Chs /\ p.st[ch] # "none"
    BY <1>2, <1>5, <2>1
  <2>3. 1 \notin A
    BY <1>3, <1>5, <2>1
  <2> QED BY <1>6, <2>2, <2>3
<1>9. /\ p.here => 1 \notin p.inFlight.chs /\ k = p.acked /\ T[1] = "open"
      /\ ~p.here => 1 \in p.inFlight.chs \cap f.chs /\ k = f.last /\ T[1] = "open"
  BY <1>1, <1>3, <1>5, <1>6 DEF AckedAfter
<1>10. \A ch \in Chs : T[ch] = "open" => ch \in f.chs \/ (p.here /\ p.st[ch] = "open")
  BY <1>3, <1>5, <1>6
<1>11. k \in Nat /\ k <= p.handed
  <2>1. us.last \in Nat /\ p.acked <= p.handed
    BY <1>1, PageFacts DEF PageStands
  <2> QED BY <1>1, <1>3, <1>9, <2>1
<1> QED BY <1>1, <1>3, <1>7, <1>8, <1>9, <1>10, <1>11

\* The attached page, but for what it still has to cover.
LEMMA AttachedIs ==
    ASSUME UploadsStand, NEW p, PageGood(p), us.last <= p.handed, NEW f, Answers(p, f),
           NEW q, q = AttachedPage(p, f)
    PROVE  /\ AttachedTo(p, q) /\ PageStands(q) /\ PageDeclares(q) /\ PageKeeps(q) /\ PageAgrees(q)
           /\ q.st[1] = "open" /\ 1 \notin q.awaited /\ q.session = p.wire /\ q.inFlight = NoneInFlight
           /\ q.acked = AckedAfter(p, f) /\ q.acked <= p.handed
<1> DEFINE b == IF p.abandoned = NoConn THEN p.cut ELSE p.cut \cup {p.abandoned}
           c == CloseAbandoned(p)
           T == StatesAfter(p, f)
           A == AwaitedAfter(p, f)
           k == AckedAfter(p, f)
<1>1. /\ T \in [Chs -> {"none", "new", "declared", "open"}] /\ A \in SUBSET Chs /\ k \in Nat
      /\ T[1] = "open" /\ 1 \notin A /\ (\A ch \in A : T[ch] # "none")
      /\ \A ch \in Chs : T[ch] = "open" => ch \in f.chs \/ (p.here /\ p.st[ch] = "open")
      /\ k <= p.handed
  BY StatesAre
<1>2. /\ p \in Pages /\ PageStands(p) /\ PageDeclares(p) /\ PageKeeps(p) /\ PageCovers(p)
      /\ PageAgrees(p) /\ p.handed \in Nat /\ p.sent \in Nat /\ 1 \in Chs
      /\ (p.wire # 0 => p.wire \in Conns)
      /\ p.stream \in {"idle", "active", "failed"}
  BY PageFacts
<1>3. /\ f.session = p.wire /\ p.wire # 0 /\ ~Unread(p.wire) /\ un[p.wire].wire # "none" /\ ~p.openPending
      /\ (un[p.wire].wire = "open" => f.chs \subseteq us.holds[p.wire])
  BY DEF Answers
<1>4. b \in SUBSET Nat
  <2>1. \A w \in Conns : w \in Nat
    BY UploadPlanIs DEF UploadsStand, UploadTypes
  <2>2. p.abandoned \in Conns \cup {0} /\ p.cut \in SUBSET Nat
    BY <1>2 DEF Pages
  <2>3. p.abandoned \in Nat
    BY <2>1, <2>2
  <2> QED BY <2>2, <2>3
<1>5. c = Closed(p, b)
  BY DEF CloseAbandoned, NoConn, Closed
<1> HIDE DEF b
<1>6. AttachedTo(p, q) /\ q.session = p.wire /\ q.inFlight = NoneInFlight /\ q.awaited = A
      /\ q.acked = k /\ q.st = T
  <2>1. /\ c \in Pages /\ c.wire = p.wire /\ c.last = p.last /\ c.conn = p.conn
        /\ c.openPending = p.openPending /\ c.reconciling = p.reconciling /\ c.sent = p.sent
        /\ c.handed = p.handed /\ c.stream = p.stream /\ c.confirmed = p.confirmed
        /\ c.unconfirmed = p.unconfirmed /\ c.outbox = p.outbox /\ c.post = p.post /\ c.out = p.out
        /\ c.cutUploads = p.cutUploads
    <3> HIDE DEF c
    <3> QED BY <1>2, <1>4, <1>5, ClosedTypes
  <2>2. NoneInFlight \in [chs : SUBSET Chs, carried : Nat]
    BY DEF NoneInFlight
  <2>3. f.session \in Conns \cup {0}
    BY <1>2, <1>3
  <2>4. q = Attached(c, f.session, NoneInFlight, A, k, T)
    BY DEF AttachedPage, Attached
  <2> HIDE DEF c, A, k, T
  <2>5. /\ AttachedTo(c, q) /\ q.session = f.session /\ q.inFlight = NoneInFlight /\ q.awaited = A
        /\ q.acked = k /\ q.st = T
    BY <1>1, <2>1, <2>2, <2>3, <2>4, AttachedTypes
  <2> QED BY <1>3, <2>1, <2>5 DEF AttachedTo
<1> HIDE DEF c, T, A, k
<1>7. NoneInFlight.chs = {}
  BY DEF NoneInFlight
<1>8. PageStands(q)
  <2>1. q.st[1] = "open" /\ q.stream # "idle"
    BY <1>1, <1>2, <1>3, <1>6 DEF PageStands, AttachedTo
  <2>2. p.session <= p.last /\ p.wire = p.last
    BY <1>2, <1>3 DEF PageStands
  <2>3. /\ q.session <= q.last /\ q.post <= q.last /\ q.acked <= q.handed /\ q.handed <= q.sent
        /\ (q.session = 0 => q.acked = 0)
    <3>1. p.last \in Nat /\ p.post <= p.last /\ p.handed <= p.sent
      BY <1>2, PageFacts DEF PageStands
    <3> QED BY <1>1, <1>3, <1>6, <2>2, <3>1 DEF AttachedTo
  <2> QED BY <1>2, <1>3, <1>6, <2>1, <2>3 DEF PageStands, AttachedTo
<1>9. PageDeclares(q)
  BY <1>1, <1>2, <1>3, <1>6, <1>7 DEF PageDeclares, AttachedTo
<1>10. PageKeeps(q)
  BY <1>2, <1>6 DEF PageKeeps, AttachedTo
<1>11. PageAgrees(q)
  <2>1. ASSUME un[p.wire].wire = "open"
        PROVE  {ch \in Chs : q.st[ch] = "open"} \subseteq us.holds[p.wire]
    <3>1. p.here => {ch \in Chs : p.st[ch] = "open"} \subseteq us.holds[p.wire]
      BY <1>2, <1>3, <2>1 DEF PageAgrees
    <3> QED BY <1>1, <1>3, <1>6, <2>1, <3>1
  <2> QED BY <1>2, <1>3, <1>6, <2>1 DEF PageAgrees, AttachedTo
<1> QED BY <1>1, <1>6, <1>8, <1>9, <1>10, <1>11 DEF k

\* Past its end there is no data.
LEMMA NoData ==
    ASSUME NEW a \in Nat
    PROVE  Data(a + 1, 0) = <<>>
<1>1. (IF 0 < a + 1 THEN 0 ELSE 0 - (a + 1) + 1) = 0
  OBVIOUS
<1> QED BY <1>1 DEF Data

\* Where nothing is replayed it sends what it held.
LEMMA DrainsHeld ==
    ASSUME UploadsStand, NEW p, NEW f, NEW q, q = AttachedPage(p, f), PageGood(q), q.here,
           q.st[1] = "open", 1 \notin q.awaited, ReplayFor(p, f) = <<>>
    PROVE  Goes(q, DrainedPage(p, f)) /\ DrainedPage(p, f).here
<1>1. DrainedPage(p, f) = SendFrames(HandOver(q), <<>> \o Held(q))
  BY DEF DrainedPage
<1>2. <<>> \o Held(q) = Held(q)
  <2>1. Held(q) \in Seq(AllFrames)
    BY HeldGoesOn
  <2> QED BY <2>1, Joined
<1> QED BY <1>1, <1>2, HandsOver

\* On a wire that has the session: nothing is replayed.
LEMMA AttachesMore ==
    ASSUME UploadsStand, NEW p, PageGood(p), us.last <= p.handed, p.here, NEW f, Answers(p, f)
    PROVE  Goes(p, DrainedPage(p, f)) /\ DrainedPage(p, f).here
<1> DEFINE q == AttachedPage(p, f)
<1>1. /\ AttachedTo(p, q) /\ PageStands(q) /\ PageDeclares(q) /\ PageKeeps(q) /\ PageAgrees(q)
      /\ q.st[1] = "open" /\ 1 \notin q.awaited
  BY AttachedIs
<1>2. 1 \notin p.inFlight.chs
  BY StatesAre
<1>3. ReplayFor(p, f) = <<>>
  BY <1>2 DEF ReplayFor
<1>4. PageCovers(p) /\ p.handed \in Nat
  BY PageFacts
<1>5. q = AttachedPage(p, f)
  OBVIOUS
<1> HIDE DEF q
<1>6. PageCovers(q)
  BY <1>1, <1>4 DEF PageCovers, Covers, AttachedTo
<1>7. Goes(p, q) /\ PageGood(q)
  BY <1>1, <1>4, <1>6 DEF Goes, PageGood, PageShape, AttachedTo
<1>8. q.here
  BY <1>1 DEF AttachedTo
<1>9. Goes(q, DrainedPage(p, f)) /\ DrainedPage(p, f).here
  BY <1>1, <1>3, <1>5, <1>7, <1>8, DrainsHeld
<1> QED BY <1>4, <1>7, <1>9, GoesThrough

\* Before it attaches, a page's wire has its open's frames and no others.
LEMMA FirstBodies ==
    ASSUME UploadsStand, NEW p, PageGood(p), p.wire # 0, ~p.here
    PROVE  /\ p.unconfirmed = <<>> /\ p.outbox = <<>> /\ p.out = <<>> /\ p.post # p.wire
           /\ p.inFlight.carried \in {0, 1} /\ p.reconciling /\ 1 \in p.inFlight.chs
           /\ un[p.wire].openBody \in Seq(AllFrames)
           /\ un[p.wire].uploadBody = <<>> /\ un[p.wire].batchBody = <<>> /\ un[p.wire].batch = "none"
           /\ un[p.wire].openBody \o (<<>> \o <<>>) = un[p.wire].openBody
           /\ un[p.wire].openBody \o <<>> = un[p.wire].openBody
<1>1. PageDeclares(p) /\ PageAgrees(p) /\ p.wire \in Conns
  BY PageFacts
<1>2. /\ p.unconfirmed = <<>> /\ p.outbox = <<>> /\ p.out = <<>> /\ p.post # p.wire
      /\ p.inFlight.carried \in {0, 1} /\ p.reconciling /\ 1 \in p.inFlight.chs
  BY <1>1 DEF PageDeclares
<1>3. /\ un[p.wire].uploadBody = <<>> /\ un[p.wire].batch = "none"
  BY <1>1, <1>2 DEF PageAgrees
<1>4. un[p.wire].batchBody = <<>> /\ un[p.wire].openBody \in Seq(AllFrames)
  BY <1>1, <1>3 DEF UploadsStand, UploadTypes, Wires, WireStands
<1>5. /\ un[p.wire].openBody \o <<>> = un[p.wire].openBody /\ <<>> \o <<>> = <<>>
  <2>1. <<>> \in Seq(AllFrames)
    BY EmptySeq
  <2> QED BY <1>4, <2>1, Joined
<1> QED BY <1>2, <1>3, <1>4, <1>5

\* The page attaches where its RECONCILE's data went along: nothing is replayed.
LEMMA AttachesCarried ==
    ASSUME UploadsStand, NEW p, PageGood(p), us.last <= p.handed, ~p.here, p.inFlight.carried = 1,
           NEW f, Answers(p, f)
    PROVE  Goes(p, DrainedPage(p, f)) /\ DrainedPage(p, f).here
<1> DEFINE q == AttachedPage(p, f)
           u == un[p.wire]
<1>1. /\ AttachedTo(p, q) /\ PageStands(q) /\ PageDeclares(q) /\ PageKeeps(q) /\ PageAgrees(q)
      /\ q.st[1] = "open" /\ 1 \notin q.awaited
  BY AttachedIs
<1>2. PageCovers(p) /\ p.handed \in Nat /\ p.wire # 0 /\ f.last \in Nat
  BY PageFacts DEF Answers
<1>3. ReplayFor(p, f) = <<>>
  <2>1. Data(f.last + 1, 1 - 1) = <<>>
    BY <1>2, NoData
  <2> QED BY <2>1 DEF ReplayFor
<1>4. /\ p.unconfirmed = <<>> /\ p.outbox = <<>> /\ p.out = <<>>
      /\ u.uploadBody = <<>> /\ u.batchBody = <<>>
      /\ u.openBody \o (<<>> \o <<>>) = u.openBody /\ u.openBody \o <<>> = u.openBody
  BY <1>2, FirstBodies
<1>5. q = AttachedPage(p, f)
  OBVIOUS
<1> HIDE DEF q
<1>6. PageCovers(q)
  <2>1. MayTakeOf(p.wire) => Covers(p, u.openBody)
    BY <1>2 DEF PageCovers
  <2>2. MayTakeOf(p.wire) => Covers(q, u.openBody)
    BY <1>1, <2>1 DEF Covers, AttachedTo
  <2> HIDE DEF u
  <2>3. MayTakeOf(p.wire) => /\ Covers(q, u.openBody \o (u.uploadBody \o q.out))
                             /\ Covers(q, u.openBody \o q.unconfirmed)
                             /\ Covers(q, u.openBody \o (u.batchBody \o q.outbox))
    BY <1>1, <1>4, <2>2 DEF AttachedTo
  <2> QED BY <1>1, <2>3 DEF PageCovers, AttachedTo, u
<1>7. Goes(p, q) /\ PageGood(q) /\ q.here
  BY <1>1, <1>2, <1>6 DEF Goes, PageGood, PageShape, AttachedTo
<1>8. Goes(q, DrainedPage(p, f)) /\ DrainedPage(p, f).here
  BY <1>1, <1>3, <1>5, <1>7, DrainsHeld
<1> QED BY <1>2, <1>7, <1>8, GoesThrough

\* The page handed over to the last seq the server has: where the replay starts.
BackTo(q, h) == [q EXCEPT !.handed = h]

\* All but what was handed over is as it was.
LEMMA BackIs ==
    ASSUME NEW q \in Pages, NEW n \in Nat
    PROVE  LET h == BackTo(q, n)
           IN  /\ h \in Pages /\ h.handed = n /\ h.wire = q.wire /\ h.here = q.here /\ h.sent = q.sent
               /\ h.last = q.last /\ h.stream = q.stream /\ h.confirmed = q.confirmed
               /\ h.unconfirmed = q.unconfirmed /\ h.outbox = q.outbox /\ h.out = q.out
               /\ h.post = q.post /\ h.conn = q.conn /\ h.openPending = q.openPending
               /\ h.reconciling = q.reconciling
               /\ h.session = q.session /\ h.acked = q.acked /\ h.st = q.st /\ h.inFlight = q.inFlight
               /\ h.awaited = q.awaited
<1>1. BackTo(q, n) \in Pages
  BY ZenonT(180) DEF Pages, BackTo
<1> QED BY <1>1 DEF Pages, BackTo

\* The page attaches where nothing went along: what the server lacks is replayed.
LEMMA AttachesReplayed ==
    ASSUME UploadsStand, NEW p, PageGood(p), us.last <= p.handed, ~p.here, p.inFlight.carried = 0,
           NEW f, Answers(p, f)
    PROVE  Goes(p, DrainedPage(p, f)) /\ DrainedPage(p, f).here
<1> DEFINE q == AttachedPage(p, f)
           u == un[p.wire]
           h == BackTo(q, f.last)
           F == Data(f.last + 1, p.handed) \o Data(p.handed + 1, p.sent)
<1>1. /\ AttachedTo(p, q) /\ PageStands(q) /\ PageDeclares(q) /\ PageKeeps(q) /\ PageAgrees(q)
      /\ q.st[1] = "open" /\ 1 \notin q.awaited /\ q.acked = AckedAfter(p, f)
  BY AttachedIs
<1>2. /\ PageCovers(p) /\ PageStands(p) /\ p.handed \in Nat /\ p.sent \in Nat /\ p.wire # 0 /\ f.last \in Nat
      /\ f.last <= us.last /\ us.last \in Nat /\ p.wire \in Nat
  BY PageFacts DEF Answers
<1>3. 1 \in p.inFlight.chs \cap f.chs /\ q.acked = f.last
  BY <1>1, StatesAre
<1>4. /\ p.unconfirmed = <<>> /\ p.outbox = <<>> /\ p.out = <<>>
      /\ u.uploadBody = <<>> /\ u.batchBody = <<>>
      /\ u.openBody \o (<<>> \o <<>>) = u.openBody /\ u.openBody \o <<>> = u.openBody
  BY <1>2, FirstBodies
<1>5. DrainedPage(p, f) = SendFrames(HandOver(q), F)
  <2>1. ReplayFor(p, f) = Data(f.last + 1, p.handed)
    BY <1>3 DEF ReplayFor
  <2>2. Held(q) = Data(p.handed + 1, p.sent)
    BY <1>1 DEF Held, AttachedTo
  <2> QED BY <1>1, <2>1, <2>2 DEF DrainedPage
<1> HIDE DEF q
<1>6. /\ h \in Pages /\ h.handed = f.last /\ h.wire = p.wire
      /\ h.here /\ h.sent = p.sent /\ h.last = p.last /\ h.stream = p.stream
      /\ h.confirmed = p.confirmed /\ h.unconfirmed = p.unconfirmed /\ h.outbox = p.outbox
      /\ h.out = p.out /\ h.post = p.post /\ h.conn = p.conn /\ h.openPending = p.openPending
      /\ h.session = q.session /\ h.acked = q.acked /\ h.st = q.st /\ h.inFlight = q.inFlight
      /\ h.awaited = q.awaited
  <2>1. q \in Pages
    BY <1>1 DEF AttachedTo
  <2>2. f.last \in Nat
    BY <1>2
  <2>3. /\ h \in Pages /\ h.handed = f.last /\ h.wire = q.wire /\ h.here = q.here /\ h.sent = q.sent
        /\ h.last = q.last /\ h.stream = q.stream /\ h.confirmed = q.confirmed
        /\ h.unconfirmed = q.unconfirmed /\ h.outbox = q.outbox /\ h.out = q.out
        /\ h.post = q.post /\ h.conn = q.conn /\ h.openPending = q.openPending
        /\ h.session = q.session /\ h.acked = q.acked /\ h.st = q.st /\ h.inFlight = q.inFlight
        /\ h.awaited = q.awaited
    BY <2>1, <2>2, BackIs
  <2> HIDE DEF h
  <2> QED BY <1>1, <2>3 DEF AttachedTo
<1>7. HandOver(q) = [h EXCEPT !.handed = p.sent]
  BY <1>1 DEF HandOver, AttachedTo, BackTo, Pages
<1> HIDE DEF h
<1>8. PageStands(h)
  <2>1. /\ f.last <= p.sent /\ q.st[1] = "open"
    BY <1>1, <1>2 DEF PageStands
  <2> QED BY <1>1, <1>2, <1>3, <1>6, <2>1 DEF PageStands, AttachedTo
<1>9. PageDeclares(h)
  BY <1>1, <1>6 DEF PageDeclares, AttachedTo
<1>10. PageKeeps(h)
  <2>1. <<>> \in Seq(Uploaded(h.wire, h.handed))
    BY EmptySeq
  <2> QED BY <1>4, <1>6, <2>1 DEF PageKeeps
<1>11. PageAgrees(h)
  BY <1>1, <1>6 DEF PageAgrees, AttachedTo
<1>12. PageCovers(h)
  <2>1. ASSUME MayTakeOf(p.wire) PROVE Covers(h, u.openBody)
    <3>1. \A i \in DOMAIN u.openBody : u.openBody[i].t # "DATA"
      BY <1>2, <2>1 DEF PageCovers
    <3> QED BY <1>2, <1>6, <3>1 DEF Covers, Follows, ReachesTo
  <2> HIDE DEF u
  <2>2. MayTakeOf(p.wire) => /\ Covers(h, u.openBody \o (u.uploadBody \o h.out))
                             /\ Covers(h, u.openBody \o h.unconfirmed)
                             /\ Covers(h, u.openBody \o (u.batchBody \o h.outbox))
    BY <1>4, <1>6, <2>1
  <2> QED BY <1>6, <2>2 DEF PageCovers, u
<1>13. PageGood(h)
  BY <1>6, <1>8, <1>9, <1>10, <1>11, <1>12 DEF PageGood, PageShape
<1>14. /\ F \in Seq(Uploaded(p.wire, p.sent)) /\ Follows(f.last, F) /\ ReachesTo(f.last, F, p.sent)
  <2> DEFINE A == Data(f.last + 1, p.handed)
             B == Data(p.handed + 1, p.sent)
  <2>1. f.last <= p.handed /\ p.handed <= p.sent
    BY <1>2, PageFacts DEF PageStands
  <2>2. /\ A \in Seq(Datas(p.handed)) /\ A \in Seq(AllFrames) /\ Follows(f.last, A)
        /\ ReachesTo(f.last, A, p.handed)
    BY <1>2, <2>1, DataGoesOn
  <2>3. /\ B \in Seq(Datas(p.sent)) /\ B \in Seq(AllFrames) /\ Follows(p.handed, B)
        /\ ReachesTo(p.handed, B, p.sent)
    BY <1>2, <2>1, DataGoesOn
  <2> HIDE DEF A, B
  <2>4. A \in Seq(Datas(p.sent))
    BY <1>2, <2>1, <2>2, UploadedAre
  <2>5. A \in Seq(Uploaded(p.wire, p.sent)) /\ B \in Seq(Uploaded(p.wire, p.sent))
    BY <1>2, <2>3, <2>4, UploadedAre
  <2>6. A \o B \in Seq(Uploaded(p.wire, p.sent))
    BY <2>5, ConcatProperties
  <2>7. Follows(f.last, A \o B) /\ ReachesTo(f.last, A \o B, p.sent)
    BY <1>2, <2>2, <2>3, FollowsOn
  <2> QED BY <2>6, <2>7 DEF A, B
<1> HIDE DEF F
<1>15. Goes(h, SendFrames([h EXCEPT !.handed = p.sent], F))
       /\ SendFrames([h EXCEPT !.handed = p.sent], F).here
       /\ SendFrames([h EXCEPT !.handed = p.sent], F).handed = p.sent
  <2>1. f.last <= p.sent
    BY <1>8, <1>6 DEF PageStands
  <2> QED BY <1>2, <1>6, <1>13, <1>14, <2>1, SendsOn, SMTT(180)
<1>16. Goes(h, DrainedPage(p, f)) /\ DrainedPage(p, f).here /\ DrainedPage(p, f).handed = p.sent
  BY <1>5, <1>7, <1>15
<1> QED BY <1>2, <1>6, <1>16 DEF Goes, PageStands

\* An exchange that is complete.
Settled(p) == [p EXCEPT !.reconciling = FALSE]

\* The gate opens.
LEMMA SettledGoes ==
    ASSUME UploadsStand, NEW p, PageGood(p), p.here
    PROVE  Goes(p, Settled(p))
<1> DEFINE q == Settled(p)
<1>1. /\ p \in Pages /\ PageStands(p) /\ PageDeclares(p) /\ PageKeeps(p) /\ PageCovers(p)
      /\ PageAgrees(p) /\ p.handed \in Nat
  BY PageFacts
<1>2. /\ q \in Pages /\ SameFrames(p, q) /\ q.sent = p.sent /\ q.st = p.st /\ q.conn = p.conn
      /\ q.openPending = p.openPending /\ q.inFlight = p.inFlight
      /\ q.awaited = p.awaited /\ q.stream = p.stream /\ q.confirmed = p.confirmed
      /\ q.unconfirmed = p.unconfirmed /\ q.outbox = p.outbox
  BY <1>1, ZenonT(180) DEF Pages, SameFrames, Settled
<1> HIDE DEF q
<1>3. PageStands(q)
  BY <1>1, <1>2 DEF PageStands, SameFrames
<1>4. PageDeclares(q)
  BY <1>1, <1>2 DEF PageDeclares, SameFrames
<1>5. PageKeeps(q)
  BY <1>1, <1>2 DEF PageKeeps, SameFrames
<1>6. PageCovers(q)
  BY <1>1, <1>2 DEF PageCovers, Covers, SameFrames
<1>7. PageAgrees(q)
  BY <1>1, <1>2 DEF PageAgrees, SameFrames
<1>8. Goes(p, q)
  BY <1>1, <1>2, <1>3, <1>4, <1>5, <1>6, <1>7 DEF Goes, PageGood, PageShape, SameFrames
<1> QED BY <1>8 DEF q

\* A RECONCILED leaves the page good.
LEMMA ApplyGoes ==
    ASSUME UploadsStand, NEW p, PageGood(p), us.last <= p.handed, NEW f, Answers(p, f)
    PROVE  Goes(p, ApplyReconciled(p, f))
<1> DEFINE d == DrainedPage(p, f)
<1>1. p \in Pages /\ p.handed \in Nat /\ PageDeclares(p) /\ p.wire # 0
  BY PageFacts DEF Answers
<1>2. Goes(p, d) /\ d.here
  <2>1. CASE p.here
    BY <2>1, AttachesMore
  <2>2. CASE ~p.here
    <3>1. p.inFlight.carried \in {0, 1}
      BY <1>1, <2>2 DEF PageDeclares
    <3> QED BY <2>2, <3>1, AttachesCarried, AttachesReplayed
  <2> QED BY <2>1, <2>2
<1>3. ApplyReconciled(p, f) \in {SendsReconcile(d), [d EXCEPT !.reconciling = FALSE]}
  BY <1>1, ApplyIs
<1> HIDE DEF d
<1>4. Goes(d, SendsReconcile(d))
  BY <1>2, ReconcileGoes DEF Goes
<1>5. Goes(d, [d EXCEPT !.reconciling = FALSE])
  BY <1>2, SettledGoes DEF Goes, Settled
<1> QED BY <1>1, <1>2, <1>3, <1>4, <1>5, GoesThrough

-----------------------------------------------------------------------------
(* The page's steps, and what they leave of the wires *)

\* What depends on the plan alone stays as it is.
LEMMA PlanSame ==
    ASSUME uplan' = uplan
    PROVE  /\ Conns' = Conns /\ Chs' = Chs /\ AllFrames' = AllFrames /\ Pages' = Pages /\ Wires' = Wires
           /\ \A w, h : Uploaded(w, h)' = Uploaded(w, h)
           /\ \A w : FullReconciles(w)' = FullReconciles(w)
           /\ \A h : Datas(h)' = Datas(h)
<1>1. Conns' = Conns /\ Chs' = Chs
  BY DEF Conns, Chs
<1>2. AllFrames' = AllFrames
  BY <1>1 DEF AllFrames
<1>3. Pages' = Pages
  BY <1>1, <1>2 DEF Pages
<1>4. Wires' = Wires
  BY <1>1, <1>2 DEF Wires
<1>5. \A w, h : Uploaded(w, h)' = Uploaded(w, h)
  BY <1>1 DEF Uploaded, Datas, Changes
<1>6. \A w : FullReconciles(w)' = FullReconciles(w)
  BY <1>1 DEF FullReconciles
<1>7. \A h : Datas(h)' = Datas(h)
  BY DEF Datas
<1> QED BY <1>1, <1>2, <1>3, <1>4, <1>5, <1>6, <1>7

\* The page q is p with its writes gone out.
Clears(p, q) ==
    /\ q \in Pages /\ q.out = <<>> /\ q.conn = p.conn /\ q.wire = p.wire /\ q.last = p.last
    /\ q.session = p.session /\ q.here = p.here /\ q.openPending = p.openPending
    /\ q.reconciling = p.reconciling /\ q.inFlight = p.inFlight /\ q.st = p.st
    /\ q.awaited = p.awaited /\ q.sent = p.sent /\ q.handed = p.handed /\ q.acked = p.acked
    /\ q.stream = p.stream /\ q.confirmed = p.confirmed /\ q.unconfirmed = p.unconfirmed
    /\ q.outbox = p.outbox /\ q.post = p.post

\* The same requests stand, the wire's upload with what p wrote to it behind.
WritesOut(p) ==
    \A w \in Conns :
        /\ un'[w].uploadBody = (IF w = p.wire THEN un[w].uploadBody \o p.out ELSE un[w].uploadBody)
        /\ un'[w].wire = un[w].wire /\ un'[w].ready = un[w].ready /\ un'[w].open = un[w].open
        /\ un'[w].openBody = un[w].openBody /\ un'[w].upload = un[w].upload
        /\ un'[w].batch = un[w].batch /\ un'[w].batchBody = un[w].batchBody
        /\ \A i \in DOMAIN un'[w].down : \E j \in DOMAIN un[w].down : un'[w].down[i] = un[w].down[j]
        /\ un[w].down = <<>> => un'[w].down = <<>>

\* A handler's step: the page p it leaves, and what that wrote.
HandlerStep(p) ==
    /\ uplan' = uplan /\ us'.took = us.took /\ us'.last = us.last /\ us'.holds = us.holds
    /\ us' \in [took : Seq(Nat), last : Nat, holds : [Conns -> SUBSET Chs], cuts : Nat, drops : Nat]
    /\ un' \in [Conns -> Wires] /\ WritesOut(p) /\ Clears(p, up')

\* The page after it.
LEMMA PageAfter ==
    ASSUME UploadsStand, NEW p, PageGood(p), HandlerStep(p)
    PROVE  PageGood(up)'
<1>1. /\ p \in Pages /\ PageStands(p) /\ PageDeclares(p) /\ PageKeeps(p) /\ PageCovers(p)
      /\ PageAgrees(p) /\ (p.wire # 0 => p.wire \in Conns)
  BY PageFacts
<1>2. /\ Conns' = Conns /\ Chs' = Chs /\ AllFrames' = AllFrames /\ Pages' = Pages /\ Wires' = Wires
      /\ \A w, h : Uploaded(w, h)' = Uploaded(w, h)
  BY PlanSame DEF HandlerStep
<1>3. Clears(p, up') /\ us'.last = us.last /\ us'.holds = us.holds /\ WritesOut(p)
  BY DEF HandlerStep
<1>4. PageStands(up)'
  BY <1>1, <1>2, <1>3 DEF PageStands, Clears
<1>5. PageDeclares(up)'
  BY <1>1, <1>2, <1>3 DEF PageDeclares, Clears
<1>6. PageKeeps(up)'
  <2>1. <<>> \in Seq(Uploaded(up'.wire, up'.handed))
    BY EmptySeq
  <2>2. Uploaded(up.wire, up.handed)' = Uploaded(p.wire, p.handed)
    BY <1>2, <1>3 DEF Clears, Uploaded, Datas, Changes
  <2> QED BY <1>1, <1>3, <2>1, <2>2 DEF PageKeeps, Clears
<1>7. ASSUME p.wire # 0 PROVE (MayTakeOf(p.wire)' <=> MayTakeOf(p.wire)) /\ (Unread(p.wire)' <=> Unread(p.wire))
  BY <1>1, <1>3, <1>7 DEF MayTakeOf, Unread, WritesOut
<1>8. PageCovers(up)'
  <2> SUFFICES ASSUME p.wire # 0, MayTakeOf(p.wire)
               PROVE PageCovers(up)'
    BY <1>3, <1>7 DEF PageCovers, Clears
  <2> DEFINE u == un[p.wire]
             v == un'[p.wire]
  <2>1. /\ v.uploadBody = u.uploadBody \o p.out /\ v.openBody = u.openBody /\ v.upload = u.upload
        /\ v.batch = u.batch /\ v.batchBody = u.batchBody
    BY <1>1, <1>3 DEF WritesOut
  <2>2. u.uploadBody \in Seq(AllFrames) /\ p.out \in Seq(AllFrames) /\ <<>> \in Seq(AllFrames)
    BY <1>1, EmptySeq DEF UploadsStand, UploadTypes, Wires, Pages
  <2>3. v.uploadBody \o <<>> = u.uploadBody \o p.out
    BY <2>1, <2>2, Joined
  <2>4. ASSUME NEW F PROVE Covers(up, F)' <=> Covers(p, F)
    BY <1>3 DEF Covers, Follows, ReachesTo, Clears
  <2>5. up'.wire = p.wire /\ up'.out = <<>> /\ un'[up'.wire] = v
    BY <1>3 DEF Clears
  <2> HIDE DEF u, v
  <2>6. /\ p.here =>
              /\ p.stream = "active" /\ u.upload # "ended" =>
                     Covers(p, u.openBody \o (u.uploadBody \o p.out))
              /\ p.stream = "active" /\ ~p.confirmed => Covers(p, u.openBody \o p.unconfirmed)
              /\ p.stream = "failed" /\ u.batch \notin {"refused", "lost"} =>
                     Covers(p, u.openBody \o (u.batchBody \o p.outbox))
        /\ ~p.here =>
              /\ p.inFlight.carried = 1 => Covers(p, u.openBody)
              /\ p.inFlight.carried = 0 => \A i \in DOMAIN u.openBody : u.openBody[i].t # "DATA"
    BY <1>1 DEF PageCovers, u
  <2> QED BY <1>3, <2>1, <2>3, <2>4, <2>5, <2>6, ZenonT(180) DEF PageCovers, Clears
<1>9. PageAgrees(up)'
  <2> SUFFICES ASSUME p.wire # 0
               PROVE PageAgrees(up)'
    BY <1>3 DEF PageAgrees, Clears
  <2> DEFINE u == un[p.wire]
             v == un'[p.wire]
  <2>1. /\ v.uploadBody = u.uploadBody \o p.out /\ v.openBody = u.openBody /\ v.wire = u.wire
        /\ v.batch = u.batch
        /\ \A i \in DOMAIN v.down : \E j \in DOMAIN u.down : v.down[i] = u.down[j]
    BY <1>1, <1>3 DEF WritesOut
  <2>2. ~p.here => v.uploadBody = <<>>
    <3>1. ~p.here => u.uploadBody = <<>> /\ p.out = <<>>
      BY <1>1 DEF PageAgrees, PageDeclares
    <3>2. <<>> \o <<>> = <<>>
      BY EmptySeq, Joined
    <3> QED BY <2>1, <3>1, <3>2
  <2>5. up'.wire = p.wire /\ un'[up'.wire] = v
    BY <1>3 DEF Clears
  <2> HIDE DEF v
  <2> QED BY <1>1, <1>2, <1>3, <1>7, <2>1, <2>2, <2>5, ZenonT(180) DEF PageAgrees, Clears
<1>10. up' \in Pages
  BY <1>3 DEF Clears
<1> QED BY <1>2, <1>4, <1>5, <1>6, <1>8, <1>9, <1>10 DEF PageGood, PageShape

\* Its wires after it.
LEMMA WiresAfter ==
    ASSUME UploadInv, NEW p, Goes(up, p), HandlerStep(p), NEW w \in Conns
    PROVE  WireStands(w)' /\ WireFollows(w)'
<1> DEFINE u == un[w]
           v == un'[w]
<1>1. UploadsStand
  BY DEF UploadInv, UploadsStand, TakenAll
<1>2. /\ p \in Pages /\ PageStands(p) /\ PageDeclares(p) /\ PageKeeps(p) /\ PageCovers(p)
      /\ PageAgrees(p) /\ p.handed \in Nat /\ p.last \in Nat /\ p.wire \in Nat /\ us.last \in Nat
      /\ up.handed <= p.handed /\ p.last = up.last
  BY <1>1, PageFacts DEF Goes
<1>3. up.handed \in Nat /\ WireStands(w) /\ WireFollows(w) /\ u \in Wires /\ w \in Nat /\ w # 0
  BY <1>1, PageFacts, UploadPlanIs DEF UploadInv, UploadTypes
<1>4. /\ \A x, h : Uploaded(x, h)' = Uploaded(x, h)
      /\ FullReconciles(w)' = FullReconciles(w)
      /\ \A h : Datas(h)' = Datas(h)
  BY PlanSame DEF HandlerStep
<1>5. Clears(p, up') /\ us'.last = us.last /\ us'.holds = us.holds
  BY DEF HandlerStep
<1>6. /\ v.uploadBody = (IF w = p.wire THEN u.uploadBody \o p.out ELSE u.uploadBody)
      /\ v.wire = u.wire /\ v.ready = u.ready /\ v.open = u.open
      /\ v.openBody = u.openBody /\ v.upload = u.upload
      /\ v.batch = u.batch /\ v.batchBody = u.batchBody
      /\ \A i \in DOMAIN v.down : \E j \in DOMAIN u.down : v.down[i] = u.down[j]
      /\ (u.down = <<>> => v.down = <<>>)
  BY DEF HandlerStep, WritesOut
<1>7. (MayTakeOf(w)' <=> MayTakeOf(w)) /\ (Unread(w)' <=> Unread(w))
  BY <1>5, <1>6 DEF MayTakeOf, Unread
<1>8. /\ u.uploadBody \in Seq(AllFrames) /\ p.out \in Seq(AllFrames) /\ <<>> \in Seq(AllFrames)
      /\ u.openBody \in Seq(AllFrames)
      /\ u.uploadBody \o <<>> = u.uploadBody
  <2>1. /\ u.uploadBody \in Seq(AllFrames) /\ p.out \in Seq(AllFrames) /\ <<>> \in Seq(AllFrames)
        /\ u.openBody \in Seq(AllFrames)
    BY <1>2, <1>3, EmptySeq DEF Wires, Pages
  <2> QED BY <2>1, Joined
<1>9. WireStands(w)'
  <2>1. /\ u.uploadBody \in Seq(Uploaded(w, p.handed)) /\ u.batchBody \in Seq(Uploaded(w, p.handed))
    <3>1. Seq(Uploaded(w, up.handed)) \subseteq Seq(Uploaded(w, p.handed))
      BY <1>2, <1>3, UploadedAre
    <3> QED BY <1>3, <3>1 DEF WireStands
  <2>2. v.uploadBody \in Seq(Uploaded(w, p.handed))
    <3>1. p.out \in Seq(Uploaded(p.wire, p.handed))
      BY <1>2 DEF PageKeeps
    <3>2. CASE w = p.wire
      BY <1>6, <2>1, <3>1, <3>2, ConcatProperties
    <3>3. CASE w # p.wire
      BY <1>6, <2>1, <3>3
    <3> QED BY <3>2, <3>3
  <2>3. Datas(up.handed) \subseteq Datas(p.handed)
    BY <1>2, <1>3 DEF Datas
  <2>4. w > up'.last => v.uploadBody = <<>>
    <3>1. p.wire # 0 => p.wire = p.last
      BY <1>2 DEF PageStands
    <3>2. w > up'.last => u.uploadBody = <<>> /\ w # p.wire
      BY <1>2, <1>3, <1>5, <3>1 DEF WireStands, Clears
    <3> QED BY <1>6, <3>2
  <2>5. up'.handed = p.handed /\ up'.last = up.last
    BY <1>2, <1>5 DEF Clears
  <2>6. Uploaded(w, up.handed)' = Uploaded(w, p.handed)
    BY <1>4, <2>5 DEF Uploaded, Datas, Changes, HandlerStep, Chs
  <2>7. Datas(up.handed)' = Datas(p.handed)
    BY <2>5 DEF Datas
  <2>8. \A i \in DOMAIN u.openBody : \/ u.openBody[i] \in Datas(p.handed)
                                     \/ i = 1 /\ u.openBody[i] \in FullReconciles(w)
    BY <1>3, <2>3 DEF WireStands
  <2>9. /\ u.open \in {"none", "lost", "read"} => u.openBody = <<>>
        /\ u.wire = "none" <=> u.open \in {"none", "sent", "lost"}
        /\ u.ready => u.wire = "closed" \/ u.open = "read"
        /\ us.holds[w] # {} => u.wire = "open" /\ ~Unread(w)
        /\ u.batch \in {"none", "answered"} => u.batchBody = <<>>
        /\ w > up.last => u.open = "none" /\ u.upload = "none" /\ u.batch = "none"
        /\ u.wire = "none" => u.down = <<>>
    BY <1>3 DEF WireStands
  <2>10. \A i \in DOMAIN v.down : v.down[i].t = "RECONCILED" =>
              v.down[i].session = w /\ v.down[i].last <= us.last /\ ~Unread(w)
    <3>1. \A i \in DOMAIN u.down : u.down[i].t = "RECONCILED" =>
              u.down[i].session = w /\ u.down[i].last <= us.last /\ ~Unread(w)
      BY <1>3 DEF WireStands
    <3> HIDE DEF u, v
    <3> QED BY <1>6, <3>1
  <2>11. /\ v.uploadBody \in Seq(Uploaded(w, up.handed))' /\ v.batchBody \in Seq(Uploaded(w, up.handed))'
         /\ \A i \in DOMAIN v.openBody : \/ v.openBody[i] \in Datas(up.handed)'
                                         \/ i = 1 /\ v.openBody[i] \in FullReconciles(w)'
    <3> HIDE DEF u, v
    <3> QED BY <1>4, <1>6, <2>1, <2>2, <2>6, <2>7, <2>8
  <2>12. /\ v.open \in {"none", "lost", "read"} => v.openBody = <<>>
         /\ v.wire = "none" <=> v.open \in {"none", "sent", "lost"}
         /\ v.ready => v.wire = "closed" \/ v.open = "read"
         /\ us'.holds[w] # {} => v.wire = "open" /\ ~Unread(w)'
         /\ v.batch \in {"none", "answered"} => v.batchBody = <<>>
         /\ w > up'.last => v.open = "none" /\ v.upload = "none" /\ v.batch = "none" /\ v.uploadBody = <<>>
         /\ v.wire = "none" => v.down = <<>>
    <3> HIDE DEF u, v
    <3> QED BY <1>5, <1>6, <1>7, <2>4, <2>5, <2>9
  <2>13. \A i \in DOMAIN v.down : v.down[i].t = "RECONCILED" =>
              v.down[i].session = w /\ v.down[i].last <= us'.last /\ ~Unread(w)'
    BY <1>5, <1>7, <2>10
  <2> QED BY <2>11, <2>12, <2>13 DEF WireStands
<1>10. WireFollows(w)'
  <2> SUFFICES ASSUME MayTakeOf(w)
               PROVE  WireFollows(w)'
    BY <1>7 DEF WireFollows
  <2>1. u.upload # "ended" => Follows(us.last, u.openBody \o v.uploadBody)
    <3>1. u.upload # "ended" => Follows(us.last, u.openBody \o u.uploadBody)
      BY <1>3 DEF WireFollows
    <3>2. CASE w # p.wire
      BY <1>6, <3>1, <3>2
    <3>3. CASE w = p.wire /\ p.out = <<>>
      BY <1>6, <1>8, <3>1, <3>3
    <3>4. CASE w = p.wire /\ p.out # <<>>
      <4>1. p.stream = "active" /\ p.here /\ p.wire # 0
        BY <1>2, <1>3, <3>4 DEF PageStands, PageDeclares
      <4>2. u.upload # "ended" => Covers(p, u.openBody \o (u.uploadBody \o p.out))
        BY <1>2, <3>4, <4>1 DEF PageCovers
      <4> QED BY <1>6, <3>4, <4>2 DEF Covers
    <3> QED BY <3>2, <3>3, <3>4
  <2>2. Follows(us.last, u.openBody \o u.batchBody)
    BY <1>3 DEF WireFollows
  <2>3. ASSUME NEW F, Follows(us.last, F) PROVE Follows(us'.last, F)
    BY <1>5, <2>3 DEF Follows
  <2>4. v.upload # "ended" => Follows(us'.last, v.openBody \o v.uploadBody)
    BY <1>6, <2>1, <2>3
  <2>5. Follows(us'.last, v.openBody \o v.batchBody)
    BY <1>6, <2>2, <2>3
  <2> QED BY <2>4, <2>5 DEF WireFollows, Follows
<1> QED BY <1>9, <1>10

\* A handler's step keeps the invariant.
LEMMA HandlerStepKeeps ==
    ASSUME UploadInv, NEW p, Goes(up, p), HandlerStep(p)
    PROVE  UploadInv'
<1>1. UploadsStand /\ PageGood(p) /\ p.handed \in Nat /\ up.handed \in Nat /\ up.handed <= p.handed
  BY PageFacts DEF UploadInv, UploadsStand, TakenAll, Goes
<1>2. PageGood(up)'
  BY <1>1, PageAfter
<1>3. Conns' = Conns /\ Chs' = Chs /\ Wires' = Wires
  BY PlanSame DEF HandlerStep
<1>4. \A w \in Conns' : WireStands(w)' /\ WireFollows(w)'
  BY <1>3, WiresAfter
<1>5. UploadTypes'
  BY <1>3 DEF UploadInv, UploadTypes, HandlerStep
<1>6. TakenAll'
  <2>1. us.last \in Nat /\ us.last <= p.handed
    BY <1>1, PageFacts DEF UploadInv, TakenAll
  <2> QED BY <2>1 DEF UploadInv, TakenAll, HandlerStep, Clears
<1>7. up'.out = <<>>
  BY DEF HandlerStep, Clears
<1> QED BY <1>2, <1>3, <1>4, <1>5, <1>6, <1>7 DEF UploadInv

\* A page whose writes went out is of the same type.
LEMMA ClearsIs ==
    ASSUME NEW p \in Pages, <<>> \in Seq(AllFrames)
    PROVE  /\ Clears(p, [p EXCEPT !.out = <<>>, !.cut = {}, !.cutUploads = {}])
           /\ Clears(p, [p EXCEPT !.out = <<>>, !.cut = {}])
           /\ p.out = <<>> => Clears(p, [p EXCEPT !.cut = {}])
<1>1. Clears(p, [p EXCEPT !.out = <<>>, !.cut = {}, !.cutUploads = {}])
  <2> DEFINE q == [p EXCEPT !.out = <<>>, !.cut = {}, !.cutUploads = {}]
  <2>1. q \in Pages
    BY DEF Pages
  <2>2. Clears(p, q)
    BY <2>1 DEF Pages, Clears
  <2> QED BY <2>2
<1>2. Clears(p, [p EXCEPT !.out = <<>>, !.cut = {}])
  <2> DEFINE q == [p EXCEPT !.out = <<>>, !.cut = {}]
  <2>1. q \in Pages
    BY DEF Pages
  <2>2. Clears(p, q)
    BY <2>1 DEF Pages, Clears
  <2> QED BY <2>2
<1>3. ASSUME p.out = <<>> PROVE Clears(p, [p EXCEPT !.cut = {}])
  <2> DEFINE q == [p EXCEPT !.cut = {}]
  <2>1. q \in Pages
    BY DEF Pages
  <2>2. Clears(p, q)
    BY <1>3, <2>1 DEF Pages, Clears
  <2> QED BY <2>2
<1> QED BY <1>1, <1>2, <1>3

\* The wire v is u, but for its upload's body, what came down of it, and what is aborted of it.
Written(u, v, B) ==
    /\ v \in Wires /\ v.uploadBody = B /\ v.wire = u.wire /\ v.ready = u.ready /\ v.open = u.open
    /\ v.openBody = u.openBody /\ v.upload = u.upload /\ v.batch = u.batch
    /\ v.batchBody = u.batchBody

\* What a wire written to becomes: its upload's body, what came down of it, what is aborted.
Wrote(u, B, c, k) == [u EXCEPT !.uploadBody = B, !.cut = c, !.uploadCut = k]
ReadDown(u, D, B, c, k) == [u EXCEPT !.down = D, !.uploadBody = B, !.cut = c, !.uploadCut = k]
Aborted(u) == [u EXCEPT !.cut = TRUE, !.uploadCut = TRUE]

\* It is of the same type.
LEMMA WroteIs ==
    ASSUME NEW u \in Wires, NEW B \in Seq(AllFrames), NEW c \in BOOLEAN, NEW k \in BOOLEAN
    PROVE  Written(u, Wrote(u, B, c, k), B) /\ Wrote(u, B, c, k).down = u.down
<1>1. Wrote(u, B, c, k) \in Wires
  BY DEF Wires, Wrote
<1> QED BY <1>1 DEF Wires, Wrote, Written

\* So it is with its events read,
LEMMA ReadDownIs ==
    ASSUME NEW u \in Wires, NEW B \in Seq(AllFrames), NEW c \in BOOLEAN, NEW k \in BOOLEAN,
           NEW D \in Seq([t : {"ACK"}]
                          \cup [t : {"RECONCILED"}, session : Conns, chs : SUBSET Chs, last : Nat])
    PROVE  Written(u, ReadDown(u, D, B, c, k), B) /\ ReadDown(u, D, B, c, k).down = D
<1>1. ReadDown(u, D, B, c, k) \in Wires
  BY DEF Wires, ReadDown
<1> QED BY <1>1 DEF Wires, ReadDown, Written

\* and with its requests aborted.
LEMMA AbortedIs ==
    ASSUME NEW u \in Wires
    PROVE  Written(u, Aborted(u), u.uploadBody) /\ Aborted(u).down = u.down
<1>1. Aborted(u) \in Wires
  BY DEF Wires, Aborted
<1> QED BY <1>1 DEF Wires, Aborted, Written

\* The plan and what the server took and holds stay as they are.
ServerSame ==
    /\ uplan' = uplan /\ us'.took = us.took /\ us'.last = us.last /\ us'.holds = us.holds
    /\ us' \in [took : Seq(Nat), last : Nat, holds : [Conns -> SUBSET Chs], cuts : Nat, drops : Nat]

\* Steps that leave the server alone, and those that use up what the plan allows.
LEMMA ServerSameIs ==
    ASSUME UploadTypes
    PROVE  /\ uplan' = uplan /\ us' = us => ServerSame
           /\ Cuts => ServerSame
           /\ uplan' = uplan /\ us' = [us EXCEPT !.drops = @ + 1] => ServerSame
<1>1. us \in [took : Seq(Nat), last : Nat, holds : [Conns -> SUBSET Chs], cuts : Nat, drops : Nat]
  BY DEF UploadTypes
<1>2. ASSUME uplan' = uplan, us' = [us EXCEPT !.drops = @ + 1] PROVE ServerSame
  BY <1>1, <1>2 DEF ServerSame
<1>3. ASSUME Cuts PROVE ServerSame
  BY <1>1, <1>3, SMTT(180) DEF ServerSame, Cuts
<1> QED BY <1>1, <1>2, <1>3 DEF ServerSame

\* Writing the page's wire is a handler's step.
LEMMA PageDoesIs ==
    ASSUME UploadTypes, NEW p, p \in Pages, PageDoes(p), ServerSame
    PROVE  HandlerStep(p)
<1>1. <<>> \in Seq(AllFrames) /\ p.out \in Seq(AllFrames)
  BY EmptySeq DEF Pages
<1>2. Clears(p, up')
  BY <1>1, ClearsIs DEF PageDoes
<1>3. ASSUME NEW w \in Conns
      PROVE  /\ un'[w] \in Wires /\ un'[w].down = un[w].down
             /\ Written(un[w], un'[w], IF w = p.wire THEN un[w].uploadBody \o p.out ELSE un[w].uploadBody)
  <2> DEFINE B == IF w = p.wire THEN un[w].uploadBody \o p.out ELSE un[w].uploadBody
             c == un[w].cut \/ w \in p.cut
             k == un[w].uploadCut \/ w \in p.cut \cup p.cutUploads
  <2>1. un[w] \in Wires
    BY DEF UploadTypes
  <2>2. un[w].uploadBody \in Seq(AllFrames) /\ un[w].cut \in BOOLEAN /\ un[w].uploadCut \in BOOLEAN
    BY <2>1 DEF Wires
  <2>3. B \in Seq(AllFrames)
    BY <1>1, <2>2, Joined
  <2>4. c \in BOOLEAN /\ k \in BOOLEAN
    OBVIOUS
  <2>5. un'[w] = Wrote(un[w], B, c, k)
    BY DEF PageDoes, Wrote
  <2> HIDE DEF B, c, k
  <2>6. Written(un[w], un'[w], B) /\ un'[w].down = un[w].down
    BY <2>1, <2>3, <2>4, <2>5, WroteIs DEF Written
  <2> QED BY <2>6 DEF B, Written
<1>4. un' \in [Conns -> Wires]
  BY <1>3 DEF PageDoes
<1>5. WritesOut(p)
  BY <1>3 DEF WritesOut, Written
<1> QED BY <1>2, <1>4, <1>5 DEF HandlerStep, ServerSame

\* A handler that goes, and writes, keeps the invariant.
LEMMA PageDoesKeeps ==
    ASSUME UploadInv, NEW p, Goes(up, p), PageDoes(p), ServerSame
    PROVE  UploadInv'
<1>1. UploadTypes /\ p \in Pages
  BY DEF UploadInv, Goes, PageGood, PageShape
<1> QED BY <1>1, PageDoesIs, HandlerStepKeeps

\* A handler of the page alone keeps the invariant.
LEMMA PageOnlyKeeps ==
    ASSUME UploadInv, NEW p, Goes(up, p), PageOnly(p)
    PROVE  UploadInv'
<1>1. UploadTypes
  BY DEF UploadInv
<1>2. PageDoes(p) /\ uplan' = uplan /\ us' = us
  BY DEF PageOnly
<1> QED BY <1>1, <1>2, ServerSameIs, PageDoesKeeps

-----------------------------------------------------------------------------
(* The page's actions *)

\* What every handler starts from.
LEMMA HandlersFind ==
    ASSUME UploadInv
    PROVE  /\ UploadsStand /\ PageGood(up) /\ us.last <= up.handed /\ up.out = <<>> /\ up \in Pages
           /\ PageStands(up) /\ PageDeclares(up) /\ UploadTypes
  BY DEF UploadInv, UploadsStand, TakenAll, PageGood, PageShape

\* The page sends on a channel.
LEMMA SendsKeeps == ASSUME UploadInv, Sends PROVE UploadInv'
<1> DEFINE p == [up EXCEPT !.sent = @ + 1]
           q == IF SendsAreOpen(p) /\ 1 \notin p.awaited THEN SendFrames(HandOver(p), Held(p)) ELSE p
<1>1. Goes(up, q)
  BY HandlersFind, SendGoes
<1>2. PageOnly(q)
  BY DEF Sends
<1> HIDE DEF q
<1> QED BY <1>1, <1>2, PageOnlyKeeps

\* It registers a channel.
LEMMA RegistersKeeps == ASSUME UploadInv, NEW ch \in Chs, Registers(ch) PROVE UploadInv'
<1> DEFINE o == up.owed \/ up.wire # NoConn
           q == [up EXCEPT !.st[ch] = "new", !.owed = o]
<1>1. up.st[ch] = "none" /\ (\A c \in Chs : c < ch => up.st[c] # "none") /\ PageOnly(q)
  BY DEF Registers
<1>2. ch # 1 => up.st[1] # "none"
  <2>1. UploadsStand
    BY HandlersFind
  <2>2. Chs = 1 .. uplan.channels /\ uplan.channels \in Nat /\ 1 \in Chs
    BY <2>1, UploadPlanIs DEF UploadsStand, UploadTypes, Chs
  <2> QED BY <1>1, <2>2
<1>3. o \in BOOLEAN
  OBVIOUS
<1> HIDE DEF o
<1>4. Goes(up, q)
  BY <1>1, <1>2, <1>3, HandlersFind, RegisterGoes
<1> HIDE DEF q
<1> QED BY <1>1, <1>4, PageOnlyKeeps

\* A RECONCILE owed is due.
LEMMA ReconcileTimerKeeps == ASSUME UploadInv, ReconcileTimer PROVE UploadInv'
<1> DEFINE q == ReconcileDue(up)
<1>1. q # up /\ PageOnly(q)
  BY DEF ReconcileTimer
<1>2. up.conn = "open" /\ ~up.reconciling
  BY <1>1 DEF ReconcileDue
<1>3. up.here
  BY <1>2, HandlersFind DEF PageStands, PageDeclares
<1>4. Goes(up, q)
  BY <1>3, HandlersFind, DueGoes
<1> HIDE DEF q
<1> QED BY <1>1, <1>4, PageOnlyKeeps

\* The open's headers came.
LEMMA OpenAnswersKeeps == ASSUME UploadInv, OpenAnswers PROVE UploadInv'
<1> DEFINE p == [up EXCEPT !.openPending = FALSE]
           q == IF p.stream = "active" THEN p ELSE EnterOpen(p)
<1>1. up.openPending /\ PageOnly(q)
  BY DEF OpenAnswers
<1>2. Goes(up, q)
  BY <1>1, HandlersFind, AnswerGoes
<1> HIDE DEF q
<1> QED BY <1>1, <1>2, PageOnlyKeeps

\* The acknowledgement did not come in time: the upload is given up.
LEMMA AckTimeoutKeeps == ASSUME UploadInv, AckTimeout PROVE UploadInv'
<1>1. Settling(up) /\ PageOnly(AbandonUpload(up))
  BY DEF AckTimeout
<1> QED BY <1>1, HandlersFind, AbandonUploadGoes, PageOnlyKeeps

\* The upload POST ended: it is given up, or its wire.
LEMMA UploadEndsKeeps == ASSUME UploadInv, UploadEnds PROVE UploadInv'
<1>1. CASE up.confirmed
  <2>1. PageOnly(CloseWire(up))
    BY <1>1 DEF UploadEnds
  <2> QED BY <2>1, HandlersFind, CloseGoes, PageOnlyKeeps
<1>2. CASE ~up.confirmed
  <2>1. PageOnly(AbandonUpload(up)) /\ up.wire # 0 /\ ~up.openPending /\ up.stream = "active"
    BY <1>2 DEF UploadEnds, NoConn
  <2>2. Settling(up)
    <3>1. up.conn \in {"down", "opening", "open"}
      BY HandlersFind DEF Pages
    <3> QED BY <1>2, <2>1, <3>1, HandlersFind DEF PageStands, Settling
  <2> QED BY <2>1, <2>2, HandlersFind, AbandonUploadGoes, PageOnlyKeeps
<1> QED BY <1>1, <1>2

\* The event stream ended: the wire closes.
LEMMA StreamEndsKeeps == ASSUME UploadInv, StreamEnds PROVE UploadInv'
<1>1. PageOnly(CloseWire(up))
  BY DEF StreamEnds
<1> QED BY <1>1, HandlersFind, CloseGoes, PageOnlyKeeps

\* The page gives the wire up.
LEMMA WireIsLateKeeps == ASSUME UploadInv, WireIsLate PROVE UploadInv'
<1>1. PageDoes(AbandonWire(up)) /\ ServerSame
  BY HandlersFind, ServerSameIs DEF WireIsLate
<1>2. Goes(up, AbandonWire(up))
  BY HandlersFind, AbandonGoes
<1> QED BY <1>1, <1>2, PageDoesKeeps

\* The open POST fails before its answer.
LEMMA OpenIsCutKeeps == ASSUME UploadInv, OpenIsCut PROVE UploadInv'
<1> DEFINE p == CloseWire(up)
           w == up.wire
<1>1. Goes(up, p) /\ p.out = <<>>
  BY HandlersFind, CloseGoes
<1>2. /\ ServerSame /\ up' = [p EXCEPT !.cut = {}]
      /\ un' = [un EXCEPT ![w].cut = TRUE, ![w].uploadCut = TRUE]
  BY HandlersFind, ServerSameIs DEF OpenIsCut
<1>3. p \in Pages
  BY <1>1 DEF Goes, PageGood, PageShape
<1> HIDE DEF p
<1>4. Clears(p, up')
  BY <1>1, <1>2, <1>3, EmptySeq, ClearsIs
<1>5. un \in [Conns -> Wires]
  BY HandlersFind DEF UploadTypes
<1>6. ASSUME NEW x \in Conns
      PROVE  un'[x] \in Wires /\ un'[x].down = un[x].down /\ Written(un[x], un'[x], un[x].uploadBody)
  <2>1. un[x] \in Wires /\ un[x].uploadBody \in Seq(AllFrames)
    BY <1>5 DEF Wires
  <2>2. CASE x = w
    <3>1. un'[x] = Aborted(un[x])
      BY <1>2, <1>5, <2>2 DEF Aborted
    <3>2. Written(un[x], Aborted(un[x]), un[x].uploadBody) /\ Aborted(un[x]).down = un[x].down
      BY <2>1, AbortedIs
    <3> QED BY <3>1, <3>2 DEF Written
  <2>3. CASE x # w
    <3>1. un'[x] = un[x]
      BY <1>2, <1>5, <2>3
    <3> QED BY <2>1, <3>1 DEF Written
  <2> QED BY <2>2, <2>3
<1>7. un' \in [Conns -> Wires]
  <2>1. DOMAIN un' = Conns /\ un' = [x \in Conns |-> un'[x]]
    BY <1>2, <1>5
  <2> QED BY <1>6, <2>1
<1>8. WritesOut(p)
  <2>1. ASSUME NEW x \in Conns
        PROVE  (IF x = p.wire THEN un[x].uploadBody \o p.out ELSE un[x].uploadBody) = un[x].uploadBody
    <3>1. un[x].uploadBody \in Seq(AllFrames) /\ <<>> \in Seq(AllFrames)
      BY <1>5, EmptySeq DEF Wires
    <3>2. un[x].uploadBody \o <<>> = un[x].uploadBody
      BY <3>1, Joined
    <3> QED BY <1>1, <3>2
  <2> QED BY <1>6, <2>1 DEF WritesOut, Written
<1>9. HandlerStep(p)
  BY <1>2, <1>4, <1>7, <1>8 DEF HandlerStep, ServerSame
<1> QED BY <1>1, <1>9, HandlerStepKeeps

\* A batch POST failed: on the page's wire its frames go back, and the wire is given up.
LEMMA PostFailsKeeps == ASSUME UploadInv, PostFails PROVE UploadInv'
<1>1. PageOnly(PostFailed(up)) /\ up.post # 0
  BY DEF PostFails, NoConn
<1>2. /\ up.posted \in Seq(AllFrames) /\ up.outbox \in Seq(AllFrames) /\ <<>> \in Seq(AllFrames)
      /\ up \in Pages /\ up.out = <<>>
  BY HandlersFind, EmptySeq DEF Pages
<1>3. CASE up.post # up.wire
  <2> DEFINE q == [up EXCEPT !.post = 0, !.posted = <<>>]
  <2>1. PostFailed(up) = q
    BY <1>3 DEF PostFailed, PostEnded, NoConn
  <2>2. /\ q \in Pages /\ q.post = 0 /\ q.out = up.out /\ q.conn = up.conn /\ q.wire = up.wire
        /\ q.last = up.last
        /\ q.session = up.session /\ q.here = up.here /\ q.openPending = up.openPending
        /\ q.reconciling = up.reconciling /\ q.inFlight = up.inFlight /\ q.st = up.st
        /\ q.awaited = up.awaited /\ q.sent = up.sent /\ q.handed = up.handed /\ q.acked = up.acked
        /\ q.stream = up.stream /\ q.confirmed = up.confirmed /\ q.unconfirmed = up.unconfirmed
        /\ q.outbox = up.outbox
    BY <1>2, ZenonT(180) DEF Pages
  <2> HIDE DEF q
  <2>3. /\ PageStands(up) /\ PageDeclares(up) /\ PageKeeps(up) /\ PageCovers(up) /\ PageAgrees(up)
        /\ up.handed \in Nat /\ up.last \in Nat
    BY HandlersFind, PageFacts
  <2>4. PageStands(q)
    BY <1>3, <2>2, <2>3 DEF PageStands
  <2>5. PageDeclares(q)
    BY <1>3, <2>2, <2>3 DEF PageDeclares
  <2>6. PageKeeps(q)
    BY <2>2, <2>3 DEF PageKeeps
  <2>7. PageCovers(q)
    BY <2>2, <2>3 DEF PageCovers, Covers
  <2>8. PageAgrees(q)
    BY <1>3, <2>2, <2>3 DEF PageAgrees
  <2>9. Goes(up, q)
    BY <2>2, <2>3, <2>4, <2>5, <2>6, <2>7, <2>8 DEF Goes, PageGood, PageShape
  <2> QED BY <1>1, <2>1, <2>9, PageOnlyKeeps
<1>4. CASE up.post = up.wire
  <2> DEFINE b == up.posted \o up.outbox
             q == [[up EXCEPT !.post = 0, !.posted = <<>>] EXCEPT !.outbox = b]
  <2>1. PostFailed(up) = AbandonWire(q)
    <3>1. [up EXCEPT !.post = 0, !.posted = <<>>].outbox = up.outbox
      BY <1>2 DEF Pages
    <3> QED BY <1>4, <3>1 DEF PostFailed, PostEnded, NoConn
  <2>2. b \in Seq(AllFrames)
    BY <1>2, Joined
  <2> HIDE DEF b
  <2>3. /\ q \in Pages /\ q.post = 0 /\ q.last = up.last /\ q.session = up.session
        /\ q.acked = up.acked /\ q.handed = up.handed /\ q.sent = up.sent /\ q.st = up.st
        /\ q.out = up.out
    BY <1>2, <2>2 DEF Pages
  <2> HIDE DEF q
  <2>4. Goes(up, AbandonWire(q))
    BY <2>3, HandlersFind, AbandonGoes
  <2> QED BY <1>1, <2>1, <2>4, PageOnlyKeeps
<1> QED BY <1>3, <1>4

\* The page reads an acknowledgement or a RECONCILED.
LEMMA ReadsEventKeeps == ASSUME UploadInv, ReadsEvent PROVE UploadInv'
<1> DEFINE w == up.wire
           f == Head(un[w].down)
           p == IF f.t = "ACK" THEN ReadsAck(up) ELSE ApplyReconciled(up, f)
           Ds == [t : {"ACK"}] \cup [t : {"RECONCILED"}, session : Conns, chs : SUBSET Chs, last : Nat]
<1>1. /\ w # 0 /\ ~up.openPending /\ un[w].down # <<>> /\ uplan' = uplan /\ us' = us
      /\ up' = [p EXCEPT !.out = <<>>, !.cut = {}]
      /\ un' = [x \in Conns |->
                  [un[x] EXCEPT !.down = IF x = w THEN Tail(@) ELSE @,
                                !.uploadBody = IF x = w THEN @ \o p.out ELSE @,
                                !.cut = @ \/ x \in p.cut, !.uploadCut = @ \/ x \in p.cut]]
  BY DEF ReadsEvent, NoConn
<1>2. /\ UploadsStand /\ PageGood(up) /\ us.last <= up.handed /\ UploadTypes
      /\ PageAgrees(up) /\ PageStands(up) /\ w \in Conns /\ up.last \in Nat
      /\ up.stream \in {"idle", "active", "failed"}
  BY <1>1, HandlersFind, PageFacts
<1>3. un[w] \in Wires /\ WireStands(w) /\ un[w].down \in Seq(Ds)
  BY <1>2 DEF UploadInv, UploadTypes, Wires
<1>4. f \in Ds /\ 1 \in DOMAIN un[w].down /\ f = un[w].down[1] /\ Tail(un[w].down) \in Seq(Ds)
  <2> DEFINE d == un[w].down
  <2>1. d \in Seq(Ds) /\ d # <<>>
    BY <1>1, <1>3
  <2> HIDE DEF d, Ds
  <2>2. Len(d) \in Nat /\ Len(d) # 0 /\ DOMAIN d = 1 .. Len(d)
    BY <2>1
  <2>3. d[1] \in Ds /\ Head(d) = d[1] /\ Tail(d) \in Seq(Ds) /\ 1 \in DOMAIN d
    BY <2>1, <2>2
  <2> QED BY <2>3 DEF d
<1>5. Goes(up, p)
  <2>1. CASE f.t = "ACK"
    <3>1. Goes(up, ReadsAck(up))
      BY <1>2, ConfirmGoes, PageFacts DEF ReadsAck
    <3> QED BY <2>1, <3>1
  <2>2. CASE f.t # "ACK"
    <3>1. f.t = "RECONCILED" /\ f.session \in Conns /\ f.chs \subseteq Chs /\ f.last \in Nat
      BY <1>4, <2>2
    <3>2. f.session = w /\ f.last <= us.last /\ ~Unread(w) /\ un[w].wire # "none"
      BY <1>1, <1>3, <1>4, <3>1 DEF WireStands
    <3>3. /\ ~up.here => f.chs = up.inFlight.chs
          /\ un[w].wire = "open" => f.chs \subseteq us.holds[w]
      BY <1>1, <1>2, <1>4, <3>1 DEF PageAgrees
    <3> HIDE DEF f
    <3>4. Answers(up, f)
      BY <1>1, <3>1, <3>2, <3>3 DEF Answers
    <3> QED BY <1>2, <2>2, <3>4, ApplyGoes
  <2> QED BY <2>1, <2>2
<1>6. PageGood(p) /\ p \in Pages /\ PageStands(p) /\ p.last = up.last /\ <<>> \in Seq(AllFrames)
      /\ p.out \in Seq(AllFrames)
  BY <1>5, EmptySeq DEF Goes, PageGood, PageShape, Pages
<1> HIDE DEF p, f
<1>7. Clears(p, up')
  BY <1>1, <1>6, ClearsIs
<1>8. p.wire = w \/ (p.wire = 0 /\ p.out = <<>>)
  <2>1. w = up.last
    BY <1>1, <1>2 DEF PageStands
  <2>2. p.wire # 0 => p.wire = w
    BY <1>6, <2>1 DEF PageStands
  <2>3. p.wire = 0 => p.out = <<>>
    BY <1>6 DEF PageStands
  <2> QED BY <2>2, <2>3
<1>9. ASSUME NEW x \in Conns
      PROVE  /\ Written(un[x], un'[x], IF x = p.wire THEN un[x].uploadBody \o p.out ELSE un[x].uploadBody)
             /\ un'[x].down = IF x = w THEN Tail(un[x].down) ELSE un[x].down
  <2> DEFINE B == IF x = w THEN un[x].uploadBody \o p.out ELSE un[x].uploadBody
             D == IF x = w THEN Tail(un[x].down) ELSE un[x].down
             c == un[x].cut \/ x \in p.cut
             k == un[x].uploadCut \/ x \in p.cut
  <2>1. un[x] \in Wires /\ x # 0
    BY <1>2, UploadPlanIs DEF UploadTypes
  <2>2. un[x].uploadBody \in Seq(AllFrames) /\ un[x].down \in Seq(Ds)
    BY <2>1 DEF Wires
  <2>3. B \in Seq(AllFrames) /\ un[x].uploadBody \o <<>> = un[x].uploadBody
    BY <1>6, <2>2, Joined
  <2>4. c \in BOOLEAN /\ k \in BOOLEAN /\ D \in Seq(Ds)
    BY <1>4, <2>2
  <2>5. un'[x] = ReadDown(un[x], D, B, c, k)
    BY <1>1 DEF ReadDown
  <2>6. B = IF x = p.wire THEN un[x].uploadBody \o p.out ELSE un[x].uploadBody
    BY <1>8, <2>1, <2>3
  <2> HIDE DEF B, c, k, D
  <2>7. Written(un[x], un'[x], B) /\ un'[x].down = D
    BY <2>1, <2>3, <2>4, <2>5, ReadDownIs
  <2> QED BY <2>6, <2>7 DEF D
<1>10. un' \in [Conns -> Wires]
  BY <1>1, <1>9 DEF Written
<1>11. WritesOut(p)
  <2>1. ASSUME NEW x \in Conns
        PROVE  /\ \A i \in DOMAIN un'[x].down : \E j \in DOMAIN un[x].down : un'[x].down[i] = un[x].down[j]
               /\ un[x].down = <<>> => un'[x].down = <<>>
    <3>1. CASE x = w
      <4> DEFINE d == un[w].down
      <4>1. un'[x].down = Tail(d) /\ d \in Seq(Ds) /\ d # <<>>
        BY <1>1, <1>3, <1>9, <3>1
      <4>2. \A i \in DOMAIN Tail(d) : i + 1 \in DOMAIN d /\ Tail(d)[i] = d[i + 1]
        BY <4>1
      <4> QED BY <3>1, <4>1, <4>2
    <3>2. CASE x # w
      BY <1>9, <3>2
    <3> QED BY <3>1, <3>2
  <2> QED BY <1>9, <2>1 DEF WritesOut, Written
<1>12. HandlerStep(p)
  <2>1. ServerSame
    BY <1>1, <1>2, ServerSameIs
  <2> QED BY <1>7, <1>10, <1>11, <2>1 DEF HandlerStep, ServerSame
<1> QED BY <1>5, <1>12, HandlerStepKeeps

-----------------------------------------------------------------------------
(* A wire starts *)

\* What starting makes of the page, step by step.
Emptied(p) == [p EXCEPT !.outbox = <<>>]
Declared(p, I, T) == [p EXCEPT !.reconciling = TRUE, !.owed = FALSE, !.inFlight = I, !.st = T]
OnWire(p, w, s) ==
    [p EXCEPT !.wire = w, !.last = w, !.conn = "opening", !.openPending = TRUE, !.confirmed = FALSE,
              !.unconfirmed = <<>>, !.stream = s]

\* What they leave as it was.
Kept(p, q) ==
    /\ q \in Pages /\ q.session = p.session /\ q.here = p.here /\ q.awaited = p.awaited
    /\ q.sent = p.sent /\ q.acked = p.acked /\ q.post = p.post /\ q.out = p.out

\* The outbox is emptied,
LEMMA EmptiedIs ==
    ASSUME NEW p \in Pages, <<>> \in Seq(AllFrames)
    PROVE  LET q == Emptied(p)
           IN  /\ Kept(p, q) /\ q.outbox = <<>> /\ q.handed = p.handed /\ q.st = p.st
               /\ q.stream = p.stream
<1>1. Emptied(p) \in Pages
  BY DEF Pages, Emptied
<1> QED BY <1>1 DEF Pages, Emptied, Kept

\* what is held may be handed over,
LEMMA HandedIs ==
    ASSUME NEW p \in Pages, NEW n \in Nat
    PROVE  LET q == BackTo(p, n)
           IN  /\ Kept(p, q) /\ q.outbox = p.outbox /\ q.handed = n /\ q.st = p.st
               /\ q.stream = p.stream
  BY BackIs DEF Kept

\* the channels are declared,
LEMMA DeclaredKeeps ==
    ASSUME NEW p \in Pages, NEW I \in [chs : SUBSET Chs, carried : Nat],
           NEW T \in [Chs -> {"none", "new", "declared", "open"}]
    PROVE  LET q == Declared(p, I, T)
           IN  /\ Kept(p, q) /\ q.outbox = p.outbox /\ q.handed = p.handed /\ q.st = T
               /\ q.stream = p.stream /\ q.inFlight = I /\ q.reconciling
<1>1. Declared(p, I, T) \in Pages
  BY DEF Pages, Declared
<1> QED BY <1>1 DEF Pages, Declared, Kept

\* and the wire opens.
LEMMA OnWireIs ==
    ASSUME NEW p \in Pages, NEW w \in Conns, NEW s \in {"active", "failed"}, <<>> \in Seq(AllFrames)
    PROVE  LET q == OnWire(p, w, s)
           IN  /\ Kept(p, q) /\ q.outbox = p.outbox /\ q.handed = p.handed /\ q.st = p.st
               /\ q.stream = s /\ q.inFlight = p.inFlight /\ q.reconciling = p.reconciling
               /\ q.wire = w /\ q.last = w /\ q.conn = "opening" /\ q.openPending
               /\ ~q.confirmed /\ q.unconfirmed = <<>>
<1>1. OnWire(p, w, s) \in Pages
  BY DEF Pages, OnWire
<1> QED BY <1>1, ZenonT(180) DEF Pages, OnWire, Kept

\* The page q is p on a new wire, whose RECONCILE named the channels C.
Started(p, q, h, C, n) ==
    /\ Kept(p, q) /\ q.outbox = <<>> /\ q.handed = h /\ q.inFlight = [chs |-> C, carried |-> n]
    /\ q.reconciling /\ q.wire = p.last + 1 /\ q.last = p.last + 1 /\ q.conn = "opening"
    /\ q.openPending /\ ~q.confirmed /\ q.unconfirmed = <<>> /\ q.stream \in {"active", "failed"}
    /\ \A ch \in Chs : q.st[ch] = IF ch \in C /\ p.st[ch] = "new" THEN "declared" ELSE p.st[ch]

\* The page's steps compose.
LEMMA KeptOn ==
    ASSUME NEW p, NEW q, NEW r, Kept(p, q), Kept(q, r)
    PROVE  Kept(p, r)
  BY DEF Kept

\* The new wire's page and its open's body: what was held goes along where nothing is replayed.
LEMMA StartedIs ==
    ASSUME UploadInv, up.wire = 0, up.last < uplan.wires,
           NEW C, C = {ch \in Chs : up.st[ch] # "none"}, NEW q, q = OpenStream(up).page,
           NEW R, R = [t |-> "RECONCILE", session |-> up.session, changes |-> FALSE, chs |-> C]
    PROVE  /\ \/ /\ OpenStream(up).batch = <<R>> \o <<>> /\ Started(up, q, up.handed, C, 0)
              \/ /\ up.handed = 0 /\ up.sent # 0 /\ OpenStream(up).batch = <<R>> \o Data(1, up.sent)
                 /\ Started(up, q, up.sent, C, 1)
              \/ /\ up.handed = 0 /\ up.sent = 0 /\ OpenStream(up).batch = <<R>> \o Data(1, up.sent)
                 /\ Started(up, q, up.sent, C, 0)
           /\ up.last + 1 \in Conns
<1> DEFINE replayFirst == up.session # NoConn \/ up.handed > up.acked
           w == up.last + 1
           e == Emptied(up)
           held == Data(up.handed + 1, up.sent)
           carried == IF replayFirst THEN <<>> ELSE held
           n == IF carried = <<>> THEN 0 ELSE carried[1].n
           h == IF replayFirst THEN up.handed ELSE up.sent
           p == IF replayFirst THEN e ELSE BackTo(e, up.sent)
           I == [chs |-> C, carried |-> n]
           T == [ch \in Chs |-> IF ch \in C /\ up.st[ch] = "new" THEN "declared" ELSE up.st[ch]]
           d == Declared(p, I, T)
           s == IF d.stream = "failed" THEN "failed" ELSE "active"
<1>1. /\ UploadsStand /\ up \in Pages /\ PageStands(up) /\ PageDeclares(up)
      /\ up.handed \in Nat /\ up.sent \in Nat /\ up.acked \in Nat /\ up.last \in Nat
      /\ up.session \in Nat /\ up.st \in [Chs -> {"none", "new", "declared", "open"}]
      /\ up.stream \in {"idle", "active", "failed"} /\ <<>> \in Seq(AllFrames)
  BY HandlersFind, PageFacts, EmptySeq
<1>2. w \in Conns
  BY <1>1, UploadPlanIs, SMTT(180) DEF UploadsStand, UploadTypes
<1>3. /\ Kept(up, e) /\ e.outbox = <<>> /\ e.handed = up.handed /\ e.st = up.st
      /\ e.stream = up.stream /\ e \in Pages /\ e.awaited = up.awaited /\ e.sent = up.sent
      /\ e.session = up.session /\ e.here = up.here
  BY <1>1, EmptiedIs DEF Kept
<1> HIDE DEF e
<1>4. ~up.here /\ 1 \notin up.awaited
  BY <1>1 DEF PageStands, PageDeclares
<1>5. Held(e) = held /\ HandOver(e) = BackTo(e, up.sent)
  BY <1>3, <1>4 DEF Held, HandOver, BackTo
<1>6. /\ Kept(up, p) /\ p.outbox = <<>> /\ p.handed = h /\ p.st = up.st /\ p.stream = up.stream
      /\ p \in Pages
  <2>1. CASE replayFirst
    BY <1>3, <2>1
  <2>2. CASE ~replayFirst
    <3>1. /\ Kept(e, BackTo(e, up.sent)) /\ BackTo(e, up.sent).outbox = e.outbox
          /\ BackTo(e, up.sent).handed = up.sent /\ BackTo(e, up.sent).st = e.st
          /\ BackTo(e, up.sent).stream = e.stream
      BY <1>1, <1>3, HandedIs
    <3> QED BY <1>3, <2>2, <3>1, KeptOn DEF Kept
  <2> QED BY <2>1, <2>2
<1>7. ~replayFirst => up.handed = 0
  BY <1>1 DEF PageStands, NoConn
<1>8. n \in {0, 1} /\ (~replayFirst /\ up.sent # 0 => n = 1) /\ (replayFirst \/ up.sent = 0 => n = 0)
  <2>1. CASE replayFirst
    BY <2>1
  <2>2. CASE ~replayFirst /\ up.sent = 0
    BY <1>7, <2>2, NoData
  <2>3. CASE ~replayFirst /\ up.sent # 0
    <3>1. up.handed < up.sent /\ up.handed = 0
      BY <1>1, <1>7, <2>3
    <3>2. held # <<>> /\ held[1] = Datum(up.handed + 1)
      <4>1. up.handed \in Nat /\ up.sent \in Nat /\ up.handed <= up.sent /\ up.handed # up.sent
        BY <1>1, <3>1
      <4>2. /\ (Data(up.handed + 1, up.sent) = <<>> <=> up.handed = up.sent)
            /\ up.handed < up.sent => Data(up.handed + 1, up.sent)[1] = Datum(up.handed + 1)
        BY ONLY <4>1, DataGoesOn
      <4> QED BY <3>1, <4>1, <4>2
    <3>3. held[1].n = 1
      BY <3>1, <3>2 DEF Datum
    <3> QED BY <2>3, <3>2, <3>3
  <2> QED BY <2>1, <2>2, <2>3
<1>9. I \in [chs : SUBSET Chs, carried : Nat] /\ T \in [Chs -> {"none", "new", "declared", "open"}]
  <2>1. n \in Nat /\ C \in SUBSET Chs
    BY <1>8
  <2> QED BY <1>1, <2>1
<1>10. BuildReconcile(e, ~replayFirst).page = d
  <2>1. {ch \in Chs : e.st[ch] # "none"} = C
    BY <1>3
  <2>2. ~(e.session # NoConn /\ e.here)
    BY <1>3, <1>4
  <2>3. (IF ~replayFirst THEN Held(e) ELSE <<>>) = carried
    BY <1>5
  <2>4. (IF ~replayFirst THEN HandOver(e) ELSE e) = p
    BY <1>5
  <2>5. T = [ch \in Chs |-> IF ch \in C /\ p.st[ch] = "new" THEN "declared" ELSE p.st[ch]]
    BY <1>6
  <2> HIDE DEF p, carried, T, replayFirst
  <2> QED BY <2>1, <2>2, <2>3, <2>4, <2>5 DEF BuildReconcile, Declared
<1>11. BuildReconcile(e, ~replayFirst).frames = <<R>> \o carried
  <2>1. {ch \in Chs : e.st[ch] # "none"} = C
    BY <1>3
  <2>2. ~(e.session # NoConn /\ e.here) /\ e.session = up.session
    BY <1>3, <1>4
  <2>3. (IF ~replayFirst THEN Held(e) ELSE <<>>) = carried
    BY <1>5
  <2> HIDE DEF carried, replayFirst
  <2> QED BY <2>1, <2>2, <2>3 DEF BuildReconcile
<1>12. /\ OpenStream(up).batch = <<R>> \o carried
       /\ OpenStream(up).page = OnWire(d, w, s)
  BY <1>10, <1>11 DEF OpenStream, OnWire, e, Emptied
<1> HIDE DEF p, T, d
<1>13. /\ Kept(p, d) /\ d.outbox = p.outbox /\ d.handed = p.handed /\ d.st = T
       /\ d.stream = p.stream /\ d.inFlight = I /\ d.reconciling /\ d \in Pages
  <2> HIDE DEF I
  <2> QED BY <1>6, <1>9, DeclaredKeeps DEF Kept, d
<1>14. s \in {"active", "failed"}
  OBVIOUS
<1> HIDE DEF s
<1>15. /\ Kept(d, q) /\ q.outbox = d.outbox /\ q.handed = d.handed /\ q.st = d.st
       /\ q.stream = s /\ q.inFlight = d.inFlight /\ q.reconciling = d.reconciling
       /\ q.wire = w /\ q.last = w /\ q.conn = "opening" /\ q.openPending
       /\ ~q.confirmed /\ q.unconfirmed = <<>>
  <2> DEFINE r == OnWire(d, w, s)
  <2>1. /\ Kept(d, r) /\ r.outbox = d.outbox /\ r.handed = d.handed /\ r.st = d.st
        /\ r.stream = s /\ r.inFlight = d.inFlight /\ r.reconciling = d.reconciling
        /\ r.wire = w /\ r.last = w /\ r.conn = "opening" /\ r.openPending
        /\ ~r.confirmed /\ r.unconfirmed = <<>>
    <3> HIDE DEF w
    <3>1. d \in Pages /\ w \in Conns /\ s \in {"active", "failed"} /\ <<>> \in Seq(AllFrames)
      BY <1>1, <1>2, <1>13, <1>14
    <3> QED BY <3>1, OnWireIs
  <2>2. q = r
    BY <1>12
  <2> HIDE DEF r
  <2> QED BY <2>1, <2>2
<1>16. Kept(up, q)
  BY <1>6, <1>13, <1>15, KeptOn
<1>17. Started(up, q, h, C, n)
  <2>1. \A ch \in Chs : q.st[ch] = IF ch \in C /\ up.st[ch] = "new" THEN "declared" ELSE up.st[ch]
    BY <1>13, <1>15 DEF T
  <2> QED BY <1>6, <1>13, <1>14, <1>15, <1>16, <2>1 DEF Started
<1>18. CASE replayFirst
  BY <1>2, <1>8, <1>12, <1>17, <1>18
<1>19. CASE ~replayFirst
  <2>1. up.handed + 1 = 1
    BY <1>7, <1>19
  <2> QED BY <1>2, <1>7, <1>8, <1>12, <1>17, <1>19, <2>1
<1> QED BY <1>18, <1>19

\* What goes along with the RECONCILE: all that was held, or nothing.
GoesAlong(G, last, h, n) ==
    \/ G = <<>> /\ n = 0
    \/ G = Data(1, h) /\ last = 0 /\ (n = 0 <=> h = 0)

Along(R, G) == <<R>> \o G

\* The open's body: the RECONCILE, and what goes along with it.
LEMMA OpenBodyIs ==
    ASSUME NEW R \in AllFrames, R.t = "RECONCILE", NEW last \in Nat, NEW h \in Nat, NEW G,
           NEW n \in {0, 1}, GoesAlong(G, last, h, n), NEW B, B = Along(R, G)
    PROVE  /\ B \in Seq(AllFrames) /\ B # <<>> /\ Head(B) = R
           /\ \A i \in DOMAIN B : B[i] \in Datas(h) \/ (i = 1 /\ B[i] = R)
           /\ Follows(last, B) /\ (n = 1 => ReachesTo(last, B, h))
           /\ n = 0 => \A i \in DOMAIN B : B[i].t # "DATA"
<1>1. <<R>> \in Seq(AllFrames) /\ <<R>> # <<>> /\ Head(<<R>>) = R /\ <<>> \in Seq(AllFrames)
  BY EmptySeq
<1>2. CASE G = <<>> /\ n = 0
  <2>1. B = <<R>>
    BY <1>1, <1>2, Joined DEF Along
  <2>2. Len(<<R>>) = 1 /\ <<R>>[1] = R /\ DOMAIN <<R>> = 1 .. 1
    OBVIOUS
  <2>3. Follows(last, <<R>>)
    BY ReconcileGoesOn
  <2>4. /\ B \in Seq(AllFrames) /\ B # <<>> /\ Head(B) = R /\ Follows(last, B)
        /\ \A i \in DOMAIN B : i = 1 /\ B[i] = R
    BY <1>1, <2>1, <2>2, <2>3
  <2>5. n # 1 /\ n = 0
    BY <1>2
  <2> QED BY <2>4, <2>5
<1>3. CASE G = Data(1, h) /\ last = 0 /\ (n = 0 <=> h = 0)
  <2>1. /\ G \in Seq(Datas(h)) /\ G \in Seq(AllFrames) /\ Follows(0, G) /\ ReachesTo(0, G, h)
        /\ (G = <<>> <=> 0 = h)
    <3>1. /\ Data(0 + 1, h) \in Seq(Datas(h)) /\ Data(0 + 1, h) \in Seq(AllFrames)
          /\ Follows(0, Data(0 + 1, h)) /\ ReachesTo(0, Data(0 + 1, h), h)
          /\ (Data(0 + 1, h) = <<>> <=> 0 = h)
      <4>1. 0 \in Nat /\ 0 <= h
        OBVIOUS
      <4> QED BY <4>1, DataGoesOn
    <3>2. 0 + 1 = 1
      OBVIOUS
    <3> QED BY <1>3, <3>1, <3>2
  <2>2. /\ B \in Seq(AllFrames) /\ Len(B) = 1 + Len(G) /\ DOMAIN B = 1 .. Len(B)
        /\ B[1] = R /\ (\A i \in 1 .. Len(G) : B[1 + i] = G[i]) /\ Len(G) \in Nat /\ DOMAIN G = 1 .. Len(G)
    <3>1. Len(<<R>>) = 1 /\ <<R>>[1] = R
      OBVIOUS
    <3> QED BY <1>1, <2>1, <3>1, BothAre DEF Along
  <2>3. \A i \in DOMAIN B : B[i] \in Datas(h) \/ (i = 1 /\ B[i] = R)
    <3> SUFFICES ASSUME NEW i \in 1 .. Len(B), i # 1 PROVE B[i] \in Datas(h)
      BY <2>2
    <3>1. i - 1 \in 1 .. Len(G) /\ 1 + (i - 1) = i
      BY <2>2
    <3>2. G[i - 1] \in Datas(h)
      BY <2>1, <2>2, <3>1
    <3> QED BY <2>2, <3>1, <3>2
  <2>4. Follows(last, B) /\ ReachesTo(last, B, h)
    <3>1. Follows(0, <<R>>) /\ ReachesTo(0, <<R>>, 0)
      BY ReconcileGoesOn
    <3> QED BY <1>1, <1>3, <2>1, <3>1, FollowsOn DEF Along
  <2>5. n = 0 => \A i \in DOMAIN B : B[i].t # "DATA"
    <3>1. n = 0 => Len(G) = 0
      BY <1>3, <2>1, <2>2
    <3> QED BY <2>2, <3>1
  <2>6. B # <<>> /\ Head(B) = R
    BY <2>2
  <2> QED BY <2>2, <2>3, <2>4, <2>5, <2>6
<1> QED BY <1>2, <1>3 DEF GoesAlong

\* What the new wire's requests are.
Sent(u, v, B) ==
    /\ v \in Wires /\ v.open = "sent" /\ v.openBody = B /\ v.upload \in {"none", "sent"}
    /\ v.wire = u.wire /\ v.ready = u.ready /\ v.uploadBody = u.uploadBody /\ v.batch = u.batch
    /\ v.batchBody = u.batchBody /\ v.down = u.down

SentOn(u, B, k) == [u EXCEPT !.open = "sent", !.openBody = B, !.upload = k]

\* They are of the same type.
LEMMA SentIs ==
    ASSUME NEW u \in Wires, NEW B \in Seq(AllFrames), NEW k \in {"none", "sent"}
    PROVE  Sent(u, SentOn(u, B, k), B)
<1>1. SentOn(u, B, k) \in Wires
  BY DEF Wires, SentOn
<1> QED BY <1>1 DEF Wires, SentOn, Sent

\* The started page, but for its wire.
LEMMA StartedShape ==
    ASSUME UploadsStand, NEW p, PageGood(p), p.wire = 0, p.st[1] # "none", NEW q,
           NEW h \in Nat, NEW n \in {0, 1},
           Started(p, q, h, {ch \in Chs : p.st[ch] # "none"}, n), p.handed <= h, h <= p.sent,
           p.last + 1 \in Conns
    PROVE  PageStands(q) /\ PageDeclares(q) /\ PageKeeps(q) /\ q \in Pages
<1> DEFINE C == {ch \in Chs : p.st[ch] # "none"}
<1>1. /\ PageStands(p) /\ PageDeclares(p) /\ p.handed \in Nat /\ p.sent \in Nat /\ p.acked \in Nat
      /\ p.last \in Nat /\ p.session \in Nat /\ p.post \in Nat /\ 1 \in Chs /\ p.awaited \subseteq Chs
      /\ p.st \in [Chs -> {"none", "new", "declared", "open"}]
  BY PageFacts DEF Pages
<1>2. /\ q \in Pages /\ q.session = p.session /\ q.here = p.here /\ q.awaited = p.awaited
      /\ q.sent = p.sent /\ q.acked = p.acked /\ q.post = p.post /\ q.out = p.out
      /\ q.outbox = <<>> /\ q.handed = h /\ q.inFlight = [chs |-> C, carried |-> n]
      /\ q.reconciling /\ q.wire = p.last + 1 /\ q.last = p.last + 1 /\ q.conn = "opening"
      /\ q.openPending /\ ~q.confirmed /\ q.unconfirmed = <<>> /\ q.stream \in {"active", "failed"}
      /\ \A ch \in Chs : q.st[ch] = IF ch \in C /\ p.st[ch] = "new" THEN "declared" ELSE p.st[ch]
  BY DEF Started, Kept
<1>3. q.inFlight.chs = C /\ q.inFlight.carried = n
  BY <1>2
<1>4. ~p.here /\ p.out = <<>> /\ p.last + 1 # 0 /\ p.post # p.last + 1
  BY <1>1 DEF PageStands
<1>5. /\ \A ch \in Chs : q.st[ch] # "none" <=> p.st[ch] # "none"
      /\ \A ch \in C : q.st[ch] # "none"
      /\ \A ch \in Chs : q.st[ch] \in {"declared", "open"} => ch \in C
  BY <1>2
<1>6. 1 \in C
  BY <1>1
<1> HIDE DEF C
<1>7. PageStands(q)
  BY <1>1, <1>2, <1>4, <1>5 DEF PageStands
<1>8. PageDeclares(q)
  <2>1. \A ch \in p.awaited : q.st[ch] # "none"
    BY <1>1, <1>5 DEF PageDeclares
  <2>2. 1 \notin p.awaited
    BY <1>1 DEF PageDeclares
  <2> QED BY <1>2, <1>3, <1>4, <1>5, <1>6, <2>1, <2>2 DEF PageDeclares
<1>9. PageKeeps(q)
  <2>1. <<>> \in Seq(Uploaded(q.wire, q.handed))
    BY EmptySeq
  <2> QED BY <1>2, <1>4, <2>1 DEF PageKeeps
<1> QED BY <1>2, <1>7, <1>8, <1>9

\* The new wire and its page keep the invariant.
LEMMA StartedKeeps ==
    ASSUME UploadInv, up.wire = 0, uplan' = uplan, us' = us,
           NEW C, C = {ch \in Chs : up.st[ch] # "none"}, C # {},
           NEW R, R = [t |-> "RECONCILE", session |-> up.session, changes |-> FALSE, chs |-> C],
           NEW w \in Conns, w = up.last + 1, NEW q, up' = q, NEW B,
           un' = [un EXCEPT ![q.wire].open = "sent", ![q.wire].openBody = B,
                            ![q.wire].upload = IF q.stream = "active" THEN "sent" ELSE "none"],
           \/ B = <<R>> \o <<>> /\ Started(up, q, up.handed, C, 0)
           \/ /\ up.handed = 0 /\ up.sent # 0 /\ B = <<R>> \o Data(1, up.sent)
              /\ Started(up, q, up.sent, C, 1)
           \/ /\ up.handed = 0 /\ up.sent = 0 /\ B = <<R>> \o Data(1, up.sent)
              /\ Started(up, q, up.sent, C, 0)
    PROVE  UploadInv'
<1> DEFINE n == q.inFlight.carried
           u == un[w]
           v == un'[w]
<1>1. /\ up' = q /\ uplan' = uplan /\ us' = us
      /\ un' = [un EXCEPT ![q.wire].open = "sent", ![q.wire].openBody = B,
                          ![q.wire].upload = IF q.stream = "active" THEN "sent" ELSE "none"]
  OBVIOUS
<1>2. /\ UploadsStand /\ PageGood(up) /\ us.last <= up.handed /\ up.out = <<>> /\ UploadTypes
      /\ PageStands(up) /\ up.handed \in Nat /\ up.sent \in Nat /\ up.last \in Nat /\ us.last \in Nat
      /\ up.session \in Nat /\ up.session <= up.last /\ up.handed <= up.sent /\ up.post <= up.last
      /\ up.post \in Nat
  BY HandlersFind, PageFacts DEF PageStands
<1>3. up.st[1] # "none"
  BY <1>2 DEF PageStands
<1>5. \E h \in {up.handed, up.sent}, k \in {0, 1} : Started(up, q, h, C, k)
  OBVIOUS
<1>6. /\ up.handed <= q.handed /\ q.handed <= up.sent /\ q.handed \in Nat /\ n \in {0, 1}
      /\ q.wire = w /\ q.last = w /\ q.inFlight.chs = C /\ q.stream \in {"active", "failed"}
      /\ q.post = up.post /\ ~q.here /\ q.out = <<>>
      /\ Started(up, q, q.handed, C, n)
  <2>1. PICK h \in {up.handed, up.sent}, k \in {0, 1} : Started(up, q, h, C, k)
    BY <1>5
  <2>2. q.handed = h /\ n = k
    BY <2>1 DEF Started
  <2>3. ~up.here
    BY <1>2 DEF PageStands
  <2> QED BY <1>2, <2>1, <2>2, <2>3 DEF Started, Kept
<1>7. PageStands(q) /\ PageDeclares(q) /\ PageKeeps(q) /\ q \in Pages
  <2> HIDE DEF n
  <2> QED BY <1>2, <1>3, <1>6, StartedShape
<1>8. /\ R \in FullReconciles(w) /\ R \in AllFrames /\ R.t = "RECONCILE" /\ R.chs = C
  <2>1. C \in SUBSET Chs
    OBVIOUS
  <2> QED BY <1>2, <2>1 DEF FullReconciles, AllFrames
<1>9. \/ B = <<R>> \o <<>> /\ n = 0
      \/ B = <<R>> \o Data(1, q.handed) /\ us.last = 0 /\ (n = 0 <=> q.handed = 0)
  BY <1>2 DEF Started
<1> HIDE DEF n
<1>10. /\ B \in Seq(AllFrames) /\ B # <<>> /\ Head(B) = R
       /\ \A i \in DOMAIN B : B[i] \in Datas(q.handed) \/ (i = 1 /\ B[i] = R)
       /\ Follows(us.last, B) /\ (n = 1 => ReachesTo(us.last, B, q.handed))
       /\ n = 0 => \A i \in DOMAIN B : B[i].t # "DATA"
  <2>1. PICK G : B = Along(R, G) /\ GoesAlong(G, us.last, q.handed, n)
    BY <1>9 DEF GoesAlong, Along
  <2>2. R \in AllFrames /\ R.t = "RECONCILE" /\ us.last \in Nat /\ q.handed \in Nat /\ n \in {0, 1}
    BY <1>2, <1>6, <1>8
  <2> QED BY ONLY <2>1, <2>2, OpenBodyIs
<1>11. /\ u \in Wires /\ WireStands(w) /\ w \in Nat /\ w > up.last
  BY <1>2, UploadPlanIs, SMTT(180) DEF UploadTypes, UploadInv
<1>12. /\ Sent(u, v, B) /\ (\A x \in Conns : x # w => un'[x] = un[x]) /\ un' \in [Conns -> Wires]
  <2> DEFINE k == IF q.stream = "active" THEN "sent" ELSE "none"
  <2>1. k \in {"none", "sent"} /\ un \in [Conns -> Wires]
    BY <1>2 DEF UploadTypes
  <2>2. v = SentOn(u, B, k)
    <3>1. un' = [un EXCEPT ![w].open = "sent", ![w].openBody = B, ![w].upload = k]
      BY <1>1, <1>6
    <3> HIDE DEF k
    <3>2. un'[w] = [un[w] EXCEPT !.open = "sent", !.openBody = B, !.upload = k]
      BY <2>1, <3>1
    <3> QED BY <3>2 DEF SentOn
  <2>3. (\A x \in Conns : x # w => un'[x] = un[x]) /\ DOMAIN un' = Conns /\ un' = [x \in Conns |-> un'[x]]
    BY <1>1, <1>6, <2>1
  <2> HIDE DEF k
  <2>4. Sent(u, v, B)
    BY <1>10, <1>11, <2>1, <2>2, SentIs
  <2>5. \A x \in Conns : un'[x] \in Wires
    BY <2>1, <2>3, <2>4 DEF Sent
  <2> QED BY <2>3, <2>4, <2>5
<1>13. /\ u.open = "none" /\ u.upload = "none" /\ u.batch = "none" /\ u.uploadBody = <<>>
       /\ u.batchBody = <<>> /\ u.wire = "none" /\ u.down = <<>> /\ us.holds[w] = {} /\ ~u.ready
  BY <1>11 DEF WireStands
<1> HIDE DEF u, v
<1>14. /\ v \in Wires /\ v.open = "sent" /\ v.openBody = B /\ v.upload \in {"none", "sent"}
       /\ v.wire = "none" /\ ~v.ready /\ v.uploadBody = <<>> /\ v.batch = "none"
       /\ v.batchBody = <<>> /\ v.down = <<>> /\ un'[w] = v
  BY <1>12, <1>13 DEF Sent, v
<1>15. /\ Conns' = Conns /\ Chs' = Chs /\ AllFrames' = AllFrames /\ Pages' = Pages /\ Wires' = Wires
       /\ \A x, h : Uploaded(x, h)' = Uploaded(x, h)
       /\ \A x : FullReconciles(x)' = FullReconciles(x)
       /\ \A h : Datas(h)' = Datas(h)
  BY <1>1, PlanSame
<1>16. B \o <<>> = B /\ B \o (<<>> \o <<>>) = B
  <2>1. <<>> \in Seq(AllFrames)
    BY EmptySeq
  <2> QED BY <1>10, <2>1, Joined
<1>17. Unread(w)'
  BY <1>8, <1>10, <1>14 DEF Unread
<1>18. PageGood(up)'
  <2>1. PageStands(up)'
    BY <1>1, <1>7, <1>15 DEF PageStands
  <2>2. PageDeclares(up)'
    BY <1>1, <1>7, <1>15 DEF PageDeclares
  <2>3. PageKeeps(up)'
    <3>1. <<>> \in Seq(Uploaded(up'.wire, up'.handed)) /\ <<>> \in Seq(Uploaded(up.wire, up.handed)')
      BY EmptySeq
    <3>2. q.unconfirmed = <<>> /\ q.outbox = <<>>
      BY <1>6 DEF Started
    <3> QED BY <1>1, <1>6, <3>1, <3>2 DEF PageKeeps
  <2>4. PageCovers(up)'
    <3>1. n = 1 => Covers(up, B)'
      BY <1>1, <1>10 DEF Covers, Follows, ReachesTo
    <3>2. up'.wire = w /\ un'[up'.wire] = v /\ ~up'.here /\ up'.inFlight.carried = n /\ v.openBody = B
      BY <1>1, <1>6, <1>14 DEF n
    <3> QED BY <1>10, <3>1, <3>2 DEF PageCovers
  <2>5. PageAgrees(up)'
    <3>1. Head(B).chs = C
      BY <1>8, <1>10
    <3>2. /\ up'.wire = w /\ un'[up'.wire] = v /\ ~up'.here /\ up'.inFlight.chs = C /\ v.openBody = B
          /\ v.batch = "none" /\ v.uploadBody = <<>> /\ v.down = <<>> /\ v.wire = "none"
      BY <1>1, <1>6, <1>14
    <3>3. DOMAIN v.down = {}
      BY <3>2
    <3> HIDE DEF v
    <3> QED BY <3>1, <3>2, <3>3 DEF PageAgrees
  <2> QED BY <1>1, <1>7, <1>15, <2>1, <2>2, <2>3, <2>4, <2>5 DEF PageGood, PageShape
<1>19. ASSUME NEW x \in Conns, x # w PROVE WireStands(x)' /\ WireFollows(x)'
  <2>1. /\ un'[x] = un[x] /\ WireStands(x) /\ WireFollows(x) /\ x \in Nat /\ up'.handed = q.handed
        /\ up'.last = w /\ us' = us
    BY <1>2, <1>6, <1>12, <1>19, UploadPlanIs DEF UploadInv, UploadTypes
  <2>2. (MayTakeOf(x)' <=> MayTakeOf(x)) /\ (Unread(x)' <=> Unread(x))
    BY <2>1 DEF MayTakeOf, Unread
  <2>3. WireFollows(x)'
    <3>1. MayTakeOf(x) =>
              /\ un[x].upload # "ended" => Follows(us.last, un[x].openBody \o un[x].uploadBody)
              /\ Follows(us.last, un[x].openBody \o un[x].batchBody)
      BY <2>1 DEF WireFollows
    <3> QED BY <2>1, <2>2, <3>1 DEF WireFollows
  <2>4. /\ un[x].uploadBody \in Seq(Uploaded(x, q.handed)) /\ un[x].batchBody \in Seq(Uploaded(x, q.handed))
        /\ Datas(up.handed) \subseteq Datas(q.handed)
    <3>1. Seq(Uploaded(x, up.handed)) \subseteq Seq(Uploaded(x, q.handed))
          /\ Datas(up.handed) \subseteq Datas(q.handed)
      BY <1>2, <1>6, <2>1, UploadedAre
    <3> QED BY <2>1, <3>1 DEF WireStands
  <2>5. Uploaded(x, up.handed)' = Uploaded(x, q.handed) /\ Datas(up.handed)' = Datas(q.handed)
    BY <1>15, <2>1 DEF Uploaded, Datas, Changes
  <2>6. /\ un'[x].uploadBody \in Seq(Uploaded(x, up.handed))' /\ un'[x].batchBody \in Seq(Uploaded(x, up.handed))'
        /\ \A i \in DOMAIN un'[x].openBody :
              \/ un'[x].openBody[i] \in Datas(up.handed)'
              \/ i = 1 /\ un'[x].openBody[i] \in FullReconciles(x)'
    BY <1>15, <2>1, <2>4, <2>5 DEF WireStands
  <2>7. x > w => x > up.last
    BY <1>11, <2>1, <1>2
  <2>8. /\ un[x].open \in {"none", "lost", "read"} => un[x].openBody = <<>>
        /\ un[x].wire = "none" <=> un[x].open \in {"none", "sent", "lost"}
        /\ un[x].ready => un[x].wire = "closed" \/ un[x].open = "read"
        /\ us.holds[x] # {} => un[x].wire = "open" /\ ~Unread(x)
        /\ un[x].batch \in {"none", "answered"} => un[x].batchBody = <<>>
        /\ x > w => /\ un[x].open = "none" /\ un[x].upload = "none" /\ un[x].batch = "none"
                    /\ un[x].uploadBody = <<>>
        /\ un[x].wire = "none" => un[x].down = <<>>
        /\ \A i \in DOMAIN un[x].down : un[x].down[i].t = "RECONCILED" =>
              un[x].down[i].session = x /\ un[x].down[i].last <= us.last /\ ~Unread(x)
    BY <2>1, <2>7 DEF WireStands
  <2> QED BY <2>1, <2>2, <2>3, <2>6, <2>8, ZenonT(180) DEF WireStands
<1>20. WireStands(w)' /\ WireFollows(w)'
  <2>1. WireFollows(w)'
    <3>1. Follows(us.last, B \o <<>>)
      BY <1>10, <1>16
    <3> QED BY <1>1, <1>14, <3>1 DEF WireFollows
  <2>2. <<>> \in Seq(Uploaded(w, up.handed)')
    BY EmptySeq
  <2>3. Datas(up.handed)' = Datas(q.handed)
    BY <1>1 DEF Datas
  <2>4. \A i \in DOMAIN B : \/ B[i] \in Datas(up.handed)'
                            \/ i = 1 /\ B[i] \in FullReconciles(w)'
    BY <1>8, <1>10, <1>15, <2>3
  <2>5. ~(w > up'.last)
    BY <1>1, <1>6, <1>11
  <2>6. /\ v.uploadBody \in Seq(Uploaded(w, up.handed)') /\ v.batchBody \in Seq(Uploaded(w, up.handed)')
        /\ \A i \in DOMAIN v.openBody : \/ v.openBody[i] \in Datas(up.handed)'
                                        \/ i = 1 /\ v.openBody[i] \in FullReconciles(w)'
    BY <1>14, <2>2, <2>4
  <2>7. us'.holds[w] = {}
    BY <1>1, <1>13
  <2>8. WireStands(w)'
    <3>1. DOMAIN v.down = {}
      BY <1>14
    <3> QED BY <1>14, <2>5, <2>6, <2>7, <3>1 DEF WireStands
  <2> QED BY <2>1, <2>8
<1>21. UploadTypes'
  BY <1>1, <1>2, <1>12, <1>15 DEF UploadTypes
<1>22. TakenAll'
  BY <1>1, <1>2, <1>6 DEF TakenAll, UploadInv
<1> QED BY <1>1, <1>6, <1>15, <1>18, <1>19, <1>20, <1>21, <1>22 DEF UploadInv

\* The page starts a wire, its open POST carrying the RECONCILE.
LEMMA StartsKeeps == ASSUME UploadInv, Starts PROVE UploadInv'
<1> DEFINE C == {ch \in Chs : up.st[ch] # "none"}
           R == [t |-> "RECONCILE", session |-> up.session, changes |-> FALSE, chs |-> C]
           q == OpenStream(up).page
           B == OpenStream(up).batch
<1>1. /\ up.wire = 0 /\ up.last < uplan.wires /\ C # {} /\ up' = q /\ uplan' = uplan /\ us' = us
      /\ un' = [un EXCEPT ![q.wire].open = "sent", ![q.wire].openBody = B,
                          ![q.wire].upload = IF q.stream = "active" THEN "sent" ELSE "none"]
  BY DEF Starts, Registered, NoConn
<1>2. /\ \/ B = <<R>> \o <<>> /\ Started(up, q, up.handed, C, 0)
         \/ /\ up.handed = 0 /\ up.sent # 0 /\ B = <<R>> \o Data(1, up.sent)
            /\ Started(up, q, up.sent, C, 1)
         \/ /\ up.handed = 0 /\ up.sent = 0 /\ B = <<R>> \o Data(1, up.sent)
            /\ Started(up, q, up.sent, C, 0)
      /\ up.last + 1 \in Conns
  BY <1>1, StartedIs
<1> HIDE DEF q, B, C, R
<1> QED BY <1>1, <1>2, StartedKeeps DEF C, R

-----------------------------------------------------------------------------
(* The batch POSTs *)

\* The page with its outbox in a batch POST, and with that answered.
Flushed(p) == [p EXCEPT !.post = p.wire, !.posted = p.outbox, !.outbox = <<>>]

\* The pages p and q differ in their batch POST.
PostDiffers(p, q) ==
    /\ q \in Pages /\ q.conn = p.conn /\ q.wire = p.wire /\ q.last = p.last
    /\ q.session = p.session /\ q.here = p.here /\ q.openPending = p.openPending
    /\ q.reconciling = p.reconciling /\ q.inFlight = p.inFlight /\ q.st = p.st
    /\ q.awaited = p.awaited /\ q.sent = p.sent /\ q.handed = p.handed /\ q.acked = p.acked
    /\ q.stream = p.stream /\ q.confirmed = p.confirmed /\ q.unconfirmed = p.unconfirmed
    /\ q.out = p.out

\* Flushing is of the page's type, and so is ending the POST.
LEMMA FlushedIs ==
    ASSUME NEW p \in Pages, <<>> \in Seq(AllFrames)
    PROVE  PostDiffers(p, Flushed(p)) /\ Flushed(p).post = p.wire /\ Flushed(p).outbox = <<>>
<1>1. Flushed(p) \in Pages
  BY DEF Pages, Flushed
<1> QED BY <1>1 DEF Pages, Flushed, PostDiffers

\* The page without its batch POST.
LEMMA PostEndedIs ==
    ASSUME NEW p \in Pages, <<>> \in Seq(AllFrames)
    PROVE  PostDiffers(p, PostEnded(p)) /\ PostEnded(p).post = 0 /\ PostEnded(p).outbox = p.outbox
<1>1. PostEnded(p) \in Pages
  BY DEF Pages, PostEnded, NoConn
<1> QED BY <1>1 DEF Pages, PostEnded, PostDiffers, NoConn

\* A wire's batch POST and its body.
BatchOf(u, b, F) == [u EXCEPT !.batch = b, !.batchBody = F]
Unposted(u) == [u EXCEPT !.batch = "none"]

BatchDiffers(u, v) ==
    /\ v \in Wires /\ v.wire = u.wire /\ v.ready = u.ready /\ v.open = u.open
    /\ v.openBody = u.openBody /\ v.upload = u.upload /\ v.uploadBody = u.uploadBody
    /\ v.down = u.down

\* A wire with another batch POST.
LEMMA BatchOfIs ==
    ASSUME NEW u \in Wires, NEW F \in Seq(AllFrames),
           NEW b \in {"none", "sent", "reading", "answered", "refused", "lost"}
    PROVE  BatchDiffers(u, BatchOf(u, b, F)) /\ BatchOf(u, b, F).batch = b /\ BatchOf(u, b, F).batchBody = F
<1>1. BatchOf(u, b, F) \in Wires
  BY DEF Wires, BatchOf
<1> QED BY <1>1 DEF Wires, BatchOf, BatchDiffers

\* A wire whose batch POST was answered.
LEMMA UnpostedIs ==
    ASSUME NEW u \in Wires
    PROVE  BatchDiffers(u, Unposted(u)) /\ Unposted(u).batch = "none" /\ Unposted(u).batchBody = u.batchBody
<1>1. Unposted(u) \in Wires
  BY DEF Wires, Unposted
<1> QED BY <1>1 DEF Wires, Unposted, BatchDiffers

\* A step of the batch POST w alone, to the page q and the wire v.
BatchStep(q, w, v) ==
    /\ uplan' = uplan /\ us' = us /\ up' = q /\ PostDiffers(up, q)
    /\ un' = [x \in Conns |-> IF x = w THEN v ELSE un[x]]
    /\ BatchDiffers(un[w], v) /\ v.batchBody \in Seq(Uploaded(w, up.handed))
    /\ v.batch \in {"none", "answered"} => v.batchBody = <<>>
    /\ w > up.last => v.batch = "none"
    /\ MayTakeOf(w) => Follows(us.last, un[w].openBody \o v.batchBody)
    /\ PageStands(q) /\ PageDeclares(q) /\ PageKeeps(q)
    /\ up.wire # 0 /\ q.post # up.wire => (IF up.wire = w THEN v.batch ELSE un[up.wire].batch) = "none"
    /\ up.wire # 0 /\ MayTakeOf(up.wire) /\ up.here /\ up.stream = "failed"
       /\ (IF up.wire = w THEN v.batch ELSE un[up.wire].batch) \notin {"refused", "lost"}
       => Covers(up, un[up.wire].openBody
                     \o ((IF up.wire = w THEN v.batchBody ELSE un[up.wire].batchBody) \o q.outbox))

\* It keeps what it has to.
LEMMA BatchStepKeeps ==
    ASSUME UploadInv, NEW q, NEW w \in Conns, NEW v, BatchStep(q, w, v)
    PROVE  UploadInv'
<1>0. /\ uplan' = uplan /\ us' = us /\ up' = q /\ PostDiffers(up, q)
      /\ un' = [x \in Conns |-> IF x = w THEN v ELSE un[x]] /\ un'[w] = v
      /\ BatchDiffers(un[w], v) /\ v.batchBody \in Seq(Uploaded(w, up.handed))
      /\ v.batch \in {"none", "answered"} => v.batchBody = <<>>
      /\ w > up.last => v.batch = "none"
      /\ MayTakeOf(w) => Follows(us.last, un[w].openBody \o v.batchBody)
      /\ PageStands(q) /\ PageDeclares(q) /\ PageKeeps(q)
      /\ up.wire # 0 /\ q.post # up.wire => (IF up.wire = w THEN v.batch ELSE un[up.wire].batch) = "none"
      /\ up.wire # 0 /\ MayTakeOf(up.wire) /\ up.here /\ up.stream = "failed"
         /\ (IF up.wire = w THEN v.batch ELSE un[up.wire].batch) \notin {"refused", "lost"}
         => Covers(up, un[up.wire].openBody
                       \o ((IF up.wire = w THEN v.batchBody ELSE un[up.wire].batchBody) \o q.outbox))
  BY DEF BatchStep
<1>1. /\ UploadTypes /\ up.handed \in Nat /\ PageCovers(up) /\ PageAgrees(up) /\ up.out = <<>> /\ TakenAll
      /\ (up.wire # 0 => up.wire \in Conns)
  BY HandlersFind, PageFacts DEF UploadInv
<1>2. /\ Conns' = Conns /\ Chs' = Chs /\ AllFrames' = AllFrames /\ Pages' = Pages /\ Wires' = Wires
      /\ \A x, h : Uploaded(x, h)' = Uploaded(x, h)
      /\ \A x : FullReconciles(x)' = FullReconciles(x)
      /\ \A h : Datas(h)' = Datas(h)
  BY <1>0, PlanSame
<1>3. ASSUME NEW x \in Conns
      PROVE  /\ un'[x] \in Wires /\ un'[x].wire = un[x].wire /\ un'[x].ready = un[x].ready
             /\ un'[x].open = un[x].open /\ un'[x].openBody = un[x].openBody
             /\ un'[x].upload = un[x].upload /\ un'[x].uploadBody = un[x].uploadBody
             /\ un'[x].down = un[x].down
             /\ un'[x].batch = (IF x = w THEN v.batch ELSE un[x].batch)
             /\ un'[x].batchBody = (IF x = w THEN v.batchBody ELSE un[x].batchBody)
  BY <1>0, <1>1 DEF UploadTypes, BatchDiffers
<1>4. UploadTypes'
  BY <1>0, <1>1, <1>2, <1>3 DEF UploadTypes
<1>5. /\ q.handed = up.handed /\ q.last = up.last /\ q.wire = up.wire /\ q.here = up.here
      /\ q.out = <<>> /\ q.stream = up.stream /\ q.confirmed = up.confirmed /\ q.inFlight = up.inFlight
      /\ q.unconfirmed = up.unconfirmed /\ q.st = up.st /\ q \in Pages
  BY <1>0, <1>1 DEF PostDiffers
<1>6. TakenAll'
  BY <1>0, <1>1, <1>5 DEF TakenAll
<1>7. ASSUME NEW x \in Conns PROVE (MayTakeOf(x)' <=> MayTakeOf(x)) /\ (Unread(x)' <=> Unread(x))
  BY <1>0, <1>3 DEF MayTakeOf, Unread
<1>8. ASSUME NEW F, Covers(up, F) PROVE Covers(q, F) /\ Covers(up', F)
  BY <1>0, <1>5, <1>8 DEF Covers
<1>9. PageCovers(up)'
  <2> SUFFICES ASSUME up.wire # 0, MayTakeOf(up.wire) PROVE PageCovers(up)'
    BY <1>0, <1>1, <1>5, <1>7 DEF PageCovers
  <2> DEFINE d == un[up.wire]
             e == un'[up.wire]
  <2>1. /\ up.here =>
              /\ up.stream = "active" /\ d.upload # "ended" =>
                     Covers(up, d.openBody \o (d.uploadBody \o up.out))
              /\ up.stream = "active" /\ ~up.confirmed => Covers(up, d.openBody \o up.unconfirmed)
        /\ ~up.here =>
              /\ up.inFlight.carried = 1 => Covers(up, d.openBody)
              /\ up.inFlight.carried = 0 => \A i \in DOMAIN d.openBody : d.openBody[i].t # "DATA"
    BY <1>0, <1>1 DEF PageCovers
  <2>2. /\ e.openBody = d.openBody /\ e.upload = d.upload /\ e.uploadBody = d.uploadBody
        /\ e.batch = (IF up.wire = w THEN v.batch ELSE d.batch)
        /\ e.batchBody = (IF up.wire = w THEN v.batchBody ELSE d.batchBody)
    BY <1>0, <1>1, <1>3
  <2>3. up'.wire = up.wire /\ un'[up'.wire] = e
    BY <1>0, <1>5
  <2>4. up.here /\ up.stream = "failed" /\ e.batch \notin {"refused", "lost"}
        => Covers(up, e.openBody \o (e.batchBody \o q.outbox))
    BY <1>0, <2>2
  <2> HIDE DEF d, e
  <2>5. ASSUME NEW F PROVE Follows(us'.last, F) <=> Follows(us.last, F)
    BY <1>0
  <2>6. ASSUME NEW F, Covers(up, F) PROVE Covers(up, F)'
    BY <1>0, <1>5, <2>6 DEF Covers, Follows, ReachesTo
  <2> QED BY <1>0, <1>1, <1>5, <2>1, <2>2, <2>3, <2>4, <2>6 DEF PageCovers
<1>10. PageAgrees(up)'
  <2> SUFFICES ASSUME up.wire # 0 PROVE PageAgrees(up)'
    BY <1>0, <1>5 DEF PageAgrees
  <2>1. up'.wire = up.wire /\ up.wire \in Conns
    BY <1>0, <1>1, <1>5
  <2>2. up'.post # up.wire => un'[up.wire].batch = "none"
    BY <1>0, <1>3, <2>1
  <2>3. (Unread(up.wire)' <=> Unread(up.wire))
    BY <1>0, <2>1, <1>3, <1>5 DEF Unread
  <2> QED BY <1>0, <1>1, <1>2, <1>3, <1>5, <2>1, <2>2, <2>3 DEF PageAgrees
<1>11. PageStands(up)' /\ PageDeclares(up)' /\ PageKeeps(up)'
  <2>1. PageStands(up)'
    BY <1>0, <1>2 DEF PageStands
  <2>2. PageDeclares(up)'
    BY <1>0, <1>2 DEF PageDeclares
  <2>3. PageKeeps(up)'
    <3>1. Uploaded(up.wire, up.handed)' = Uploaded(q.wire, q.handed)
      BY <1>0, <1>2 DEF Uploaded, Datas, Changes
    <3> QED BY <1>0, <3>1 DEF PageKeeps
  <2> QED BY <1>0, <2>1, <2>2, <2>3
<1>12. ASSUME NEW x \in Conns PROVE WireStands(x)' /\ WireFollows(x)'
  <2>1. WireStands(x) /\ WireFollows(x) /\ Uploaded(x, up.handed)' = Uploaded(x, up.handed)
        /\ Datas(up.handed)' = Datas(up.handed) /\ up'.last = up.last
    BY <1>0, <1>2, <1>5 DEF UploadInv, Uploaded, Datas, Changes
  <2>2. WireFollows(x)'
    <3>1. MayTakeOf(x) =>
              /\ un'[x].upload # "ended" => Follows(us'.last, un'[x].openBody \o un'[x].uploadBody)
              /\ Follows(us'.last, un'[x].openBody \o un'[x].batchBody)
      BY <1>0, <1>3, <2>1 DEF WireFollows
    <3> QED BY <1>0, <1>7, <3>1 DEF WireFollows
  <2>3. WireStands(x)'
    <3>1. /\ un'[x].batchBody \in Seq(Uploaded(x, up.handed))
          /\ un'[x].batch \in {"none", "answered"} => un'[x].batchBody = <<>>
          /\ x > up.last => un'[x].batch = "none"
      BY <1>0, <1>3, <2>1 DEF WireStands
    <3> QED BY <1>0, <1>2, <1>3, <1>7, <2>1, <3>1 DEF WireStands
  <2> QED BY <1>0, <2>2, <2>3
<1> QED BY <1>0, <1>2, <1>4, <1>5, <1>6, <1>9, <1>10, <1>11, <1>12 DEF UploadInv, PageGood, PageShape

\* The outbox goes in a batch POST.
LEMMA FlushesKeeps == ASSUME UploadInv, Flushes PROVE UploadInv'
<1> DEFINE w == up.wire
           u == un[w]
           q == Flushed(up)
           v == BatchOf(u, "sent", up.outbox)
<1>1. /\ w # 0 /\ ~up.openPending /\ up.post = 0 /\ up.outbox # <<>> /\ up' = q /\ uplan' = uplan /\ us' = us
      /\ un' = [un EXCEPT ![w].batch = "sent", ![w].batchBody = up.outbox]
  BY DEF Flushes, Flushed, NoConn
<1>2. /\ up \in Pages /\ PageStands(up) /\ PageDeclares(up) /\ PageKeeps(up) /\ PageCovers(up)
      /\ PageAgrees(up) /\ w \in Conns /\ up.last \in Nat /\ w \in Nat /\ UploadTypes /\ up.out = <<>>
      /\ up.stream \in {"idle", "active", "failed"} /\ us.last \in Nat
  BY <1>1, HandlersFind, PageFacts
<1>3. u \in Wires /\ un \in [Conns -> Wires] /\ WireStands(w)
  BY <1>2 DEF UploadTypes, UploadInv
<1>4. /\ up.outbox \in Seq(AllFrames) /\ <<>> \in Seq(AllFrames) /\ u.openBody \in Seq(AllFrames)
      /\ up.outbox \in Seq(Uploaded(w, up.handed))
  BY <1>1, <1>2, <1>3, EmptySeq DEF Pages, PageKeeps, Wires
<1>5. up.here /\ up.stream = "failed" /\ w = up.last
  BY <1>1, <1>2 DEF PageStands, PageDeclares
<1>6. u.batch = "none" /\ u.batchBody = <<>>
  BY <1>1, <1>2, <1>3 DEF PageAgrees, WireStands
<1>7. PostDiffers(up, q) /\ q.post = w /\ q.outbox = <<>>
  BY <1>2, <1>4, FlushedIs
<1>8. BatchDiffers(u, v) /\ v.batch = "sent" /\ v.batchBody = up.outbox
  <2> HIDE DEF u
  <2> QED BY <1>3, <1>4, BatchOfIs
<1>9. /\ un' = [x \in Conns |-> IF x = w THEN v ELSE un[x]] /\ un'[w] = v
  <2>1. v = [un[w] EXCEPT !.batch = "sent", !.batchBody = up.outbox]
    BY DEF BatchOf
  <2> HIDE DEF v
  <2> QED BY <1>1, <1>2, <1>3, <2>1
<1>10. <<>> \o up.outbox = up.outbox /\ up.outbox \o <<>> = up.outbox
  BY <1>4, Joined
<1>11. MayTakeOf(w) => Covers(up, u.openBody \o up.outbox)
  BY <1>1, <1>2, <1>5, <1>6, <1>10 DEF PageCovers
<1> HIDE DEF q, v
<1>12. PageStands(q)
  BY <1>1, <1>2, <1>5, <1>7 DEF PageStands, PostDiffers
<1>13. PageDeclares(q)
  BY <1>1, <1>2, <1>5, <1>7 DEF PageDeclares, PostDiffers
<1>14. PageKeeps(q)
  <2>1. <<>> \in Seq(Uploaded(q.wire, q.handed))
    BY EmptySeq
  <2> QED BY <1>2, <1>7, <2>1 DEF PageKeeps, PostDiffers
<1>15. MayTakeOf(w) => Follows(us.last, u.openBody \o v.batchBody)
  BY <1>8, <1>11 DEF Covers
<1>16. MayTakeOf(w) => Covers(up, u.openBody \o (v.batchBody \o q.outbox))
  BY <1>7, <1>8, <1>10, <1>11
<1>17. ~(w > up.last) /\ v.batch \notin {"none", "answered"}
  BY <1>2, <1>5, <1>8
<1>18. v.batchBody \in Seq(Uploaded(w, up.handed))
  BY <1>4, <1>8
<1>19. BatchStep(q, w, v)
  BY <1>1, <1>7, <1>8, <1>9, <1>12, <1>13, <1>14, <1>15, <1>16, <1>17, <1>18 DEF BatchStep
<1> QED BY <1>2, <1>19, BatchStepKeeps

\* The batch POST is answered.
LEMMA PostAnswersKeeps == ASSUME UploadInv, PostAnswers PROVE UploadInv'
<1> DEFINE w == up.post
           u == un[w]
           q == PostEnded(up)
           v == Unposted(u)
<1>1. /\ w # 0 /\ u.batch = "answered" /\ up' = q /\ uplan' = uplan /\ us' = us
      /\ un' = [un EXCEPT ![w].batch = "none"]
  BY DEF PostAnswers, NoConn
<1>2. /\ up \in Pages /\ PageStands(up) /\ PageDeclares(up) /\ PageKeeps(up) /\ PageCovers(up)
      /\ PageAgrees(up) /\ UploadTypes /\ up.out = <<>> /\ us.last \in Nat /\ up.last \in Nat
  BY HandlersFind, PageFacts
<1>3. w \in Conns /\ u \in Wires /\ un \in [Conns -> Wires] /\ WireStands(w) /\ WireFollows(w)
  <2>1. w \in Conns
    BY <1>1, <1>2 DEF Pages
  <2> QED BY <1>2, <2>1 DEF UploadTypes, UploadInv
<1>4. u.batchBody = <<>> /\ <<>> \in Seq(AllFrames)
  BY <1>1, <1>3, EmptySeq DEF WireStands
<1>5. PostDiffers(up, q) /\ q.post = 0 /\ q.outbox = up.outbox
  BY <1>2, <1>4, PostEndedIs
<1>6. BatchDiffers(u, v) /\ v.batch = "none" /\ v.batchBody = u.batchBody
  <2> HIDE DEF u
  <2> QED BY <1>3, UnpostedIs
<1>7. un' = [x \in Conns |-> IF x = w THEN v ELSE un[x]] /\ un'[w] = v
  <2>1. v = [un[w] EXCEPT !.batch = "none"]
    BY DEF Unposted
  <2> HIDE DEF v
  <2> QED BY <1>1, <1>3, <2>1
<1> HIDE DEF q, v
<1>8. PageStands(q)
  BY <1>1, <1>2, <1>5 DEF PageStands, PostDiffers
<1>9. PageDeclares(q)
  BY <1>2, <1>5 DEF PageDeclares, PostDiffers
<1>10. PageKeeps(q)
  BY <1>2, <1>5 DEF PageKeeps, PostDiffers
<1>11. MayTakeOf(w) => Follows(us.last, u.openBody \o v.batchBody)
  BY <1>3, <1>6 DEF WireFollows
<1>12. v.batchBody \in Seq(Uploaded(w, up.handed)) /\ v.batchBody = <<>>
  BY <1>3, <1>4, <1>6 DEF WireStands
<1>13. up.wire # 0 /\ q.post # up.wire => (IF up.wire = w THEN v.batch ELSE un[up.wire].batch) = "none"
  BY <1>2, <1>6 DEF PageAgrees
<1>14. /\ up.wire # 0 /\ MayTakeOf(up.wire) /\ up.here /\ up.stream = "failed"
       /\ (IF up.wire = w THEN v.batch ELSE un[up.wire].batch) \notin {"refused", "lost"}
       => Covers(up, un[up.wire].openBody
                     \o ((IF up.wire = w THEN v.batchBody ELSE un[up.wire].batchBody) \o q.outbox))
  BY <1>1, <1>2, <1>5, <1>6 DEF PageCovers
<1>15. BatchStep(q, w, v)
  BY <1>1, <1>5, <1>6, <1>7, <1>8, <1>9, <1>10, <1>11, <1>12, <1>13, <1>14 DEF BatchStep
<1> QED BY <1>3, <1>15, BatchStepKeeps

-----------------------------------------------------------------------------
(* The server's steps *)

\* A step of wire w alone, to v: the server takes what comes next, and may end another session.
ServerStep(w, v) ==
    /\ uplan' = uplan /\ up' = up
    /\ un' = [x \in Conns |-> IF x = w THEN v ELSE un[x]] /\ v \in Wires
    /\ us' \in [took : Seq(Nat), last : Nat, holds : [Conns -> SUBSET Chs], cuts : Nat, drops : Nat]
    /\ us'.last = Len(us'.took) /\ (\A i \in 1 .. Len(us'.took) : us'.took[i] = i)
    /\ us.last <= us'.last /\ us'.last <= up.handed
    /\ \A x \in Conns : x # w => us'.holds[x] = us.holds[x] \/ (us'.holds[x] = {} /\ x # up.wire)

\* What it leaves as it was.
LEMMA ServerStepIs ==
    ASSUME UploadInv, NEW w \in Conns, NEW v, ServerStep(w, v)
    PROVE  /\ UploadTypes' /\ TakenAll' /\ up' = up /\ un'[w] = v
           /\ (\A x \in Conns : x # w => un'[x] = un[x])
           /\ us.last \in Nat /\ us'.last \in Nat /\ us.last <= us'.last /\ up.handed \in Nat
           /\ Conns' = Conns /\ Chs' = Chs /\ Pages' = Pages
           /\ \A x, h : Uploaded(x, h)' = Uploaded(x, h)
           /\ \A x : FullReconciles(x)' = FullReconciles(x)
           /\ \A h : Datas(h)' = Datas(h)
           /\ \A x \in Conns : Uploaded(x, up.handed)' = Uploaded(x, up.handed)
           /\ Datas(up.handed)' = Datas(up.handed)
           /\ PageStands(up)' /\ PageDeclares(up)' /\ PageKeeps(up)'
<1>1. /\ UploadTypes /\ us.last \in Nat /\ up.handed \in Nat /\ PageStands(up) /\ PageDeclares(up)
      /\ PageKeeps(up)
  BY HandlersFind, PageFacts
<1>2. /\ Conns' = Conns /\ Chs' = Chs /\ Pages' = Pages /\ Wires' = Wires
      /\ \A x, h : Uploaded(x, h)' = Uploaded(x, h)
      /\ \A x : FullReconciles(x)' = FullReconciles(x)
      /\ \A h : Datas(h)' = Datas(h)
  BY PlanSame DEF ServerStep
<1>3. /\ up' = up /\ un'[w] = v /\ (\A x \in Conns : x # w => un'[x] = un[x]) /\ un' \in [Conns -> Wires]
      /\ us' \in [took : Seq(Nat), last : Nat, holds : [Conns -> SUBSET Chs], cuts : Nat, drops : Nat]
  BY <1>1 DEF ServerStep, UploadTypes
<1>4. UploadTypes'
  BY <1>1, <1>2, <1>3 DEF UploadTypes, ServerStep
<1>5. TakenAll' /\ us'.last \in Nat /\ us.last <= us'.last
  BY <1>3 DEF TakenAll, ServerStep
<1>6. /\ \A x \in Conns : Uploaded(x, up.handed)' = Uploaded(x, up.handed)
      /\ Datas(up.handed)' = Datas(up.handed)
  BY <1>2, <1>3 DEF Uploaded, Datas, Changes
<1>7. PageStands(up)' /\ PageDeclares(up)'
  BY <1>1, <1>2, <1>3 DEF PageStands, PageDeclares
<1>8. PageKeeps(up)'
  <2>1. Uploaded(up.wire, up.handed)' = Uploaded(up.wire, up.handed)
    BY <1>2, <1>3 DEF Uploaded, Datas, Changes
  <2> QED BY <1>1, <1>3, <2>1 DEF PageKeeps
<1> QED BY <1>1, <1>2, <1>3, <1>4, <1>5, <1>6, <1>7, <1>8

\* What followed what was taken still does.
LEMMA StillFollows ==
    ASSUME UploadInv, NEW w \in Conns, NEW v, ServerStep(w, v), NEW F \in Seq(AllFrames)
    PROVE  /\ Follows(us.last, F) => Follows(us'.last, F)
           /\ Covers(up, F) => Covers(up, F)'
<1>1. us.last \in Nat /\ us'.last \in Nat /\ us.last <= us'.last /\ up.handed \in Nat /\ up' = up
  BY ServerStepIs
<1>2. /\ Follows(us.last, F) => Follows(us'.last, F)
      /\ ReachesTo(us.last, F, up.handed) => ReachesTo(us'.last, F, up.handed)
  BY <1>1, FollowsLater
<1>3. ASSUME Covers(up, F) PROVE Covers(up, F)'
  <2>1. Follows(us'.last, F) /\ ReachesTo(us'.last, F, up'.handed)
    BY <1>1, <1>2, <1>3 DEF Covers
  <2> QED BY <2>1 DEF Covers, Follows, ReachesTo
<1> QED BY <1>2, <1>3

\* The bodies of a wire are frames, one after another.
LEMMA BodiesAre ==
    ASSUME UploadTypes, NEW x \in Conns
    PROVE  /\ un[x] \in Wires /\ un[x].openBody \in Seq(AllFrames) /\ un[x].uploadBody \in Seq(AllFrames)
           /\ un[x].batchBody \in Seq(AllFrames)
           /\ un[x].openBody \o un[x].uploadBody \in Seq(AllFrames)
           /\ un[x].openBody \o un[x].batchBody \in Seq(AllFrames)
<1>1. /\ un[x] \in Wires /\ un[x].openBody \in Seq(AllFrames) /\ un[x].uploadBody \in Seq(AllFrames)
      /\ un[x].batchBody \in Seq(AllFrames)
  BY DEF UploadTypes, Wires
<1> QED BY <1>1, Joined

\* The other wires stay as they were.
LEMMA OtherWires ==
    ASSUME UploadInv, NEW w \in Conns, NEW v, ServerStep(w, v), NEW x \in Conns, x # w
    PROVE  /\ WireStands(x)' /\ WireFollows(x)' /\ (MayTakeOf(x)' => MayTakeOf(x))
           /\ (Unread(x)' <=> Unread(x))
<1>1. /\ up' = up /\ un'[x] = un[x] /\ us.last \in Nat /\ us'.last \in Nat /\ us.last <= us'.last
      /\ Uploaded(x, up.handed)' = Uploaded(x, up.handed) /\ FullReconciles(x)' = FullReconciles(x)
      /\ Datas(up.handed)' = Datas(up.handed)
  BY ServerStepIs
<1>2. WireStands(x) /\ WireFollows(x) /\ UploadTypes
  BY DEF UploadInv
<1>3. us'.holds[x] = us.holds[x] \/ us'.holds[x] = {}
  BY DEF ServerStep
<1>4. (Unread(x)' <=> Unread(x)) /\ (MayTakeOf(x)' => MayTakeOf(x))
  BY <1>1, <1>3 DEF Unread, MayTakeOf
<1>5. WireFollows(x)'
  <2> SUFFICES ASSUME MayTakeOf(x) PROVE WireFollows(x)'
    BY <1>4 DEF WireFollows
  <2>1. /\ un[x].upload # "ended" => Follows(us.last, un[x].openBody \o un[x].uploadBody)
        /\ Follows(us.last, un[x].openBody \o un[x].batchBody)
    BY <1>2 DEF WireFollows
  <2>2. /\ un[x].upload # "ended" => Follows(us'.last, un[x].openBody \o un[x].uploadBody)
        /\ Follows(us'.last, un[x].openBody \o un[x].batchBody)
    BY <1>2, <2>1, BodiesAre, StillFollows
  <2> QED BY <1>1, <2>2 DEF WireFollows
<1>6. WireStands(x)'
  <2>1. \A i \in DOMAIN un[x].down : un[x].down[i].t = "RECONCILED" =>
              un[x].down[i].session = x /\ un[x].down[i].last <= us'.last /\ ~Unread(x)
    <3>1. \A i \in DOMAIN un[x].down : un[x].down[i].t = "RECONCILED" => un[x].down[i].last \in Nat
      <4>1. un[x].down \in Seq([t : {"ACK"}]
               \cup [t : {"RECONCILED"}, session : Conns, chs : SUBSET Chs, last : Nat])
        BY <1>2, BodiesAre DEF Wires
      <4> QED BY <4>1
    <3>2. \A i \in DOMAIN un[x].down : un[x].down[i].t = "RECONCILED" =>
              un[x].down[i].session = x /\ un[x].down[i].last <= us.last /\ ~Unread(x)
      BY <1>2 DEF WireStands
    <3> QED BY <1>1, <3>1, <3>2
  <2>2. us'.holds[x] # {} => un[x].wire = "open" /\ ~Unread(x)
    BY <1>2, <1>3 DEF WireStands
  <2> QED BY <1>1, <1>2, <1>4, <2>1, <2>2 DEF WireStands
<1> QED BY <1>4, <1>5, <1>6

\* The page's wire as it was.
LEMMA OtherPage ==
    ASSUME UploadInv, NEW w \in Conns, NEW v, ServerStep(w, v), up.wire # w
    PROVE  PageCovers(up)' /\ PageAgrees(up)'
<1>1. /\ up' = up /\ Conns' = Conns /\ Chs' = Chs /\ (\A x \in Conns : x # w => un'[x] = un[x])
  BY ServerStepIs
<1>2. /\ PageCovers(up) /\ PageAgrees(up) /\ UploadTypes /\ up.out = <<>> /\ up \in Pages
      /\ (up.wire # 0 => up.wire \in Conns)
  BY HandlersFind, PageFacts
<1> SUFFICES ASSUME up.wire # 0 PROVE PageCovers(up)' /\ PageAgrees(up)'
  BY <1>1 DEF PageCovers, PageAgrees
<1> DEFINE x == up.wire
           u == un[x]
<1>3. /\ x \in Conns /\ un'[x] = u /\ us'.holds[x] = us.holds[x]
      /\ (MayTakeOf(x)' => MayTakeOf(x)) /\ (Unread(x)' <=> Unread(x))
  <2>1. x \in Conns /\ x # w
    BY <1>2
  <2>2. us'.holds[x] = us.holds[x]
    BY <2>1 DEF ServerStep
  <2>3. (MayTakeOf(x)' => MayTakeOf(x)) /\ (Unread(x)' <=> Unread(x))
    <3>1. un'[x] = un[x]
      BY <1>1, <2>1
    <3> QED BY <2>2, <3>1, <1>1 DEF MayTakeOf, Unread
  <2> QED BY <1>1, <2>1, <2>2, <2>3
<1>4. PageAgrees(up)'
  BY <1>1, <1>2, <1>3 DEF PageAgrees
<1>5. PageCovers(up)'
  <2> SUFFICES ASSUME MayTakeOf(x) PROVE PageCovers(up)'
    BY <1>1, <1>3 DEF PageCovers
  <2>1. /\ u.openBody \in Seq(AllFrames) /\ u.uploadBody \in Seq(AllFrames)
        /\ u.batchBody \in Seq(AllFrames) /\ up.out \in Seq(AllFrames)
        /\ up.unconfirmed \in Seq(AllFrames) /\ up.outbox \in Seq(AllFrames)
    BY <1>2, <1>3, BodiesAre DEF Pages
  <2>2. /\ u.openBody \o (u.uploadBody \o up.out) \in Seq(AllFrames)
        /\ u.openBody \o up.unconfirmed \in Seq(AllFrames)
        /\ u.openBody \o (u.batchBody \o up.outbox) \in Seq(AllFrames)
    BY <2>1, Joined
  <2>3. /\ Covers(up, u.openBody \o (u.uploadBody \o up.out))
           => Covers(up, u.openBody \o (u.uploadBody \o up.out))'
        /\ Covers(up, u.openBody \o up.unconfirmed) => Covers(up, u.openBody \o up.unconfirmed)'
        /\ Covers(up, u.openBody \o (u.batchBody \o up.outbox))
           => Covers(up, u.openBody \o (u.batchBody \o up.outbox))'
        /\ Covers(up, u.openBody) => Covers(up, u.openBody)'
    <3>1. \A F \in Seq(AllFrames) : Covers(up, F) => /\ Follows(us'.last, F)
                                                     /\ ReachesTo(us'.last, F, up'.handed)
      BY StillFollows DEF Covers, Follows, ReachesTo
    <3> QED BY <1>1, <1>3, <2>1, <2>2, <3>1 DEF Covers
  <2> QED BY <1>1, <1>2, <1>3, <2>3 DEF PageCovers
<1> QED BY <1>4, <1>5

\* What is left to show of a step of wire w.
LEMMA ServerStepKeeps ==
    ASSUME UploadInv, NEW w \in Conns, NEW v, ServerStep(w, v), WireStands(w)', WireFollows(w)',
           up.wire = w => PageCovers(up)' /\ PageAgrees(up)'
    PROVE  UploadInv'
<1>1. /\ UploadTypes' /\ TakenAll' /\ up' = up /\ Conns' = Conns /\ Pages' = Pages
      /\ PageStands(up)' /\ PageDeclares(up)' /\ PageKeeps(up)'
  BY ServerStepIs
<1>2. PageCovers(up)' /\ PageAgrees(up)'
  BY OtherPage
<1>3. \A x \in Conns : WireStands(x)' /\ WireFollows(x)'
  BY OtherWires
<1>4. up \in Pages /\ up.out = <<>>
  BY HandlersFind
<1> QED BY <1>1, <1>2, <1>3, <1>4 DEF UploadInv, PageGood, PageShape

-----------------------------------------------------------------------------
(* Steps that read no frame *)

\* A step that reads no frame of the wire w: its requests arrive, end, or are lost.
StatusStep(w, v) ==
    LET u == un[w]
    IN  /\ ServerStep(w, v) /\ us'.last = us.last
        /\ us'.holds[w] = us.holds[w] \/ us'.holds[w] = {}
        /\ v.wire = "open" => us'.holds[w] = us.holds[w]
        /\ us'.holds[w] # {} => v.wire = "open"
        /\ v.openBody \in {u.openBody, <<>>}
        /\ v.uploadBody = u.uploadBody \/ (v.upload = "ended" /\ v.uploadBody = <<>>)
        /\ u.upload = "ended" => v.upload = "ended"
        /\ v.batchBody \in {u.batchBody, <<>>}
        /\ v.wire # "closed" /\ (v.openBody # <<>> \/ us'.holds[w] # {}) =>
              /\ u.wire # "closed" /\ v.openBody = u.openBody
              /\ v.batch \notin {"refused", "lost"} =>
                    u.batch \notin {"refused", "lost"} /\ v.batchBody = u.batchBody
        /\ \A i \in DOMAIN v.down : v.down[i].t = "RECONCILED" => \E j \in DOMAIN u.down : v.down[i] = u.down[j]
        /\ v.open \in {"none", "lost", "read"} => v.openBody = <<>>
        /\ v.wire = "none" <=> v.open \in {"none", "sent", "lost"}
        /\ v.ready => v.wire = "closed" \/ v.open = "read"
        /\ v.batch \in {"none", "answered"} => v.batchBody = <<>>
        /\ v.wire = "none" => v.down = <<>> /\ u.wire = "none"
        /\ v.wire = "open" => u.wire \in {"none", "open"}
        /\ u.open = "none" => v.open = "none"
        /\ u.upload = "none" => v.upload = "none"
        /\ u.batch = "none" => v.batch = "none"

\* It may only end what the server takes of the wire.
LEMMA StatusTakes ==
    ASSUME NEW w \in Conns, NEW v, StatusStep(w, v), un'[w] = v
    PROVE  /\ Unread(w)' => Unread(w) /\ v.openBody = un[w].openBody
           /\ MayTakeOf(w)' => /\ MayTakeOf(w) /\ v.openBody = un[w].openBody
                               /\ v.batch \notin {"refused", "lost"} =>
                                     /\ un[w].batch \notin {"refused", "lost"}
                                     /\ v.batchBody = un[w].batchBody
<1>1. Unread(w)' => Unread(w) /\ v.openBody = un[w].openBody /\ v.openBody # <<>>
  BY DEF Unread, StatusStep
<1>2. ASSUME MayTakeOf(w)'
      PROVE  /\ MayTakeOf(w) /\ v.openBody = un[w].openBody
             /\ v.batch \notin {"refused", "lost"} =>
                   un[w].batch \notin {"refused", "lost"} /\ v.batchBody = un[w].batchBody
  <2>1. v.wire # "closed" /\ (Unread(w)' \/ 1 \in us'.holds[w])
    BY <1>2 DEF MayTakeOf
  <2>2. v.openBody # <<>> \/ us'.holds[w] # {}
    BY <1>1, <2>1
  <2>3. /\ un[w].wire # "closed" /\ v.openBody = un[w].openBody
        /\ v.batch \notin {"refused", "lost"} =>
              un[w].batch \notin {"refused", "lost"} /\ v.batchBody = un[w].batchBody
    BY <2>1, <2>2 DEF StatusStep
  <2>4. 1 \in us'.holds[w] => 1 \in us.holds[w]
    BY DEF StatusStep
  <2> QED BY <1>1, <2>1, <2>3, <2>4 DEF MayTakeOf
<1> QED BY <1>1, <1>2

\* Its wire stands,
LEMMA StatusStands ==
    ASSUME UploadInv, NEW w \in Conns, NEW v, StatusStep(w, v)
    PROVE  WireStands(w)'
<1> DEFINE u == un[w]
<1>1. /\ ServerStep(w, v) /\ WireStands(w) /\ UploadTypes
  BY DEF StatusStep, UploadInv
<1>2. /\ up' = up /\ un'[w] = v
      /\ FullReconciles(w)' = FullReconciles(w)
      /\ Uploaded(w, up.handed)' = Uploaded(w, up.handed) /\ Datas(up.handed)' = Datas(up.handed)
  BY <1>1, ServerStepIs
<1>3. Unread(w)' => Unread(w)
  BY <1>2, StatusTakes
<1>4. /\ v.uploadBody \in Seq(Uploaded(w, up.handed)) /\ v.batchBody \in Seq(Uploaded(w, up.handed))
  <2>1. <<>> \in Seq(Uploaded(w, up.handed))
    BY EmptySeq
  <2> QED BY <1>1, <2>1 DEF WireStands, StatusStep
<1>5. \A i \in DOMAIN v.openBody :
              \/ v.openBody[i] \in Datas(up.handed)
              \/ i = 1 /\ v.openBody[i] \in FullReconciles(w)
  <2>1. DOMAIN <<>> = {}
    OBVIOUS
  <2>2. v.openBody = u.openBody \/ v.openBody = <<>>
    BY DEF StatusStep
  <2> QED BY <1>1, <2>1, <2>2 DEF WireStands
<1>6. /\ v.open \in {"none", "lost", "read"} => v.openBody = <<>>
      /\ v.wire = "none" <=> v.open \in {"none", "sent", "lost"}
      /\ v.ready => v.wire = "closed" \/ v.open = "read"
      /\ us'.holds[w] # {} => v.wire = "open"
      /\ v.batch \in {"none", "answered"} => v.batchBody = <<>>
      /\ v.wire = "none" => v.down = <<>>
  BY DEF StatusStep
<1>7. us'.holds[w] # {} => ~Unread(w)'
  <2>1. us'.holds[w] # {} => us.holds[w] # {}
    BY DEF StatusStep
  <2> QED BY <1>1, <1>3, <2>1 DEF WireStands
<1>8. w > up.last => v.open = "none" /\ v.upload = "none" /\ v.batch = "none" /\ v.uploadBody = <<>>
  BY <1>1 DEF WireStands, StatusStep
<1>9. \A i \in DOMAIN v.down : v.down[i].t = "RECONCILED" =>
              v.down[i].session = w /\ v.down[i].last <= us'.last /\ ~Unread(w)'
  <2>1. \A i \in DOMAIN u.down : u.down[i].t = "RECONCILED" =>
              u.down[i].session = w /\ u.down[i].last <= us.last /\ ~Unread(w)
    BY <1>1 DEF WireStands
  <2>2. \A i \in DOMAIN v.down : v.down[i].t = "RECONCILED" => \E j \in DOMAIN u.down : v.down[i] = u.down[j]
    BY DEF StatusStep
  <2>3. us'.last = us.last
    BY DEF StatusStep
  <2> HIDE DEF u
  <2> QED BY <1>3, <2>1, <2>2, <2>3
<1> QED BY <1>2, <1>4, <1>5, <1>6, <1>7, <1>8, <1>9 DEF WireStands

\* and follows.
LEMMA StatusFollows ==
    ASSUME UploadInv, NEW w \in Conns, NEW v, StatusStep(w, v)
    PROVE  WireFollows(w)'
<1> DEFINE u == un[w]
<1>1. /\ ServerStep(w, v) /\ WireFollows(w) /\ UploadTypes /\ us'.last = us.last
  BY DEF StatusStep, UploadInv
<1>2. un'[w] = v /\ us.last \in Nat
  BY <1>1, ServerStepIs
<1> SUFFICES ASSUME MayTakeOf(w)'
             PROVE  /\ v.upload # "ended" => Follows(us.last, v.openBody \o v.uploadBody)
                    /\ Follows(us.last, v.openBody \o v.batchBody)
  BY <1>1, <1>2 DEF WireFollows
<1>3. MayTakeOf(w) /\ v.openBody = u.openBody
  BY <1>2, StatusTakes
<1>4. /\ u.upload # "ended" => Follows(us.last, u.openBody \o u.uploadBody)
      /\ Follows(us.last, u.openBody \o u.batchBody)
  BY <1>1, <1>3 DEF WireFollows
<1>5. v.upload # "ended" => u.upload # "ended" /\ v.uploadBody = u.uploadBody
  BY DEF StatusStep
<1>6. Follows(us.last, u.openBody \o <<>>)
  <2>1. /\ u.openBody \in Seq(AllFrames) /\ u.batchBody \in Seq(AllFrames) /\ <<>> \in Seq(AllFrames)
    BY <1>1, BodiesAre, EmptySeq
  <2>2. Follows(us.last, u.openBody) /\ u.openBody \o <<>> = u.openBody
    BY <1>2, <1>4, <2>1, FollowsPrefix, Joined
  <2> QED BY <2>2
<1>7. v.batchBody \in {u.batchBody, <<>>}
  BY DEF StatusStep
<1> QED BY <1>3, <1>4, <1>5, <1>6, <1>7

\* If it is the page's, the page is as it was.
LEMMA StatusPage ==
    ASSUME UploadInv, NEW w \in Conns, NEW v, StatusStep(w, v), up.wire = w
    PROVE  PageCovers(up)' /\ PageAgrees(up)'
<1> DEFINE u == un[w]
<1>1. /\ ServerStep(w, v) /\ PageCovers(up) /\ PageAgrees(up) /\ us'.last = us.last /\ WireStands(w)
      /\ w # 0
  BY HandlersFind, PageFacts, UploadPlanIs DEF StatusStep, UploadInv, UploadTypes
<1>2. un'[w] = v /\ up' = up /\ Conns' = Conns /\ Chs' = Chs
  BY <1>1, ServerStepIs
<1>3. /\ Unread(w)' => Unread(w) /\ v.openBody = u.openBody
      /\ MayTakeOf(w)' => /\ MayTakeOf(w) /\ v.openBody = u.openBody
                          /\ v.batch \notin {"refused", "lost"} =>
                                u.batch \notin {"refused", "lost"} /\ v.batchBody = u.batchBody
  BY <1>2, StatusTakes
<1>4. /\ v.upload # "ended" => u.upload # "ended" /\ v.uploadBody = u.uploadBody
      /\ u.uploadBody = <<>> => v.uploadBody = <<>>
      /\ u.batch = "none" => v.batch = "none"
      /\ \A i \in DOMAIN v.down : v.down[i].t = "RECONCILED" => \E j \in DOMAIN u.down : v.down[i] = u.down[j]
      /\ v.wire = "none" => u.wire = "none"
      /\ v.wire = "open" => u.wire \in {"none", "open"} /\ us'.holds[w] = us.holds[w]
  BY DEF StatusStep
<1>5. u.wire = "none" => DOMAIN u.down = {}
  BY <1>1 DEF WireStands
<1>6. PageCovers(up)'
  <2> SUFFICES ASSUME MayTakeOf(w)' PROVE PageCovers(up)'
    BY <1>1, <1>2 DEF PageCovers
  <2>1. /\ up.here =>
              /\ up.stream = "active" /\ u.upload # "ended" =>
                     Covers(up, u.openBody \o (u.uploadBody \o up.out))
              /\ up.stream = "active" /\ ~up.confirmed => Covers(up, u.openBody \o up.unconfirmed)
              /\ up.stream = "failed" /\ u.batch \notin {"refused", "lost"} =>
                     Covers(up, u.openBody \o (u.batchBody \o up.outbox))
        /\ ~up.here =>
              /\ up.inFlight.carried = 1 => Covers(up, u.openBody)
              /\ up.inFlight.carried = 0 => \A i \in DOMAIN u.openBody : u.openBody[i].t # "DATA"
    BY <1>1, <1>3 DEF PageCovers
  <2>2. ASSUME NEW F, Covers(up, F) PROVE Covers(up, F)'
    BY <1>1, <1>2, <2>2 DEF Covers, Follows, ReachesTo
  <2> HIDE DEF u
  <2> QED BY <1>2, <1>3, <1>4, <2>1, <2>2 DEF PageCovers
<1>7. PageAgrees(up)'
  <2>1. /\ up.post # w => u.batch = "none"
        /\ ~up.here => /\ u.uploadBody = <<>>
                       /\ Unread(w) => Head(u.openBody).chs = up.inFlight.chs
                       /\ \A i \in DOMAIN u.down : u.down[i].t = "RECONCILED" => u.down[i].chs = up.inFlight.chs
        /\ up.here => ~Unread(w) /\ u.wire # "none"
        /\ u.wire = "open" =>
              /\ \A i \in DOMAIN u.down : u.down[i].t = "RECONCILED" => u.down[i].chs \subseteq us.holds[w]
              /\ up.here => {ch \in Chs : up.st[ch] = "open"} \subseteq us.holds[w]
    BY <1>1 DEF PageAgrees
  <2> HIDE DEF u
  <2>2. /\ up.post # w => v.batch = "none"
        /\ ~up.here => /\ v.uploadBody = <<>>
                       /\ Unread(w)' => Head(v.openBody).chs = up.inFlight.chs
                       /\ \A i \in DOMAIN v.down : v.down[i].t = "RECONCILED" => v.down[i].chs = up.inFlight.chs
        /\ up.here => ~Unread(w)' /\ v.wire # "none"
    BY <1>3, <1>4, <2>1
  <2>3. v.wire = "open" =>
              /\ \A i \in DOMAIN v.down : v.down[i].t = "RECONCILED" => v.down[i].chs \subseteq us'.holds[w]
              /\ up.here => {ch \in Chs : up.st[ch] = "open"} \subseteq us'.holds[w]
    BY <1>4, <1>5, <2>1
  <2> QED BY <1>1, <1>2, <2>2, <2>3 DEF PageAgrees
<1> QED BY <1>6, <1>7

\* Such a step keeps the invariant.
LEMMA StatusStepKeeps ==
    ASSUME UploadInv, NEW w \in Conns, NEW v, StatusStep(w, v)
    PROVE  UploadInv'
<1>1. ServerStep(w, v)
  BY DEF StatusStep
<1> QED BY <1>1, StatusStands, StatusFollows, StatusPage, ServerStepKeeps

-----------------------------------------------------------------------------
(* Requests arrive, end and are lost *)

\* A wire's record alone is written.
LEMMA OneWire ==
    ASSUME UploadInv, NEW w \in Conns, NEW v, un' = [un EXCEPT ![w] = v]
    PROVE  un' = [x \in Conns |-> IF x = w THEN v ELSE un[x]]
BY DEF UploadInv, UploadTypes

\* The server does nothing, or counts a cut.
LEMMA ServerWaits ==
    ASSUME UploadInv, NEW w \in Conns, NEW v \in Wires, uplan' = uplan, up' = up, us' = us \/ Cuts,
           un' = [un EXCEPT ![w] = v]
    PROVE  ServerStep(w, v) /\ us'.last = us.last /\ us'.holds = us.holds
<1>1. /\ us \in [took : Seq(Nat), last : Nat, holds : [Conns -> SUBSET Chs], cuts : Nat, drops : Nat]
      /\ TakenAll /\ up.handed \in Nat
  BY HandlersFind DEF UploadInv, UploadTypes, Pages
<1>2. /\ us' \in [took : Seq(Nat), last : Nat, holds : [Conns -> SUBSET Chs], cuts : Nat, drops : Nat]
      /\ us'.took = us.took /\ us'.last = us.last /\ us'.holds = us.holds
  BY <1>1 DEF Cuts
<1>3. un' = [x \in Conns |-> IF x = w THEN v ELSE un[x]]
  BY OneWire
<1>4. /\ us'.last = Len(us'.took) /\ (\A i \in 1 .. Len(us'.took) : us'.took[i] = i)
      /\ us.last <= us'.last /\ us'.last <= up.handed
  BY <1>1, <1>2 DEF TakenAll
<1> QED BY <1>2, <1>3, <1>4 DEF ServerStep

\* The server closes wire w.
LEMMA ServerClosesIt ==
    ASSUME UploadInv, NEW w \in Conns, NEW v \in Wires, uplan' = uplan, up' = up,
           us' = [us EXCEPT !.holds[w] = {}], un' = [un EXCEPT ![w] = v]
    PROVE  ServerStep(w, v) /\ us'.last = us.last /\ us'.holds[w] = {}
<1>1. /\ us \in [took : Seq(Nat), last : Nat, holds : [Conns -> SUBSET Chs], cuts : Nat, drops : Nat]
      /\ TakenAll /\ up.handed \in Nat
  BY HandlersFind DEF UploadInv, UploadTypes, Pages
<1>2. /\ us' \in [took : Seq(Nat), last : Nat, holds : [Conns -> SUBSET Chs], cuts : Nat, drops : Nat]
      /\ us'.took = us.took /\ us'.last = us.last /\ us'.holds[w] = {}
      /\ \A x \in Conns : x # w => us'.holds[x] = us.holds[x]
  BY <1>1
<1>3. un' = [x \in Conns |-> IF x = w THEN v ELSE un[x]]
  BY OneWire
<1>4. /\ us'.last = Len(us'.took) /\ (\A i \in 1 .. Len(us'.took) : us'.took[i] = i)
      /\ us.last <= us'.last /\ us'.last <= up.handed
  BY <1>1, <1>2 DEF TakenAll
<1> QED BY <1>2, <1>3, <1>4 DEF ServerStep

\* The statuses of wire w, as they stand.
LEMMA StatusIs ==
    ASSUME UploadInv, NEW w \in Conns
    PROVE  /\ un[w] \in Wires /\ WireStands(w) /\ us.holds[w] \in SUBSET Chs
           /\ <<>> \in Seq(AllFrames) /\ DOMAIN <<>> = {}
           /\ un \in [Conns -> Wires]
BY EmptySeq DEF UploadInv, UploadTypes

\* What goes down a wire once its upload is acknowledged.
LEMMA AckedDown ==
    ASSUME NEW w \in Conns, un[w] \in Wires
    PROVE  LET d == Append(un[w].down, [t |-> "ACK"])
           IN  /\ d \in Seq([t : {"ACK"}] \cup [t : {"RECONCILED"}, session : Conns, chs : SUBSET Chs, last : Nat])
               /\ \A i \in DOMAIN d : d[i].t = "RECONCILED" => i \in DOMAIN un[w].down /\ d[i] = un[w].down[i]
<1> DEFINE S == [t : {"ACK"}] \cup [t : {"RECONCILED"}, session : Conns, chs : SUBSET Chs, last : Nat]
           s == un[w].down
           a == [t |-> "ACK"]
<1>1. s \in Seq(S) /\ a \in S /\ a.t = "ACK"
  BY DEF Wires
<1> HIDE DEF S, s, a
<1>2. /\ Append(s, a) \in Seq(S) /\ Len(s) \in Nat /\ DOMAIN s = 1 .. Len(s)
      /\ Len(Append(s, a)) = Len(s) + 1 /\ DOMAIN Append(s, a) = 1 .. Len(s) + 1
      /\ (\A i \in 1 .. Len(s) : Append(s, a)[i] = s[i]) /\ Append(s, a)[Len(s) + 1] = a
  BY <1>1, AppendProperties, LenProperties
<1>3. \A i \in DOMAIN Append(s, a) :
          Append(s, a)[i].t = "RECONCILED" => i \in DOMAIN s /\ Append(s, a)[i] = s[i]
  BY <1>1, <1>2
<1> QED BY <1>2, <1>3 DEF S, s, a

\* The open POST arrives.
LEMMA OpenArrivesKeeps ==
    ASSUME UploadInv, NEW w \in Conns, OpenArrives(w)
    PROVE  UploadInv'
<1> DEFINE u == un[w]
           v == [u EXCEPT !.open = "reading", !.wire = "open",
                          !.upload = IF @ = "waits" THEN "acked" ELSE @,
                          !.down = IF u.upload = "waits" THEN Append(@, [t |-> "ACK"]) ELSE @]
<1>1. u \in Wires /\ un \in [Conns -> Wires] /\ WireStands(w)
  BY StatusIs
<1>2. u.open = "sent" /\ u.wire = "none" /\ us.holds[w] = {} /\ u.down = <<>> /\ ~u.ready
  BY <1>1 DEF OpenArrives, WireStands
<1>3. un' = [un EXCEPT ![w] = v] /\ uplan' = uplan /\ up' = up /\ us' = us
  BY <1>1 DEF OpenArrives
<1>4. /\ v \in Wires
      /\ \A i \in DOMAIN v.down : v.down[i].t = "RECONCILED" => i \in DOMAIN u.down /\ v.down[i] = u.down[i]
  BY <1>1, <1>2, AckedDown DEF Wires
<1>5. ServerStep(w, v) /\ us'.last = us.last /\ us'.holds = us.holds
  BY <1>3, <1>4, ServerWaits
<1>6. /\ v.open = "reading" /\ v.wire = "open" /\ v.upload \in {u.upload, "acked"}
      /\ (v.upload # u.upload => u.upload = "waits")
      /\ v.ready = u.ready /\ v.openBody = u.openBody /\ v.uploadBody = u.uploadBody
      /\ v.batch = u.batch /\ v.batchBody = u.batchBody
  BY <1>1 DEF Wires
<1> HIDE DEF v
<1> QED BY <1>1, <1>2, <1>4, <1>5, <1>6, StatusStepKeeps DEF StatusStep, WireStands

\* An upload waits no longer.
LEMMA WaitExpiresKeeps ==
    ASSUME UploadInv, NEW w \in Conns, WaitExpires(w)
    PROVE  UploadInv'
<1> DEFINE u == un[w]
           v == [u EXCEPT !.upload = "ended"]
<1>1. /\ u \in Wires /\ un \in [Conns -> Wires] /\ WireStands(w) /\ <<>> \in Seq(AllFrames) /\ DOMAIN <<>> = {}
      /\ <<>> \in Seq([t : {"ACK"}] \cup [t : {"RECONCILED"}, session : Conns, chs : SUBSET Chs, last : Nat])
  BY StatusIs, EmptySeq
<1>2. u.upload = "waits"
  BY <1>1 DEF WaitExpires
<1>3. un' = [un EXCEPT ![w] = v] /\ uplan' = uplan /\ up' = up /\ (us' = us \/ Cuts)
  BY <1>1 DEF WaitExpires
<1>4. v \in Wires
  BY <1>1, <1>2 DEF Wires
<1>5. ServerStep(w, v) /\ us'.last = us.last /\ us'.holds = us.holds
  BY <1>3, <1>4, ServerWaits
<1>6. /\ v.upload = "ended"
      /\ v.wire = u.wire /\ v.ready = u.ready /\ v.open = u.open /\ v.openBody = u.openBody
      /\ v.uploadBody = u.uploadBody /\ v.batch = u.batch /\ v.batchBody = u.batchBody /\ v.down = u.down
  BY <1>1, <1>2 DEF Wires
<1> HIDE DEF v
<1> QED BY <1>1, <1>2, <1>5, <1>6, StatusStepKeeps DEF StatusStep, WireStands

\* A batch POST arrives.
LEMMA BatchArrivesKeeps ==
    ASSUME UploadInv, NEW w \in Conns, BatchArrives(w)
    PROVE  UploadInv'
<1> DEFINE u == un[w]
           v == [u EXCEPT !.batch = IF u.wire = "closed" THEN "refused" ELSE "reading"]
<1>1. /\ u \in Wires /\ un \in [Conns -> Wires] /\ WireStands(w) /\ <<>> \in Seq(AllFrames) /\ DOMAIN <<>> = {}
      /\ <<>> \in Seq([t : {"ACK"}] \cup [t : {"RECONCILED"}, session : Conns, chs : SUBSET Chs, last : Nat])
  BY StatusIs, EmptySeq
<1>2. u.batch = "sent"
  BY <1>1 DEF BatchArrives
<1>3. un' = [un EXCEPT ![w] = v] /\ uplan' = uplan /\ up' = up /\ (us' = us \/ Cuts)
  BY <1>1 DEF BatchArrives
<1>4. v \in Wires
  BY <1>1, <1>2 DEF Wires
<1>5. ServerStep(w, v) /\ us'.last = us.last /\ us'.holds = us.holds
  BY <1>3, <1>4, ServerWaits
<1>6. /\ v.batch \in {"refused", "reading"} /\ (v.batch = "refused" => u.wire = "closed")
      /\ v.wire = u.wire /\ v.ready = u.ready /\ v.open = u.open /\ v.openBody = u.openBody
      /\ v.upload = u.upload /\ v.uploadBody = u.uploadBody /\ v.batchBody = u.batchBody /\ v.down = u.down
  BY <1>1, <1>2 DEF Wires
<1> HIDE DEF v
<1> QED BY <1>1, <1>2, <1>5, <1>6, StatusStepKeeps DEF StatusStep, WireStands

\* The event stream breaks.
LEMMA StreamIsCutKeeps ==
    ASSUME UploadInv, NEW w \in Conns, StreamIsCut(w)
    PROVE  UploadInv'
<1> DEFINE u == un[w]
           v == [u EXCEPT !.ended = TRUE, !.down = <<>>]
<1>1. /\ u \in Wires /\ un \in [Conns -> Wires] /\ WireStands(w) /\ <<>> \in Seq(AllFrames) /\ DOMAIN <<>> = {}
      /\ <<>> \in Seq([t : {"ACK"}] \cup [t : {"RECONCILED"}, session : Conns, chs : SUBSET Chs, last : Nat])
  BY StatusIs, EmptySeq
<1>2. u.wire = "open"
  BY <1>1 DEF StreamIsCut
<1>3. un' = [un EXCEPT ![w] = v] /\ uplan' = uplan /\ up' = up /\ (us' = us \/ Cuts)
  BY <1>1 DEF StreamIsCut, Cuts
<1>4. v \in Wires
  BY <1>1, <1>2 DEF Wires
<1>5. ServerStep(w, v) /\ us'.last = us.last /\ us'.holds = us.holds
  BY <1>3, <1>4, ServerWaits
<1>6. /\ v.down = <<>>
      /\ v.wire = u.wire /\ v.ready = u.ready /\ v.open = u.open /\ v.openBody = u.openBody
      /\ v.upload = u.upload /\ v.uploadBody = u.uploadBody /\ v.batch = u.batch /\ v.batchBody = u.batchBody
  BY <1>1, <1>2 DEF Wires
<1> HIDE DEF v
<1> QED BY <1>1, <1>2, <1>5, <1>6, StatusStepKeeps DEF StatusStep, WireStands

\* The upload POST is cut.
LEMMA UploadIsCutKeeps ==
    ASSUME UploadInv, NEW w \in Conns, UploadIsCut(w)
    PROVE  UploadInv'
<1> DEFINE u == un[w]
           v == [u EXCEPT !.upload = "ended", !.uploadBody = <<>>]
<1>1. /\ u \in Wires /\ un \in [Conns -> Wires] /\ WireStands(w) /\ <<>> \in Seq(AllFrames) /\ DOMAIN <<>> = {}
      /\ <<>> \in Seq([t : {"ACK"}] \cup [t : {"RECONCILED"}, session : Conns, chs : SUBSET Chs, last : Nat])
  BY StatusIs, EmptySeq
<1>2. u.upload # "none"
  BY <1>1 DEF UploadIsCut
<1>3. un' = [un EXCEPT ![w] = v] /\ uplan' = uplan /\ up' = up /\ (us' = us \/ Cuts)
  BY <1>1 DEF UploadIsCut, Cuts
<1>4. v \in Wires
  BY <1>1, <1>2 DEF Wires
<1>5. ServerStep(w, v) /\ us'.last = us.last /\ us'.holds = us.holds
  BY <1>3, <1>4, ServerWaits
<1>6. /\ v.upload = "ended" /\ v.uploadBody = <<>>
      /\ v.wire = u.wire /\ v.ready = u.ready /\ v.open = u.open /\ v.openBody = u.openBody
      /\ v.batch = u.batch /\ v.batchBody = u.batchBody /\ v.down = u.down
  BY <1>1, <1>2 DEF Wires
<1> HIDE DEF v
<1> QED BY <1>1, <1>2, <1>5, <1>6, StatusStepKeeps DEF StatusStep, WireStands

\* A batch POST fails.
LEMMA BatchIsCutKeeps ==
    ASSUME UploadInv, NEW w \in Conns, BatchIsCut(w)
    PROVE  UploadInv'
<1> DEFINE u == un[w]
           v == [u EXCEPT !.batch = "lost", !.batchBody = <<>>]
<1>1. /\ u \in Wires /\ un \in [Conns -> Wires] /\ WireStands(w) /\ <<>> \in Seq(AllFrames) /\ DOMAIN <<>> = {}
      /\ <<>> \in Seq([t : {"ACK"}] \cup [t : {"RECONCILED"}, session : Conns, chs : SUBSET Chs, last : Nat])
  BY StatusIs, EmptySeq
<1>2. u.batch # "none"
  BY <1>1 DEF BatchIsCut
<1>3. un' = [un EXCEPT ![w] = v] /\ uplan' = uplan /\ up' = up /\ (us' = us \/ Cuts)
  BY <1>1 DEF BatchIsCut, Cuts
<1>4. v \in Wires
  BY <1>1, <1>2 DEF Wires
<1>5. ServerStep(w, v) /\ us'.last = us.last /\ us'.holds = us.holds
  BY <1>3, <1>4, ServerWaits
<1>6. /\ v.batch = "lost" /\ v.batchBody = <<>>
      /\ v.wire = u.wire /\ v.ready = u.ready /\ v.open = u.open /\ v.openBody = u.openBody
      /\ v.upload = u.upload /\ v.uploadBody = u.uploadBody /\ v.down = u.down
  BY <1>1, <1>2 DEF Wires
<1> HIDE DEF v
<1> QED BY <1>1, <1>2, <1>5, <1>6, StatusStepKeeps DEF StatusStep, WireStands

\* The server closes an open wire.
LEMMA ClosesKeeps ==
    ASSUME UploadInv, NEW w \in Conns, ServerCloses(w), un[w].wire = "open", uplan' = uplan, up' = up
    PROVE  UploadInv'
<1> DEFINE u == un[w]
           v == [u EXCEPT !.wire = "closed", !.ready = TRUE, !.ended = TRUE]
<1>1. /\ u \in Wires /\ un \in [Conns -> Wires] /\ WireStands(w) /\ <<>> \in Seq(AllFrames) /\ DOMAIN <<>> = {}
      /\ <<>> \in Seq([t : {"ACK"}] \cup [t : {"RECONCILED"}, session : Conns, chs : SUBSET Chs, last : Nat])
  BY StatusIs, EmptySeq
<1>2. u.wire = "open" /\ u.open \in {"reading", "read"}
  BY <1>1 DEF WireStands, Wires
<1>3. un' = [un EXCEPT ![w] = v] /\ uplan' = uplan /\ up' = up /\ us' = [us EXCEPT !.holds[w] = {}]
  BY <1>1 DEF ServerCloses
<1>4. v \in Wires
  BY <1>1, <1>2 DEF Wires
<1>5. ServerStep(w, v) /\ us'.last = us.last /\ us'.holds[w] = {}
  BY <1>3, <1>4, ServerClosesIt
<1>6. /\ v.wire = "closed" /\ v.ready
      /\ v.open = u.open /\ v.openBody = u.openBody /\ v.upload = u.upload /\ v.uploadBody = u.uploadBody
      /\ v.batch = u.batch /\ v.batchBody = u.batchBody /\ v.down = u.down
  BY <1>1, <1>2 DEF Wires
<1> HIDE DEF v
<1> QED BY <1>1, <1>2, <1>5, <1>6, StatusStepKeeps DEF StatusStep, WireStands

\* The server hears that the page aborted the wire.
LEMMA HearsOfTheCutKeeps == ASSUME UploadInv, NEW w \in Conns, HearsOfTheCut(w) PROVE UploadInv'
BY ClosesKeeps DEF HearsOfTheCut

\* An aborted open POST never arrives.
LEMMA OpenIsLostKeeps ==
    ASSUME UploadInv, NEW w \in Conns, un[w].open = "sent",
           un' = [un EXCEPT ![w].open = "lost", ![w].openBody = <<>>], uplan' = uplan, up' = up, us' = us
    PROVE  UploadInv'
<1> DEFINE u == un[w]
           v == [u EXCEPT !.open = "lost", !.openBody = <<>>]
<1>1. /\ u \in Wires /\ un \in [Conns -> Wires] /\ WireStands(w) /\ <<>> \in Seq(AllFrames) /\ DOMAIN <<>> = {}
      /\ <<>> \in Seq([t : {"ACK"}] \cup [t : {"RECONCILED"}, session : Conns, chs : SUBSET Chs, last : Nat])
  BY StatusIs, EmptySeq
<1>2. u.open = "sent" /\ u.wire = "none" /\ us.holds[w] = {}
  BY <1>1 DEF WireStands
<1>3. un' = [un EXCEPT ![w] = v] /\ uplan' = uplan /\ up' = up /\ (us' = us \/ Cuts)
  BY <1>1 DEF Wires
<1>4. v \in Wires
  BY <1>1, <1>2 DEF Wires
<1>5. ServerStep(w, v) /\ us'.last = us.last /\ us'.holds = us.holds
  BY <1>3, <1>4, ServerWaits
<1>6. /\ v.open = "lost" /\ v.openBody = <<>>
      /\ v.wire = u.wire /\ v.ready = u.ready /\ v.upload = u.upload /\ v.uploadBody = u.uploadBody
      /\ v.batch = u.batch /\ v.batchBody = u.batchBody /\ v.down = u.down
  BY <1>1, <1>2 DEF Wires
<1> HIDE DEF v
<1> QED BY <1>1, <1>2, <1>5, <1>6, StatusStepKeeps DEF StatusStep, WireStands

\* An aborted upload ends.
LEMMA UploadIsLostKeeps ==
    ASSUME UploadInv, NEW w \in Conns, un[w].upload # "none",
           un' = [un EXCEPT ![w].upload = "ended", ![w].uploadBody = <<>>], uplan' = uplan, up' = up, us' = us
    PROVE  UploadInv'
<1> DEFINE u == un[w]
           v == [u EXCEPT !.upload = "ended", !.uploadBody = <<>>]
<1>1. /\ u \in Wires /\ un \in [Conns -> Wires] /\ WireStands(w) /\ <<>> \in Seq(AllFrames) /\ DOMAIN <<>> = {}
      /\ <<>> \in Seq([t : {"ACK"}] \cup [t : {"RECONCILED"}, session : Conns, chs : SUBSET Chs, last : Nat])
  BY StatusIs, EmptySeq
<1>2. u.upload # "none"
  BY <1>1 DEF WireStands
<1>3. un' = [un EXCEPT ![w] = v] /\ uplan' = uplan /\ up' = up /\ (us' = us \/ Cuts)
  BY <1>1 DEF Wires
<1>4. v \in Wires
  BY <1>1, <1>2 DEF Wires
<1>5. ServerStep(w, v) /\ us'.last = us.last /\ us'.holds = us.holds
  BY <1>3, <1>4, ServerWaits
<1>6. /\ v.upload = "ended" /\ v.uploadBody = <<>>
      /\ v.wire = u.wire /\ v.ready = u.ready /\ v.open = u.open /\ v.openBody = u.openBody
      /\ v.batch = u.batch /\ v.batchBody = u.batchBody /\ v.down = u.down
  BY <1>1, <1>2 DEF Wires
<1> HIDE DEF v
<1> QED BY <1>1, <1>2, <1>5, <1>6, StatusStepKeeps DEF StatusStep, WireStands

\* An aborted batch POST is lost.
LEMMA BatchIsLostKeeps ==
    ASSUME UploadInv, NEW w \in Conns, un[w].batch # "none",
           un' = [un EXCEPT ![w].batch = "lost", ![w].batchBody = <<>>], uplan' = uplan, up' = up, us' = us
    PROVE  UploadInv'
<1> DEFINE u == un[w]
           v == [u EXCEPT !.batch = "lost", !.batchBody = <<>>]
<1>1. /\ u \in Wires /\ un \in [Conns -> Wires] /\ WireStands(w) /\ <<>> \in Seq(AllFrames) /\ DOMAIN <<>> = {}
      /\ <<>> \in Seq([t : {"ACK"}] \cup [t : {"RECONCILED"}, session : Conns, chs : SUBSET Chs, last : Nat])
  BY StatusIs, EmptySeq
<1>2. u.batch # "none"
  BY <1>1 DEF WireStands
<1>3. un' = [un EXCEPT ![w] = v] /\ uplan' = uplan /\ up' = up /\ (us' = us \/ Cuts)
  BY <1>1 DEF Wires
<1>4. v \in Wires
  BY <1>1, <1>2 DEF Wires
<1>5. ServerStep(w, v) /\ us'.last = us.last /\ us'.holds = us.holds
  BY <1>3, <1>4, ServerWaits
<1>6. /\ v.batch = "lost" /\ v.batchBody = <<>>
      /\ v.wire = u.wire /\ v.ready = u.ready /\ v.open = u.open /\ v.openBody = u.openBody
      /\ v.upload = u.upload /\ v.uploadBody = u.uploadBody /\ v.down = u.down
  BY <1>1, <1>2 DEF Wires
<1> HIDE DEF v
<1> QED BY <1>1, <1>2, <1>5, <1>6, StatusStepKeeps DEF StatusStep, WireStands

\* An aborted request goes no further.
LEMMA AbortedIsLostKeeps == ASSUME UploadInv, NEW w \in Conns, AbortedIsLost(w) PROVE UploadInv'
<1>1. CASE un[w].cut /\ un[w].open = "reading" /\ un[w].wire = "open" /\ ServerCloses(w)
  BY <1>1, ClosesKeeps DEF AbortedIsLost
<1>2. CASE un[w].open = "sent" /\ us' = us /\ un' = [un EXCEPT ![w].open = "lost", ![w].openBody = <<>>]
  BY <1>2, OpenIsLostKeeps DEF AbortedIsLost
<1>3. CASE /\ un[w].upload \in {"sent", "waits", "acked"} /\ us' = us
           /\ un' = [un EXCEPT ![w].upload = "ended", ![w].uploadBody = <<>>]
  BY <1>3, UploadIsLostKeeps DEF AbortedIsLost
<1>4. CASE /\ un[w].batch \in {"sent", "reading"} /\ us' = us
           /\ un' = [un EXCEPT ![w].batch = "lost", ![w].batchBody = <<>>]
  BY <1>4, BatchIsLostKeeps DEF AbortedIsLost
<1> QED BY <1>1, <1>2, <1>3, <1>4 DEF AbortedIsLost

\* The open POST is read to its end.
LEMMA OpenEndsKeeps ==
    ASSUME UploadInv, NEW w \in Conns, ReadsOpen(w), un[w].openBody = <<>> \/ un[w].wire = "closed"
    PROVE  UploadInv'
<1> DEFINE u == un[w]
           v == [u EXCEPT !.open = "read", !.openBody = <<>>, !.ready = TRUE]
<1>1. /\ u \in Wires /\ un \in [Conns -> Wires] /\ WireStands(w) /\ <<>> \in Seq(AllFrames) /\ DOMAIN <<>> = {}
      /\ <<>> \in Seq([t : {"ACK"}] \cup [t : {"RECONCILED"}, session : Conns, chs : SUBSET Chs, last : Nat])
  BY StatusIs, EmptySeq
<1>2. u.open = "reading" /\ u.wire \in {"open", "closed"} /\ (u.openBody = <<>> \/ u.wire = "closed")
  BY <1>1 DEF ReadsOpen, WireStands, Wires
<1>3. un' = [un EXCEPT ![w] = v] /\ uplan' = uplan /\ up' = up /\ (us' = us \/ Cuts)
  BY <1>1 DEF ReadsOpen
<1>4. v \in Wires
  BY <1>1, <1>2 DEF Wires
<1>5. ServerStep(w, v) /\ us'.last = us.last /\ us'.holds = us.holds
  BY <1>3, <1>4, ServerWaits
<1>6. /\ v.open = "read" /\ v.openBody = <<>> /\ v.ready
      /\ v.wire = u.wire /\ v.upload = u.upload /\ v.uploadBody = u.uploadBody /\ v.batch = u.batch
      /\ v.batchBody = u.batchBody /\ v.down = u.down
  BY <1>1, <1>2 DEF Wires
<1> HIDE DEF v
<1> QED BY <1>1, <1>2, <1>5, <1>6, StatusStepKeeps DEF StatusStep, WireStands

\* An upload of a closed wire is read no further.
LEMMA UploadClosedKeeps ==
    ASSUME UploadInv, NEW w \in Conns, ReadsUpload(w), un[w].wire = "closed"
    PROVE  UploadInv'
<1> DEFINE u == un[w]
           v == [u EXCEPT !.upload = "ended"]
<1>1. /\ u \in Wires /\ un \in [Conns -> Wires] /\ WireStands(w) /\ <<>> \in Seq(AllFrames) /\ DOMAIN <<>> = {}
      /\ <<>> \in Seq([t : {"ACK"}] \cup [t : {"RECONCILED"}, session : Conns, chs : SUBSET Chs, last : Nat])
  BY StatusIs, EmptySeq
<1>2. u.upload = "acked"
  BY <1>1 DEF ReadsUpload
<1>3. un' = [un EXCEPT ![w] = v] /\ uplan' = uplan /\ up' = up /\ (us' = us \/ Cuts)
  BY <1>1 DEF ReadsUpload
<1>4. v \in Wires
  BY <1>1, <1>2 DEF Wires
<1>5. ServerStep(w, v) /\ us'.last = us.last /\ us'.holds = us.holds
  BY <1>3, <1>4, ServerWaits
<1>6. /\ v.upload = "ended"
      /\ v.wire = u.wire /\ v.ready = u.ready /\ v.open = u.open /\ v.openBody = u.openBody
      /\ v.uploadBody = u.uploadBody /\ v.batch = u.batch /\ v.batchBody = u.batchBody /\ v.down = u.down
  BY <1>1, <1>2 DEF Wires
<1> HIDE DEF v
<1> QED BY <1>1, <1>2, <1>5, <1>6, StatusStepKeeps DEF StatusStep, WireStands

\* A batch POST is read to its end.
LEMMA BatchEndsKeeps ==
    ASSUME UploadInv, NEW w \in Conns, ReadsBatch(w), un[w].batchBody = <<>> \/ un[w].wire = "closed"
    PROVE  UploadInv'
<1> DEFINE u == un[w]
           v == [u EXCEPT !.batch = "answered", !.batchBody = <<>>]
<1>1. /\ u \in Wires /\ un \in [Conns -> Wires] /\ WireStands(w) /\ <<>> \in Seq(AllFrames) /\ DOMAIN <<>> = {}
      /\ <<>> \in Seq([t : {"ACK"}] \cup [t : {"RECONCILED"}, session : Conns, chs : SUBSET Chs, last : Nat])
  BY StatusIs, EmptySeq
<1>2. u.batch = "reading" /\ (u.batchBody = <<>> \/ u.wire = "closed")
  BY <1>1 DEF ReadsBatch
<1>3. un' = [un EXCEPT ![w] = v] /\ uplan' = uplan /\ up' = up /\ (us' = us \/ Cuts)
  BY <1>1 DEF ReadsBatch
<1>4. v \in Wires
  BY <1>1, <1>2 DEF Wires
<1>5. ServerStep(w, v) /\ us'.last = us.last /\ us'.holds = us.holds
  BY <1>3, <1>4, ServerWaits
<1>6. /\ v.batch = "answered" /\ v.batchBody = <<>>
      /\ v.wire = u.wire /\ v.ready = u.ready /\ v.open = u.open /\ v.openBody = u.openBody
      /\ v.upload = u.upload /\ v.uploadBody = u.uploadBody /\ v.down = u.down
  BY <1>1, <1>2 DEF Wires
<1> HIDE DEF v
<1> QED BY <1>1, <1>2, <1>5, <1>6, StatusStepKeeps DEF StatusStep, WireStands

\* The upload POST arrives.
LEMMA UploadArrivesKeeps ==
    ASSUME UploadInv, NEW w \in Conns, UploadArrives(w)
    PROVE  UploadInv'
<1> DEFINE u == un[w]
           v == [u EXCEPT !.upload = CASE u.wire = "none" -> "waits" [] u.wire = "open" -> "acked"
                                         [] u.wire = "closed" -> "ended",
                          !.down = IF u.wire = "open" THEN Append(@, [t |-> "ACK"]) ELSE @]
<1>1. /\ u \in Wires /\ un \in [Conns -> Wires] /\ WireStands(w) /\ <<>> \in Seq(AllFrames) /\ DOMAIN <<>> = {}
      /\ <<>> \in Seq([t : {"ACK"}] \cup [t : {"RECONCILED"}, session : Conns, chs : SUBSET Chs, last : Nat])
  BY StatusIs, EmptySeq
<1>2. u.upload = "sent" /\ u.wire \in {"none", "open", "closed"}
  BY <1>1 DEF UploadArrives, Wires
<1>3. un' = [un EXCEPT ![w] = v] /\ uplan' = uplan /\ up' = up /\ (us' = us \/ Cuts)
  <2>1. CASE u.wire = "none"
    BY <1>1, <2>1 DEF UploadArrives
  <2>2. CASE u.wire = "open"
    BY <1>1, <2>2 DEF UploadArrives
  <2>3. CASE u.wire = "closed"
    BY <1>1, <2>3 DEF UploadArrives
  <2> QED BY <1>2, <2>1, <2>2, <2>3
<1>4. /\ v \in Wires
      /\ \A i \in DOMAIN v.down : v.down[i].t = "RECONCILED" => i \in DOMAIN u.down /\ v.down[i] = u.down[i]
  BY <1>1, <1>2, AckedDown DEF Wires
<1>5. ServerStep(w, v) /\ us'.last = us.last /\ us'.holds = us.holds
  BY <1>3, <1>4, ServerWaits
<1>6. /\ v.upload \in {"waits", "acked", "ended"} /\ (v.wire = "none" => v.down = u.down)
      /\ v.wire = u.wire /\ v.ready = u.ready /\ v.open = u.open /\ v.openBody = u.openBody
      /\ v.uploadBody = u.uploadBody /\ v.batch = u.batch /\ v.batchBody = u.batchBody
  BY <1>1, <1>2 DEF Wires
<1> HIDE DEF v
<1> QED BY <1>1, <1>2, <1>4, <1>5, <1>6, StatusStepKeeps DEF StatusStep, WireStands

-----------------------------------------------------------------------------
(* The server reads a frame *)

\* The server reads frame f on wire w, which goes to v.
TakesFrame(w, v, f) ==
    /\ uplan' = uplan /\ up' = up /\ us' = Handles(us, w, f) /\ un' = [un EXCEPT ![w] = v] /\ v \in Wires
    /\ f \in Datas(up.handed) \cup FullReconciles(w) \cup Changes(w)
    /\ f.t = "DATA" /\ 1 \in us.holds[w] => f.n <= us.last + 1
    /\ f.t = "RECONCILE" => f.session = w \/ f.session # up.wire \/ up.wire = 0
    /\ v.down = un[w].down \o AnswerTo(us, w, f)

\* A frame read is data or a RECONCILE.
LEMMA FrameIs ==
    ASSUME UploadInv, NEW w \in Conns, NEW f \in Datas(up.handed) \cup FullReconciles(w) \cup Changes(w)
    PROVE  /\ f.t = "DATA" => f.n \in Nat /\ f.n > 0 /\ f.n <= up.handed
           /\ f.t # "DATA" => /\ f.t = "RECONCILE" /\ f.session \in Nat /\ f.chs \in SUBSET Chs
                              /\ f.changes \in BOOLEAN
                              /\ f.changes => f.session = w /\ 1 \notin f.chs
                              /\ ~f.changes => f.session < w
           /\ f.t = "DATA" => f \in Datas(up.handed) /\ f.t # "RECONCILE"
           /\ f \in AllFrames
<1>1. up.handed \in Nat /\ Conns \subseteq Nat
  BY HandlersFind, UploadPlanIs DEF Pages, UploadTypes
<1>2. CASE f \in Datas(up.handed)
  BY <1>1, <1>2 DEF Datas, AllFrames
<1>3. CASE f \in FullReconciles(w)
  <2>1. w \in Nat /\ {FALSE} \subseteq BOOLEAN /\ 0 .. w - 1 \subseteq Nat
    BY <1>1
  <2>2. f \in [t : {"RECONCILE"}, session : Nat, changes : BOOLEAN, chs : SUBSET Chs]
    BY <2>1, <1>3 DEF FullReconciles
  <2>3. f.t = "RECONCILE" /\ f.session \in 0 .. w - 1 /\ f.changes \in {FALSE} /\ f.chs \in SUBSET Chs
    BY <1>3 DEF FullReconciles
  <2>4. f.session \in Nat /\ f.session < w
    BY <2>1, <2>3
  <2>5. f.changes \in BOOLEAN /\ ~f.changes
    BY <2>3
  <2> QED BY <2>2, <2>3, <2>4, <2>5 DEF AllFrames
<1>4. CASE f \in Changes(w)
  BY <1>1, <1>4 DEF Changes, AllFrames
<1> QED BY <1>2, <1>3, <1>4

\* What the server makes of it.
LEMMA HandlesIs ==
    ASSUME UploadInv, NEW w \in Conns, NEW v, NEW f, TakesFrame(w, v, f)
    PROVE  /\ ServerStep(w, v) /\ us.last \in Nat /\ us'.last \in Nat
           /\ f.t = "DATA" => us'.holds = us.holds /\ (1 \in us.holds[w] => f.n <= us'.last)
           /\ f.t # "DATA" => /\ us'.last = us.last
                              /\ us'.holds[w] = IF f.changes THEN us.holds[w] \cup f.chs ELSE f.chs
<1> DEFINE T == [took : Seq(Nat), last : Nat, holds : [Conns -> SUBSET Chs], cuts : Nat, drops : Nat]
<1>1. us \in T /\ TakenAll /\ up.handed \in Nat /\ Conns \subseteq Nat
  BY HandlersFind, UploadPlanIs DEF UploadInv, UploadTypes, Pages
<1>2. un' = [x \in Conns |-> IF x = w THEN v ELSE un[x]] /\ v \in Wires /\ us' = Handles(us, w, f)
      /\ uplan' = uplan /\ up' = up
  BY OneWire DEF TakesFrame
<1>3. /\ f.t = "DATA" => f.n \in Nat /\ f.n > 0 /\ f.n <= up.handed
      /\ f.t # "DATA" => f.t = "RECONCILE" /\ f.session \in Nat /\ f.chs \in SUBSET Chs
      /\ f.t = "DATA" => f.t # "RECONCILE"
      /\ f.t = "DATA" /\ 1 \in us.holds[w] => f.n <= us.last + 1
      /\ f.t = "RECONCILE" => f.session = w \/ f.session # up.wire \/ up.wire = 0
  BY FrameIs DEF TakesFrame
<1>4. CASE f.t # "DATA"
  <2>1. us' = Reconciled(us, w, f)
    BY <1>2, <1>3, <1>4 DEF Handles
  <2>2. /\ us' \in T /\ us'.took = us.took /\ us'.last = us.last
        /\ us'.holds[w] = IF f.changes THEN us.holds[w] \cup f.chs ELSE f.chs
        /\ \A x \in Conns : x # w => us'.holds[x] = IF x = f.session THEN {} ELSE us.holds[x]
    BY <1>1, <1>3, <1>4, <2>1 DEF Reconciled
  <2>3. \A x \in Conns : x # w => us'.holds[x] = us.holds[x] \/ (us'.holds[x] = {} /\ x # up.wire)
    BY <1>1, <1>3, <1>4, <2>2, UploadPlanIs DEF UploadInv, UploadTypes
  <2>4. /\ us'.last = Len(us'.took) /\ (\A i \in 1 .. Len(us'.took) : us'.took[i] = i)
        /\ us.last <= us'.last /\ us'.last <= up.handed
    BY <1>1, <2>2 DEF TakenAll
  <2>5. ServerStep(w, v)
    BY <1>2, <2>2, <2>3, <2>4 DEF ServerStep
  <2> QED BY <1>1, <1>4, <2>2, <2>5
<1>5. CASE f.t = "DATA" /\ (1 \notin us.holds[w] \/ f.n <= us.last)
  <2>1. us' = us
    BY <1>2, <1>3, <1>5 DEF Handles
  <2>2. /\ us'.last = Len(us'.took) /\ (\A i \in 1 .. Len(us'.took) : us'.took[i] = i)
        /\ us.last <= us'.last /\ us'.last <= up.handed
    BY <1>1, <2>1 DEF TakenAll
  <2>3. ServerStep(w, v)
    BY <1>1, <1>2, <2>1, <2>2 DEF ServerStep
  <2> QED BY <1>1, <1>5, <2>1, <2>3
<1>6. CASE f.t = "DATA" /\ 1 \in us.holds[w] /\ f.n > us.last
  <2>1. us' = [us EXCEPT !.took = Append(@, f.n), !.last = f.n]
    BY <1>1, <1>2, <1>3, <1>6 DEF Handles
  <2>2. f.n = us.last + 1
    BY <1>1, <1>3, <1>6
  <2>3. /\ us'.took = Append(us.took, f.n) /\ us'.last = f.n /\ us'.holds = us.holds
        /\ us'.cuts = us.cuts /\ us'.drops = us.drops
    BY <1>1, <2>1
  <2>4. /\ Append(us.took, f.n) \in Seq(Nat) /\ Len(us.took) \in Nat
        /\ Len(Append(us.took, f.n)) = Len(us.took) + 1
        /\ (\A i \in 1 .. Len(us.took) : Append(us.took, f.n)[i] = us.took[i])
        /\ Append(us.took, f.n)[Len(us.took) + 1] = f.n
    BY <1>1, <1>3, <1>6, AppendProperties, LenProperties
  <2>5. us' \in T
    BY <1>1, <1>3, <1>6, <2>1, <2>4
  <2>6. us.last = Len(us.took) /\ (\A i \in 1 .. Len(us.took) : us.took[i] = i)
    BY <1>1 DEF TakenAll
  <2>7. /\ us'.last = Len(us'.took) /\ (\A i \in 1 .. Len(us'.took) : us'.took[i] = i)
        /\ us.last <= us'.last /\ us'.last <= up.handed
    BY <1>1, <1>3, <1>6, <2>2, <2>3, <2>4, <2>6
  <2>8. ServerStep(w, v)
    BY <1>1, <1>2, <2>3, <2>5, <2>7 DEF ServerStep
  <2> QED BY <1>1, <1>3, <1>6, <2>3, <2>5, <2>8
<1> QED BY <1>1, <1>3, <1>4, <1>5, <1>6

\* What goes down a wire as a frame on it is read.
LEMMA AnsweredDown ==
    ASSUME UploadInv, NEW w \in Conns, NEW f \in Datas(up.handed) \cup FullReconciles(w) \cup Changes(w)
    PROVE  LET d == un[w].down \o AnswerTo(us, w, f)
               a == [t |-> "RECONCILED", session |-> w, chs |-> f.chs, last |-> us.last]
           IN  /\ d \in Seq([t : {"ACK"}] \cup [t : {"RECONCILED"}, session : Conns, chs : SUBSET Chs, last : Nat])
               /\ \A i \in DOMAIN d : d[i].t = "RECONCILED" =>
                     \/ i \in DOMAIN un[w].down /\ d[i] = un[w].down[i]
                     \/ f.t = "RECONCILE" /\ d[i] = a
<1> DEFINE S == [t : {"ACK"}] \cup [t : {"RECONCILED"}, session : Conns, chs : SUBSET Chs, last : Nat]
           s == un[w].down
           a == [t |-> "RECONCILED", session |-> w, chs |-> f.chs, last |-> us.last]
           b == AnswerTo(us, w, f)
<1>1. s \in Seq(S) /\ us.last \in Nat
  BY DEF Wires, UploadInv, UploadTypes
<1>2. f.t = "RECONCILE" => a \in S
  BY <1>1, FrameIs
<1>3. b = IF f.t # "RECONCILE" THEN <<>> ELSE <<a>>
  BY DEF AnswerTo
<1> HIDE DEF S, s, a, b
<1>4. /\ b \in Seq(S) /\ Len(b) \in Nat /\ DOMAIN b = 1 .. Len(b)
      /\ \A i \in 1 .. Len(b) : f.t = "RECONCILE" /\ b[i] = a
  <2>1. CASE f.t # "RECONCILE"
    BY <1>3, <2>1, EmptySeq
  <2>2. CASE f.t = "RECONCILE"
    <3>1. b = <<a>> /\ a \in S
      BY <1>2, <1>3, <2>2
    <3> QED BY <3>1, <2>2
  <2> QED BY <2>1, <2>2
<1>5. /\ s \o b \in Seq(S) /\ Len(s) \in Nat /\ DOMAIN s = 1 .. Len(s)
      /\ DOMAIN (s \o b) = 1 .. Len(s) + Len(b)
      /\ \A i \in 1 .. Len(s) + Len(b) : (s \o b)[i] = IF i <= Len(s) THEN s[i] ELSE b[i - Len(s)]
  BY <1>1, <1>4, ConcatProperties, LenProperties
<1>6. \A i \in DOMAIN (s \o b) : \/ i \in DOMAIN s /\ (s \o b)[i] = s[i]
                                 \/ f.t = "RECONCILE" /\ (s \o b)[i] = a
  BY <1>4, <1>5
<1> QED BY <1>5, <1>6 DEF S, s, a, b

-----------------------------------------------------------------------------
(* of the open POST *)

\* The wire once frame f of its open POST is read.
OpenRead(w, f) ==
    [un[w] EXCEPT !.openBody = Tail(@), !.down = @ \o AnswerTo(us, w, f)]

\* The next frame of its open POST is read, on an open wire.
OpenReads(w, f, v) ==
    /\ ReadsOpen(w) /\ un[w].openBody # <<>> /\ un[w].wire # "closed"
    /\ f = Head(un[w].openBody) /\ v = OpenRead(w, f)

\* The open POST's next frame is read on an open wire.
LEMMA OpenTakesFrame ==
    ASSUME UploadInv, NEW w \in Conns, ReadsOpen(w), un[w].openBody # <<>>, un[w].wire # "closed",
           NEW f, f = Head(un[w].openBody)
    PROVE  /\ TakesFrame(w, OpenRead(w, f), f)
           /\ un[w].open = "reading" /\ un[w].wire = "open"
           /\ f \in Datas(up.handed) \cup FullReconciles(w)
           /\ f = un[w].openBody[1]
           /\ (\A i \in DOMAIN Tail(un[w].openBody) : Tail(un[w].openBody)[i] \in Datas(up.handed))
           /\ Tail(un[w].openBody) \in Seq(AllFrames)
           /\ (up.wire = 0 \/ w <= up.wire)
<1> DEFINE u == un[w]
           v == OpenRead(w, f)
           F == u.openBody
<1>1. /\ UploadTypes /\ u \in Wires /\ un \in [Conns -> Wires] /\ WireStands(w) /\ WireFollows(w)
      /\ us.last \in Nat /\ F \in Seq(AllFrames) /\ u.batchBody \in Seq(AllFrames)
      /\ PageStands(up) /\ up \in Pages /\ Conns \subseteq Nat
  BY HandlersFind, BodiesAre, UploadPlanIs DEF UploadInv, UploadTypes
<1>0. up.last \in Conns \cup {0} /\ up.wire \in Conns \cup {0} /\ \A x \in Conns \cup {0} : x \in Nat
  <2>1. up.last \in Conns \cup {0} /\ up.wire \in Conns \cup {0}
    BY <1>1 DEF Pages
  <2> QED BY <1>1, <2>1
<1>2. /\ u.open = "reading" /\ u.wire = "open"
      /\ us' = Handles(us, w, f) /\ uplan' = uplan /\ up' = up
      /\ un' = [un EXCEPT ![w].openBody = Tail(@), ![w].down = @ \o AnswerTo(us, w, f)]
  <2>1. u.open = "reading" /\ u.wire = "open"
    BY <1>1 DEF ReadsOpen, WireStands, Wires
  <2> QED BY <2>1 DEF ReadsOpen
<1>3. /\ f = F[1] /\ 1 \in DOMAIN F /\ Tail(F) \in Seq(AllFrames) /\ Len(Tail(F)) = Len(F) - 1
      /\ (\A i \in 1 .. Len(F) - 1 : Tail(F)[i] = F[i + 1])
      /\ Len(F) \in Nat /\ DOMAIN F = 1 .. Len(F) /\ DOMAIN Tail(F) = 1 .. Len(F) - 1
  <2>1. Tail(F) \in Seq(AllFrames) /\ Len(Tail(F)) = Len(F) - 1 /\ Head(F) = F[1]
        /\ (\A i \in 1 .. Len(F) - 1 : Tail(F)[i] = F[i + 1])
    BY <1>1, HeadTailProperties
  <2>2. Len(F) \in Nat /\ DOMAIN F = 1 .. Len(F) /\ (F = <<>> <=> Len(F) = 0)
    BY <1>1, FramesAre
  <2>3. DOMAIN Tail(F) = 1 .. Len(Tail(F))
    BY <2>1, FramesAre
  <2> QED BY <2>1, <2>2, <2>3
<1>4. \A i \in DOMAIN F : \/ F[i] \in Datas(up.handed)
                          \/ i = 1 /\ F[i] \in FullReconciles(w)
  BY <1>1 DEF WireStands
<1>5. /\ f \in Datas(up.handed) \cup FullReconciles(w)
      /\ \A i \in DOMAIN Tail(F) : Tail(F)[i] \in Datas(up.handed)
  <2> HIDE DEF F
  <2>1. \A i \in DOMAIN Tail(F) : i + 1 \in DOMAIN F /\ i + 1 # 1 /\ Tail(F)[i] = F[i + 1]
    BY <1>3
  <2> QED BY <1>3, <1>4, <2>1
<1>6. un' = [un EXCEPT ![w] = v]
  BY <1>1, <1>2 DEF OpenRead
<1>7. v \in Wires
  <2>1. u.down \o AnswerTo(us, w, f)
          \in Seq([t : {"ACK"}] \cup [t : {"RECONCILED"}, session : Conns, chs : SUBSET Chs, last : Nat])
    BY <1>5, AnsweredDown
  <2> QED BY <1>1, <1>3, <2>1 DEF OpenRead, Wires
<1>8. f.t = "DATA" /\ 1 \in us.holds[w] => f.n <= us.last + 1
  <2> SUFFICES ASSUME f.t = "DATA", 1 \in us.holds[w] PROVE f.n <= us.last + 1
    OBVIOUS
  <2>1. Follows(us.last, F \o u.batchBody)
    BY <1>1, <1>2 DEF WireFollows, MayTakeOf
  <2>2. Follows(us.last, F)
    BY <1>1, <2>1, FollowsPrefix
  <2>3. f.n <= us.last + 1 \/ \E j \in 1 .. 1 - 1 : F[j].t = "DATA" /\ f.n <= F[j].n + 1
    BY <1>3, <2>2 DEF Follows
  <2> QED BY <2>3
<1>9. up.wire = 0 \/ w <= up.wire
  <2>1. w <= up.last
    <3>1. w > up.last => u.open = "none"
      BY <1>1 DEF WireStands
    <3>2. up.last \in Nat /\ w \in Nat
      BY <1>0
    <3> QED BY <1>2, <3>1, <3>2
  <2> QED BY <1>1, <2>1 DEF PageStands
<1>10. f.t = "RECONCILE" => f.session = w \/ f.session # up.wire \/ up.wire = 0
  <2>1. f.t = "RECONCILE" => f.session \in Nat /\ (~f.changes => f.session < w) /\ (f.changes => f.session = w)
    BY <1>5, FrameIs
  <2>2. w \in Nat /\ up.wire \in Nat
    BY <1>0
  <2> QED BY <1>9, <2>1, <2>2
<1>12. v.down = u.down \o AnswerTo(us, w, f)
  BY <1>1 DEF OpenRead, Wires
<1>11. TakesFrame(w, OpenRead(w, f), f)
  BY <1>2, <1>5, <1>6, <1>7, <1>8, <1>10, <1>12 DEF TakesFrame
<1> QED BY <1>2, <1>3, <1>5, <1>9, <1>11

\* What it leaves of the wire: no RECONCILE, and what it may take of it it might before.
LEMMA OpenReadIs ==
    ASSUME UploadInv, NEW w \in Conns, NEW f, NEW v, OpenReads(w, f, v)
    PROVE  /\ ServerStep(w, v) /\ TakesFrame(w, v, f) /\ un'[w] = v /\ up' = up
           /\ v.openBody = Tail(un[w].openBody) /\ v.down = un[w].down \o AnswerTo(us, w, f)
           /\ v.wire = un[w].wire /\ v.ready = un[w].ready /\ v.open = un[w].open
           /\ v.upload = un[w].upload /\ v.uploadBody = un[w].uploadBody
           /\ v.batch = un[w].batch /\ v.batchBody = un[w].batchBody
           /\ ~Unread(w)'
           /\ Unread(w) <=> f.t = "RECONCILE"
           /\ MayTakeOf(w)' => MayTakeOf(w) /\ (f.t = "DATA" => f.n <= us'.last)
<1>0. /\ ReadsOpen(w) /\ un[w].openBody # <<>> /\ un[w].wire # "closed"
      /\ f = Head(un[w].openBody) /\ v = OpenRead(w, f)
  BY DEF OpenReads
<1>1. /\ TakesFrame(w, v, f) /\ un[w].wire = "open"
      /\ f \in Datas(up.handed) \cup FullReconciles(w)
      /\ (\A i \in DOMAIN Tail(un[w].openBody) : Tail(un[w].openBody)[i] \in Datas(up.handed))
      /\ Tail(un[w].openBody) \in Seq(AllFrames)
  BY <1>0, OpenTakesFrame
<1>2. ServerStep(w, v) /\ up' = up /\ un'[w] = v
  <2>1. ServerStep(w, v)
    BY <1>1, HandlesIs
  <2> QED BY <2>1, ServerStepIs
<1>3. /\ v.openBody = Tail(un[w].openBody) /\ v.down = un[w].down \o AnswerTo(us, w, f)
      /\ v.wire = un[w].wire /\ v.ready = un[w].ready /\ v.open = un[w].open
      /\ v.upload = un[w].upload /\ v.uploadBody = un[w].uploadBody
      /\ v.batch = un[w].batch /\ v.batchBody = un[w].batchBody
  <2>1. un[w] \in Wires
    BY StatusIs
  <2> QED BY <1>0, <2>1 DEF OpenRead, Wires
<1>4. ~Unread(w)'
  <2> DEFINE G == Tail(un[w].openBody)
  <2>1. G # <<>> => Head(G).t = "DATA"
    <3> SUFFICES ASSUME G # <<>> PROVE Head(G).t = "DATA"
      OBVIOUS
    <3>1. G \in Seq(AllFrames) /\ \A i \in DOMAIN G : G[i] \in Datas(up.handed)
      BY <1>1
    <3> HIDE DEF G
    <3>2. Head(G) = G[1] /\ 1 \in DOMAIN G
      BY <3>1, HeadTailProperties, FramesAre
    <3>3. G[1] \in Datas(up.handed)
      BY <3>1, <3>2
    <3> QED BY <3>2, <3>3 DEF Datas
  <2>2. Unread(w)' = (v.openBody # <<>> /\ Head(v.openBody).t = "RECONCILE")
    BY <1>2 DEF Unread
  <2> QED BY <1>3, <2>1, <2>2
<1>5. Unread(w) <=> f.t = "RECONCILE"
  BY <1>0 DEF Unread
<1>6. MayTakeOf(w)' => MayTakeOf(w) /\ (f.t = "DATA" => f.n <= us'.last)
  <2> SUFFICES ASSUME MayTakeOf(w)' PROVE MayTakeOf(w) /\ (f.t = "DATA" => f.n <= us'.last)
    OBVIOUS
  <2>1. 1 \in us'.holds[w]
    BY <1>4 DEF MayTakeOf
  <2>2. CASE f.t = "DATA"
    BY <1>1, <2>1, <2>2, HandlesIs DEF MayTakeOf
  <2>3. CASE f.t # "DATA"
    <3>1. f.t = "RECONCILE"
      BY <1>1, <2>3, FrameIs
    <3> QED BY <1>1, <1>5, <2>3, <3>1 DEF MayTakeOf
  <2> QED BY <2>2, <2>3
<1> QED BY <1>1, <1>2, <1>3, <1>4, <1>5, <1>6

\* All handed over was taken, or is to come, after the step.
WillCover(F) == Follows(us'.last, F) /\ ReachesTo(us'.last, F, up'.handed)

\* What is left of a body after the frame read from it goes on from what was taken.
LEMMA ReadOn ==
    ASSUME UploadInv, NEW w \in Conns, NEW v, ServerStep(w, v), NEW F \in Seq(AllFrames), F # <<>>,
           Head(F).t = "DATA" => Head(F).n <= us'.last
    PROVE  /\ Follows(us.last, F) => Follows(us'.last, Tail(F))
           /\ Covers(up, F) => WillCover(Tail(F))
<1>1. us.last \in Nat /\ us'.last \in Nat /\ us.last <= us'.last /\ up.handed \in Nat /\ up' = up
  BY ServerStepIs
<1>2. /\ Follows(us.last, F) => Follows(us'.last, Tail(F))
      /\ ReachesTo(us.last, F, up.handed) => ReachesTo(us'.last, Tail(F), up.handed)
  BY <1>1, FollowsTail
<1>3. ASSUME Covers(up, F) PROVE WillCover(Tail(F))
  <2>1. Follows(us'.last, Tail(F)) /\ ReachesTo(us'.last, Tail(F), up'.handed)
    BY <1>1, <1>2, <1>3 DEF Covers
  <2> QED BY <2>1 DEF WillCover
<1> QED BY <1>2, <1>3

\* The same of a body before others.
LEMMA ReadOnBoth ==
    ASSUME UploadInv, NEW w \in Conns, NEW v, ServerStep(w, v), NEW F \in Seq(AllFrames), F # <<>>,
           Head(F).t = "DATA" => Head(F).n <= us'.last, NEW X \in Seq(AllFrames)
    PROVE  /\ Follows(us.last, F \o X) => Follows(us'.last, Tail(F) \o X)
           /\ Covers(up, F \o X) => WillCover(Tail(F) \o X)
<1> DEFINE G == F \o X
<1>1. G \in Seq(AllFrames) /\ G # <<>> /\ Head(G) = Head(F) /\ Tail(G) = Tail(F) \o X
  BY TailOfBoth, Joined
<1> HIDE DEF G
<1>2. /\ Follows(us.last, G) => Follows(us'.last, Tail(G))
      /\ Covers(up, G) => WillCover(Tail(G))
  BY <1>1, ReadOn
<1> QED BY <1>1, <1>2 DEF G

\* The RECONCILEDs on the wire are of its session.
LEMMA DownStands ==
    ASSUME UploadInv, NEW w \in Conns, NEW f, NEW v, TakesFrame(w, v, f)
    PROVE  \A i \in DOMAIN v.down : v.down[i].t = "RECONCILED" =>
              /\ v.down[i].session = w /\ v.down[i].last <= us'.last
              /\ \/ i \in DOMAIN un[w].down /\ v.down[i] = un[w].down[i]
                 \/ f.t = "RECONCILE" /\ v.down[i].chs = f.chs
<1> DEFINE d == un[w].down \o AnswerTo(us, w, f)
           a == [t |-> "RECONCILED", session |-> w, chs |-> f.chs, last |-> us.last]
<1>1. f \in Datas(up.handed) \cup FullReconciles(w) \cup Changes(w)
  BY DEF TakesFrame
<1>2. \A i \in DOMAIN d : d[i].t = "RECONCILED" =>
                     \/ i \in DOMAIN un[w].down /\ d[i] = un[w].down[i]
                     \/ f.t = "RECONCILE" /\ d[i] = a
  BY <1>1, AnsweredDown
<1>3. ServerStep(w, v) /\ us.last \in Nat /\ us'.last \in Nat
  BY HandlesIs
<1>4. us.last <= us'.last
  BY <1>3 DEF ServerStep
<1>5. /\ a.session = w /\ a.last = us.last /\ a.chs = f.chs
  OBVIOUS
<1>6. \A i \in DOMAIN un[w].down : un[w].down[i].t = "RECONCILED" =>
              un[w].down[i].session = w /\ un[w].down[i].last <= us.last /\ un[w].down[i].last \in Nat
  <2>1. un[w].down \in Seq([t : {"ACK"}] \cup [t : {"RECONCILED"}, session : Conns, chs : SUBSET Chs, last : Nat])
    BY StatusIs DEF Wires
  <2>2. \A i \in DOMAIN un[w].down : un[w].down[i].t = "RECONCILED" => un[w].down[i].last \in Nat
    BY <2>1
  <2> QED BY <2>2, StatusIs DEF WireStands
<1> HIDE DEF d, a
<1>7. v.down = d
  BY DEF d, TakesFrame
<1>8. \A i \in DOMAIN d : d[i].t = "RECONCILED" =>
              /\ d[i].session = w /\ d[i].last <= us'.last
              /\ \/ i \in DOMAIN un[w].down /\ d[i] = un[w].down[i]
                 \/ f.t = "RECONCILE" /\ d[i].chs = f.chs
  <2> SUFFICES ASSUME NEW i \in DOMAIN d, d[i].t = "RECONCILED"
               PROVE  /\ d[i].session = w /\ d[i].last <= us'.last
                      /\ \/ i \in DOMAIN un[w].down /\ d[i] = un[w].down[i]
                         \/ f.t = "RECONCILE" /\ d[i].chs = f.chs
    OBVIOUS
  <2>1. CASE i \in DOMAIN un[w].down /\ d[i] = un[w].down[i]
    BY <1>3, <1>4, <1>6, <2>1
  <2>2. CASE f.t = "RECONCILE" /\ d[i] = a
    BY <1>3, <1>4, <1>5, <2>2
  <2> QED BY <1>2, <2>1, <2>2
<1> QED BY <1>7, <1>8

\* An open POST's frame read leaves the wire as it should stand,
LEMMA OpenReadStands ==
    ASSUME UploadInv, NEW w \in Conns, NEW f, NEW v, OpenReads(w, f, v)
    PROVE  WireStands(w)' /\ WireFollows(w)'
<1> DEFINE u == un[w]
<1>1. /\ ServerStep(w, v) /\ TakesFrame(w, v, f) /\ un'[w] = v /\ up' = up
      /\ v.openBody = Tail(u.openBody) /\ v.down = u.down \o AnswerTo(us, w, f)
      /\ v.wire = u.wire /\ v.ready = u.ready /\ v.open = u.open
      /\ v.upload = u.upload /\ v.uploadBody = u.uploadBody
      /\ v.batch = u.batch /\ v.batchBody = u.batchBody
      /\ ~Unread(w)'
      /\ MayTakeOf(w)' => MayTakeOf(w) /\ (f.t = "DATA" => f.n <= us'.last)
  BY OpenReadIs
<1>2. /\ u.open = "reading" /\ u.wire = "open"
      /\ (\A i \in DOMAIN Tail(u.openBody) : Tail(u.openBody)[i] \in Datas(up.handed))
  BY OpenTakesFrame DEF OpenReads
<1>3. /\ FullReconciles(w)' = FullReconciles(w)
      /\ Uploaded(w, up.handed)' = Uploaded(w, up.handed) /\ Datas(up.handed)' = Datas(up.handed)
  BY <1>1, ServerStepIs
<1>4. WireStands(w) /\ WireFollows(w) /\ UploadTypes
  BY DEF UploadInv
<1>5. \A i \in DOMAIN v.down : v.down[i].t = "RECONCILED" => v.down[i].session = w /\ v.down[i].last <= us'.last
  <2>1. TakesFrame(w, v, f)
    BY <1>1
  <2> HIDE DEF u
  <2> QED BY ONLY UploadInv, w \in Conns, <2>1, DownStands
<1>6. WireStands(w)'
  <2> HIDE DEF u
  <2>1. WireStands(w)' = (
          /\ v.uploadBody \in Seq(Uploaded(w, up.handed)) /\ v.batchBody \in Seq(Uploaded(w, up.handed))
          /\ \A i \in DOMAIN v.openBody :
                \/ v.openBody[i] \in Datas(up.handed)
                \/ i = 1 /\ v.openBody[i] \in FullReconciles(w)
          /\ v.open \in {"none", "lost", "read"} => v.openBody = <<>>
          /\ v.wire = "none" <=> v.open \in {"none", "sent", "lost"}
          /\ v.ready => v.wire = "closed" \/ v.open = "read"
          /\ us'.holds[w] # {} => v.wire = "open" /\ ~Unread(w)'
          /\ v.batch \in {"none", "answered"} => v.batchBody = <<>>
          /\ w > up.last => /\ v.open = "none" /\ v.upload = "none" /\ v.batch = "none"
                            /\ v.uploadBody = <<>>
          /\ v.wire = "none" => v.down = <<>>
          /\ \A i \in DOMAIN v.down : v.down[i].t = "RECONCILED" =>
                v.down[i].session = w /\ v.down[i].last <= us'.last /\ ~Unread(w)')
    BY <1>1, <1>3 DEF WireStands
  <2>2. /\ u.uploadBody \in Seq(Uploaded(w, up.handed)) /\ u.batchBody \in Seq(Uploaded(w, up.handed))
        /\ u.ready => u.wire = "closed" \/ u.open = "read"
        /\ u.batch \in {"none", "answered"} => u.batchBody = <<>>
        /\ w > up.last => u.open = "none"
    BY <1>4 DEF WireStands, u
  <2> QED BY <1>1, <1>2, <1>5, <2>1, <2>2
<1>7. WireFollows(w)'
  <2> SUFFICES ASSUME MayTakeOf(w)'
               PROVE  /\ v.upload # "ended" => Follows(us'.last, v.openBody \o v.uploadBody)
                      /\ Follows(us'.last, v.openBody \o v.batchBody)
    BY <1>1 DEF WireFollows
  <2>1. MayTakeOf(w) /\ (f.t = "DATA" => f.n <= us'.last)
    BY <1>1
  <2>2. /\ u.upload # "ended" => Follows(us.last, u.openBody \o u.uploadBody)
        /\ Follows(us.last, u.openBody \o u.batchBody)
    BY <1>4, <2>1 DEF WireFollows
  <2>3. /\ u.openBody \in Seq(AllFrames) /\ u.uploadBody \in Seq(AllFrames) /\ u.batchBody \in Seq(AllFrames)
    BY <1>4, BodiesAre
  <2>5. ServerStep(w, v) /\ u.openBody # <<>> /\ (Head(u.openBody).t = "DATA" => Head(u.openBody).n <= us'.last)
    BY <1>1, <2>1 DEF OpenReads
  <2>4. /\ u.upload # "ended" => Follows(us'.last, Tail(u.openBody) \o u.uploadBody)
        /\ Follows(us'.last, Tail(u.openBody) \o u.batchBody)
    BY <2>2, <2>3, <2>5, ReadOnBoth
  <2> QED BY <1>1, <2>4
<1> QED BY <1>6, <1>7

\* The page's wire after the step, by its value.
LEMMA WillCoverPage ==
    ASSUME NEW v, un'[up.wire] = v, up' = up,
           /\ up.here =>
              /\ up.stream = "active" /\ v.upload # "ended" =>
                     WillCover(v.openBody \o (v.uploadBody \o up.out))
              /\ up.stream = "active" /\ ~up.confirmed => WillCover(v.openBody \o up.unconfirmed)
              /\ up.stream = "failed" /\ v.batch \notin {"refused", "lost"} =>
                     WillCover(v.openBody \o (v.batchBody \o up.outbox))
           /\ ~up.here =>
              /\ up.inFlight.carried = 1 => WillCover(v.openBody)
              /\ up.inFlight.carried = 0 => \A i \in DOMAIN v.openBody : v.openBody[i].t # "DATA"
    PROVE  PageCovers(up)'
<1>1. un'[up'.wire] = v
  OBVIOUS
<1> QED BY <1>1 DEF PageCovers, WillCover, Covers

\* and the page, if it is the page's wire, with all it handed over taken or to come,
LEMMA OpenReadCovers ==
    ASSUME UploadInv, NEW w \in Conns, NEW f, NEW v, OpenReads(w, f, v), up.wire = w
    PROVE  PageCovers(up)'
<1> DEFINE u == un[w]
<1>1. /\ ServerStep(w, v) /\ un'[w] = v /\ up' = up
      /\ v.openBody = Tail(u.openBody)
      /\ v.upload = u.upload /\ v.uploadBody = u.uploadBody
      /\ v.batch = u.batch /\ v.batchBody = u.batchBody
      /\ MayTakeOf(w)' => MayTakeOf(w) /\ (f.t = "DATA" => f.n <= us'.last)
  BY OpenReadIs
<1>2. /\ PageCovers(up) /\ UploadTypes /\ up \in Pages /\ w # 0
  BY HandlersFind, UploadPlanIs DEF PageGood, UploadTypes
<1> SUFFICES ASSUME MayTakeOf(w)' PROVE PageCovers(up)'
  BY <1>1 DEF PageCovers
<1>3. MayTakeOf(w) /\ (Head(u.openBody).t = "DATA" => Head(u.openBody).n <= us'.last) /\ u.openBody # <<>>
  BY <1>1 DEF OpenReads
<1>4. /\ up.here =>
              /\ up.stream = "active" /\ u.upload # "ended" =>
                     Covers(up, u.openBody \o (u.uploadBody \o up.out))
              /\ up.stream = "active" /\ ~up.confirmed => Covers(up, u.openBody \o up.unconfirmed)
              /\ up.stream = "failed" /\ u.batch \notin {"refused", "lost"} =>
                     Covers(up, u.openBody \o (u.batchBody \o up.outbox))
      /\ ~up.here =>
              /\ up.inFlight.carried = 1 => Covers(up, u.openBody)
              /\ up.inFlight.carried = 0 => \A i \in DOMAIN u.openBody : u.openBody[i].t # "DATA"
  BY <1>2, <1>3 DEF PageCovers
<1>5. /\ u.openBody \in Seq(AllFrames)
      /\ u.uploadBody \o up.out \in Seq(AllFrames) /\ up.unconfirmed \in Seq(AllFrames)
      /\ u.batchBody \o up.outbox \in Seq(AllFrames)
  <2>1. /\ u.openBody \in Seq(AllFrames) /\ u.uploadBody \in Seq(AllFrames)
        /\ u.batchBody \in Seq(AllFrames) /\ up.out \in Seq(AllFrames)
        /\ up.unconfirmed \in Seq(AllFrames) /\ up.outbox \in Seq(AllFrames)
    BY <1>2, BodiesAre DEF Pages
  <2> QED BY <2>1, Joined
<1> DEFINE G == Tail(u.openBody)
<1>6. /\ Covers(up, u.openBody \o (u.uploadBody \o up.out)) => WillCover(G \o (u.uploadBody \o up.out))
      /\ Covers(up, u.openBody \o up.unconfirmed) => WillCover(G \o up.unconfirmed)
      /\ Covers(up, u.openBody \o (u.batchBody \o up.outbox)) => WillCover(G \o (u.batchBody \o up.outbox))
      /\ Covers(up, u.openBody) => WillCover(G)
  BY <1>1, <1>3, <1>5, ReadOn, ReadOnBoth
<1>7. (\A i \in DOMAIN u.openBody : u.openBody[i].t # "DATA") => (\A i \in DOMAIN G : G[i].t # "DATA")
  <2> DEFINE F == u.openBody
  <2>1. F \in Seq(AllFrames) /\ F # <<>>
    BY <1>3, <1>5
  <2> HIDE DEF F
  <2>2. /\ Tail(F) \in Seq(AllFrames) /\ Len(Tail(F)) = Len(F) - 1 /\ Len(F) \in Nat
        /\ \A i \in 1 .. Len(F) - 1 : Tail(F)[i] = F[i + 1]
    BY <2>1, HeadTailProperties, LenProperties
  <2>3. DOMAIN F = 1 .. Len(F) /\ DOMAIN Tail(F) = 1 .. Len(F) - 1
    BY <2>1, <2>2, FramesAre
  <2>4. \A i \in DOMAIN Tail(F) : i + 1 \in DOMAIN F /\ Tail(F)[i] = F[i + 1]
    BY <2>2, <2>3
  <2>5. (\A i \in DOMAIN F : F[i].t # "DATA") => (\A i \in DOMAIN Tail(F) : Tail(F)[i].t # "DATA")
    BY <2>4
  <2> QED BY <2>5 DEF F
<1>8. /\ up.here =>
              /\ up.stream = "active" /\ v.upload # "ended" =>
                     WillCover(v.openBody \o (v.uploadBody \o up.out))
              /\ up.stream = "active" /\ ~up.confirmed => WillCover(v.openBody \o up.unconfirmed)
              /\ up.stream = "failed" /\ v.batch \notin {"refused", "lost"} =>
                     WillCover(v.openBody \o (v.batchBody \o up.outbox))
      /\ ~up.here =>
              /\ up.inFlight.carried = 1 => WillCover(v.openBody)
              /\ up.inFlight.carried = 0 => \A i \in DOMAIN v.openBody : v.openBody[i].t # "DATA"
  <2> HIDE DEF u, G
  <2>1. v.openBody = G
    BY <1>1 DEF G
  <2> QED BY <1>1, <1>4, <1>6, <1>7, <2>1
<1> QED BY <1>1, <1>8, WillCoverPage

\* and its RECONCILED one of what it declared.
LEMMA OpenReadAgrees ==
    ASSUME UploadInv, NEW w \in Conns, NEW f, NEW v, OpenReads(w, f, v), up.wire = w
    PROVE  PageAgrees(up)'
<1> DEFINE u == un[w]
<1>1. /\ ServerStep(w, v) /\ TakesFrame(w, v, f) /\ un'[w] = v /\ up' = up
      /\ v.wire = u.wire /\ v.uploadBody = u.uploadBody /\ v.batch = u.batch
      /\ ~Unread(w)' /\ (Unread(w) <=> f.t = "RECONCILE")
  BY OpenReadIs
<1>2. /\ PageAgrees(up) /\ WireStands(w) /\ w # 0 /\ f = Head(u.openBody)
  BY HandlersFind, UploadPlanIs DEF PageGood, UploadTypes, UploadInv, OpenReads
<1>3. u.wire = "open" /\ f \in Datas(up.handed) \cup FullReconciles(w)
  BY OpenTakesFrame DEF OpenReads
<1>4. /\ up.post # w => u.batch = "none"
      /\ ~up.here => /\ u.uploadBody = <<>>
                     /\ Unread(w) => f.chs = up.inFlight.chs
                     /\ \A i \in DOMAIN u.down : u.down[i].t = "RECONCILED" => u.down[i].chs = up.inFlight.chs
      /\ up.here => ~Unread(w)
      /\ \A i \in DOMAIN u.down : u.down[i].t = "RECONCILED" => u.down[i].chs \subseteq us.holds[w] /\ ~Unread(w)
      /\ up.here => {ch \in Chs : up.st[ch] = "open"} \subseteq us.holds[w]
  BY <1>2, <1>3 DEF PageAgrees, WireStands
<1>5. \A i \in DOMAIN v.down : v.down[i].t = "RECONCILED" =>
              \/ i \in DOMAIN u.down /\ v.down[i] = u.down[i]
              \/ f.t = "RECONCILE" /\ v.down[i].chs = f.chs
  <2>1. TakesFrame(w, v, f)
    BY <1>1
  <2> QED BY <2>1, DownStands
<1>6. /\ f.t = "DATA" => us'.holds = us.holds
      /\ f.t # "DATA" => f.t = "RECONCILE" /\ us'.holds[w] = f.chs
  <2>1. TakesFrame(w, v, f)
    BY <1>1
  <2>2. f.t # "DATA" => f.t = "RECONCILE" /\ ~f.changes
    BY <1>3 DEF Datas, FullReconciles
  <2> QED BY <2>1, <2>2, HandlesIs
<1>9. f.t = "DATA" \/ f.t = "RECONCILE"
  BY <1>6
<1>7. Chs' = Chs
  BY <1>1, ServerStepIs
<1>8. /\ up.post # w => v.batch = "none"
      /\ ~up.here => /\ v.uploadBody = <<>>
                     /\ \A i \in DOMAIN v.down : v.down[i].t = "RECONCILED" => v.down[i].chs = up.inFlight.chs
      /\ \A i \in DOMAIN v.down : v.down[i].t = "RECONCILED" => v.down[i].chs \subseteq us'.holds[w]
      /\ up.here => {ch \in Chs : up.st[ch] = "open"} \subseteq us'.holds[w]
      /\ v.wire = "open"
  <2> HIDE DEF u
  <2>1. CASE f.t = "DATA"
    BY <1>1, <1>3, <1>4, <1>5, <1>6, <2>1
  <2>2. CASE f.t = "RECONCILE"
    BY <1>1, <1>3, <1>4, <1>5, <1>6, <2>2
  <2> QED BY <1>9, <2>1, <2>2
<1> QED BY <1>1, <1>2, <1>7, <1>8 DEF PageAgrees

\* The open POST's frames keep the invariant.
LEMMA OpenReadKeeps ==
    ASSUME UploadInv, NEW w \in Conns, ReadsOpen(w)
    PROVE  UploadInv'
<1>1. CASE un[w].openBody = <<>> \/ un[w].wire = "closed"
  BY <1>1, OpenEndsKeeps
<1>2. CASE un[w].openBody # <<>> /\ un[w].wire # "closed"
  <2>1. OpenReads(w, Head(un[w].openBody), OpenRead(w, Head(un[w].openBody)))
    BY <1>2 DEF OpenReads
  <2>2. PICK f, v : OpenReads(w, f, v)
    BY <2>1
  <2>3. ServerStep(w, v) /\ WireStands(w)' /\ WireFollows(w)'
    BY <2>2, OpenReadIs, OpenReadStands
  <2>4. up.wire = w => PageCovers(up)' /\ PageAgrees(up)'
    BY <2>2, OpenReadCovers, OpenReadAgrees
  <2> QED BY <2>3, <2>4, ServerStepKeeps
<1> QED BY <1>1, <1>2

-----------------------------------------------------------------------------
(* of an upload, or of a batch POST *)

\* The next frame of wire w's upload is read, or of its batch POST.
PostReads(w, f, v) ==
    LET u == un[w]
    IN  /\ u.ready /\ u.wire # "closed"
        /\ uplan' = uplan /\ up' = up /\ us' = Handles(us, w, f) /\ un' = [un EXCEPT ![w] = v]
        /\ \/ /\ u.upload = "acked" /\ u.uploadBody # <<>> /\ f = Head(u.uploadBody)
              /\ v = [u EXCEPT !.uploadBody = Tail(@), !.down = @ \o AnswerTo(us, w, f)]
           \/ /\ u.batch = "reading" /\ u.batchBody # <<>> /\ f = Head(u.batchBody)
              /\ v = [u EXCEPT !.batchBody = Tail(@), !.down = @ \o AnswerTo(us, w, f)]

\* Of what wire w carries, up to h, the rest does too.
LEMMA TailUploaded ==
    ASSUME NEW w \in Nat, NEW h \in Nat, NEW F \in Seq(Uploaded(w, h)), F # <<>>
    PROVE  /\ Head(F) \in Uploaded(w, h) /\ Tail(F) \in Seq(Uploaded(w, h)) /\ Tail(F) \in Seq(AllFrames)
           /\ F \in Seq(AllFrames)
<1> DEFINE S == Uploaded(w, h)
<1>1. Seq(S) \subseteq Seq(AllFrames)
  BY UploadedAre
<1> HIDE DEF S
<1>2. F \in Seq(S)
  BY DEF S
<1>3. Head(F) \in S /\ Tail(F) \in Seq(S)
  BY <1>2, HeadTailProperties
<1> QED BY <1>1, <1>2, <1>3 DEF S

\* What was taken or to come still is.
LEMMA StillCovers ==
    ASSUME UploadInv, NEW w \in Conns, NEW v, ServerStep(w, v), NEW F \in Seq(AllFrames)
    PROVE  Covers(up, F) => WillCover(F)
<1>1. us.last \in Nat /\ us'.last \in Nat /\ us.last <= us'.last /\ up.handed \in Nat /\ up' = up
  BY ServerStepIs
<1>2. /\ Follows(us.last, F) => Follows(us'.last, F)
      /\ ReachesTo(us.last, F, up.handed) => ReachesTo(us'.last, F, up.handed)
  BY <1>1, FollowsLater
<1> QED BY <1>1, <1>2 DEF Covers, WillCover

\* The wire such a POST is read on: its open POST was read.
LEMMA PostReadsOn ==
    ASSUME UploadInv, NEW w \in Conns, NEW f, NEW v, PostReads(w, f, v)
    PROVE  /\ un[w].wire = "open" /\ un[w].openBody = <<>> /\ ~Unread(w) /\ un[w].open = "read"
           /\ v.wire = un[w].wire /\ v.ready = un[w].ready /\ v.open = un[w].open /\ v.openBody = un[w].openBody
           /\ v.upload = un[w].upload /\ v.batch = un[w].batch /\ v.ended = un[w].ended
           /\ v.cut = un[w].cut /\ v.uploadCut = un[w].uploadCut
           /\ v.down = un[w].down \o AnswerTo(us, w, f)
           /\ f \in Uploaded(w, up.handed)
           /\ v.uploadBody \in Seq(Uploaded(w, up.handed)) /\ v.batchBody \in Seq(Uploaded(w, up.handed))
           /\ w \in Nat /\ up.handed \in Nat /\ us.last \in Nat
           /\ v.uploadBody \in Seq(AllFrames) /\ v.batchBody \in Seq(AllFrames)
<1> DEFINE u == un[w]
<1>1. /\ u \in Wires /\ WireStands(w) /\ UploadTypes /\ up.handed \in Nat /\ w \in Nat /\ us.last \in Nat
  BY StatusIs, HandlersFind, UploadPlanIs DEF UploadTypes, Pages
<1>2. u.wire = "open" /\ u.open = "read" /\ u.openBody = <<>> /\ ~Unread(w)
  BY <1>1 DEF PostReads, WireStands, Wires, Unread
<1>3. /\ u.uploadBody \in Seq(Uploaded(w, up.handed)) /\ u.batchBody \in Seq(Uploaded(w, up.handed))
  BY <1>1 DEF WireStands
<1>6. Seq(Uploaded(w, up.handed)) \subseteq Seq(AllFrames)
  <2>1. \A h \in Nat : Seq(Uploaded(w, h)) \subseteq Seq(AllFrames)
    BY <1>1, UploadedAre
  <2> QED BY <1>1, <2>1
<1>4. CASE /\ u.upload = "acked" /\ u.uploadBody # <<>> /\ f = Head(u.uploadBody)
           /\ v = [u EXCEPT !.uploadBody = Tail(@), !.down = @ \o AnswerTo(us, w, f)]
  <2>1. f \in Uploaded(w, up.handed) /\ Tail(u.uploadBody) \in Seq(Uploaded(w, up.handed))
    BY <1>1, <1>3, <1>4, TailUploaded
  <2>2. /\ v.wire = u.wire /\ v.ready = u.ready /\ v.open = u.open /\ v.openBody = u.openBody
        /\ v.upload = u.upload /\ v.batch = u.batch /\ v.ended = u.ended
        /\ v.cut = u.cut /\ v.uploadCut = u.uploadCut
        /\ v.down = u.down \o AnswerTo(us, w, f)
        /\ v.uploadBody = Tail(u.uploadBody) /\ v.batchBody = u.batchBody
    BY <1>1, <1>4 DEF Wires
  <2> QED BY <1>1, <1>2, <1>3, <1>6, <2>1, <2>2
<1>5. CASE /\ u.batch = "reading" /\ u.batchBody # <<>> /\ f = Head(u.batchBody)
           /\ v = [u EXCEPT !.batchBody = Tail(@), !.down = @ \o AnswerTo(us, w, f)]
  <2>1. f \in Uploaded(w, up.handed) /\ Tail(u.batchBody) \in Seq(Uploaded(w, up.handed))
    BY <1>1, <1>3, <1>5, TailUploaded
  <2>2. /\ v.wire = u.wire /\ v.ready = u.ready /\ v.open = u.open /\ v.openBody = u.openBody
        /\ v.upload = u.upload /\ v.batch = u.batch /\ v.ended = u.ended
        /\ v.cut = u.cut /\ v.uploadCut = u.uploadCut
        /\ v.down = u.down \o AnswerTo(us, w, f)
        /\ v.batchBody = Tail(u.batchBody) /\ v.uploadBody = u.uploadBody
    BY <1>1, <1>5 DEF Wires
  <2> QED BY <1>1, <1>2, <1>3, <1>6, <2>1, <2>2
<1> QED BY <1>4, <1>5 DEF PostReads

\* The body read, and the one that was not.
LEMMA PostReadsOf ==
    ASSUME UploadInv, NEW w \in Conns, NEW f, NEW v, PostReads(w, f, v)
    PROVE  /\ un[w].uploadBody \in Seq(AllFrames) /\ un[w].batchBody \in Seq(AllFrames)
           /\ \/ /\ un[w].upload = "acked" /\ un[w].uploadBody # <<>> /\ f = Head(un[w].uploadBody)
                 /\ v.uploadBody = Tail(un[w].uploadBody) /\ v.batchBody = un[w].batchBody
              \/ /\ un[w].batch = "reading" /\ un[w].batchBody # <<>> /\ f = Head(un[w].batchBody)
                 /\ v.batchBody = Tail(un[w].batchBody) /\ v.uploadBody = un[w].uploadBody
<1>1. un[w] \in Wires
  BY StatusIs
<1> QED BY <1>1 DEF PostReads, Wires

\* The server takes it,
LEMMA PostTakesFrame ==
    ASSUME UploadInv, NEW w \in Conns, NEW f, NEW v, PostReads(w, f, v)
    PROVE  TakesFrame(w, v, f)
<1> DEFINE u == un[w]
<1>1. /\ u.wire = "open" /\ u.openBody = <<>> /\ ~Unread(w) /\ u.open = "read"
      /\ v.wire = u.wire /\ v.ready = u.ready /\ v.open = u.open /\ v.openBody = u.openBody
      /\ v.upload = u.upload /\ v.batch = u.batch /\ v.ended = u.ended
      /\ v.cut = u.cut /\ v.uploadCut = u.uploadCut
      /\ v.down = u.down \o AnswerTo(us, w, f)
      /\ f \in Uploaded(w, up.handed)
      /\ v.uploadBody \in Seq(Uploaded(w, up.handed)) /\ v.batchBody \in Seq(Uploaded(w, up.handed))
      /\ w \in Nat /\ up.handed \in Nat /\ us.last \in Nat
  BY PostReadsOn
<1>2. u \in Wires /\ WireFollows(w)
  BY StatusIs DEF UploadInv
<1>3. f \in Datas(up.handed) \cup FullReconciles(w) \cup Changes(w) /\ (f.t = "RECONCILE" => f.session = w)
  BY <1>1 DEF Uploaded, Datas, Changes
<1>4. v \in Wires
  <2>1. u.down \o AnswerTo(us, w, f)
          \in Seq([t : {"ACK"}] \cup [t : {"RECONCILED"}, session : Conns, chs : SUBSET Chs, last : Nat])
    BY <1>3, AnsweredDown
  <2>4. CASE /\ u.uploadBody # <<>> /\ v = [u EXCEPT !.uploadBody = Tail(@), !.down = @ \o AnswerTo(us, w, f)]
    <3>1. Tail(u.uploadBody) \in Seq(AllFrames)
      BY <2>4, PostReadsOf, HeadTailProperties
    <3> QED BY <1>2, <2>1, <2>4, <3>1 DEF Wires
  <2>5. CASE /\ u.batchBody # <<>> /\ v = [u EXCEPT !.batchBody = Tail(@), !.down = @ \o AnswerTo(us, w, f)]
    <3>1. Tail(u.batchBody) \in Seq(AllFrames)
      BY <2>5, PostReadsOf, HeadTailProperties
    <3> QED BY <1>2, <2>1, <2>5, <3>1 DEF Wires
  <2> QED BY <2>4, <2>5 DEF PostReads
<1>5. f.t = "DATA" /\ 1 \in us.holds[w] => f.n <= us.last + 1
  <2> SUFFICES ASSUME f.t = "DATA", 1 \in us.holds[w] PROVE f.n <= us.last + 1
    OBVIOUS
  <2>1. /\ u.upload # "ended" => Follows(us.last, u.openBody \o u.uploadBody)
        /\ Follows(us.last, u.openBody \o u.batchBody)
    BY <1>1, <1>2 DEF WireFollows, MayTakeOf
  <2>2. /\ u.openBody \o u.uploadBody = u.uploadBody /\ u.openBody \o u.batchBody = u.batchBody
    BY <1>1, PostReadsOf, Joined
  <2>3. \A F \in Seq(AllFrames) : F # <<>> /\ f = Head(F) /\ Follows(us.last, F) => f.n <= us.last + 1
    <3> SUFFICES ASSUME NEW F \in Seq(AllFrames), F # <<>>, f = Head(F), Follows(us.last, F)
                 PROVE  f.n <= us.last + 1
      OBVIOUS
    <3>1. f = F[1] /\ 1 \in DOMAIN F
      BY HeadTailProperties, FramesAre
    <3> QED BY <3>1 DEF Follows
  <2> HIDE DEF u
  <2> QED BY <2>1, <2>2, <2>3, PostReadsOf DEF u
<1> QED BY <1>1, <1>3, <1>4, <1>5 DEF TakesFrame, PostReads

\* and takes no more of the wire than it might before; what is left of each body goes on from it.
LEMMA PostReadIs ==
    ASSUME UploadInv, NEW w \in Conns, NEW f, NEW v, PostReads(w, f, v)
    PROVE  /\ ServerStep(w, v) /\ un'[w] = v /\ up' = up
           /\ ~Unread(w)' /\ us.holds[w] \subseteq us'.holds[w]
           /\ f.t = "RECONCILE" => f.chs \subseteq us'.holds[w]
           /\ MayTakeOf(w)' => /\ MayTakeOf(w)
                               /\ f.t = "DATA" => f.n <= us'.last
<1>1. /\ TakesFrame(w, v, f) /\ f \in Uploaded(w, up.handed)
      /\ un[w].wire = "open" /\ un[w].openBody = <<>> /\ v.openBody = <<>> /\ ~Unread(w)
  BY PostTakesFrame, PostReadsOn
<1>2. ServerStep(w, v)
  BY <1>1, HandlesIs
<1>3. un'[w] = v /\ up' = up
  BY <1>2, ServerStepIs
<1>4. ~Unread(w)'
  BY <1>1, <1>3 DEF Unread
<1>5. f.t # "DATA" => f.t = "RECONCILE" /\ f.changes /\ 1 \notin f.chs
  BY <1>1 DEF Uploaded, Datas, Changes
<1>6. /\ f.t = "DATA" => us'.holds = us.holds /\ (1 \in us.holds[w] => f.n <= us'.last)
      /\ f.t # "DATA" => us'.holds[w] = us.holds[w] \cup f.chs
  BY <1>1, <1>5, HandlesIs
<1>7. MayTakeOf(w)' => MayTakeOf(w) /\ (f.t = "DATA" => f.n <= us'.last)
  BY <1>1, <1>4, <1>5, <1>6 DEF MayTakeOf
<1>8. us.holds[w] \subseteq us'.holds[w] /\ (f.t = "RECONCILE" => f.chs \subseteq us'.holds[w])
  BY <1>1, <1>5, <1>6 DEF Uploaded, Datas, Changes
<1> QED BY <1>2, <1>3, <1>4, <1>7, <1>8

\* What is left of each body goes on from what was taken with the frame read.
LEMMA PostReadOn ==
    ASSUME UploadInv, NEW w \in Conns, NEW f, NEW v, PostReads(w, f, v), MayTakeOf(w)',
           NEW X \in Seq(AllFrames)
    PROVE  /\ Follows(us.last, un[w].uploadBody) => Follows(us'.last, v.uploadBody)
           /\ Follows(us.last, un[w].batchBody) => Follows(us'.last, v.batchBody)
           /\ Covers(up, un[w].uploadBody \o X) => WillCover(v.uploadBody \o X)
           /\ Covers(up, un[w].batchBody \o X) => WillCover(v.batchBody \o X)
<1>1. ServerStep(w, v) /\ (f.t = "DATA" => f.n <= us'.last)
  BY PostReadIs
<1>2. un[w].uploadBody \in Seq(AllFrames) /\ un[w].batchBody \in Seq(AllFrames)
  BY PostReadsOf
<1>3. \A F \in Seq(AllFrames) : F # <<>> /\ f = Head(F) =>
          /\ Follows(us.last, F) => Follows(us'.last, Tail(F))
          /\ Covers(up, F \o X) => WillCover(Tail(F) \o X)
  BY <1>1, ReadOn, ReadOnBoth
<1>4. \A F \in Seq(AllFrames) : /\ Follows(us.last, F) => Follows(us'.last, F)
                                /\ Covers(up, F \o X) => WillCover(F \o X)
  BY <1>1, StillFollows, StillCovers, Joined
<1> QED BY <1>2, <1>3, <1>4, PostReadsOf

\* The wire stands.
LEMMA PostReadStands ==
    ASSUME UploadInv, NEW w \in Conns, NEW f, NEW v, PostReads(w, f, v)
    PROVE  WireStands(w)' /\ WireFollows(w)'
<1> DEFINE u == un[w]
<1>1. /\ u.wire = "open" /\ u.openBody = <<>> /\ u.open = "read"
      /\ v.wire = u.wire /\ v.ready = u.ready /\ v.open = u.open /\ v.openBody = u.openBody
      /\ v.upload = u.upload /\ v.batch = u.batch
      /\ v.uploadBody \in Seq(Uploaded(w, up.handed)) /\ v.batchBody \in Seq(Uploaded(w, up.handed))
  BY PostReadsOn
<1>2. /\ ServerStep(w, v) /\ un'[w] = v /\ up' = up /\ ~Unread(w)'
      /\ MayTakeOf(w)' => MayTakeOf(w)
  BY PostReadIs
<1>3. WireStands(w) /\ WireFollows(w) /\ UploadTypes
  BY DEF UploadInv
<1>4. /\ Uploaded(w, up.handed)' = Uploaded(w, up.handed)
  BY <1>2, ServerStepIs
<1>5. \A i \in DOMAIN v.down : v.down[i].t = "RECONCILED" => v.down[i].session = w /\ v.down[i].last <= us'.last
  BY ONLY UploadInv, w \in Conns, PostReads(w, f, v), PostTakesFrame, DownStands
<1>6. v.batch \in {"none", "answered"} => v.batchBody = <<>>
  <2>1. u.batch \in {"none", "answered"} => u.batchBody = <<>>
    BY <1>3 DEF WireStands
  <2> QED BY <1>1, <2>1, PostReadsOf
<1>7. WireStands(w)'
  <2>1. w > up.last => FALSE
    BY <1>1, <1>3 DEF WireStands
  <2>2. DOMAIN <<>> = {}
    OBVIOUS
  <2> QED BY <1>1, <1>2, <1>4, <1>5, <1>6, <2>1, <2>2 DEF WireStands
<1>8. WireFollows(w)'
  <2> SUFFICES ASSUME MayTakeOf(w)'
               PROVE  /\ v.upload # "ended" => Follows(us'.last, v.openBody \o v.uploadBody)
                      /\ Follows(us'.last, v.openBody \o v.batchBody)
    BY <1>2 DEF WireFollows
  <2>1. /\ u.upload # "ended" => Follows(us.last, u.openBody \o u.uploadBody)
        /\ Follows(us.last, u.openBody \o u.batchBody)
    BY <1>2, <1>3 DEF WireFollows
  <2>2. /\ u.openBody \o u.uploadBody = u.uploadBody /\ u.openBody \o u.batchBody = u.batchBody
    BY <1>1, PostReadsOf, Joined
  <2>3. /\ Follows(us.last, u.uploadBody) => Follows(us'.last, v.uploadBody)
        /\ Follows(us.last, u.batchBody) => Follows(us'.last, v.batchBody)
    BY PostReadOn, EmptySeq
  <2>4. v.uploadBody \in Seq(AllFrames) /\ v.batchBody \in Seq(AllFrames)
    BY PostReadsOn
  <2>5. v.openBody \o v.uploadBody = v.uploadBody /\ v.openBody \o v.batchBody = v.batchBody
    BY <1>1, <2>4, Joined
  <2> QED BY <1>1, <2>1, <2>2, <2>3, <2>5
<1> QED BY <1>7, <1>8

\* The page, if it is the page's wire, is on it: only then it writes to such a POST.
LEMMA PostReadHere ==
    ASSUME UploadInv, NEW w \in Conns, NEW f, NEW v, PostReads(w, f, v), up.wire = w
    PROVE  up.here /\ w # 0
<1>1. /\ PageAgrees(up) /\ PageDeclares(up) /\ w # 0
  BY HandlersFind, UploadPlanIs DEF UploadTypes, PageGood
<1>2. ~up.here => un[w].uploadBody = <<>> /\ un[w].batch = "none"
  BY <1>1 DEF PageAgrees, PageDeclares
<1> QED BY <1>1, <1>2, PostReadsOf

\* All the page handed over stays taken or to come, and what is open held.
LEMMA PostReadPage ==
    ASSUME UploadInv, NEW w \in Conns, NEW f, NEW v, PostReads(w, f, v), up.wire = w
    PROVE  PageCovers(up)' /\ PageAgrees(up)'
<1> DEFINE u == un[w]
<1>1. /\ u.wire = "open" /\ u.openBody = <<>> /\ ~Unread(w)
      /\ v.wire = u.wire /\ v.openBody = u.openBody /\ v.upload = u.upload /\ v.batch = u.batch
      /\ v.uploadBody \in Seq(AllFrames) /\ v.batchBody \in Seq(AllFrames)
      /\ u.uploadBody \in Seq(AllFrames) /\ u.batchBody \in Seq(AllFrames)
  BY PostReadsOn, PostReadsOf
<1>2. /\ ServerStep(w, v) /\ un'[w] = v /\ up' = up /\ ~Unread(w)' /\ us.holds[w] \subseteq us'.holds[w]
      /\ f.t = "RECONCILE" => f.chs \subseteq us'.holds[w]
      /\ MayTakeOf(w)' => MayTakeOf(w)
  BY PostReadIs
<1>3. /\ PageCovers(up) /\ PageAgrees(up) /\ UploadTypes /\ up \in Pages /\ up.here /\ w # 0
  BY HandlersFind, PostReadHere DEF PageGood
<1>4. PageCovers(up)'
  <2> SUFFICES ASSUME MayTakeOf(w)' PROVE PageCovers(up)'
    BY <1>2 DEF PageCovers
  <2>1. /\ up.stream = "active" /\ u.upload # "ended" => Covers(up, u.openBody \o (u.uploadBody \o up.out))
        /\ up.stream = "active" /\ ~up.confirmed => Covers(up, u.openBody \o up.unconfirmed)
        /\ up.stream = "failed" /\ u.batch \notin {"refused", "lost"} =>
               Covers(up, u.openBody \o (u.batchBody \o up.outbox))
    BY <1>2, <1>3 DEF PageCovers
  <2>2. up.out \in Seq(AllFrames) /\ up.unconfirmed \in Seq(AllFrames) /\ up.outbox \in Seq(AllFrames)
    BY <1>3 DEF Pages
  <2>3. \A F \in Seq(AllFrames) : u.openBody \o F = F /\ v.openBody \o F = F
    BY <1>1, Joined
  <2>4. /\ u.uploadBody \o up.out \in Seq(AllFrames) /\ u.batchBody \o up.outbox \in Seq(AllFrames)
        /\ v.uploadBody \o up.out \in Seq(AllFrames) /\ v.batchBody \o up.outbox \in Seq(AllFrames)
    BY <1>1, <2>2, Joined
  <2>5. /\ Covers(up, u.uploadBody \o up.out) => WillCover(v.uploadBody \o up.out)
        /\ Covers(up, u.batchBody \o up.outbox) => WillCover(v.batchBody \o up.outbox)
    BY <2>2, PostReadOn
  <2>6. Covers(up, up.unconfirmed) => WillCover(up.unconfirmed)
    BY <1>2, <2>2, StillCovers
  <2>7. /\ up.stream = "active" /\ v.upload # "ended" => WillCover(v.openBody \o (v.uploadBody \o up.out))
        /\ up.stream = "active" /\ ~up.confirmed => WillCover(v.openBody \o up.unconfirmed)
        /\ up.stream = "failed" /\ v.batch \notin {"refused", "lost"} =>
               WillCover(v.openBody \o (v.batchBody \o up.outbox))
    BY <1>1, <2>1, <2>2, <2>3, <2>4, <2>5, <2>6
  <2> QED BY <1>2, <1>3, <2>7, WillCoverPage
<1>5. PageAgrees(up)'
  <2>1. /\ up.post # w => u.batch = "none"
        /\ \A i \in DOMAIN u.down : u.down[i].t = "RECONCILED" => u.down[i].chs \subseteq us.holds[w]
        /\ {ch \in Chs : up.st[ch] = "open"} \subseteq us.holds[w]
    BY <1>1, <1>3 DEF PageAgrees
  <2>2. \A i \in DOMAIN v.down : v.down[i].t = "RECONCILED" =>
              \/ i \in DOMAIN u.down /\ v.down[i] = u.down[i]
              \/ f.t = "RECONCILE" /\ v.down[i].chs = f.chs
    BY ONLY UploadInv, w \in Conns, PostReads(w, f, v), PostTakesFrame, DownStands
  <2>3. Chs' = Chs
    BY <1>2, ServerStepIs
  <2> HIDE DEF u
  <2>4. /\ up.post # w => v.batch = "none"
        /\ \A i \in DOMAIN v.down : v.down[i].t = "RECONCILED" => v.down[i].chs \subseteq us'.holds[w]
        /\ {ch \in Chs : up.st[ch] = "open"} \subseteq us'.holds[w]
        /\ v.wire = "open"
    BY <1>1, <1>2, <2>1, <2>2, ZenonT(180)
  <2> QED BY <1>2, <1>3, <2>3, <2>4 DEF PageAgrees
<1> QED BY <1>4, <1>5

\* Reading an upload's frames, or a batch POST's, keeps the invariant.
LEMMA PostReadsKeeps ==
    ASSUME UploadInv, NEW w \in Conns, NEW f, NEW v, PostReads(w, f, v)
    PROVE  UploadInv'
<1>1. ServerStep(w, v) /\ WireStands(w)' /\ WireFollows(w)'
  BY PostReadIs, PostReadStands
<1>2. up.wire = w => PageCovers(up)' /\ PageAgrees(up)'
  BY PostReadPage
<1> QED BY <1>1, <1>2, ServerStepKeeps

\* An upload's frame is read, or the upload ends.
LEMMA ReadsUploadKeeps ==
    ASSUME UploadInv, NEW w \in Conns, ReadsUpload(w)
    PROVE  UploadInv'
<1>1. CASE un[w].wire = "closed"
  BY <1>1, UploadClosedKeeps
<1>2. CASE un[w].wire # "closed"
  <2> DEFINE f == Head(un[w].uploadBody)
             v == [un[w] EXCEPT !.uploadBody = Tail(@), !.down = @ \o AnswerTo(us, w, f)]
  <2>1. un \in [Conns -> Wires] /\ un[w] \in Wires
    BY StatusIs
  <2>2. un' = [un EXCEPT ![w] = v]
    BY <1>2, <2>1 DEF ReadsUpload
  <2>3. PostReads(w, f, v)
    BY <1>2, <2>2 DEF ReadsUpload, PostReads
  <2>4. PICK g, z : PostReads(w, g, z)
    BY <2>3
  <2> QED BY <2>4, PostReadsKeeps
<1> QED BY <1>1, <1>2

\* A batch POST's frame is read, or the POST is answered.
LEMMA ReadsBatchKeeps ==
    ASSUME UploadInv, NEW w \in Conns, ReadsBatch(w)
    PROVE  UploadInv'
<1>1. CASE un[w].batchBody = <<>> \/ un[w].wire = "closed"
  BY <1>1, BatchEndsKeeps
<1>2. CASE un[w].batchBody # <<>> /\ un[w].wire # "closed"
  <2> DEFINE f == Head(un[w].batchBody)
             v == [un[w] EXCEPT !.batchBody = Tail(@), !.down = @ \o AnswerTo(us, w, f)]
  <2>1. un \in [Conns -> Wires] /\ un[w] \in Wires
    BY StatusIs
  <2>2. un' = [un EXCEPT ![w] = v]
    BY <1>2, <2>1 DEF ReadsBatch
  <2>3. PostReads(w, f, v)
    BY <1>2, <2>2 DEF ReadsBatch, PostReads
  <2>4. PICK g, z : PostReads(w, g, z)
    BY <2>3
  <2> QED BY <2>4, PostReadsKeeps
<1> QED BY <1>1, <1>2

-----------------------------------------------------------------------------
(* From the first state, by every step *)

\* At first nothing was sent, and no wire is open.
LEMMA UploadInitIs == ASSUME UploadInit PROVE UploadInv
<1>1. /\ uplan \in UploadPlans /\ 1 \in Chs /\ Conns \subseteq Nat \ {0} /\ Chs \subseteq Nat
  BY UploadPlanIs DEF UploadInit
<1>2. <<>> \in Seq(AllFrames) /\ <<>> \in Seq(Nat) /\ DOMAIN <<>> = {} /\ Len(<<>>) = 0
      /\ <<>> \in Seq([t : {"ACK"}] \cup [t : {"RECONCILED"}, session : Conns, chs : SUBSET Chs, last : Nat])
      /\ (\A w, h : <<>> \in Seq(Uploaded(w, h)))
  BY EmptySeq
<1>3. up \in Pages
  BY <1>1, <1>2 DEF UploadInit, Pages, NoConn, NoneInFlight
<1>4. UploadTypes
  <2>1. us \in [took : Seq(Nat), last : Nat, holds : [Conns -> SUBSET Chs], cuts : Nat, drops : Nat]
    BY <1>2 DEF UploadInit
  <2>2. un \in [Conns -> Wires]
    BY <1>2 DEF UploadInit, Wires
  <2> QED BY <1>1, <2>1, <2>2 DEF UploadTypes
<1>5. TakenAll
  BY <1>2 DEF UploadInit, TakenAll
<1>6. PageStands(up)
  BY <1>1 DEF UploadInit, PageStands, NoConn
<1>7. PageDeclares(up)
  BY DEF UploadInit, PageDeclares, NoConn, NoneInFlight
<1>8. PageKeeps(up) /\ up.out = <<>> /\ up.wire = 0
  BY <1>2 DEF UploadInit, PageKeeps, NoConn
<1>9. PageCovers(up) /\ PageAgrees(up)
  BY <1>8 DEF PageCovers, PageAgrees
<1>10. ASSUME NEW w \in Conns PROVE WireStands(w) /\ WireFollows(w)
  <2>1. /\ un[w].wire = "none" /\ un[w].ready = FALSE /\ un[w].open = "none" /\ un[w].openBody = <<>>
        /\ un[w].upload = "none" /\ un[w].uploadBody = <<>> /\ un[w].batch = "none"
        /\ un[w].batchBody = <<>> /\ un[w].down = <<>> /\ us.holds[w] = {}
    BY DEF UploadInit
  <2>2. ~Unread(w)
    BY <2>1 DEF Unread
  <2>3. ~MayTakeOf(w)
    BY <2>1, <2>2 DEF MayTakeOf
  <2> QED BY <1>2, <2>1, <2>2, <2>3 DEF WireStands, WireFollows
<1> QED BY <1>3, <1>4, <1>5, <1>6, <1>7, <1>8, <1>9, <1>10 DEF UploadInv, PageGood, PageShape

\* What the invariant is for.
LEMMA UploadInvHolds == ASSUME UploadInv PROVE UploadsHold
<1>1. /\ up \in Pages /\ PageStands(up) /\ PageDeclares(up) /\ PageAgrees(up) /\ TakenAll /\ UploadTypes
  BY HandlersFind DEF PageGood, UploadInv
<1>2. UploadTypeOK
  <2>1. /\ up.conn \in {"down", "opening", "open"} /\ up.wire \in Conns \cup {0}
        /\ up.stream \in {"idle", "active", "failed"} /\ up.awaited \in SUBSET Chs
    BY <1>1 DEF Pages
  <2>2. (up.conn = "down") = (up.wire = 0)
    BY <1>1 DEF PageStands
  <2>3. up.awaited \subseteq Registered
    BY <1>1, <2>1 DEF PageDeclares, Registered
  <2>4. /\ up.acked <= up.handed /\ up.handed <= up.sent
        /\ up.unconfirmed # <<>> => up.stream = "active" /\ ~up.confirmed
        /\ up.stream = "active" => up.outbox = <<>>
    BY <1>1 DEF PageStands
  <2>5. \A w \in Conns : us.holds[w] \subseteq Chs
    BY <1>1 DEF UploadTypes
  <2> QED BY <2>1, <2>2, <2>3, <2>4, <2>5 DEF UploadTypeOK, NoConn
<1>3. TakenInOrder
  <2> DEFINE s == us.took
  <2>1. s \in Seq(Nat) /\ \A i \in 1 .. Len(s) : s[i] = i
    BY <1>1 DEF UploadTypes, TakenAll
  <2> HIDE DEF s
  <2>2. s = [i \in 1 .. Len(s) |-> s[i]]
    BY <2>1
  <2>3. s = [i \in 1 .. Len(s) |-> i]
    BY <2>1, <2>2
  <2> QED BY <2>3 DEF s, TakenInOrder
<1>4. OpenIsHeld
  BY <1>1 DEF OpenIsHeld, PageAgrees, PageStands
<1>5. NoneEnds
  <2>1. up.st \in [Chs -> {"none", "new", "declared", "open"}]
    BY <1>1 DEF Pages
  <2> QED BY <2>1 DEF NoneEnds
<1> QED BY <1>2, <1>3, <1>4, <1>5 DEF UploadsHold

\* Every step keeps it.
LEMMA UploadNextKeeps == ASSUME UploadInv, [UploadNext]_uvars PROVE UploadInv'
<1>1. CASE UNCHANGED uvars
  <2>1. uplan' = uplan /\ up' = up /\ us' = us /\ un' = un
    BY <1>1 DEF uvars
  <2>2. /\ Conns' = Conns /\ Chs' = Chs /\ Pages' = Pages /\ Wires' = Wires
        /\ \A x, h : Uploaded(x, h)' = Uploaded(x, h)
        /\ \A x : FullReconciles(x)' = FullReconciles(x)
        /\ \A h : Datas(h)' = Datas(h)
    BY <2>1, PlanSame
  <2>3. UploadTypes' /\ TakenAll' /\ up'.out = <<>>
    BY <2>1, <2>2 DEF UploadInv, UploadTypes, TakenAll
  <2>4. PageGood(up)'
    <3>1. Uploaded(up.wire, up.handed)' = Uploaded(up.wire, up.handed)
      BY <2>1, <2>2 DEF Uploaded, Datas, Changes
    <3>2. PageShape(up)'
      BY <2>1, <2>2, <3>1 DEF UploadInv, PageGood, PageShape, PageStands, PageDeclares, PageKeeps
    <3>3. PageCovers(up)'
      <4>2. PageCovers(up)
        BY DEF UploadInv, PageGood
      <4>3. \A F : WillCover(F) <=> Covers(up, F)
        BY <2>1 DEF WillCover, Covers
      <4>4. un'[up.wire] = un[up.wire] /\ up' = up
        BY <2>1
      <4>5. CASE up.wire # 0 /\ MayTakeOf(up.wire)
        <5> DEFINE u == un[up.wire]
        <5>1. /\ up.here =>
                 /\ up.stream = "active" /\ u.upload # "ended" =>
                        WillCover(u.openBody \o (u.uploadBody \o up.out))
                 /\ up.stream = "active" /\ ~up.confirmed => WillCover(u.openBody \o up.unconfirmed)
                 /\ up.stream = "failed" /\ u.batch \notin {"refused", "lost"} =>
                        WillCover(u.openBody \o (u.batchBody \o up.outbox))
              /\ ~up.here =>
                 /\ up.inFlight.carried = 1 => WillCover(u.openBody)
                 /\ up.inFlight.carried = 0 => \A i \in DOMAIN u.openBody : u.openBody[i].t # "DATA"
          BY <4>2, <4>3, <4>5 DEF PageCovers
        <5>2. PICK v : v = u
          OBVIOUS
        <5> HIDE DEF u
        <5>3. un'[up.wire] = v
          BY <4>4, <5>2 DEF u
        <5> QED BY <4>4, <5>1, <5>2, <5>3, WillCoverPage
      <4>6. CASE ~ (up.wire # 0 /\ MayTakeOf(up.wire))
        <5>1. ~ (up.wire # 0 /\ MayTakeOf(up.wire))'
          BY <2>1, <4>6 DEF MayTakeOf, Unread
        <5> QED BY <5>1 DEF PageCovers
      <4> QED BY <4>5, <4>6
    <3>4. PageAgrees(up)'
      <4>1. PageAgrees(up)
        BY DEF UploadInv, PageGood
      <4> QED BY <2>1, <2>2, <4>1 DEF PageAgrees, Unread
    <3> QED BY <3>2, <3>3, <3>4 DEF PageGood
  <2>5. ASSUME NEW w \in Conns PROVE WireStands(w)' /\ WireFollows(w)'
    <3>1. Uploaded(w, up.handed)' = Uploaded(w, up.handed) /\ Datas(up.handed)' = Datas(up.handed)
          /\ FullReconciles(w)' = FullReconciles(w) /\ (Unread(w)' <=> Unread(w))
          /\ (MayTakeOf(w)' <=> MayTakeOf(w))
      BY <2>1, <2>2 DEF Uploaded, Datas, Changes, Unread, MayTakeOf
    <3> QED BY <2>1, <2>2, <3>1, ZenonT(180) DEF UploadInv, WireStands, WireFollows, Follows
  <2> QED BY <2>2, <2>3, <2>4, <2>5 DEF UploadInv
<1>2. CASE PageSteps
  BY <1>2, StartsKeeps, OpenAnswersKeeps, ReadsEventKeeps, ReconcileTimerKeeps, UploadEndsKeeps,
     StreamEndsKeeps, PostAnswersKeeps, PostFailsKeeps DEF PageSteps
<1>3. CASE Flushes \/ AckTimeout \/ WireIsLate \/ OpenIsCut \/ Sends \/ \E ch \in Chs : Registers(ch)
  BY <1>3, FlushesKeeps, AckTimeoutKeeps, WireIsLateKeeps, OpenIsCutKeeps, SendsKeeps, RegistersKeeps
<1>4. ASSUME NEW w \in Conns,
             \/ ServerSteps(w) \/ BatchSteps(w) \/ WaitExpires(w)
             \/ StreamIsCut(w) \/ UploadIsCut(w) \/ BatchIsCut(w) \/ AbortedIsLost(w)
      PROVE  UploadInv'
  <2>1. CASE ServerSteps(w)
    BY <2>1, OpenArrivesKeeps, OpenReadKeeps, UploadArrivesKeeps, ReadsUploadKeeps, HearsOfTheCutKeeps
       DEF ServerSteps
  <2>2. CASE BatchSteps(w)
    BY <2>2, BatchArrivesKeeps, ReadsBatchKeeps DEF BatchSteps
  <2>3. CASE WaitExpires(w) \/ StreamIsCut(w) \/ UploadIsCut(w) \/ BatchIsCut(w) \/ AbortedIsLost(w)
    BY <2>3, WaitExpiresKeeps, StreamIsCutKeeps, UploadIsCutKeeps, BatchIsCutKeeps, AbortedIsLostKeeps
  <2> QED BY <1>4, <2>1, <2>2, <2>3
<1> QED BY <1>1, <1>2, <1>3, <1>4 DEF UploadNext

\* Whichever POSTs carry the page's frames, cut, late, aborted or read after the page gave them up
\* (client/SseTransport.ts, server/sse.ts), the server takes what the page sends in order, without a
\* gap and once; once reconciled, what the page takes as open on a wire the server holds there; and
\* no channel ends for want of an answer.
THEOREM UploadsKept == UploadSpec => []UploadsHold
<1>1. UploadInit => UploadInv
  BY UploadInitIs
<1>2. UploadInv /\ [UploadNext]_uvars => UploadInv'
  BY UploadNextKeeps
<1>3. UploadInv => UploadsHold
  BY UploadInvHolds
<1> QED BY <1>1, <1>2, <1>3, PTL DEF UploadSpec

=============================================================================
