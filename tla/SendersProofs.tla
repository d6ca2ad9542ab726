---------------------------- MODULE SendersProofs ---------------------------
(***************************************************************************)
(* Proofs about what bounds a sender, for any instance: the replay buffer  *)
(* its frames wait in (ReplayedSends), and the credit its peer grants      *)
(* (CreditFlow).                                                           *)
(***************************************************************************)
EXTENDS ReplayedSends, CreditFlow, SumsProofs, FiniteSetTheorems

-----------------------------------------------------------------------------
(***************************************************************************)
(* ReplayedSends, for every bound, every set of frame sizes and every set  *)
(* of limits: the type invariant, that a replay is exact, that the frames  *)
(* a queue holds can be pushed, that set limits are reached, and that only *)
(* what outgrew its budget is evicted.                                     *)
(***************************************************************************)

\* What the queue holds: while the channel is open, the seqs issued and not pushed,
\* in order.
QueueInv ==
    /\ status = "open" =>
         /\ rb.issued = rb.pushed + Len(queued)
         /\ \A i \in 1 .. Len(queued) : queued[i].seq = rb.pushed + i
    /\ status # "open" => queued = <<>>

\* What was pushed: one frame for a seq, none past pushedSeq.
LogInv ==
    /\ rb.pushed <= rb.issued /\ rb.acked <= rb.issued
    /\ \A e \in log : e.seq <= rb.pushed
    /\ \A e, f \in log : e.seq = f.seq => e = f

\* A lowering that waits is the last limits, and waits for a seq still to come.
LoweredInv ==
    status # "disposed" =>
      IF rb.lowered.through = 0 THEN rb.budgets = limits
      ELSE /\ rb.lowered.budgets = limits
           /\ rb.acked < rb.lowered.through /\ rb.lowered.through <= rb.issued

IInv == TypeOK /\ QueueInv /\ LogInv /\ LoweredInv

BufferType(entries) ==
    [issued : Nat, pushed : Nat, acked : Nat, budgets : [DataKinds -> Nat],
     lowered : [through : Nat, budgets : [DataKinds -> Nat]],
     stored : SUBSET entries]

-----------------------------------------------------------------------------
\* What each method leaves of a buffer: its type, and every counter it does not set.

\* Eviction only removes frames.
LEMMA TrimSubset ==
  ASSUME NEW S, NEW b PROVE Trim(S, b) \subseteq S
BY DEF Trim

\* A new buffer has the type of a buffer.
LEMMA NewBufferType ==
  ASSUME NEW entries, NEW b \in [DataKinds -> Nat]
  PROVE  NewBuffer(b) \in BufferType(entries)
BY DEF NewBuffer, NoLowered, BufferType

\* Handing out a seq moves `issued` by one and nothing else.
LEMMA NextSeqType ==
  ASSUME NEW entries, NEW buf \in BufferType(entries)
  PROVE  /\ NextSeq(buf) \in BufferType(entries)
         /\ NextSeq(buf) = [buf EXCEPT !.issued = buf.issued + 1]
BY DEF NextSeq, BufferType

\* Storing a frame sets `pushed` to its seq and adds at most that frame.
LEMMA PushType ==
  ASSUME NEW entries, NEW buf \in BufferType(entries), NEW e, e.seq \in Nat
  PROVE  /\ Push(buf, e) \in BufferType(entries \cup {e})
         /\ Push(buf, e).issued = buf.issued
         /\ Push(buf, e).pushed = e.seq
         /\ Push(buf, e).acked = buf.acked
         /\ Push(buf, e).budgets = buf.budgets
         /\ Push(buf, e).lowered = buf.lowered
<1> DEFINE st == IF Fits(buf, e) THEN Trim(buf.stored \cup {e}, buf.budgets) ELSE buf.stored
<1>1. st \subseteq entries \cup {e}
  BY TrimSubset DEF BufferType
<1>2. Push(buf, e) = [buf EXCEPT !.pushed = e.seq, !.stored = st]
  BY DEF Push
<1> QED BY <1>1, <1>2, ZenonT(180) DEF BufferType

\* setLimits keeps the counters; the limits apply at once, or wait in `lowered` for a
\* seq that is not acknowledged.
LEMMA SetLimitsType ==
  ASSUME NEW entries, NEW buf \in BufferType(entries), NEW new \in [DataKinds -> Nat],
         buf.acked <= buf.issued,
         buf.lowered.through = 0 \/ (buf.acked < buf.lowered.through /\ buf.lowered.through <= buf.issued)
  PROVE  LET after == SetLimits(buf, new) IN
         /\ after \in BufferType(entries)
         /\ after.issued = buf.issued /\ after.pushed = buf.pushed /\ after.acked = buf.acked
         /\ IF after.lowered.through = 0 THEN after.budgets = new
            ELSE /\ after.lowered.budgets = new
                 /\ after.acked < after.lowered.through
                 /\ after.lowered.through <= after.issued
<1> DEFINE unack == buf.acked < buf.issued
           now == [k \in DataKinds |->
                     IF unack /\ new[k] < buf.budgets[k] THEN buf.budgets[k] ELSE new[k]]
           low == IF ~(now # new) THEN NoLowered
                  ELSE [through |-> IF buf.lowered.through > 0 THEN buf.lowered.through
                                    ELSE buf.issued,
                        budgets |-> new]
           st == Trim(buf.stored, now)
<1>1. SetLimits(buf, new) = [buf EXCEPT !.budgets = now, !.stored = st, !.lowered = low]
  BY DEF SetLimits, BufferType
<1>2. now \in [DataKinds -> Nat]
  BY DEF BufferType
<1>3. st \subseteq entries
  BY TrimSubset DEF BufferType
<1>4. now # new => unack
  <2>1. ~unack => now = [k \in DataKinds |-> new[k]]
    OBVIOUS
  <2> QED BY <2>1
<1>5. low \in [through : Nat, budgets : [DataKinds -> Nat]]
  BY DEF NoLowered, BufferType
<1>6. IF low.through = 0 THEN now = new
      ELSE low.budgets = new /\ buf.acked < low.through /\ low.through <= buf.issued
  <2>1. CASE now = new
    BY <2>1 DEF NoLowered
  <2>2. CASE now # new
    BY <2>2, <1>4 DEF BufferType
  <2> QED BY <2>1, <2>2
<1> HIDE DEF now, st, low
<1> QED BY <1>1, <1>2, <1>3, <1>5, <1>6, ZenonT(180) DEF BufferType

\* acknowledge moves only `acked` among the counters, never back, and brings limits
\* that waited into force once every seq they waited for is acknowledged.
LEMMA AcknowledgeType ==
  ASSUME NEW entries, NEW buf \in BufferType(entries), NEW l \in Nat
  PROVE  LET after == Acknowledge(buf, l) IN
         /\ after \in BufferType(entries)
         /\ after.issued = buf.issued /\ after.pushed = buf.pushed
         /\ after.acked = IF l <= buf.acked THEN buf.acked ELSE l
         /\ \/ after.lowered = buf.lowered /\ after.budgets = buf.budgets
               /\ (after.acked = buf.acked \/ buf.lowered.through = 0 \/ after.acked < buf.lowered.through)
            \/ buf.lowered.through > 0 /\ after.lowered = NoLowered /\ after.budgets = buf.lowered.budgets
<1> DEFINE others == Unacknowledged(buf.stored, l)
<1>1. others \subseteq entries
  BY DEF Unacknowledged, BufferType
<1>2. Trim(others, buf.lowered.budgets) \subseteq entries
  BY <1>1, TrimSubset
<1>3. buf.acked \in Nat /\ buf.lowered.through \in Nat
      /\ buf.lowered.budgets \in [DataKinds -> Nat]
  BY DEF BufferType
<1>4. l > buf.acked => ~(l <= buf.acked)
  BY <1>3
<1>5. CASE l <= buf.acked
  BY <1>5 DEF Acknowledge, BufferType
<1>6. CASE l > buf.acked /\ buf.lowered.through > 0 /\ l >= buf.lowered.through
  <2>1. Acknowledge(buf, l) = [buf EXCEPT !.acked = l, !.lowered = NoLowered,
                                          !.budgets = buf.lowered.budgets,
                                          !.stored = Trim(others, buf.lowered.budgets)]
    BY <1>6 DEF Acknowledge, BufferType
  <2>2. NoLowered \in [through : Nat, budgets : [DataKinds -> Nat]]
    BY DEF NoLowered
  <2> HIDE DEF others
  <2>3. ~(l <= buf.acked)
    BY <1>6, <1>4
  <2>4. Acknowledge(buf, l).acked = l
    BY <2>1 DEF BufferType
  <2>5. Acknowledge(buf, l) \in BufferType(entries)
    BY <1>2, <1>3, <2>1, <2>2, ZenonT(180) DEF BufferType
  <2> QED BY <1>6, <2>1, <2>3, <2>4, <2>5 DEF BufferType
<1>7. CASE l > buf.acked /\ ~(buf.lowered.through > 0 /\ l >= buf.lowered.through)
  <2>1. Acknowledge(buf, l) = [buf EXCEPT !.acked = l, !.stored = others]
    BY <1>7 DEF Acknowledge, BufferType
  <2> HIDE DEF others
  <2>3. ~(l <= buf.acked)
    BY <1>7, <1>4
  <2>4. Acknowledge(buf, l).acked = l
    BY <2>1 DEF BufferType
  <2>5. Acknowledge(buf, l) \in BufferType(entries)
    BY <1>1, <1>3, <2>1 DEF BufferType
  <2>6. buf.lowered.through = 0 \/ l < buf.lowered.through
    BY <1>7, <1>3
  <2> QED BY <2>1, <2>3, <2>4, <2>5, <2>6 DEF BufferType
<1> QED BY <1>5, <1>6, <1>7 DEF BufferType

-----------------------------------------------------------------------------
\* The strengthened invariant is inductive.

\* TypeOK says of the buffer what the lemmas about its methods take.
LEMMA TypeIsBufferType == TypeOK => rb \in BufferType(log)
BY DEF TypeOK, BufferType

\* The lower of two budgets is a budget.
LEMMA LowerType ==
  ASSUME NEW f \in [DataKinds -> Nat], NEW g \in [DataKinds -> Nat]
  PROVE  Lower(f, g) \in [DataKinds -> Nat]
BY DEF Lower

\* A new record satisfies the invariant.
LEMMA InitHolds == Init => IInv
<1> SUFFICES ASSUME Init PROVE IInv
  OBVIOUS
<1>1. limits \in [DataKinds -> Nat]
  BY ReplayedSendsAssumption DEF Init
<1>2. rb \in BufferType(log)
  BY <1>1, NewBufferType DEF Init
<1>3. rb = [issued |-> 0, pushed |-> 0, acked |-> 0, budgets |-> limits,
            lowered |-> NoLowered, stored |-> {}]
  BY DEF Init, NewBuffer
<1>4. NoLowered.through = 0
  BY DEF NoLowered
<1>5. TypeOK
  BY <1>1, <1>2 DEF Init, TypeOK, BufferType
<1>6. QueueInv /\ LogInv /\ LoweredInv
  BY <1>3, <1>4 DEF Init, QueueInv, LogInv, LoweredInv
<1> QED BY <1>5, <1>6 DEF IInv

\* Sending keeps the invariant: the new seq is above every other.
LEMMA SendStep ==
  ASSUME IInv, NEW kind \in Kinds, NEW bytes \in Sizes, Send(kind, bytes)
  PROVE  IInv'
<1> USE DEF IInv
<1> DEFINE e == [seq |-> rb.issued + 1, kind |-> kind, bytes |-> bytes]
<1>1. rb \in BufferType(log)
  BY TypeIsBufferType
<1>2. rb' \in BufferType(log') /\ rb' = [rb EXCEPT !.issued = rb.issued + 1]
  BY <1>1, NextSeqType DEF Send
<1>3. rb'.issued = rb.issued + 1 /\ rb'.pushed = rb.pushed /\ rb'.acked = rb.acked
      /\ rb'.budgets = rb.budgets /\ rb'.lowered = rb.lowered
      /\ rb.issued \in Nat /\ rb.pushed \in Nat /\ rb.acked \in Nat /\ rb.lowered.through \in Nat
  BY <1>1, <1>2 DEF BufferType
<1>4. e \in Entry
  BY <1>3 DEF Entry
<1>5. queued' = Append(queued, e) /\ queued \in Seq(Entry)
  BY DEF Send, TypeOK
<1> HIDE DEF e
<1>6. queued' \in Seq(Entry) /\ Len(queued') = Len(queued) + 1
      /\ queued'[Len(queued) + 1] = e
      /\ \A i \in 1 .. Len(queued) : queued'[i] = queued[i]
  BY <1>4, <1>5
<1>7. TypeOK'
  BY <1>2, <1>6 DEF Send, TypeOK, BufferType
<1>8. QueueInv'
  <2>1. e.seq = rb.issued + 1
    BY DEF e
  <2>2. rb.issued = rb.pushed + Len(queued) /\ \A i \in 1 .. Len(queued) : queued[i].seq = rb.pushed + i
    BY DEF QueueInv, Send
  <2>3. Len(queued) \in Nat
    BY <1>5
  <2>4. ASSUME NEW i \in 1 .. Len(queued') PROVE queued'[i].seq = rb'.pushed + i
    <3>1. CASE i = Len(queued) + 1
      <4>1. queued'[i] = e
        BY <1>6, <3>1
      <4>2. rb.issued + 1 = rb.pushed + i
        <5>1. rb.issued = rb.pushed + Len(queued) /\ rb.pushed \in Nat
          BY <1>3, <2>2
        <5> QED BY <2>3, <3>1, <5>1
      <4>3. rb'.pushed = rb.pushed
        BY <1>3
      <4> QED BY <2>1, <4>1, <4>2, <4>3, Zenon
    <3>2. CASE i # Len(queued) + 1
      <4>1. i \in 1 .. Len(queued)
        BY <1>6, <2>3, <3>2
      <4> QED BY <1>3, <1>6, <2>2, <4>1
    <3> QED BY <3>1, <3>2
  <2> QED BY <1>3, <1>6, <2>2, <2>3, <2>4, SMTT(180) DEF QueueInv, Send
<1>9. LogInv' /\ LoweredInv'
  BY <1>3 DEF LogInv, LoweredInv, Send
<1> QED BY <1>7, <1>8, <1>9

\* A wire taking the oldest frame keeps the invariant.
LEMMA TakeNextStep == ASSUME IInv, TakeNext PROVE IInv'
<1> USE DEF IInv
<1> DEFINE e == Head(queued)
<1>1. queued \in Seq(Entry) /\ queued # <<>>
  BY DEF TypeOK, TakeNext
<1>2. Len(queued) \in Nat /\ Len(queued) > 0 /\ queued[1] = e /\ e \in Entry
      /\ Len(Tail(queued)) = Len(queued) - 1 /\ Tail(queued) \in Seq(Entry)
      /\ \A i \in 1 .. Len(queued) - 1 : Tail(queued)[i] = queued[i + 1]
  BY <1>1
<1> HIDE DEF e
<1>3. rb \in BufferType(log)
  BY TypeIsBufferType
<1>4. rb.pushed \in Nat /\ rb.issued \in Nat /\ rb.acked \in Nat
  BY <1>3 DEF BufferType
<1>5. e.seq = rb.pushed + 1 /\ rb.issued = rb.pushed + Len(queued)
      /\ \A i \in 1 .. Len(queued) : queued[i].seq = rb.pushed + i
  BY <1>2 DEF QueueInv, TakeNext
<1>6. rb' = Push(rb, e) /\ log' = log \cup {e} /\ queued' = Tail(queued)
  BY DEF TakeNext, e
<1>7. rb' \in BufferType(log') /\ rb'.issued = rb.issued /\ rb'.pushed = e.seq
      /\ rb'.acked = rb.acked /\ rb'.budgets = rb.budgets /\ rb'.lowered = rb.lowered
  <2>1. e.seq \in Nat
    BY <1>4, <1>5
  <2>2. /\ Push(rb, e) \in BufferType(log \cup {e})
        /\ Push(rb, e).issued = rb.issued /\ Push(rb, e).pushed = e.seq
        /\ Push(rb, e).acked = rb.acked /\ Push(rb, e).budgets = rb.budgets
        /\ Push(rb, e).lowered = rb.lowered
    BY <1>3, <2>1, PushType
  <2> QED BY <1>6, <2>2
<1>8. TypeOK'
  <2>1. UNCHANGED <<status, limits, lowest, mark>>
    BY DEF TakeNext
  <2>2. log' \subseteq Entry
    BY <1>2, <1>6 DEF TypeOK
  <2> QED BY <1>2, <1>6, <1>7, <2>1, <2>2 DEF TypeOK, BufferType
<1>9. QueueInv'
  <2>1. ASSUME NEW i \in 1 .. Len(queued') PROVE queued'[i].seq = rb'.pushed + i
    <3>1. i \in Int /\ i \in 1 .. Len(queued) - 1
      BY <1>2, <1>6
    <3>2. i + 1 \in 1 .. Len(queued)
      BY <1>2, <3>1
    <3>3. queued'[i] = queued[i + 1]
      BY <1>2, <1>6, <3>1
    <3>4. queued[i + 1].seq = rb.pushed + (i + 1)
      BY <1>5, <3>2
    <3>5. rb'.pushed + i = rb.pushed + (i + 1)
      <4>1. rb'.pushed = rb.pushed + 1 /\ rb.pushed \in Nat /\ i \in Int
        BY <1>4, <1>5, <1>7, <3>1
      <4> QED BY <4>1
    <3> QED BY <3>3, <3>4, <3>5, Zenon
  <2> QED BY <1>2, <1>4, <1>5, <1>6, <1>7, <2>1 DEF QueueInv, TakeNext
<1>10. LogInv'
  <2>1. \A f \in log : f.seq \in Nat /\ f.seq < e.seq
    BY <1>4, <1>5 DEF LogInv, TypeOK, Entry
  <2> QED BY <1>2, <1>4, <1>5, <1>6, <1>7, <2>1 DEF LogInv
<1>11. LoweredInv'
  BY <1>7 DEF LoweredInv, TakeNext
<1> QED BY <1>8, <1>9, <1>10, <1>11

\* An acknowledgement keeps the invariant, applied limits included.
LEMMA AcknowledgesStep == ASSUME IInv, NEW l \in 1 .. MaxSeq + 1, PeerAcknowledges(l) PROVE IInv'
<1> USE DEF IInv
<1>1. l \in Nat
  BY ReplayedSendsAssumption
<1>2. rb \in BufferType(log) /\ rb' = Acknowledge(rb, l)
  BY TypeIsBufferType DEF PeerAcknowledges
<1>3. /\ rb' \in BufferType(log)
      /\ rb'.issued = rb.issued /\ rb'.pushed = rb.pushed
      /\ rb'.acked = IF l <= rb.acked THEN rb.acked ELSE l
      /\ \/ rb'.lowered = rb.lowered /\ rb'.budgets = rb.budgets
            /\ (rb'.acked = rb.acked \/ rb.lowered.through = 0 \/ rb'.acked < rb.lowered.through)
         \/ rb.lowered.through > 0 /\ rb'.lowered = NoLowered /\ rb'.budgets = rb.lowered.budgets
  BY <1>1, <1>2, AcknowledgeType
<1>4. UNCHANGED <<queued, status, log, limits, mark>> /\ lowest' = Lower(lowest, rb'.budgets)
      /\ status # "disposed"
      /\ l <= IF status = "lost" THEN rb.issued ELSE rb.pushed
  BY DEF PeerAcknowledges
<1>5. rb.acked \in Nat /\ rb.issued \in Nat /\ rb.pushed \in Nat /\ rb.lowered.through \in Nat
      /\ rb'.budgets \in [DataKinds -> Nat]
  BY <1>2, <1>3 DEF BufferType
<1>6. TypeOK'
  BY <1>3, <1>4, <1>5, LowerType DEF TypeOK, BufferType
<1>7. QueueInv'
  BY <1>3, <1>4 DEF QueueInv
<1>8. LogInv'
  BY <1>1, <1>3, <1>4, <1>5 DEF LogInv
<1>9. LoweredInv'
  <2>1. CASE rb'.lowered = rb.lowered /\ rb'.budgets = rb.budgets
             /\ (rb'.acked = rb.acked \/ rb.lowered.through = 0 \/ rb'.acked < rb.lowered.through)
    BY <1>3, <1>4, <2>1 DEF LoweredInv
  <2>2. CASE rb.lowered.through > 0 /\ rb'.lowered = NoLowered /\ rb'.budgets = rb.lowered.budgets
    <3>1. rb'.lowered.through = 0
      BY <2>2 DEF NoLowered
    <3>2. rb.lowered.budgets = limits
      BY <1>4, <1>5, <2>2 DEF LoweredInv
    <3> QED BY <1>4, <2>2, <3>1, <3>2 DEF LoweredInv
  <2> QED BY <1>3, <2>1, <2>2
<1> QED BY <1>6, <1>7, <1>8, <1>9

\* New settings keep the invariant.
LEMMA ChangeLimitsStep == ASSUME IInv, NEW new \in Limits, ChangeLimits(new) PROVE IInv'
<1> USE DEF IInv
<1>1. new \in [DataKinds -> Nat]
  BY ReplayedSendsAssumption
<1>2. rb \in BufferType(log) /\ rb' = SetLimits(rb, new) /\ status # "disposed"
  BY TypeIsBufferType DEF ChangeLimits
<1>3. /\ rb.acked <= rb.issued
      /\ rb.lowered.through = 0
         \/ (rb.acked < rb.lowered.through /\ rb.lowered.through <= rb.issued)
  BY <1>2 DEF LogInv, LoweredInv
<1>4. /\ rb' \in BufferType(log)
      /\ rb'.issued = rb.issued /\ rb'.pushed = rb.pushed /\ rb'.acked = rb.acked
      /\ IF rb'.lowered.through = 0 THEN rb'.budgets = new
         ELSE /\ rb'.lowered.budgets = new
              /\ rb'.acked < rb'.lowered.through
              /\ rb'.lowered.through <= rb'.issued
  BY <1>1, <1>2, <1>3, SetLimitsType
<1>5. UNCHANGED <<queued, status, log>> /\ limits' = new
      /\ lowest' = Lower(lowest, rb'.budgets) /\ mark' = IF new = limits THEN mark ELSE rb.issued
  BY DEF ChangeLimits
<1>6. rb'.budgets \in [DataKinds -> Nat] /\ rb.issued \in Nat
  BY <1>2, <1>4 DEF BufferType
<1>7. TypeOK'
  BY <1>1, <1>4, <1>5, <1>6, LowerType DEF TypeOK, BufferType
<1>8. QueueInv' /\ LogInv'
  BY <1>4, <1>5 DEF QueueInv, LogInv
<1>9. LoweredInv'
  BY <1>4, <1>5 DEF LoweredInv
<1> QED BY <1>7, <1>8, <1>9

\* Losing the channel keeps the invariant: the ERROR seq is issued, not pushed.
LEMMA LoseChannelStep == ASSUME IInv, NEW l \in 0 .. MaxSeq, LoseChannel(l) PROVE IInv'
<1> USE DEF IInv
<1> DEFINE mid == Acknowledge(rb, l)
<1>1. l \in Nat /\ l <= rb.pushed /\ rb \in BufferType(log) /\ rb' = NextSeq(mid)
  BY TypeIsBufferType, ReplayedSendsAssumption DEF LoseChannel
<1>2. /\ mid \in BufferType(log)
      /\ mid.issued = rb.issued /\ mid.pushed = rb.pushed
      /\ mid.acked = IF l <= rb.acked THEN rb.acked ELSE l
      /\ \/ mid.lowered = rb.lowered /\ mid.budgets = rb.budgets
            /\ (mid.acked = rb.acked \/ rb.lowered.through = 0 \/ mid.acked < rb.lowered.through)
         \/ rb.lowered.through > 0 /\ mid.lowered = NoLowered /\ mid.budgets = rb.lowered.budgets
  BY <1>1, AcknowledgeType
<1> HIDE DEF mid
<1>3. rb' \in BufferType(log) /\ rb' = [mid EXCEPT !.issued = mid.issued + 1]
  BY <1>1, <1>2, NextSeqType
<1>4. rb'.issued = mid.issued + 1 /\ rb'.pushed = mid.pushed /\ rb'.acked = mid.acked
      /\ rb'.budgets = mid.budgets /\ rb'.lowered = mid.lowered
  BY <1>2, <1>3 DEF BufferType
<1>5. UNCHANGED <<log, limits, mark>> /\ lowest' = Lower(lowest, rb'.budgets)
      /\ queued' = <<>> /\ status = "open" /\ status' = "lost"
  BY DEF LoseChannel
<1>6. rb.acked \in Nat /\ rb.issued \in Nat /\ rb.pushed \in Nat /\ rb.lowered.through \in Nat
      /\ rb'.budgets \in [DataKinds -> Nat]
  BY <1>1, <1>3 DEF BufferType
<1>7. TypeOK'
  <2>1. lowest' \in [DataKinds -> Nat]
    BY <1>5, <1>6, LowerType DEF TypeOK
  <2>2. queued' \in Seq(Entry) /\ status' \in {"open", "lost", "disposed"}
    BY <1>5
  <2> QED BY <1>3, <1>5, <2>1, <2>2 DEF TypeOK, BufferType
<1>8. QueueInv'
  BY <1>5 DEF QueueInv
<1>9. LogInv'
  BY <1>1, <1>2, <1>4, <1>5, <1>6 DEF LogInv
<1>10. LoweredInv'
  <2>1. CASE mid.lowered = rb.lowered /\ mid.budgets = rb.budgets
             /\ (mid.acked = rb.acked \/ rb.lowered.through = 0 \/ mid.acked < rb.lowered.through)
    BY <1>2, <1>4, <1>5, <1>6, <2>1 DEF LoweredInv
  <2>2. CASE rb.lowered.through > 0 /\ mid.lowered = NoLowered /\ mid.budgets = rb.lowered.budgets
    <3>1. rb'.lowered.through = 0
      BY <1>4, <2>2 DEF NoLowered
    <3>2. rb.lowered.budgets = limits
      BY <1>5, <1>6, <2>2 DEF LoweredInv
    <3> QED BY <1>4, <1>5, <2>2, <3>1, <3>2 DEF LoweredInv
  <2> QED BY <1>2, <2>1, <2>2
<1> QED BY <1>7, <1>8, <1>9, <1>10

\* Releasing the record keeps the invariant.
LEMMA DisposeStep == ASSUME IInv, Dispose PROVE IInv'
<1> USE DEF IInv
<1>1. rb.budgets \in [DataKinds -> Nat]
  BY DEF TypeOK
<1>2. rb' \in BufferType(log') /\ rb' = NewBuffer(rb.budgets)
  BY <1>1, NewBufferType DEF Dispose, Disposed
<1>3. rb'.issued = 0 /\ rb'.pushed = 0 /\ rb'.acked = 0
  BY <1>2 DEF NewBuffer
<1>4. TypeOK'
  BY <1>2, SMTT(180) DEF Dispose, TypeOK, BufferType
<1>5. QueueInv' /\ LogInv' /\ LoweredInv'
  BY <1>3 DEF Dispose, QueueInv, LogInv, LoweredInv
<1> QED BY <1>4, <1>5

\* A stuttering step keeps the invariant.
LEMMA StutterStep == IInv /\ UNCHANGED vars => IInv'
BY DEF IInv, vars, TypeOK, QueueInv, LogInv, LoweredInv

\* Every step keeps the invariant.
LEMMA NextPreserves == IInv /\ [Next]_vars => IInv'
<1> SUFFICES ASSUME IInv, [Next]_vars PROVE IInv'
  OBVIOUS
<1>1. ASSUME NEW kind \in Kinds, NEW bytes \in Sizes, Send(kind, bytes) PROVE IInv'
  BY <1>1, SendStep
<1>2. CASE TakeNext
  BY <1>2, TakeNextStep
<1>3. ASSUME NEW l \in 1 .. MaxSeq + 1, PeerAcknowledges(l) PROVE IInv'
  BY <1>3, AcknowledgesStep
<1>4. ASSUME NEW new \in Limits, ChangeLimits(new) PROVE IInv'
  BY <1>4, ChangeLimitsStep
<1>5. ASSUME NEW l \in 0 .. MaxSeq, LoseChannel(l) PROVE IInv'
  BY <1>5, LoseChannelStep
<1>6. CASE Dispose
  BY <1>6, DisposeStep
<1>7. CASE UNCHANGED vars
  BY <1>7, StutterStep
<1> QED BY <1>1, <1>2, <1>3, <1>4, <1>5, <1>6, <1>7 DEF Next

\* The strengthened invariant holds in every reachable state.
THEOREM InductiveInvariant == Spec => []IInv
<1>1. Init => IInv
  BY InitHolds
<1>2. IInv /\ [Next]_vars => IInv'
  BY NextPreserves
<1> QED BY <1>1, <1>2, PTL DEF Spec

-----------------------------------------------------------------------------
\* The properties.

\* ReplayBuffer's counters, queues and limits keep their types, and the queues hold
\* only frames that were pushed, through every resize, loss and release.
THEOREM TypeCorrect == Spec => []TypeOK
<1>1. IInv => TypeOK
  BY DEF IInv
<1> QED BY <1>1, InductiveInvariant, PTL

\* A set of frames with different seqs above `after` and at most `last`, as many as
\* there are such seqs, has a frame for each of them.
LEMMA NoneMissing ==
  ASSUME NEW S, NEW after \in Int, NEW last \in Int, after <= last,
         \A e \in S : e.seq \in after + 1 .. last,
         \A e, f \in S : e.seq = f.seq => e = f,
         Cardinality(S) >= last - after
  PROVE  \A n \in after + 1 .. last : \E e \in S : e.seq = n
<1> DEFINE T == after + 1 .. last
           seqOf == [e \in S |-> e.seq]
<1>1. IsFiniteSet(T) /\ Cardinality(T) = last - after
  <2>1. after + 1 \in Int
    OBVIOUS
  <2>2. IsFiniteSet(T) /\ Cardinality(T) = IF after + 1 > last THEN 0 ELSE last - (after + 1) + 1
    BY <2>1, FS_Interval
  <2> QED BY <2>2
<1>2. seqOf \in Injection(S, T)
  <2>1. seqOf \in [S -> T]
    OBVIOUS
  <2>2. \A e, f \in S : seqOf[e] = seqOf[f] => e = f
    OBVIOUS
  <2> HIDE DEF seqOf
  <2> QED BY <2>1, <2>2 DEF Injection, IsInjective
<1>3. IsFiniteSet(S) /\ Cardinality(S) <= Cardinality(T)
      /\ (Cardinality(S) = Cardinality(T) <=> seqOf \in Surjection(S, T))
  BY <1>1, <1>2, FS_Injection
<1>4. Cardinality(S) \in Nat
  BY <1>3, FS_CardinalityType
<1>5. seqOf \in Surjection(S, T)
  BY <1>1, <1>3, <1>4
<1>6. ASSUME NEW n \in T PROVE \E e \in S : e.seq = n
  <2>1. PICK e \in S : seqOf[e] = n
    BY <1>5 DEF Surjection
  <2>2. seqOf[e] = e.seq
    OBVIOUS
  <2> QED BY <2>1, <2>2
<1> QED BY <1>6

\* The count getAfter decides by is right for every history of the buffer: a run it
\* returns is exactly what was pushed in that range.
THEOREM ReplayExact == Spec => []ReplayIsExact
<1>1. IInv => ReplayIsExact
  <2> SUFFICES ASSUME IInv, NEW after \in 0 .. rb.issued, NEW through \in 0 .. rb.issued,
                      HasAfter(rb, after, through)
               PROVE  FramesAfter(rb, after, through) =
                        {e \in log : after < e.seq /\ e.seq <= through}
    BY DEF ReplayIsExact
  <2> USE DEF IInv
  <2> DEFINE last == IF through < rb.pushed THEN through ELSE rb.pushed
             S == FramesAfter(rb, after, through)
  <2>1. rb.issued \in Nat /\ rb.pushed \in Nat /\ rb.stored \subseteq log /\ log \subseteq Entry
    BY DEF TypeOK
  <2>2. after \in Nat /\ through \in Nat /\ last \in Nat
    BY <2>1
  <2>3. \A e \in log : e.seq \in Nat /\ e.seq <= rb.pushed
    BY <2>1 DEF LogInv, Entry
  <2>4. Cardinality(S) >= last - after
    BY DEF HasAfter
  <2>5. S \subseteq {e \in log : after < e.seq /\ e.seq <= through}
    BY <2>1 DEF FramesAfter
  <2>6. ASSUME NEW e \in log, after < e.seq, e.seq <= through PROVE e \in S
    <3>1. e.seq \in Nat /\ after <= last /\ e.seq \in after + 1 .. last
      BY <2>2, <2>3, <2>6
    <3>2. \A f \in S : f.seq \in after + 1 .. last
      BY <2>1, <2>2, <2>3 DEF FramesAfter
    <3>3. \A f, g \in S : f.seq = g.seq => f = g
      BY <2>5 DEF LogInv
    <3>4. after \in Int /\ last \in Int /\ after <= last
      BY <2>2, <3>1
    <3> HIDE DEF S, last
    <3>5. \E f \in S : f.seq = e.seq
      <4>1. \A n \in after + 1 .. last : \E f \in S : f.seq = n
        BY <2>4, <3>2, <3>3, <3>4, NoneMissing
      <4> QED BY <3>1, <4>1
    <3>6. PICK f \in S : f.seq = e.seq
      BY <3>5
    <3>7. f = e
      BY <2>5, <2>6, <3>6 DEF LogInv
    <3>8. f \in S
      BY <3>6
    <3> QED BY <3>7, <3>8
  <2> QED BY <2>5, <2>6
<1> QED BY <1>1, InductiveInvariant, PTL

\* Whatever the page sends, resizes and has acknowledged, a frame that waits for a
\* wire passes both asserts of `push` (ReplayBuffer.ts:52-53).
THEOREM QueuedFramesFit == Spec => []QueuedFramesCanBePushed
<1>1. IInv => QueuedFramesCanBePushed
  <2> SUFFICES ASSUME IInv, NEW i \in 1 .. Len(queued)
               PROVE  queued[i].seq <= rb.issued /\ queued[i].seq >= rb.pushed + i
    BY DEF QueuedFramesCanBePushed
  <2>1. status = "open"
    BY DEF IInv, QueueInv
  <2>2. rb.issued = rb.pushed + Len(queued) /\ queued[i].seq = rb.pushed + i
    BY <2>1 DEF IInv, QueueInv
  <2>3. rb.pushed \in Nat /\ queued \in Seq(Entry)
    BY DEF IInv, TypeOK
  <2>4. Len(queued) \in Nat /\ i \in Nat /\ i <= Len(queued)
    BY <2>3
  <2>5. rb.pushed + i <= rb.pushed + Len(queued)
    BY <2>3, <2>4
  <2>6. rb.pushed + i >= rb.pushed + i
    BY <2>3, <2>4
  <2> QED BY <2>2, <2>5, <2>6
<1> QED BY <1>1, InductiveInvariant, PTL

\* However often the limits change while frames are unacknowledged, the last ones are
\* in force when the peer has everything (setLimits, acknowledge).
THEOREM LimitsReached == Spec => []LimitsAreReached
<1>1. IInv => LimitsAreReached
  <2> SUFFICES ASSUME IInv, status # "disposed", rb.acked = rb.issued
               PROVE  rb.budgets = limits
    BY DEF LimitsAreReached
  <2>1. rb.issued \in Nat /\ rb.lowered.through \in Nat
    BY DEF IInv, TypeOK
  <2>2. rb.lowered.through = 0
    BY <2>1 DEF IInv, LoweredInv
  <2> QED BY <2>2 DEF IInv, LoweredInv
<1> QED BY <1>1, InductiveInvariant, PTL

-----------------------------------------------------------------------------
\* How many bytes frames have.

\* A finite set of entries whose bytes are numbers.
Weighed(S) == IsFiniteSet(S) /\ \A e \in S : e.bytes \in Nat

\* The entry MapThenSumSet takes next.
AnyOf(s) == CHOOSE y \in s : TRUE

\* g is the sum of bytes of the sets of D, one entry at a time.
SumsBytes(D, g) == g = [s \in D |-> IF s = {} THEN 0 ELSE AnyOf(s).bytes + g[s \ {AnyOf(s)}]]

\* The sets of at most n of the entries of S.
UpTo(S, n) == {s \in SUBSET S : Cardinality(s) <= n}

\* A set without one of its elements has one less.
LEMMA OneLess ==
    ASSUME NEW s, IsFiniteSet(s), NEW x \in s
    PROVE  /\ IsFiniteSet(s \ {x}) /\ Cardinality(s) \in Nat
           /\ Cardinality(s \ {x}) \in Nat /\ Cardinality(s) = Cardinality(s \ {x}) + 1
BY FS_RemoveElement, FS_CardinalityType, FS_Subset

\* The bytes of a set are those of one of the functions that sum its subsets.
LEMMA BytesIsSum ==
    ASSUME NEW S PROVE LET g == CHOOSE g : SumsBytes(SUBSET S, g) IN Bytes(S) = g[S]
BY Zenon DEF Bytes, MapThenSumSet, MapThenFoldSet, SumsBytes, AnyOf

\* Some function sums the subsets of a finite set.
LEMMA SumsExist ==
    ASSUME NEW S, Weighed(S) PROVE \E g \in [SUBSET S -> Nat] : SumsBytes(SUBSET S, g)
<1> DEFINE G == {n \in Nat : \E g \in [UpTo(S, n) -> Nat] : SumsBytes(UpTo(S, n), g)}
<1>1. \A s \in SUBSET S : IsFiniteSet(s) /\ Cardinality(s) \in Nat
  BY FS_Subset, FS_CardinalityType DEF Weighed
<1>2. \A s \in SUBSET S : s # {} => AnyOf(s) \in s /\ AnyOf(s).bytes \in Nat
  BY DEF AnyOf, Weighed
<1>3. 0 \in G
  <2> DEFINE g == [s \in UpTo(S, 0) |-> 0]
  <2>1. \A s \in UpTo(S, 0) : s = {}
    BY <1>1, FS_EmptySet DEF UpTo
  <2>2. SumsBytes(UpTo(S, 0), g)
    BY <2>1 DEF SumsBytes
  <2> QED BY <2>2
<1>4. ASSUME NEW n \in Nat, n \in G PROVE n + 1 \in G
  <2>1. PICK g \in [UpTo(S, n) -> Nat] : SumsBytes(UpTo(S, n), g)
    BY <1>4
  <2> DEFINE h == [s \in UpTo(S, n + 1) |->
                     IF s = {} THEN 0 ELSE AnyOf(s).bytes + g[s \ {AnyOf(s)}]]
  <2>2. \A s \in UpTo(S, n + 1) : s # {} => s \ {AnyOf(s)} \in UpTo(S, n)
    <3>1. TAKE s \in UpTo(S, n + 1)
    <3>2. HAVE s # {}
    <3>3. s \in SUBSET S /\ AnyOf(s) \in s /\ Cardinality(s) <= n + 1
      BY <1>2, <3>2 DEF UpTo
    <3>4. Cardinality(s) = Cardinality(s \ {AnyOf(s)}) + 1 /\ Cardinality(s \ {AnyOf(s)}) \in Nat
      BY <3>3, <1>1, OneLess
    <3> QED BY <3>3, <3>4 DEF UpTo
  <2>3. h \in [UpTo(S, n + 1) -> Nat]
    <3>1. ASSUME NEW s \in UpTo(S, n + 1) PROVE h[s] \in Nat
      <4>1. CASE s = {}
        BY <4>1
      <4>2. CASE s # {}
        BY <4>2, <1>2, <2>1, <2>2 DEF UpTo
      <4> QED BY <4>1, <4>2
    <3> QED BY <3>1
  <2>4. \A s \in UpTo(S, n) : s \in UpTo(S, n + 1) /\ g[s] = h[s]
    <3>1. TAKE s \in UpTo(S, n)
    <3>2. s \in UpTo(S, n + 1)
      BY <1>1 DEF UpTo
    <3> QED BY <2>1, <3>2 DEF SumsBytes
  <2>5. SumsBytes(UpTo(S, n + 1), h)
    <3>1. ASSUME NEW s \in UpTo(S, n + 1)
          PROVE  (IF s = {} THEN 0 ELSE AnyOf(s).bytes + g[s \ {AnyOf(s)}])
                 = (IF s = {} THEN 0 ELSE AnyOf(s).bytes + h[s \ {AnyOf(s)}])
      BY <2>2, <2>4
    <3>2. h = [s \in UpTo(S, n + 1) |->
                 IF s = {} THEN 0 ELSE AnyOf(s).bytes + g[s \ {AnyOf(s)}]]
      OBVIOUS
    <3> HIDE DEF h
    <3>3. h = [s \in UpTo(S, n + 1) |->
                 IF s = {} THEN 0 ELSE AnyOf(s).bytes + h[s \ {AnyOf(s)}]]
      BY <3>1, <3>2
    <3> QED BY <3>3 DEF SumsBytes
  <2> HIDE DEF h
  <2>6. \E k \in [UpTo(S, n + 1) -> Nat] : SumsBytes(UpTo(S, n + 1), k)
    BY <2>3, <2>5, Zenon
  <2> QED BY <2>6
<1>5. \A n \in Nat : n \in G
  BY <1>3, <1>4, NatByStep, Zenon
<1>6. Cardinality(S) \in Nat /\ \A s \in SUBSET S : Cardinality(s) <= Cardinality(S)
  BY FS_Subset, FS_CardinalityType DEF Weighed
<1>7. UpTo(S, Cardinality(S)) = SUBSET S
  BY <1>6 DEF UpTo
<1> QED BY <1>5, <1>6, <1>7

\* Functions that sum the subsets of two sets agree where both do.
LEMMA SumsAgree ==
    ASSUME NEW S, NEW T, NEW g, NEW h, Weighed(S), T \subseteq S,
           SumsBytes(SUBSET S, g), SumsBytes(SUBSET T, h)
    PROVE  g[T] = h[T]
<1> DEFINE G == {n \in Nat : \A t \in SUBSET T : Cardinality(t) = n => g[t] = h[t]}
<1>1. \A s \in SUBSET T : IsFiniteSet(s) /\ Cardinality(s) \in Nat /\ s \in SUBSET S
  BY FS_Subset, FS_CardinalityType DEF Weighed
<1>2. \A s \in SUBSET T : s # {} => AnyOf(s) \in s
  BY DEF AnyOf
<1>3. 0 \in G
  <2>1. \A s \in SUBSET T : Cardinality(s) = 0 => s = {}
    BY <1>1, FS_EmptySet
  <2>2. g[{}] = 0 /\ h[{}] = 0
    BY DEF SumsBytes
  <2> QED BY <2>1, <2>2
<1>4. ASSUME NEW n \in Nat, n \in G PROVE n + 1 \in G
  <2>1. SUFFICES ASSUME NEW t \in SUBSET T, Cardinality(t) = n + 1 PROVE g[t] = h[t]
    OBVIOUS
  <2> DEFINE x == AnyOf(t)
  <2>2. t # {}
    BY <2>1, FS_EmptySet
  <2>3. x \in t
    BY <1>2, <2>2
  <2> HIDE DEF x
  <2>4. Cardinality(t \ {x}) = n
    <3>1. Cardinality(t) = Cardinality(t \ {x}) + 1 /\ Cardinality(t \ {x}) \in Nat
      BY <2>3, <1>1, OneLess
    <3> QED BY <3>1, <2>1
  <2>5. g[t \ {x}] = h[t \ {x}]
    BY <2>4, <1>4
  <2>6. g[t] = x.bytes + g[t \ {x}] /\ h[t] = x.bytes + h[t \ {x}]
    BY <1>1, <2>2 DEF SumsBytes, x
  <2> QED BY <2>5, <2>6
<1>5. \A n \in Nat : n \in G
  BY <1>3, <1>4, NatByStep, Zenon
<1> QED BY <1>1, <1>5

\* A function that sums the subsets of a set gives the bytes of each.
LEMMA SumIsBytes ==
    ASSUME NEW S, Weighed(S), NEW g, SumsBytes(SUBSET S, g), NEW t \in SUBSET S
    PROVE  g[t] = Bytes(t)
<1> DEFINE h == CHOOSE h : SumsBytes(SUBSET t, h)
<1>1. Weighed(t)
  BY FS_Subset DEF Weighed
<1>2. SumsBytes(SUBSET t, h)
  BY <1>1, SumsExist
<1>3. Bytes(t) = h[t]
  BY BytesIsSum
<1> HIDE DEF h
<1>4. t \subseteq S
  OBVIOUS
<1>5. g[t] = h[t]
  BY <1>2, <1>4, SumsAgree, Zenon
<1> QED BY <1>3, <1>5

\* An entry brings its bytes, whichever it is.
LEMMA BytesOfOneMore ==
    ASSUME NEW S, Weighed(S), NEW x \in S
    PROVE  /\ Bytes(S) = x.bytes + Bytes(S \ {x})
           /\ Bytes(S) \in Nat /\ Bytes(S \ {x}) \in Nat
<1>1. PICK g \in [SUBSET S -> Nat] : SumsBytes(SUBSET S, g)
  BY SumsExist
<1> DEFINE G == {n \in Nat : \A s \in SUBSET S : Cardinality(s) = n =>
                               \A y \in s : g[s] = y.bytes + g[s \ {y}]}
<1>2. \A s \in SUBSET S : IsFiniteSet(s) /\ Cardinality(s) \in Nat
  BY FS_Subset, FS_CardinalityType DEF Weighed
<1>3. 0 \in G
  BY <1>2, FS_EmptySet
<1>4. ASSUME NEW n \in Nat, n \in G PROVE n + 1 \in G
  <2>1. SUFFICES ASSUME NEW s \in SUBSET S, Cardinality(s) = n + 1, NEW y \in s
                 PROVE  g[s] = y.bytes + g[s \ {y}]
    OBVIOUS
  <2> DEFINE c == AnyOf(s)
  <2>2. c \in s
    BY <2>1 DEF AnyOf
  <2>3. g[s] = c.bytes + g[s \ {c}]
    BY <1>1, <2>1 DEF SumsBytes
  <2> HIDE DEF c
  <2>4. CASE y = c
    BY <2>3, <2>4
  <2>5. CASE y # c
    <3>1. /\ s \ {c} \in SUBSET S /\ s \ {y} \in SUBSET S
          /\ y \in s \ {c} /\ c \in s \ {y}
      BY <2>2, <2>5
    <3>2. Cardinality(s \ {c}) = n /\ Cardinality(s \ {y}) = n
      <4>1. /\ Cardinality(s) = Cardinality(s \ {c}) + 1 /\ Cardinality(s \ {c}) \in Nat
            /\ Cardinality(s) = Cardinality(s \ {y}) + 1 /\ Cardinality(s \ {y}) \in Nat
        BY <1>2, <2>2, OneLess
      <4> QED BY <4>1, <2>1
    <3>3. g[s \ {c}] = y.bytes + g[(s \ {c}) \ {y}]
      BY <1>4, <3>1, <3>2
    <3>4. g[s \ {y}] = c.bytes + g[(s \ {y}) \ {c}]
      BY <1>4, <3>1, <3>2
    <3>5. (s \ {y}) \ {c} = (s \ {c}) \ {y}
      OBVIOUS
    <3>6. y.bytes \in Nat /\ c.bytes \in Nat /\ g[(s \ {c}) \ {y}] \in Nat
      BY <1>1, <2>2 DEF Weighed
    <3>7. g[s] = c.bytes + (y.bytes + g[(s \ {c}) \ {y}])
      BY <2>3, <3>3, Zenon
    <3>8. y.bytes + g[s \ {y}] = y.bytes + (c.bytes + g[(s \ {c}) \ {y}])
      BY <3>4, <3>5, Zenon
    <3>9. c.bytes + (y.bytes + g[(s \ {c}) \ {y}]) = y.bytes + (c.bytes + g[(s \ {c}) \ {y}])
      BY <3>6
    <3> QED BY <3>7, <3>8, <3>9, Zenon
  <2> QED BY <2>4, <2>5
<1>5. \A n \in Nat : n \in G
  BY <1>3, <1>4, NatByStep, Zenon
<1>6. g[S] = x.bytes + g[S \ {x}]
  BY <1>2, <1>5
<1>7. g[S] = Bytes(S) /\ g[S \ {x}] = Bytes(S \ {x})
  BY <1>1, SumIsBytes
<1> QED BY <1>1, <1>6, <1>7

\* More entries, more bytes.
LEMMA BytesGrow ==
    ASSUME NEW S, Weighed(S), NEW T \in SUBSET S
    PROVE  Bytes(T) <= Bytes(S) /\ Bytes(T) \in Nat /\ Bytes(S) \in Nat
<1> DEFINE G == {n \in Nat : \A s \in SUBSET S : Cardinality(s) = n =>
                    \A t \in SUBSET s : Bytes(t) <= Bytes(s) /\ Bytes(t) \in Nat /\ Bytes(s) \in Nat}
<1>1. \A s \in SUBSET S : IsFiniteSet(s) /\ Cardinality(s) \in Nat /\ Weighed(s)
  BY FS_Subset, FS_CardinalityType DEF Weighed
<1>2. 0 \in G
  <2>1. \A s \in SUBSET S : Cardinality(s) = 0 => s = {}
    BY <1>1, FS_EmptySet
  <2>2. Bytes({}) \in Nat
    <3>1. Weighed({})
      BY FS_EmptySet DEF Weighed
    <3>2. PICK g \in [SUBSET {} -> Nat] : SumsBytes(SUBSET {}, g)
      BY <3>1, SumsExist
    <3>3. g[{}] = Bytes({})
      BY <3>1, <3>2, SumIsBytes
    <3> QED BY <3>2, <3>3
  <2>3. ASSUME NEW s \in SUBSET S, Cardinality(s) = 0, NEW t \in SUBSET s
        PROVE  Bytes(t) <= Bytes(s) /\ Bytes(t) \in Nat /\ Bytes(s) \in Nat
    <3>1. s = {} /\ t = {}
      BY <2>1, <2>3
    <3>2. Bytes(t) = Bytes({}) /\ Bytes(s) = Bytes({})
      BY <3>1
    <3> QED BY <3>2, <2>2
  <2> QED BY <2>3
<1>3. ASSUME NEW n \in Nat, n \in G PROVE n + 1 \in G
  <2>1. SUFFICES ASSUME NEW s \in SUBSET S, Cardinality(s) = n + 1, NEW t \in SUBSET s
                 PROVE  Bytes(t) <= Bytes(s) /\ Bytes(t) \in Nat /\ Bytes(s) \in Nat
    OBVIOUS
  <2>2. s # {}
    BY <2>1, FS_EmptySet
  <2>3. CASE t = s
    <3>1. PICK x \in s : TRUE
      BY <2>2
    <3>2. Bytes(s) \in Nat
      BY <1>1, <3>1, BytesOfOneMore
    <3> QED BY <2>3, <3>2
  <2>4. CASE t # s
    <3>1. PICK x \in s : x \notin t
      BY <2>4
    <3>2. Cardinality(s \ {x}) = n /\ s \ {x} \in SUBSET S /\ t \in SUBSET (s \ {x})
      <4>1. Cardinality(s) = Cardinality(s \ {x}) + 1 /\ Cardinality(s \ {x}) \in Nat
        BY <1>1, OneLess
      <4> QED BY <4>1, <2>1, <3>1
    <3>3. Bytes(t) <= Bytes(s \ {x}) /\ Bytes(t) \in Nat
      BY <1>3, <3>2
    <3>4. /\ Bytes(s) = x.bytes + Bytes(s \ {x})
          /\ Bytes(s) \in Nat /\ Bytes(s \ {x}) \in Nat
      BY <1>1, BytesOfOneMore
    <3>5. x.bytes \in Nat
      BY DEF Weighed
    <3> QED BY <3>3, <3>4, <3>5
  <2> QED BY <2>3, <2>4
<1>4. \A n \in Nat : n \in G
  BY <1>2, <1>3, NatByStep, Zenon
<1> QED BY <1>1, <1>4

-----------------------------------------------------------------------------
\* What eviction leaves.

\* The frames S held within the budgets b: each kind's fit.
Kept(S, b) == \A e \in S : e.kind \in DataKinds => Bytes(FromOn(S, e)) <= b[e.kind]

\* Of the frames L pushed and S held, only frames through seq a are gone, and those that with
\* what came after outgrew the budgets low.
Lost(L, S, a, low) ==
    \A e \in L \ S : e.seq > a => e.kind \in DataKinds /\ Bytes(FromOn(L, e)) > low[e.kind]

\* What eviction leaves: S of the frames L pushed, within budgets b that never were below low.
Held(L, S, b, a, low) ==
    /\ Weighed(L) /\ S \subseteq L /\ \A e \in L : e.seq \in Nat
    /\ a \in Nat /\ b \in [DataKinds -> Nat] /\ low \in [DataKinds -> Nat]
    /\ \A k \in DataKinds : low[k] <= b[k]
    /\ Kept(S, b) /\ Lost(L, S, a, low)

\* Fewer frames have no more bytes from any of them on.
LEMMA FromOnGrows ==
    ASSUME NEW S, Weighed(S), NEW T, T \subseteq S, NEW e
    PROVE  /\ Bytes(FromOn(T, e)) \in Nat /\ Bytes(FromOn(S, e)) \in Nat
           /\ Bytes(FromOn(T, e)) <= Bytes(FromOn(S, e))
<1>1. FromOn(S, e) \subseteq S /\ FromOn(T, e) \subseteq FromOn(S, e)
  BY DEF FromOn
<1>2. Weighed(FromOn(S, e))
  BY <1>1, FS_Subset DEF Weighed
<1> QED BY <1>1, <1>2, BytesGrow

\* What eviction leaves fits the budgets, and so does any part of it.
LEMMA TrimKeeps ==
    ASSUME NEW S, Weighed(S), NEW b \in [DataKinds -> Nat]
    PROVE  Kept(Trim(S, b), b)
<1> DEFINE T == Trim(S, b)
<1>1. T \subseteq S
  BY TrimSubset
<1>2. ASSUME NEW e \in T, e.kind \in DataKinds PROVE Bytes(FromOn(T, e)) <= b[e.kind]
  <2>1. Bytes(FromOn(S, e)) <= b[e.kind]
    BY <1>2 DEF Trim
  <2> HIDE DEF T
  <2>2. /\ Bytes(FromOn(T, e)) \in Nat /\ Bytes(FromOn(S, e)) \in Nat
        /\ Bytes(FromOn(T, e)) <= Bytes(FromOn(S, e))
    BY <1>1, FromOnGrows
  <2>3. b[e.kind] \in Nat
    BY <1>2
  <2> QED BY <2>1, <2>2, <2>3
<1> QED BY <1>2 DEF Kept

\* Part of what fits the budgets fits them.
LEMMA KeptSubset ==
    ASSUME NEW S, Weighed(S), NEW b \in [DataKinds -> Nat], Kept(S, b), NEW T, T \subseteq S
    PROVE  Kept(T, b)
<1>1. ASSUME NEW e \in T, e.kind \in DataKinds PROVE Bytes(FromOn(T, e)) <= b[e.kind]
  <2>1. Bytes(FromOn(S, e)) <= b[e.kind]
    BY <1>1 DEF Kept
  <2>2. /\ Bytes(FromOn(T, e)) \in Nat /\ Bytes(FromOn(S, e)) \in Nat
        /\ Bytes(FromOn(T, e)) <= Bytes(FromOn(S, e))
    BY FromOnGrows
  <2>3. b[e.kind] \in Nat
    BY <1>1
  <2> QED BY <2>1, <2>2, <2>3
<1> QED BY <1>1 DEF Kept

\* Budgets no lower than those that hold evict nothing.
LEMMA HigherEvictsNothing ==
    ASSUME NEW S, Weighed(S), NEW b \in [DataKinds -> Nat], Kept(S, b),
           NEW c \in [DataKinds -> Nat], \A k \in DataKinds : b[k] <= c[k]
    PROVE  Trim(S, c) = S
<1>1. ASSUME NEW e \in S, e.kind \in DataKinds PROVE Bytes(FromOn(S, e)) <= c[e.kind]
  <2>1. Bytes(FromOn(S, e)) <= b[e.kind]
    BY <1>1 DEF Kept
  <2>2. Bytes(FromOn(S, e)) \in Nat
    BY FromOnGrows
  <2>3. b[e.kind] \in Nat /\ c[e.kind] \in Nat /\ b[e.kind] <= c[e.kind]
    BY <1>1
  <2> QED BY <2>1, <2>2, <2>3
<1> QED BY <1>1 DEF Trim

\* A frame evicted for budgets b had outgrown every lower ones, among all frames pushed too.
LEMMA EvictedOutgrew ==
    ASSUME NEW L, Weighed(L), NEW S, S \subseteq L,
           NEW b \in [DataKinds -> Nat], NEW low \in [DataKinds -> Nat],
           \A k \in DataKinds : low[k] <= b[k], NEW e \in S, e \notin Trim(S, b)
    PROVE  e.kind \in DataKinds /\ Bytes(FromOn(L, e)) > low[e.kind]
<1>1. e.kind \in DataKinds /\ ~(Bytes(FromOn(S, e)) <= b[e.kind])
  BY DEF Trim
<1>2. /\ Bytes(FromOn(S, e)) \in Nat /\ Bytes(FromOn(L, e)) \in Nat
      /\ Bytes(FromOn(S, e)) <= Bytes(FromOn(L, e))
  BY FromOnGrows
<1>3. b[e.kind] \in Nat /\ low[e.kind] \in Nat /\ low[e.kind] <= b[e.kind]
  BY <1>1
<1> QED BY <1>1, <1>2, <1>3

\* Frames that leave because they are acknowledged, and then others for new budgets.
LEMMA HeldTrimmed ==
    ASSUME NEW L, NEW S, NEW b, NEW a, NEW low, Held(L, S, b, a, low),
           NEW R, R \subseteq S, NEW c \in Nat, a <= c, \A e \in S \ R : e.seq <= c,
           NEW d \in [DataKinds -> Nat], NEW lower \in [DataKinds -> Nat],
           \A k \in DataKinds : lower[k] <= low[k] /\ lower[k] <= d[k]
    PROVE  Held(L, Trim(R, d), d, c, lower)
<1> DEFINE T == Trim(R, d)
<1>1. T \subseteq R /\ R \subseteq L /\ S \subseteq L
  BY TrimSubset DEF Held
<1>2. Weighed(L) /\ Weighed(R) /\ \A e \in L : e.seq \in Nat
  BY <1>1, FS_Subset DEF Weighed, Held
<1>3. Kept(T, d)
  BY <1>2, TrimKeeps
<1>4. ASSUME NEW e \in L \ T, e.seq > c
      PROVE  e.kind \in DataKinds /\ Bytes(FromOn(L, e)) > lower[e.kind]
  <2>1. CASE e \in R
    BY <1>1, <1>2, <1>4, <2>1, EvictedOutgrew
  <2>2. CASE e \notin R
    <3>1. e \notin S /\ e.seq > a
      BY <1>2, <1>4, <2>2 DEF Held
    <3>2. e.kind \in DataKinds /\ Bytes(FromOn(L, e)) > low[e.kind]
      BY <1>4, <3>1 DEF Held, Lost
    <3>3. Bytes(FromOn(L, e)) \in Nat
      BY <1>2, FromOnGrows
    <3>4. low[e.kind] \in Nat /\ lower[e.kind] \in Nat /\ lower[e.kind] <= low[e.kind]
      BY <3>2 DEF Held
    <3> QED BY <3>2, <3>3, <3>4
  <2> QED BY <2>1, <2>2
<1>5. Lost(L, T, c, lower)
  BY <1>4 DEF Lost
<1> HIDE DEF T
<1>6. Held(L, T, d, c, lower)
  BY <1>1, <1>2, <1>3, <1>5 DEF Held
<1> QED BY <1>6 DEF T

\* Frames that leave because they are acknowledged, the budgets being what they were.
LEMMA HeldLeft ==
    ASSUME NEW L, NEW S, NEW b, NEW a, NEW low, Held(L, S, b, a, low),
           NEW R, R \subseteq S, NEW c \in Nat, a <= c, \A e \in S \ R : e.seq <= c,
           NEW lower \in [DataKinds -> Nat], \A k \in DataKinds : lower[k] <= low[k]
    PROVE  Held(L, R, b, c, lower)
<1>1. /\ b \in [DataKinds -> Nat] /\ low \in [DataKinds -> Nat]
      /\ Weighed(L) /\ S \subseteq L /\ Kept(S, b)
  BY DEF Held
<1>2. Weighed(S)
  BY <1>1, FS_Subset DEF Weighed
<1>3. \A k \in DataKinds : lower[k] <= low[k] /\ lower[k] <= b[k]
  BY <1>1 DEF Held
<1>4. Held(L, Trim(R, b), b, c, lower)
  BY <1>1, <1>3, HeldTrimmed
<1>5. Kept(R, b) /\ Weighed(R)
  BY <1>1, <1>2, KeptSubset, FS_Subset DEF Weighed
<1>6. Trim(R, b) = R
  BY <1>1, <1>5, HigherEvictsNothing
<1> QED BY <1>4, <1>6

\* A frame is pushed: stored at the cost of older ones, or too large to be.
LEMMA HeldPushed ==
    ASSUME NEW L, NEW S, NEW b, NEW a, NEW low, Held(L, S, b, a, low),
           NEW e, e.seq \in Nat, e.bytes \in Nat, NEW fits \in BOOLEAN,
           fits <=> (e.kind \in DataKinds => e.bytes <= b[e.kind])
    PROVE  Held(L \cup {e}, IF fits THEN Trim(S \cup {e}, b) ELSE S, b, a, low)
<1> DEFINE M == L \cup {e}
           T == IF fits THEN Trim(S \cup {e}, b) ELSE S
<1>1. /\ b \in [DataKinds -> Nat] /\ low \in [DataKinds -> Nat] /\ a \in Nat
      /\ Weighed(L) /\ S \subseteq L /\ Kept(S, b)
      /\ \A k \in DataKinds : low[k] <= b[k]
  BY DEF Held
<1>2. Weighed(M) /\ L \subseteq M /\ S \cup {e} \subseteq M /\ \A f \in M : f.seq \in Nat
  BY <1>1, FS_AddElement DEF Weighed, Held
<1>3. Weighed(S \cup {e})
  BY <1>2, FS_Subset DEF Weighed
<1>4. T \subseteq S \cup {e}
  BY TrimSubset
<1>5. Kept(T, b)
  BY <1>1, <1>3, TrimKeeps
<1>6. ASSUME NEW f \in M \ T, f.seq > a
      PROVE  f.kind \in DataKinds /\ Bytes(FromOn(M, f)) > low[f.kind]
  <2>1. CASE f \in S
    <3>1. fits /\ f \in S \cup {e} /\ f \notin Trim(S \cup {e}, b)
      BY <1>6, <2>1
    <3> QED BY <1>1, <1>2, <3>1, EvictedOutgrew
  <2>2. CASE f \in L /\ f \notin S
    <3>1. f.kind \in DataKinds /\ Bytes(FromOn(L, f)) > low[f.kind]
      BY <1>6, <2>2 DEF Held, Lost
    <3>2. /\ Bytes(FromOn(L, f)) \in Nat /\ Bytes(FromOn(M, f)) \in Nat
          /\ Bytes(FromOn(L, f)) <= Bytes(FromOn(M, f))
      BY <1>2, FromOnGrows
    <3>3. low[f.kind] \in Nat
      BY <1>1, <3>1
    <3> QED BY <3>1, <3>2, <3>3
  <2>3. CASE f = e /\ fits
    <3>1. f \in S \cup {e} /\ f \notin Trim(S \cup {e}, b)
      BY <1>6, <2>3
    <3> QED BY <1>1, <1>2, <3>1, EvictedOutgrew
  <2>4. CASE f = e /\ ~fits
    <3>1. e.kind \in DataKinds /\ ~(e.bytes <= b[e.kind])
      BY <2>4
    <3>2. e \in FromOn(M, e)
      BY DEF FromOn
    <3>3. Weighed(FromOn(M, e))
      <4>1. FromOn(M, e) \subseteq M
        BY DEF FromOn
      <4> QED BY <1>2, <4>1, FS_Subset DEF Weighed
    <3>4. /\ Bytes(FromOn(M, e)) = e.bytes + Bytes(FromOn(M, e) \ {e})
          /\ Bytes(FromOn(M, e)) \in Nat /\ Bytes(FromOn(M, e) \ {e}) \in Nat
      BY <3>2, <3>3, BytesOfOneMore
    <3>5. b[e.kind] \in Nat /\ low[e.kind] \in Nat /\ low[e.kind] <= b[e.kind]
      BY <1>1, <3>1
    <3>6. Bytes(FromOn(M, e)) > low[e.kind]
      BY <3>1, <3>4, <3>5
    <3> QED BY <2>4, <3>1, <3>6
  <2> QED BY <2>1, <2>2, <2>3, <2>4
<1>7. Lost(M, T, a, low)
  BY <1>6 DEF Lost
<1> HIDE DEF M, T
<1>8. T \subseteq M
  BY <1>2, <1>4
<1>9. Held(M, T, b, a, low)
  BY <1>1, <1>2, <1>5, <1>7, <1>8 DEF Held
<1> QED BY <1>9 DEF M, T

\* What the buffer holds of the frames in `entries`, its budgets never below low.
BufferHeld(entries, buf, low) == Held(entries, buf.stored, buf.budgets, buf.acked, low)

\* The strengthened invariant of eviction.
EvictInv == BufferHeld(log, rb, lowest)

\* Unless a frame is pushed or acknowledged, no frame the peer lacks goes.
NoneEvicted ==
    rb'.acked = rb.acked /\ rb'.pushed = rb.pushed /\ status' # "disposed"
        => Unacknowledged(rb.stored, rb.acked) \subseteq rb'.stored

\* The lower of two budgets is below both.
LEMMA LowerIsBelow ==
  ASSUME NEW f \in [DataKinds -> Nat], NEW g \in [DataKinds -> Nat]
  PROVE  \A k \in DataKinds : Lower(f, g)[k] <= f[k] /\ Lower(f, g)[k] <= g[k]
BY DEF Lower

\* push evicts lawfully.
LEMMA PushHeld ==
  ASSUME NEW L, NEW buf \in BufferType(L), NEW low, BufferHeld(L, buf, low),
         NEW e, e.seq \in Nat, e.bytes \in Nat
  PROVE  BufferHeld(L \cup {e}, Push(buf, e), low)
<1> DEFINE fits == Fits(buf, e)
           st == IF fits THEN Trim(buf.stored \cup {e}, buf.budgets) ELSE buf.stored
<1>1. Push(buf, e) = [buf EXCEPT !.pushed = e.seq, !.stored = st]
  BY DEF Push
<1>2. fits \in BOOLEAN /\ (fits <=> (e.kind \in DataKinds => e.bytes <= buf.budgets[e.kind]))
  BY DEF Fits
<1>3. Held(L, buf.stored, buf.budgets, buf.acked, low)
  BY DEF BufferHeld
<1> HIDE DEF fits
<1>4. Held(L \cup {e}, st, buf.budgets, buf.acked, low)
  BY <1>2, <1>3, HeldPushed
<1> HIDE DEF st
<1>5. /\ Push(buf, e).stored = st /\ Push(buf, e).budgets = buf.budgets
      /\ Push(buf, e).acked = buf.acked
  BY <1>1 DEF BufferType
<1> QED BY <1>4, <1>5 DEF BufferHeld

\* acknowledge evicts lawfully, and does nothing when it tells nothing new.
LEMMA AcknowledgeHeld ==
  ASSUME NEW L, NEW buf \in BufferType(L), NEW low, BufferHeld(L, buf, low), NEW l \in Nat
  PROVE  /\ l <= buf.acked => Acknowledge(buf, l) = buf
         /\ BufferHeld(L, Acknowledge(buf, l), Lower(low, Acknowledge(buf, l).budgets))
<1> DEFINE others == Unacknowledged(buf.stored, l)
           after == Acknowledge(buf, l)
           lower == Lower(low, after.budgets)
<1>1. Held(L, buf.stored, buf.budgets, buf.acked, low)
  BY DEF BufferHeld
<1>2. buf.acked \in Nat /\ buf.lowered.through \in Nat /\ buf.budgets \in [DataKinds -> Nat]
      /\ buf.lowered.budgets \in [DataKinds -> Nat]
  BY DEF BufferType
<1>3. low \in [DataKinds -> Nat]
  BY <1>1 DEF Held
<1>4. l <= buf.acked => after = buf
  BY DEF Acknowledge
<1>5. others \subseteq buf.stored /\ \A e \in buf.stored \ others : e.seq <= l
  <2>1. \A e \in buf.stored : e.seq \in Nat
    BY <1>1 DEF Held
  <2> QED BY <2>1 DEF Unacknowledged
<1>6. CASE l <= buf.acked
  <2>1. lower \in [DataKinds -> Nat] /\ \A k \in DataKinds : lower[k] <= low[k]
    BY <1>2, <1>3, <1>4, <1>6, LowerType, LowerIsBelow
  <2> HIDE DEF lower
  <2>2. buf.acked <= buf.acked /\ \A e \in buf.stored \ buf.stored : e.seq <= buf.acked
    BY <1>2
  <2>3. Held(L, buf.stored, buf.budgets, buf.acked, lower)
    BY <1>1, <1>2, <2>1, <2>2, HeldLeft
  <2>4. BufferHeld(L, after, lower)
    BY <1>4, <1>6, <2>3 DEF BufferHeld
  <2> QED BY <1>4, <2>4 DEF lower
<1>7. CASE l > buf.acked /\ buf.lowered.through > 0 /\ l >= buf.lowered.through
  <2> DEFINE d == buf.lowered.budgets
             st == Trim(others, d)
  <2>1. after = [buf EXCEPT !.acked = l, !.lowered = NoLowered, !.budgets = d, !.stored = st]
    BY <1>2, <1>7 DEF Acknowledge
  <2>2. after.acked = l /\ after.budgets = d /\ after.stored = st
    <3> HIDE DEF d, st, after
    <3> QED BY <2>1 DEF BufferType
  <2>3. /\ lower \in [DataKinds -> Nat]
        /\ \A k \in DataKinds : lower[k] <= low[k] /\ lower[k] <= d[k]
    BY <1>2, <1>3, <2>2, LowerType, LowerIsBelow
  <2>4. buf.acked <= l /\ d \in [DataKinds -> Nat]
    BY <1>2, <1>7
  <2> HIDE DEF lower, after, others, d
  <2>5. Held(L, st, d, l, lower)
    BY <1>1, <1>5, <2>3, <2>4, HeldTrimmed
  <2>6. BufferHeld(L, after, lower)
    BY <2>2, <2>5 DEF BufferHeld
  <2> QED BY <1>4, <2>6 DEF lower, after
<1>8. CASE l > buf.acked /\ ~(buf.lowered.through > 0 /\ l >= buf.lowered.through)
  <2>1. after = [buf EXCEPT !.acked = l, !.stored = others]
    BY <1>2, <1>8 DEF Acknowledge
  <2>2. after.acked = l /\ after.budgets = buf.budgets /\ after.stored = others
    <3> HIDE DEF others, after
    <3> QED BY <2>1 DEF BufferType
  <2>3. lower \in [DataKinds -> Nat] /\ \A k \in DataKinds : lower[k] <= low[k]
    BY <1>2, <1>3, <2>2, LowerType, LowerIsBelow
  <2>4. buf.acked <= l
    BY <1>2, <1>8
  <2> HIDE DEF lower, after, others
  <2>5. Held(L, others, buf.budgets, l, lower)
    BY <1>1, <1>5, <2>3, <2>4, HeldLeft
  <2>6. BufferHeld(L, after, lower)
    BY <2>2, <2>5 DEF BufferHeld
  <2> QED BY <1>4, <2>6 DEF lower, after
<1> QED BY <1>2, <1>6, <1>7, <1>8

\* setLimits evicts lawfully, and nothing while a seq is unacknowledged.
LEMMA SetLimitsHeld ==
  ASSUME NEW L, NEW buf \in BufferType(L), NEW low, BufferHeld(L, buf, low),
         NEW new \in [DataKinds -> Nat]
  PROVE  /\ buf.acked < buf.issued => SetLimits(buf, new).stored = buf.stored
         /\ BufferHeld(L, SetLimits(buf, new), Lower(low, SetLimits(buf, new).budgets))
<1> DEFINE unack == buf.acked < buf.issued
           now == [k \in DataKinds |->
                     IF unack /\ new[k] < buf.budgets[k] THEN buf.budgets[k] ELSE new[k]]
           wait == IF ~(now # new) THEN NoLowered
                   ELSE [through |-> IF buf.lowered.through > 0 THEN buf.lowered.through
                                     ELSE buf.issued,
                         budgets |-> new]
           st == Trim(buf.stored, now)
           after == SetLimits(buf, new)
           lower == Lower(low, after.budgets)
<1>1. after = [buf EXCEPT !.budgets = now, !.stored = st, !.lowered = wait]
  BY DEF SetLimits, BufferType
<1>2. buf.budgets \in [DataKinds -> Nat] /\ buf.acked \in Nat
  BY DEF BufferType
<1>3. now \in [DataKinds -> Nat] /\ (unack => \A k \in DataKinds : buf.budgets[k] <= now[k])
  BY <1>2
<1>4. Held(L, buf.stored, buf.budgets, buf.acked, low)
  BY DEF BufferHeld
<1>5. after.budgets = now /\ after.stored = st /\ after.acked = buf.acked
  <2> HIDE DEF now, st, wait, after
  <2> QED BY <1>1 DEF BufferType
<1>6. low \in [DataKinds -> Nat] /\ Weighed(buf.stored) /\ Kept(buf.stored, buf.budgets)
  BY <1>4, FS_Subset DEF Held, Weighed
<1>7. /\ lower \in [DataKinds -> Nat]
      /\ \A k \in DataKinds : lower[k] <= low[k] /\ lower[k] <= now[k]
  BY <1>3, <1>5, <1>6, LowerType, LowerIsBelow
<1> HIDE DEF now, after, lower, wait
<1>8. buf.acked <= buf.acked /\ \A e \in buf.stored \ buf.stored : e.seq <= buf.acked
  BY <1>2
<1>9. Held(L, st, now, buf.acked, lower)
  BY <1>2, <1>3, <1>4, <1>7, <1>8, HeldTrimmed
<1>10. BufferHeld(L, after, lower)
  BY <1>5, <1>9 DEF BufferHeld
<1>11. unack => after.stored = buf.stored
  BY <1>2, <1>3, <1>5, <1>6, HigherEvictsNothing
<1> QED BY <1>10, <1>11 DEF lower, after

-----------------------------------------------------------------------------
\* Every step evicts lawfully.

\* A new record evicted nothing.
LEMMA EvictInit == Init => EvictInv
<1> SUFFICES ASSUME Init PROVE EvictInv
  OBVIOUS
<1>1. limits \in [DataKinds -> Nat] /\ lowest = limits /\ log = {}
  BY ReplayedSendsAssumption DEF Init
<1>2. rb.stored = {} /\ rb.acked = 0 /\ rb.budgets = limits
  BY DEF Init, NewBuffer
<1>3. Weighed(log)
  BY <1>1, FS_EmptySet DEF Weighed
<1>4. Held(log, {}, limits, 0, lowest)
  BY <1>1, <1>3 DEF Held, Kept, Lost
<1> QED BY <1>2, <1>4 DEF EvictInv, BufferHeld

\* Whatever the step, what was evicted outgrew its budget, and nothing else went.
LEMMA EvictStep == IInv /\ EvictInv /\ [Next]_vars => EvictInv' /\ NoneEvicted
<1> SUFFICES ASSUME IInv, EvictInv, [Next]_vars PROVE EvictInv' /\ NoneEvicted
  OBVIOUS
<1>1. rb \in BufferType(log) /\ log \subseteq Entry /\ lowest \in [DataKinds -> Nat]
  BY TypeIsBufferType DEF IInv, TypeOK
<1>2. BufferHeld(log, rb, lowest)
  BY DEF EvictInv
<1>3. rb.acked \in Nat /\ rb.issued \in Nat /\ rb.pushed \in Nat /\ rb.stored \subseteq log
  BY <1>1 DEF BufferType
<1>4. \A e \in log : e.seq \in Nat /\ e.seq <= rb.pushed
  BY <1>1 DEF Entry, IInv, LogInv
<1>5. rb.pushed <= rb.issued
  BY DEF IInv, LogInv
<1>6. ASSUME rb'.stored = rb.stored PROVE NoneEvicted
  BY <1>6 DEF NoneEvicted, Unacknowledged
<1>7. ASSUME NEW kind \in Kinds, NEW bytes \in Sizes, Send(kind, bytes)
      PROVE  EvictInv' /\ NoneEvicted
  <2>1. rb' = [rb EXCEPT !.issued = rb.issued + 1] /\ log' = log /\ lowest' = lowest
    BY <1>1, <1>7, NextSeqType DEF Send
  <2>2. rb'.stored = rb.stored /\ rb'.budgets = rb.budgets /\ rb'.acked = rb.acked
    BY <1>1, <2>1 DEF BufferType
  <2> QED BY <1>2, <1>6, <2>1, <2>2 DEF EvictInv, BufferHeld
<1>8. CASE TakeNext
  <2> DEFINE e == Head(queued)
  <2>1. queued \in Seq(Entry) /\ queued # <<>>
    BY <1>8 DEF IInv, TypeOK, TakeNext
  <2>2. e \in Entry /\ e = queued[1] /\ 1 \in 1 .. Len(queued)
    BY <2>1
  <2>3. e.seq \in Nat /\ e.bytes \in Nat
    BY <2>2, ReplayedSendsAssumption DEF Entry
  <2>4. e.seq = rb.pushed + 1
    BY <1>8, <2>2 DEF IInv, QueueInv, TakeNext
  <2> HIDE DEF e
  <2>5. rb' = Push(rb, e) /\ log' = log \cup {e} /\ lowest' = lowest
    BY <1>8 DEF TakeNext, e
  <2>6. EvictInv'
    BY <1>1, <1>2, <2>3, <2>5, PushHeld DEF EvictInv
  <2>7. rb'.pushed = e.seq
    BY <1>1, <2>3, <2>5, PushType
  <2>8. rb'.pushed # rb.pushed
    BY <1>3, <2>4, <2>7
  <2> QED BY <2>6, <2>8 DEF NoneEvicted
<1>9. ASSUME NEW l \in 1 .. MaxSeq + 1, PeerAcknowledges(l) PROVE EvictInv' /\ NoneEvicted
  <2>1. l \in Nat
    BY ReplayedSendsAssumption
  <2>2. rb' = Acknowledge(rb, l) /\ log' = log /\ lowest' = Lower(lowest, rb'.budgets)
    BY <1>9 DEF PeerAcknowledges
  <2>3. EvictInv'
    BY <1>1, <1>2, <2>1, <2>2, AcknowledgeHeld DEF EvictInv
  <2>4. rb'.acked = IF l <= rb.acked THEN rb.acked ELSE l
    BY <1>1, <2>1, <2>2, AcknowledgeType
  <2>5. CASE l <= rb.acked
    <3>1. rb' = rb
      BY <1>1, <1>2, <2>1, <2>2, <2>5, AcknowledgeHeld
    <3> QED BY <1>6, <2>3, <3>1
  <2>6. CASE ~(l <= rb.acked)
    <3>1. rb'.acked # rb.acked
      BY <1>3, <2>1, <2>4, <2>6
    <3> QED BY <2>3, <3>1 DEF NoneEvicted
  <2> QED BY <2>5, <2>6
<1>10. ASSUME NEW new \in Limits, ChangeLimits(new) PROVE EvictInv' /\ NoneEvicted
  <2>1. new \in [DataKinds -> Nat]
    BY ReplayedSendsAssumption
  <2>2. rb' = SetLimits(rb, new) /\ log' = log /\ lowest' = Lower(lowest, rb'.budgets)
    BY <1>10 DEF ChangeLimits
  <2>3. EvictInv'
    BY <1>1, <1>2, <2>1, <2>2, SetLimitsHeld DEF EvictInv
  <2>4. CASE rb.acked < rb.issued
    <3>1. rb'.stored = rb.stored
      BY <1>1, <1>2, <2>1, <2>2, <2>4, SetLimitsHeld
    <3> QED BY <1>6, <2>3, <3>1
  <2>5. CASE ~(rb.acked < rb.issued)
    <3>1. \A e \in rb.stored : ~(e.seq > rb.acked)
      BY <1>3, <1>4, <1>5, <2>5
    <3> QED BY <2>3, <3>1 DEF NoneEvicted, Unacknowledged
  <2> QED BY <2>4, <2>5
<1>11. ASSUME NEW l \in 0 .. MaxSeq, LoseChannel(l) PROVE EvictInv' /\ NoneEvicted
  <2> DEFINE mid == Acknowledge(rb, l)
  <2>1. l \in Nat
    BY ReplayedSendsAssumption
  <2>2. rb' = NextSeq(mid) /\ log' = log /\ lowest' = Lower(lowest, rb'.budgets)
    BY <1>11 DEF LoseChannel
  <2>3. mid \in BufferType(log) /\ mid.acked = IF l <= rb.acked THEN rb.acked ELSE l
    BY <1>1, <2>1, AcknowledgeType
  <2>4. (l <= rb.acked => mid = rb) /\ BufferHeld(log, mid, Lower(lowest, mid.budgets))
    BY <1>1, <1>2, <2>1, AcknowledgeHeld
  <2> HIDE DEF mid
  <2>5. rb' = [mid EXCEPT !.issued = mid.issued + 1]
    BY <2>2, <2>3, NextSeqType
  <2>6. rb'.stored = mid.stored /\ rb'.budgets = mid.budgets /\ rb'.acked = mid.acked
    BY <2>3, <2>5 DEF BufferType
  <2>7. EvictInv'
    BY <2>2, <2>4, <2>6 DEF EvictInv, BufferHeld
  <2>8. CASE l <= rb.acked
    BY <1>6, <2>4, <2>6, <2>7, <2>8
  <2>9. CASE ~(l <= rb.acked)
    <3>1. rb'.acked # rb.acked
      BY <1>3, <2>1, <2>3, <2>6, <2>9
    <3> QED BY <2>7, <3>1 DEF NoneEvicted
  <2> QED BY <2>8, <2>9
<1>12. CASE Dispose
  <2>1. rb' = NewBuffer(rb.budgets) /\ log' = {} /\ lowest' = lowest /\ status' = "disposed"
    BY <1>12 DEF Dispose, Disposed
  <2>2. rb'.stored = {} /\ rb'.acked = 0 /\ rb'.budgets = rb.budgets
    BY <2>1 DEF NewBuffer
  <2>3. Weighed({})
    BY FS_EmptySet DEF Weighed
  <2>4. Held({}, {}, rb.budgets, 0, lowest)
    BY <1>2, <2>3 DEF BufferHeld, Held, Kept, Lost
  <2>5. EvictInv'
    BY <2>1, <2>2, <2>4 DEF EvictInv, BufferHeld
  <2> QED BY <2>1, <2>5 DEF NoneEvicted
<1>13. CASE UNCHANGED vars
  <2>1. rb' = rb /\ log' = log /\ lowest' = lowest
    BY <1>13 DEF vars
  <2> QED BY <1>2, <1>6, <2>1 DEF EvictInv
<1> QED BY <1>7, <1>8, <1>9, <1>10, <1>11, <1>12, <1>13 DEF Next

\* For every set of sizes and limits: what is gone of the frames the peer lacks had outgrown
\* the lowest budget there was, and only a push or an acknowledgement evicts one
\* (ReplayQueue.push, trim, setLimits, acknowledge).
THEOREM EvictionLawful == Spec => EvictionIsLawful
<1>1. Init => IInv /\ EvictInv
  BY InitHolds, EvictInit
<1>2. IInv /\ EvictInv /\ [Next]_vars => (IInv /\ EvictInv)' /\ NoneEvicted
  BY NextPreserves, EvictStep
<1>3. EvictInv => OnlyOutgrownFramesAreLost
  BY DEF EvictInv, BufferHeld, Held, Lost, OnlyOutgrownFramesAreLost
<1>4. EvictInv' => OnlyOutgrownFramesAreLost'
  BY <1>3, PTL
<1>5. IInv /\ EvictInv /\ [Next]_vars
        => [/\ OnlyOutgrownFramesAreLost'
            /\ rb'.acked = rb.acked /\ rb'.pushed = rb.pushed /\ status' # "disposed"
                 => Unacknowledged(rb.stored, rb.acked) \subseteq rb'.stored]_vars
  BY <1>2, <1>4 DEF NoneEvicted
<1> QED BY <1>1, <1>2, <1>5, PTL DEF Spec, EvictionIsLawful

-----------------------------------------------------------------------------
(***************************************************************************)
(* CreditFlow, for any senders, windows and modulus, and whatever limits   *)
(* arrive: a send that waits while credit is left has a turn coming, and   *)
(* no send waits that the queue forgot.                                    *)
(***************************************************************************)

(* The turns *)

Senders == Tasks \cup {Loose}
Fields ==
    {"sent", "messages", "limit", "msgLimit", "raised", "waiters", "released", "releases", "passing",
     "shut"}

\* A credit's fields.  The limits are whatever the wire brought: no turn depends on what they are.
Shape(c) ==
    /\ DOMAIN c = Fields /\ c = [x \in Fields |-> c[x]]
    /\ c.sent \in Int /\ c.waiters \in Seq(Senders)
    /\ c.raised \in BOOLEAN /\ c.released \in BOOLEAN /\ c.shut \in BOOLEAN

\* A turn was handed out where a send waits with credit left.
TurnHeld(c) == c.waiters # <<>> /\ ~IsOutOfCredit(c) /\ ~c.shut => c.released

\* Until a limit arrived, the limit is one of those assumed, and fitting it only lowers it.
Assumed(c) ==
    ~c.raised => c.limit \in {plan.base + InitialBytes, plan.base + Low(InitialBytes, plan.window)}

\* The queue is empty once the channel ended.
Settled(c) == c.shut => c.waiters = <<>>

Good(c) == Shape(c) /\ TurnHeld(c) /\ Assumed(c) /\ Settled(c)

\* The inductive invariant.
TurnInv ==
    /\ plan \in Plans /\ task \in [Tasks -> {"ready", "waiting", "done"}]
    /\ Good(sc) /\ WaitersWait

-----------------------------------------------------------------------------
(* Queues *)

\* A queue with an element more holds that element too.
LEMMA ToSetAppend ==
    ASSUME NEW S, NEW q \in Seq(S), NEW x \in S
    PROVE  ToSet(Append(q, x)) = ToSet(q) \cup {x} /\ Append(q, x) \in Seq(S)
<1>1. /\ Append(q, x) \in Seq(S) /\ Len(q) \in Nat /\ DOMAIN q = 1 .. Len(q)
      /\ DOMAIN Append(q, x) = 1 .. Len(q) + 1 /\ Append(q, x)[Len(q) + 1] = x
      /\ \A i \in 1 .. Len(q) : Append(q, x)[i] = q[i]
  BY AppendProperties, LenProperties
<1>2. ASSUME NEW y \in ToSet(Append(q, x)) PROVE y \in ToSet(q) \cup {x}
  <2>1. PICK i \in 1 .. Len(q) + 1 : y = Append(q, x)[i]
    BY <1>1, <1>2 DEF ToSet
  <2>2. i \in 1 .. Len(q) \/ i = Len(q) + 1
    BY <1>1
  <2> QED BY <1>1, <2>1, <2>2 DEF ToSet
<1>3. ASSUME NEW y \in ToSet(q) \cup {x} PROVE y \in ToSet(Append(q, x))
  <2>1. CASE y = x
    <3>1. Len(q) + 1 \in 1 .. Len(q) + 1
      BY <1>1
    <3> QED BY <1>1, <2>1, <3>1 DEF ToSet
  <2>2. CASE y \in ToSet(q)
    <3>1. PICK i \in 1 .. Len(q) : y = q[i]
      BY <1>1, <2>2 DEF ToSet
    <3>2. i \in 1 .. Len(q) + 1
      BY <1>1
    <3> QED BY <1>1, <3>1, <3>2 DEF ToSet
  <2> QED BY <1>3, <2>1, <2>2
<1> QED BY <1>1, <1>2, <1>3

\* The rest of a queue holds nothing new.
LEMMA ToSetTail ==
    ASSUME NEW S, NEW q \in Seq(S), q # <<>>
    PROVE  ToSet(Tail(q)) \subseteq ToSet(q) /\ Tail(q) \in Seq(S)
<1>1. /\ Tail(q) \in Seq(S) /\ Len(q) \in Nat \ {0} /\ DOMAIN q = 1 .. Len(q) /\ Len(Tail(q)) = Len(q) - 1
      /\ \A i \in 1 .. Len(Tail(q)) : Tail(q)[i] = q[i + 1]
  BY HeadTailProperties, LenProperties, EmptySeq
<1>2. DOMAIN Tail(q) = 1 .. Len(q) - 1
  BY <1>1, LenProperties
<1>3. ASSUME NEW y \in ToSet(Tail(q)) PROVE y \in ToSet(q)
  <2>1. PICK i \in 1 .. Len(q) - 1 : y = Tail(q)[i]
    BY <1>2, <1>3 DEF ToSet
  <2>2. i + 1 \in 1 .. Len(q) /\ i \in 1 .. Len(Tail(q))
    BY <1>1
  <2> QED BY <1>1, <2>1, <2>2 DEF ToSet
<1> QED BY <1>1, <1>3

-----------------------------------------------------------------------------
(* The operators of a credit: what each makes of a good one *)

\* Only the oldest waiter's turn comes: nobody joins, and a turn is out if anyone waited.
LEMMA ReleaseOneKeeps ==
    ASSUME NEW c, Shape(c), Assumed(c), Settled(c)
    PROVE  LET d == ReleaseOne(c)
           IN  /\ Good(d) /\ ToSet(d.waiters) \subseteq ToSet(c.waiters)
               /\ d.limit = c.limit /\ d.shut = c.shut /\ d.sent = c.sent /\ d.raised = c.raised
<1>1. CASE c.waiters = <<>>
  BY <1>1 DEF ReleaseOne, Good, TurnHeld
<1>2. CASE c.waiters # <<>>
  <2> DEFINE d == ReleaseOne(c)
  <2>1. Tail(c.waiters) \in Seq(Senders) /\ ToSet(Tail(c.waiters)) \subseteq ToSet(c.waiters)
    BY <1>2, ToSetTail DEF Shape
  <2>2. /\ DOMAIN d = Fields /\ d = [x \in Fields |-> d[x]] /\ d.waiters = Tail(c.waiters)
        /\ d.released = TRUE /\ d.limit = c.limit /\ d.shut = c.shut /\ d.sent = c.sent
        /\ d.raised = c.raised
    BY <1>2 DEF ReleaseOne, Shape, Fields
  <2>3. ~c.shut
    BY <1>2 DEF Settled
  <2> HIDE DEF d
  <2>4. Shape(d) /\ TurnHeld(d) /\ Assumed(d) /\ Settled(d)
    BY <2>1, <2>2, <2>3 DEF Shape, TurnHeld, Assumed, Settled
  <2> QED BY <2>1, <2>2, <2>4 DEF Good, d
<1> QED BY <1>1, <1>2

\* Waking the first waiter, where a limit has room, leaves the turns in order and adds no waiter.
LEMMA TryWakeKeeps ==
    ASSUME NEW c, Shape(c), Assumed(c)
    PROVE  Good(TryWake(c)) /\ ToSet(TryWake(c).waiters) \subseteq ToSet(c.waiters)
<1>1. CASE c.shut
  <2> DEFINE d == [c EXCEPT !.waiters = <<>>]
  <2>1. /\ DOMAIN d = Fields /\ d = [x \in Fields |-> d[x]] /\ d.waiters = <<>>
        /\ d.released = c.released /\ d.limit = c.limit /\ d.shut = c.shut /\ d.sent = c.sent
        /\ d.raised = c.raised
    BY DEF Shape, Fields
  <2>2. TryWake(c) = d
    BY <1>1 DEF TryWake
  <2>3. <<>> \in Seq(Senders) /\ ToSet(<<>>) = {}
    BY DEF ToSet
  <2> HIDE DEF d
  <2>4. Shape(d) /\ TurnHeld(d) /\ Assumed(d) /\ Settled(d)
    BY <2>1, <2>3 DEF Shape, TurnHeld, Assumed, Settled
  <2> QED BY <2>1, <2>2, <2>3, <2>4 DEF Good
<1>2. CASE ~c.shut /\ (c.released \/ IsOutOfCredit(c))
  <2>1. TryWake(c) = c
    BY <1>2 DEF TryWake
  <2> QED BY <1>2, <2>1 DEF Good, TurnHeld, Settled
<1>3. CASE ~c.shut /\ ~c.released /\ ~IsOutOfCredit(c)
  <2>1. TryWake(c) = ReleaseOne(c)
    BY <1>3 DEF TryWake
  <2> QED BY <1>3, <2>1, ReleaseOneKeeps DEF Settled
<1> QED BY <1>1, <1>2, <1>3

\* The sender joins the queue or doesn't, and nobody else does.
LEMMA DecrementKeeps ==
    ASSUME NEW c, Good(c), NEW bytes \in Int, NEW who \in Senders, ~c.shut
    PROVE  LET d == Decrement(c, bytes, who)
           IN  Good(d) /\ ToSet(d.waiters) \subseteq ToSet(c.waiters) \cup {who}
<1> DEFINE counted == [c EXCEPT !.sent = @ + bytes, !.messages = @ + 1, !.released = FALSE]
           waiting == IF IsOutOfCredit(counted) THEN counted ELSE ReleaseOne(counted)
           d == [waiting EXCEPT !.waiters = Append(@, who)]
<1>1. /\ DOMAIN counted = Fields /\ counted = [x \in Fields |-> counted[x]]
      /\ counted.waiters = c.waiters /\ counted.limit = c.limit /\ counted.shut = c.shut
      /\ counted.sent = c.sent + bytes /\ counted.raised = c.raised /\ counted.released = FALSE
  BY DEF Good, Shape, Fields
<1> HIDE DEF counted
<1>2. Shape(counted) /\ Assumed(counted) /\ Settled(counted)
  <2>1. counted.sent \in Int
    <3>1. c.sent \in Int
      BY DEF Good, Shape
    <3> QED BY <1>1, <3>1
  <2>2. Assumed(counted)
    BY <1>1 DEF Good, Assumed
  <2>3. Settled(counted)
    BY <1>1 DEF Good, Settled
  <2>4. Shape(counted)
    BY <1>1, <2>1, Zenon DEF Good, Shape
  <2> QED BY <2>2, <2>3, <2>4
<1>3. CASE IsOutOfCredit(counted) \/ c.waiters # <<>>
  <2>1. /\ Shape(waiting) /\ Assumed(waiting) /\ Settled(waiting) /\ waiting.shut = c.shut
        /\ ToSet(waiting.waiters) \subseteq ToSet(c.waiters)
    <3>1. CASE IsOutOfCredit(counted)
      BY <1>1, <1>2, <3>1
    <3>2. CASE ~IsOutOfCredit(counted)
      BY <1>1, <1>2, <3>2, ReleaseOneKeeps DEF Good
    <3> QED BY <3>1, <3>2
  <2>2. IsOutOfCredit(waiting) \/ waiting.released
    <3>1. CASE IsOutOfCredit(counted)
      BY <3>1
    <3>2. CASE ~IsOutOfCredit(counted)
      <4>1. waiting = [counted EXCEPT !.waiters = Tail(@), !.released = TRUE, !.releases = @ + 1,
                           !.passing = IF Len(counted.waiters) = 1 THEN @
                                       ELSE Append(@, counted.releases + 1)]
        BY <1>1, <1>3, <3>2 DEF ReleaseOne
      <4> QED BY <1>1, <4>1 DEF Fields
    <3> QED BY <3>1, <3>2
  <2>3. Decrement(c, bytes, who) = d
    BY <1>3 DEF Decrement, counted
  <2> HIDE DEF waiting
  <2>4. /\ DOMAIN d = Fields /\ d = [x \in Fields |-> d[x]]
        /\ d.waiters = Append(waiting.waiters, who) /\ d.limit = waiting.limit
        /\ d.msgLimit = waiting.msgLimit /\ d.messages = waiting.messages /\ d.shut = waiting.shut
        /\ d.sent = waiting.sent /\ d.raised = waiting.raised /\ d.released = waiting.released
    BY <2>1 DEF Shape, Fields
  <2>5. /\ Append(waiting.waiters, who) \in Seq(Senders)
        /\ ToSet(Append(waiting.waiters, who)) = ToSet(waiting.waiters) \cup {who}
    BY <2>1, ToSetAppend DEF Shape
  <2> HIDE DEF d
  <2>6. Shape(d) /\ Assumed(d) /\ Settled(d)
    BY <2>1, <2>4, <2>5 DEF Shape, Assumed, Settled
  <2>7. TurnHeld(d)
    BY <2>2, <2>4 DEF TurnHeld, IsOutOfCredit
  <2> QED BY <2>1, <2>3, <2>4, <2>5, <2>6, <2>7 DEF Good
<1>4. CASE ~IsOutOfCredit(counted) /\ c.waiters = <<>>
  <2>1. Decrement(c, bytes, who) = counted
    BY <1>4 DEF Decrement, counted
  <2>2. TurnHeld(counted)
    BY <1>1, <1>4 DEF TurnHeld
  <2> QED BY <1>1, <1>2, <2>1, <2>2 DEF Good
<1> QED BY <1>3, <1>4

\* A window that arrives: the limit rises, and a turn may come.
LEMMA RaiseKeeps ==
    ASSUME NEW c, Good(c), NEW limit
    PROVE  \A d \in {OnPeerByteWindow(c, limit), OnPeerMessageWindow(c, limit)} :
               Good(d) /\ ToSet(d.waiters) \subseteq ToSet(c.waiters)
<1>1. ASSUME NEW raise
      PROVE  LET d == [c EXCEPT !.limit = @ + raise, !.raised = TRUE]
             IN  Shape(d) /\ Assumed(d) /\ d.waiters = c.waiters
  <2> DEFINE d == [c EXCEPT !.limit = @ + raise, !.raised = TRUE]
  <2>1. /\ DOMAIN d = Fields /\ d = [x \in Fields |-> d[x]] /\ d.waiters = c.waiters
        /\ d.released = c.released /\ d.shut = c.shut /\ d.sent = c.sent /\ d.raised = TRUE
    BY DEF Good, Shape, Fields
  <2> HIDE DEF d
  <2> QED BY <2>1 DEF Good, Shape, Assumed, d
<1>2. ASSUME NEW raise
      PROVE  LET d == [c EXCEPT !.msgLimit = @ + raise]
             IN  Shape(d) /\ Assumed(d) /\ d.waiters = c.waiters
  <2> DEFINE d == [c EXCEPT !.msgLimit = @ + raise]
  <2>1. /\ DOMAIN d = Fields /\ d = [x \in Fields |-> d[x]] /\ d.waiters = c.waiters
        /\ d.released = c.released /\ d.shut = c.shut /\ d.sent = c.sent /\ d.raised = c.raised
        /\ d.limit = c.limit
    BY DEF Good, Shape, Fields
  <2> HIDE DEF d
  <2> QED BY <2>1 DEF Good, Shape, Assumed, d
<1>3. LET d == OnPeerByteWindow(c, limit)
      IN  Good(d) /\ ToSet(d.waiters) \subseteq ToSet(c.waiters)
  <2> DEFINE raise == RaiseOf(limit, c.limit)
             r == [c EXCEPT !.limit = @ + raise, !.raised = TRUE]
  <2>1. OnPeerByteWindow(c, limit) = IF raise <= 0 THEN c ELSE TryWake(r)
    BY DEF OnPeerByteWindow
  <2>2. Good(TryWake(r)) /\ ToSet(TryWake(r).waiters) \subseteq ToSet(c.waiters)
    <3>1. Shape(r) /\ Assumed(r) /\ r.waiters = c.waiters
      BY <1>1
    <3> HIDE DEF r
    <3> QED BY <3>1, TryWakeKeeps
  <2> HIDE DEF raise, r
  <2> QED BY <2>1, <2>2
<1>4. LET d == OnPeerMessageWindow(c, limit)
      IN  Good(d) /\ ToSet(d.waiters) \subseteq ToSet(c.waiters)
  <2> DEFINE raise == RaiseOf(limit, c.msgLimit)
             r == [c EXCEPT !.msgLimit = @ + raise]
  <2>1. OnPeerMessageWindow(c, limit) = IF raise <= 0 THEN c ELSE TryWake(r)
    BY DEF OnPeerMessageWindow
  <2>2. Good(TryWake(r)) /\ ToSet(TryWake(r).waiters) \subseteq ToSet(c.waiters)
    <3>1. Shape(r) /\ Assumed(r) /\ r.waiters = c.waiters
      BY <1>2
    <3> HIDE DEF r
    <3> QED BY <3>1, TryWakeKeeps
  <2> HIDE DEF raise, r
  <2> QED BY <2>1, <2>2
<1> QED BY <1>3, <1>4

\* A turn its sender didn't take by the next macrotask goes to the next.
LEMMA PassTurnKeeps ==
    ASSUME NEW c, Good(c)
    PROVE  LET d == PassTurnOn(c) IN Good(d) /\ ToSet(d.waiters) \subseteq ToSet(c.waiters)
<1> DEFINE passed == [c EXCEPT !.passing = Tail(@)]
           freed == [passed EXCEPT !.released = FALSE]
<1>1. /\ DOMAIN passed = Fields /\ passed = [x \in Fields |-> passed[x]]
      /\ passed.waiters = c.waiters /\ passed.released = c.released /\ passed.shut = c.shut
      /\ passed.sent = c.sent /\ passed.raised = c.raised /\ passed.limit = c.limit
      /\ passed.msgLimit = c.msgLimit /\ passed.messages = c.messages
  BY DEF Good, Shape, Fields
<1>2. PassTurnOn(c) = IF c.released /\ c.releases = Head(c.passing) THEN TryWake(freed) ELSE passed
  BY DEF PassTurnOn
<1> HIDE DEF passed
<1>3. /\ DOMAIN freed = Fields /\ freed = [x \in Fields |-> freed[x]]
      /\ freed.waiters = c.waiters /\ freed.released = FALSE /\ freed.shut = c.shut
      /\ freed.sent = c.sent /\ freed.raised = c.raised /\ freed.limit = c.limit
  BY <1>1 DEF Fields
<1> HIDE DEF freed
<1>4. Shape(freed) /\ Assumed(freed)
  BY <1>3 DEF Good, Shape, Assumed
<1>5. Good(TryWake(freed)) /\ ToSet(TryWake(freed).waiters) \subseteq ToSet(c.waiters)
  BY <1>3, <1>4, TryWakeKeeps
<1>6. Good(passed)
  <2>1. Shape(passed) /\ Assumed(passed) /\ Settled(passed)
    BY <1>1 DEF Good, Shape, Assumed, Settled
  <2>2. TurnHeld(passed)
    BY <1>1 DEF Good, TurnHeld, IsOutOfCredit
  <2> QED BY <2>1, <2>2 DEF Good
<1> QED BY <1>1, <1>2, <1>5, <1>6

\* What the replay holds lowers the limit assumed, so it gives nobody credit.
LEMMA FitKeeps ==
    ASSUME plan \in Plans, NEW c, Good(c)
    PROVE  LET d == FitSender(c, plan.base, plan.window) IN Good(d) /\ d.waiters = c.waiters
<1>1. CASE c.raised
  BY <1>1 DEF FitSender
<1>2. CASE ~c.raised
  <2> DEFINE low == plan.base + Low(InitialBytes, plan.window)
             d == [c EXCEPT !.limit = low]
  <2>1. FitSender(c, plan.base, plan.window) = d
    BY <1>2 DEF FitSender
  <2>2. /\ DOMAIN d = Fields /\ d = [x \in Fields |-> d[x]] /\ d.waiters = c.waiters
        /\ d.released = c.released /\ d.shut = c.shut /\ d.sent = c.sent /\ d.raised = c.raised
        /\ d.limit = low /\ d.messages = c.messages /\ d.msgLimit = c.msgLimit
    BY DEF Good, Shape, Fields
  <2>3. /\ plan.base \in Nat /\ plan.window \in Nat /\ InitialBytes \in Nat
        /\ low \in Int /\ low <= plan.base + InitialBytes
    BY CreditAssumption DEF Low
  <2>4. c.limit \in {plan.base + InitialBytes, low}
    BY <1>2 DEF Good, Assumed
  <2>5. low <= c.limit /\ c.limit \in Int
    BY <2>3, <2>4
  <2> HIDE DEF d, low
  <2>6. Shape(d) /\ Settled(d)
    BY <2>2 DEF Good, Shape, Settled
  <2>7. Assumed(d)
    BY <2>2 DEF Assumed, low
  <2>8. IsOutOfCredit(c) => IsOutOfCredit(d)
    <3>1. c.sent \in Int
      BY DEF Good, Shape
    <3>2. c.sent >= c.limit => c.sent >= low
      BY <2>3, <2>5, <3>1
    <3> QED BY <2>2, <3>2 DEF IsOutOfCredit
  <2>9. TurnHeld(d)
    BY <2>2, <2>8 DEF Good, TurnHeld
  <2> QED BY <2>1, <2>2, <2>6, <2>7, <2>9 DEF Good
<1> QED BY <1>1, <1>2

-----------------------------------------------------------------------------
(* The steps *)

\* Whoever leaves the queue may send, and who joins it waits.
LEMMA TurnsSettle ==
    ASSUME TurnInv, plan' = plan, NEW c, Good(c), NEW waits \in SUBSET Tasks, SettleTurns(c, waits),
           \A t \in Tasks : t \in ToSet(c.waiters) =>
               t \in waits \/ t \in ToSet(sc.waiters),
           \A t \in waits : t \in ToSet(c.waiters)
    PROVE  TurnInv'
<1>1. /\ sc' = c
      /\ task' = [t \in Tasks |-> IF t \in waits THEN "waiting"
                                  ELSE IF t \in Woken(sc, c) THEN "ready" ELSE task[t]]
  BY DEF SettleTurns
<1>2. task' \in [Tasks -> {"ready", "waiting", "done"}]
  BY <1>1 DEF TurnInv
<1>3. Good(sc)'
  <2>1. Good(sc)' <=> Good(c)
    BY <1>1 DEF Good, Shape, TurnHeld, Assumed, Settled, IsOutOfCredit
  <2> QED BY <2>1
<1>4. WaitersWait'
  <2>1. SUFFICES ASSUME NEW t \in Tasks PROVE task'[t] = "waiting" <=> t \in ToSet(c.waiters)
    BY <1>1 DEF WaitersWait
  <2>2. task[t] = "waiting" <=> t \in ToSet(sc.waiters)
    BY DEF TurnInv, WaitersWait
  <2>3. CASE t \in waits
    BY <1>1, <2>3
  <2>4. CASE t \notin waits /\ t \in Woken(sc, c)
    BY <1>1, <2>4 DEF Woken
  <2>5. CASE t \notin waits /\ t \notin Woken(sc, c)
    BY <1>1, <2>2, <2>5 DEF Woken
  <2> QED BY <2>3, <2>4, <2>5
<1> QED BY <1>2, <1>3, <1>4 DEF TurnInv

\* A send that waits for its turn keeps the turns: its task waits exactly while it is queued.
LEMMA CreditSendStep ==
    ASSUME TurnInv, NEW t \in Tasks, NEW bytes \in MessageSizes, SendOnCredit(t, bytes)
    PROVE  TurnInv'
<1> DEFINE c == Decrement(sc, bytes, t)
           waits == IF t \in ToSet(c.waiters) THEN {t} ELSE {}
<1>1. /\ SettleTurns(c, waits) /\ plan' = plan /\ ~sc.shut
  BY DEF SendOnCredit, CanSend
<1>2. Good(sc) /\ bytes \in Int /\ t \in Senders
  BY CreditAssumption DEF TurnInv, Senders
<1>3. Good(c) /\ ToSet(c.waiters) \subseteq ToSet(sc.waiters) \cup {t}
  BY <1>1, <1>2, DecrementKeeps
<1>4. waits \in SUBSET Tasks /\ (\A u \in waits : u \in ToSet(c.waiters))
      /\ \A u \in Tasks : u \in ToSet(c.waiters) => u \in waits \/ u \in ToSet(sc.waiters)
  BY <1>3
<1> HIDE DEF c, waits
<1> QED BY <1>1, <1>3, <1>4, TurnsSettle

\* A send nobody waits on keeps the turns.
LEMMA LooseStep ==
    ASSUME TurnInv, NEW bytes \in MessageSizes, SendLoose(bytes)
    PROVE  TurnInv'
<1> DEFINE c == Decrement(sc, bytes, Loose)
<1>1. SettleTurns(c, {}) /\ plan' = plan /\ ~sc.shut
  BY DEF SendLoose, CanSend
<1>2. Good(sc) /\ bytes \in Int /\ Loose \in Senders /\ Loose \notin Tasks
  BY CreditAssumption DEF TurnInv, Senders
<1>3. Good(c) /\ ToSet(c.waiters) \subseteq ToSet(sc.waiters) \cup {Loose}
  BY <1>1, <1>2, DecrementKeeps
<1>4. \A u \in Tasks : u \in ToSet(c.waiters) => u \in ToSet(sc.waiters)
  BY <1>2, <1>3
<1> HIDE DEF c
<1> QED BY <1>1, <1>3, <1>4, TurnsSettle

\* A limit the peer sends keeps the turns, whatever it is: SendCredit only asks which room there is.
LEMMA LimitStep ==
    ASSUME TurnInv, TakeLimit
    PROVE  TurnInv'
<1> DEFINE limit == Head(grants)
           c == CASE limit.kind = "WINDOW"     -> OnPeerByteWindow(sc, limit.limit)
                  [] limit.kind = "MSG_WINDOW" -> OnPeerMessageWindow(sc, limit.limit)
                  [] OTHER                     -> sc
<1>1. SettleTurns(c, {}) /\ plan' = plan
  BY DEF TakeLimit
<1>2. Good(sc)
  BY DEF TurnInv
<1>3. Good(c) /\ ToSet(c.waiters) \subseteq ToSet(sc.waiters)
  <2>1. c \in {OnPeerByteWindow(sc, limit.limit), OnPeerMessageWindow(sc, limit.limit), sc}
    BY DEF limit
  <2> HIDE DEF limit, c
  <2> QED BY <1>2, <2>1, RaiseKeeps
<1> HIDE DEF c
<1> QED BY <1>1, <1>3, TurnsSettle

\* The turn that is passed on keeps the turns.
LEMMA PassStep ==
    ASSUME TurnInv, PassTurn
    PROVE  TurnInv'
<1>1. SettleTurns(PassTurnOn(sc), {}) /\ plan' = plan /\ Good(sc)
  BY DEF PassTurn, TurnInv
<1>2. Good(PassTurnOn(sc)) /\ ToSet(PassTurnOn(sc).waiters) \subseteq ToSet(sc.waiters)
  BY <1>1, PassTurnKeeps
<1> QED BY <1>1, <1>2, TurnsSettle

\* A shutdown lets every waiter go, and none waits after it.
LEMMA ShutdownStep ==
    ASSUME TurnInv, Shutdown
    PROVE  TurnInv'
<1> DEFINE d == [sc EXCEPT !.shut = TRUE]
<1>1. sc' = TryWake(d) /\ task' = [t \in Tasks |-> "done"] /\ plan' = plan
  BY DEF Shutdown
<1>2. /\ DOMAIN d = Fields /\ d = [x \in Fields |-> d[x]] /\ d.waiters = sc.waiters
      /\ d.released = sc.released /\ d.shut = TRUE /\ d.sent = sc.sent /\ d.raised = sc.raised
      /\ d.limit = sc.limit
  BY DEF TurnInv, Good, Shape, Fields
<1>3. Shape(d) /\ Assumed(d)
  <2> HIDE DEF d
  <2> QED BY <1>2 DEF TurnInv, Good, Shape, Assumed
<1> HIDE DEF d
<1>4. Good(TryWake(d)) /\ TryWake(d).waiters = <<>>
  <2>1. TryWake(d) = [d EXCEPT !.waiters = <<>>]
    BY <1>2 DEF TryWake
  <2>2. [d EXCEPT !.waiters = <<>>].waiters = <<>>
    BY <1>2 DEF Fields
  <2> QED BY <1>3, <2>1, <2>2, TryWakeKeeps
<1>5. Good(sc)'
  <2>1. Good(sc)' <=> Good(TryWake(d))
    BY <1>1 DEF Good, Shape, TurnHeld, Assumed, Settled, IsOutOfCredit
  <2> QED BY <1>4, <2>1
<1>6. WaitersWait'
  BY <1>1, <1>4 DEF WaitersWait, ToSet
<1> QED BY <1>1, <1>5, <1>6 DEF TurnInv

\* An attachment refits the limits and moves no waiter.
LEMMA AttachStep ==
    ASSUME TurnInv, NEW batched \in BOOLEAN, Attach(batched)
    PROVE  TurnInv'
<1> DEFINE c == IF plan.pageSends THEN FitSender(sc, plan.base, plan.window) ELSE sc
<1>1. sc' = c /\ task' = task /\ plan' = plan
  BY DEF Attach
<1>2. Good(c) /\ c.waiters = sc.waiters
  BY FitKeeps DEF TurnInv
<1> HIDE DEF c
<1>3. Good(sc)' <=> Good(c)
  BY <1>1 DEF Good, Shape, TurnHeld, Assumed, Settled, IsOutOfCredit
<1>4. WaitersWait'
  BY <1>1, <1>2 DEF TurnInv, WaitersWait
<1> QED BY <1>1, <1>2, <1>3, <1>4 DEF TurnInv

\* A step that leaves the credit alone lets at most a task that waits for nothing stop.
LEMMA OtherSteps ==
    ASSUME TurnInv, sc' = sc, plan' = plan,
           task' = task \/ \E t \in Tasks : task[t] = "ready" /\ task' = [task EXCEPT ![t] = "done"]
    PROVE  TurnInv'
<1>1. Good(sc)' <=> Good(sc)
  BY DEF Good, Shape, TurnHeld, Assumed, Settled, IsOutOfCredit
<1>2. task' \in [Tasks -> {"ready", "waiting", "done"}]
  BY DEF TurnInv
<1>3. WaitersWait'
  BY DEF TurnInv, WaitersWait
<1> QED BY <1>1, <1>2, <1>3 DEF TurnInv

\* A credit starts with no waiter and no turn given.
LEMMA TurnsStart ==
    ASSUME CreditInit
    PROVE  TurnInv
<1> DEFINE c == NewSendCredit(plan.base)
           window == IF plan.pageSends THEN InitialBytes ELSE plan.window
<1>1. /\ plan \in Plans /\ sc = FitSender(c, plan.base, window)
      /\ task = [t \in Tasks |-> "ready"]
  BY DEF CreditInit
<1>2. /\ DOMAIN c = Fields /\ c = [x \in Fields |-> c[x]] /\ c.waiters = <<>>
      /\ c.sent = plan.base /\ c.raised = FALSE /\ c.released = FALSE /\ c.shut = FALSE
  BY DEF NewSendCredit, Fields
<1>3. sc = [c EXCEPT !.limit = plan.base + Low(InitialBytes, window)]
  BY <1>1, <1>2 DEF FitSender
<1> HIDE DEF c
<1>4. /\ DOMAIN sc = Fields /\ sc = [x \in Fields |-> sc[x]] /\ sc.waiters = <<>>
      /\ sc.sent = plan.base /\ sc.raised = FALSE /\ sc.released = FALSE /\ sc.shut = FALSE
      /\ sc.limit = plan.base + Low(InitialBytes, window)
  BY <1>2, <1>3 DEF Fields
<1>5. plan.base \in Int /\ <<>> \in Seq(Senders)
  BY <1>1, CreditAssumption
<1>6. Shape(sc) /\ TurnHeld(sc) /\ Settled(sc)
  BY <1>4, <1>5 DEF Shape, TurnHeld, Settled
<1>7. Assumed(sc)
  <2>1. Low(InitialBytes, InitialBytes) = InitialBytes
    BY DEF Low
  <2> QED BY <1>4, <2>1 DEF Assumed
<1>8. WaitersWait
  BY <1>1, <1>4 DEF WaitersWait, ToSet
<1> QED BY <1>1, <1>6, <1>7, <1>8 DEF TurnInv, Good

\* Every step of a credit keeps the turns.
LEMMA TurnSteps ==
    ASSUME TurnInv, [CreditNext]_creditVars
    PROVE  TurnInv'
<1>1. CASE \E t \in Tasks, b \in MessageSizes : SendOnCredit(t, b)
  BY <1>1, CreditSendStep
<1>2. CASE \E b \in MessageSizes : SendLoose(b)
  BY <1>2, LooseStep
<1>3. CASE TakeLimit \/ PassTurn \/ Shutdown
  BY <1>3, LimitStep, PassStep, ShutdownStep
<1>4. CASE \E batched \in BOOLEAN : Attach(batched)
  BY <1>4, AttachStep
<1>5. CASE \E t \in Tasks : StopSending(t)
  <2>1. /\ sc' = sc /\ plan' = plan
        /\ \E t \in Tasks : task[t] = "ready" /\ task' = [task EXCEPT ![t] = "done"]
    BY <1>5 DEF StopSending
  <2> QED BY <2>1, OtherSteps
<1>6. CASE \/ \E b \in MessageSizes : AskAck(b) \/ Consume(b)
           \/ Answer \/ Heartbeat \/ TurnToBatch \/ Upgraded \/ Break
           \/ \E probes \in BOOLEAN : Deliver(probes)
           \/ \E bytes, messages \in BOOLEAN : ProbeAnswered(bytes, messages)
           \/ UNCHANGED creditVars
  <2>1. sc' = sc /\ plan' = plan /\ task' = task
    BY <1>6 DEF AskAck, Consume, Answer, Heartbeat, TurnToBatch, Upgraded, Break, Deliver,
                ProbeAnswered, creditVars
  <2> QED BY <2>1, OtherSteps
<1> QED BY <1>1, <1>2, <1>3, <1>4, <1>5, <1>6 DEF CreditNext

\* No turn is lost, for any senders, windows and modulus, and whatever limits arrive in whatever
\* order: a send that waits while credit is left has a turn coming, and those that wait are those
\* in the queue (SendCredit: the waiters, their turns and the macrotask that passes one on).
THEOREM TurnsKept == CreditSpec => []TurnsAreKept
<1>1. CreditInit => TurnInv
  BY TurnsStart
<1>2. TurnInv /\ [CreditNext]_creditVars => TurnInv'
  BY TurnSteps
<1>3. TurnInv => TurnsAreKept
  BY DEF TurnInv, Good, TurnHeld, TurnsAreKept, TurnIsHeld
<1> QED BY <1>1, <1>2, <1>3, PTL DEF CreditSpec
=============================================================================
