---------------------------- MODULE ReplayBuffer ----------------------------
(***************************************************************************)
(* The replay buffer of one channel end (channel/ReplayBuffer.ts): the     *)
(* sequenced frames it sent, kept until the peer acknowledges them, so a   *)
(* reconnect can send them again.  A buffer is a record                    *)
(*                                                                         *)
(*   issued, pushed, acked   the last seq handed out, stored, acknowledged *)
(*   budgets                 the byte budget of each data kind             *)
(*   lowered                 budgets that wait for an acknowledgement      *)
(*   stored                  the frames it holds, a set of entries         *)
(*                                                                         *)
(* and every method of the class is an operator from buffers to buffers.   *)
(* An entry is a record with a seq, a kind and a number of bytes (modules  *)
(* that send frames give it more fields).  The per-kind queues with their  *)
(* parallel arrays are one set: a queue is ordered by seq, and a merge of  *)
(* the queues is the order of seqs again.                                  *)
(***************************************************************************)
EXTENDS Integers, FiniteSets, FiniteSetsExt

\* REPLAY_KINDS without "closing", whose budget is Infinity.
DataKinds == {"text", "binary"}
Kinds == DataKinds \cup {"closing"}

\* `lowered === null` is the record whose `through` is 0, no seq.
NoLowered == [through |-> 0, budgets |-> [k \in DataKinds |-> 0]]

NewBuffer(budgets) ==
    [issued |-> 0, pushed |-> 0, acked |-> 0,
     budgets |-> budgets, lowered |-> NoLowered, stored |-> {}]

Bytes(S) == MapThenSumSet(LAMBDA e : e.bytes, S)

\* The entries of e's kind from e on: what is left once all older ones went.
FromOn(S, e) == {f \in S : f.kind = e.kind /\ f.seq >= e.seq}

\* Each data queue evicts its oldest entry while it is over its budget.
Trim(S, budgets) ==
    {e \in S : e.kind \in DataKinds => Bytes(FromOn(S, e)) <= budgets[e.kind]}

NextSeq(rb) == [rb EXCEPT !.issued = @ + 1]

\* A frame larger than its queue's budget is never stored, but counts as pushed.
Fits(rb, e) == e.kind \in DataKinds => e.bytes <= rb.budgets[e.kind]

\* Mutant: a frame that does not fit leaves `pushed` where it was.
PushSkipsUnfit(rb, e) ==
    IF Fits(rb, e) THEN [rb EXCEPT !.pushed = e.seq, !.stored = Trim(@ \cup {e}, rb.budgets)]
                   ELSE rb

Push(rb, e) ==
    [rb EXCEPT !.pushed = e.seq,
               !.stored = IF Fits(rb, e) THEN Trim(@ \cup {e}, rb.budgets) ELSE @]

\* Mutants: the first limits that wait stay the ones that wait; lower limits apply
\* before the peer has what was issued.
SetLimitsKeepsFirst(rb, limits) ==
    IF rb.lowered.through > 0 /\ rb.acked < rb.issued THEN rb
    ELSE [rb EXCEPT !.budgets = limits, !.stored = Trim(@, limits),
                    !.lowered = IF rb.acked < rb.issued
                                THEN [through |-> rb.issued, budgets |-> limits]
                                ELSE NoLowered]

SetLimitsAtOnce(rb, limits) ==
    [rb EXCEPT !.budgets = limits, !.stored = Trim(@, limits), !.lowered = NoLowered]

\* Budgets that apply at once: all of them, or only the higher ones while a seq
\* is unacknowledged; a lower one then waits in `lowered`.
SetLimits(rb, limits) ==
    LET unacknowledged == rb.acked < rb.issued
        now == [k \in DataKinds |->
                  IF unacknowledged /\ limits[k] < rb.budgets[k]
                  THEN rb.budgets[k] ELSE limits[k]]
        waits == now # limits
    IN  [rb EXCEPT
           !.budgets = now,
           !.stored  = Trim(@, now),
           !.lowered = IF ~waits THEN NoLowered
                       ELSE [through |-> IF @.through > 0 THEN @.through ELSE rb.issued,
                             budgets |-> limits]]

Unacknowledged(S, lastSeq) == {e \in S : e.seq > lastSeq}

Acknowledge(rb, lastSeq) ==
    LET left    == Unacknowledged(rb.stored, lastSeq)
        applies == rb.lowered.through > 0 /\ lastSeq >= rb.lowered.through
    IN  IF lastSeq <= rb.acked THEN rb
        ELSE IF applies
             THEN [rb EXCEPT !.acked = lastSeq, !.lowered = NoLowered,
                             !.budgets = rb.lowered.budgets,
                             !.stored = Trim(left, rb.lowered.budgets)]
             ELSE [rb EXCEPT !.acked = lastSeq, !.stored = left]

FramesAfter(rb, after, through) == {e \in rb.stored : after < e.seq /\ e.seq <= through}

\* Mutant: frames with a seq that still wait for the wire count as missing.
HasAfterIssued(rb, after, through) ==
    Cardinality(FramesAfter(rb, after, through))
        >= (IF through < rb.issued THEN through ELSE rb.issued) - after

HasAfter(rb, after, through) ==
    LET last == IF through < rb.pushed THEN through ELSE rb.pushed
    IN  Cardinality(FramesAfter(rb, after, through)) >= last - after

Disposed(rb) == NewBuffer(rb.budgets)
=============================================================================
