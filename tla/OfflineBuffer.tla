----------------------------- MODULE OfflineBuffer ---------------------------
(***************************************************************************)
(* What a server channel sends while no page is attached                   *)
(* (server/ServerChannelBuffer.ts): a queue of text and one of binary,     *)
(* each within a byte budget, flushed in insertion order across both.      *)
(* An entry is [id, ack, bytes, order, live]; live while its callbacks     *)
(* wait: they resolve when it is flushed and reject when it is dropped.    *)
(***************************************************************************)
EXTENDS Integers, SequencesExt, FiniteSetsExt

CONSTANTS
    BufferBudgets   \* the bytes each queue may hold

QueueKinds == {"text", "binary"}

ASSUME BudgetsAssumption == BufferBudgets \in [QueueKinds -> Nat]

EmptyBuffer ==
    [queue |-> [k \in QueueKinds |-> <<>>], dropped |-> [k \in QueueKinds |-> FALSE], next |-> 0]

QueueBytes(q) == FoldLeft(LAMBDA sum, e : sum + e.bytes, 0, q)

\* evict: the oldest entries go until the rest is within the budget.
Evict(q, budget) ==
    LET Rest(n) == SubSeq(q, n + 1, Len(q))
    IN  Rest(Min({n \in 0..Len(q) : QueueBytes(Rest(n)) <= budget}))

\* admit, append: an entry larger than the budget takes the whole queue with it.
\* An empty entry counts as 1 byte.
PushEntry(b, kind, id, ack, bytes) ==
    LET entry == [id |-> id, ack |-> ack, bytes |-> Max({bytes, 1}), order |-> b.next, live |-> TRUE]
        grown == Append(b.queue[kind], entry)
        kept  == IF entry.bytes > BufferBudgets[kind] THEN <<>> ELSE Evict(grown, BufferBudgets[kind])
    IN  [b EXCEPT !.queue[kind] = kept, !.dropped[kind] = @ \/ kept # grown, !.next = @ + 1]

\* Every entry held, of both queues.
Entries(b) == ToSet(b.queue["text"]) \cup ToSet(b.queue["binary"])

\* The ids whose callbacks wait.
StillWaiting(b) == {e.id : e \in {x \in Entries(b) : x.live}}

\* Mutant: one queue after the other.
FlushedQueueByQueue(b) == b.queue["text"] \o b.queue["binary"]

\* flush sends the first of the text left or of the binary left, whichever was pushed before the
\* other, once t of the text and u of the binary went.
TextIsNext(text, binary, t, u) ==
    /\ t < Len(text)
    /\ u < Len(binary) => text[t + 1].order < binary[u + 1].order

\* The two queues in the order flush sends them; `texts` counts the text among the first n.
Merged(text, binary) ==
    LET size == Len(text) + Len(binary)
        texts[n \in 0 .. size] ==
            IF n = 0 THEN 0
            ELSE texts[n - 1]
                 + IF TextIsNext(text, binary, texts[n - 1], n - 1 - texts[n - 1]) THEN 1 ELSE 0
    IN  [n \in 1 .. size |-> IF texts[n] = texts[n - 1] THEN binary[n - texts[n]] ELSE text[texts[n]]]

\* flush: the entries in the order it sends them.
Flushed(b) == Merged(b.queue["text"], b.queue["binary"])

\* rejectAcks: an ack request's callbacks reject, and the entry stays.
RejectAcks(b) ==
    LET Dead(e) == [e EXCEPT !.live = @ /\ ~e.ack]
    IN  [b EXCEPT !.queue = [k \in QueueKinds |-> [i \in DOMAIN @[k] |-> Dead(@[k][i])]]]
==============================================================================
