------------------------------ MODULE MessageLoop -----------------------------
(***************************************************************************)
(* A `for await` loop over a channel's or a broadcast's messages           *)
(* (channel/channelMessages.ts, iterateMessages): what arrives while its   *)
(* body runs waits in a queue, without a budget for a channel, whose       *)
(* credit a message's promise holds until the body took it, and within one *)
(* for a broadcast.  A generator's return() waits for its next(), so the   *)
(* body leaves the loop only from a message; a signal ends it any time.    *)
(***************************************************************************)
EXTENDS Integers, Sequences, FiniteSets, SequencesExt, Sums

CONSTANTS
    Loops            \* what may happen, of which a behaviour follows one: a set of records with
                     \* the messages, each with its type and size (arrivals), and the budget of
                     \* each type, or none (budget, a sequence of at most one function)

Types == {"text", "binary"}

ASSUME LoopsAssumption ==
    \A l \in Loops : /\ l.arrivals \in Seq([type : Types, size : Nat])
                     /\ l.budget \in Seq([Types -> Nat]) /\ Len(l.budget) <= 1

VARIABLES
    for,             \* which of Loops
    loop,            \* the generator
    source,          \* "open", "closed" or "failed", and whether the loop was told
    arrived,         \* the messages the source delivered so far
    got, settled     \* those the body got, in order, and those whose promise is resolved

loopVars == <<for, loop, source, arrived, got, settled>>

Over == loop.at \in {"returned", "threw", "left"}

LoopInit ==
    /\ for \in Loops
    /\ loop = [at |-> "new", queue |-> <<>>, held |-> [t \in Types |-> 0], registered |-> FALSE,
               ended |-> FALSE, error |-> "none", check |-> FALSE, body |-> 0, since |-> 0]
    /\ source = [is |-> "open", told |-> FALSE]
    /\ arrived = 0 /\ got = <<>> /\ settled = {}

\* release: every message queued is consumed.
Release(l) == [l EXCEPT !.queue = <<>>, !.held = [t \in Types |-> 0]]

\* Mutant: a clean end drops what is queued.
FinishDrops(l, err) ==
    IF l.error # "none" \/ (l.ended /\ err = "none") THEN l
    ELSE Release([l EXCEPT !.ended = TRUE, !.error = err, !.registered = FALSE])

\* Mutant: only a failure ends the loop.
FinishFailed(l, err) ==
    IF l.error # "none" \/ err = "none" THEN l
    ELSE Release([l EXCEPT !.ended = TRUE, !.error = err, !.registered = FALSE])

\* finish: the first failure stays, and drops what is queued; a clean end can't erase it.
Finish(l, err) ==
    LET done == [l EXCEPT !.ended = TRUE, !.error = err, !.registered = FALSE]
    IN  IF l.error # "none" \/ (l.ended /\ err = "none") THEN l
        ELSE IF err = "none" THEN done ELSE Release(done)

\* What left the queue, other than to the body, is settled.
Dropped(l) == ToSet(loop.queue) \ ToSet(l.queue)
Finishes(err) ==
    \E l \in {Finish(loop, err)} : loop' = l /\ settled' = settled \cup Dropped(l)

\* The first next(): the loop observes the close, and listens.
Starts ==
    /\ loop.at = "new"
    /\ loop' = [loop EXCEPT !.at = "running", !.registered = ~loop.ended, !.since = arrived]
    /\ UNCHANGED <<for, source, arrived, got, settled>>

Behind(l) == \E t \in Types : l.held[t] > for.budget[1][t]

\* receive; without listeners the message is the source's to handle.
MessageArrives ==
    LET id == arrived + 1
        m  == for.arrivals[id]
        l  == [loop EXCEPT !.queue = Append(@, id),
                           !.held[m.type] = IF for.budget = <<>> THEN @ ELSE @ + m.size]
    IN  /\ source.is = "open" /\ arrived < Len(for.arrivals) /\ arrived' = id
        /\ IF loop.registered
           THEN /\ loop' = IF for.budget # <<>> /\ Behind(l) THEN [l EXCEPT !.check = TRUE] ELSE l
                /\ UNCHANGED settled
           ELSE settled' = settled \cup {id} /\ UNCHANGED loop
        /\ UNCHANGED <<for, source, got>>

\* checkBehind, a task after the burst.
Checks ==
    /\ loop.check /\ loop.at # "new"
    /\ \E l \in {[loop EXCEPT !.check = FALSE]} :
         \E f \in {IF Behind(l) THEN Finish(l, "behind") ELSE l} :
             loop' = f /\ settled' = settled \cup Dropped(f)
    /\ UNCHANGED <<for, source, arrived, got>>

SourceEnds ==
    /\ source.is = "open" /\ \E is \in {"closed", "failed"} : source' = [source EXCEPT !.is = is]
    /\ UNCHANGED <<for, loop, arrived, got, settled>>

\* observeClose, until the loop is over.
IsTold ==
    /\ source.is # "open" /\ ~source.told /\ loop.at # "new"
    /\ source' = [source EXCEPT !.told = TRUE]
    /\ IF Over THEN UNCHANGED <<loop, settled>>
       ELSE Finishes(IF source.is = "failed" THEN "failed" ELSE "none")
    /\ UNCHANGED <<for, arrived, got>>

\* The signal aborts, before the loop starts or after.
SignalAborts ==
    /\ ~Over /\ loop.error = "none" /\ Finishes("aborted")
    /\ UNCHANGED <<for, source, arrived, got>>

\* The finally of the loop.
Leaves(l, as) ==
    /\ loop' = Release([l EXCEPT !.at = as, !.registered = FALSE, !.check = FALSE, !.body = 0])
    /\ settled' = settled \cup ToSet(l.queue) \cup ({loop.body} \ {0})

\* The next message is the body's.
TakesNext(l) ==
    LET m == for.arrivals[Head(l.queue)]
    IN  [l EXCEPT !.queue = Tail(@), !.at = "body", !.body = Head(l.queue),
                  !.held[m.type] = IF for.budget = <<>> THEN @ ELSE @ - m.size]

\* The loop goes on, from the body or woken: it throws, takes a message, returns or waits.
GoesOn ==
    /\ loop.at \in {"running", "body"}
    /\ CASE loop.error # "none" -> Leaves(loop, "threw") /\ UNCHANGED got
         [] loop.error = "none" /\ loop.queue # <<>> ->
              /\ loop' = TakesNext(loop) /\ got' = Append(got, Head(loop.queue))
              /\ settled' = settled \cup ({loop.body} \ {0})
         [] loop.error = "none" /\ loop.queue = <<>> /\ loop.ended ->
              Leaves(loop, "returned") /\ UNCHANGED got
         [] OTHER ->
              /\ loop.at = "body" /\ loop' = [loop EXCEPT !.at = "running", !.body = 0]
              /\ settled' = settled \cup {loop.body} /\ UNCHANGED got
    /\ UNCHANGED <<for, source, arrived>>

\* The body breaks out of the loop.
Breaks == loop.at = "body" /\ Leaves(loop, "left") /\ UNCHANGED <<for, source, arrived, got>>

LoopNext == Starts \/ MessageArrives \/ Checks \/ SourceEnds \/ IsTold \/ SignalAborts \/ GoesOn \/ Breaks

LoopSpec == LoopInit /\ [][LoopNext]_loopVars

-----------------------------------------------------------------------------
(* Properties                                                               *)

\* The body gets the messages that arrive from its start in order, without a gap, and one that
\* returns, its source closed cleanly, got all of them.
BodyGetsAllInOrder ==
    /\ \A i \in DOMAIN got : got[i] = loop.since + i
    /\ loop.at = "returned" => Len(got) = arrived - loop.since

\* No message keeps its source waiting: its promise is resolved once the body went on from it, or
\* the loop dropped it, and none is left when the loop is over.
NoMessageIsKept ==
    settled = (1 .. arrived) \ (ToSet(loop.queue) \cup (IF loop.at = "body" THEN {loop.body} ELSE {}))

\* What the messages of a queue hold of one type.
SizesOf(t, q) ==
    [i \in DOMAIN q |-> IF for.arrivals[q[i]].type = t THEN for.arrivals[q[i]].size ELSE 0]

\* What is held is what is queued, and a loop further behind than its budget has a check coming.
HeldIsQueued ==
    for.budget # <<>> =>
        /\ \A t \in Types : loop.held[t] = SumOf(SizesOf(t, loop.queue))
        /\ Behind(loop) => loop.check

\* The loop gives its body every message, and its source back what each one held.
MessagesAreConsumed == BodyGetsAllInOrder /\ NoMessageIsKept /\ HeldIsQueued

\* A loop whose source ended, or whose signal aborted, is over, once its body goes on.
LoopEnds == loop.at # "new" /\ (source.is # "open" \/ loop.ended) ~> Over

LoopFairness == WF_loopVars(GoesOn \/ IsTold)
LoopFairSpec == LoopSpec /\ LoopFairness
===============================================================================
