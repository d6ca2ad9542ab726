-------------------------- MODULE InMemoryBroadcast -------------------------
(***************************************************************************)
(* The broadcast adapter without a transport (broadcast/                   *)
(* broadcastAdapter.ts, DefaultBroadcastAdapter): publishes of one process *)
(* and the listeners they are delivered to, listener by listener.  A       *)
(* listener may publish, subscribe and unsubscribe; what it publishes, and *)
(* what is published in too long a chain of microtasks, waits in `queued`. *)
(*                                                                         *)
(* `turn` is the synchronous run of the code: one delivery at a time, the  *)
(* listener it called last still running.  Steps outside it are those of   *)
(* other code of the process.                                              *)
(***************************************************************************)
EXTENDS Integers, Sequences, FiniteSets, Sums

CONSTANTS
    AdapterUses      \* what may happen, of which a behaviour follows one: a set of records with
                     \* the listeners (listensTo, each with its key and kind), the sizes of
                     \* messages with what holding one costs (sizes), maxPendingBytes (budget),
                     \* the publishes delivered at once before the next ones wait (between),
                     \* whether a Cloudflare Worker runs it (worker), and the bounds on the
                     \* publishes and the subscribes and unsubscribes (publishes, toggles)

ASSUME AdapterUsesAssumption ==
    \A u \in AdapterUses :
        /\ {u.budget, u.between, u.publishes, u.toggles} \subseteq Nat /\ u.sizes \subseteq Nat \ {0}
        /\ \E s \in u.sizes : \A t \in u.sizes : t <= s
        /\ \A l \in DOMAIN u.listensTo :
              u.listensTo[l] \in [key : {u.listensTo[k].key : k \in DOMAIN u.listensTo},
                                 kind : {"text", "binary"}]
        /\ u.worker \in BOOLEAN

VARIABLES
    use,             \* which of AdapterUses
    adapter,         \* the adapter's fields
    turn,            \* the synchronous run
    calls,           \* the publishes called so far; a message's id is its number among them
    toggles,         \* the subscribes and unsubscribes so far
    receipts,        \* the key and seq each message was delivered with (seq 0: not yet), and the
                     \* message for whose room the drain ran it was published in (0: none)
    hearings          \* the ids each listener was called with, in order

adapterVars == <<use, adapter, turn, calls, toggles, receipts, hearings>>

Kinds == {"text", "binary"}
UseListeners == DOMAIN use.listensTo
Keys == {use.listensTo[l].key : l \in UseListeners}
Place(key, kind) == [key |-> key, kind |-> kind]
Places == {Place(key, kind) : key \in Keys, kind \in Kinds}
Ids == 1 .. use.publishes

\* `held`: a message that waits for the drain that makes room for it.
Idle == [doing |-> "nothing", msg |-> 0, place |-> Place("none", "text"),
         at |-> 0, live |-> FALSE, called |-> FALSE, left |-> 0, held |-> <<>>]

AdapterInit ==
    /\ use \in AdapterUses
    /\ adapter = [subs |-> [p \in Places |-> <<>>],       \* an empty one is not in the map
                  keySeqs |-> [k \in Keys |-> 0],          \* 0: no counter
                  highestSeq |-> 0, queued |-> <<>>, queuedBytes |-> 0, delivering |-> FALSE,
                  publishesSinceTurn |-> 0, holding |-> FALSE, holdSoon |-> FALSE,
                  timers |-> 0]                            \* of drainQueued, not yet fired
    /\ turn = Idle /\ calls = 0 /\ toggles = 0
    /\ receipts = [i \in Ids |-> [key |-> "none", seq |-> 0, within |-> 0]]
    /\ hearings = [l \in UseListeners |-> <<>>]

HasSubscriber(a, key) == \E kind \in Kinds : a.subs[Place(key, kind)] # <<>>

-----------------------------------------------------------------------------
(* A delivery                                                               *)

NextSeqOf(a, key) == (IF a.keySeqs[key] > 0 THEN a.keySeqs[key] ELSE a.highestSeq) + 1

\* deliverInMemory, up to the first listener: `r` is the run the delivery belongs to.
Deliver(a, r, m) ==
    LET seq == NextSeqOf(a, m.place.key)
    IN  /\ adapter' = [a EXCEPT !.delivering = TRUE,
                                !.highestSeq = IF seq > @ THEN seq ELSE @,
                                !.keySeqs[m.place.key] = IF HasSubscriber(a, m.place.key) THEN seq ELSE @]
        /\ turn' = [r EXCEPT !.msg = m.id, !.place = m.place, !.at = 0, !.called = FALSE,
                             !.live = a.subs[m.place] # <<>>]
        /\ receipts' = [receipts EXCEPT ![m.id] = [key |-> m.place.key, seq |-> seq,
                                                   within |-> m.within]]

Push(a, m) == [a EXCEPT !.queued = Append(@, m), !.queuedBytes = @ + m.size]

\* Mutant: what its listeners publish waits for nothing.
DrainEndsUnscheduled(a, r) ==
    /\ adapter' = IF r.held = <<>> THEN a ELSE Push(a, r.held[1])
    /\ turn' = Idle
    /\ UNCHANGED receipts

\* What the drained messages' listeners published waits for the next turn; then the message
\* that needed room joins it.
DrainEnds(a, r) ==
    LET b == [a EXCEPT !.timers = IF a.queued # <<>> THEN @ + 1 ELSE @]
    IN  /\ adapter' = IF r.held = <<>> THEN b ELSE Push(b, r.held[1])
        /\ turn' = Idle
        /\ UNCHANGED receipts

\* drainQueued, with `left` messages of this round to go; a Worker goes on till nothing waits.
Drain(a, r, left) ==
    LET more == IF left = 0 /\ use.worker THEN Len(a.queued) ELSE left
        m    == Head(a.queued)
        b    == [a EXCEPT !.delivering = FALSE, !.holding = FALSE]
    IN  IF more = 0 THEN DrainEnds(b, r)
        ELSE Deliver([b EXCEPT !.queued = Tail(@), !.queuedBytes = @ - m.size],
                     [r EXCEPT !.doing = "drain", !.left = more - 1], m)

\* Mutant: publishes are queued during a delivery only.
QueuesDuringDelivery == adapter.delivering

\* publishInMemory: a publish from a listener reaches subscribers after the message it answers.
MustQueue == adapter.delivering \/ adapter.holding \/ adapter.queued # <<>>

Full(m) == adapter.queuedBytes > 0 /\ adapter.queuedBytes + m.size > use.budget

\* Other code runs, or the listener called last.
CodeRuns == turn.doing = "nothing" \/ turn.called

-----------------------------------------------------------------------------
(* What the code does, in a listener or outside one                         *)

\* queueInMemory: past the budget, a listener's publish is refused; outside one what waits goes.
PublishQueued(m) ==
    /\ MustQueue
    /\ IF ~Full(m) THEN adapter' = Push(adapter, m) /\ UNCHANGED <<turn, receipts>>
       ELSE IF adapter.delivering THEN UNCHANGED <<adapter, turn, receipts>>
       ELSE Drain(adapter, [Idle EXCEPT !.held = <<m>>], Len(adapter.queued))

\* Mutant: the hold has no timer of its own.
HoldUntimed(m) ==
    LET full == adapter.publishesSinceTurn + 1 = use.between /\ ~use.worker
    IN  /\ ~MustQueue
        /\ Deliver([adapter EXCEPT !.publishesSinceTurn = @ + 1, !.holdSoon = @ \/ full],
                   [Idle EXCEPT !.doing = "publish"], m)

\* publishInMemory: delivered at once; one publish too many of a chain ends it, with a hold.
PublishNow(m) ==
    LET full == adapter.publishesSinceTurn + 1 = use.between /\ ~use.worker
    IN  /\ ~MustQueue
        /\ Deliver([adapter EXCEPT !.publishesSinceTurn = @ + 1,
                                   !.holdSoon = @ \/ full,
                                   !.timers = IF full THEN @ + 1 ELSE @],
                   [Idle EXCEPT !.doing = "publish"], m)

PublishLocally(place, size) ==
    LET m == [id |-> calls + 1, place |-> place, size |-> size,
              within |-> IF turn.held = <<>> THEN 0 ELSE turn.held[1].id]
    IN  /\ CodeRuns /\ calls < use.publishes /\ calls' = calls + 1
        /\ PublishQueued(m) \/ PublishNow(m)
        /\ UNCHANGED <<use, toggles, hearings>>

Toggle(l) ==
    /\ CodeRuns /\ toggles < use.toggles /\ toggles' = toggles + 1
    /\ UNCHANGED <<use, calls, receipts, hearings>>

IsSubscribed(l) == \E i \in DOMAIN adapter.subs[use.listensTo[l]] :
                      adapter.subs[use.listensTo[l]][i] = l

\* Added last: a delivery to its place under way reaches it too.
Subscribe(l) ==
    /\ ~IsSubscribed(l) /\ Toggle(l)
    /\ adapter' = [adapter EXCEPT !.subs[use.listensTo[l]] = Append(@, l)]
    /\ UNCHANGED turn

\* The last one to leave takes the set from the map: a delivery under way ends with it.
Unsubscribe(l) ==
    LET place == use.listensTo[l]
        old   == adapter.subs[place]
        at    == CHOOSE i \in DOMAIN old : old[i] = l
        left  == SubSeq(old, 1, at - 1) \o SubSeq(old, at + 1, Len(old))
        a     == [adapter EXCEPT !.subs[place] = left]
        here  == turn.doing # "nothing" /\ turn.live /\ turn.place = place
    IN  /\ IsSubscribed(l) /\ Toggle(l)
        /\ adapter' = IF HasSubscriber(a, place.key) THEN a
                      ELSE [a EXCEPT !.keySeqs[place.key] = 0]
        /\ turn' = IF here /\ left = <<>> THEN [turn EXCEPT !.live = FALSE]
                   ELSE IF here /\ at <= turn.at THEN [turn EXCEPT !.at = @ - 1] ELSE turn

-----------------------------------------------------------------------------
(* The run                                                                  *)

More == turn.live /\ turn.at < Len(adapter.subs[turn.place])

\* The next listener is called, whatever became of those before it.
CallNext ==
    LET l == adapter.subs[turn.place][turn.at + 1]
    IN  /\ turn.doing # "nothing" /\ More
        /\ turn' = [turn EXCEPT !.at = @ + 1, !.called = TRUE]
        /\ hearings' = [hearings EXCEPT ![l] = Append(@, turn.msg)]
        /\ UNCHANGED <<use, adapter, calls, toggles, receipts>>

DeliveryEnds ==
    /\ turn.doing # "nothing" /\ ~More
    /\ CASE turn.doing = "drain" -> Drain(adapter, turn, turn.left)
         [] turn.doing = "publish" /\ adapter.queued = <<>> ->
              /\ adapter' = [adapter EXCEPT !.delivering = FALSE]
              /\ turn' = Idle /\ UNCHANGED receipts
         [] OTHER -> Drain(adapter, turn, Len(adapter.queued))
    /\ UNCHANGED <<use, calls, toggles, hearings>>

\* holdPublishes, a microtask.
HoldPublishes ==
    /\ adapter.holdSoon /\ turn.doing = "nothing"
    /\ adapter' = [adapter EXCEPT !.holdSoon = FALSE, !.holding = TRUE, !.publishesSinceTurn = 0]
    /\ UNCHANGED <<use, turn, calls, toggles, receipts, hearings>>

\* afterEventLoopTurn: no microtask is left by then.
TimerFires ==
    /\ adapter.timers > 0 /\ turn.doing = "nothing" /\ ~adapter.holdSoon
    /\ Drain([adapter EXCEPT !.timers = @ - 1], Idle, Len(adapter.queued))
    /\ UNCHANGED <<use, calls, toggles, hearings>>

LoopStep == CallNext \/ DeliveryEnds \/ HoldPublishes \/ TimerFires

AdapterNext ==
    \/ \E place \in Places, size \in use.sizes : PublishLocally(place, size)
    \/ \E l \in UseListeners : Subscribe(l) \/ Unsubscribe(l)
    \/ LoopStep

AdapterSpec == AdapterInit /\ [][AdapterNext]_adapterVars

-----------------------------------------------------------------------------
(* Properties                                                               *)

\* Every field has its type, and what the queue counts is what it holds.
Bytes(q) == SumOf([i \in DOMAIN q |-> q[i].size])

AdapterTypeOK ==
    /\ adapter.queuedBytes = Bytes(adapter.queued)
    /\ adapter.delivering = (turn.doing # "nothing")
    /\ turn.left <= Len(adapter.queued)
    /\ \A i \in DOMAIN adapter.queued : adapter.queued[i].id \in 1 .. calls
    /\ \A k \in Keys : adapter.keySeqs[k] <= adapter.highestSeq

\* The publishes in order: the one called first, but for those a drain's listeners call while the
\* one that needed room waits for that drain (queueInMemory).
CalledBefore(i, j) == i < j /\ receipts[j].within # i

\* A listener hears messages in the order they were published, one published from a listener
\* after the one it answers (publishInMemory): whatever waits, whoever publishes, subscribes and
\* unsubscribes meanwhile.
HeardInCallOrder ==
    \A l \in UseListeners : \A i, j \in DOMAIN hearings[l] :
        i < j => ~CalledBefore(hearings[l][j], hearings[l][i])

\* docs/pages/channel/+Page.mdx:321: the seqs of a key ascend with its publishes, also after its
\* counter went with its last subscriber.
SeqsAscend ==
    \A i, j \in Ids :
        /\ CalledBefore(i, j) /\ receipts[i].key = receipts[j].key
        /\ receipts[i].seq > 0 /\ receipts[j].seq > 0
        => receipts[i].seq < receipts[j].seq

\* The order of messages, as heard and as numbered (publishInMemory, queueInMemory).
OrderIsKept == HeardInCallOrder /\ SeqsAscend

\* What waits stays within maxPendingBytes and one message (queuedBytes), where no message is
\* larger than maxPendingBytes.
Largest == CHOOSE s \in use.sizes : \A t \in use.sizes : t <= s
QueueIsBounded == Largest <= use.budget => adapter.queuedBytes <= use.budget + Largest

\* What waits has a timer that delivers it, or the run does: a hold and a listener's publishes
\* never outlive the timers that end them.
WaitingIsScheduled ==
    turn.doing = "nothing" /\ (adapter.queued # <<>> \/ adapter.holding) => adapter.timers > 0

\* The queue of an adapter: counted, bounded, and due to a timer (queueInMemory, holdInMemory).
QueueHolds == AdapterTypeOK /\ QueueIsBounded /\ WaitingIsScheduled

\* What waits is delivered.
PublishesAreDelivered == adapter.queued # <<>> ~> adapter.queued = <<>>

\* The event loop runs what is due, and a delivery its listeners.
AdapterFairness == WF_adapterVars(LoopStep)
AdapterFairSpec == AdapterSpec /\ AdapterFairness
=============================================================================
