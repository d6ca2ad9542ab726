------------------------------ MODULE CreditFlow ------------------------------
(***************************************************************************)
(* The credit of one direction of a channel (flowControl/SendCredit.ts,    *)
(* ReceiveCredit.ts, BdpEstimator.ts): a receiver grants cumulative byte   *)
(* and message grants as it consumes, and senders that await their sends   *)
(* wait for them and take turns.  A wire loses the grants it carries when  *)
(* it breaks; it loses no message, which the sender's replay keeps until   *)
(* acknowledged (ReplayedSends).  A frame counts after it went, so each    *)
(* sender may be one frame past the limit.                                 *)
(*                                                                         *)
(* What only paces is left out: the yield of a busy sender, the urgency of *)
(* a limit except that an acknowledgement rides the next frame, and rates: *)
(* the estimator may open a probe and grow a window whenever it could.     *)
(***************************************************************************)
EXTENDS Integers, Sequences, FiniteSets, SequencesExt

CONSTANTS
    Tasks,              \* the loops that send and await
    Loose,              \* stands for a send nothing awaits
    MessageSizes,       \* the bytes of a message
    InitialBytes,       \* CREDIT_WINDOW_INITIAL_BYTES
    BatchBytes,         \* CREDIT_WINDOW_INITIAL_BYTES_BATCH
    InitialMessages,    \* CREDIT_MSG_WINDOW_INITIAL
    MaxMessages,        \* CREDIT_MSG_WINDOW_MAX
    Modulus,            \* 2^32: grants travel modulo it
    Plans               \* the channels considered (see `plan`)

ASSUME CreditAssumption ==
    /\ Loose \notin Tasks
    /\ InitialBytes \in Nat \ {0} /\ BatchBytes \in Nat /\ InitialMessages \in Nat \ {0}
    /\ MaxMessages \in Nat /\ Modulus \in Nat \ {0} /\ MessageSizes \subseteq Nat
    /\ \A p \in Plans : p.base \in Nat /\ p.window \in Nat

VARIABLES
    plan,       \* who sends, the window its replay buffers allow, the bytes that went before,
                \* and bounds: messages sent, of which not awaited; ack requests, which credit
                \* doesn't count; probes; turns to batch POSTs; wires lost; senders that
                \* stop; ends
    sc,         \* the SendCredit
    task,       \* "ready" to send, "waiting" for its turn, or "done" sending
    replay,     \* the messages sent and not acknowledged, oldest first
    acked,      \* the seq the sender knows its peer has
    rc,         \* the ReceiveCredit
    delivered,  \* the seq of the last message that arrived
    unconsumed, \* how many messages of each size listeners still work on
    wire,       \* "none" before the first, "up", or "down"
    grants,     \* the grants and answers in flight to the sender
    riding,     \* the grants that ride the next of them
    left        \* what the bounds leave
creditVars == <<plan, sc, task, replay, acked, rc, delivered, unconsumed, wire, grants, riding, left>>

Low(x, y) == IF x < y THEN x ELSE y
BytesIn(frames) == FoldSeq(LAMBDA f, sum : sum + f.bytes, 0, frames)
-----------------------------------------------------------------------------
(* SendCredit *)

NewSendCredit(base) ==
    [sent |-> base, messages |-> 0, limit |-> base + InitialBytes, msgLimit |-> InitialMessages,
     raised |-> FALSE, waiters |-> <<>>, released |-> FALSE, releases |-> 0, passing |-> <<>>,
     shut |-> FALSE]

\* Mutant: the limit is fitted again after the peer raised it, as a page reconnects.
FitSenderAgain(c, base, window) == [c EXCEPT !.limit = base + Low(InitialBytes, window)]

FitSender(c, base, window) ==
    IF c.raised THEN c ELSE [c EXCEPT !.limit = base + Low(InitialBytes, window)]

IsOutOfCredit(c) == c.sent >= c.limit \/ c.messages >= c.msgLimit

\* The oldest waiter's turn; while others wait, it passes on after a macrotask (`passing`).
ReleaseOne(c) ==
    IF c.waiters = <<>> THEN c
    ELSE [c EXCEPT !.waiters = Tail(@), !.released = TRUE, !.releases = @ + 1,
                   !.passing = IF Len(c.waiters) = 1 THEN @ ELSE Append(@, c.releases + 1)]

TryWake(c) ==
    IF c.shut THEN [c EXCEPT !.waiters = <<>>]
    ELSE IF c.released \/ IsOutOfCredit(c) THEN c
    ELSE ReleaseOne(c)

\* Mutant: a sender that found credit takes no turn from those who wait.
DecrementPastWaiters(c, bytes, who) ==
    LET counted == [c EXCEPT !.sent = @ + bytes, !.messages = @ + 1, !.released = FALSE]
    IN  IF IsOutOfCredit(counted) THEN [counted EXCEPT !.waiters = Append(@, who)]
        ELSE IF c.waiters # <<>> THEN [counted EXCEPT !.waiters = Append(@, who)] ELSE counted

\* Counts the frame `who` sent: it waits where credit ran out, and behind those who wait.
Decrement(c, bytes, who) ==
    LET counted == [c EXCEPT !.sent = @ + bytes, !.messages = @ + 1, !.released = FALSE]
        waiting == IF IsOutOfCredit(counted) THEN counted ELSE ReleaseOne(counted)
    IN  IF IsOutOfCredit(counted) \/ c.waiters # <<>>
        THEN IF c.shut THEN waiting ELSE [waiting EXCEPT !.waiters = Append(@, who)]
        ELSE counted

\* `limit | 0`: the signed difference of two counters modulo `Modulus`.
Signed(n) ==
    LET low == n % Modulus IN IF low >= Modulus \div 2 THEN low - Modulus ELSE low

\* Mutant: the difference is taken unsigned, so a stale limit raises by much.
RaiseOfUnsigned(limit, known) == (limit - known) % Modulus

RaiseOf(limit, known) == Signed(limit - known)

OnPeerByteWindow(c, limit) ==
    LET raise == RaiseOf(limit, c.limit)
    IN  IF raise <= 0 THEN c ELSE TryWake([c EXCEPT !.limit = @ + raise, !.raised = TRUE])

OnPeerMessageWindow(c, limit) ==
    LET raise == RaiseOf(limit, c.msgLimit)
    IN  IF raise <= 0 THEN c ELSE TryWake([c EXCEPT !.msgLimit = @ + raise])

\* A turn not taken by the next macrotask passes on.
PassTurnOn(c) ==
    LET passed == [c EXCEPT !.passing = Tail(@)]
    IN  IF c.released /\ c.releases = Head(c.passing)
        THEN TryWake([passed EXCEPT !.released = FALSE]) ELSE passed

\* Those of `before` whose turn came.
Woken(before, after) ==
    {t \in Tasks : t \in ToSet(before.waiters) /\ t \notin ToSet(after.waiters)}
-----------------------------------------------------------------------------
(* ReceiveCredit.  Its `out` is what it emits, oldest first. *)

NewReceiveCredit(base) ==
    [window |-> InitialBytes, msgWindow |-> InitialMessages, cap |-> InitialBytes, before |-> 0,
     fitted |-> FALSE, wired |-> FALSE, consumed |-> base, messages |-> 0, advertised |-> base,
     advertisedMsgs |-> 0, urgent |-> base, granted |-> base + InitialBytes, uncounted |-> 0,
     arrived |-> FALSE, probing |-> FALSE, out |-> <<>>]

FitReceiver(r, window) ==
    [r EXCEPT !.fitted = TRUE, !.cap = window, !.window = Low(@, window)]

\* How a limit goes: at once, or riding the next frame.
Limit(kind, limit, seq, rides) ==
    [kind |-> kind, limit |-> limit % Modulus, lastSeq |-> seq, rides |-> rides]

AdvertiseMessages(r, rides) ==
    [r EXCEPT !.advertisedMsgs = r.messages,
              !.out = Append(@, Limit("MSG_WINDOW", r.messages + r.msgWindow, 0, rides))]

\* A byte limit, which says the last seq that arrived.  Past half a window consumed it hurries
\* even as an acknowledgement; one that doesn't ride takes a message limit behind with it.
AdvertiseBytes(r, seq, rides) ==
    LET limit  == r.consumed + r.window
        urgent == (r.consumed - r.urgent) * 2 > r.window
        alone  == rides /\ ~urgent
        noted  == [r EXCEPT !.advertised = r.consumed, !.uncounted = 0, !.arrived = FALSE,
                            !.granted = IF @ < limit THEN limit ELSE @,
                            !.urgent = IF urgent THEN r.consumed ELSE @]
        both   == IF ~alone /\ r.messages > r.advertisedMsgs THEN AdvertiseMessages(noted, TRUE)
                  ELSE noted
    IN  IF r.fitted THEN [both EXCEPT !.out = Append(@, Limit("WINDOW", limit, seq, alone))]
        ELSE r

\* Mutant: the message limit goes out again with the byte limit alone.
RefreshBytesOnly(r, seq) ==
    IF r.consumed - r.advertised >= r.window \div 4
    THEN [AdvertiseBytes(r, seq, FALSE) EXCEPT !.out = SelectSeq(@, LAMBDA f : f.kind = "WINDOW")]
    ELSE r

\* Consumption a quarter of a window past the last limit makes it go out again.
Refresh(r, seq) ==
    LET b == IF r.consumed - r.advertised >= r.window \div 4 THEN AdvertiseBytes(r, seq, FALSE)
             ELSE r
    IN  IF b.messages - b.advertisedMsgs >= b.msgWindow \div 4 THEN AdvertiseMessages(b, FALSE)
        ELSE b

Consumed(r, bytes, seq) == Refresh([r EXCEPT !.consumed = @ + bytes, !.messages = @ + 1], seq)

\* An ack request arrived, which credit doesn't count.
OnReceivedUncounted(r, bytes, seq) ==
    LET counted == [r EXCEPT !.arrived = TRUE, !.uncounted = @ + bytes]
    IN  IF counted.uncounted >= r.window \div 4 THEN AdvertiseBytes(counted, seq, TRUE)
        ELSE counted

\* The grants go out again on another wire than the last, which may have lost them.
AdvertiseOnNewWire(r, seq) ==
    LET reset == [r EXCEPT !.wired = TRUE, !.probing = FALSE]
    IN  IF r.wired THEN AdvertiseBytes(AdvertiseMessages(reset, FALSE), seq, FALSE)
        ELSE IF r.arrived \/ r.consumed + r.window > r.granted
             THEN AdvertiseBytes(reset, seq, FALSE) ELSE reset

\* The batch-POST wire's larger window, and back where the estimator never grew it.
UseBatchInitial(r, seq) ==
    LET window == Low(r.cap, BatchBytes)
    IN  IF window <= r.window THEN r
        ELSE AdvertiseBytes([r EXCEPT !.window = window,
                                      !.before = IF @ = 0 THEN r.window ELSE @], seq, FALSE)

UndoBatchInitial(r) ==
    IF r.before = 0 THEN r ELSE [r EXCEPT !.window = Low(r.cap, r.before), !.before = 0]

GrowBytes(r) == [r EXCEPT !.window = Low(r.cap, 2 * @), !.before = 0]
GrowMessages(r) == [r EXCEPT !.msgWindow = Low(MaxMessages, 2 * @)]
-----------------------------------------------------------------------------
(* The wire *)

\* Without a wire the page's gate holds the newest limit of each kind.
HoldNewest(held, limit) == Append(SelectSeq(held, LAMBDA h : h.kind # limit.kind), limit)

\* The frames `out` go; those that ride wait for the next that doesn't.
Put(w, out) ==
    LET Go(at, limit) == IF limit.rides THEN [at EXCEPT !.riding = Append(@, limit)]
                         ELSE [grants |-> at.grants \o at.riding \o <<limit>>, riding |-> <<>>]
    IN  FoldLeft(Go, w, out)

\* The receiver is `r` and what it emitted went, was held, or was dropped with no page attached.
Receive(r, onWire) ==
    /\ rc' = [r EXCEPT !.out = <<>>]
    /\ IF onWire
       THEN LET w == Put([grants |-> grants, riding |-> riding], r.out)
            IN  grants' = w.grants /\ riding' = w.riding
       ELSE /\ riding' = IF plan.pageSends THEN riding ELSE FoldLeft(HoldNewest, riding, r.out)
            /\ UNCHANGED grants

\* The sender learns its peer has what it sent through `seq`.
AcknowledgeReplay(seq) ==
    LET through == IF seq > acked THEN seq ELSE acked
    IN  acked' = through /\ replay' = SubSeq(replay, through - acked + 1, Len(replay))

Message(bytes, counted) == [bytes |-> bytes, counted |-> counted]
-----------------------------------------------------------------------------
CreditInit ==
    /\ plan \in Plans
    /\ sc = FitSender(NewSendCredit(plan.base), plan.base,
                      IF plan.pageSends THEN InitialBytes ELSE plan.window)
    /\ rc = IF plan.pageSends THEN FitReceiver(NewReceiveCredit(plan.base), plan.window)
            ELSE NewReceiveCredit(plan.base)
    /\ task = [t \in Tasks |-> "ready"]
    /\ replay = <<>> /\ acked = 0 /\ delivered = 0
    /\ unconsumed = [b \in MessageSizes |-> 0]
    /\ wire = "none" /\ grants = <<>> /\ riding = <<>>
    /\ left = plan.bounds

\* The sender sends: the page any time, its gate holding what can't go; the server while a page
\* is attached, and until then into its offline buffer, whose flush sends what it holds.
CanSend == ~sc.shut /\ (plan.pageSends \/ wire = "up")

SettleTurns(c, waits) ==
    /\ sc' = c
    /\ task' = [t \in Tasks |-> IF t \in waits THEN "waiting"
                                ELSE IF t \in Woken(sc, c) THEN "ready" ELSE task[t]]

SendOnCredit(t, bytes) ==
    /\ CanSend /\ task[t] = "ready" /\ left.sends > 0
    /\ LET c == Decrement(sc, bytes, t)
       IN  SettleTurns(c, IF t \in ToSet(c.waiters) THEN {t} ELSE {})
    /\ replay' = Append(replay, Message(bytes, TRUE))
    /\ left' = [left EXCEPT !.sends = @ - 1]
    /\ UNCHANGED <<plan, acked, rc, delivered, unconsumed, wire, grants, riding>>

\* A send nothing awaits: its turn, if it waits for one, is nobody's.
SendLoose(bytes) ==
    /\ CanSend /\ left.sends > 0 /\ left.loose > 0
    /\ SettleTurns(Decrement(sc, bytes, Loose), {})
    /\ replay' = Append(replay, Message(bytes, TRUE))
    /\ left' = [left EXCEPT !.sends = @ - 1, !.loose = @ - 1]
    /\ UNCHANGED <<plan, acked, rc, delivered, unconsumed, wire, grants, riding>>

AskAck(bytes) ==
    /\ CanSend /\ left.asks > 0
    /\ replay' = Append(replay, Message(bytes, FALSE))
    /\ left' = [left EXCEPT !.asks = @ - 1]
    /\ UNCHANGED <<plan, sc, task, acked, rc, delivered, unconsumed, wire, grants, riding>>

StopSending(t) ==
    /\ task[t] = "ready" /\ left.stops > 0
    /\ task' = [task EXCEPT ![t] = "done"]
    /\ left' = [left EXCEPT !.stops = @ - 1]
    /\ UNCHANGED <<plan, sc, replay, acked, rc, delivered, unconsumed, wire, grants, riding>>

\* The macrotask of a turn handed on.
PassTurn ==
    /\ sc.passing # <<>>
    /\ SettleTurns(PassTurnOn(sc), {})
    /\ UNCHANGED <<plan, replay, acked, rc, delivered, unconsumed, wire, grants, riding, left>>

\* The channel ended: every send that waits settles.
Shutdown ==
    /\ ~sc.shut /\ left.ends > 0
    /\ sc' = TryWake([sc EXCEPT !.shut = TRUE])
    /\ task' = [t \in Tasks |-> "done"]
    /\ left' = [left EXCEPT !.ends = @ - 1]
    /\ UNCHANGED <<plan, replay, acked, rc, delivered, unconsumed, wire, grants, riding>>

TakeLimit ==
    /\ wire = "up" /\ grants # <<>>
    /\ LET limit == Head(grants)
       IN  /\ SettleTurns(CASE limit.kind = "WINDOW"     -> OnPeerByteWindow(sc, limit.limit)
                            [] limit.kind = "MSG_WINDOW" -> OnPeerMessageWindow(sc, limit.limit)
                            [] OTHER                     -> sc, {})
           /\ AcknowledgeReplay(limit.lastSeq)
    /\ grants' = Tail(grants)
    /\ UNCHANGED <<plan, rc, delivered, unconsumed, wire, riding, left>>

\* The next message arrives: its listeners start on it, or it asks for an ack.  A message may
\* open a probe while either window may still grow.
Deliver(probes) ==
    /\ wire = "up" /\ delivered - acked < Len(replay)
    /\ LET m == replay[delivered - acked + 1]
       IN  /\ probes => /\ m.counted /\ ~rc.probing /\ left.probes > 0
                        /\ rc.window < rc.cap \/ rc.msgWindow < MaxMessages
           /\ IF m.counted
              THEN /\ Receive([rc EXCEPT !.arrived = TRUE, !.probing = @ \/ probes], TRUE)
                   /\ unconsumed' = [unconsumed EXCEPT ![m.bytes] = @ + 1]
              ELSE /\ Receive(OnReceivedUncounted(rc, m.bytes, delivered + 1), TRUE)
                   /\ UNCHANGED unconsumed
    /\ delivered' = delivered + 1
    /\ left' = [left EXCEPT !.probes = IF probes THEN @ - 1 ELSE @]
    /\ UNCHANGED <<plan, sc, task, replay, acked, wire>>

\* The listeners of a message are done with it.
Consume(bytes) ==
    /\ unconsumed[bytes] > 0
    /\ unconsumed' = [unconsumed EXCEPT ![bytes] = @ - 1]
    /\ Receive(Consumed(rc, bytes, delivered), wire = "up")
    /\ UNCHANGED <<plan, sc, task, replay, acked, delivered, wire, left>>

\* The ack request that is the newest message is answered, which acknowledges all that arrived.
Answer ==
    /\ wire = "up" /\ delivered > acked /\ ~replay[delivered - acked].counted
    /\ ~\E i \in DOMAIN grants : grants[i].kind = "ACK_RES" /\ grants[i].lastSeq = delivered
    /\ LET ack == [kind |-> "ACK_RES", limit |-> 0, lastSeq |-> delivered, rides |-> FALSE]
       IN  Receive([rc EXCEPT !.uncounted = 0, !.arrived = FALSE, !.out = <<ack>>], TRUE)
    /\ UNCHANGED <<plan, sc, task, replay, acked, delivered, unconsumed, wire, left>>

\* The page's heartbeat: what arrived since the last limit is acknowledged, and what rides goes.
Beat(acknowledges) ==
    LET r == IF acknowledges THEN AdvertiseBytes(rc, delivered, TRUE) ELSE rc
        w == Put([grants |-> grants, riding |-> riding], r.out)
    IN  [rc |-> [r EXCEPT !.out = <<>>], grants |-> w.grants \o w.riding]

Heartbeat ==
    /\ wire = "up" /\ (rc.arrived \/ riding # <<>>)
    /\ rc' = Beat(rc.arrived).rc /\ grants' = Beat(rc.arrived).grants
    /\ riding' = <<>>
    /\ UNCHANGED <<plan, sc, task, replay, acked, delivered, unconsumed, wire, left>>

\* The answer to a probe: either window may grow, and goes out if it did.
ProbeAnswered(bytes, messages) ==
    /\ wire = "up" /\ rc.probing
    /\ bytes => rc.window < rc.cap
    /\ messages => rc.msgWindow < MaxMessages
    /\ LET settled == [rc EXCEPT !.probing = FALSE]
           grown   == IF bytes THEN AdvertiseBytes(GrowBytes(settled), delivered, FALSE)
                      ELSE settled
       IN  Receive(IF messages THEN AdvertiseMessages(GrowMessages(grown), FALSE) ELSE grown, TRUE)
    /\ UNCHANGED <<plan, sc, task, replay, acked, delivered, unconsumed, wire, left>>

\* The channel attaches on a wire, whose RECONCILE said how far each end had got: on its first
\* the page learns what the replay buffers hold; then its window is that of the wire's kind.
Attach(batched) ==
    /\ wire # "up"
    /\ batched => ~plan.pageSends /\ left.batches > 0
    /\ wire' = "up"
    /\ left' = [left EXCEPT !.batches = IF batched THEN @ - 1 ELSE @]
    /\ AcknowledgeReplay(delivered)
    /\ sc' = IF plan.pageSends THEN FitSender(sc, plan.base, plan.window) ELSE sc
    /\ LET fitted == IF plan.pageSends THEN rc ELSE FitReceiver(rc, plan.window)
           sized  == IF plan.pageSends THEN fitted
                     ELSE IF batched THEN UseBatchInitial(fitted, delivered)
                     ELSE UndoBatchInitial(fitted)
           r      == AdvertiseOnNewWire(sized, delivered)
           w      == Put([grants |-> grants \o riding, riding |-> <<>>], r.out)
       IN  /\ rc' = [r EXCEPT !.out = <<>>]
           /\ grants' = w.grants /\ riding' = w.riding
    /\ UNCHANGED <<plan, task, delivered, unconsumed>>

\* The page's wire turns to batch POSTs, or an upgrade takes it to a WebSocket.
TurnToBatch ==
    /\ wire = "up" /\ ~plan.pageSends /\ left.batches > 0
    /\ Receive(UseBatchInitial(rc, delivered), TRUE)
    /\ left' = [left EXCEPT !.batches = @ - 1]
    /\ UNCHANGED <<plan, sc, task, replay, acked, delivered, unconsumed, wire>>

Upgraded ==
    /\ wire = "up" /\ ~plan.pageSends
    /\ rc.before # 0
    /\ rc' = [UndoBatchInitial(rc) EXCEPT !.probing = FALSE]
    /\ UNCHANGED <<plan, sc, task, replay, acked, delivered, unconsumed, wire, grants, riding, left>>

\* The wire is lost, with the grants on it; answers are sequenced, and replayed.
Break ==
    /\ wire = "up" /\ left.breaks > 0
    /\ wire' = "down"
    /\ grants' = SelectSeq(grants, LAMBDA f : f.kind = "ACK_RES")
    /\ riding' = <<>>
    /\ left' = [left EXCEPT !.breaks = @ - 1]
    /\ UNCHANGED <<plan, sc, task, replay, acked, rc, delivered, unconsumed>>

CreditNext ==
    \/ \E t \in Tasks, b \in MessageSizes : SendOnCredit(t, b)
    \/ \E b \in MessageSizes : SendLoose(b) \/ AskAck(b) \/ Consume(b)
    \/ \E t \in Tasks : StopSending(t)
    \/ PassTurn \/ Shutdown \/ TakeLimit \/ Answer \/ Heartbeat
    \/ \E probes \in BOOLEAN : Deliver(probes)
    \/ \E bytes, messages \in BOOLEAN : ProbeAnswered(bytes, messages)
    \/ \E batched \in BOOLEAN : Attach(batched)
    \/ TurnToBatch \/ Upgraded \/ Break

CreditSpec == CreditInit /\ [][CreditNext]_creditVars

\* Listeners settle, frames arrive, macrotasks run, heartbeats go and the page reattaches; and
\* a task that may send does, until it stops.  Each names a step by what it alone changes.
Consumes == \E b \in MessageSizes : unconsumed[b] > 0 /\ unconsumed' = [unconsumed EXCEPT ![b] = @ - 1]
Arrives == wire = "up" /\ delivered - acked < Len(replay) /\ delivered' = delivered + 1
GrantArrives == wire = "up" /\ grants # <<>> /\ grants' = Tail(grants)
TurnPasses == sc.passing # <<>> /\ sc' = PassTurnOn(sc)
Beats == /\ wire = "up" /\ (rc.arrived \/ riding # <<>>)
         /\ riding' = <<>> /\ grants' = Beat(rc.arrived).grants
Reattaches == wire # "up" /\ wire' = "up"
SomeoneSends == /\ CanSend /\ left.sends > 0 /\ \E t \in Tasks : task[t] = "ready"
                /\ left' = [left EXCEPT !.sends = @ - 1]

FairCreditSpec ==
    /\ CreditSpec
    /\ WF_unconsumed(Consumes) /\ WF_delivered(Arrives) /\ WF_grants(GrantArrives)
    /\ WF_sc(TurnPasses) /\ WF_<<riding, grants>>(Beats) /\ WF_wire(Reattaches)
    /\ WF_left(SomeoneSends)
-----------------------------------------------------------------------------
Largest == CHOOSE b \in MessageSizes : \A c \in MessageSizes : c <= b

\* Types, of the wire's counters too.
CreditTypeOK ==
    /\ plan \in Plans
    /\ task \in [Tasks -> {"ready", "waiting", "done"}]
    /\ sc.waiters \in Seq(Tasks \cup {Loose})
    /\ acked <= delivered /\ delivered <= acked + Len(replay)
    /\ wire \in {"none", "up", "down"}
    /\ \A i \in DOMAIN grants : grants[i].limit \in 0..Modulus - 1
    /\ rc.granted >= plan.base

\* While credit is left and a send waits, a turn was handed out and not used yet: what a waiter
\* waits for is another's send, never a limit that already came.
TurnIsHeld == sc.waiters # <<>> /\ ~IsOutOfCredit(sc) /\ ~sc.shut => sc.released

\* The tasks that wait are those among the waiters, which the sends nobody awaits join.
WaitersWait == \A t \in Tasks : task[t] = "waiting" <=> t \in ToSet(sc.waiters)

\* No turn is lost: whatever limits come, in whatever order, a send that waits while credit is
\* left has a turn coming, and none waits that has left the queue
\* (SendCredit.tryWakeCreditWaiters, passTurnOn).
TurnsAreKept == TurnIsHeld /\ WaitersWait

\* The sender believes in no more credit than was granted, with grants modulo 2^32, stale ones
\* of lost wires, and windows that shrink back.
OnlyGrantedIsSpent == sc.limit <= rc.granted

\* With no limit in flight the sender has the newest ones, whatever lost wires took with them.
LimitsCatchUp ==
    wire = "up" /\ grants = <<>> /\ riding = <<>> =>
        /\ sc.limit >= rc.advertised + rc.window
        /\ sc.msgLimit >= rc.advertisedMsgs + rc.msgWindow

\* What a sender must keep to replay stays within the window its replay buffer allows (half of
\* what it holds) and one message of each that sends: a reconnect loses none of it.
ReplayFitsCredit ==
    BytesIn(SelectSeq(replay, LAMBDA m : m.counted)) <=
        plan.window + (Cardinality(Tasks) + plan.bounds.loose) * Largest

\* Credit is never lost, made up, or more than a reconnect can replay.
CreditHolds ==
    CreditTypeOK /\ OnlyGrantedIsSpent /\ LimitsCatchUp /\ ReplayFitsCredit

\* No step takes credit back from the sender, whichever wire brings it which limit, an older one
\* than it has included: but for the fit as the page first attaches, which lowers a limit assumed
\* and not granted, a limit is never below what it was (SendCredit.ts:66, 93).
LimitsOnlyRise ==
    [][/\ wire # "none" => sc'.limit >= sc.limit
       /\ sc'.msgLimit >= sc.msgLimit]_creditVars

\* Every send that waits settles while there is something to send (`left.sends` bounds what
\* there is), whichever wires that carry its credit are lost: a turn passes on from "one that
\* hasn't sent by the next macrotask, as one that is done sending" (SendCredit.ts:149).
TurnsCome == \A t \in Tasks : task[t] = "waiting" ~> task[t] # "waiting" \/ left.sends = 0
=============================================================================
