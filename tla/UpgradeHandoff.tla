--------------------------- MODULE UpgradeHandoff ---------------------------
(***************************************************************************)
(* A page moves its connection from SSE to a WebSocket (client/Upgrade.ts, *)
(* server/UpgradeStages.ts): it stages a probe WebSocket beside the SSE    *)
(* wire (PREPARE, READY), ends the SSE wire's sends with a BARRIER, adopts *)
(* the probe (`flip`) and joins the two wires' frames: the old wire's up   *)
(* to its FIN, then the new wire's, whose RECONCILED and the old wire's    *)
(* FIN come in either order.  Either wire may break at any step, a timeout *)
(* may fire, and the page then falls back to a new SSE wire.               *)
(*                                                                         *)
(* The connection has one channel open, which sends both ways, and another *)
(* that registers at any time.  Handlers are operators on the page's state *)
(* `p`: what one sends collects in p.out, the wires it closes in p.closed. *)
(* The continuation of an awaited promise runs with what settles it.       *)
(* Credit, heartbeats, and channels a RECONCILED leaves out are not here.  *)
(***************************************************************************)
EXTENDS Integers, SequencesExt, FiniteSetsExt

CONSTANT HandoffPlans  \* what may happen: whether frames go in batch POSTs, the page's and the
                       \* server's sends, whether a channel registers, the breaks, the attempts,
                       \* the SSE wires, the timers that may fire, the frames a handoff holds

ASSUME HandoffPlansAssumption ==
    \A pl \in HandoffPlans :
        /\ pl.batch \in BOOLEAN /\ pl.registers \in {"never", "early", "ever"}
        /\ {pl.sends, pl.serverSends, pl.breaks, pl.attempts, pl.sse, pl.holds} \subseteq Nat
        /\ pl.timers \subseteq {"deadline", "drain", "join", "ttl"}

VARIABLES hplan, hp, hs, hw

hvars == <<hplan, hp, hs, hw>>

\* A session is named by the wire that got it: a RECONCILE on its own wire keeps it.
NoLink == 0
SseLinks == 1 .. hplan.sse
Ws(k) == 100 + k
Links == SseLinks \cup {Ws(k) : k \in 1 .. hplan.attempts}
IsSse(w) == w \in SseLinks

Msg(n) == [t |-> "DATA", n |-> n]
Msgs(from, to) == [i \in 1 .. (IF to < from THEN 0 ELSE to - from + 1) |-> Msg(from + i - 1)]

NoPending == [probe |-> NoLink, old |-> NoLink, id |-> 0]

HandoffInit ==
    /\ hplan \in HandoffPlans
    /\ hp = [conn |-> "open", wire |-> 1, sse |-> 1, session |-> NoLink, here |-> FALSE,
             reconciling |-> TRUE, inFlight |-> "full", carried |-> 1, owed |-> FALSE, due |-> FALSE,
             registered |-> FALSE, sent |-> 0, handed |-> 0, heard |-> <<>>, lastSeq |-> 0,
             st |-> "none", step |-> "idle", att |-> 0, aborted |-> FALSE, retry |-> FALSE,
             from |-> NoLink, flipped |-> FALSE, fin |-> FALSE, committed |-> FALSE,
             heldBeforeFlip |-> <<>>, old |-> <<>>, new |-> <<>>, disabled |-> FALSE,
             out |-> <<>>, closed |-> {}]
    /\ hs = [sessions |-> {1}, sids |-> {1}, peer |-> 1, took |-> <<>>, lastSeq |-> 0, sent |-> 0,
             stage |-> [w \in {Ws(k) : k \in 1 .. hplan.attempts} |-> [ph |-> "none", prev |-> NoLink]],
             retired |-> {}, pending |-> NoPending, lastSse |-> 1, broken |-> {}, breaks |-> 0]
    /\ hw = [w \in Links |->
               [page |-> IF w = 1 THEN "open" ELSE "none", server |-> IF w = 1 THEN "open" ELSE "none",
                up |-> <<>>,
                down |-> IF w = 1
                         THEN <<[t |-> "RECONCILED", id |-> 0, session |-> 1, got |-> 0]>>
                         ELSE <<>>]]

-----------------------------------------------------------------------------
(* The page's sends and the RECONCILE exchange (WireLifecycle, SendGate,    *)
(* AttachExchange), as far as the handoff meets them.                       *)

Probe(p) == Ws(p.att)
SendOn(p, w, frames) == [p EXCEPT !.out = @ \o [i \in 1 .. Len(frames) |-> [w |-> w, f |-> frames[i]]]]

\* gatesSends: from the barrier's emission till its RECONCILED.
GatesSends(p) == p.st = "committing" /\ ~p.committed

Ready(p) == p.st = "staging" /\ p.step = "settling"

\* holdsReconcile
HoldsReconcile(p) == p.st = "committing" \/ Ready(p)

\* sendsOpen
LinkSendsOpen(p) == p.conn = "open" /\ ~p.reconciling /\ ~p.owed /\ ~GatesSends(p)

\* The seqs above p.handed wait in the gate; the replay holds those through it.
DrainGate(p) == [SendOn(p, p.wire, Msgs(p.handed + 1, p.sent)) EXCEPT !.handed = p.sent]

\* On the wire that has the session it names what changed, the new channel, else both; on SSE
\* what the gate holds goes behind it.
SendReconcile(p) ==
    LET changes == p.session # NoLink /\ p.here
        q == SendOn(p, p.wire, <<[t |-> "RECONCILE", session |-> p.session, changes |-> changes,
                                  last |-> p.lastSeq]>>)
        r == [q EXCEPT !.reconciling = TRUE, !.inFlight = IF changes THEN "changes" ELSE "full",
                       !.carried = p.handed + 1, !.owed = FALSE, !.due = FALSE]
    IN  IF IsSse(p.wire) /\ changes THEN DrainGate(r) ELSE r

OnReconcileDue(p) ==
    IF p.owed /\ p.conn = "open" /\ ~HoldsReconcile(p) /\ ~p.reconciling THEN SendReconcile(p) ELSE p

\* dispatchFrame: a seq not newer than the last is a duplicate.
HearFrame(p, f) ==
    IF f.n <= p.lastSeq THEN p ELSE [p EXCEPT !.lastSeq = f.n, !.heard = Append(@, f.n)]
HearAll(p, frames) == FoldLeft(HearFrame, p, frames)

ClosePage(p, w) == [p EXCEPT !.closed = @ \cup {w}]

-----------------------------------------------------------------------------
(* Upgrade: how an attempt starts and ends                                  *)

MaybeUpgrade(p) ==
    IF /\ p.conn = "open" /\ ~p.disabled /\ p.st = "none" /\ ~p.reconciling
       /\ IsSse(p.wire) /\ p.session # NoLink /\ p.att < hplan.attempts
    THEN [p EXCEPT !.st = "staging", !.step = "probing", !.att = @ + 1, !.aborted = FALSE,
                   !.retry = FALSE]
    ELSE p

NoAttempt(p) ==
    [p EXCEPT !.st = "none", !.step = "idle", !.from = NoLink, !.flipped = FALSE, !.fin = FALSE,
              !.committed = FALSE, !.heldBeforeFlip = <<>>, !.old = <<>>, !.new = <<>>]

\* handleTransportLoss: a reconnect's RECONCILE lists every channel.
LoseLink(p) ==
    [NoAttempt(p) EXCEPT !.conn = "reconnecting", !.wire = NoLink, !.here = FALSE,
                         !.reconciling = FALSE, !.inFlight = "none", !.owed = FALSE, !.due = FALSE]

\* Mutant: what the old wire delivered before the handoff failed is dropped, and counted.
AbandonUnheard(p) ==
    IF p.flipped
    THEN ClosePage([p EXCEPT !.lastSeq = IF p.old = <<>> THEN @ ELSE Last(p.old).n], p.from)
    ELSE p

\* abandon: a flipped join delivers what it held of the old wire, not of the new one.
Abandon(p) == IF p.flipped THEN ClosePage(HearAll(p, p.old), p.from) ELSE p

\* fallbackToSse
FallbackToSse(p) ==
    LoseLink([ClosePage(ClosePage(Abandon(p), p.wire), Probe(p)) EXCEPT !.disabled = TRUE])

\* How `run` ended before the flip, and what runUpgrade does then.  The probe closes with it.
RunEnds(p, tag) ==
    LET q == NoAttempt(ClosePage(p, Probe(p)))
        drained == IF q.owed THEN q ELSE DrainGate(q)
    IN  CASE tag = "aborted"     -> OnReconcileDue(q)
          [] tag = "not-ready"   -> OnReconcileDue(drained)
          [] tag = "not-emitted" -> OnReconcileDue([drained EXCEPT !.retry = TRUE])
          [] tag = "stranded"    -> FallbackToSse(p)

\* The attempt's signal aborts: each await sees it but the wait for the outbox to drain.
AbortAttempt(p) ==
    CASE p.st = "none" \/ p.flipped           -> p
      [] p.step \in {"probing", "settling"}   -> RunEnds(p, "aborted")
      [] p.step = "preparing"                 -> RunEnds(p, "not-ready")
      [] p.step = "draining"                  -> ClosePage([p EXCEPT !.aborted = TRUE], Probe(p))
      [] p.step = "posting"                   -> RunEnds(p, "stranded")

\* onTransportClosed for the connection's wire; the attempt's `run` then ends.
LoseCurrent(p) ==
    LET q == LoseLink(ClosePage(IF p.st = "none" THEN p ELSE ClosePage(p, Probe(p)), p.wire))
    IN  IF p.flipped THEN FallbackToSse(p)
        ELSE IF p.step = "posting" THEN [q EXCEPT !.disabled = TRUE]
        ELSE IF p.step \in {"preparing", "draining"} THEN DrainGate(q)
        ELSE q

-----------------------------------------------------------------------------
(* The join                                                                 *)

\* Mutant: the new wire's frames first.
JoinNewFirst(p) == HearAll(p, p.new \o p.old)
ReleaseJoin(p) == HearAll(p, p.old \o p.new)

TryComplete(p) ==
    IF p.flipped /\ p.fin /\ p.committed
    THEN NoAttempt(ClosePage(ReleaseJoin(p), p.from)) ELSE p

HandleFin(p) == IF p.st = "committing" THEN TryComplete([p EXCEPT !.fin = TRUE]) ELSE p

\* The old wire's last frame; a channel no RECONCILE named yet is left out.
EmitBarrier(p) ==
    [SendOn(p, p.wire, <<[t |-> "BARRIER", id |-> p.att, session |-> p.session,
                          last |-> p.lastSeq]>>)
        EXCEPT !.reconciling = TRUE, !.inFlight = "full", !.carried = p.handed + 1,
               !.step = "posting"]

\* The replay of what the server lacks, up to what the wire carries behind the RECONCILE; then the
\* gate.
ReplayAndDrain(p, q, m) ==
    DrainGate(SendOn(q, p.wire, IF p.inFlight = "full" THEN Msgs(m.got + 1, p.carried - 1) ELSE <<>>))

\* A RECONCILED names what registered meanwhile in its follow-up, but not right before a barrier.
FollowsUp(p) == p.owed /\ ~Ready(p)

\* handleReconciled, until what waits for the exchange to settle goes on (Settled).
TakeReconciled(p, m) ==
    LET q == [p EXCEPT !.committed = p.st = "committing", !.session = m.session, !.here = TRUE,
                       !.inFlight = "none"]
        drained == ReplayAndDrain(p, q, m)
        settled == IF FollowsUp(p) THEN SendReconcile(drained)
                   ELSE [drained EXCEPT !.reconciling = FALSE, !.due = p.owed]
        joined == TryComplete(settled)
    IN  IF p.owed THEN joined ELSE MaybeUpgrade(joined)

\* A RECONCILED that doesn't echo the committing attempt's id answers another upgrade.
AnswersAnother(p, m) == p.st = "committing" /\ ~p.committed /\ m.id # p.att

\* flip: the connection adopts the probe; the completion frames the probe delivered before apply.
Flip(p) ==
    LET IsData(f) == f.t = "DATA"
        IsReconciled(f) == f.t = "RECONCILED"
        q == [p EXCEPT !.wire = Probe(p), !.from = p.wire, !.here = FALSE, !.flipped = TRUE,
                       !.step = "joining", !.heldBeforeFlip = <<>>,
                       !.new = SelectSeq(p.heldBeforeFlip, IsData)]
        Apply(r, m) == IF AnswersAnother(r, m) THEN r ELSE TakeReconciled(r, m)
        applied == FoldLeft(Apply, q, SelectSeq(p.heldBeforeFlip, IsReconciled))
    IN  OnReconcileDue(TryComplete(applied))

\* emitBarrier: a streaming upload takes the barrier at once, batch POSTs once none is out.
\* The barrier's own POST delays the flip till it is answered.
EmitOrDrain(p) ==
    IF ~hplan.batch THEN Flip(EmitBarrier(p))
    ELSE IF hw[p.wire].up = <<>> /\ \A i \in DOMAIN p.out : p.out[i].w # p.wire
         THEN EmitBarrier(p)
    ELSE [p EXCEPT !.step = "draining"]

EnterCommitting(p) == EmitOrDrain([p EXCEPT !.st = "committing"])

Settled(p) == IF Ready(p) /\ ~p.reconciling THEN EnterCommitting(p) ELSE p

HandleReconciled(p, m) == IF AnswersAnother(p, m) THEN p ELSE Settled(TakeReconciled(p, m))

HeldFrames(p) == Len(p.heldBeforeFlip) + Len(p.old) + Len(p.new)

\* ingestDuringHandoff: the probe's frames before the flip, both wires' after it.
Ingest(p, f, w) ==
    LET q == IF ~p.flipped THEN [p EXCEPT !.heldBeforeFlip = Append(@, f)]
             ELSE IF w = p.from THEN [p EXCEPT !.old = Append(@, f)]
             ELSE [p EXCEPT !.new = Append(@, f)]
    IN  IF p.st # "committing" THEN p
        ELSE IF HeldFrames(q) <= hplan.holds THEN q
        ELSE IF p.flipped THEN FallbackToSse(q) ELSE AbortAttempt(q)

\* onProbeFrame
ProbeFrame(p, f) ==
    IF f.t # "READY" THEN Ingest(p, f, Probe(p))
    ELSE IF p.step # "preparing" THEN p
    ELSE Settled([p EXCEPT !.step = "settling"])

\* onTransportFrame
TransportFrame(p, f, w) ==
    CASE f.t = "FIN"        -> HandleFin(p)
      [] f.t = "RECONCILED" -> HandleReconciled(p, f)
      [] f.t = "DATA"       -> IF p.flipped THEN Ingest(p, f, w) ELSE HearFrame(p, f)

-----------------------------------------------------------------------------
(* The wires.  Each end learns of a close on its own.                       *)

PutUp(w, p) ==
    LET Its(e, l) == e.w = l
        of(l) == LET sends == SelectSeq(p.out, LAMBDA e : Its(e, l))
                 IN  [i \in DOMAIN sends |-> sends[i].f]
    IN  [l \in Links |->
           LET up == IF w[l].page = "open" /\ w[l].server = "open" THEN w[l].up \o of(l) ELSE w[l].up
           IN  IF l \in p.closed /\ w[l].page = "open"
               THEN [w[l] EXCEPT !.page = "closed", !.up = up, !.down = <<>>]
               ELSE [w[l] EXCEPT !.up = up]]

\* The page's turn ends: what its handlers sent goes on the wires.
PageTurn(p, w) ==
    /\ hp' = [p EXCEPT !.out = <<>>, !.closed = {}]
    /\ hw' = PutUp(w, p)
    /\ UNCHANGED <<hplan, hs>>

Down(w, l, frames) ==
    IF l # NoLink /\ w[l].server = "open" /\ w[l].page = "open"
    THEN [w EXCEPT ![l].down = @ \o frames] ELSE w

-----------------------------------------------------------------------------
(* The page                                                                 *)

PageSends ==
    /\ hp.sent < hplan.sends
    /\ LET p == [hp EXCEPT !.sent = @ + 1]
       IN  PageTurn(IF LinkSendsOpen(p) THEN DrainGate(p) ELSE p, hw)

\* Another channel registers, and owes the server a RECONCILE naming it.  "early": not between a
\* handoff's RECONCILED and its FIN, where the code forgets it (run handoff_owed).
PageRegisters ==
    /\ hplan.registers # "never" /\ ~hp.registered
    /\ hplan.registers = "early" => ~hp.committed
    /\ PageTurn([hp EXCEPT !.registered = TRUE,
                           !.owed = hp.conn = "open", !.due = hp.conn = "open"], hw)

\* The timer scheduleRegisterReconcile set.
RegisterTimer ==
    /\ hp.due
    /\ PageTurn(OnReconcileDue([hp EXCEPT !.due = FALSE]), hw)

\* The probe's first PONG came: PREPARE goes.
ProbeOpens ==
    /\ hp.step = "probing"
    /\ LET p == SendOn([hp EXCEPT !.step = "preparing"], Probe(hp),
                       <<[t |-> "PREPARE", id |-> hp.att, session |-> hp.session]>>)
       IN  PageTurn(p, [hw EXCEPT ![Probe(hp)].page = "open", ![Probe(hp)].server = "open"])

ProbeFails ==
    /\ hp.step = "probing"
    /\ PageTurn(RunEnds(hp, "aborted"), hw)

PageReads(l) ==
    /\ hw[l].page = "open" /\ hw[l].down # <<>>
    /\ LET f == Head(hw[l].down)
           w == [hw EXCEPT ![l].down = Tail(@)]
       IN  PageTurn(IF l = hp.wire \/ l = hp.from THEN TransportFrame(hp, f, l)
                    ELSE ProbeFrame(hp, f), w)

\* emitBarrierBatch: no POST is out any more; or the wait for it ended first.
OutboxDrained ==
    /\ hp.step = "draining" /\ hw[hp.wire].up = <<>>
    /\ PageTurn(IF hp.aborted THEN RunEnds(hp, "not-emitted") ELSE EmitBarrier(hp), hw)

DrainTimeout ==
    /\ hp.step = "draining" /\ "drain" \in hplan.timers /\ hw[hp.wire].up # <<>>
    /\ PageTurn(RunEnds(hp, "not-emitted"), hw)

\* The barrier's POST is answered: the server handled what it carried.
BarrierPosted ==
    /\ hp.step = "posting" /\ hw[hp.wire].up = <<>> /\ hs.pending.old # hp.wire
    /\ PageTurn(Flip(hp), hw)

\* It is lost, or its answer is: the page flips all the same.
BarrierPostFails ==
    /\ hp.step = "posting" /\ hs.breaks < hplan.breaks /\ "join" \in hplan.timers
    /\ hp' = [Flip(hp) EXCEPT !.out = <<>>, !.closed = {}]
    /\ hw' = PutUp([hw EXCEPT ![hp.wire].up = <<>>], Flip(hp))
    /\ hs' = [hs EXCEPT !.breaks = @ + 1]
    /\ UNCHANGED hplan

\* An attempt that ended without its barrier goes again once the outbox drained.
RetryUpgrade ==
    /\ hp.retry /\ (hp.wire # NoLink => hw[hp.wire].up = <<>>)
    /\ PageTurn(MaybeUpgrade([hp EXCEPT !.retry = FALSE]), hw)

AttemptDeadline ==
    /\ "deadline" \in hplan.timers
    /\ hp.step \in {"preparing", "settling", "draining", "posting"} /\ ~hp.aborted
    /\ PageTurn(AbortAttempt(hp), hw)

\* The FIN or the RECONCILED didn't come in time.
MayTimeOut == "join" \in hplan.timers /\ hp.flipped

JoinTimeout ==
    /\ MayTimeOut
    /\ PageTurn(FallbackToSse(hp), hw)

\* onWireClosed, of the wire, of the one a flip left, or of a probe.
Loses(p, l) ==
    IF l = p.wire THEN LoseCurrent(p)
    ELSE IF l = p.from THEN FallbackToSse(p)
    ELSE IF p.st # "none" /\ l = Probe(p) THEN AbortAttempt(p) ELSE p

\* The page sees l close: what it has not read is lost.
PageSeesClose(l) ==
    /\ hw[l].page = "open" /\ hw[l].server = "closed"
    /\ LET w == [hw EXCEPT ![l].page = "closed", ![l].down = <<>>]
       IN  PageTurn(Loses(hp, l), w)

\* A connection breaks, the page's end first.
PageLosesLink(l) ==
    /\ hw[l].page = "open" /\ hs.breaks < hplan.breaks
    /\ hs' = [hs EXCEPT !.breaks = @ + 1]
    /\ LET w == [hw EXCEPT ![l].page = "closed", ![l].down = <<>>]
           p == Loses(hp, l)
       IN  hp' = [p EXCEPT !.out = <<>>, !.closed = {}] /\ hw' = PutUp(w, p)
    /\ UNCHANGED hplan

\* The next SSE wire opens with the RECONCILE; its replay goes before what it holds.  A
\* reconnect outlasts the server's microtasks.
MayReconnect == hp.conn = "reconnecting" /\ hp.sse < hplan.sse /\ hs.pending = NoPending

PageReconnects ==
    /\ MayReconnect
    /\ LET l == hp.sse + 1
           p == SendReconcile([hp EXCEPT !.conn = "open", !.wire = l, !.sse = l])
       IN  PageTurn(p, [hw EXCEPT ![l].page = "open", ![l].server = "open"])

-----------------------------------------------------------------------------
(* The server                                                               *)

NoStage == [ph |-> "none", prev |-> NoLink]
Probes == {Ws(k) : k \in 1 .. hplan.attempts}
StagedFor(s, session) == {w \in Probes : s.stage[w].ph # "none" /\ s.stage[w].prev = session}

\* onWireClosed: the probe staged for its session goes; its channels wait for a reconnect.
CloseLink(s, l) ==
    LET abandoned == IF l \in s.sids THEN {w \in StagedFor(s, l) : s.stage[w].ph = "staged"} ELSE {}
    IN  [s EXCEPT !.stage = [w \in Probes |-> IF w = l \/ w \in abandoned THEN NoStage ELSE @[w]],
                  !.peer = IF @ = l THEN NoLink ELSE @]

Closing(w, S) == [l \in Links |-> IF l \in S THEN [w[l] EXCEPT !.server = "closed", !.up = <<>>]
                                  ELSE w[l]]

ServerTurn(s, w) == hs' = s /\ hw' = w /\ UNCHANGED <<hplan, hp>>

Breaks(s, why) == [s EXCEPT !.broken = @ \cup {why}]

\* claim: probes staged for the session are abandoned; a committing one refuses the claim.
Claimed(s, session) == {w \in StagedFor(s, session) : s.stage[w].ph = "staged"}
Abandoned(s, session) == Claimed(s, session)
Refuses(s, session) == \E w \in StagedFor(s, session) : s.stage[w].ph = "committing"

\* moveAwaited, reconcile and attachSession: the session moves to `l`.
AttachSession(s, l, session, last) ==
    [s EXCEPT !.sessions = (@ \ {session}) \cup {l}, !.sids = @ \cup {l}, !.peer = l]

Attached(s, l, id) == [t |-> "RECONCILED", id |-> id, session |-> l, got |-> s.lastSeq]

\* handlePrepare and stage: a newer PREPARE replaces what an earlier attempt left staged.
HandlePrepare(l, f, w) ==
    IF f.session \notin hs.sessions \/ Refuses(hs, f.session)
    THEN ServerTurn(CloseLink(hs, l), Closing(w, {l}))
    ELSE ServerTurn([hs EXCEPT !.stage = [q \in Probes |->
                         IF q = l THEN [ph |-> "staged", prev |-> f.session]
                         ELSE IF q \in StagedFor(hs, f.session) THEN NoStage ELSE @[q]]],
                    Down(Closing(w, StagedFor(hs, f.session)), l, <<[t |-> "READY", id |-> f.id]>>))

\* handleBarrier: one for no staged probe is refused in silence; the old wire is retired.
\* The stage stays committing until the RECONCILED goes, a microtask later.  Nothing is replayed:
\* the old wire, read up to its FIN, delivers it.
HandleBarrier(l, f, w) ==
    LET staged == {q \in StagedFor(hs, f.session) : hs.stage[q].ph = "staged"}
        probe == CHOOSE q \in staged : TRUE
    IN  IF staged = {} THEN ServerTurn(hs, w)
        ELSE IF Ws(f.id) # probe \/ l # f.session
        THEN ServerTurn(CloseLink(hs, probe), Closing(w, {probe}))
        ELSE ServerTurn([AttachSession(hs, probe, f.session, f.last)
                            EXCEPT !.stage[probe].ph = "committing", !.retired = @ \cup {l},
                                   !.pending = [probe |-> probe, old |-> l, id |-> f.id]], w)

\* sendReconciled: the RECONCILED on the new wire, then the FIN on the old one.
BarrierCommits ==
    /\ hs.pending # NoPending
    /\ LET o == hs.pending
       IN  ServerTurn([hs EXCEPT !.stage[o.probe] = NoStage, !.pending = NoPending],
                      Down(Down(hw, o.probe, <<Attached(hs, o.probe, o.id)>>), o.old,
                           <<[t |-> "FIN"]>>))

\* A RECONCILE on its session's wire names what changed.  One on a new wire claims the session,
\* and gets the frames it missed; `dies`: the wire ends under that replay.
HandleReconcile(l, f, w, dies) ==
    LET reconciled == AttachSession(hs, l, f.session, f.last)
        missed == Msgs(f.last + 1, hs.sent)
        gone == Abandoned(hs, f.session)
        s == [reconciled EXCEPT !.stage = [q \in Probes |-> IF q \in gone THEN NoStage ELSE @[q]],
                                !.lastSse = l]
    IN  IF f.changes
        THEN ~dies /\ ServerTurn(hs, Down(w, l, <<Attached(hs, l, 0)>>))
        ELSE IF Refuses(hs, f.session)
        THEN ~dies /\ ServerTurn(CloseLink(hs, l), Closing(w, {l}))
        ELSE IF dies
        THEN /\ missed # <<>> /\ hs.breaks < hplan.breaks
             /\ ServerTurn([s EXCEPT !.sessions = @ \ {l}, !.sids = @ \ {l}, !.peer = NoLink,
                                     !.breaks = @ + 1],
                           Closing(Down(w, l, missed), gone \cup {l}))
        ELSE ServerTurn(s, Closing(Down(w, l, Append(missed, Attached(hs, l, 0))), gone))

\* A channel's frame: a seq not newer than the last is a duplicate.
HandleData(l, f, w) ==
    LET why == IF l \in hs.retired THEN "after the barrier"
               ELSE IF l \in Probes /\ hs.stage[l].ph # "none" THEN "on a staged probe"
               ELSE IF l \notin hs.sids THEN "before the RECONCILE" ELSE "none"
    IN  IF why # "none"
        THEN ServerTurn(Breaks(CloseLink(hs, l), why), Closing(w, {l}))
        ELSE IF l \notin hs.sessions \/ f.n <= hs.lastSeq THEN ServerTurn(hs, w)
        ELSE ServerTurn([hs EXCEPT !.lastSeq = f.n, !.took = Append(@, f.n)], w)

\* While a barrier commits only what was read before it can run: a RECONCILE on another wire.  A
\* RECONCILE is read before a later wire's (run late_reconcile shows the other order).
ServerReads(l) ==
    /\ hw[l].server = "open" /\ hw[l].up # <<>>
    /\ LET f == Head(hw[l].up)
           w == [hw EXCEPT ![l].up = Tail(@)]
       IN  /\ hs.pending # NoPending => f.t = "RECONCILE"
           /\ \/ f.t = "DATA" /\ HandleData(l, f, w)
              \/ f.t = "PREPARE" /\ HandlePrepare(l, f, w)
              \/ f.t = "BARRIER" /\ HandleBarrier(l, f, w)
              \/ /\ f.t = "RECONCILE" /\ (IsSse(l) => l >= hs.lastSse)
                 /\ \E dies \in BOOLEAN : HandleReconcile(l, f, w, dies)

ServerSends ==
    /\ hs.sent < hplan.serverSends
    /\ ServerTurn([hs EXCEPT !.sent = @ + 1], Down(hw, hs.peer, <<Msg(hs.sent + 1)>>))

StageExpires(l) ==
    /\ "ttl" \in hplan.timers /\ hs.pending = NoPending /\ hs.stage[l].ph = "staged"
    /\ ServerTurn(CloseLink(hs, l), Closing(hw, {l}))

\* The server sees l close, after the page's end did.
ServerSeesClose(l) ==
    /\ hw[l].server = "open" /\ hw[l].page = "closed" /\ hs.pending = NoPending
    /\ ServerTurn(CloseLink(hs, l),
                  Closing(hw, {l} \cup (IF l \in hs.sids THEN Claimed(hs, l) ELSE {})))

HandoffNext ==
    \/ PageSends \/ PageRegisters \/ RegisterTimer \/ ProbeOpens \/ ProbeFails
    \/ OutboxDrained \/ DrainTimeout \/ BarrierPosted \/ BarrierPostFails \/ RetryUpgrade
    \/ AttemptDeadline \/ JoinTimeout \/ PageReconnects
    \/ BarrierCommits \/ ServerSends
    \/ \E l \in Links : PageReads(l) \/ PageSeesClose(l) \/ PageLosesLink(l)
                        \/ ServerReads(l) \/ ServerSeesClose(l)
    \/ \E l \in Probes : StageExpires(l)

-----------------------------------------------------------------------------
(* A wire delivers or closes, a POST is answered, timers fire, the server's  *)
(* microtasks run; a wire need not break, and the page's and the server's    *)
(* callers need not send.                                                    *)

PageHears == \E l \in Links : PageReads(l) \/ PageSeesClose(l)
PageMayHear ==
    \E l \in Links : hw[l].page = "open" /\ (hw[l].down # <<>> \/ hw[l].server = "closed")

ServerHears == \E l \in Links : ServerReads(l) \/ ServerSeesClose(l)
ServerMayHear ==
    /\ hs.pending = NoPending
    /\ \E l \in Links : hw[l].server = "open" /\ (hw[l].page = "closed" \/ hw[l].up # <<>>)

MayDrain == hp.step = "draining" /\ hw[hp.wire].up = <<>>
MayPost == hp.step = "posting" /\ hw[hp.wire].up = <<>> /\ hs.pending.old # hp.wire

\* Weak fairness of each: the first disjunct says that its step is not enabled.  (TLC is slow to
\* find ENABLED of a handler.)
HandoffFairness ==
    /\ []<>(hs.pending = NoPending) \/ []<><<BarrierCommits>>_hvars
    /\ []<>(~MayDrain) \/ []<><<OutboxDrained>>_hvars
    /\ []<>(~MayPost) \/ []<><<BarrierPosted>>_hvars
    /\ []<>(~hp.due) \/ []<><<RegisterTimer>>_hvars
    /\ []<>(~MayTimeOut) \/ []<><<JoinTimeout>>_hvars
    /\ []<>(~MayReconnect) \/ []<><<PageReconnects>>_hvars
    /\ []<>(hp.step # "probing") \/ []<><<ProbeOpens \/ ProbeFails>>_hvars

LinksDeliver ==
    /\ []<>(~PageMayHear) \/ []<><<PageHears>>_hvars
    /\ []<>(~ServerMayHear) \/ []<><<ServerHears>>_hvars

HandoffSpec == HandoffInit /\ [][HandoffNext]_hvars /\ HandoffFairness /\ LinksDeliver

-----------------------------------------------------------------------------
(* Properties                                                               *)

\* The handoff's state has its type: the attempt's step fits its stage, and nothing of an attempt
\* outlives it.
HandoffTypeOK ==
    /\ hp.conn \in {"open", "reconnecting"} /\ hp.st \in {"none", "staging", "committing"}
    /\ hp.step \in CASE hp.st = "none"    -> {"idle"}
                     [] hp.st = "staging" -> {"probing", "preparing", "settling"}
                     [] OTHER             -> {"draining", "posting", "joining"}
    /\ hp.flipped <=> hp.step = "joining"
    /\ hp.wire \in Links \cup {NoLink} /\ hp.from \in SseLinks \cup {NoLink}
    /\ hp.handed \in 0 .. hp.sent /\ hp.inFlight \in {"none", "changes", "full"}
    /\ hp.reconciling <=> hp.inFlight # "none"
    /\ hs.peer \in Links \cup {NoLink} /\ hs.sessions \subseteq hs.sids /\ hs.sids \subseteq Links
    /\ \A l \in Links : {hw[l].page, hw[l].server} \subseteq {"none", "open", "closed"}

\* What the page's handlers read of the server's frames is 1, 2, ... without a gap, whatever broke
\* and whichever wire carried each: no handoff drops, repeats or reorders one.
HeardInOrder == hp.heard = [i \in 1 .. Len(hp.heard) |-> i]

\* And what the server takes of the page's sends.
TookInOrder == hs.took = [i \in 1 .. Len(hs.took) |-> i]

\* The server never reads a frame that ends the wire as a protocol error: one behind the barrier,
\* one on a probe the session has not moved to, one before the wire's RECONCILE.
HandoffProtocolIsKept == hs.broken = {}

\* Where the page is reconciled and its wire is up at the server, the channels send on that wire.
AttachedWhereThePageIs ==
    /\ hp.conn = "open" /\ ~hp.reconciling /\ hp.st # "committing"
    /\ hw[hp.wire].page = "open" /\ hw[hp.wire].server = "open"
    => hs.peer = hp.wire

\* A handoff keeps every frame, its order and the protocol, and leaves the channels on one wire.
HandoffHolds ==
    /\ HandoffTypeOK /\ HeardInOrder /\ TookInOrder
    /\ HandoffProtocolIsKept /\ AttachedWhereThePageIs

\* A channel that registers during an attempt gets its RECONCILE: one owed "stays owed ... and the
\* wire's open and an upgrade attempt's end call this again.  A RECONCILED, the handoff's too, names
\* what registered meanwhile in its follow-up." (WireLifecycle.ts:163-166)
OwedGoes == hp.owed ~> ~hp.owed

\* A handoff settles, again and again: it ended, no RECONCILE is owed, and all that was sent on either
\* side of it arrived.  It is checked of channels that do not register between the handoff's RECONCILED
\* and its FIN: one that does may be left with its RECONCILE owed, as OwedGoes shows.
HandoffSettles ==
    []<>(/\ Len(hp.heard) = hs.sent /\ Len(hs.took) = hp.sent
         /\ hp.st # "committing" /\ ~hp.owed)

=============================================================================
