----------------------------- MODULE PageSession ----------------------------
(***************************************************************************)
(* The page's side of a connection over WebSockets: the channel table      *)
(* (client/ChannelTable.ts), the gate its sends pass (SendGate.ts), the    *)
(* RECONCILE exchange (AttachExchange.ts), the heartbeat (Liveness.ts) and *)
(* the wire's life (WireLifecycle.ts), as operators on the connection `p`. *)
(* A handler is one operator; what it sends collects in p.out, and the     *)
(* actions of ChannelSession put that on the wire.                         *)
(*                                                                         *)
(* The SSE transport and the upgrade to a WebSocket, broadcast             *)
(* subscriptions, probes and credit are not modelled here.                 *)
(***************************************************************************)
EXTENDS SessionWires

VARIABLE page

Null == -1          \* a PONG or ATTACH_RESULT whose lastSeq is null
NoAnswer == -2      \* no answer

NoRecord ==
    [tag |-> "none", initial |-> FALSE, delivered |-> FALSE, reported |-> FALSE,
     awaited |-> FALSE, undeclared |-> FALSE, lastSeq |-> 0, arrived |-> FALSE,
     rb |-> NewBuffer(plan.pageBudgets)]

NewRecord == [NoRecord EXCEPT !.tag = "pending", !.initial = TRUE, !.undeclared = TRUE]

NotInFlight == [ch \in Channels |-> "no"]
NoAnswers == [ch \in Channels |-> NoAnswer]

NewApp == [phase |-> "new", sent |-> 0, got |-> <<>>, why |-> "none"]

PageInit ==
    page = [state |-> "fresh", wire |-> NoWire, abandoned |-> NoWire,
            session |-> NoWire, reconciledHere |-> FALSE,
            reconciling |-> FALSE, owed |-> FALSE, timer |-> FALSE,
            inFlight |-> NotInFlight, attachResults |-> NoAnswers,
            rec |-> [ch \in Channels |-> NoRecord], released |-> {},
            held |-> <<>>, waiting |-> <<>>,
            app |-> [ch \in Channels |-> NewApp], out |-> <<>>]

Listed(p) == {ch \in Channels : p.rec[ch].tag # "none"}
Registered(p) == {ch \in Channels : p.rec[ch].tag \in {"pending", "open"}}
Closed(p) == {ch \in Channels : p.rec[ch].tag = "closed"}

-----------------------------------------------------------------------------
(* ChannelTable: the transitions of a record                                *)

OpenRecord(p, ch) == [p EXCEPT !.rec[ch].tag = "open", !.rec[ch].initial = FALSE]

\* unregister: the channel sends nothing more; its record stays until released.
Unregister(p, ch) ==
    IF ch \in Registered(p) THEN [p EXCEPT !.rec[ch].tag = "closed"] ELSE p

\* The channel ends (_onEnded, _end): once, and it unregisters.
End(p, ch, why) ==
    IF p.app[ch].phase # "open" THEN p
    ELSE Unregister([p EXCEPT !.app[ch].phase = "ended", !.app[ch].why = why], ch)

\* The server has what the closed channel sent through lastSeq.
ServerHas(rec, lastSeq) ==
    [rec EXCEPT !.initial = FALSE, !.rb = Acknowledge(@, lastSeq),
                !.delivered = @ \/ lastSeq >= rec.rb.issued]

\* release: drops the records of S and what they queued; a declared one is named
\* in the next RECONCILE's `released`.
Release(p, S) ==
    LET Kept(f) == f.ch \notin S
    IN  [p EXCEPT !.rec = [ch \in Channels |-> IF ch \in S THEN NoRecord ELSE @[ch]],
                  !.released = @ \cup {ch \in S : ~p.rec[ch].undeclared},
                  !.held = SelectSeq(@, Kept), !.waiting = SelectSeq(@, Kept)]

-----------------------------------------------------------------------------
(* SendGate.  A queued frame is [ch, e] with e its replay entry; a wire's   *)
(* headroom is the number of frames it takes.                               *)

SendsOpen(p) == p.state = "open" /\ ~p.reconciling /\ ~p.owed

\* settleQueue: while sends are held back, what waited for headroom is held again.
Settle(p) ==
    IF SendsOpen(p) THEN p ELSE [p EXCEPT !.held = p.waiting \o @, !.waiting = <<>>]

\* A wire takes the frame, and the replay stores it.
Take(p, f) ==
    [p EXCEPT !.rec[f.ch].rb = Push(@, f.e), !.out = Append(@, Frame(f.e.t, f.ch, f.e.seq))]

Fewer(n, m) == IF n < m THEN n ELSE m

SendWaiting(p, headroom) ==
    LET n == Fewer(headroom, Len(p.waiting))
    IN  FoldLeft(Take, [p EXCEPT !.waiting = SubSeq(@, n + 1, Len(@))], SubSeq(p.waiting, 1, n))

\* Mutant: a frame the wire has room for passes those that wait for more.
GateSendPast(p, f, headroom) ==
    IF ~SendsOpen(p) \/ p.rec[f.ch].awaited THEN [Settle(p) EXCEPT !.held = Append(@, f)]
    ELSE IF headroom > 0 THEN Take(SendWaiting(p, headroom), f)
    ELSE [p EXCEPT !.waiting = Append(@, f)]

GateSend(p, f, headroom) ==
    IF ~SendsOpen(p) \/ p.rec[f.ch].awaited THEN [Settle(p) EXCEPT !.held = Append(@, f)]
    ELSE IF headroom > Len(p.waiting) THEN Take(SendWaiting(p, headroom), f)
    ELSE SendWaiting([p EXCEPT !.waiting = Append(@, f)], headroom)

\* What the channels of S held goes; past the headroom it waits for it.
DrainHeld(p, S, headroom) ==
    LET Theirs(f) == f.ch \in S
        Others(f) == f.ch \notin S
        ready == SelectSeq(p.held, Theirs)
        n     == IF p.waiting = <<>> THEN Fewer(headroom, Len(ready)) ELSE 0
    IN  FoldLeft(Take, [p EXCEPT !.held = SelectSeq(@, Others),
                                 !.waiting = @ \o SubSeq(ready, n + 1, Len(ready))],
                 SubSeq(ready, 1, n))

Drain(p, S, headroom) == DrainHeld(Settle(p), S, headroom)

\* A channel sends a sequenced frame of `t`: it takes the next seq.
SendSequenced(p, ch, t, kind, headroom) ==
    LET e == [seq |-> p.rec[ch].rb.issued + 1, kind |-> kind, bytes |-> 1, t |-> t]
    IN  GateSend([p EXCEPT !.rec[ch].rb = NextSeq(@)], [ch |-> ch, e |-> e], headroom)

-----------------------------------------------------------------------------
(* AttachExchange                                                           *)

\* Mutant: any wire's RECONCILE names only what changed once there is a session.
HasSession(p) == p.session # NoWire

\* The wire has the session.
NamesChanges(p) == p.session # NoWire /\ p.reconciledHere

\* buildReconcileFrame: on the wire that has the session it names what changed, else
\* every record; a closed channel the server has in full is let go instead.
Reconcile(p) ==
    LET changes == NamesChanges(p)
        records == {ch \in Listed(p) : changes => p.rec[ch].undeclared \/ ch \in Closed(p)}
        gone    == {ch \in records : ch \in Closed(p) /\ p.rec[ch].delivered}
        named   == records \ gone
        q       == Release(p, gone)
        frame   == [t |-> "RECONCILE", session |-> p.session, changes |-> changes,
                    released |-> IF changes THEN q.released ELSE {},
                    open |-> {[ch |-> ch, lastSeq |-> p.rec[ch].lastSeq,
                               initial |-> p.rec[ch].initial] : ch \in named}]
    IN  [q EXCEPT !.reconciling = TRUE, !.owed = FALSE, !.timer = FALSE,
                  !.attachResults = NoAnswers, !.released = {},
                  !.inFlight = [ch \in Channels |->
                                  IF ch \notin named THEN "no"
                                  ELSE IF p.rec[ch].initial THEN "initial" ELSE "named"],
                  !.rec = [ch \in Channels |-> [@[ch] EXCEPT !.undeclared = @ /\ ch \notin named]],
                  !.out = Append(@, frame)]

\* loseChannel: the channel ends on both ends; the ERROR takes a seq, and no replay.
LoseChannel(p, ch) ==
    LET Kept(f) == f.ch # ch
    IN  End([p EXCEPT !.held = SelectSeq(@, Kept), !.waiting = SelectSeq(@, Kept),
                      !.rec[ch].rb = NextSeq(@),
                      !.out = Append(@, Frame("LOST", ch, p.rec[ch].rb.issued + 1))], ch, "lost")

ReplayTo(p, ch, lastSeq) ==
    LET rb == p.rec[ch].rb
    IN  IF HasAfter(rb, lastSeq, rb.issued)
        THEN [p EXCEPT !.out = @ \o Resent(ch, FramesAfter(rb, lastSeq, rb.issued))]
        ELSE IF ch \in Closed(p) /\ p.rec[ch].delivered THEN p
        ELSE LoseChannel(p, ch)

\* attachRecord: the record comes to the server's state, and replays what it lacks.
MatchServer(p, ch, lastSeq) ==
    IF ch \in Closed(p) THEN [p EXCEPT !.rec[ch] = ServerHas(@, lastSeq)]
    ELSE IF p.rec[ch].tag = "pending" THEN OpenRecord(p, ch) ELSE p

HasThrough(p, ch, lastSeq) == [p EXCEPT !.rec[ch].rb = Acknowledge(@, lastSeq)]

AttachRecord(p, ch, lastSeq) ==
    ReplayTo(HasThrough(MatchServer(p, ch, lastSeq), ch, lastSeq), ch, lastSeq)

CloseUnacknowledged(p, S) ==
    FoldSet(LAMBDA ch, q : End(q, ch, "unacknowledged"), Release(p, S), S)

\* settleAnswers: what the RECONCILED and the ATTACH_RESULTs before it say the server
\* has of each channel; an initial channel neither names is awaited.
AnswersOf(p, m) ==
    [ch \in Channels |->
        LET entries == {e \in m.open : e.ch = ch}
        IN  IF entries # {} THEN (CHOOSE e \in entries : TRUE).lastSeq ELSE p.attachResults[ch]]

HasUndeclared(p) == \E ch \in Channels : p.rec[ch].undeclared

TakeAnswers(p, m, named, answer) ==
    [p EXCEPT !.reconciledHere = TRUE, !.session = m.session, !.abandoned = NoWire,
              !.inFlight = NotInFlight, !.attachResults = NoAnswers,
              !.rec = [ch \in Channels |->
                         IF ch \in named \cap Listed(p)
                         THEN [@[ch] EXCEPT !.awaited =
                                 p.inFlight[ch] = "initial" /\ answer[ch] = NoAnswer]
                         ELSE @[ch]]]

SettleAnswers(p, named, answer) ==
    LET asked == {ch \in named \cap Listed(p) : ~p.rec[ch].awaited}
        has   == {ch \in asked : answer[ch] >= 0}
        gone  == asked \ has
    IN  CloseUnacknowledged(FoldSet(LAMBDA ch, q : AttachRecord(q, ch, answer[ch]),
                                    Release(p, gone \cap Closed(p)), has),
                            gone \ Closed(p))

DrainAttached(p, named, answer, headroom) ==
    Drain(p, {ch \in Listed(p) : IF ch \in named THEN answer[ch] >= 0
                                 ELSE ~p.rec[ch].undeclared /\ ~p.rec[ch].awaited}, headroom)

\* What was added meanwhile goes in the next RECONCILE, else the exchange is over.
EndExchange(p, more) == IF more THEN Reconcile(p) ELSE [p EXCEPT !.reconciling = FALSE]

\* With WireLifecycle's, which drops the abandoned wire.
HandleReconciled(p, m, headroom) ==
    LET named  == {ch \in Channels : p.inFlight[ch] # "no"}
        answer == AnswersOf(p, m)
    IN  EndExchange(DrainAttached(SettleAnswers(TakeAnswers(p, m, named, answer), named, answer),
                                  named, answer, headroom),
                    HasUndeclared(p))

\* Mutant: what was held for the awaited channel stays held.
HandleAttachResultOnly(p, ch, lastSeq, headroom) ==
    IF p.inFlight[ch] # "no" THEN [p EXCEPT !.attachResults[ch] = lastSeq]
    ELSE IF ~p.rec[ch].awaited THEN p
    ELSE LET q == [p EXCEPT !.rec[ch].awaited = FALSE]
         IN  IF lastSeq = Null THEN CloseUnacknowledged(q, {ch}) ELSE AttachRecord(q, ch, lastSeq)

HandleAttachResult(p, ch, lastSeq, headroom) ==
    IF p.inFlight[ch] # "no" THEN [p EXCEPT !.attachResults[ch] = lastSeq]
    ELSE IF ~p.rec[ch].awaited THEN p
    ELSE LET q == [p EXCEPT !.rec[ch].awaited = FALSE]
         IN  IF lastSeq = Null THEN CloseUnacknowledged(q, {ch})
             ELSE Drain(AttachRecord(q, ch, lastSeq), {ch}, headroom)

-----------------------------------------------------------------------------
(* Liveness                                                                 *)

HandlePong(p, ended) ==
    LET Tell(e, q) ==
            IF e.ch \notin Closed(q) THEN q
            ELSE IF e.lastSeq = Null THEN Release(q, {e.ch})
            ELSE [q EXCEPT !.rec[e.ch] = ServerHas(@, e.lastSeq)]
    IN  FoldSet(Tell, p, ended)

\* buildPing: names each closed channel the server attached; one a PING named before,
\* with nothing to replay or send, is let go.
Ping(p) ==
    LET candidates == {ch \in Closed(p) : ~p.rec[ch].initial}
        queued == {f.ch : f \in Range(p.held \o p.waiting)}
        done   == {ch \in candidates : p.rec[ch].reported /\ p.rec[ch].rb.stored = {}
                                       /\ ch \notin queued}
        listed == candidates \ done
        q      == Release(p, done)
    IN  [q EXCEPT !.rec = [ch \in Channels |-> [@[ch] EXCEPT !.reported = @ \/ ch \in listed]],
                  !.out = Append(@, [t |-> "PING",
                                     ended |-> {[ch |-> ch, lastSeq |-> p.rec[ch].lastSeq]
                                                : ch \in listed}])]

-----------------------------------------------------------------------------
(* WireLifecycle                                                            *)

\* The page stops: every record goes (dispose).
Dispose(p) ==
    [p EXCEPT !.state = "closed", !.wire = NoWire, !.abandoned = NoWire,
              !.owed = FALSE, !.timer = FALSE, !.reconciling = FALSE,
              !.inFlight = NotInFlight, !.attachResults = NoAnswers,
              !.rec = [ch \in Channels |-> NoRecord], !.released = {},
              !.held = <<>>, !.waiting = <<>>]

CloseAll(p) == Dispose(FoldSet(LAMBDA ch, q : End(q, ch, "gone"), p, Listed(p)))

\* forgetWire and cancelRegisterReconcile: the next wire's RECONCILE lists every record;
\* closed ones the server has in full go.
ForgetWire(p) ==
    Release([p EXCEPT !.wire = NoWire, !.reconciledHere = FALSE, !.reconciling = FALSE,
                      !.owed = FALSE, !.timer = FALSE,
                      !.inFlight = NotInFlight, !.attachResults = NoAnswers,
                      !.rec = [ch \in Channels |-> [@[ch] EXCEPT !.awaited = FALSE]]],
            {ch \in Closed(p) : p.rec[ch].delivered})

\* `givesUp`: the reconnect timeout is over.
Reconnect(p, givesUp) ==
    IF Listed(p) = {} THEN Dispose(p)
    ELSE IF givesUp THEN CloseAll(p)
    ELSE [p EXCEPT !.state = "reconnecting"]

\* handleTransportLoss
LoseWire(p, givesUp) == Reconnect(ForgetWire(p), givesUp)

\* closeRemoteChannel: the server ended the channel, so it needs nothing more.
CloseRemote(p, ch, why) ==
    LET q == Unregister(p, ch)
    IN  End([q EXCEPT !.rec[ch].delivered = TRUE], ch, why)

\* trackSeq: a frame not newer than the last.
Duplicate(p, f) == f.seq <= p.rec[f.ch].lastSeq

\* dispatchFrame
DispatchSequenced(p, f) ==
    LET q == [p EXCEPT !.rec[f.ch].lastSeq = f.seq]
    IN  IF f.ch \notin Listed(p) \/ Duplicate(p, f) THEN p
        ELSE IF f.t = "DATA"
             THEN IF f.ch \in Closed(p) THEN q
                  ELSE [q EXCEPT !.app[f.ch].got = Append(@, f.seq), !.rec[f.ch].arrived = TRUE]
        ELSE CloseRemote(q, f.ch, f.t)

DispatchToPage(p, f, headroom) ==
    CASE Sequenced(f)          -> DispatchSequenced(p, f)
      [] f.t = "WINDOW"        -> IF f.ch \notin Listed(p) THEN p
                                  ELSE [p EXCEPT !.rec[f.ch].rb = Acknowledge(@, f.lastSeq)]
      [] f.t = "RECONCILED"    -> HandleReconciled(p, f, headroom)
      [] f.t = "ATTACH_RESULT" -> HandleAttachResult(p, f.ch, f.lastSeq, headroom)
      [] f.t = "PONG"          -> HandlePong(p, f.ended)
=============================================================================
