---------------------------- MODULE ServerSession ---------------------------
(***************************************************************************)
(* The server's side (server/ChannelMux.ts): its channels                  *)
(* (ServerChannel.ts), the sessions that hold them (SessionRegistry.ts),   *)
(* the channels a wire awaits (AwaitedChannels.ts, RegistrationWaits.ts)   *)
(* and the ended channels it keeps (EndedChannels.ts), as operators on the *)
(* mux `s`.  What a handler sends collects in s.out, per wire.             *)
(*                                                                         *)
(* A session is named by the wire it was made on: a RECONCILE makes a new  *)
(* session unless its wire has the session it names, and a page never      *)
(* names another one there (ProtocolIsKept).  Close handshakes,         *)
(* pending-send limits and upgrades are not modelled here.                 *)
(***************************************************************************)
EXTENDS SessionWires

VARIABLE server

\* Not in the mux; a replay buffer once registered.
NewChannel(ch) ==
    [phase |-> IF ch \in plan.pageMade THEN "none" ELSE "open",
     registered |-> FALSE, hasReplay |-> FALSE, rb |-> NewBuffer(plan.serverBudgets),
     peer |-> NoWire, timer |-> "none", kept |-> "no",
     lastClient |-> 0, pageLast |-> 0, pageClosed |-> FALSE, arrived |-> FALSE,
     offline |-> 0, pendingAbort |-> FALSE,
     answered |-> FALSE, sent |-> 0, got |-> <<>>, why |-> "none"]

\* `ahead`: how many frames of the wire come before the settle of an attached one.
NotAwaited == [phase |-> "none", held |-> <<>>, lastSeq |-> 0, ahead |-> 0]
NoReply == [pending |-> FALSE, open |-> {}]
NothingSent == [w \in Wires |-> <<>>]

ServerInit ==
    server = [chan |-> [ch \in Channels |-> NewChannel(ch)],
              session |-> [w \in Wires |-> {}],       \* SessionRegistry, by session
              named |-> [w \in Wires |-> FALSE],      \* the wire's getSessionId
              holds |-> [w \in Wires |-> FALSE],      \* sessionWires: its wire holds the session
              awaited |-> [w \in Wires |-> [ch \in Channels |-> NotAwaited]],
              waits |-> [ch \in Channels |-> <<>>],   \* RegistrationWaits, in order
              reply |-> [w \in Wires |-> NoReply],    \* a RECONCILED about to go out
              handles |-> {}, out |-> NothingSent]

Send(s, w, f) == [s EXCEPT !.out[w] = Append(@, f)]

\* IndexedPeer.sendSequenced: the next seq, the replay, then the wire.
PeerSend(s, w, ch, t, kind) ==
    LET seq == s.chan[ch].rb.issued + 1
        e   == [seq |-> seq, kind |-> kind, bytes |-> 1, t |-> t]
    IN  Send([s EXCEPT !.chan[ch].rb = Push(NextSeq(@), e)], w, Frame(t, ch, seq))

-----------------------------------------------------------------------------
(* Ended channels                                                           *)

\* _release: the replay and what was buffered go.
DropAll(s, ch) ==
    [s EXCEPT !.chan[ch].hasReplay = FALSE, !.chan[ch].rb = NewBuffer(plan.serverBudgets),
              !.chan[ch].offline = 0, !.chan[ch].pendingAbort = FALSE]

\* unregisterChannel: it leaves the mux and every session.
Forget(s, ch) ==
    [s EXCEPT !.chan[ch].registered = FALSE,
              !.session = [w \in Wires |-> @[w] \ {ch}]]

\* EndedChannels.release, with onRelease.
LetGo(s, ch) == DropAll(Forget([s EXCEPT !.chan[ch].kept = "no"], ch), ch)

\* pageNeedsNothing
PageNeedsNothing(c) ==
    /\ c.hasReplay
    /\ c.pageClosed \/ (c.pageLast >= c.rb.issued /\ c.offline = 0 /\ ~c.pendingAbort)

\* shutdown, with onChannelEnded: the channel is kept for a page that may still
\* attach and lacks something.
Shutdown(s, ch, pageGone, why) ==
    LET c     == s.chan[ch]
        ended == [s EXCEPT !.chan[ch] = [@ EXCEPT !.phase = "ended", !.peer = NoWire,
                                                  !.timer = "none", !.arrived = FALSE,
                                                  !.why = why]]
        keep  == ~pageGone /\ ~PageNeedsNothing(c)
        rest  == IF keep THEN ended ELSE DropAll(ended, ch)
    IN  IF c.phase = "ended" THEN s
        ELSE IF ~c.registered THEN rest
        ELSE IF keep THEN [rest EXCEPT !.chan[ch].kept = IF c.peer # NoWire THEN "attached" ELSE "timed"]
        ELSE Forget(rest, ch)

-----------------------------------------------------------------------------
(* Attaching and detaching                                                  *)

\* onPageHas
PageHas(s, ch, lastSeq) ==
    [s EXCEPT !.chan[ch].pageLast = IF lastSeq > @ THEN lastSeq ELSE @,
              !.chan[ch].rb = IF s.chan[ch].hasReplay THEN Acknowledge(@, lastSeq) ELSE @]

\* offlineBuffer.flush: what was buffered goes to the peer on w.
FlushOffline(s, w, ch) ==
    FoldSet(LAMBDA i, q : PeerSend(q, w, ch, "DATA", "text"),
            [s EXCEPT !.chan[ch].offline = 0], 1 .. s.chan[ch].offline)

SendPendingEnd(s, w, ch) ==
    IF ~s.chan[ch].pendingAbort THEN s
    ELSE [PeerSend(s, w, ch, "ABORT", "closing") EXCEPT !.chan[ch].pendingAbort = FALSE]

\* Mutant: the pending end goes before what was buffered.
FlushEndFirst(s, w, ch) == FlushOffline(SendPendingEnd(s, w, ch), w, ch)

Flush(s, w, ch) == SendPendingEnd(FlushOffline(s, w, ch), w, ch)

\* _attachPeer: an ended channel only sends what it produced while no page was attached.
AttachPeer(s, w, ch) ==
    Flush(IF s.chan[ch].phase = "ended" THEN s
          ELSE [s EXCEPT !.chan[ch].timer = "none", !.chan[ch].peer = w], w, ch)

\* _onReplayLost: what was buffered goes, the page gets a LOST error, the channel ends.
ReplayLost(s, w, ch) ==
    Shutdown(PeerSend([s EXCEPT !.chan[ch].offline = 0, !.chan[ch].pendingAbort = FALSE],
                      w, ch, "LOST", "closing"), ch, FALSE, "lost")

\* The page gets what it lacks, and the peer; a replay that has not all of it is lost.
AttachReplaying(s, w, entry, replay) ==
    LET rb == s.chan[entry.ch].rb
    IN  IF replay /\ ~HasAfter(rb, entry.lastSeq, rb.issued) THEN ReplayLost(s, w, entry.ch)
        ELSE AttachPeer(IF ~replay THEN s
                        ELSE [s EXCEPT !.out[w] =
                                @ \o Resent(entry.ch, FramesAfter(rb, entry.lastSeq, rb.issued))],
                        w, entry.ch)

\* attachChannel: the session gets the channel (s.handles) unless its replay is gone.
AttachChannel(s, w, entry, replay) ==
    IF ~s.chan[entry.ch].hasReplay THEN s
    ELSE [AttachReplaying(PageHas(s, entry.ch, entry.lastSeq), w, entry, replay) EXCEPT
            !.handles = @ \cup {entry.ch},
            !.chan[entry.ch].kept = IF @ = "no" THEN "no" ELSE "attached"]

\* Mutants: the wire's close detaches a channel another wire has; no timer starts.
DisconnectAnyWire(s, w, ch) ==
    IF s.chan[ch].phase = "ended" THEN s
    ELSE [s EXCEPT !.chan[ch].peer = NoWire, !.chan[ch].timer = "reconnect",
                   !.chan[ch].arrived = FALSE]
DisconnectForever(s, w, ch) ==
    IF s.chan[ch].phase = "ended" \/ s.chan[ch].peer # w THEN s
    ELSE [s EXCEPT !.chan[ch].peer = NoWire, !.chan[ch].arrived = FALSE]

\* _onPeerDisconnect: a channel a later RECONCILE moved to another wire stays there.
Disconnect(s, w, ch) ==
    IF s.chan[ch].phase = "ended" \/ s.chan[ch].peer # w THEN s
    ELSE [s EXCEPT !.chan[ch].peer = NoWire, !.chan[ch].timer = "reconnect",
                   !.chan[ch].arrived = FALSE]

\* detachHandle: the handle of ch in session w.
DetachHandle(s, w, ch, reason) ==
    IF s.chan[ch].kept # "no"
    THEN IF reason = "transient" THEN [s EXCEPT !.chan[ch].kept = "timed"] ELSE LetGo(s, ch)
    ELSE IF reason = "transient" THEN Disconnect(s, w, ch)
    ELSE IF s.chan[ch].phase = "ended" THEN s
    ELSE Shutdown([s EXCEPT !.chan[ch].peer = NoWire], ch, TRUE, reason)

DetachAll(s, w, chs, reason) ==
    FoldSet(LAMBDA ch, q : DetachHandle(q, w, ch, reason), s, chs)

-----------------------------------------------------------------------------
(* Awaited channels                                                         *)

\* The wire awaits none of chs, and what it held for them goes.
ForgetAwaited(s, w, chs) ==
    [s EXCEPT !.awaited[w] = [ch \in Channels |-> IF ch \in chs THEN NotAwaited ELSE @[ch]],
              !.waits = [ch \in Channels |-> IF ch \in chs THEN Remove(@[ch], w) ELSE @[ch]]]

\* expireAwaited: an ATTACH_RESULT null; never awaited again on this wire.
ExpireAwaited(s, w, ch) ==
    Send([s EXCEPT !.awaited[w][ch].phase = "expired", !.awaited[w][ch].held = <<>>,
                   !.waits[ch] = Remove(@, w)],
         w, [t |-> "ATTACH_RESULT", ch |-> ch, lastSeq |-> -1])

\* Its settle goes to the end of the wire's recvChain, behind the frames that arrived.
QueueSettle(s, w, ch, arrived) ==
    IF ch \notin s.handles THEN ExpireAwaited(s, w, ch)
    ELSE [s EXCEPT !.handles = {}, !.session[w] = @ \cup {ch},
                   !.awaited[w][ch].phase = "attached", !.awaited[w][ch].ahead = arrived]

AttachAwaited(s, w, ch, arrived) ==
    QueueSettle(AttachChannel([s EXCEPT !.handles = {}, !.waits[ch] = Remove(@, w)], w,
                              [ch |-> ch, lastSeq |-> s.awaited[w][ch].lastSeq], FALSE),
                w, ch, arrived)

\* registerChannel: the channel becomes addressable, and each wire that waits attaches it.
Register(s, ch, arrived) ==
    LET c == s.chan[ch]
        r == [s EXCEPT !.chan[ch] =
                [@ EXCEPT !.registered = TRUE, !.hasReplay = TRUE, !.answered = TRUE,
                          !.phase = IF c.phase = "none" THEN "open" ELSE @,
                          !.timer = IF c.phase = "ended" THEN "none" ELSE "connect",
                          !.kept = IF c.phase = "ended" THEN "timed" ELSE "no"]]
    IN  FoldLeft(LAMBDA q, w : AttachAwaited(q, w, ch, arrived[w]), r, s.waits[ch])

-----------------------------------------------------------------------------
(* RECONCILE                                                                *)

\* attach: an awaited channel's later entry replaces its first; one not registered yet
\* is awaited if the page calls it initial.
Attach(s, w, entry, replay) ==
    LET ch == entry.ch
        a  == s.awaited[w][ch].phase
        t  == IF a = "none" THEN s ELSE [s EXCEPT !.awaited[w][ch].lastSeq = entry.lastSeq]
    IN  IF a \in {"waiting", "expired"} THEN t
        ELSE IF s.chan[ch].registered THEN AttachChannel(t, w, entry, replay)
        ELSE IF ~entry.initial \/ a # "none" THEN t
        ELSE [t EXCEPT !.awaited[w][ch] = [phase |-> "waiting", held |-> <<>>,
                                           lastSeq |-> entry.lastSeq, ahead |-> 0],
                       !.waits[ch] = Append(@, w)]

\* attachSession: what the previous session had and the page left out ends.
AttachSession(s, w, m) ==
    LET had == UNION {s.session[v] : v \in Wires \cap {m.session}}
        ended == DetachAll([s EXCEPT !.session = [v \in Wires |-> IF v = m.session THEN {} ELSE @[v]]],
                           m.session, had \ s.handles, "recoveryFailed")
    IN  [ForgetAwaited(ended, w, Channels \ {e.ch : e \in m.open}) EXCEPT !.session[w] = s.handles]

\* attachChanges: the session gets what attached and loses what the page released.
AttachChanges(s, w, m) ==
    LET mine == s.session[w] \cup s.handles
    IN  ForgetAwaited(DetachAll([s EXCEPT !.session[w] = mine \ m.released], w,
                                mine \cap m.released, "recoveryFailed"), w, m.released)

\* s.handles: what attached.
AttachHandles(s, w, m) ==
    [(IF m.changes THEN AttachChanges(s, w, m) ELSE AttachSession(s, w, m)) EXCEPT
        !.holds = [v \in Wires |-> v = w \/ (v # m.session /\ @[v])],
        !.named[w] = TRUE, !.handles = {},
        !.reply[w] = [pending |-> TRUE, open |-> s.handles]]

HandleReconcile(s, w, m) ==
    LET same == m.session # NoWire /\ m.session = w /\ s.named[w]
    IN  AttachHandles(FoldSet(LAMBDA e, q : Attach(q, w, e, ~same), [s EXCEPT !.handles = {}], m.open),
                      w, m)

\* sendReconciled: each lastSeq is read as it goes out.
SendReconciled(s, w) ==
    Send([s EXCEPT !.reply[w] = NoReply], w,
         [t |-> "RECONCILED", session |-> w,
          open |-> {[ch |-> ch, lastSeq |-> s.chan[ch].lastClient] : ch \in s.reply[w].open}])

-----------------------------------------------------------------------------
(* Channel frames, PING and the wire's close                                *)

\* _dispatchFrame: an ended channel only tracks the page's last seq.
DispatchToChannel(s, f) ==
    LET c == s.chan[f.ch]
        q == IF Sequenced(f) THEN [s EXCEPT !.chan[f.ch].lastClient = f.seq] ELSE s
    IN  IF Sequenced(f) /\ f.seq <= c.lastClient THEN s
        ELSE IF c.phase = "ended" THEN q
        ELSE CASE f.t = "DATA"   -> [q EXCEPT !.chan[f.ch].got = Append(@, f.seq),
                                              !.chan[f.ch].arrived = TRUE]
               [] f.t = "WINDOW" -> PageHas(q, f.ch, f.lastSeq)
               [] f.t \in {"ABORT", "LOST"} -> Shutdown(q, f.ch, TRUE, f.t)

Dispatch(s, w, f) == IF f.ch \in s.session[w] THEN DispatchToChannel(s, f) ELSE s

\* A frame for a channel the wire awaits is held until the channel attaches.
HandleChannelFrame(s, w, f) ==
    IF s.awaited[w][f.ch].phase \in {"waiting", "attached"}
    THEN [s EXCEPT !.awaited[w][f.ch].held = Append(@, f)]
    ELSE Dispatch(s, w, f)

\* The i-th frame of w left the queue.
Dequeued(s, w, i) ==
    [s EXCEPT !.awaited[w] = [ch \in Channels |-> [@[ch] EXCEPT !.ahead = IF i <= @ THEN @ - 1 ELSE @]]]

DispatchHeld(s, w, ch) ==
    FoldLeft(LAMBDA q, f : Dispatch(q, w, f),
             [s EXCEPT !.awaited[w][ch] = NotAwaited], s.awaited[w][ch].held)

SendAttachResult(s, w, ch) ==
    Send(s, w, [t |-> "ATTACH_RESULT", ch |-> ch, lastSeq |-> s.chan[ch].lastClient])

\* settle: what was held is dispatched, then the ATTACH_RESULT goes.
SettleAwaited(s, w, ch) == SendAttachResult(DispatchHeld(s, w, ch), w, ch)

\* answerPing: an ended channel the page closed is let go.
AnswerPing(s, w, ended) ==
    LET mine     == IF s.named[w] /\ s.holds[w] THEN ended ELSE {}
        here     == {e \in mine : e.ch \in s.session[w]}
        noted    == FoldSet(LAMBDA e, q : [PageHas(q, e.ch, e.lastSeq) EXCEPT
                                             !.chan[e.ch].pageClosed = TRUE], s, here)
        released == {e \in here : s.chan[e.ch].kept # "no"}
        q        == FoldSet(LAMBDA e, r : LetGo(r, e.ch), noted, released)
    IN  Send(q, w, [t |-> "PONG",
                    ended |-> {[ch |-> e.ch,
                                lastSeq |-> IF e \in here \ released THEN q.chan[e.ch].lastClient
                                            ELSE -1] : e \in mine}])

\* onWireClosed, with detachSession: a transient close keeps the session's entries.
OnWireClosed(s, w, permanent) ==
    LET q    == [ForgetAwaited(s, w, Channels) EXCEPT !.reply[w] = NoReply]
        gone == IF permanent THEN [q EXCEPT !.session[w] = {}] ELSE q
    IN  IF ~s.named[w] THEN q
        ELSE [DetachAll(gone, w, s.session[w], IF permanent THEN "permanent" ELSE "transient")
                EXCEPT !.holds[w] = FALSE]
=============================================================================
