---------------------------- MODULE ChannelSession --------------------------
(***************************************************************************)
(* A page's connection and the server, over wires that close, stall and    *)
(* are replaced: one action per handler of PageSession and ServerSession,  *)
(* with the frames it sends put on the wire.                               *)
(*                                                                         *)
(* Faults are counted in `breaks`: a connection attempt that fails, an end *)
(* that closes on its own, a wire the page drops because an answer is late *)
(* (it still delivers).  An end that follows the other's close is none.    *)
(***************************************************************************)
EXTENDS PageSession, ServerSession

VARIABLE breaks

vars == <<page, server, wires, breaks, plan>>

Init == plan \in Plans /\ WiresInit /\ PageInit /\ ServerInit /\ breaks = 0

Break == breaks < plan.breaks /\ breaks' = breaks + 1

-----------------------------------------------------------------------------
(* Steps of the page                                                        *)

\* A page that stops closes its wires: the current one says that it left.
CloseWires(ws) ==
    [w \in Wires |->
        LET last == IF ws[w].page = "abandoned" THEN <<>> ELSE <<PageLeft>>
        IN  IF ws[w].page = "none" THEN ws[w] ELSE ClosePageEnd(ws, w, last)[w]]

PagePuts(p, ws) ==
    LET sent == SendUp(ws, p.wire, p.out)
    IN  /\ page' = [p EXCEPT !.out = <<>>]
        /\ wires' = IF p.state = "closed" THEN CloseWires(sent) ELSE sent
        /\ UNCHANGED server

\* transport.start(): the next wire connects.
NextWire == Cardinality(Used) + 1

Start(p) ==
    /\ NextWire <= plan.wires
    /\ PagePuts([p EXCEPT !.wire = NextWire], [wires EXCEPT ![NextWire].page = "connecting"])

\* The page constructs the channel of a request's argument, or the one a response named.
PageRegisters(ch) ==
    LET p == [page EXCEPT !.app[ch].phase = "open", !.rec[ch] = NewRecord]
    IN  /\ page.state # "closed" /\ page.app[ch].phase = "new"
        /\ ch \in plan.pageMade \/ server.chan[ch].answered
        /\ IF page.wire = NoWire THEN Start(p)
           ELSE PagePuts([p EXCEPT !.owed = TRUE, !.timer = TRUE], wires)
        /\ UNCHANGED breaks

ReconnectTimer ==
    /\ page.state = "reconnecting" /\ page.wire = NoWire
    /\ Start(page)
    /\ UNCHANGED breaks

WireOpens(w) ==
    /\ wires[w].page = "connecting"
    /\ PagePuts(Reconcile([page EXCEPT !.state = "open"]),
                [wires EXCEPT ![w].page = "open", ![w].server = "open"])
    /\ UNCHANGED breaks

ConnectFails(w) ==
    /\ wires[w].page = "connecting" /\ Break
    /\ \E givesUp \in {FALSE, plan.timeouts /\ page.state = "reconnecting"} :
         PagePuts(LoseWire(page, givesUp), [wires EXCEPT ![w].page = "none"])

\* The page's end of a wire closes: on its own, or after the server's.
PageSeesClose(w) ==
    /\ wires[w].page \in {"open", "abandoned"}
    /\ IF wires[w].server = "closed" THEN UNCHANGED breaks ELSE Break
    /\ PagePuts(IF page.wire = w THEN LoseWire(page, FALSE)
                ELSE [page EXCEPT !.abandoned = NoWire],
                ClosePageEnd(wires, w, <<>>))

\* A RECONCILED or a PONG is late: the page abandons the wire and an earlier one closes.
PageDropsWire ==
    /\ page.state = "open" /\ Break
    /\ PagePuts(LoseWire([page EXCEPT !.abandoned = page.wire], FALSE),
                [ClosePageEnd(wires, page.abandoned, <<>>) EXCEPT ![page.wire].page = "abandoned"])

\* The page reads a frame.  A RECONCILED on an abandoned wire answers a RECONCILE that
\* the next wire's replaced; one on the current wire closes the abandoned one.
PageReads(w, headroom) ==
    LET f  == Head(wires[w].down)
        ws == [wires EXCEPT ![w].down = Tail(@)]
    IN  /\ wires[w].page \in {"open", "abandoned"} /\ wires[w].down # <<>>
        /\ PagePuts(IF f.t = "RECONCILED" /\ page.wire # w THEN page
                    ELSE DispatchToPage(page, f, headroom),
                    IF f.t = "RECONCILED" /\ page.wire = w
                    THEN ClosePageEnd(ws, page.abandoned, <<>>) ELSE ws)
        /\ UNCHANGED breaks

PageSendsData(ch, headroom) ==
    /\ page.app[ch].phase = "open" /\ page.app[ch].sent < plan.pageSends
    /\ PagePuts([SendSequenced(page, ch, "DATA", "text", headroom) EXCEPT !.app[ch].sent = @ + 1],
                wires)
    /\ UNCHANGED breaks

PageAborts(ch, headroom) ==
    /\ <<"page", ch>> \in plan.aborts /\ page.app[ch].phase = "open"
    /\ PagePuts(End(SendSequenced(page, ch, "ABORT", "closing", headroom), ch, "aborted"), wires)
    /\ UNCHANGED breaks

\* The task that registered a channel is over: onReconcileDue.
RegisterTimer ==
    LET p == [page EXCEPT !.timer = FALSE]
    IN  /\ page.timer
        /\ PagePuts(IF page.owed /\ page.state = "open" /\ ~page.reconciling
                    THEN Reconcile(p) ELSE p, wires)
        /\ UNCHANGED breaks

WireHeadroom(headroom) ==
    /\ SendsOpen(page) /\ page.waiting # <<>> /\ headroom > 0
    /\ PagePuts(SendWaiting(page, headroom), wires)
    /\ UNCHANGED breaks

\* A heartbeat.  Bound: one PING or PONG at a time, and none while no channel is closed
\* (it would name none).
MayPing ==
    /\ page.state = "open" /\ Closed(page) # {}
    /\ \A i \in 1 .. Len(wires[page.wire].up) : wires[page.wire].up[i].t # "PING"
    /\ \A i \in 1 .. Len(wires[page.wire].down) : wires[page.wire].down[i].t # "PONG"

PagePings ==
    /\ MayPing
    /\ PagePuts(Ping(page), wires)
    /\ UNCHANGED breaks

\* A WINDOW acknowledges what arrived; credit decides when (flowControl/ReceiveCredit.ts).
PageAcknowledges(ch) ==
    /\ page.rec[ch].arrived /\ ch \in Registered(page)
    /\ SendsOpen(page) /\ ~page.rec[ch].awaited
    /\ PagePuts([page EXCEPT !.rec[ch].arrived = FALSE,
                             !.out = <<Window(ch, page.rec[ch].lastSeq)>>], wires)
    /\ UNCHANGED breaks

\* No channel is open and nothing waits: after a while the page disposes the connection.
\* A RECONCILE not answered by then, or a dead wire, had its deadline pass before.
MayDispose ==
    /\ page.state = "open" /\ ~page.reconciling /\ Registered(page) = {}
    /\ wires[page.wire].server = "open"
    /\ page.held = <<>> /\ page.waiting = <<>>

IdleTimer ==
    /\ MayDispose
    /\ PagePuts(Dispose(page), wires)
    /\ UNCHANGED breaks

PageLeaves ==
    /\ plan.timeouts /\ page.state \in {"open", "reconnecting"}
    /\ PagePuts(CloseAll(page), wires)
    /\ UNCHANGED breaks

-----------------------------------------------------------------------------
(* Steps of the server                                                      *)

ServerPuts(s, ws) ==
    /\ server' = [s EXCEPT !.out = NothingSent]
    /\ wires' = SendDown(ws, s.out)
    /\ UNCHANGED page

\* The request's argument, or the response, that carries the channel is handled.
MayRegister(ch) == ~server.chan[ch].answered /\ (ch \in plan.pageMade => page.app[ch].phase # "new")

ServerRegisters(ch) ==
    /\ MayRegister(ch)
    /\ ServerPuts(Register(server, ch, [w \in Wires |-> Len(wires[w].up)]), wires)
    /\ UNCHANGED breaks

\* sendData: to the page, or buffered while none is attached.
ServerSendsData(ch) ==
    LET c == server.chan[ch]
        s == [server EXCEPT !.chan[ch].sent = @ + 1]
    IN  /\ c.phase = "open" /\ c.sent < plan.serverSends
        /\ ServerPuts(IF c.peer # NoWire THEN PeerSend(s, c.peer, ch, "DATA", "text")
                      ELSE [s EXCEPT !.chan[ch].offline = @ + 1], wires)
        /\ UNCHANGED breaks

ServerAborts(ch) ==
    LET c == server.chan[ch]
        s == IF c.peer # NoWire THEN PeerSend(server, c.peer, ch, "ABORT", "closing")
             ELSE [server EXCEPT !.chan[ch].pendingAbort = TRUE]
    IN  /\ <<"server", ch>> \in plan.aborts /\ c.phase = "open"
        /\ ServerPuts(Shutdown(s, ch, FALSE, "aborted"), wires)
        /\ UNCHANGED breaks

\* The server handles the oldest frame of a wire, after the settles queued before it.
ServerMayRead(w) ==
    LET t == Head(wires[w].up).t
    IN  /\ wires[w].server = "open" /\ wires[w].up # <<>> /\ t \notin {"PING", "PAGE_LEFT"}
        /\ \A ch \in Channels :
             server.awaited[w][ch].phase = "attached" => server.awaited[w][ch].ahead > 0
        /\ t = "RECONCILE" => plan.lateReconciles \/ \A v \in w + 1 .. plan.wires : ~server.named[v]

ServerReads(w) ==
    LET f  == Head(wires[w].up)
        s  == Dequeued(server, w, 1)
        ws == [wires EXCEPT ![w].up = Tail(@)]
    IN  /\ ServerMayRead(w)
        /\ ServerPuts(IF f.t = "RECONCILE" THEN HandleReconcile(s, w, f)
                      ELSE HandleChannelFrame(s, w, f), ws)
        /\ UNCHANGED breaks

\* A PING skips the frames that wait for their handlers.
ServerReadsPing(w) ==
    LET up == wires[w].up
    IN  /\ wires[w].server = "open"
        /\ \E i \in 1 .. Len(up) :
             /\ up[i].t = "PING"
             /\ ServerPuts(AnswerPing(Dequeued(server, w, i), w, up[i].ended),
                           [wires EXCEPT ![w].up = RemoveAt(@, i)])
        /\ UNCHANGED breaks

\* The close that says the page left skips them too; an idle page's comes long after them.
PageHasLeft(w) ==
    /\ wires[w].server = "open"
    /\ \E i \in 1 .. Len(wires[w].up) : wires[w].up[i].t = "PAGE_LEFT" /\ (plan.timeouts \/ i = 1)

ServerSeesPageLeave(w) ==
    /\ PageHasLeft(w)
    /\ ServerPuts(OnWireClosed(server, w, TRUE), CloseServerEnd(wires, w))
    /\ UNCHANGED breaks

ServerReplies(w) ==
    /\ server.reply[w].pending
    /\ ServerPuts(SendReconciled(server, w), wires)
    /\ UNCHANGED breaks

ServerSettles(w, ch) ==
    /\ server.awaited[w][ch].phase = "attached"
    /\ ServerPuts(SettleAwaited(server, w, ch), wires)
    /\ UNCHANGED breaks

ServerAcknowledges(ch) ==
    LET c == server.chan[ch]
    IN  /\ c.arrived /\ c.peer # NoWire
        /\ ServerPuts(Send([server EXCEPT !.chan[ch].arrived = FALSE], c.peer,
                           Window(ch, c.lastClient)), wires)
        /\ UNCHANGED breaks

\* The server's end of a wire closes: on its own (its ping deadline too), or after the
\* page's end broke, which may lose what the page sent last.  A close the page sent arrives.
Broken(w) ==
    /\ wires[w].page = "closed" /\ wires[w].server = "open"
    /\ \A i \in 1 .. Len(wires[w].up) : wires[w].up[i].t # "PAGE_LEFT"

ServerSeesClose(w) ==
    /\ wires[w].server = "open"
    /\ IF Broken(w) THEN UNCHANGED breaks ELSE Break
    /\ ServerPuts(OnWireClosed(server, w, FALSE), CloseServerEnd(wires, w))

\* connectTtl: no page attached the registered channel; reconnectTimeout: none came back.
ChannelTimesOut(ch) ==
    /\ plan.timeouts /\ server.chan[ch].timer # "none"
    /\ ServerPuts(Shutdown(server, ch, TRUE, "timeout"), wires)
    /\ UNCHANGED breaks

KeptTimesOut(ch) ==
    /\ plan.timeouts /\ server.chan[ch].kept = "timed"
    /\ ServerPuts(LetGo(server, ch), wires)
    /\ UNCHANGED breaks

\* connectTtl of a wait for a registration: the waits of a channel end in their order.
AwaitTimesOut(w, ch) ==
    /\ plan.timeouts /\ server.waits[ch] # <<>> /\ Head(server.waits[ch]) = w
    /\ ServerPuts(ExpireAwaited(server, w, ch), wires)
    /\ UNCHANGED breaks

-----------------------------------------------------------------------------
PageNext ==
    \/ \E ch \in Channels : PageRegisters(ch) \/ PageAcknowledges(ch)
    \/ \E ch \in Channels, h \in plan.headrooms : PageSendsData(ch, h) \/ PageAborts(ch, h)
    \/ ReconnectTimer \/ RegisterTimer \/ PagePings \/ PageDropsWire \/ IdleTimer \/ PageLeaves
    \/ \E h \in plan.headrooms : WireHeadroom(h)
    \/ \E w \in Wires : WireOpens(w) \/ ConnectFails(w) \/ PageSeesClose(w)
    \/ \E w \in Wires, h \in plan.headrooms : PageReads(w, h)

ServerNext ==
    \/ \E ch \in Channels :
         \/ ServerRegisters(ch) \/ ServerSendsData(ch) \/ ServerAborts(ch)
         \/ ServerAcknowledges(ch) \/ ChannelTimesOut(ch) \/ KeptTimesOut(ch)
    \/ \E w \in Wires :
         \/ ServerReads(w) \/ ServerReadsPing(w) \/ ServerReplies(w)
         \/ ServerSeesPageLeave(w) \/ ServerSeesClose(w)
    \/ \E w \in Wires, ch \in Channels : ServerSettles(w, ch) \/ AwaitTimesOut(w, ch)

Next == UNCHANGED plan /\ (PageNext \/ ServerNext)

Spec == Init /\ [][Next]_vars

-----------------------------------------------------------------------------
(* Type invariant *)

FrameType ==
    [t : {"DATA", "ABORT", "LOST"}, ch : Channels, seq : Nat]
    \cup [t : {"WINDOW"}, ch : Channels, lastSeq : Nat]

EndedType(e) == e.ch \in Channels /\ e.lastSeq \in Nat \cup {Null}

UpType(f) ==
    \/ f \in FrameType \/ f = PageLeft
    \/ f.t = "PING" /\ \A e \in f.ended : EndedType(e)
    \/ /\ f.t = "RECONCILE" /\ f.session \in Wires \cup {NoWire}
       /\ f.changes \in BOOLEAN /\ f.released \subseteq Channels
       /\ f.open \subseteq [ch : Channels, lastSeq : Nat, initial : BOOLEAN]

DownType(f) ==
    \/ f \in FrameType
    \/ f.t = "PONG" /\ \A e \in f.ended : EndedType(e)
    \/ f.t = "RECONCILED" /\ f.session \in Wires /\ f.open \subseteq [ch : Channels, lastSeq : Nat]
    \/ f.t = "ATTACH_RESULT" /\ EndedType(f)

BufferType(rb) ==
    /\ rb.issued \in Nat /\ rb.pushed \in 0 .. rb.issued /\ rb.acked \in 0 .. rb.issued
    /\ \A e \in rb.stored : e.seq \in 1 .. rb.pushed /\ e.kind \in Kinds

PageTypeOK ==
    /\ page.state \in {"fresh", "open", "reconnecting", "closed"}
    /\ {page.wire, page.abandoned, page.session} \subseteq Wires \cup {NoWire}
    /\ {page.reconciledHere, page.reconciling, page.owed, page.timer} \subseteq BOOLEAN
    /\ page.inFlight \in [Channels -> {"no", "initial", "named"}]
    /\ page.attachResults \in [Channels -> Nat \cup {Null, NoAnswer}]
    /\ page.released \subseteq Channels /\ page.out = <<>>
    /\ \A ch \in Channels :
         /\ page.rec[ch].tag \in {"none", "pending", "open", "closed"}
         /\ page.rec[ch].lastSeq \in Nat /\ BufferType(page.rec[ch].rb)
         /\ page.app[ch].phase \in {"new", "open", "ended"}
    /\ \A f \in Range(page.held \o page.waiting) : f.ch \in Listed(page) /\ f.e.kind \in Kinds

ServerTypeOK ==
    /\ \A ch \in Channels :
         LET c == server.chan[ch]
         IN  /\ c.phase \in {"none", "open", "ended"} /\ c.peer \in Wires \cup {NoWire}
             /\ c.timer \in {"none", "connect", "reconnect"}
             /\ c.kept \in {"no", "attached", "timed"} /\ BufferType(c.rb)
             /\ {c.lastClient, c.pageLast, c.offline} \subseteq Nat
             /\ Range(server.waits[ch]) \subseteq Wires
    /\ \A w \in Wires :
         /\ server.session[w] \subseteq Channels
         /\ \A ch \in Channels :
              server.awaited[w][ch].phase \in {"none", "waiting", "attached", "expired"}
         /\ server.reply[w].open \subseteq Channels
    /\ server.handles = {} /\ server.out = NothingSent

\* Every variable has its type, and between handlers nothing they meant to send is left over:
\* a handler's frames go out with it (p.out, s.out), a frame that waits belongs to a record the
\* page still lists (SendGate queues against ChannelTable.release), and no seq is stored or
\* acknowledged before it was issued (ReplayBuffer).
TypeOK ==
    /\ PageTypeOK /\ ServerTypeOK
    /\ \A w \in Wires :
         /\ wires[w].page \in {"none", "connecting", "open", "abandoned", "closed"}
         /\ wires[w].server \in {"none", "open", "closed"}
         /\ \A f \in Range(wires[w].up) : UpType(f)
         /\ \A f \in Range(wires[w].down) : DownType(f)
    /\ breaks \in 0 .. plan.breaks

-----------------------------------------------------------------------------
(* What the application sees *)

\* No channel fails while its replays hold all that may be unacknowledged and no timeout
\* fires.
Fails(p) ==
    p.timeouts \/ \E k \in DataKinds : p.pageBudgets[k] < p.pageSends \/ p.serverBudgets[k] < p.serverSends
MayFail == \E p \in Plans : Fails(p)

PageEnd(ch) ==
    LET a == page.app[ch]
    IN  [phase |-> a.phase, sent |-> a.sent, got |-> a.got, why |-> a.why]
ServerEnd(ch) ==
    LET c == server.chan[ch]
    IN  [phase |-> IF c.phase = "none" THEN "new" ELSE c.phase,
         sent |-> c.sent, got |-> c.got, why |-> c.why]

NoEnd == [phase |-> "new", sent |-> 0, got |-> <<>>, why |-> "none"]

Promise == INSTANCE ReliableChannel
    WITH Channels <- AllChannels,
         ends <- [ch \in AllChannels |-> [side \in {"page", "server"} |->
                     IF ch \notin Channels THEN NoEnd
                     ELSE IF side = "page" THEN PageEnd(ch) ELSE ServerEnd(ch)]]

\* Over wires that break, stall and are replaced, a channel is a reliable one.
ReliableChannels == Promise!Spec

-----------------------------------------------------------------------------
(* The protocol *)

\* SendGate and AttachExchange hold every send back while a RECONCILE is owed or not
\* answered: one owed on an open wire has the timer or the answer that sends it, and one
\* not answered is on its way, or its answer is.
Pending(w) ==
    \/ \E i \in 1 .. Len(wires[w].up) : wires[w].up[i].t = "RECONCILE"
    \/ server.reply[w].pending
    \/ \E i \in 1 .. Len(wires[w].down) : wires[w].down[i].t = "RECONCILED"

SendsAreReleased ==
    page.state = "open" =>
        /\ page.owed => page.timer \/ page.reconciling
        /\ page.reconciling => Pending(page.wire) \/ wires[page.wire].server = "closed"

\* The page holds back what an awaited channel sends (record.awaited) until its
\* ATTACH_RESULT: the server still awaits the channel on that wire, or the answer is on
\* its way.
AwaitedIsAnswered ==
    \A ch \in Channels :
        page.state = "open" /\ page.rec[ch].awaited /\ page.inFlight[ch] = "no" =>
            \/ wires[page.wire].server = "closed"
            \/ server.awaited[page.wire][ch].phase \in {"waiting", "attached"}
            \/ \E i \in 1 .. Len(wires[page.wire].down) :
                 wires[page.wire].down[i].t = "ATTACH_RESULT" /\ wires[page.wire].down[i].ch = ch

\* The server leaks no channel: one in the mux is attached to the open wire of a session
\* that has it, or a timer ends it; an ended one is kept for such a wire or a while.
Tended(ch, w) == wires[w].server = "open" /\ server.named[w] /\ ch \in server.session[w]
ChannelsAreTended ==
    \A ch \in Channels :
        LET c == server.chan[ch]
        IN  /\ c.registered /\ c.phase = "open" =>
                 IF c.peer = NoWire THEN c.timer # "none"
                 ELSE c.timer = "none" /\ Tended(ch, c.peer)
            /\ c.registered /\ c.phase = "ended" =>
                 \/ c.kept = "timed"
                 \/ c.kept = "attached" /\ \E w \in Wires : Tended(ch, w)
            /\ c.kept # "no" => c.registered /\ c.phase = "ended"

\* On a wire the page names the session the server made there, and only changes it; a
\* channel's frames come after the RECONCILE that names the channel (ChannelMux drops
\* frames of channels not in the session).
NamedBefore(w, i, ch) ==
    \E j \in 1 .. i - 1 : wires[w].up[j].t = "RECONCILE" /\ \E e \in wires[w].up[j].open : e.ch = ch

ProtocolIsKept ==
    \A w \in Wires : \A i \in 1 .. Len(wires[w].up) :
        LET f == wires[w].up[i]
        IN  /\ f.t = "RECONCILE" =>
                 f.changes = (f.session = w) /\ (f.changes <=> server.named[w])
            /\ Sequenced(f) =>
                 \/ server.named[w] /\ ~server.holds[w]
                 \/ NamedBefore(w, i, f.ch)
                 \/ f.ch \in server.session[w] \/ server.awaited[w][f.ch].phase # "none"
                 \/ server.chan[f.ch].phase = "ended"

\* The exchange of RECONCILEs: frames come behind the RECONCILE that names their channel, and what
\* waits for an answer (sends behind a RECONCILE, a channel behind its ATTACH_RESULT) has one coming.
ExchangeHolds == ProtocolIsKept /\ SendsAreReleased /\ AwaitedIsAnswered

\* A channel attached on the page's wire is attached there on the server too (the guard of
\* _onPeerDisconnect, "the latest one keeps the channel" of attachAwaited): else what the
\* server sends goes to a dead wire, and its reconnect timer ends the channel of a live page.
AttachedOnTheLiveWire ==
    \A ch \in Channels :
        LET rec == page.rec[ch]
            c   == server.chan[ch]
            w   == page.wire
        IN  /\ page.state = "open" /\ page.reconciledHere /\ wires[w].server = "open"
            /\ rec.tag = "open" /\ ~rec.undeclared /\ ~rec.awaited /\ page.inFlight[ch] = "no"
            /\ c.phase = "open" /\ c.registered
            => c.peer = w

\* Every channel the server has is held by an open wire or a timer, and is attached where its page
\* is (ServerChannel._attachPeer, _onPeerDisconnect, ChannelMux.detachHandle).
ChannelsAreHeld == TypeOK /\ ChannelsAreTended /\ AttachedOnTheLiveWire

\* The frames of a channel that wait, for the headroom or for a RECONCILED, and the wire they
\* wait for keep the order of their seqs, and none that waits was pushed (ReplayBuffer.push
\* asserts it).
Ascending(seqs) == \A i, j \in 1 .. Len(seqs) : i < j => seqs[i] < seqs[j]

QueuedInOrder ==
    \A ch \in Channels :
        LET Theirs(f) == f.ch = ch
            queue == SelectSeq(page.waiting \o page.held, Theirs)
            seqs  == [i \in 1 .. Len(queue) |-> queue[i].e.seq]
        IN  Ascending(<<page.rec[ch].rb.pushed>> \o seqs)

\* EndedChannels.ts:11 "each stays attachable while its page is attached, and for a while once
\* it isn't": no release timer runs for an ended channel while a wire that holds a session
\* with it is open.
AttachedIsKept ==
    \A ch \in Channels :
        server.chan[ch].kept = "timed" => ~\E w \in Wires : server.holds[w] /\ ch \in server.session[w]

\* docs/pages/channel/+Page.mdx:519 "Messages lost in the disconnect are resent after
\* reconnect, if the client is back within `reconnectTimeout` and the replay buffer still holds
\* them": where no timeout fires and the replays hold everything, no end is lost.
NothingIsLost ==
    ~Fails(plan) => \A ch \in Channels :
        {page.app[ch].why, server.chan[ch].why} \cap Promise!Failures = {}

-----------------------------------------------------------------------------
(* Liveness.  What the code drives on its own happens: a timer fires, a     *)
(* wire connects and delivers, a handler runs, an end sees the other's      *)
(* close, the request's channel is registered; and the heartbeat beats.     *)
(* Progress takes finitely many steps of a behavior, so weak fairness of    *)
(* all of it starves none of it; the heartbeat's steps, which may go on     *)
(* forever, have a fairness of their own.                                   *)
(*                                                                         *)
(* Each weak fairness is spelled out with the guard of its action in place  *)
(* of ENABLED, which TLC evaluates a thousand times slower here.            *)

ReadsPong(w) == wires[w].down # <<>> /\ Head(wires[w].down).t = "PONG"

Progress ==
    \/ ReconnectTimer \/ RegisterTimer \/ IdleTimer
    \/ \E h \in plan.headrooms : WireHeadroom(h)
    \/ \E w \in Wires :
         \/ WireOpens(w) \/ ServerReads(w) \/ ServerReplies(w) \/ ServerSeesPageLeave(w)
         \/ ~ReadsPong(w) /\ \E h \in plan.headrooms : PageReads(w, h)
         \/ wires[w].server = "closed" /\ PageSeesClose(w)
         \/ Broken(w) /\ ~ServerMayRead(w) /\ ServerSeesClose(w)
         \/ \E ch \in Channels : ServerSettles(w, ch)
    \/ \E ch \in Channels : ServerRegisters(ch) \/ ChannelTimesOut(ch) \/ KeptTimesOut(ch)
    \/ \E w \in Wires, ch \in Channels : AwaitTimesOut(w, ch)

CanProgress ==
    \/ page.state = "reconnecting" /\ page.wire = NoWire /\ NextWire <= plan.wires
    \/ page.timer \/ MayDispose
    \/ SendsOpen(page) /\ page.waiting # <<>> /\ \E h \in plan.headrooms : h > 0
    \/ \E w \in Wires :
         \/ wires[w].page = "connecting" \/ ServerMayRead(w) \/ server.reply[w].pending
         \/ PageHasLeft(w)
         \/ /\ wires[w].page \in {"open", "abandoned"}
            /\ wires[w].server = "closed" \/ (wires[w].down # <<>> /\ ~ReadsPong(w))
         \/ Broken(w) /\ ~ServerMayRead(w)
         \/ \E ch \in Channels : server.awaited[w][ch].phase = "attached"
    \/ \E ch \in Channels :
         \/ MayRegister(ch)
         \/ plan.timeouts /\ (server.chan[ch].kept = "timed" \/ server.chan[ch].timer # "none")
         \/ plan.timeouts /\ server.waits[ch] # <<>>

Heartbeat ==
    \/ PagePings
    \/ \E w \in Wires : ServerReadsPing(w) \/ (ReadsPong(w) /\ \E h \in plan.headrooms : PageReads(w, h))

CanBeat ==
    \/ MayPing /\ wires[page.wire].server = "open"
    \/ \E w \in Wires :
         \/ wires[w].page \in {"open", "abandoned"} /\ ReadsPong(w)
         \/ wires[w].server = "open" /\ \E i \in 1 .. Len(wires[w].up) : wires[w].up[i].t = "PING"

FairSpec ==
    /\ Spec
    /\ []<>~CanProgress \/ []<><<Progress>>_vars
    /\ []<>~CanBeat \/ []<><<Heartbeat>>_vars

\* What an end sent arrives, if both ends stay open (what was held, offline or lost with a
\* wire is sent again).
PageIs(ch, phase) == ch \in Channels /\ page.app[ch].phase = phase
ServerIs(ch, phase) == ch \in Channels /\ server.chan[ch].phase = phase
SomeEnded(ch) == PageIs(ch, "ended") \/ ServerIs(ch, "ended")

MostSent(bound(_)) == Max({bound(p) : p \in Plans})

PageSendsArrive ==
    \A ch \in AllChannels, n \in 1 .. MostSent(LAMBDA p : p.pageSends) :
        ch \in Channels /\ page.app[ch].sent >= n ~>
            SomeEnded(ch) \/ (ch \in Channels /\ Len(server.chan[ch].got) >= n)
ServerSendsArrive ==
    \A ch \in AllChannels, n \in 1 .. MostSent(LAMBDA p : p.serverSends) :
        PageIs(ch, "open") /\ server.chan[ch].sent >= n ~>
            SomeEnded(ch) \/ (ch \in Channels /\ Len(page.app[ch].got) >= n)

\* No half-open channel: an end that ends ends the other.
BothEnd ==
    \A ch \in AllChannels :
        /\ PageIs(ch, "ended") ~> ServerIs(ch, "ended")
        /\ PageIs(ch, "open") /\ ServerIs(ch, "ended") ~> PageIs(ch, "ended")

\* Nothing leaks: a closed record of the page goes, and so does an ended channel of the server.
Forgotten(ch) == ch \in Channels /\ ~server.chan[ch].registered
EndedAreLetGo ==
    \A ch \in AllChannels :
        /\ ch \in Channels /\ page.rec[ch].tag = "closed" ~> ch \in Channels /\ page.rec[ch].tag = "none"
        /\ ServerIs(ch, "ended") ~> Forgotten(ch)

\* Sends arrive either way, while both ends are open (ReplayBuffer.getAfter, the offline buffer).
SendsArrive == PageSendsArrive /\ ServerSendsArrive

\* An end takes the other with it, and both sides let go of what ended.
EndsSettle == BothEnd /\ EndedAreLetGo
=============================================================================
