----------------------------- MODULE ChannelEnds -----------------------------
(***************************************************************************)
(* A channel's two ends as applications use them: messages with and        *)
(* without an ack, answers, the close handshake, aborts, and on the server *)
(* what is kept while no page is attached (client/ClientChannel.ts,        *)
(* server/ServerChannel.ts, server/IndexedPeer.ts).                        *)
(*                                                                         *)
(* The wires below are those of ChannelSession, of which this module uses  *)
(* what ReliableChannel says: each end's frames arrive once and in order,  *)
(* after a break too, until an end lets go of the channel.  Credit, which  *)
(* delays the promise of a send without an ack, is CreditFlow's.           *)
(*                                                                         *)
(* A handler is an operator on its end, `p` or `s`; what it sends collects *)
(* in `out`.  Callbacks run between handlers, and may never settle.        *)
(***************************************************************************)
EXTENDS OfflineBuffer, CloseHandshake

CONSTANTS
    Uses,           \* the uses of a channel, one of which a behaviour follows:
                    \*   slow, the ends with an onClose callback that returns a promise;
                    \*   asks, for each message of the page, whether it asks for an ack;
                    \*   sends, the messages of the server, each [kind, ack, bytes]
    MaxPendingAcks, \* config.channel.maxPendingAcks
    Timeouts,       \* the timeouts a close may ask for
    MaxBreaks       \* bound: wires that break

ASSUME EndsAssumption ==
    /\ \A u \in Uses :
         /\ u.slow \subseteq {"page", "server"} /\ u.asks \in Seq(BOOLEAN)
         /\ u.sends \in Seq([kind : QueueKinds, ack : BOOLEAN, bytes : Nat])
    /\ Timeouts \subseteq 0..MaxTimeout
    /\ MaxPendingAcks \in Nat /\ MaxBreaks \in Nat

VARIABLES
    page, server,       \* the ends
    wire,               \* whether a wire carries the channel
    toPage, toServer,   \* the frames each end has yet to read
    breaks,             \* how many wires broke
    use                 \* which of Uses

vars == <<page, server, wire, toPage, toServer, breaks, use>>

PageIds == DOMAIN use.asks
ServerIds == DOMAIN use.sends

-----------------------------------------------------------------------------
(* Both ends.  promise[i] is what the sender of message i awaits; asked are *)
(* the messages whose ack requests it tracks, answering the peer's that its *)
(* listeners are to answer.                                                 *)

Message(id, ack) == [t |-> "MESSAGE", id |-> id, ack |-> ack]
AckRes(id) == [t |-> "ACK_RES", id |-> id]
Close(left) == [t |-> "CLOSE", left |-> left]
Ctrl(t) == [t |-> t]

Pending(e) == {i \in DOMAIN e.promise : e.promise[i] = "pending"}
Inflight(e) == Cardinality(e.asked \cap Pending(e)) + Cardinality(e.answering)

\* Settles the promises of `ids` that still wait.
Settle(e, ids, as) ==
    [e EXCEPT !.promise = [i \in DOMAIN @ |-> IF i \in ids /\ @[i] = "pending" THEN as ELSE @[i]]]

\* trackAck: an ack settles, and the close looks again.
Progress(e) == [e EXCEPT !.life = NotifyProgress(@)]

\* onPeerAckRes, whatever the listeners answered.
TakeAckRes(e, f) ==
    IF f.id \notin e.pendingAcks THEN e
    ELSE Progress(Settle([e EXCEPT !.pendingAcks = @ \ {f.id}], {f.id}, "ok"))

\* onPeerMessage, onPeerAckReqMessage
Hear(e, f) ==
    [e EXCEPT !.got = Append(@, f.id), !.answering = IF f.ack THEN @ \cup {f.id} ELSE @]

-----------------------------------------------------------------------------
(* The page's end                                                           *)

NewPage ==
    [phase |-> "open", life |-> NewHandshake("page" \in use.slow), sent |-> 0,
     promise |-> [i \in PageIds |-> "none"], asked |-> {}, pendingAcks |-> {}, answering |-> {},
     got |-> <<>>, out |-> <<>>]

PageOut(p, f) == [p EXCEPT !.out = Append(@, f)]

\* _end
PageEnd(p, err) ==
    IF p.life.ended THEN p
    ELSE Settle([p EXCEPT !.phase = "ended", !.life = Terminate(@, err), !.pendingAcks = {}],
                p.asked, "failed")

\* A pass of the close's run, which may end the channel.
PageRan(p) ==
    CASE p.life.run = "clean" -> PageEnd(p, "none")
      [] p.life.run = "late"  -> PageEnd(p, "timeout")
      [] OTHER                -> p

\* sendData: its frame goes, or waits on the page for a wire.
PageSend(p) ==
    LET id == p.sent + 1
    IN  PageOut([p EXCEPT !.sent = id, !.promise[id] = IF use.asks[id] THEN "pending" ELSE "ok",
                          !.asked = IF use.asks[id] THEN @ \cup {id} ELSE @,
                          !.pendingAcks = IF use.asks[id] THEN @ \cup {id} ELSE @],
                Message(id, use.asks[id]))

PageClose(p, timeout) ==
    LET q == PageOut([p EXCEPT !.phase = "closing", !.life = RequestClose(@, timeout, TRUE)],
                     Close(timeout))
    IN  PageRan([q EXCEPT !.life = BeginRun(@, Inflight(q))])

PageAbort(p) == PageEnd(PageOut([p EXCEPT !.phase = "closing"], Ctrl("ABORT")), "abort")

\* onPeerCloseRequest
PageTakesClose(p, timeout) ==
    LET q == PageOut([p EXCEPT !.phase = "closing", !.life = ShortenDeadline(@, timeout)],
                     Ctrl("CLOSE_ACK"))
    IN  PageRan([q EXCEPT !.life = BeginRun(@, Inflight(q))])

\* _onEnded: a close the server acknowledged is graceful.
PageIsEnded(p, err) == PageEnd(p, IF p.life.acked THEN "none" ELSE err)

\* WireLifecycle drops the frames of a channel that ended; the rest is _dispatchFrame.
PageTakes(p, f) ==
    IF p.life.ended THEN p
    ELSE CASE f.t = "MESSAGE"   -> Hear(p, f)
           [] f.t = "ACK_RES"   -> TakeAckRes(p, f)
           [] f.t = "CLOSE"     -> PageTakesClose(p, f.left)
           [] f.t = "CLOSE_ACK" -> [p EXCEPT !.life = CloseAckReceived(@)]
           [] f.t = "ABORT"     -> PageIsEnded(p, "abort")
           [] f.t = "ERROR"     -> PageIsEnded(p, "error")

\* answerAckReq, once the listeners settled; a page that ended sends nothing more.
PageAnswers(p, id) ==
    LET q == Progress([p EXCEPT !.answering = @ \ {id}])
    IN  IF p.life.ended THEN q ELSE PageOut(q, AckRes(id))

\* A listener's Abort: nothing answers the request.
PageListenerAborts(p, id) ==
    LET q == Progress([p EXCEPT !.answering = @ \ {id}])
    IN  IF p.phase = "open" THEN PageAbort(q) ELSE q

-----------------------------------------------------------------------------
(* The server's end.  seq counts what it sent, pageSeq what it knows the    *)
(* page has of it; ackRes and pendingEnd hold what it owes a page that is   *)
(* not attached; released once it dropped all it held.                      *)

NoPendingEnd == [closeAck |-> FALSE, closeRequest |-> FALSE, abort |-> FALSE, error |-> FALSE]

NewServer ==
    [phase |-> "open", life |-> NewHandshake("server" \in use.slow), sent |-> 0,
     promise |-> [i \in ServerIds |-> "none"], asked |-> {}, pendingAcks |-> {}, answering |-> {},
     got |-> <<>>, out |-> <<>>,
     registered |-> FALSE, attached |-> FALSE, buf |-> EmptyBuffer, ackRes |-> <<>>,
     pendingEnd |-> NoPendingEnd, seq |-> 0, seqOf |-> [i \in ServerIds |-> 0],
     pageSeq |-> 0, closeSeq |-> 0, pageClosed |-> FALSE, released |-> FALSE]

\* IndexedPeer: the frame joins the replay buffer and goes.
Emit(s, f) == [s EXCEPT !.seq = @ + 1, !.out = Append(@, f)]

EmitAll(s, fs) == [s EXCEPT !.seq = @ + Len(fs), !.out = @ \o fs]

EmitMessage(s, id, ack) == [Emit(s, Message(id, ack)) EXCEPT !.seqOf[id] = s.seq + 1]

OnPageHas(s, lastSeq) == [s EXCEPT !.pageSeq = Max({@, lastSeq})]

\* The callbacks of what left the buffer reject.
WithBuffer(s, buf) ==
    Progress(Settle([s EXCEPT !.buf = buf], StillWaiting(s.buf) \ StillWaiting(buf), "failed"))

PageNeedsNothing(s) ==
    /\ s.registered
    /\ \/ s.pageClosed
       \/ /\ s.pageSeq >= s.seq /\ Entries(s.buf) = {}
          /\ s.ackRes = <<>> /\ s.pendingEnd = NoPendingEnd

\* _release
Release(s) ==
    [WithBuffer(s, EmptyBuffer) EXCEPT !.released = TRUE, !.ackRes = <<>>, !.pendingEnd = NoPendingEnd]

\* shutdown: kept for a page that may lack something, unless the page is gone.
Shutdown(s, err, pageGone) ==
    IF s.phase = "ended" THEN s
    ELSE LET e == [s EXCEPT !.phase = "ended", !.life = Terminate(@, err), !.attached = FALSE]
             k == IF pageGone \/ PageNeedsNothing(e) THEN Release(e) ELSE e
         IN  [Settle(WithBuffer(k, RejectAcks(k.buf)), k.pendingAcks, "failed") EXCEPT !.pendingAcks = {}]

ServerRan(s) ==
    CASE s.life.run = "clean" -> Shutdown(s, "none", FALSE)
      [] s.life.run = "late"  -> Shutdown(s, "timeout", FALSE)
      [] OTHER                -> s

\* endWithError, of a send past maxPendingAcks.
Overflow(s) ==
    LET c == WithBuffer(s, EmptyBuffer)
    IN  Shutdown(IF s.attached THEN Emit(c, Ctrl("ERROR")) ELSE [c EXCEPT !.pendingEnd.error = TRUE],
                 "overflow", FALSE)

\* admitPending
Admits(s, ack) == ack => Cardinality(s.pendingAcks) < MaxPendingAcks

\* sendData, _sendBinary: goes to the page attached, or to the buffer.
ServerSend(s) ==
    LET id == s.sent + 1
        m  == use.sends[id]
        n  == [s EXCEPT !.sent = id, !.promise[id] = "pending",
                        !.asked = IF m.ack THEN @ \cup {id} ELSE @]
    IN  CASE ~s.attached ->
               LET b == PushEntry(s.buf, m.kind, id, m.ack, m.bytes)
               IN  Progress(Settle([n EXCEPT !.buf = b],
                                   (StillWaiting(s.buf) \cup {id}) \ StillWaiting(b), "failed"))
          [] s.attached /\ ~Admits(s, m.ack) -> Overflow([s EXCEPT !.sent = id, !.promise[id] = "failed"])
          [] OTHER ->
               EmitMessage(IF m.ack THEN [n EXCEPT !.pendingAcks = @ \cup {id}]
                           ELSE Settle(n, {id}, "ok"), id, m.ack)

ServerClose(s, timeout) ==
    LET q == [s EXCEPT !.phase = "closing", !.life = RequestClose(@, timeout, s.registered)]
        r == IF s.attached THEN [Emit(q, Close(timeout)) EXCEPT !.closeSeq = s.seq + 1]
             ELSE [q EXCEPT !.pendingEnd.closeRequest = TRUE]
    IN  ServerRan([r EXCEPT !.life = BeginRun(@, Inflight(r))])

ServerAbort(s) ==
    LET q == [s EXCEPT !.phase = "closing"]
    IN  Shutdown(IF s.attached THEN Emit(q, Ctrl("ABORT")) ELSE [q EXCEPT !.pendingEnd.abort = TRUE],
                 "abort", FALSE)

\* _sendBuffered, of one entry; `ended` where the channel had ended before the flush.
SendBuffered(s, e, ended) ==
    IF s.phase = "ended" /\ ~ended THEN s
    ELSE IF ~ended /\ ~Admits(s, e.ack) THEN Overflow(s)
    ELSE EmitMessage(IF e.ack THEN [s EXCEPT !.pendingAcks = IF e.live THEN @ \cup {e.id} ELSE @]
                     ELSE Settle(s, {e.id}, "ok"), e.id, e.ack)

\* The buffer is emptied once every entry went, their callbacks still to answer.
Flush(s) ==
    LET entries == Flushed(s.buf)
        sent[n \in 0 .. Len(entries)] ==
            IF n = 0 THEN s ELSE SendBuffered(sent[n - 1], entries[n], s.phase = "ended")
    IN  [sent[Len(entries)] EXCEPT !.buf = EmptyBuffer]

SendPendingAckRes(s) == [EmitAll(s, s.ackRes) EXCEPT !.ackRes = <<>>]

SendPendingEnd(s) ==
    LET Owed(is, f) == IF is THEN <<f>> ELSE <<>>
        end   == s.pendingEnd
        acks  == Owed(end.closeAck, Ctrl("CLOSE_ACK"))
        rest  == Owed(end.closeRequest, Close(s.life.left)) \o Owed(end.abort, Ctrl("ABORT"))
                    \o Owed(end.error, Ctrl("ERROR"))
    IN  [EmitAll(s, acks \o rest) EXCEPT
            !.pendingEnd = NoPendingEnd,
            !.closeSeq = IF end.closeRequest THEN s.seq + Len(acks) + 1 ELSE @]

\* _attachPeer: the end goes last.  A flush may end the channel.
AttachPeer(s) ==
    LET f == Flush([s EXCEPT !.attached = s.phase # "ended"])
    IN  IF s.phase # "ended" /\ f.phase = "ended" THEN f ELSE SendPendingEnd(SendPendingAckRes(f))

\* onPeerCloseRequest
ServerTakesClose(s, timeout) ==
    LET q == [s EXCEPT !.phase = "closing", !.life = ShortenDeadline(@, timeout)]
        r == IF s.attached THEN Emit(q, Ctrl("CLOSE_ACK")) ELSE [q EXCEPT !.pendingEnd.closeAck = TRUE]
    IN  ServerRan([r EXCEPT !.life = BeginRun(@, Inflight(r))])

\* _dispatchFrame, dispatchDataFrame, dispatchCtrl.  An ACK_RES says how far the page is.
ServerTakes(s, f) ==
    IF s.phase = "ended" THEN s
    ELSE CASE f.t = "MESSAGE"   -> Hear(s, f)
           [] f.t = "ACK_RES"   -> TakeAckRes(OnPageHas(s, s.seqOf[f.id]), f)
           [] f.t = "CLOSE"     -> ServerTakesClose(s, f.left)
           [] f.t = "CLOSE_ACK" -> [OnPageHas(s, s.closeSeq) EXCEPT !.life = CloseAckReceived(@)]
           [] f.t = "ABORT"     -> Shutdown(s, "abort", TRUE)

\* answerAckReq, sendAckRes.
ServerAnswers(s, id) ==
    LET q == Progress([s EXCEPT !.answering = @ \ {id}])
    IN  IF s.attached THEN Emit(q, AckRes(id))
        ELSE [q EXCEPT !.ackRes = Append(@, AckRes(id))]

\* A listener's Abort: nothing answers the request.
ServerListenerAborts(s, id) ==
    LET q == Progress([s EXCEPT !.answering = @ \ {id}])
    IN  IF s.phase = "open" THEN ServerAbort(q) ELSE q

-----------------------------------------------------------------------------
(* The steps                                                                *)

Init ==
    /\ use \in Uses
    /\ page = NewPage
    /\ server = NewServer
    /\ wire = "down"
    /\ toPage = <<>> /\ toServer = <<>>
    /\ breaks = 0

PageDoes(p) == \E q \in {p} : page' = [q EXCEPT !.out = <<>>] /\ toServer' = toServer \o q.out
ServerDoes(s) == \E q \in {s} : server' = [q EXCEPT !.out = <<>>] /\ toPage' = toPage \o q.out

PageOnly(p) == UNCHANGED <<server, wire, toPage, breaks, use>> /\ PageDoes(p)
ServerOnly(s) == UNCHANGED <<page, wire, toServer, breaks, use>> /\ ServerDoes(s)

\* The page has the channel once the response carrying it was made.
PageSends ==
    /\ server.registered /\ page.phase = "open" /\ page.sent + 1 \in PageIds
    /\ PageOnly(PageSend(page))

PageCloses ==
    /\ server.registered /\ ~page.life.requested /\ ~page.life.ended
    /\ \E t \in Timeouts : PageOnly(PageClose(page, t))

PageAborts == server.registered /\ page.phase = "open" /\ PageOnly(PageAbort(page))

PageReads ==
    /\ wire = "up" /\ toPage # <<>>
    /\ toPage' = Tail(toPage)
    /\ UNCHANGED <<server, wire, breaks, use>>
    /\ PageDoes(PageTakes(page, Head(toPage)))

\* The listeners that were given a message with an ack answer it, or throw Abort.
PageListeners ==
    \E id \in page.answering : PageOnly(PageAnswers(page, id)) \/ PageOnly(PageListenerAborts(page, id))

PageRuns ==
    /\ page.life.run = "due"
    /\ PageOnly(PageRan([page EXCEPT !.life = Run(@, Inflight(page))]))

PageTimer == page.life.timer = 0 /\ PageOnly([page EXCEPT !.life = TimerFired(@)])

PageOnCloseSettles == page.life.running /\ PageOnly([page EXCEPT !.life = ListenersSettled(@)])

ServerSends ==
    server.phase = "open" /\ server.sent + 1 \in ServerIds /\ ServerOnly(ServerSend(server))

ServerCloses ==
    /\ ~server.life.requested /\ server.phase # "ended"
    /\ \E t \in Timeouts : ServerOnly(ServerClose(server, t))

ServerAborts == server.phase = "open" /\ ServerOnly(ServerAbort(server))

ServerReads ==
    /\ wire = "up" /\ toServer # <<>>
    /\ toServer' = Tail(toServer)
    /\ UNCHANGED <<page, wire, breaks, use>>
    /\ ServerDoes(ServerTakes(server, Head(toServer)))

ServerListeners ==
    \E id \in server.answering :
        ServerOnly(ServerAnswers(server, id)) \/ ServerOnly(ServerListenerAborts(server, id))

ServerRuns ==
    /\ server.life.run = "due"
    /\ ServerOnly(ServerRan([server EXCEPT !.life = Run(@, Inflight(server))]))

ServerTimer == server.life.timer = 0 /\ ServerOnly([server EXCEPT !.life = TimerFired(@)])

ServerOnCloseSettles ==
    server.life.running /\ ServerOnly([server EXCEPT !.life = ListenersSettled(@)])

\* The response that carries the channel is made.
Register == ~server.registered /\ ServerOnly([server EXCEPT !.registered = TRUE])

PageHas == server.seq - Len(toPage)

\* A wire carries the channel: the RECONCILE says what the page has.
Attach ==
    /\ wire = "down" /\ server.registered /\ ~server.released
    /\ wire' = "up"
    /\ UNCHANGED <<page, toServer, breaks, use>>
    /\ ServerDoes(AttachPeer(OnPageHas(server, PageHas)))

\* The server let go of the channel, so the page's ends; nothing more is replayed.
AttachRefused ==
    /\ wire = "down" /\ server.released
    /\ page' = PageIsEnded(page, "lost")
    /\ wire' = "over" /\ toPage' = <<>> /\ toServer' = <<>>
    /\ UNCHANGED <<server, breaks, use>>

\* The wire breaks; _onPeerDisconnect.
Break ==
    /\ wire = "up" /\ breaks < MaxBreaks
    /\ wire' = "down" /\ breaks' = breaks + 1
    /\ server' = [server EXCEPT !.attached = FALSE]
    /\ UNCHANGED <<page, toPage, toServer, use>>

\* connectTtl or the reconnect timeout: the page left, or never came.
PageIsGone ==
    /\ server.registered /\ wire = "down" /\ server.phase # "ended"
    /\ ServerOnly(Shutdown(server, "gone", TRUE))

\* A WINDOW of the page, or its acknowledgement, says what it had.
PageAcknowledges ==
    /\ wire = "up" /\ server.phase # "ended" /\ server.pageSeq < PageHas
    /\ ServerOnly(OnPageHas(server, PageHas))

\* _onPageClosed: a PING names the channel once the page closed it and the server has all
\* the page sent; an ended one is released.
PageReports ==
    /\ wire = "up" /\ page.life.ended /\ toServer = <<>> /\ ~server.pageClosed
    /\ LET s == OnPageHas([server EXCEPT !.pageClosed = TRUE], PageHas)
       IN  ServerOnly(IF s.phase = "ended" THEN Release(s) ELSE s)

\* EndedChannels: a channel kept for a page that stays away is let go.
EndedExpires ==
    /\ server.phase = "ended" /\ ~server.released /\ server.registered /\ wire # "up"
    /\ ServerOnly(Release(server))

\* Time passes once all that is due was done.
Tick ==
    /\ \A e \in {page, server} : e.life.run # "due" /\ e.life.timer # 0
    /\ \E e \in {page, server} : e.life.left \in 1..MaxTimeout /\ e.phase # "ended"
    /\ page' = [page EXCEPT !.life = Elapse(@)]
    /\ server' = [server EXCEPT !.life = Elapse(@)]
    /\ UNCHANGED <<wire, toPage, toServer, breaks, use>>

Next ==
    \/ PageSends \/ PageCloses \/ PageAborts \/ PageReads \/ PageListeners
    \/ PageRuns \/ PageTimer \/ PageOnCloseSettles
    \/ ServerSends \/ ServerCloses \/ ServerAborts \/ ServerReads \/ ServerListeners
    \/ ServerRuns \/ ServerTimer \/ ServerOnCloseSettles
    \/ Register \/ Attach \/ AttachRefused \/ Break \/ PageIsGone
    \/ PageAcknowledges \/ PageReports \/ EndedExpires \/ Tick

Spec == Init /\ [][Next]_vars

\* The microtasks of a close, and its timers as time passes.
CloseSteps == PageRuns \/ PageTimer \/ ServerRuns \/ ServerTimer \/ Tick

\* The response is made, and what is kept for a page expires or is reported closed.
ServerSteps == Register \/ PageReports \/ EndedExpires

\* Fairness: the steps above, that a frame which arrived is read, and that a page comes back
\* for its channel (of these two, what they take from the queue or do to the wire is
\* named, which no other step does).  Listeners may never settle.
FairSpec ==
    /\ Spec
    /\ WF_vars(CloseSteps)
    /\ WF_vars(ServerSteps)
    /\ WF_toPage(wire = "up" /\ toPage # <<>> /\ toPage' = Tail(toPage))
    /\ WF_toServer(wire = "up" /\ toServer # <<>> /\ toServer' = Tail(toServer))
    /\ WF_wire(wire = "down" /\ server.registered /\ wire' \in {"up", "over"})

-----------------------------------------------------------------------------
(* Properties                                                               *)

Ends == {page, server}

\* Types of the ends and of the frames between them.
TypeOK ==
    /\ \A e \in Ends :
         /\ e.phase \in {"open", "closing", "ended"}
         /\ e.life.run \in {"none", "due", "waiting", "done"}
         /\ e.life.left \in 0..NoTime /\ e.life.timer \in 0..NoTime
         /\ e.out = <<>>
         /\ e.pendingAcks \subseteq e.asked
         /\ (e.phase = "ended") = e.life.ended
    /\ server.attached => wire = "up" /\ server.phase # "ended"
    /\ wire \in {"up", "down", "over"}
    /\ server.pageSeq \in 0..server.seq

\* A close outlives its deadline on neither end, however often either end shortened it and
\* whatever callback never settles: past it, the end has ended or is about to
\* (runUntilEnded, armDeadline).
DeadlineHolds ==
    \A e \in Ends : e.life.left = 0 => e.life.ended \/ e.life.run = "due" \/ e.life.timer = 0

\* No send awaits an answer of a channel that ended, and none at all once it was let go
\* (_end and shutdown reject what is pending, in the buffer too).
EndedAwaitsNothing ==
    /\ \A e \in Ends : e.phase = "ended" => Pending(e) \cap e.asked = {}
    /\ server.released => Pending(server) = {}

\* An end's close: it has its types, keeps its deadline, and leaves no send waiting.
CloseHolds == TypeOK /\ DeadlineHolds /\ EndedAwaitsNothing

\* CLOSE goes after all that was sent, buffered sends too: an end whose CLOSE was acknowledged
\* knows that its peer has each message it was not told it lost (sendPendingEnd, onPeerCloseAck).
AckedCloseHasAll ==
    /\ page.life.acked => ToSet(server.got) = 1..page.sent
    /\ server.life.acked =>
         \A i \in 1..server.sent : i \in ToSet(page.got) \/ server.promise[i] = "failed"

\* Messages arrive once, in the order they were sent; one skipped was rejected
\* (ServerChannelBuffer: flush sends in insertion order across both queues).
GapsAreTold ==
    /\ \A i, j \in DOMAIN page.got : i < j => page.got[i] < page.got[j]
    /\ \A i \in ServerIds : \A j \in ToSet(page.got) :
         i < j /\ i \notin ToSet(page.got) => server.promise[i] = "failed"
    /\ server.got = [i \in 1..Len(server.got) |-> i]

\* "what stays has no gap": of each kind, the buffer holds the last ones sent
\* (ServerChannelBuffer: an entry larger than its budget clears its queue).
BufferHasNoGap ==
    server.phase # "ended" =>
        \A k \in QueueKinds :
            LET held == {e.id : e \in ToSet(server.buf.queue[k])}
            IN  \A i \in held : \A j \in i..server.sent : use.sends[j].kind = k => j \in held

\* No message goes missing untold: not behind a close, not out of the offline buffer.
NothingGoesUntold == AckedCloseHasAll /\ GapsAreTold /\ BufferHasNoGap

\* "listeners see 'closed' only after the channel can no longer receive frames": an end whose
\* onClose ran hears nothing more.  A close before the response carried the channel expects
\* no CLOSE_ACK, so it is left out (runUntilEnded).
ClosedHearsNothing ==
    /\ page.life.fired => page'.got = page.got
    /\ server.life.fired /\ (server.life.acked \/ ~server.life.requested) =>
           server'.got = server.got

\* An end that ends cleanly rejects no ack request it sent, but where the server let go of
\* the channel first: its close waited for the answers (trackAck).
CleanEndFailsNoAck ==
    \A e \in {<<page, page'>>, <<server, server'>>} :
       e[1].phase # "ended" /\ e[2].phase = "ended" /\ e[2].life.error = "none" /\ wire' # "over"
       => e[1].asked \cap Pending(e[1]) = {}

\* No step of an end breaks what its listeners and its sends were told (ChannelLifecycle).
EndIsFinal == [][ClosedHearsNothing /\ CleanEndFailsNoAck]_vars

\* A close that began ends, on each end, whatever callbacks never settle.
CloseEnds ==
    /\ (page.phase = "closing") ~> (page.phase = "ended")
    /\ (server.phase = "closing") ~> (server.phase = "ended")

\* An end that ended takes the other with it, and the server lets go of the channel.
BothEnd ==
    (page.phase = "ended" \/ server.phase = "ended") ~>
        (page.phase = "ended" /\ server.phase = "ended" /\ server.released)

\* Whatever an end closes, closes, on both ends.
EndsReachBoth == CloseEnds /\ BothEnd
=============================================================================
