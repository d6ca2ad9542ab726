----------------------------- MODULE SseUploads ------------------------------
(***************************************************************************)
(* What an SSE page sends (client/SseTransport.ts, server/sse.ts): its     *)
(* open POST carries the RECONCILE; a streaming upload POST beside it      *)
(* carries the frames, once the server's acknowledgement shows that its    *)
(* bytes get through; without one they go in batch POSTs, one at a time,   *)
(* from the outbox.  The POSTs are requests of their own: nothing orders   *)
(* one against another, each may be cut, and an aborted one may yet be     *)
(* read.  A wire is its connId, the POSTs that name it and its event       *)
(* stream.                                                                 *)
(*                                                                         *)
(* The page sends on channel 1; others register at any time, so that their *)
(* RECONCILEs follow.  Handlers are operators on the page's state `p`: what *)
(* one writes to the upload collects in p.out, the wires it aborts in      *)
(* p.cut, the uploads it aborts alone in p.cutUploads.  The continuation   *)
(* of an awaited promise runs with what settles it.                        *)
(* Left out: frames of the server, credit (the WINDOW frames an outbox     *)
(* keeps for the next wire), heartbeats, a server that refuses the page,   *)
(* pagehide, and when a flush is due.  A wire given up is aborted with the *)
(* next RECONCILED or the next one given up; what the code adds, as its    *)
(* open answers or its upload settles, ends it sooner: requests that hang  *)
(* until then, or are lost, stand for that.                                *)
(***************************************************************************)
EXTENDS Integers, SequencesExt, FiniteSetsExt

CONSTANT UploadPlans  \* what may happen: the page's sends, the channels, the wires, the POSTs and
                      \* streams cut, the wires given up, the timers that may fire

ASSUME UploadPlansAssumption ==
    \A pl \in UploadPlans :
        /\ {pl.sends, pl.channels, pl.wires, pl.cuts, pl.drops} \subseteq Nat
        /\ pl.channels > 0 /\ pl.wires > pl.cuts + pl.drops
        /\ pl.timers \subseteq {"ack", "connectTtl"}

VARIABLES uplan, up, us, un

uvars == <<uplan, up, us, un>>

NoConn == 0
Conns == 1 .. uplan.wires
Chs == 1 .. uplan.channels

Datum(n) == [t |-> "DATA", n |-> n]
Data(from, to) == [i \in 1 .. (IF to < from THEN 0 ELSE to - from + 1) |-> Datum(from + i - 1)]

NoneInFlight == [chs |-> {}, carried |-> 0]

UploadInit ==
    /\ uplan \in UploadPlans
    /\ up = [conn |-> "down", wire |-> NoConn, last |-> NoConn, session |-> NoConn, here |-> FALSE,
             openPending |-> FALSE, reconciling |-> FALSE, owed |-> FALSE, inFlight |-> NoneInFlight,
             st |-> [ch \in Chs |-> "none"], awaited |-> {},
             sent |-> 0, handed |-> 0, acked |-> 0,
             stream |-> "idle", confirmed |-> FALSE, unconfirmed |-> <<>>,
             outbox |-> <<>>, post |-> NoConn, posted |-> <<>>, abandoned |-> NoConn,
             out |-> <<>>, cut |-> {}, cutUploads |-> {}]
    /\ us = [took |-> <<>>, last |-> 0, holds |-> [w \in Conns |-> {}], cuts |-> 0, drops |-> 0]
    /\ un = [w \in Conns |->
               [wire |-> "none", ready |-> FALSE, open |-> "none", openBody |-> <<>>,
                upload |-> "none", uploadBody |-> <<>>, batch |-> "none", batchBody |-> <<>>,
                down |-> <<>>, ended |-> FALSE, cut |-> FALSE, uploadCut |-> FALSE]]

-----------------------------------------------------------------------------
(* The page: what it sends and the RECONCILE exchange                       *)

Registered == {ch \in Chs : up.st[ch] # "none"}

\* An active upload takes the frames; until its acknowledgement they are kept.  Else the outbox.
SendFrames(p, frames) ==
    IF p.stream = "active"
    THEN [p EXCEPT !.out = @ \o frames,
                   !.unconfirmed = IF p.confirmed THEN <<>> ELSE @ \o frames]
    ELSE [p EXCEPT !.outbox = @ \o frames]

SendsAreOpen(p) == p.conn = "open" /\ ~p.reconciling /\ ~p.owed

\* What the gate holds of channel 1.
Held(p) == IF 1 \in p.awaited THEN <<>> ELSE Data(p.handed + 1, p.sent)

HandOver(p) == IF 1 \in p.awaited THEN p ELSE [p EXCEPT !.handed = p.sent]

\* The RECONCILE's frame, what it carries behind it, and the page's state with it in flight.
\* On the wire that has the session it names what changed.
BuildReconcile(p, carries) ==
    LET changes == p.session # NoConn /\ p.here
        named   == {ch \in Chs : IF changes THEN p.st[ch] = "new" ELSE p.st[ch] # "none"}
        carried == IF carries THEN Held(p) ELSE <<>>
    IN  [frames |-> <<[t |-> "RECONCILE", session |-> p.session, changes |-> changes, chs |-> named]>>
                    \o carried,
         page |-> [(IF carries THEN HandOver(p) ELSE p) EXCEPT
                     !.reconciling = TRUE, !.owed = FALSE,
                     !.inFlight = [chs |-> named,
                                   carried |-> IF carried = <<>> THEN 0 ELSE carried[1].n],
                     !.st = [ch \in Chs |-> IF ch \in named /\ @[ch] = "new" THEN "declared" ELSE @[ch]]]]

SendsReconcile(p) ==
    LET batch == BuildReconcile(p, TRUE) IN SendFrames(batch.page, batch.frames)

\* onReconcileDue
ReconcileDue(p) ==
    IF p.owed /\ p.conn = "open" /\ ~p.reconciling THEN SendsReconcile(p) ELSE p

\* Mutant: the wire given up keeps its requests.
CloseAbandonedNot(p) == p

\* closeAbandonedTransport
CloseAbandoned(p) ==
    [p EXCEPT !.abandoned = NoConn, !.cut = IF p.abandoned = NoConn THEN @ ELSE @ \cup {p.abandoned}]

\* applyReconciled, and the frames it sends: the replay before what the wire carried, what was held,
\* and the RECONCILE of the channels registered since.  The server awaits an initial channel that is
\* not in it; another one left out ends.
ApplyReconciled(p, f) ==
    LET flight == p.inFlight
        missing == flight.chs \ f.chs
        awaited == {ch \in missing : p.st[ch] # "open"}
        q == [CloseAbandoned(p) EXCEPT
                !.session = f.session, !.here = TRUE, !.inFlight = NoneInFlight,
                !.awaited = (@ \ flight.chs) \cup awaited,
                !.acked = IF 1 \in flight.chs \cap f.chs THEN f.last ELSE @,
                !.st = [ch \in Chs |-> IF ch \in flight.chs \cap f.chs THEN "open"
                                       ELSE IF ch \in missing \ awaited THEN "ended" ELSE @[ch]]]
        replay == IF 1 \notin flight.chs \cap f.chs THEN <<>>
                  ELSE Data(f.last + 1, IF flight.carried = 0 THEN p.handed ELSE flight.carried - 1)
        held   == IF q.st[1] = "open" THEN Held(q) ELSE <<>>
        drained == SendFrames(IF q.st[1] = "open" THEN HandOver(q) ELSE q, replay \o held)
    IN  IF \E ch \in Chs : q.st[ch] = "new" THEN SendsReconcile(drained)
        ELSE [drained EXCEPT !.reconciling = FALSE]

-----------------------------------------------------------------------------
(* The page: the wire's life                                                *)

\* onTransportOpen
EnterOpen(p) ==
    LET q == [p EXCEPT !.conn = "open"]
        r == ReconcileDue(q)
    IN  IF q.reconciling THEN q
        ELSE IF r.reconciling THEN r
        ELSE SendFrames(HandOver(r), Held(r))

\* handleTransportLoss: the exchange forgets the wire, whose queued RECONCILE is not sent.
TransportLoss(p) ==
    [p EXCEPT !.conn = "down", !.here = FALSE, !.reconciling = FALSE, !.owed = FALSE,
              !.inFlight = NoneInFlight, !.awaited = {}]

\* The wire's controller aborts, as its stream ends or its open fails.
CloseWire(p) ==
    TransportLoss([p EXCEPT !.wire = NoConn, !.openPending = FALSE, !.cut = @ \cup {p.wire},
                            !.stream = IF @ = "active" THEN "idle" ELSE @,
                            !.confirmed = FALSE, !.unconfirmed = <<>>])

\* abandonActiveTransport: the wire's requests go on until the next RECONCILED, or the next wire
\* given up.
AbandonWire(p) ==
    TransportLoss([CloseAbandoned(p) EXCEPT
        !.wire = NoConn, !.openPending = FALSE, !.abandoned = p.wire,
        !.stream = IF @ = "active" THEN "idle" ELSE @, !.confirmed = FALSE, !.unconfirmed = <<>>])

\* openStream: of the outbox only what may go again is kept; what was held goes along unless a
\* replay goes first.
OpenStream(p) ==
    LET replayFirst == p.session # NoConn \/ p.handed > p.acked
        w     == p.last + 1
        batch == BuildReconcile([p EXCEPT !.outbox = <<>>], ~replayFirst)
    IN  [batch |-> batch.frames,
         page |-> [batch.page EXCEPT !.wire = w, !.last = w, !.conn = "opening",
                                     !.openPending = TRUE, !.confirmed = FALSE, !.unconfirmed = <<>>,
                                     !.stream = IF @ = "failed" THEN "failed" ELSE "active"]]

\* confirmUpload, and the wire opens.
ConfirmUpload(p) == EnterOpen([p EXCEPT !.confirmed = TRUE, !.unconfirmed = <<>>])

\* Mutant: what the upload was written is taken as read.
AbandonUploadQuietly(p) ==
    EnterOpen([p EXCEPT !.stream = "failed", !.cutUploads = @ \cup {p.wire}, !.unconfirmed = <<>>])

\* abandonUpload, and the wire opens: what the server may not have read goes again, first.
AbandonUpload(p) ==
    EnterOpen([p EXCEPT !.stream = "failed", !.cutUploads = @ \cup {p.wire},
                        !.outbox = p.unconfirmed \o @, !.unconfirmed = <<>>])

Settling(p) == p.conn = "opening" /\ ~p.openPending

-----------------------------------------------------------------------------
(* The page's actions                                                       *)

\* What a handler leaves in p.out goes into the wire's upload; the wires and uploads it aborted are
\* cut.
PageDoes(p) ==
    /\ up' = [p EXCEPT !.out = <<>>, !.cut = {}, !.cutUploads = {}]
    /\ un' = [w \in Conns |->
                [un[w] EXCEPT !.uploadBody = IF w = p.wire THEN @ \o p.out ELSE @,
                              !.cut = @ \/ w \in p.cut,
                              !.uploadCut = @ \/ w \in p.cut \cup p.cutUploads]]

PageOnly(p) == PageDoes(p) /\ UNCHANGED <<uplan, us>>

Sends ==
    /\ up.sent < uplan.sends /\ up.st[1] \notin {"none", "ended"}
    /\ LET p == [up EXCEPT !.sent = @ + 1]
       IN  PageOnly(IF SendsAreOpen(p) /\ 1 \notin p.awaited
                    THEN SendFrames(HandOver(p), Held(p)) ELSE p)

\* register: with no wire one starts, else a RECONCILE is owed.
Registers(ch) ==
    /\ up.st[ch] = "none" /\ \A c \in Chs : c < ch => up.st[c] # "none"
    /\ PageOnly([up EXCEPT !.st[ch] = "new", !.owed = @ \/ up.wire # NoConn])

ReconcileTimer == ReconcileDue(up) # up /\ PageOnly(ReconcileDue(up))

Starts ==
    /\ up.wire = NoConn /\ up.last < uplan.wires /\ Registered # {}
    /\ LET opened == OpenStream(up)
           w      == opened.page.wire
       IN  /\ up' = opened.page
           /\ un' = [un EXCEPT ![w].open = "sent", ![w].openBody = opened.batch,
                               ![w].upload = IF opened.page.stream = "active" THEN "sent" ELSE "none"]
    /\ UNCHANGED <<uplan, us>>

\* openDownstream: the open's headers came.  Without an upload the wire is open.
OpenAnswers ==
    /\ up.openPending /\ un[up.wire].open \in {"reading", "read"}
    /\ LET p == [up EXCEPT !.openPending = FALSE]
       IN  PageOnly(IF p.stream = "active" THEN p ELSE EnterOpen(p))

\* readEvents: the acknowledgement settles the upload, unless something did before.
ReadsAck(p) == IF Settling(p) /\ p.stream = "active" THEN ConfirmUpload(p) ELSE p

ReadsEvent ==
    /\ up.wire # NoConn /\ ~up.openPending /\ un[up.wire].down # <<>>
    /\ LET f == Head(un[up.wire].down)
           p == IF f.t = "ACK" THEN ReadsAck(up) ELSE ApplyReconciled(up, f)
       IN  /\ up' = [p EXCEPT !.out = <<>>, !.cut = {}]
           /\ un' = [w \in Conns |->
                       [un[w] EXCEPT !.down = IF w = up.wire THEN Tail(@) ELSE @,
                                     !.uploadBody = IF w = up.wire THEN @ \o p.out ELSE @,
                                     !.cut = @ \/ w \in p.cut, !.uploadCut = @ \/ w \in p.cut]]
    /\ UNCHANGED <<uplan, us>>

AckTimeout == "ack" \in uplan.timers /\ Settling(up) /\ PageOnly(AbandonUpload(up))

\* The upload POST ended: before its acknowledgement it is given up; after it, its wire is.
UploadEnds ==
    /\ up.wire # NoConn /\ ~up.openPending /\ up.stream = "active" /\ un[up.wire].upload = "ended"
    /\ PageOnly(IF up.confirmed THEN CloseWire(up) ELSE AbandonUpload(up))

StreamEnds ==
    /\ up.wire # NoConn /\ ~up.openPending /\ un[up.wire].ended /\ un[up.wire].down = <<>>
    /\ PageOnly(CloseWire(up))

\* onReconcileLate, onWireLate: the page gives the wire up.
WireIsLate ==
    /\ up.wire # NoConn /\ us.drops < uplan.drops
    /\ PageDoes(AbandonWire(up))
    /\ us' = [us EXCEPT !.drops = @ + 1] /\ UNCHANGED uplan

\* flushOutbox
Flushes ==
    /\ up.wire # NoConn /\ ~up.openPending /\ up.post = NoConn /\ up.outbox # <<>>
    /\ up' = [up EXCEPT !.post = up.wire, !.posted = up.outbox, !.outbox = <<>>]
    /\ un' = [un EXCEPT ![up.wire].batch = "sent", ![up.wire].batchBody = up.outbox]
    /\ UNCHANGED <<uplan, us>>

PostEnded(p) == [p EXCEPT !.post = NoConn, !.posted = <<>>]

\* The batch POST is answered.
PostAnswers ==
    /\ up.post # NoConn /\ un[up.post].batch = "answered"
    /\ up' = PostEnded(up) /\ un' = [un EXCEPT ![up.post].batch = "none"]
    /\ UNCHANGED <<uplan, us>>

\* It is refused, cut or aborted: on the page's wire its frames go back and the wire is given up; of
\* another wire's none are kept.
PostFailed(p) ==
    IF p.post # p.wire THEN PostEnded(p)
    ELSE AbandonWire([PostEnded(p) EXCEPT !.outbox = p.posted \o @])

PostFails ==
    /\ up.post # NoConn /\ (un[up.post].batch \in {"refused", "lost"} \/ un[up.post].cut)
    /\ PageOnly(PostFailed(up))

-----------------------------------------------------------------------------
(* The server                                                               *)

\* closeWire: the POSTs parked on it go on, and its session's channels wait for another.
ServerCloses(w) ==
    /\ un' = [un EXCEPT ![w].wire = "closed", ![w].ready = TRUE, ![w].ended = TRUE]
    /\ us' = [us EXCEPT !.holds[w] = {}]

\* A frame read on wire w.  A RECONCILE takes the channels it names into w's session, and ends the
\* other session it names; its RECONCILED goes at once.  Data goes to the channel w's session holds,
\* which drops the seqs it has.
Reconciled(s, w, f) ==
    [s EXCEPT !.holds = [v \in Conns |-> IF v = w THEN (IF f.changes THEN @[w] \cup f.chs ELSE f.chs)
                                         ELSE IF v = f.session THEN {} ELSE @[v]]]

AnswerTo(s, w, f) ==
    IF f.t # "RECONCILE" THEN <<>>
    ELSE <<[t |-> "RECONCILED", session |-> w, chs |-> f.chs, last |-> s.last]>>

Handles(s, w, f) ==
    IF f.t = "RECONCILE" THEN Reconciled(s, w, f)
    ELSE IF 1 \notin s.holds[w] \/ f.n <= s.last THEN s
    ELSE [s EXCEPT !.took = Append(@, f.n), !.last = f.n]

\* handleStreamResponsePost: the wire opens, and an upload that waits for it is acknowledged.
\* The wires' opens are read in their order (a later one read first is MCLateReconcile's case).
OpenArrives(w) ==
    /\ un[w].open = "sent" /\ \A v \in Conns : v < w => un[v].open \notin {"sent", "reading"}
    /\ un' = [un EXCEPT ![w].open = "reading", ![w].wire = "open",
                        ![w].upload = IF @ = "waits" THEN "acked" ELSE @,
                        ![w].down = IF un[w].upload = "waits" THEN Append(@, [t |-> "ACK"]) ELSE @]
    /\ UNCHANGED <<uplan, up, us>>

\* runStreamResponse: its frames in their order, then the wire is ready for the others.
ReadsOpen(w) ==
    /\ un[w].open = "reading"
    /\ IF un[w].openBody = <<>> \/ un[w].wire = "closed"
       THEN un' = [un EXCEPT ![w].open = "read", ![w].openBody = <<>>, ![w].ready = TRUE] /\ UNCHANGED us
       ELSE LET f == Head(un[w].openBody)
            IN  /\ us' = Handles(us, w, f)
                /\ un' = [un EXCEPT ![w].openBody = Tail(@), ![w].down = @ \o AnswerTo(us, w, f)]
    /\ UNCHANGED <<uplan, up>>

\* handleStreamRequestPost: acknowledged as it arrives, whatever the open's reading; a POST for a wire
\* yet to open waits for it.
UploadArrives(w) ==
    /\ un[w].upload = "sent"
    /\ un' = [un EXCEPT
                ![w].upload = CASE un[w].wire = "none"   -> "waits"
                                [] un[w].wire = "open"   -> "acked"
                                [] un[w].wire = "closed" -> "ended",
                ![w].down = IF un[w].wire = "open" THEN Append(@, [t |-> "ACK"]) ELSE @]
    /\ UNCHANGED <<uplan, up, us>>

WaitExpires(w) ==
    /\ "connectTtl" \in uplan.timers /\ un[w].upload = "waits"
    /\ un' = [un EXCEPT ![w].upload = "ended"] /\ UNCHANGED <<uplan, up, us>>

ReadsUpload(w) ==
    /\ un[w].upload = "acked" /\ un[w].ready
    /\ IF un[w].wire = "closed"
       THEN un' = [un EXCEPT ![w].upload = "ended"] /\ UNCHANGED us
       ELSE /\ un[w].uploadBody # <<>>
            /\ us' = Handles(us, w, Head(un[w].uploadBody))
            /\ un' = [un EXCEPT ![w].uploadBody = Tail(@),
                                ![w].down = @ \o AnswerTo(us, w, Head(un[w].uploadBody))]
    /\ UNCHANGED <<uplan, up>>

\* handleBatchPost: refused for a wire that closed, else its frames once the wire is ready.  A wire
\* that closes meanwhile ends the reading, not the POST, which is answered as one that was read.
BatchArrives(w) ==
    /\ un[w].batch = "sent"
    /\ un' = [un EXCEPT ![w].batch = IF un[w].wire = "closed" THEN "refused" ELSE "reading"]
    /\ UNCHANGED <<uplan, up, us>>

ReadsBatch(w) ==
    /\ un[w].batch = "reading" /\ un[w].ready
    /\ IF un[w].batchBody = <<>> \/ un[w].wire = "closed"
       THEN un' = [un EXCEPT ![w].batch = "answered", ![w].batchBody = <<>>] /\ UNCHANGED us
       ELSE LET f == Head(un[w].batchBody)
            IN  /\ us' = Handles(us, w, f)
                /\ un' = [un EXCEPT ![w].batchBody = Tail(@), ![w].down = @ \o AnswerTo(us, w, f)]
    /\ UNCHANGED <<uplan, up>>

\* The page aborted the wire: the server hears its event stream is gone.
HearsOfTheCut(w) ==
    /\ un[w].wire = "open" /\ (un[w].cut \/ un[w].ended) /\ ServerCloses(w)
    /\ UNCHANGED <<uplan, up>>

-----------------------------------------------------------------------------
(* The network                                                              *)

Cuts == us.cuts < uplan.cuts /\ us' = [us EXCEPT !.cuts = @ + 1] /\ UNCHANGED uplan

\* The open POST fails before its answer: failOpen.
OpenIsCut ==
    /\ up.openPending /\ Cuts
    /\ LET w == up.wire
           p == CloseWire(up)
       IN  /\ up' = [p EXCEPT !.cut = {}]
           /\ un' = [un EXCEPT ![w].cut = TRUE, ![w].uploadCut = TRUE]

\* The event stream breaks: what it still carried is lost.
StreamIsCut(w) ==
    /\ un[w].wire = "open" /\ ~un[w].ended /\ Cuts
    /\ un' = [un EXCEPT ![w].ended = TRUE, ![w].down = <<>>] /\ UNCHANGED up

\* The upload POST ends at the page; the server may have read any part of it.
UploadIsCut(w) ==
    /\ un[w].upload \in {"sent", "waits", "acked"} /\ Cuts
    /\ un' = [un EXCEPT ![w].upload = "ended", ![w].uploadBody = <<>>] /\ UNCHANGED up

\* A batch POST fails: before it arrived, while it is read, or with its answer.
BatchIsCut(w) ==
    /\ un[w].batch \in {"sent", "reading", "answered"} /\ up.post = w /\ Cuts
    /\ un' = [un EXCEPT ![w].batch = "lost", ![w].batchBody = <<>>] /\ UNCHANGED up

\* An aborted request goes no further than it got.  An open POST that ends so closes its wire.
AbortedIsLost(w) ==
    /\ \/ /\ un[w].cut /\ un[w].open = "sent"
          /\ un' = [un EXCEPT ![w].open = "lost", ![w].openBody = <<>>] /\ UNCHANGED us
       \/ /\ un[w].cut /\ un[w].open = "reading" /\ un[w].wire = "open" /\ ServerCloses(w)
       \/ /\ un[w].uploadCut /\ un[w].upload \in {"sent", "waits", "acked"}
          /\ un' = [un EXCEPT ![w].upload = "ended", ![w].uploadBody = <<>>] /\ UNCHANGED us
       \/ /\ un[w].cut /\ un[w].batch \in {"sent", "reading"}
          /\ un' = [un EXCEPT ![w].batch = "lost", ![w].batchBody = <<>>] /\ UNCHANGED us
    /\ UNCHANGED <<uplan, up>>

-----------------------------------------------------------------------------

PageSteps ==
    Starts \/ OpenAnswers \/ ReadsEvent \/ ReconcileTimer \/ UploadEnds \/ StreamEnds \/ PostAnswers
    \/ PostFails

ServerSteps(w) ==
    OpenArrives(w) \/ ReadsOpen(w) \/ UploadArrives(w) \/ ReadsUpload(w) \/ HearsOfTheCut(w)

BatchSteps(w) == BatchArrives(w) \/ ReadsBatch(w)

UploadNext ==
    \/ PageSteps \/ Flushes \/ AckTimeout \/ WireIsLate \/ OpenIsCut
    \/ Sends \/ \E ch \in Chs : Registers(ch)
    \/ \E w \in Conns :
        \/ ServerSteps(w) \/ BatchSteps(w) \/ WaitExpires(w)
        \/ StreamIsCut(w) \/ UploadIsCut(w) \/ BatchIsCut(w) \/ AbortedIsLost(w)

\* The page's event loop and its flush timer go on.  The requests of the wire the page is on get
\* through; the upload and the batch POST of one it gave up need not: they may hang until they are
\* aborted.  An open POST, which the next wire's is read after, does whichever wire's it is.
PageGoesOn == PageSteps \/ Flushes
NetworkGoesOn ==
    \E w \in Conns :
        \/ OpenArrives(w) \/ ReadsOpen(w) \/ HearsOfTheCut(w)
        \/ w = up.wire /\ (UploadArrives(w) \/ ReadsUpload(w) \/ BatchSteps(w))
        \/ un[w].cut /\ AbortedIsLost(w)

UploadFairness == WF_uvars(PageGoesOn) /\ WF_uvars(NetworkGoesOn)

UploadSpec == UploadInit /\ [][UploadNext]_uvars /\ UploadFairness

-----------------------------------------------------------------------------
(* Properties                                                               *)

UploadTypeOK ==
    /\ up.conn \in {"down", "opening", "open"} /\ up.wire \in Conns \cup {NoConn}
    /\ (up.conn = "down") = (up.wire = NoConn)
    /\ up.acked <= up.handed /\ up.handed <= up.sent
    /\ up.stream \in {"idle", "active", "failed"} /\ up.awaited \subseteq Registered
    /\ up.unconfirmed # <<>> => up.stream = "active" /\ ~up.confirmed
    /\ up.stream = "active" => up.outbox = <<>>
    /\ \A w \in Conns : us.holds[w] \subseteq Chs

\* What the server takes of a channel is 1, 2, ... without a gap, whichever POSTs carried it and
\* whichever were read twice, late or not at all.
TakenInOrder == us.took = [i \in 1 .. Len(us.took) |-> i]

\* Once the page is reconciled on a wire the server has, the server holds there each channel the
\* page takes as open.
OpenIsHeld ==
    /\ up.conn = "open" /\ ~up.reconciling /\ up.here /\ un[up.wire].wire = "open"
    => {ch \in Chs : up.st[ch] = "open"} \subseteq us.holds[up.wire]

\* No channel ends for want of the server's answer.
NoneEnds == \A ch \in Chs : up.st[ch] # "ended"

\* Uploads keep the order, and the ends agree on what is open.
UploadsHold == UploadTypeOK /\ TakenInOrder /\ OpenIsHeld /\ NoneEnds

\* All the page sent arrives, and the channels it registers open, again and again.  That is of a page
\* with at most two channels: the RECONCILE of an abandoned upload goes again, and is answered twice
\* (SseTransport.ts:362); a third channel's, sent in between, takes the second answer as its own,
\* which leaves that channel awaited (AttachExchange.ts:173, 212-216).
UploadsSettle ==
    []<>(/\ Len(us.took) = up.sent
         /\ \A ch \in Chs : up.st[ch] \in {"none", "open"})

=============================================================================
