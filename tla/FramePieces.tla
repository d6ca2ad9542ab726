----------------------------- MODULE FramePieces -----------------------------
(***************************************************************************)
(* What a WebSocket's frames go through (flowControl/pieces.ts): at each   *)
(* end a PieceSender cuts, gathers, announces and holds back, and a        *)
(* PieceReceiver puts together, counts and acknowledges.  The page holds   *)
(* back by its uplink (client/ClientHeadroom.ts) and cuts data to what it  *)
(* has room for; the server holds back by the path                         *)
(* (server/ServerHeadroom.ts) and lets data go whole.                      *)
(*                                                                         *)
(* An end is a record of both, handled by operators on it.  The socket     *)
(* carries messages, each a sequence of frames whose last is alone and     *)
(* whose others ride.  Rates are abstracted: whether one is measured, and  *)
(* what a plan says it lets go whole; what the rate drained is a step.     *)
(* Left out: when timers fire, the wire's end, what a server wire holds at *)
(* most.                                                                   *)
(***************************************************************************)
EXTENDS Integers, SequencesExt, FiniteSetsExt

CONSTANTS
    PieceHeader, AnnounceBytes, LengthBytes, AckFrameBytes,
    ProbeFirst, ProbePair, AckBytes, SendAckMin, AnnouncedMin, GatherMost, SendAhead,
    PiecePlans  \* what each end sends, and what its rates let go

ASSUME PiecesAssumption ==
    /\ {PieceHeader, AnnounceBytes, LengthBytes, AckFrameBytes, ProbeFirst, ProbePair, AckBytes,
        SendAckMin, AnnouncedMin, GatherMost, SendAhead} \subseteq Nat \ {0}
    /\ ProbeFirst < ProbePair /\ SendAckMin <= AckBytes /\ AckBytes < SendAhead

VARIABLES pplan, e

pvars == <<pplan, e>>

Ends == {"page", "server"}
Peer(x) == IF x = "page" THEN "server" ELSE "page"

NoProbe == [end |-> 0, second |-> 0]
NotOpen == [start |-> 0, bytes |-> -1]
NoneOpen == -1

PiecesInit ==
    /\ pplan \in PiecePlans
    /\ e = [x \in Ends |->
              [side |-> x, todo |-> pplan[x].frames, gate |-> <<>>,
               sent |-> 0, acked |-> 0, beat |-> 0, head |-> 0,
               unacknowledged |-> <<>>, announcedEnds |-> <<>>, announcements |-> <<>>,
               probe |-> NoProbe, rest |-> <<>>, waiting |-> <<>>,
               open |-> NotOpen, lastAnnounced |-> 0, namedFloor |-> FALSE,
               measured |-> FALSE, floor |-> FALSE,
               carried |-> <<>>, held |-> <<>>, gathered |-> FALSE, atOnce |-> FALSE,
               endQueued |-> FALSE, out |-> <<>>,
               rated |-> FALSE, load |-> 0, pace |-> FALSE,
               took |-> 0, acknowledgedTook |-> 0, total |-> 0, received |-> 0, whose |-> 0,
               probing |-> 0, announced |-> NoneOpen, newestData |-> <<>>, ackedData |-> <<>>,
               timer |-> FALSE, alone |-> FALSE, carrying |-> FALSE,
               got |-> <<>>, pings |-> pplan[x].pings, refused |-> FALSE, wrong |-> FALSE]]

-----------------------------------------------------------------------------
(* Frames                                                                   *)

\* data (a FIN too waits for the data before it), control, heartbeats and acknowledgements.
IsSequenced(f) == f.t = "data"
PassesData(f) == f.t \notin {"data", "fin"}
Acknowledges(bytes) == bytes > AckBytes

\* What travels is a frame, a piece of one, or an ANNOUNCE.
ItemBytes(i) ==
    CASE i.t = "piece" -> PieceHeader + i.bytes [] i.t = "announce" -> AnnounceBytes [] OTHER -> i.size

\* lengthBytes: the LENGTH a frame of no fixed size needs when another follows it in its message.
LengthAhead(f) == IF f.t \in {"data", "control", "reconciled", "heartbeat"} THEN LengthBytes ELSE 0

MessageBytes(items) ==
    LET bytes(i) == ItemBytes(items[i]) + IF i < Len(items) THEN LengthAhead(items[i]) ELSE 0
    IN  MapThenSumSet(bytes, DOMAIN items)

Ack(bytes, from, to) == [t |-> "ack", size |-> AckFrameBytes, bytes |-> bytes, from |-> from, to |-> to]
Piece(f, at, bytes) == [t |-> "piece", frame |-> f, at |-> at, bytes |-> bytes]
Announce(bytes) == [t |-> "announce", bytes |-> bytes]

-----------------------------------------------------------------------------
(* The sender: what its rates let go                                        *)

Cuts(s) == s.side = "page"
DataWaits(s) == s.rest # <<>>
WaitingBytes(s) ==
    LET size(i) == s.waiting[i].size
    IN  MapThenSumSet(size, DOMAIN s.waiting)
        + IF DataWaits(s) THEN s.rest[1].frame.size - s.rest[1].at ELSE 0
SentBytes(s) == s.sent + WaitingBytes(s)

\* setWholeUpTo: by the rate; without one by the least rate known, which a sender that cuts does not use.
WholeUpTo(s) ==
    IF s.measured THEN pplan[s.side].whole
    ELSE IF s.floor /\ ~Cuts(s) THEN Max({2 * ProbePair, pplan[s.side].floor}) ELSE 2 * ProbePair
UnannouncedUpTo(s) ==
    Min({WholeUpTo(s), IF s.floor THEN Max({ProbeFirst, pplan[s.side].floor}) ELSE ProbeFirst})
GatherUpTo(s) == Min({GatherMost, IF s.measured THEN WholeUpTo(s) ELSE UnannouncedUpTo(s)})

AnnouncedNext(last, floor) ==
    IF last = 0 /\ ~floor THEN ProbeFirst ELSE Max({2 * last, AnnouncedMin})

\* countHanded, and the owner's `handed`: a page with a rate counts what its uplink holds, a server
\* what the path does.
CountHanded(s, bytes) ==
    [s EXCEPT !.sent = @ + bytes, !.head = @ - bytes,
              !.load = IF Cuts(s) /\ ~s.rated THEN @ ELSE @ + bytes]

-----------------------------------------------------------------------------
(* The sender: messages                                                     *)

FlushHeld(s) ==
    IF s.held = <<>> THEN s
    ELSE [s EXCEPT !.out = Append(@, s.held), !.held = <<>>, !.gathered = FALSE, !.atOnce = FALSE]

\* Only frames of a fixed size may be ahead of a message handed.
HandItem(s, item) ==
    FlushHeld([s EXCEPT !.held = Append(@, item),
                        !.refused = @ \/ (s.held # <<>> /\ LengthAhead(Last(s.held)) > 0)])

HandGathered(s) == IF s.gathered THEN FlushHeld(s) ELSE s

\* count, and add: the frame before it now needs its LENGTH.
AddFrame(s, f) ==
    LET ahead == IF s.held = <<>> THEN 0 ELSE LengthAhead(Last(s.held))
    IN  [CountHanded(s, ahead + f.size) EXCEPT !.held = Append(@, f)]

\* takeAcknowledgement: what it took, and the data arrivals it spans.
TakenAck(s) == Ack(s.took, s.ackedData, s.newestData)
TakeAcknowledgement(s) ==
    [s EXCEPT !.timer = FALSE, !.alone = FALSE, !.carrying = FALSE,
              !.acknowledgedTook = s.took, !.ackedData = s.newestData]

\* Mutant: an acknowledgement that went alone goes again with the next message.
TakeCarriedTwice(s) ==
    LET take(r, c) == AddFrame(TakeAcknowledgement(r), TakenAck(r))
    IN  FoldLeft(take, [s EXCEPT !.carried = <<>>], s.carried)

\* takeCarried: each is taken only if it still waits to be.
TakeCarried(s) ==
    LET take(r, c) == IF ~r.carrying THEN r ELSE AddFrame(TakeAcknowledgement(r), TakenAck(r))
    IN  FoldLeft(take, [s EXCEPT !.carried = <<>>], s.carried)

Track(s, probe) == [s EXCEPT !.unacknowledged = Append(@, [end |-> s.sent, probe |-> probe])]
TrackIf(s, bytes) == IF Acknowledges(bytes) THEN Track(s, FALSE) ELSE s

\* gather: the task's message, or a new one: past the most it carries, for data behind a frame that
\* goes at once, and for data of a sender that cuts.
Gather(s, f) ==
    LET ahead == IF s.held = <<>> THEN 0 ELSE LengthAhead(Last(s.held))
        full  == MessageBytes(s.held) + ahead + f.size > GatherUpTo(s)
        r     == IF s.gathered /\ ((IsSequenced(f) /\ (s.atOnce \/ Cuts(s))) \/ full)
                 THEN FlushHeld(s) ELSE s
        t     == AddFrame(r, f)
    IN  [t EXCEPT !.gathered = TRUE, !.atOnce = @ \/ ~IsSequenced(f), !.endQueued = TRUE]

EmptyPiece(s, f) == HandItem(CountHanded(s, PieceHeader), Piece(f, 0, 0))

WaitWith(s, f, at) == [s EXCEPT !.rest = <<[frame |-> f, at |-> at]>>]

\* Pieces of f from `at` to `end`, each of `size`.
PiecesOf(f, at, end, size) ==
    [i \in 1 .. ((end - at + size - 1) \div size) |->
        LET from == at + (i - 1) * size IN Piece(f, from, Min({size, end - from}))]

HandPieces(s, f, pieces, bytes) ==
    FoldLeft(HandItem, TrackIf(CountHanded(s, bytes + Len(pieces) * PieceHeader), f.size), pieces)

CutTo(s, f, at, end, whole) ==
    LET probed == IF at = 0 /\ f.size > whole THEN EmptyPiece(s, f) ELSE s
        gone   == HandPieces(probed, f, PiecesOf(f, at, end, whole), end - at)
    IN  IF end = at THEN WaitWith(s, f, at)
        ELSE IF end < f.size THEN WaitWith(gone, f, end) ELSE gone

\* cut: data of a sender that cuts goes as far as its headroom.
CutUpTo(s, f, at) ==
    IF IsSequenced(f) /\ Cuts(s) THEN Min({f.size, at + Max({0, s.head})}) ELSE f.size
CutGathered(s, f, at) == CutTo(s, f, at, CutUpTo(s, f, at), WholeUpTo(s))
Cut(s, f, at) == CutGathered(HandGathered(s), f, at)

\* pass: hands the frame to the socket, whole or in pieces.
Pass(s, f) ==
    LET data == IsSequenced(f)
    IN  IF data /\ ~Cuts(s) /\ s.head <= 0 THEN WaitWith(s, f, 0)
        ELSE IF f.size > WholeUpTo(s) \/ (s.measured /\ data /\ Cuts(s) /\ f.size > s.head)
             THEN Cut(s, f, 0)
        ELSE IF f.size < GatherUpTo(s) THEN Gather(s, f)
        ELSE HandItem(TrackIf(CountHanded(HandGathered(s), f.size), f.size), f)

-----------------------------------------------------------------------------
(* The sender: announcements and the probe                                  *)

AnnouncedMessage(s, item, bytes, end) ==
    HandItem([s EXCEPT !.lastAnnounced = bytes, !.announcedEnds = Append(@, end)], item)

\* The sizes `left` bytes go in behind a message of `last`, none past what one may carry after the
\* one before.
AnnouncedSizes(left, last, floor) ==
    LET sizes[n \in 0 .. left] ==  \* n messages
            IF n = 0 THEN <<>>
            ELSE LET before == sizes[n - 1]
                     gone   == FoldLeft(+, 0, before)
                     newest == IF before = <<>> THEN last ELSE Last(before)
                 IN  IF gone = left THEN before
                     ELSE Append(before, Min({left - gone, AnnouncedNext(newest, floor)}))
        all  == sizes[left]
        n    == Len(all)
        both == all[n - 1] + all[n]
    IN  IF n >= 2 /\ all[n] < all[n - 1]
        THEN [all EXCEPT ![n - 1] = (both + 2) \div 3, ![n] = both - (both + 2) \div 3]
        ELSE all

\* sendAnnounced
SendInSizes(s, f, from, sizes) ==
    LET handed == TrackIf(CountHanded(s, f.size - from + Len(sizes) * PieceHeader), f.size)
        send(r, size) ==
            [s   |-> AnnouncedMessage(r.s, Piece(f, r.at, size), size, r.end + PieceHeader + size),
             at  |-> r.at + size, end |-> r.end + PieceHeader + size]
    IN  FoldLeft(send, [s |-> handed, at |-> from, end |-> s.sent], sizes).s

SendAnnounced(s, f, at) ==
    IF at = 0 /\ f.size <= AnnouncedNext(s.lastAnnounced, s.namedFloor)
    THEN AnnouncedMessage(TrackIf(CountHanded(s, f.size), f.size), f, f.size, s.sent + f.size)
    ELSE SendInSizes(s, f, at, AnnouncedSizes(f.size - at, s.lastAnnounced, s.namedFloor))

\* sendProbe: an empty piece, two more that are acknowledged at once, then the rest.
ProbePart(s, f, at, bytes) ==
    AnnouncedMessage(Track(CountHanded(s, PieceHeader + bytes), TRUE), Piece(f, at, bytes), bytes,
                     s.sent + PieceHeader + bytes)
Probing(s, f) ==
    [s EXCEPT !.probe =
        [end |-> s.sent, second |-> IF IsSequenced(f) THEN s.sent - PieceHeader - ProbePair ELSE 0]]
SendProbe(s, f) ==
    Probing(ProbePart(ProbePart(EmptyPiece(s, f), f, 0, ProbeFirst), f, ProbeFirst, ProbePair), f)

\* sendBehindAnnouncement: the first opens the announcement, and a large one is the probe.
OpenAnnouncement(s) ==
    IF s.open # NotOpen THEN s
    ELSE HandItem(CountHanded([s EXCEPT !.open = [start |-> s.sent, bytes |-> 0],
                                        !.namedFloor = s.floor], AnnounceBytes), Announce(0))
SendBehindOpen(s, f) ==
    LET behind == [s EXCEPT !.open.bytes = @ + f.size]
        probes == ~s.measured /\ s.probe = NoProbe /\ f.size > WholeUpTo(s)
    IN  SendAnnounced(IF probes THEN SendProbe(behind, f) ELSE behind, f,
                      IF probes THEN ProbeFirst + ProbePair ELSE 0)
SendBehindAnnouncement(s, f) == SendBehindOpen(OpenAnnouncement(HandGathered(s)), f)

CloseAnnouncement(s) ==
    LET closed == HandItem(CountHanded([s EXCEPT !.open = NotOpen], AnnounceBytes),
                           Announce(s.open.bytes))
    IN  [closed EXCEPT !.announcements = Append(@, [start |-> s.open.start, end |-> closed.sent])]

Announces(s, f) ==
    \/ s.probe # NoProbe
    \/ ~s.measured /\ f.size > UnannouncedUpTo(s) /\ (f.size > WholeUpTo(s) \/ IsSequenced(f))

GoesWhole(s, f) ==
    ~s.measured /\ s.probe = NoProbe /\ IsSequenced(f) /\ f.size <= Min({SendAhead, s.head})

SendWhole(s, f) == HandItem(CountHanded(HandGathered(s), f.size), f)

\* send
Passes(s, f) ==
    \/ f.t = "ack" /\ s.open = NotOpen
    \/ IF DataWaits(s) THEN PassesData(f) /\ f.size <= WholeUpTo(s)
       ELSE s.open = NotOpen /\ ~Announces(s, f)
SendNow(s, f) ==
    IF Passes(s, f) THEN Pass(s, f)
    ELSE IF DataWaits(s) THEN [s EXCEPT !.waiting = Append(@, f)]
    ELSE IF s.open = NotOpen /\ GoesWhole(s, f) THEN SendWhole(s, f)
    ELSE SendBehindAnnouncement(s, f)
SenderSend(s, f, headroom) == SendNow(TakeCarried([s EXCEPT !.head = headroom]), f)

\* sendWaiting: a sender that cuts goes on where it stopped; the frames behind go till data waits again.
SendRest(s) ==
    LET rest == s.rest[1]
        free == [s EXCEPT !.rest = <<>>, !.waiting = <<>>]
        next(r, f) == IF DataWaits(r) THEN [r EXCEPT !.waiting = Append(@, f)] ELSE Pass(r, f)
    IN  FoldLeft(next, IF Cuts(s) THEN Cut(free, rest.frame, rest.at) ELSE Pass(free, rest.frame),
                 s.waiting)
SenderSendWaiting(s, headroom) == SendRest(TakeCarried([s EXCEPT !.head = headroom]))

-----------------------------------------------------------------------------
(* The headrooms                                                            *)

\* A page's, with `sent` counted as sent: what neither an acknowledgement nor a heartbeat says was
\* taken, or what its uplink holds.
PageHeadroom(s, sent) ==
    LET waiting   == Min({sent - s.acked, s.load + sent - s.sent})
        unarrived == IF pplan.late THEN 0 ELSE sent - Max({s.acked, s.beat})
    IN  SendAhead - Max({waiting, unarrived})

\* A server's, which knows none until it has a rate.
Unbounded == 1000
ServerHeadroom(s) == IF s.rated THEN SendAhead - s.load ELSE Unbounded

Headroom(s) == IF s.side = "page" THEN PageHeadroom(s, s.sent) ELSE ServerHeadroom(s)

\* Mutant: what waits paces nothing.
PaceNot(s) == s

\* pace: a page looks again while its uplink holds something, a server while data waits.
Pace(s) ==
    IF IF s.side = "page" THEN s.rated /\ PageHeadroom(s, SentBytes(s)) <= 0 /\ s.load > 0
       ELSE WaitingBytes(s) > 0
    THEN [s EXCEPT !.pace = TRUE] ELSE s

PaceIf(paces, s) == IF paces THEN Pace(s) ELSE s

SendWaitingNow(s) == IF DataWaits(s) THEN SenderSendWaiting(s, Headroom(s)) ELSE s

-----------------------------------------------------------------------------
(* The receiver's acknowledgements                                          *)

AcknowledgeWithNext(s) ==
    IF s.carrying THEN s ELSE [s EXCEPT !.carrying = TRUE, !.carried = Append(@, "ack")]

\* acknowledge: alone, through its side's sender.
AcknowledgeAlone(s) ==
    PaceIf(s.side = "server", SenderSend(TakeAcknowledgement(s), TakenAck(s), 0))

Arm(s, alone) == [s EXCEPT !.timer = TRUE, !.alone = @ \/ alone]

\* ackWait: whether the last acknowledgement was too short ago.  The timer then fires whenever.
MustWait(s) == pplan.gaps /\ s.acknowledgedTook > 0

\* acknowledgeSoon, acknowledgeWithNextSoon
AcknowledgeSoon(s) == IF MustWait(s) THEN Arm(s, TRUE) ELSE AcknowledgeAlone(s)
AcknowledgeWithNextSoon(s) == IF MustWait(s) THEN Arm(s, FALSE) ELSE AcknowledgeWithNext(s)

Answering(s) == IF s.took - s.acknowledgedTook >= SendAckMin THEN AcknowledgeWithNext(s) ELSE s

\* ServerPieceReceiver.acknowledgeTaken
AcknowledgeTaken(s, data, announced) ==
    LET r == IF data /\ s.took - s.acknowledgedTook >= SendAckMin THEN Arm(s, TRUE) ELSE s
    IN  IF announced \/ r.took - r.acknowledgedTook > AckBytes THEN AcknowledgeSoon(r) ELSE r

DateData(s, data, arrival) == IF data THEN [s EXCEPT !.newestData = arrival] ELSE s

TookFrame(s, f, announced) ==
    LET dated == DateData(s, IsSequenced(f), <<f.n, 0>>)
    IN  IF s.side = "server" THEN AcknowledgeTaken(dated, IsSequenced(f), announced)
        ELSE IF Acknowledges(f.size) THEN AcknowledgeWithNextSoon(dated) ELSE s

TookPiece(s, f, whole, announced) ==
    IF s.side = "server" THEN AcknowledgeTaken(s, IsSequenced(f), announced)
    ELSE IF whole /\ Acknowledges(f.size) THEN AcknowledgeWithNextSoon(s) ELSE s

-----------------------------------------------------------------------------
(* The receiver                                                             *)

Paced(s, bytes) == IF s.announced = NoneOpen THEN s ELSE [s EXCEPT !.announced = @ + bytes]

\* arrived
TakesFrame(s, f, riding) ==
    LET took      == [s EXCEPT !.took = @ + f.size + IF riding THEN LengthAhead(f) ELSE 0]
        announced == ~riding /\ s.announced # NoneOpen
    IN  TookFrame(IF riding THEN took ELSE Paced(took, f.size), f, announced)

\* announce
TakesAnnounce(s, i) ==
    LET took == [s EXCEPT !.took = @ + AnnounceBytes]
    IN  IF s.announced = NoneOpen THEN [took EXCEPT !.announced = 0, !.refused = @ \/ i.bytes # 0]
        ELSE LET closed == [took EXCEPT !.announced = NoneOpen, !.refused = @ \/ i.bytes # s.announced]
             IN  IF s.side = "server" THEN closed ELSE AcknowledgeSoon(closed)

\* add: the pieces of a frame come one after another, nothing missing.
TakesPiece(s, i) ==
    LET f     == i.frame
        first == s.received = 0
        took  == [s EXCEPT !.took = @ + PieceHeader + i.bytes, !.received = @ + i.bytes,
                           !.total = f.size, !.whose = f.n,
                           !.refused = @ \/ (~first /\ s.total # f.size) \/ i.bytes = 0
                                         \/ i.bytes > f.size - s.received,
                           !.wrong = @ \/ (~first /\ s.whose # f.n) \/ i.at # s.received]
        paced == Paced(DateData(took, IsSequenced(f), <<f.n, i.at>>), i.bytes)
        whole == paced.received = f.size
        done(r) == IF whole THEN [r EXCEPT !.received = 0, !.probing = 0] ELSE r
    IN  IF first /\ i.bytes = 0
        THEN [s EXCEPT !.took = @ + PieceHeader, !.total = f.size, !.probing = 2]
        ELSE done(IF s.probing > 0 THEN AcknowledgeAlone([paced EXCEPT !.probing = @ - 1])
                  ELSE TookPiece(paced, f, whole, s.announced # NoneOpen))

-----------------------------------------------------------------------------
(* What an end does with a frame                                            *)

\* acknowledged: what the ack covers goes; the second probe piece alone gives the rate, an
\* announcement the floor, other samples a rate if they took a tick.
SenderAcknowledged(s, a) ==
    LET newly  == a.bytes - s.acked
        probed == s.probe # NoProbe /\ s.acked = s.probe.second /\ newly = s.probe.end - s.probe.second
        t      == [s EXCEPT !.acked = a.bytes]
        gone   == SelectSeq(s.unacknowledged, LAMBDA u : u.end <= t.acked)
        rises  == probed \/ \E u \in Range(gone) : u.probe \/ pplan.ticks
    IN  [t EXCEPT
           !.announcedEnds = SelectSeq(@, LAMBDA end : end > t.acked),
           !.announcements = SelectSeq(@, LAMBDA n : n.end > t.acked),
           !.unacknowledged = SelectSeq(@, LAMBDA u : u.end > t.acked),
           !.measured = @ \/ rises,
           !.floor = @ \/ \E n \in Range(s.announcements) : n.end <= t.acked,
           !.probe = IF s.probe # NoProbe /\ t.acked >= s.probe.end THEN NoProbe ELSE @,
           !.wrong = @ \/ (probed /\ ~(/\ Len(a.from) = 2 /\ a.from[1] = a.to[1]
                                          /\ a.from[2] = 0 /\ a.to[2] = ProbeFirst))]

\* A data frame goes through its end's headroom.
EndSends(s, f) ==
    PaceIf(s.side = "server" \/ IsSequenced(f),
           SenderSend(s, f, IF IsSequenced(f) /\ ~DataWaits(s) THEN Headroom(s) ELSE 0))

\* The page's gate: what waits for headroom goes while there is some.
GateSends(s) ==
    LET send(r, f) ==
            IF r.left <= 0 THEN [r EXCEPT !.s.gate = Append(@, f)]
            ELSE [s |-> EndSends(r.s, f), left |-> r.left - f.size]
    IN  FoldLeft(send, [s |-> [s EXCEPT !.gate = <<>>], left |-> PageHeadroom(s, SentBytes(s))], s.gate).s

GateIf(gates, s) == IF gates THEN GateSends(s) ELSE s

\* Takes a PIECES_ACK: one of nothing sent, or of more than was sent, ends the wire.
TakesAck(s, a) ==
    LET known == a.bytes > s.acked /\ a.bytes <= s.sent
        r     == SenderAcknowledged(s, a)
        left  == r.sent - r.acked
        freed == [r EXCEPT !.rated = @ \/ pplan.rates,
                           !.load = IF s.side = "page" THEN Min({@, left}) ELSE left]
    IN  IF ~known THEN [s EXCEPT !.refused = TRUE]
        ELSE GateIf(s.side = "page", Pace(SendWaitingNow(freed)))

HeartbeatFrame(took) == [t |-> "heartbeat", n |-> 0, size |-> 2, took |-> took]

\* A PING or a PONG says what its end took; a PING is answered.
TakesHeartbeat(s, f) ==
    LET r == [s EXCEPT !.refused = @ \/ f.took > s.sent, !.beat = f.took, !.floor = @ \/ f.took > 0]
    IN  IF s.side = "server" THEN EndSends(r, HeartbeatFrame(r.took)) ELSE r

\* answered: the page's first frame crossed, which gives a least rate.
Answered(s) == [s EXCEPT !.floor = @ \/ SentBytes(s) > 0]

Got(s, f) == [s EXCEPT !.got = Append(@, f)]

Takes(s, f) ==
    CASE f.t = "ack" -> TakesAck(s, f)
      [] f.t = "heartbeat" -> TakesHeartbeat(s, f)
      [] f.t = "reconciled" -> Got(Answered(s), f)
      [] OTHER -> Got(s, f)

ItemArrives(s, item, riding) ==
    CASE item.t = "announce" -> TakesAnnounce(s, item)
      [] item.t = "piece" -> TakesPiece(s, item)
      [] OTHER -> TakesFrame(s, item, riding)

\* The frame an item is, or completes.
Completed(item) ==
    CASE item.t = "announce" -> <<>>
      [] item.t = "piece" -> IF item.bytes > 0 /\ item.at + item.bytes = item.frame.size
                             THEN <<item.frame>> ELSE <<>>
      [] OTHER -> <<item>>

\* A message: the page counts all its frames before it takes them, the server takes each as it comes.
TakesMessage(s, message) ==
    LET n         == Len(message)
        counts(k) == IF s.side = "page" THEN k <= n ELSE k % 2 = 1  \* or takes
        at(k)     == IF s.side = "page" THEN ((k - 1) % n) + 1 ELSE (k + 1) \div 2
        do(r, k)  == IF counts(k) THEN ItemArrives(r, message[at(k)], at(k) < n)
                     ELSE FoldLeft(Takes, r, Completed(message[at(k)]))
    IN  FoldLeft(do, s, [k \in 1 .. 2 * n |-> k])

-----------------------------------------------------------------------------
(* Actions                                                                  *)

\* The microtasks of a task: what it gathered goes, its announcement closes.  No later call uses
\* what is left of the headroom.
EndTask(s) ==
    LET r == [s EXCEPT !.endQueued = FALSE]
        t == IF r.gathered THEN FlushHeld(r) ELSE r
        u == IF t.open = NotOpen THEN t ELSE CloseAnnouncement(t)
    IN  [u EXCEPT !.head = 0]

\* An end's app sends its next frame: a page's data behind the gate, unless it is a replay.
SendOrHold(s, f) ==
    IF s.gate = <<>> /\ PageHeadroom(s, SentBytes(s)) > 0 THEN EndSends(s, f)
    ELSE [s EXCEPT !.gate = Append(@, f)]

AppSend(s0) ==
    LET f == Head(s0.todo)
        s == [s0 EXCEPT !.todo = Tail(@)]
    IN  IF s.side = "page" /\ IsSequenced(f) /\ ~pplan.replays THEN SendOrHold(GateSends(s), f)
        ELSE EndSends(IF s.side = "server" /\ pplan.answers /\ IsSequenced(f) THEN Answering(s)
                      ELSE s, f)

\* How many frames the app may send: a RECONCILED answers the page's first frame.
MaySend(s) ==
    IF s.todo # <<>> /\ Head(s.todo).t = "reconciled" /\ s.got = <<>> THEN 0 ELSE Len(s.todo)

\* A task of x, which leaves it as s and in which its app sends n frames.
Task(s, n) == LET send(r, i) == AppSend(r) IN EndTask(FoldLeft(send, s, [i \in 1 .. n |-> i]))

AppSends(x) ==
    /\ \E n \in 1 .. MaySend(e[x]) : e' = [e EXCEPT ![x] = Task(@, n)]
    /\ UNCHANGED pplan

\* A message arrives, whose task may send a frame.
Receives(x) ==
    /\ e[Peer(x)].out # <<>>
    /\ LET s == TakesMessage(e[x], Head(e[Peer(x)].out))
       IN  \E n \in 0 .. Min({1, MaySend(s)}) :
            e' = [e EXCEPT ![Peer(x)].out = Tail(@), ![x] = Task(s, n)]
    /\ UNCHANGED pplan

\* The acknowledgement's timer.
AckFires(x) ==
    /\ e[x].timer
    /\ LET s == [e[x] EXCEPT !.timer = FALSE]
       IN  e' = [e EXCEPT ![x] = EndTask(IF s.alone THEN AcknowledgeAlone(s) ELSE AcknowledgeWithNext(s))]
    /\ UNCHANGED pplan

\* The pacing timer.
LooksAgain(x) ==
    /\ e[x].pace
    /\ e' = [e EXCEPT ![x] =
                EndTask(Pace(GateIf(x = "page", SendWaitingNow([@ EXCEPT !.pace = FALSE]))))]
    /\ UNCHANGED pplan

\* The rate drained what the uplink or the path held.
Drains(x) ==
    /\ e[x].rated /\ e[x].load > 0
    /\ e' = [e EXCEPT ![x].load = 0] /\ UNCHANGED pplan

\* The page pings.
Pings ==
    /\ e["page"].pings > 0
    /\ e' = [e EXCEPT !["page"] = EndTask(EndSends([@ EXCEPT !.pings = @ - 1], HeartbeatFrame(@.took)))]
    /\ UNCHANGED pplan

PiecesNext ==
    \/ Pings
    \/ \E x \in Ends :
        \/ AppSends(x) \/ AckFires(x) \/ LooksAgain(x) \/ Drains(x)
        \/ Receives(x)

\* Each end's event loop and the path, as weak fairness: a step enabled forever is taken.
EndGoesOn(x) == AppSends(x) \/ AckFires(x) \/ LooksAgain(x) \/ Receives(x)
EndCanGoOn(x) == MaySend(e[x]) > 0 \/ e[x].timer \/ e[x].pace \/ e[Peer(x)].out # <<>>

PiecesFairness ==
    \A x \in Ends :
        /\ []<>~EndCanGoOn(x) \/ []<><<EndGoesOn(x)>>_pvars
        /\ WF_pvars(Drains(x))

PiecesSpec == PiecesInit /\ [][PiecesNext]_pvars /\ PiecesFairness

-----------------------------------------------------------------------------
(* Properties                                                               *)

Increasing(ends, above) == \A i \in DOMAIN ends : ends[i] > (IF i = 1 THEN above ELSE ends[i - 1])

\* "Its counters agree between calls" (pieces.ts:66): what is acknowledged or reported was sent, and
\* the samples, the announced messages and the announcements to be acknowledged are in order, past
\* what was.
CountersAgree(s) ==
    /\ s.acked <= s.sent /\ s.beat <= s.sent
    /\ \A i \in DOMAIN s.unacknowledged : s.unacknowledged[i].end > s.acked
    /\ \A i \in 2 .. Len(s.unacknowledged) :
          s.unacknowledged[i - 1].end <= s.unacknowledged[i].end
    /\ Increasing(s.announcedEnds, s.acked)
    /\ Increasing([i \in DOMAIN s.announcements |-> s.announcements[i].end], s.acked)
    /\ s.probe # NoProbe => s.probe.end > s.acked

\* What one end counts as sent is what the other counts as taken, what is on its way and what is yet
\* to be handed.
CountsAgree ==
    \A x \in Ends :
        LET onTheWay(i) == MessageBytes(e[x].out[i])
        IN  e[x].sent = e[Peer(x)].took + MapThenSumSet(onTheWay, DOMAIN e[x].out) + MessageBytes(e[x].held)

Of(frames, types) == SelectSeq(frames, LAMBDA f : f.t \in types)
NeverPast == {"data", "fin"}

\* Neither end refuses what the other counts, cuts or reports, nor measures a rate by other than the
\* probe; and data never overtakes data, nor a FIN the data before it.
NothingRefused ==
    \A x \in Ends :
        /\ ~e[x].refused /\ ~e[x].wrong
        /\ IsPrefix(Of(e[Peer(x)].got, NeverPast), Of(pplan[x].frames, NeverPast))

PiecesHold == CountsAgree /\ NothingRefused /\ \A x \in Ends : CountersAgree(e[x])

\* What waits for headroom goes: an acknowledgement, a heartbeat or the pacing timer always comes that
\* lets it, so that every frame arrives.
PiecesArrive == []<>(\A x \in Ends : Len(e[Peer(x)].got) = Len(pplan[x].frames))
=============================================================================
