--------------------------- MODULE MCFramePieces ----------------------------
(***************************************************************************)
(* Instances of FramePieces for TLC: what each end sends, its sizes around *)
(* the smallest limits.                                                    *)
(***************************************************************************)
EXTENDS FramePieces

Data(n, size) == [t |-> "data", n |-> n, size |-> size]
Control(n) == [t |-> "control", n |-> n, size |-> 3]
Reconciled(n) == [t |-> "reconciled", n |-> n, size |-> 3]
Fin(n) == [t |-> "fin", n |-> n, size |-> 1]

\* Without a rate an end lets go what it knows; whole is what a rate lets go, floor what the least
\* rate known does.
Sends(frames) == [frames |-> frames, whole |-> 7, floor |-> 10, pings |-> 0]
SendsNothing == Sends(<<>>)

PiecesOn(page, server) ==
    [page |-> page, server |-> server, late |-> FALSE, replays |-> FALSE, answers |-> FALSE,
     ticks |-> FALSE, rates |-> TRUE, gaps |-> TRUE]

PageProbes == PiecesOn(Sends(<<Data(1, 5), Data(2, 30), Control(3)>>), SendsNothing)
ServerProbes == PiecesOn(SendsNothing, Sends(<<Data(1, 5), Data(2, 30), Control(3), Fin(4)>>))
ServerWaits ==
    PiecesOn([SendsNothing EXCEPT !.pings = 1], Sends(<<Data(1, 12), Data(2, 25)>>))
ServerPaces ==
    [PiecesOn(SendsNothing, Sends(<<Data(1, 25), Data(2, 12), Data(3, 12), Data(4, 5)>>))
        EXCEPT !.server.whole = 15, !.gaps = FALSE]
BothSend ==
    [PiecesOn(Sends(<<Data(1, 25)>>), Sends(<<Data(1, 25), Data(2, 9)>>)) EXCEPT !.gaps = FALSE]
PageReplays ==
    [PiecesOn([Sends(<<Data(1, 9), Data(2, 15), Data(3, 3)>>) EXCEPT !.whole = 5, !.pings = 1],
              SendsNothing)
        EXCEPT !.replays = TRUE, !.ticks = TRUE, !.gaps = FALSE]
PageIsLate == [PageReplays EXCEPT !.late = TRUE, !.ticks = FALSE, !.gaps = TRUE]
ServerAnswers ==
    [PiecesOn(Sends(<<Control(1)>>),
              [Sends(<<Data(1, 25), Data(2, 9), Data(3, 3)>>) EXCEPT !.whole = 5])
        EXCEPT !.answers = TRUE, !.ticks = TRUE, !.gaps = FALSE]
PageIsAnswered ==
    PiecesOn(Sends(<<Control(1), Data(2, 9), Data(3, 25)>>), Sends(<<Reconciled(1), Data(2, 5)>>))

NothingSent == PiecesOn(SendsNothing, SendsNothing)

MCPiecePlans ==
    {NothingSent, PageProbes, [PageProbes EXCEPT !.rates = FALSE, !.gaps = FALSE], ServerProbes,
     ServerWaits, ServerPaces, BothSend, PageReplays, PageIsLate, ServerAnswers,
     PageIsAnswered}
=============================================================================
