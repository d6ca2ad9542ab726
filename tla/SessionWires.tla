---------------------------- MODULE SessionWires ----------------------------
(***************************************************************************)
(* The WebSockets between one page and the server, one after another.  A   *)
(* wire has two ends that learn of its close each on its own, and a queue  *)
(* of frames in each direction: what was sent arrives in order until the   *)
(* receiving end closes.  The page may abandon a wire it thinks is dead:   *)
(* it sends nothing more on it and opens the next, but still reads it      *)
(* (client/WsTransport.ts, server/ws.ts).                                  *)
(***************************************************************************)
EXTENDS ReplayBuffer, SequencesExt

CONSTANTS
    AllChannels, \* the channels there may be
    Plans        \* what may happen, of which a behaviour follows one: a set of records with
                 \* the channels there are (channels), those of them a request's argument
                 \* carries and not a response (pageMade), the replay budgets of the page's
                 \* and the server's ends (pageBudgets, serverBudgets), whether timeouts fire
                 \* and the page may leave (timeouts), the sides that may abort which
                 \* channel (aborts), how many frames a wire may take at a step (headrooms), and the
                 \* bounds on the wires the page opens, the faults, and the messages each end
                 \* sends on a channel (wires, breaks, pageSends, serverSends); lateReconciles:
                 \* the server may read a wire's RECONCILE after a later wire's

ASSUME PlansAssumption ==
    \A p \in Plans :
        /\ p.pageMade \subseteq p.channels /\ p.channels \subseteq AllChannels
        /\ {p.wires, p.breaks, p.pageSends, p.serverSends} \subseteq Nat /\ p.wires > 0
        /\ p.headrooms # {} /\ p.headrooms \subseteq Nat
        /\ {p.timeouts, p.lateReconciles} \subseteq BOOLEAN
        /\ p.aborts \subseteq {"page", "server"} \X p.channels

VARIABLES
    wires,
    plan         \* which of Plans

\* A channel's index on the wire is the channel itself.
Channels == plan.channels

Wires == 1 .. plan.wires
NoWire == 0

(* Frames.  `t` is the tag; DATA, ABORT and LOST (an ERROR) have a seq.     *)
Sequenced(f) == f.t \in {"DATA", "ABORT", "LOST"}
Frame(t, ch, seq) == [t |-> t, ch |-> ch, seq |-> seq]
Window(ch, lastSeq) == [t |-> "WINDOW", ch |-> ch, lastSeq |-> lastSeq]
FramesOf(ch, entries) == [i \in 1 .. Len(entries) |-> Frame(entries[i].t, ch, entries[i].seq)]
\* A replay's frames go in the order of their seqs.
Resent(ch, entries) == FramesOf(ch, SetToSortSeq(entries, LAMBDA a, b : a.seq < b.seq))

PageLeft == [t |-> "PAGE_LEFT"]     \* the close code WS_CLOSE_PAGE_LEFT, read after the frames

WiresInit ==
    wires = [w \in Wires |-> [page |-> "none", server |-> "none", up |-> <<>>, down |-> <<>>]]

\* sendFrame: an open socket takes it; nothing reaches a server end that closed.
SendUp(ws, w, frames) ==
    IF w \in Wires /\ ws[w].page = "open" /\ ws[w].server = "open"
    THEN [ws EXCEPT ![w].up = @ \o frames] ELSE ws

\* A wire closed drops the frame (ChannelMux.send).
SendDown(ws, out) ==
    [w \in Wires |->
        IF ws[w].server = "open" /\ ws[w].page \in {"open", "abandoned"}
        THEN [ws[w] EXCEPT !.down = @ \o out[w]] ELSE ws[w]]

\* The page's end of w closes: it reads nothing more.  `last` goes behind what it sent.
ClosePageEnd(ws, w, last) ==
    IF w \in Wires /\ ws[w].page # "closed"
    THEN [ws EXCEPT ![w].page = "closed", ![w].down = <<>>,
                    ![w].up = IF ws[w].server = "open" THEN @ \o last ELSE <<>>]
    ELSE ws

CloseServerEnd(ws, w) == [ws EXCEPT ![w].server = "closed", ![w].up = <<>>]

Used == {w \in Wires : wires[w].page # "none"}
=============================================================================
