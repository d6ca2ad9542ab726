--------------------------- MODULE ReliableChannel --------------------------
(***************************************************************************)
(* What a channel promises the code that uses it (ClientChannel.ts and     *)
(* ServerChannel.ts, the public methods and callbacks), whatever happens   *)
(* to the connection under it: each end gets the other's messages from the *)
(* first on, in order, none twice and none left out; an end hears that the *)
(* other aborted after everything that one sent; and an end that fails     *)
(* does so only where channels may fail (MayFail), a LOST one only when    *)
(* the other end ended too.                                                *)
(*                                                                         *)
(* Messages of an end are the numbers 1, 2, ... in the order it sends      *)
(* them.  No connection, wire, session or replay appears here.             *)
(***************************************************************************)
EXTENDS Integers, Sequences

CONSTANTS
    Channels,
    MayFail      \* whether a channel may end though neither end aborted it

VARIABLE ends    \* of each channel, the page's end and the server's

Sides == {"page", "server"}
Other(side) == IF side = "page" THEN "server" ELSE "page"

\* The first n messages.
FirstMessages(n) == [i \in 1 .. n |-> i]

Failures == {"lost", "LOST", "unacknowledged", "gone", "timeout", "recoveryFailed", "permanent"}

NewEnd(phase) == [phase |-> phase, sent |-> 0, got |-> <<>>, why |-> "none"]

\* Before either end sent.
Init == ends \in [Channels -> [Sides -> {NewEnd("new"), NewEnd("open")}]]

-----------------------------------------------------------------------------
(* What an end e may become, with o the other end.                          *)

Opened(e) == {[e EXCEPT !.phase = "open"]}

Sent(e) == {[e EXCEPT !.sent = @ + 1]}

\* A step may bring several messages that waited.
Received(e, o) == {[e EXCEPT !.got = FirstMessages(n)] : n \in Len(e.got) .. o.sent}

Aborted(e) == {[e EXCEPT !.phase = "ended", !.why = "aborted"]}

SawAbort(e, o) ==
    IF o.why # "aborted" THEN {}
    ELSE {[e EXCEPT !.phase = "ended", !.why = "ABORT", !.got = FirstMessages(o.sent)]}

FailedOf(e, o, why) == {[f EXCEPT !.phase = "ended", !.why = why] : f \in Received(e, o)}

Failed(e, o) ==
    UNION {FailedOf(e, o, why) : why \in IF o.phase = "ended" THEN Failures ELSE Failures \ {"LOST"}}

Becomes(e, o) ==
    CASE e.phase = "new"   -> {e} \cup Opened(e)
      [] e.phase = "open"  -> UNION {Sent(e), Received(e, o), Aborted(e), SawAbort(e, o),
                                     IF MayFail THEN Failed(e, o) ELSE {}}
      [] e.phase = "ended" -> {e}

\* One side moves, on any number of channels.
Step(side) ==
    /\ \A ch \in Channels :
         /\ ends'[ch][side] \in Becomes(ends[ch][side], ends[ch][Other(side)])
         /\ ends'[ch][Other(side)] = ends[ch][Other(side)]
    /\ ends' \in [Channels -> [Sides -> {ends'[ch][s] : ch \in Channels, s \in Sides}]]

Next == \E side \in Sides : Step(side)

Spec == Init /\ [][Next]_ends

-----------------------------------------------------------------------------
End == [phase : {"new", "open", "ended"}, sent : Nat, got : Seq(Nat),
        why : Failures \cup {"none", "aborted", "ABORT"}]

TypeOK == ends \in [Channels -> [Sides -> End]]

\* What an end got is what the other sent first, in order and without a gap; and an end that
\* heard an abort got all of it.
Exact ==
    \A ch \in Channels, side \in Sides :
        LET e == ends[ch][side]
            o == ends[ch][Other(side)]
        IN  /\ Len(e.got) <= o.sent /\ e.got = FirstMessages(Len(e.got))
            /\ e.why = "ABORT" => o.why = "aborted" /\ Len(e.got) = o.sent

\* Where channels may not fail, one ends only because an end aborted it.
OnlyAbortsEnd ==
    ~MayFail => \A ch \in Channels, side \in Sides :
        ends[ch][side].phase = "ended" =>
            "aborted" \in {ends[ch][side].why, ends[ch][Other(side)].why}
=============================================================================
