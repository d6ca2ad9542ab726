----------------------- MODULE ReliableChannelProofs ------------------------
(***************************************************************************)
(* What a reliable channel guarantees, for any channels: proofs about the  *)
(* promise that ChannelSession is checked to keep.                         *)
(***************************************************************************)
EXTENDS ReliableChannel, TLAPS

\* One end e against the other, o.
EndOK(e, o) ==
    /\ Len(e.got) <= o.sent /\ e.got = FirstMessages(Len(e.got))
    /\ e.why = "ABORT" => o.why = "aborted" /\ Len(e.got) = o.sent
    /\ e.why = "aborted" => e.phase = "ended"
    /\ e.phase = "ended" /\ ~MayFail => "aborted" \in {e.why, o.why}

IInv ==
    /\ TypeOK
    /\ \A ch \in Channels, side \in Sides : EndOK(ends[ch][side], ends[ch][Other(side)])

\* The first n messages are n numbers.
LEMMA FirstMessagesSeq ==
    ASSUME NEW n \in Nat
    PROVE  FirstMessages(n) \in Seq(Nat) /\ Len(FirstMessages(n)) = n
BY DEF FirstMessages

\* An open end that got more of the first messages keeps the promise.
LEMMA GotMore ==
    ASSUME NEW e \in End, NEW o \in End, EndOK(e, o), EndOK(o, e), e.phase = "open",
           e.why # "aborted", o.why # "ABORT",
           NEW n \in Len(e.got) .. o.sent
    PROVE  LET f == [e EXCEPT !.got = FirstMessages(n)]
           IN  f \in End /\ f.phase = "open" /\ f.why = e.why /\ EndOK(f, o) /\ EndOK(o, f)
<1> DEFINE f == [e EXCEPT !.got = FirstMessages(n)]
<1>1. n \in Nat /\ Len(e.got) <= n /\ n <= o.sent /\ Len(e.got) \in Nat /\ Len(e.got) <= o.sent /\ o.sent \in Nat
    BY DEF End, EndOK
<1>2. FirstMessages(n) \in Seq(Nat) /\ Len(FirstMessages(n)) = n
    BY <1>1, FirstMessagesSeq
<1>3. f \in End /\ f.phase = e.phase /\ f.why = e.why /\ f.sent = e.sent /\ f.got = FirstMessages(n)
    BY <1>2 DEF End
<1> HIDE DEF f
<1>4. e.why = "ABORT" => o.why = "aborted" /\ n = o.sent
    BY <1>1 DEF EndOK
<1>5. EndOK(f, o)
    BY <1>1, <1>2, <1>3, <1>4 DEF EndOK
<1>6. EndOK(o, f)
    BY <1>3 DEF EndOK
<1> QED
    BY <1>3, <1>5, <1>6 DEF f

\* Whatever an end becomes is an end, and keeps the promise.
LEMMA BecomesOK ==
    ASSUME NEW e \in End, NEW o \in End, EndOK(e, o), EndOK(o, e),
           NEW f \in Becomes(e, o)
    PROVE  f \in End /\ EndOK(f, o) /\ EndOK(o, f)
<1>1. CASE f = e
    BY <1>1
<1>2. CASE e.phase = "new" /\ f \in Opened(e)
    <2>1. f = [e EXCEPT !.phase = "open"]
        BY <1>2 DEF Opened
    <2> QED
        BY <1>2, <2>1 DEF End, EndOK
<1>3. CASE e.phase = "open"
    \* An open end did not abort, so the other heard no abort.
    <2>0. e.why # "aborted" /\ o.why # "ABORT"
        BY <1>3 DEF EndOK
    <2>1. CASE f \in Sent(e)
        <3>1. f = [e EXCEPT !.sent = @ + 1]
            BY <2>1 DEF Sent
        <3>2. /\ f \in End /\ f.sent = e.sent + 1
              /\ f.phase = e.phase /\ f.got = e.got /\ f.why = e.why
            <4>1. PICK n \in Nat : n = e.sent + 1
                BY DEF End
            <4>2. f = [e EXCEPT !.sent = n]
                BY <3>1, <4>1
            <4> QED
                BY <4>1, <4>2 DEF End
        <3> QED
            BY <1>3, <2>0, <3>2 DEF End, EndOK
    <2>2. CASE f \in Received(e, o)
        <3>1. PICK n \in Len(e.got) .. o.sent : f = [e EXCEPT !.got = FirstMessages(n)]
            BY <2>2 DEF Received
        <3> QED
            BY <1>3, <2>0, <3>1, GotMore
    <2>3. CASE f \in Aborted(e)
        <3>1. f = [e EXCEPT !.phase = "ended", !.why = "aborted"]
            BY <2>3 DEF Aborted
        <3> QED
            BY <1>3, <2>0, <3>1 DEF End, EndOK
    <2>4. CASE f \in SawAbort(e, o)
        <3>1. /\ o.why = "aborted"
              /\ f = [e EXCEPT !.phase = "ended", !.why = "ABORT", !.got = FirstMessages(o.sent)]
            BY <2>4 DEF SawAbort
        <3>2. o.sent \in Nat /\ FirstMessages(o.sent) \in Seq(Nat) /\ Len(FirstMessages(o.sent)) = o.sent
            BY FirstMessagesSeq DEF End
        <3>3. /\ f \in End /\ f.phase = "ended" /\ f.why = "ABORT"
              /\ f.sent = e.sent /\ f.got = FirstMessages(o.sent)
            BY <3>1, <3>2 DEF End
        <3> QED
            BY <1>3, <2>0, <3>1, <3>2, <3>3 DEF EndOK
    <2>5. CASE MayFail /\ f \in Failed(e, o)
        <3>1. PICK why \in Failures : f \in FailedOf(e, o, why)
            BY <2>5 DEF Failed
        <3>2. PICK g \in Received(e, o) : f = [g EXCEPT !.phase = "ended", !.why = why]
            BY <3>1 DEF FailedOf
        <3>3. PICK n \in Len(e.got) .. o.sent : g = [e EXCEPT !.got = FirstMessages(n)]
            BY <3>2 DEF Received
        <3>4. g \in End /\ g.phase = "open" /\ g.why = e.why /\ EndOK(g, o) /\ EndOK(o, g)
            BY <1>3, <2>0, <3>3, GotMore
        <3>5. why \notin {"none", "aborted", "ABORT"}
            BY <3>1 DEF Failures
        <3>6. f \in End /\ f.phase = "ended" /\ f.why = why /\ f.sent = g.sent /\ f.got = g.got
            BY <3>2, <3>4 DEF End
        <3> QED
            BY <2>0, <2>5, <3>4, <3>5, <3>6 DEF EndOK
    <2> QED
        BY <1>3, <2>1, <2>2, <2>3, <2>4, <2>5 DEF Becomes
<1>4. CASE e.phase = "ended"
    BY <1>1, <1>4 DEF Becomes
<1>5. CASE e.phase = "new"
    BY <1>1, <1>2, <1>5 DEF Becomes
<1> QED
    BY <1>3, <1>4, <1>5 DEF End

\* Ends that sent nothing are in order.
LEMMA InitOK == Init => IInv
<1> SUFFICES ASSUME Init PROVE IInv
    OBVIOUS
<1>1. \A p \in {"new", "open"} : NewEnd(p) \in End
    BY DEF NewEnd, End
<1>2. TypeOK
    BY <1>1 DEF Init, TypeOK
<1>3. ASSUME NEW ch \in Channels, NEW side \in Sides
      PROVE  EndOK(ends[ch][side], ends[ch][Other(side)])
    <2>1. /\ ends[ch][side] \in {NewEnd("new"), NewEnd("open")}
          /\ ends[ch][Other(side)] \in {NewEnd("new"), NewEnd("open")}
        BY DEF Init, Sides, Other
    <2>2. FirstMessages(0) = << >>
        BY DEF FirstMessages
    <2> QED
        BY <2>1, <2>2 DEF EndOK, NewEnd
<1> QED
    BY <1>2, <1>3 DEF IInv

\* Every step of an end keeps them so.
LEMMA StepOK == ASSUME IInv, [Next]_ends PROVE IInv'
<1>1. CASE UNCHANGED ends
    BY <1>1 DEF IInv, TypeOK, EndOK
<1>2. CASE Next
    <2>1. PICK side \in Sides : Step(side)
        BY <1>2 DEF Next
    <2>2. side # Other(side) /\ Other(side) \in Sides /\ Other(Other(side)) = side
          /\ Sides = {side, Other(side)}
        BY <2>1 DEF Sides, Other
    <2>3. ASSUME NEW ch \in Channels
          PROVE  /\ ends'[ch][side] \in End /\ ends'[ch][Other(side)] \in End
                 /\ EndOK(ends'[ch][side], ends'[ch][Other(side)])
                 /\ EndOK(ends'[ch][Other(side)], ends'[ch][side])
        <3>1. /\ ends[ch][side] \in End /\ ends[ch][Other(side)] \in End
              /\ EndOK(ends[ch][side], ends[ch][Other(side)])
              /\ EndOK(ends[ch][Other(side)], ends[ch][side])
            BY <2>2 DEF IInv, TypeOK
        <3>2. /\ ends'[ch][side] \in Becomes(ends[ch][side], ends[ch][Other(side)])
              /\ ends'[ch][Other(side)] = ends[ch][Other(side)]
            BY <2>1 DEF Step
        <3> QED
            BY <3>1, <3>2, BecomesOK
    <2>4. TypeOK'
        <3> DEFINE E == {ends'[ch][s] : ch \in Channels, s \in Sides}
        <3>1. ends' \in [Channels -> [Sides -> E]]
            BY <2>1 DEF Step
        <3> HIDE DEF E
        <3>2. ASSUME NEW ch \in Channels PROVE ends'[ch] \in [Sides -> End]
            BY <3>1, <2>2, <2>3
        <3> QED
            BY <3>1, <3>2 DEF TypeOK
    <2>5. ASSUME NEW ch \in Channels, NEW s \in Sides
          PROVE  EndOK(ends[ch][s], ends[ch][Other(s)])'
        BY <2>2, <2>3
    <2> QED
        BY <2>4, <2>5 DEF IInv
<1> QED
    BY <1>1, <1>2

\* Every reachable state satisfies the inductive invariant.
THEOREM InductiveInvariant == Spec => []IInv
BY InitOK, StepOK, PTL DEF Spec

\* What an end gets is what the other sent first, in order, none twice and none left out; who
\* hears an abort got all of it.
THEOREM ExactDelivery == Spec => []Exact
<1>1. IInv => Exact
    BY DEF IInv, EndOK, Exact
<1> QED
    BY <1>1, InductiveInvariant, PTL

\* Where channels may not fail, only an abort ends one.
THEOREM NoFailure == Spec => []OnlyAbortsEnd
<1>1. IInv => OnlyAbortsEnd
    BY DEF IInv, EndOK, OnlyAbortsEnd
<1> QED
    BY <1>1, InductiveInvariant, PTL
=============================================================================
