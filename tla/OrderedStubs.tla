------------------------------ MODULE OrderedStubs ----------------------------
(***************************************************************************)
(* One Durable Object's calls to another (cloudflare/OrderedStubs.ts).     *)
(* A stub hands the calls through it over in call order; one that broke    *)
(* hands over none of those left, and rejects them.  Stubs are numbered,   *)
(* each of a line; calls are in call order, `at` one of                    *)
(*   "waits"   for the calls of the failed line before,                    *)
(*   "sent"    through the stub,                                           *)
(*   "taken"   by the target, which runs it,                               *)
(*   "done"    settled here.                                               *)
(***************************************************************************)
EXTENDS Integers, Sequences

NoCalls == [line |-> 0, stubs |-> <<>>, calls |-> <<>>]

CallsOf(o, n) == {i \in DOMAIN o.calls : o.calls[i].stub = n}
AllSettled(o, n) == \A i \in CallsOf(o, n) : o.calls[i].at = "done"

\* Mutant: the line after a failed one starts at once.
CallAhead(o, id) ==
    LET opens == o.line = 0 \/ (o.line > 0 /\ o.stubs[o.line].failed)
        n     == IF opens THEN Len(o.stubs) + 1 ELSE o.line
    IN  [line  |-> n,
         stubs |-> IF opens THEN Append(o.stubs, [failed |-> FALSE, broken |-> FALSE, after |-> o.line])
                   ELSE o.stubs,
         calls |-> Append(o.calls, [id |-> id, stub |-> n, at |-> "sent"])]

\* call: through the target's stub, or a new one, which waits till the failed one's calls settled.
Call(o, id) ==
    LET opens == o.line = 0 \/ (o.line > 0 /\ o.stubs[o.line].failed)
        n     == IF opens THEN Len(o.stubs) + 1 ELSE o.line
        after == IF opens THEN o.line ELSE o.stubs[n].after
    IN  [line  |-> n,
         stubs |-> IF opens THEN Append(o.stubs, [failed |-> FALSE, broken |-> FALSE, after |-> after])
                   ELSE o.stubs,
         calls |-> Append(o.calls, [id |-> id, stub |-> n,
                                    at |-> IF after = 0 THEN "sent" ELSE "waits"])]

\* run, once the failed line is idle: its waiting calls go, in call order.
MayResume(o) ==
    {i \in DOMAIN o.calls : o.calls[i].at = "waits" /\ AllSettled(o, o.stubs[o.calls[i].stub].after)}
ResumeCall(o) ==
    LET due == MayResume(o)
    IN  [o EXCEPT !.calls = [i \in DOMAIN @ |-> IF i \in due THEN [@[i] EXCEPT !.at = "sent"] ELSE @[i]]]

\* The target takes the first call a stub holds.
MayTake(o) ==
    {i \in DOMAIN o.calls :
        /\ o.calls[i].at = "sent" /\ ~o.stubs[o.calls[i].stub].broken
        /\ \A j \in CallsOf(o, o.calls[i].stub) : j < i => o.calls[j].at \in {"taken", "done"}}
Take(o, i) == [o EXCEPT !.calls[i].at = "taken"]

\* A stub breaks.
MayBreak(o) == {n \in DOMAIN o.stubs : ~o.stubs[n].broken /\ ~AllSettled(o, n)}
Break(o, n) == [o EXCEPT !.stubs[n].broken = TRUE]

\* A call through a broken stub rejects, whether its target took it or not.
MayReject(o) ==
    {i \in DOMAIN o.calls : o.calls[i].at \in {"sent", "taken"} /\ o.stubs[o.calls[i].stub].broken}

\* settle: the last call of a line takes the line with it.
Settle(o, i, ok) ==
    LET n    == o.calls[i].stub
        done == [o EXCEPT !.calls[i].at = "done", !.stubs[n].failed = @ \/ ~ok]
    IN  IF AllSettled(done, n) /\ done.line = n THEN [done EXCEPT !.line = 0] ELSE done
===============================================================================
