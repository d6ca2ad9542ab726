---------------------------- MODULE CloseHandshake ---------------------------
(***************************************************************************)
(* The close of a channel end (ChannelLifecycle.ts): its onClose callbacks *)
(* run once its CLOSE is acknowledged and no ack is in flight, and it ends *)
(* once they settled or at its deadline.  Operators on an end's handshake  *)
(* `h`.  `left` is the time left until the deadline and `timer` until the  *)
(* timer wakes the run, each NoTime while there is none.                   *)
(*                                                                         *)
(* `run` is runUntilEnded: "none" before the close, "waiting" for a wake,  *)
(* "due" once woken (the microtask is to come); one pass of its loop (Run) *)
(* leaves it waiting, or as "clean" or "late" for the owner to end with.   *)
(***************************************************************************)
EXTENDS Integers

CONSTANTS
    MaxTimeout      \* the longest timeout a close asks for

ASSUME TimeoutAssumption == MaxTimeout \in Nat

NoTime == MaxTimeout + 1

\* `slow`: one of its onClose callbacks returns a promise.
NewHandshake(slow) ==
    [slow |-> slow, requested |-> FALSE, awaiting |-> FALSE, acked |-> FALSE, ended |-> FALSE,
     error |-> "none", fired |-> FALSE, running |-> FALSE, left |-> NoTime, timer |-> NoTime,
     run |-> "none"]

NotifyProgress(h) == IF h.run = "waiting" THEN [h EXCEPT !.run = "due"] ELSE h

\* Mutant: the run is not woken to arm its timer anew.
ShortenWithoutWake(h, timeout) == IF timeout < h.left THEN [h EXCEPT !.left = timeout] ELSE h

ShortenDeadline(h, timeout) ==
    IF timeout < h.left THEN NotifyProgress([h EXCEPT !.left = timeout]) ELSE h

FireClose(h) ==
    IF h.fired THEN h ELSE NotifyProgress([h EXCEPT !.fired = TRUE, !.running = h.slow])

\* Mutant: the acknowledgement is enough, whatever is still to be answered.
RunIgnoringAcks(h, inflight) ==
    LET settled == ~h.awaiting \/ h.acked
        f       == IF settled THEN FireClose(h) ELSE h
    IN  IF f.fired /\ ~f.running THEN [f EXCEPT !.run = "clean"]
        ELSE IF f.left = 0 THEN [f EXCEPT !.run = "late"]
        ELSE [f EXCEPT !.run = "waiting", !.timer = f.left]

\* One pass of runUntilEnded's loop, with `inflight` acks in flight.
Run(h, inflight) ==
    LET settled == inflight = 0 /\ (~h.awaiting \/ h.acked)
        f       == IF settled THEN FireClose(h) ELSE h
    IN  IF f.fired /\ ~f.running THEN [f EXCEPT !.run = "clean"]
        ELSE IF f.left = 0 THEN [f EXCEPT !.run = "late"]
        ELSE [f EXCEPT !.run = "waiting", !.timer = f.left]

\* The close's first pass is part of the call that begins it.
BeginRun(h, inflight) == IF h.run = "none" THEN Run(h, inflight) ELSE h

\* localCloseRequested, up to its run: `expected` where the peer may acknowledge.
RequestClose(h, timeout, expected) ==
    ShortenDeadline([h EXCEPT !.requested = TRUE, !.awaiting = expected], timeout)

CloseAckReceived(h) == NotifyProgress([h EXCEPT !.acked = TRUE, !.awaiting = FALSE])

\* forcedTermination, whose `finalize` is the owner's; the run is over once woken.
Terminate(h, err) ==
    [FireClose(h) EXCEPT !.ended = TRUE, !.error = err, !.awaiting = FALSE, !.timer = NoTime,
                         !.run = "done"]

\* trackCloseListener: the promise of the onClose callback settled.
ListenersSettled(h) == NotifyProgress([h EXCEPT !.running = FALSE])

\* Mutant: the timer wakes nobody.
TimerFiredUnheard(h) == [h EXCEPT !.timer = NoTime]

TimerFired(h) == NotifyProgress([h EXCEPT !.timer = NoTime])

\* Time passes.
Elapse(h) ==
    LET Less(t) == IF t = NoTime \/ t = 0 THEN t ELSE t - 1
    IN  [h EXCEPT !.left = Less(@), !.timer = Less(@)]
==============================================================================
