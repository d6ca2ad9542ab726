--------------------------- MODULE ChannelEndsProofs --------------------------
(***************************************************************************)
(* Proofs about ChannelEnds, for any uses, budgets, timeouts and bounds: a *)
(* close keeps its deadline and leaves no send waiting, an acknowledged    *)
(* close has all that was sent, no message goes missing untold, and an end *)
(* that closed hears nothing more.                                         *)
(*                                                                         *)
(* First the handlers: what each does to its end, as PageGoes and          *)
(* ServerMoves say.  Then what the ends agree on whatever is on its way,   *)
(* EndsAgree, which every move of either keeps.                            *)
(***************************************************************************)
EXTENDS ChannelEnds, OfflineBufferProofs, FiniteSetTheorems

-----------------------------------------------------------------------------
(* The handshake of an end *)

Runs == {"none", "due", "waiting", "done", "clean", "late"}
Errors == {"none", "timeout", "abort", "error", "lost", "gone", "overflow"}
Times == 0 .. NoTime
Handshakes ==
    [slow : BOOLEAN, requested : BOOLEAN, awaiting : BOOLEAN, acked : BOOLEAN, ended : BOOLEAN,
     error : Errors, fired : BOOLEAN, running : BOOLEAN, left : Times, timer : Times, run : Runs]

\* A handshake at rest: a close that began waits for its deadline, is due, or is over.
AtRest(h) ==
    /\ h \in Handshakes
    /\ h.run \notin {"clean", "late"}
    /\ h.ended <=> h.run = "done"
    /\ h.run = "none" => h.left = NoTime /\ ~h.fired /\ ~h.requested
    /\ h.run = "waiting" => h.timer = h.left

\* g is h but for its run, which is woken at most, and its timer.
Woken(h, g) ==
    /\ g.slow = h.slow /\ g.requested = h.requested /\ g.awaiting = h.awaiting /\ g.acked = h.acked
    /\ g.ended = h.ended /\ g.error = h.error /\ g.fired = h.fired /\ g.left = h.left
    /\ (g.run = "none") = (h.run = "none")

\* Times reach from none left to no deadline at all.
LEMMA TimesAre == NoTime \in Nat /\ NoTime > 0 /\ NoTime \in Times /\ 0 \in Times
BY TimeoutAssumption DEF NoTime, Times

\* Notified, a run that waits is due, and nothing else changes (notifyProgress).
LEMMA NotifyDoes ==
    ASSUME NEW h \in Handshakes
    PROVE  LET g == NotifyProgress(h) IN
           /\ g \in Handshakes /\ Woken(h, g) /\ g.running = h.running /\ g.timer = h.timer
           /\ g.run = IF h.run = "waiting" THEN "due" ELSE h.run
BY DEF NotifyProgress, Handshakes, Woken, Runs

\* ... so that the handshake stays at rest.
LEMMA NotifyRests ==
    ASSUME NEW h, AtRest(h)
    PROVE  LET g == NotifyProgress(h) IN AtRest(g) /\ Woken(h, g)
BY NotifyDoes DEF AtRest, Woken

\* The close's timer fired.
LEMMA TimerFiredRests ==
    ASSUME NEW h, AtRest(h)
    PROVE  LET g == TimerFired(h) IN AtRest(g) /\ Woken(h, g)
<1> DEFINE k == [h EXCEPT !.timer = NoTime]
<1>1. k \in Handshakes /\ Woken(h, k) /\ k.run = h.run
  BY TimesAre DEF AtRest, Handshakes, Woken
<1>2. TimerFired(h) = NotifyProgress(k)
  BY DEF TimerFired
<1> HIDE DEF k
<1> QED BY <1>1, <1>2, NotifyDoes DEF AtRest, Woken

\* The onClose callbacks settled.
LEMMA ListenersSettledRests ==
    ASSUME NEW h, AtRest(h)
    PROVE  LET g == ListenersSettled(h) IN AtRest(g) /\ Woken(h, g)
<1> DEFINE k == [h EXCEPT !.running = FALSE]
<1>1. k \in Handshakes /\ Woken(h, k) /\ k.run = h.run /\ k.timer = h.timer
  BY DEF AtRest, Handshakes, Woken
<1>2. ListenersSettled(h) = NotifyProgress(k)
  BY DEF ListenersSettled
<1> HIDE DEF k
<1> QED BY <1>1, <1>2, NotifyDoes DEF AtRest, Woken

\* The peer acknowledged the close.
LEMMA AckRests ==
    ASSUME NEW h, AtRest(h)
    PROVE  LET g == CloseAckReceived(h) IN
           /\ AtRest(g) /\ g.acked /\ ~g.awaiting
           /\ g.requested = h.requested /\ g.ended = h.ended /\ g.error = h.error
           /\ g.fired = h.fired /\ g.left = h.left /\ (g.run = "none") = (h.run = "none")
<1> DEFINE k == [h EXCEPT !.acked = TRUE, !.awaiting = FALSE]
<1>1. /\ k \in Handshakes /\ k.run = h.run /\ k.timer = h.timer /\ k.acked /\ ~k.awaiting
      /\ k.requested = h.requested /\ k.ended = h.ended /\ k.error = h.error
      /\ k.fired = h.fired /\ k.left = h.left
  BY DEF AtRest, Handshakes
<1>2. CloseAckReceived(h) = NotifyProgress(k)
  BY DEF CloseAckReceived
<1> HIDE DEF k
<1> QED BY <1>1, <1>2, NotifyDoes DEF AtRest, Woken

\* Time passes.
LEMMA ElapseRests ==
    ASSUME NEW h, AtRest(h)
    PROVE  LET g == Elapse(h) IN
           /\ AtRest(g) /\ g.run = h.run /\ g.acked = h.acked /\ g.awaiting = h.awaiting
           /\ g.requested = h.requested /\ g.ended = h.ended /\ g.error = h.error /\ g.fired = h.fired
<1> DEFINE Less(t) == IF t = NoTime \/ t = 0 THEN t ELSE t - 1
           l == Less(h.left)
           m == Less(h.timer)
<1>1. Elapse(h) = [h EXCEPT !.left = l, !.timer = m]
  BY DEF Elapse, AtRest, Handshakes
<1>2. l \in Times /\ m \in Times /\ (h.left = h.timer => l = m) /\ (h.left = NoTime => l = NoTime)
  <2>1. h.left \in Times /\ h.timer \in Times
    BY DEF AtRest, Handshakes
  <2>2. \A t \in Times : Less(t) \in Times
    BY TimesAre DEF Times
  <2> QED BY <2>1, <2>2
<1> DEFINE g == [h EXCEPT !.left = l, !.timer = m]
<1>3. h \in Handshakes
  BY DEF AtRest
<1> HIDE DEF l, m
<1>4. g \in Handshakes
  BY <1>2, <1>3 DEF Handshakes
<1>5. /\ g.left = l /\ g.timer = m /\ g.run = h.run /\ g.acked = h.acked /\ g.awaiting = h.awaiting
      /\ g.requested = h.requested /\ g.ended = h.ended /\ g.error = h.error /\ g.fired = h.fired
  BY <1>3 DEF Handshakes
<1> HIDE DEF g
<1>6. AtRest(g)
  BY <1>2, <1>4, <1>5 DEF AtRest
<1> QED BY <1>1, <1>5, <1>6 DEF g

\* An end ended: its onClose callbacks ran, and its run is over (forcedTermination).
LEMMA TerminateDoes ==
    ASSUME NEW h \in Handshakes, NEW err \in Errors
    PROVE  LET g == Terminate(h, err) IN
           /\ AtRest(g) /\ g.ended /\ g.error = err /\ g.acked = h.acked /\ g.requested = h.requested
           /\ g.run = "done" /\ g.left = h.left
<1> DEFINE f == FireClose(h)
           k == [h EXCEPT !.fired = TRUE, !.running = h.slow]
<1>1. k \in Handshakes /\ k.acked = h.acked /\ k.requested = h.requested /\ k.left = h.left
  BY DEF Handshakes
<1>2. f = IF h.fired THEN h ELSE NotifyProgress(k)
  BY DEF FireClose
<1> HIDE DEF k
<1>3. f \in Handshakes /\ f.acked = h.acked /\ f.requested = h.requested /\ f.left = h.left
  BY <1>1, <1>2, NotifyDoes DEF Woken
<1>4. Terminate(h, err) = [f EXCEPT !.ended = TRUE, !.error = err, !.awaiting = FALSE,
                                   !.timer = NoTime, !.run = "done"]
  BY DEF Terminate
<1> HIDE DEF f
<1> DEFINE g == [f EXCEPT !.ended = TRUE, !.error = err, !.awaiting = FALSE,
                          !.timer = NoTime, !.run = "done"]
<1>5. g \in Handshakes
  BY <1>3, TimesAre DEF Handshakes, Runs
<1>6. /\ g.ended /\ g.error = err /\ g.acked = f.acked /\ g.requested = f.requested
      /\ g.run = "done" /\ g.left = f.left
  BY <1>3 DEF Handshakes
<1> HIDE DEF g
<1>7. AtRest(g)
  BY <1>5, <1>6 DEF AtRest
<1> QED BY <1>3, <1>4, <1>6, <1>7 DEF g

\* What a pass of the close's run leaves of h, with `inflight` acks in flight: the callbacks run
\* once it is settled, and it waits for its deadline or is over.
Passed(h, g, inflight) ==
    /\ g \in Handshakes
    /\ g.requested = h.requested /\ g.awaiting = h.awaiting /\ g.acked = h.acked
    /\ g.ended = h.ended /\ g.left = h.left /\ g.error = h.error
    /\ g.run \in {"clean", "late", "waiting"}
    /\ g.run = "waiting" => g.timer = g.left
    /\ g.run = "clean" => g.fired
    /\ g.fired => h.fired \/ (inflight = 0 /\ (~h.awaiting \/ h.acked))

\* A pass of runUntilEnded does what Passed says.
LEMMA RunPasses ==
    ASSUME NEW h \in Handshakes, h.run \in {"none", "due"}, NEW inflight
    PROVE  Passed(h, Run(h, inflight), inflight)
<1> DEFINE settled == inflight = 0 /\ (~h.awaiting \/ h.acked)
           f == IF settled THEN FireClose(h) ELSE h
           k == [h EXCEPT !.fired = TRUE, !.running = h.slow]
<1>1. /\ k \in Handshakes /\ k.requested = h.requested /\ k.awaiting = h.awaiting /\ k.acked = h.acked
      /\ k.ended = h.ended /\ k.left = h.left /\ k.error = h.error /\ k.fired
  BY DEF Handshakes
<1>2. f = IF settled /\ ~h.fired THEN NotifyProgress(k) ELSE h
  BY DEF FireClose
<1> HIDE DEF k
<1>3. /\ f \in Handshakes /\ f.requested = h.requested /\ f.awaiting = h.awaiting /\ f.acked = h.acked
      /\ f.ended = h.ended /\ f.left = h.left /\ f.error = h.error /\ (f.fired => h.fired \/ settled)
  BY <1>1, <1>2, NotifyDoes DEF Woken
<1>4. Run(h, inflight) = IF f.fired /\ ~f.running THEN [f EXCEPT !.run = "clean"]
                         ELSE IF f.left = 0 THEN [f EXCEPT !.run = "late"]
                         ELSE [f EXCEPT !.run = "waiting", !.timer = f.left]
  BY DEF Run
<1> HIDE DEF f
<1>5. CASE f.fired /\ ~f.running
  BY <1>3, <1>4, <1>5 DEF Passed, Handshakes, Runs
<1>6. CASE ~(f.fired /\ ~f.running) /\ f.left = 0
  BY <1>3, <1>4, <1>6 DEF Passed, Handshakes, Runs
<1>7. CASE ~(f.fired /\ ~f.running) /\ f.left # 0
  <2> DEFINE g == [f EXCEPT !.run = "waiting", !.timer = f.left]
  <2>1. /\ g \in Handshakes /\ g.requested = f.requested /\ g.awaiting = f.awaiting
        /\ g.acked = f.acked /\ g.ended = f.ended /\ g.left = f.left /\ g.error = f.error
        /\ g.fired = f.fired /\ g.run = "waiting" /\ g.timer = f.left
    BY <1>3 DEF Handshakes, Runs
  <2> HIDE DEF g
  <2>2. Run(h, inflight) = g
    BY <1>4, <1>7 DEF g
  <2> QED BY <1>3, <2>1, <2>2 DEF Passed
<1> QED BY <1>5, <1>6, <1>7

\* A close asked for: on the way to its run, or due again where it runs.
LEMMA ShortenDoes ==
    ASSUME NEW h, AtRest(h), ~h.ended, NEW timeout \in Times
    PROVE  LET g == ShortenDeadline(h, timeout) IN
           /\ g \in Handshakes /\ g.run \in {"none", "due", "waiting"}
           /\ g.run = "waiting" => g.timer = g.left
           /\ g.requested = h.requested /\ g.awaiting = h.awaiting /\ g.acked = h.acked
           /\ ~g.ended /\ g.error = h.error /\ g.fired = h.fired /\ (g.run = "none") = (h.run = "none")
<1> DEFINE k == [h EXCEPT !.left = timeout]
<1>1. /\ k \in Handshakes /\ k.run = h.run /\ k.timer = h.timer
      /\ k.requested = h.requested /\ k.awaiting = h.awaiting /\ k.acked = h.acked
      /\ ~k.ended /\ k.error = h.error /\ k.fired = h.fired
  BY DEF AtRest, Handshakes
<1>2. ShortenDeadline(h, timeout) = IF timeout < h.left THEN NotifyProgress(k) ELSE h
  BY DEF ShortenDeadline
<1> HIDE DEF k
<1>3. h.run \in {"none", "due", "waiting"}
  BY DEF AtRest, Handshakes, Runs
<1>4. CASE timeout < h.left
  BY <1>1, <1>2, <1>3, <1>4, NotifyDoes DEF Woken
<1>5. CASE ~(timeout < h.left)
  BY <1>2, <1>3, <1>5 DEF AtRest
<1> QED BY <1>4, <1>5

\* close: the deadline is no later than it was, and an acknowledgement may be expected.
LEMMA RequestDoes ==
    ASSUME NEW h, AtRest(h), ~h.ended, NEW timeout \in Times, NEW expected \in BOOLEAN
    PROVE  LET g == RequestClose(h, timeout, expected) IN
           /\ g \in Handshakes /\ g.run \in {"none", "due", "waiting"}
           /\ g.run = "waiting" => g.timer = g.left
           /\ g.requested /\ g.awaiting = expected /\ g.acked = h.acked
           /\ ~g.ended /\ g.error = h.error /\ g.fired = h.fired /\ (g.run = "none") = (h.run = "none")
<1> DEFINE k == [h EXCEPT !.requested = TRUE, !.awaiting = expected]
           m == [k EXCEPT !.left = timeout]
<1>1. /\ k \in Handshakes /\ k.run = h.run /\ k.timer = h.timer /\ k.left = h.left
      /\ k.requested /\ k.awaiting = expected /\ k.acked = h.acked
      /\ ~k.ended /\ k.error = h.error /\ k.fired = h.fired
  BY DEF AtRest, Handshakes
<1>2. RequestClose(h, timeout, expected) = IF timeout < k.left THEN NotifyProgress(m) ELSE k
  BY DEF RequestClose, ShortenDeadline
<1> HIDE DEF k
<1>3. /\ m \in Handshakes /\ m.run = h.run /\ m.timer = h.timer
      /\ m.requested /\ m.awaiting = expected /\ m.acked = h.acked
      /\ ~m.ended /\ m.error = h.error /\ m.fired = h.fired
  BY <1>1 DEF Handshakes
<1> HIDE DEF m
<1>4. h.run \in {"none", "due", "waiting"}
  BY DEF AtRest, Handshakes, Runs
<1>5. CASE timeout < k.left
  BY <1>2, <1>3, <1>4, <1>5, NotifyDoes DEF Woken
<1>6. CASE ~(timeout < k.left)
  BY <1>1, <1>2, <1>4, <1>6 DEF AtRest
<1> QED BY <1>5, <1>6

\* The close that was asked for, begun: at rest, but for the pass that ended it, if one ran.
Begun(h, g, inflight) ==
    /\ g \in Handshakes
    /\ g.requested = h.requested /\ g.awaiting = h.awaiting /\ g.acked = h.acked
    /\ ~g.ended /\ g.error = h.error
    /\ g.run \in {"clean", "late", "waiting", "due"}
    /\ g.run = "waiting" => g.timer = g.left
    /\ g.run = "clean" => g.fired
    /\ g.fired => h.fired \/ (inflight = 0 /\ (~h.awaiting \/ h.acked))

\* The first pass is part of the call that begins the close.
LEMMA BeginDoes ==
    ASSUME NEW h \in Handshakes, h.run \in {"none", "due", "waiting"}, ~h.ended,
           h.run = "waiting" => h.timer = h.left, NEW inflight
    PROVE  Begun(h, BeginRun(h, inflight), inflight)
<1>1. CASE h.run = "none"
  BY <1>1, RunPasses DEF BeginRun, Passed, Begun
<1>2. CASE h.run # "none"
  BY <1>2 DEF BeginRun, Begun
<1> QED BY <1>1, <1>2

-----------------------------------------------------------------------------
(* Types of the ends and of what they exchange *)

Phases == {"open", "closing", "ended"}
States == {"none", "pending", "ok", "failed"}

ToPageFrames ==
    [t : {"MESSAGE"}, id : ServerIds, ack : BOOLEAN] \cup [t : {"ACK_RES"}, id : PageIds]
    \cup [t : {"CLOSE"}, left : Times] \cup [t : {"CLOSE_ACK", "ABORT", "ERROR"}]
ToServerFrames ==
    [t : {"MESSAGE"}, id : PageIds, ack : BOOLEAN] \cup [t : {"ACK_RES"}, id : ServerIds]
    \cup [t : {"CLOSE"}, left : Times] \cup [t : {"CLOSE_ACK", "ABORT"}]

PageRecs ==
    [phase : Phases, life : Handshakes, sent : Nat, promise : [PageIds -> States],
     asked : SUBSET PageIds, pendingAcks : SUBSET PageIds, answering : SUBSET ServerIds,
     got : Seq(ServerIds), out : Seq(ToServerFrames)]

\* The promises f with those of `ids` that wait settled.
Settled(f, ids, as) == [i \in DOMAIN f |-> IF i \in ids /\ f[i] = "pending" THEN as ELSE f[i]]
PendingOf(f) == {i \in DOMAIN f : f[i] = "pending"}

\* A promise that settled stays as it is; `ids` are those that settle.
LEMMA SettledDoes ==
    ASSUME NEW D, NEW f \in [D -> States], NEW ids, NEW as \in {"ok", "failed"}
    PROVE  LET g == Settled(f, ids, as) IN
           /\ g \in [D -> States] /\ PendingOf(g) = PendingOf(f) \ ids
           /\ \A i \in D : /\ f[i] # "pending" \/ i \notin ids => g[i] = f[i]
                           /\ f[i] = "pending" /\ i \in ids => g[i] = as
BY DEF Settled, PendingOf, States

\* What no ack is in flight means.
LEMMA InflightNone ==
    ASSUME NEW e, IsFiniteSet(e.asked), IsFiniteSet(e.answering), Inflight(e) = 0
    PROVE  e.asked \cap Pending(e) = {}
<1> DEFINE A == e.asked \cap Pending(e)
<1>1. IsFiniteSet(A)
  BY FS_Intersection
<1>2. Cardinality(A) \in Nat /\ Cardinality(e.answering) \in Nat
  BY <1>1, FS_CardinalityType
<1>3. Cardinality(A) + Cardinality(e.answering) = 0
  BY DEF Inflight
<1>4. Cardinality(A) = 0
  BY <1>2, <1>3
<1> QED BY <1>1, <1>4, FS_EmptySet

\* The messages of a use are numbered from 1, and each has its types.
LEMMA IdsFinite ==
    ASSUME use \in Uses
    PROVE  /\ IsFiniteSet(PageIds) /\ IsFiniteSet(ServerIds)
           /\ PageIds = 1 .. Len(use.asks) /\ ServerIds = 1 .. Len(use.sends)
           /\ Len(use.asks) \in Nat /\ Len(use.sends) \in Nat
           /\ \A i \in PageIds : use.asks[i] \in BOOLEAN
           /\ \A i \in ServerIds : /\ use.sends[i].kind \in QueueKinds
                                   /\ use.sends[i].ack \in BOOLEAN /\ use.sends[i].bytes \in Nat
<1>1. use.asks \in Seq(BOOLEAN) /\ use.sends \in Seq([kind : QueueKinds, ack : BOOLEAN, bytes : Nat])
  BY EndsAssumption
<1>2. /\ PageIds = 1 .. Len(use.asks) /\ ServerIds = 1 .. Len(use.sends)
      /\ Len(use.asks) \in Nat /\ Len(use.sends) \in Nat
  BY <1>1, LenProperties DEF PageIds, ServerIds
<1>3. \A i \in PageIds : use.asks[i] \in BOOLEAN
  BY <1>1, <1>2, ElementOfSeq
<1>4. \A i \in ServerIds : use.sends[i] \in [kind : QueueKinds, ack : BOOLEAN, bytes : Nat]
  BY <1>1, <1>2, ElementOfSeq
<1>5. IsFiniteSet(PageIds) /\ IsFiniteSet(ServerIds)
  BY <1>2, FS_Interval, SMTT(180)
<1> QED BY <1>2, <1>3, <1>4, <1>5

-----------------------------------------------------------------------------
(* The page's end *)

\* The page's end between its handlers, and in one of them, out of which its run is over or not.
PageTyped(p) ==
    /\ p \in PageRecs /\ p.pendingAcks \subseteq p.asked
    /\ p.life.requested /\ ~p.life.acked /\ ~p.life.ended => p.life.awaiting
PageOK(p) ==
    /\ PageTyped(p) /\ AtRest(p.life)
    /\ p.phase = "ended" <=> p.life.ended
    /\ p.phase = "open" => p.life.run = "none"
    /\ p.life.ended => p.asked \cap Pending(p) = {}

\* q is p but for what a close or an end changes: messages neither sent nor heard.
PageQuiet(p, q) ==
    /\ q.sent = p.sent /\ q.got = p.got /\ q.asked = p.asked
    /\ Pending(q) \subseteq Pending(p)
    /\ p.phase # "open" => q.phase # "open"

\* _end: the end has ended with err, its ack requests rejected.
LEMMA PageEndDoes ==
    ASSUME NEW p, PageTyped(p), ~p.life.ended, NEW err \in Errors
    PROVE  LET q == PageEnd(p, err) IN
           /\ PageOK(q) /\ PageQuiet(p, q) /\ q.life.ended /\ q.life.error = err /\ q.out = p.out
           /\ q.life.acked = p.life.acked /\ q.life.requested = p.life.requested
           /\ q.answering = p.answering /\ q.phase = "ended"
<1> DEFINE g == Terminate(p.life, err)
           f == Settled(p.promise, p.asked, "failed")
           q == [p EXCEPT !.phase = "ended", !.life = g, !.pendingAcks = {}, !.promise = f]
<1>1. p \in PageRecs /\ p.life \in Handshakes /\ p.promise \in [PageIds -> States]
  BY DEF PageTyped, PageRecs
<1>2. PageEnd(p, err) = q
  BY <1>1 DEF PageEnd, Settle, Settled, PageRecs
<1>3. /\ AtRest(g) /\ g.ended /\ g.error = err /\ g.acked = p.life.acked
      /\ g.requested = p.life.requested /\ g.run = "done"
  BY <1>1, TerminateDoes
<1>4. f \in [PageIds -> States] /\ PendingOf(f) = PendingOf(p.promise) \ p.asked
  BY <1>1, SettledDoes
<1> HIDE DEF f, g
<1>5. /\ q \in PageRecs /\ q.phase = "ended" /\ q.life = g /\ q.pendingAcks = {} /\ q.promise = f
      /\ q.sent = p.sent /\ q.got = p.got /\ q.asked = p.asked /\ q.out = p.out
      /\ q.answering = p.answering
  BY <1>1, <1>3, <1>4 DEF PageRecs, AtRest, Phases
<1> HIDE DEF q
<1>6. Pending(q) = PendingOf(f) /\ Pending(p) = PendingOf(p.promise)
  BY <1>5 DEF Pending, PendingOf
<1> QED BY <1>2, <1>3, <1>4, <1>5, <1>6 DEF PageOK, PageTyped, PageQuiet

\* A pass of the close's run: the end waits on, or ended.
LEMMA PageRanDoes ==
    ASSUME NEW p, PageTyped(p), p.phase = "closing", ~p.life.ended, p.life.run \notin {"none", "done"},
           p.life.run = "waiting" => p.life.timer = p.life.left
    PROVE  LET q == PageRan(p) IN
           /\ PageOK(q) /\ PageQuiet(p, q) /\ q.out = p.out
           /\ q.life.acked = p.life.acked /\ q.life.requested = p.life.requested
           /\ q.answering = p.answering /\ q.phase # "open"
           /\ q = p \/ (q.life.ended /\ (q.life.error = "none" => p.life.run = "clean"))
<1>1. CASE p.life.run = "clean"
  <2>1. PageRan(p) = PageEnd(p, "none")
    BY <1>1 DEF PageRan
  <2> QED BY <1>1, <2>1, PageEndDoes DEF Errors
<1>2. CASE p.life.run = "late"
  <2>1. PageRan(p) = PageEnd(p, "timeout")
    BY <1>2 DEF PageRan
  <2>2. "timeout" \in Errors /\ "timeout" # "none"
    BY DEF Errors
  <2> QED BY <2>1, <2>2, PageEndDoes
<1>3. CASE p.life.run \notin {"clean", "late"}
  <2>1. PageRan(p) = p
    BY <1>3 DEF PageRan
  <2>2. AtRest(p.life)
    BY <1>3 DEF AtRest, PageTyped, PageRecs
  <2> QED BY <1>3, <2>1, <2>2 DEF PageOK, PageQuiet
<1> QED BY <1>1, <1>2, <1>3

\* The page's end at p goes on to q, sending fs: no message was sent or heard, no CLOSE acknowledged.
\* `told`: it took the server's CLOSE.
PageGoes(p, q, fs, told) ==
    /\ PageOK(q) /\ PageQuiet(p, q) /\ q.out = fs
    /\ q.life.acked = p.life.acked
    /\ p.life.requested => q.life.requested
    /\ p.life.ended => q.life.ended
    /\ ~q.life.ended /\ q.life.fired =>
         p.life.fired \/ (p.asked \cap Pending(p) = {} /\ (p.life.acked \/ ~q.life.requested))
    /\ ~q.life.ended /\ q.life.run # "none" /\ ~q.life.requested =>
         told \/ (p.life.run # "none" /\ ~p.life.requested)
    /\ ~p.life.ended /\ q.life.ended => q.life.run = "done"

\* An end that ends cleanly had no ack request in flight.
PageClean(p, q) ==
    ~p.life.ended /\ q.life.ended /\ q.life.error = "none" =>
        p.life.fired \/ p.asked \cap Pending(p) = {}

PageStart(p) == PageOK(p) /\ p.out = <<>> /\ use \in Uses

\* The close that was begun in r, which is p but for its phase, its handshake, and what it sends.
LEMMA PageBegins ==
    ASSUME NEW p, PageStart(p), ~p.life.ended, NEW r \in PageRecs, NEW n, n = Inflight(p),
           r.phase = "closing", r.sent = p.sent, r.got = p.got, r.asked = p.asked,
           r.promise = p.promise, r.pendingAcks = p.pendingAcks,
           NEW h \in Handshakes, h.run \in {"none", "due", "waiting"}, ~h.ended,
           h.run = "waiting" => h.timer = h.left, h.acked = p.life.acked,
           h.fired = p.life.fired, p.life.requested => h.requested,
           h.requested /\ ~h.acked => h.awaiting,
           Begun(h, r.life, n) \/ Passed(h, r.life, n),
           NEW told \in BOOLEAN, ~h.requested => told \/ (p.life.run # "none" /\ ~p.life.requested)
    PROVE  LET q == PageRan(r) IN PageGoes(p, q, r.out, told) /\ PageClean(p, q) /\ q.answering = r.answering
<1>1. /\ r.life.requested = h.requested /\ r.life.awaiting = h.awaiting /\ r.life.acked = h.acked
      /\ ~r.life.ended /\ r.life.run \in {"clean", "late", "waiting", "due"}
      /\ r.life.run = "waiting" => r.life.timer = r.life.left
      /\ r.life.run = "clean" => r.life.fired
      /\ r.life.fired => h.fired \/ (n = 0 /\ (~h.awaiting \/ h.acked))
  BY DEF Begun, Passed
<1>2. PageTyped(r)
  BY <1>1 DEF PageTyped, PageStart, PageOK
<1> DEFINE q == PageRan(r)
<1>3. /\ PageOK(q) /\ PageQuiet(r, q) /\ q.out = r.out
      /\ q.life.acked = r.life.acked /\ q.life.requested = r.life.requested
      /\ q.answering = r.answering /\ q.phase # "open"
      /\ q = r \/ (q.life.ended /\ (q.life.error = "none" => r.life.run = "clean"))
  BY <1>1, <1>2, PageRanDoes
<1> HIDE DEF q
<1>4. Pending(r) = Pending(p)
  BY DEF Pending
<1>5. PageQuiet(p, q)
  BY <1>3, <1>4 DEF PageQuiet
<1>6. n = 0 => p.asked \cap Pending(p) = {}
  <2>1. IsFiniteSet(p.asked) /\ IsFiniteSet(p.answering)
    BY IdsFinite, FS_Subset DEF PageStart, PageOK, PageTyped, PageRecs
  <2> QED BY <2>1, InflightNone
<1>7. q.life.ended => q.life.run = "done"
  BY <1>3 DEF PageOK, AtRest
<1>9. PageClean(p, q)
  <2>1. q = r => ~q.life.ended
    BY <1>1
  <2> QED BY <1>1, <1>3, <1>6, <2>1 DEF PageClean
<1>10. ~q.life.ended => q = r
  BY <1>3
<1>11. ~q.life.ended /\ q.life.fired =>
         p.life.fired \/ (p.asked \cap Pending(p) = {} /\ (p.life.acked \/ ~q.life.requested))
  <2>1. SUFFICES ASSUME ~q.life.ended, q.life.fired, ~p.life.fired
                 PROVE  p.asked \cap Pending(p) = {} /\ (p.life.acked \/ ~q.life.requested)
    OBVIOUS
  <2>2. n = 0 /\ (~h.awaiting \/ h.acked) /\ q.life.requested = h.requested
    BY <1>1, <1>10, <2>1
  <2> QED BY <1>6, <2>2
<1>12. ~q.life.ended /\ q.life.run # "none" /\ ~q.life.requested =>
         told \/ (p.life.run # "none" /\ ~p.life.requested)
  BY <1>1, <1>3
<1>13. p.life.requested => q.life.requested
  BY <1>1, <1>3
<1>14. q.life.acked = p.life.acked
  BY <1>1, <1>3
<1>15. PageGoes(p, q, r.out, told)
  BY <1>3, <1>5, <1>7, <1>11, <1>12, <1>13, <1>14 DEF PageGoes
<1> QED BY <1>3, <1>9, <1>15 DEF q

\* What either end sends is a frame the other reads.
LEMMA FrameTypes ==
    /\ \A i \in ServerIds, a \in BOOLEAN : Message(i, a) \in ToPageFrames
    /\ \A i \in PageIds, a \in BOOLEAN : Message(i, a) \in ToServerFrames
    /\ \A i \in PageIds : AckRes(i) \in ToPageFrames
    /\ \A i \in ServerIds : AckRes(i) \in ToServerFrames
    /\ \A x \in Times : Close(x) \in ToPageFrames /\ Close(x) \in ToServerFrames
    /\ \A t \in {"CLOSE_ACK", "ABORT"} : Ctrl(t) \in ToPageFrames /\ Ctrl(t) \in ToServerFrames
    /\ Ctrl("ERROR") \in ToPageFrames
BY DEF ToPageFrames, ToServerFrames, Message, AckRes, Close, Ctrl

\* The timeout of a close is a time.
LEMMA TimeoutsAreTimes == \A t \in Timeouts : t \in Times
BY EndsAssumption, TimeoutAssumption DEF Times, NoTime

\* The first frame of a handler is all it sent.
LEMMA OneOut ==
    ASSUME NEW S, NEW f \in S
    PROVE  Append(<<>>, f) = <<f>> /\ <<f>> \in Seq(S) /\ <<>> \in Seq(S)
OBVIOUS

\* sendData
LEMMA PageSendDoes ==
    ASSUME NEW p, PageStart(p), p.phase = "open", p.sent + 1 \in PageIds
    PROVE  LET q == PageSend(p) IN
           /\ PageOK(q) /\ q.phase = "open" /\ q.life = p.life /\ q.sent = p.sent + 1
           /\ q.got = p.got /\ q.out = <<Message(p.sent + 1, use.asks[p.sent + 1])>>
<1> DEFINE id == p.sent + 1
           asks == use.asks[id]
           promise == [p.promise EXCEPT ![id] = IF asks THEN "pending" ELSE "ok"]
           asked == IF asks THEN p.asked \cup {id} ELSE p.asked
           acks == IF asks THEN p.pendingAcks \cup {id} ELSE p.pendingAcks
           f == Message(id, asks)
           q == [p EXCEPT !.sent = id, !.promise = promise, !.asked = asked, !.pendingAcks = acks,
                          !.out = <<f>>]
<1>1. p \in PageRecs /\ p.pendingAcks \subseteq p.asked /\ p.out = <<>> /\ ~p.life.ended /\ id \in PageIds
  BY DEF PageStart, PageOK, PageTyped
<1>2. asks \in BOOLEAN /\ f \in ToServerFrames
  BY <1>1, IdsFinite, FrameTypes DEF PageStart
<1>3. Append(<<>>, f) = <<f>> /\ <<f>> \in Seq(ToServerFrames)
  BY <1>2, OneOut
<1>4. PageSend(p) = q
  BY <1>1, <1>3 DEF PageSend, PageOut, PageRecs
<1>5. promise \in [PageIds -> States] /\ asked \subseteq PageIds /\ acks \subseteq asked /\ id \in Nat
  BY <1>1, <1>2 DEF PageRecs, States
<1> HIDE DEF promise, asked, acks, f, asks
<1>6. /\ q \in PageRecs /\ q.phase = "open" /\ q.life = p.life /\ q.sent = id
      /\ q.got = p.got /\ q.out = <<f>> /\ q.pendingAcks = acks /\ q.asked = asked
  BY <1>1, <1>3, <1>5 DEF PageRecs
<1>7. PageTyped(q) /\ AtRest(q.life) /\ (q.phase = "open" => q.life.run = "none") /\ ~q.life.ended
  BY <1>1, <1>5, <1>6 DEF PageStart, PageOK, PageTyped
<1> QED BY <1>4, <1>6, <1>7 DEF PageOK, f, asks

\* close
LEMMA PageCloseDoes ==
    ASSUME NEW p, PageStart(p), ~p.life.ended, NEW timeout \in Timeouts
    PROVE  LET q == PageClose(p, timeout) IN
           PageGoes(p, q, <<Close(timeout)>>, FALSE) /\ PageClean(p, q) /\ q.phase # "open"
<1> DEFINE h == RequestClose(p.life, timeout, TRUE)
           n == Inflight(p)
           g == BeginRun(h, n)
           f == Close(timeout)
           r == [p EXCEPT !.phase = "closing", !.life = g, !.out = <<f>>]
<1>1. p \in PageRecs /\ AtRest(p.life) /\ p.out = <<>> /\ p.pendingAcks \subseteq p.asked
  BY DEF PageStart, PageOK, PageTyped
<1>2. timeout \in Times /\ f \in ToServerFrames
  BY TimeoutsAreTimes, FrameTypes
<1>3. Append(<<>>, f) = <<f>> /\ <<f>> \in Seq(ToServerFrames)
  BY <1>2, OneOut
<1>4. PageClose(p, timeout) = PageRan(r)
  <2> DEFINE k == [p EXCEPT !.phase = "closing", !.life = h, !.out = <<f>>]
  <2>1. k \in [DOMAIN p -> {k[x] : x \in DOMAIN p}] /\ k.asked = p.asked /\ k.promise = p.promise
        /\ k.answering = p.answering
    BY <1>1 DEF PageRecs
  <2>2. Inflight(k) = n
    BY <2>1 DEF Inflight, Pending
  <2>3. PageOut([p EXCEPT !.phase = "closing", !.life = h], f) = k
    BY <1>1, <1>3 DEF PageOut, PageRecs
  <2>4. [k EXCEPT !.life = BeginRun(@, n)] = r
    BY <1>1 DEF PageRecs
  <2> HIDE DEF k, r
  <2> QED BY <2>2, <2>3, <2>4 DEF PageClose
<1>5. /\ h \in Handshakes /\ h.run \in {"none", "due", "waiting"}
      /\ h.run = "waiting" => h.timer = h.left
      /\ h.requested /\ h.awaiting /\ h.acked = p.life.acked
      /\ ~h.ended /\ h.fired = p.life.fired
  BY <1>1, <1>2, RequestDoes
<1>6. Begun(h, g, n)
  BY <1>5, BeginDoes
<1> HIDE DEF h, g, n, f
<1>7. /\ r \in PageRecs /\ r.phase = "closing" /\ r.sent = p.sent /\ r.got = p.got
      /\ r.asked = p.asked /\ r.promise = p.promise /\ r.pendingAcks = p.pendingAcks /\ r.life = g
      /\ r.out = <<f>>
  BY <1>1, <1>3, <1>6 DEF PageRecs, Phases, Begun
<1> HIDE DEF r
<1>8. PageGoes(p, PageRan(r), r.out, FALSE) /\ PageClean(p, PageRan(r))
  BY <1>5, <1>6, <1>7, PageBegins DEF n
<1>9. PageRan(r).phase # "open"
  <2>1. PageTyped(r)
    BY <1>1, <1>5, <1>6, <1>7 DEF PageTyped, Begun
  <2> QED BY <1>6, <1>7, <2>1, PageRanDoes DEF Begun
<1> QED BY <1>4, <1>7, <1>8, <1>9 DEF f

\* An end that does no more than end.
LEMMA PageEndGoes ==
    ASSUME NEW p, PageStart(p), NEW r \in PageRecs, r.phase \in Phases, r.life = p.life,
           ~r.life.ended, r.sent = p.sent, r.got = p.got, r.asked = p.asked, r.promise = p.promise,
           r.pendingAcks = p.pendingAcks, NEW err \in Errors, NEW told \in BOOLEAN
    PROVE  LET q == PageEnd(r, err) IN
           PageGoes(p, q, r.out, told) /\ (err # "none" => PageClean(p, q)) /\ q.phase = "ended"
<1>1. PageTyped(r)
  BY DEF PageTyped, PageStart, PageOK
<1> DEFINE q == PageEnd(r, err)
<1>2. /\ PageOK(q) /\ PageQuiet(r, q) /\ q.life.ended /\ q.life.error = err /\ q.out = r.out
      /\ q.life.acked = r.life.acked /\ q.life.requested = r.life.requested
      /\ q.phase = "ended"
  BY <1>1, PageEndDoes
<1> HIDE DEF q
<1>3. Pending(r) = Pending(p)
  BY DEF Pending
<1>4. PageQuiet(p, q)
  BY <1>2, <1>3 DEF PageQuiet
<1>5. q.life.run = "done"
  BY <1>2 DEF PageOK, AtRest
<1>6. PageGoes(p, q, r.out, told) /\ (err # "none" => PageClean(p, q))
  BY <1>2, <1>4, <1>5 DEF PageGoes, PageClean
<1> QED BY <1>2, <1>6 DEF q

\* abort
LEMMA PageAbortDoes ==
    ASSUME NEW p, PageStart(p), ~p.life.ended
    PROVE  LET q == PageAbort(p) IN PageGoes(p, q, <<Ctrl("ABORT")>>, FALSE) /\ PageClean(p, q) /\ q.phase # "open"
<1> DEFINE f == Ctrl("ABORT")
           r == [p EXCEPT !.phase = "closing", !.out = <<f>>]
<1>1. p \in PageRecs /\ p.out = <<>>
  BY DEF PageStart, PageOK, PageTyped
<1>2. Append(<<>>, f) = <<f>> /\ <<f>> \in Seq(ToServerFrames)
  <2>1. f \in ToServerFrames
    BY FrameTypes
  <2> HIDE DEF f
  <2> QED BY <2>1, OneOut
<1> HIDE DEF f
<1>3. PageAbort(p) = PageEnd(r, "abort")
  BY <1>1, <1>2 DEF PageAbort, PageOut, PageRecs, f
<1>4. /\ r \in PageRecs /\ r.phase = "closing" /\ r.sent = p.sent /\ r.got = p.got /\ r.life = p.life
      /\ r.asked = p.asked /\ r.promise = p.promise /\ r.pendingAcks = p.pendingAcks
      /\ r.out = <<f>>
  BY <1>1, <1>2 DEF PageRecs, Phases
<1> HIDE DEF r
<1>5. "abort" \in Errors /\ "abort" # "none"
  BY DEF Errors
<1>6. PageGoes(p, PageEnd(r, "abort"), r.out, FALSE) /\ PageClean(p, PageEnd(r, "abort"))
      /\ PageEnd(r, "abort").phase = "ended"
  BY <1>4, <1>5, PageEndGoes DEF Phases
<1> QED BY <1>3, <1>4, <1>6 DEF f

\* onPeerCloseRequest
LEMMA PageTakesCloseDoes ==
    ASSUME NEW p, PageStart(p), ~p.life.ended, NEW timeout \in Times
    PROVE  LET q == PageTakesClose(p, timeout) IN
           PageGoes(p, q, <<Ctrl("CLOSE_ACK")>>, TRUE) /\ PageClean(p, q) /\ q.phase # "open"
<1> DEFINE h == ShortenDeadline(p.life, timeout)
           n == Inflight(p)
           g == BeginRun(h, n)
           f == Ctrl("CLOSE_ACK")
           r == [p EXCEPT !.phase = "closing", !.life = g, !.out = <<f>>]
<1>1. p \in PageRecs /\ AtRest(p.life) /\ p.out = <<>> /\ p.pendingAcks \subseteq p.asked
  BY DEF PageStart, PageOK, PageTyped
<1>2. f \in ToServerFrames
  BY FrameTypes
<1>3. Append(<<>>, f) = <<f>> /\ <<f>> \in Seq(ToServerFrames)
  <2> HIDE DEF f
  <2> QED BY <1>2, OneOut
<1> HIDE DEF f
<1>4. PageTakesClose(p, timeout) = PageRan(r)
  <2> DEFINE k == [p EXCEPT !.phase = "closing", !.life = h, !.out = <<f>>]
  <2>1. k.asked = p.asked /\ k.promise = p.promise /\ k.answering = p.answering
    BY <1>1 DEF PageRecs
  <2>2. Inflight(k) = n
    BY <2>1 DEF Inflight, Pending
  <2>3. PageOut([p EXCEPT !.phase = "closing", !.life = h], f) = k
    BY <1>1, <1>3 DEF PageOut, PageRecs
  <2>4. [k EXCEPT !.life = BeginRun(@, n)] = r
    BY <1>1 DEF PageRecs
  <2> HIDE DEF k, r
  <2> QED BY <2>2, <2>3, <2>4 DEF PageTakesClose, f
<1>5. /\ h \in Handshakes /\ h.run \in {"none", "due", "waiting"}
      /\ h.run = "waiting" => h.timer = h.left
      /\ h.requested = p.life.requested /\ h.awaiting = p.life.awaiting /\ h.acked = p.life.acked
      /\ ~h.ended /\ h.fired = p.life.fired
  BY <1>1, ShortenDoes
<1>6. Begun(h, g, n)
  BY <1>5, BeginDoes
<1>7. h.requested /\ ~h.acked => h.awaiting
  BY <1>5 DEF PageStart, PageOK, PageTyped
<1> HIDE DEF h, g, n
<1>8. /\ r \in PageRecs /\ r.phase = "closing" /\ r.sent = p.sent /\ r.got = p.got
      /\ r.asked = p.asked /\ r.promise = p.promise /\ r.pendingAcks = p.pendingAcks /\ r.life = g
      /\ r.out = <<f>>
  BY <1>1, <1>3, <1>6 DEF PageRecs, Phases, Begun
<1> HIDE DEF r
<1>9. PageGoes(p, PageRan(r), r.out, TRUE) /\ PageClean(p, PageRan(r))
  BY <1>5, <1>6, <1>7, <1>8, PageBegins DEF n
<1>10. PageRan(r).phase # "open"
  <2>1. PageTyped(r)
    BY <1>1, <1>5, <1>6, <1>7, <1>8 DEF PageTyped, Begun
  <2> QED BY <1>6, <1>8, <2>1, PageRanDoes DEF Begun
<1> QED BY <1>4, <1>8, <1>9, <1>10 DEF f

\* runUntilEnded, woken
LEMMA PageRunsDoes ==
    ASSUME NEW p, PageStart(p), p.phase = "closing", p.life.run = "due"
    PROVE  LET q == PageRan([p EXCEPT !.life = Run(@, Inflight(p))]) IN
           PageGoes(p, q, <<>>, FALSE) /\ PageClean(p, q)
<1> DEFINE h == p.life
           n == Inflight(p)
           g == Run(h, n)
           r == [p EXCEPT !.life = g]
<1>1. /\ p \in PageRecs /\ AtRest(h) /\ p.out = <<>> /\ p.pendingAcks \subseteq p.asked /\ ~h.ended
      /\ h.requested /\ ~h.acked => h.awaiting
  BY DEF PageStart, PageOK, PageTyped
<1>2. h \in Handshakes /\ Passed(h, g, n)
  BY <1>1, RunPasses DEF AtRest
<1> HIDE DEF g, n
<1>3. /\ r \in PageRecs /\ r.phase = "closing" /\ r.sent = p.sent /\ r.got = p.got
      /\ r.asked = p.asked /\ r.promise = p.promise /\ r.pendingAcks = p.pendingAcks /\ r.life = g
      /\ r.out = <<>>
  BY <1>1, <1>2 DEF PageRecs, Passed
<1>4. PageRan([p EXCEPT !.life = Run(@, Inflight(p))]) = PageRan(r)
  BY <1>1 DEF PageRecs, g, n
<1> HIDE DEF r
<1>5. PageGoes(p, PageRan(r), r.out, FALSE) /\ PageClean(p, PageRan(r))
  BY <1>1, <1>2, <1>3, PageBegins DEF n
<1> QED BY <1>3, <1>4, <1>5

\* An end of which only the handshake goes on, woken at most.
LEMMA PageWakes ==
    ASSUME NEW p, PageStart(p), NEW g, AtRest(g), Woken(p.life, g),
           NEW answering, answering \subseteq p.answering
    PROVE  LET q == [p EXCEPT !.life = g, !.answering = answering] IN
           /\ PageGoes(p, q, <<>>, FALSE) /\ PageClean(p, q) /\ q.phase = p.phase /\ q \in PageRecs
           /\ q.life = g /\ PageStart(q) /\ Pending(q) = Pending(p)
<1> DEFINE q == [p EXCEPT !.life = g, !.answering = answering]
<1>1. p \in PageRecs /\ g \in Handshakes /\ p.out = <<>> /\ answering \subseteq ServerIds
  BY DEF PageStart, PageOK, PageTyped, AtRest, PageRecs
<1>2. /\ q \in PageRecs /\ q.phase = p.phase /\ q.life = g /\ q.sent = p.sent /\ q.got = p.got
      /\ q.asked = p.asked /\ q.promise = p.promise /\ q.pendingAcks = p.pendingAcks /\ q.out = <<>>
  BY <1>1 DEF PageRecs
<1> HIDE DEF q
<1>3. Pending(q) = Pending(p)
  BY <1>2 DEF Pending
<1>4. PageOK(q)
  BY <1>2, <1>3 DEF PageStart, PageOK, PageTyped, Woken
<1>5. PageQuiet(p, q)
  BY <1>2, <1>3 DEF PageQuiet
<1>6. PageGoes(p, q, <<>>, FALSE) /\ PageClean(p, q)
  BY <1>2, <1>4, <1>5 DEF PageGoes, PageClean, Woken
<1> QED BY <1>2, <1>3, <1>4, <1>6 DEF q, PageStart

\* A handler in two parts, of which the first only wakes the close.
LEMMA PageGoesOn ==
    ASSUME NEW p, NEW q, NEW r, NEW fs, PageGoes(p, q, <<>>, FALSE), PageGoes(q, r, fs, FALSE),
           q.asked \cap Pending(q) = p.asked \cap Pending(p), q.life.fired = p.life.fired,
           q.life.ended = p.life.ended, q.life.requested = p.life.requested
    PROVE  PageGoes(p, r, fs, FALSE) /\ (PageClean(q, r) => PageClean(p, r))
<1>1. PageQuiet(p, r)
  BY DEF PageGoes, PageQuiet
<1>2. PageClean(q, r) => PageClean(p, r)
  BY DEF PageClean
<1>3. r.life.acked = p.life.acked /\ PageOK(r) /\ r.out = fs
  BY DEF PageGoes
<1>4. (p.life.requested => r.life.requested) /\ (p.life.ended => r.life.ended)
      /\ (~p.life.ended /\ r.life.ended => r.life.run = "done")
  BY DEF PageGoes
<1>5. ~r.life.ended /\ r.life.fired =>
         p.life.fired \/ (p.asked \cap Pending(p) = {} /\ (p.life.acked \/ ~r.life.requested))
  BY DEF PageGoes
<1>6. ~r.life.ended /\ r.life.run # "none" /\ ~r.life.requested =>
         (p.life.run # "none" /\ ~p.life.requested)
  BY DEF PageGoes
<1> QED BY <1>1, <1>2, <1>3, <1>4, <1>5, <1>6 DEF PageGoes

\* An end with the answers to `ids` no longer owed, the close looking again (trackAck).
LEMMA PageAnsweredDoes ==
    ASSUME NEW p, PageStart(p), NEW id
    PROVE  LET q == Progress([p EXCEPT !.answering = @ \ {id}]) IN
           /\ PageGoes(p, q, <<>>, FALSE) /\ PageClean(p, q) /\ q.phase = p.phase /\ q \in PageRecs
           /\ PageStart(q) /\ Pending(q) = Pending(p) /\ Woken(p.life, q.life)
<1> DEFINE a == p.answering \ {id}
           g == NotifyProgress(p.life)
<1>1. p \in PageRecs /\ AtRest(p.life)
  BY DEF PageStart, PageOK, PageTyped
<1>2. AtRest(g) /\ Woken(p.life, g)
  BY <1>1, NotifyRests
<1>3. Progress([p EXCEPT !.answering = @ \ {id}]) = [p EXCEPT !.life = g, !.answering = a]
  BY <1>1 DEF Progress, PageRecs
<1>4. a \subseteq p.answering
  OBVIOUS
<1> DEFINE q == [p EXCEPT !.life = g, !.answering = a]
<1> HIDE DEF g, a
<1>5. /\ PageGoes(p, q, <<>>, FALSE) /\ PageClean(p, q) /\ q.phase = p.phase /\ q \in PageRecs
      /\ q.life = g /\ PageStart(q) /\ Pending(q) = Pending(p)
  BY <1>2, <1>4, PageWakes
<1> HIDE DEF q
<1>6. Progress([p EXCEPT !.answering = @ \ {id}]) = q
  BY <1>3 DEF q, a
<1> QED BY <1>2, <1>5, <1>6

\* answerAckReq: the answer goes, unless the page's end is over.
LEMMA PageAnswersDoes ==
    ASSUME NEW p, PageStart(p), NEW id, id \in ServerIds
    PROVE  LET q == PageAnswers(p, id) IN
           \E fs \in {<<>>, <<AckRes(id)>>} : PageGoes(p, q, fs, FALSE) /\ PageClean(p, q)
<1> DEFINE r == Progress([p EXCEPT !.answering = @ \ {id}])
           f == AckRes(id)
           s == [r EXCEPT !.out = <<f>>]
<1>1. /\ PageGoes(p, r, <<>>, FALSE) /\ PageClean(p, r) /\ r \in PageRecs
      /\ PageStart(r) /\ Pending(r) = Pending(p)
  BY PageAnsweredDoes
<1> HIDE DEF r
<1>2. f \in ToServerFrames
  BY FrameTypes
<1> HIDE DEF f
<1>3. Append(<<>>, f) = <<f>> /\ <<f>> \in Seq(ToServerFrames)
  BY <1>2, OneOut
<1>4. r.out = <<>>
  BY <1>1 DEF PageStart
<1>5. PageAnswers(p, id) = IF p.life.ended THEN r ELSE s
  BY <1>1, <1>3, <1>4 DEF PageAnswers, PageOut, r, f, PageRecs
<1>6. /\ s \in PageRecs /\ s.phase = r.phase /\ s.life = r.life /\ s.sent = r.sent /\ s.got = r.got
      /\ s.asked = r.asked /\ s.promise = r.promise /\ s.pendingAcks = r.pendingAcks /\ s.out = <<f>>
  BY <1>1, <1>3 DEF PageRecs
<1> HIDE DEF s
<1>7. Pending(s) = Pending(r)
  BY <1>6 DEF Pending
<1>8. PageOK(s) /\ PageQuiet(p, s)
  BY <1>1, <1>6, <1>7 DEF PageGoes, PageOK, PageTyped, PageQuiet
<1>9. PageGoes(p, s, <<f>>, FALSE) /\ PageClean(p, s)
  BY <1>1, <1>6, <1>8 DEF PageGoes, PageClean
<1> QED BY <1>1, <1>5, <1>9 DEF f

\* A listener's Abort aborts a channel that is open.
LEMMA PageListenerAbortsDoes ==
    ASSUME NEW p, PageStart(p), NEW id
    PROVE  LET q == PageListenerAborts(p, id) IN
           \E fs \in {<<>>, <<Ctrl("ABORT")>>} :
               PageGoes(p, q, fs, FALSE) /\ PageClean(p, q) /\ (fs # <<>> => q.phase # "open")
<1> DEFINE r == Progress([p EXCEPT !.answering = @ \ {id}])
           q == PageAbort(r)
<1>1. /\ PageGoes(p, r, <<>>, FALSE) /\ PageClean(p, r) /\ r.phase = p.phase
      /\ PageStart(r) /\ Pending(r) = Pending(p) /\ Woken(p.life, r.life)
  BY PageAnsweredDoes
<1>2. PageListenerAborts(p, id) = IF p.phase = "open" THEN q ELSE r
  BY DEF PageListenerAborts
<1> HIDE DEF r
<1>3. CASE p.phase = "open"
  <2>1. ~r.life.ended
    BY <1>1, <1>3 DEF PageStart, PageOK
  <2>2. PageGoes(r, q, <<Ctrl("ABORT")>>, FALSE) /\ PageClean(r, q) /\ q.phase # "open"
    BY <1>1, <2>1, PageAbortDoes
  <2> HIDE DEF q
  <2>3. /\ r.asked \cap Pending(r) = p.asked \cap Pending(p) /\ r.life.fired = p.life.fired
        /\ r.life.ended = p.life.ended /\ r.life.requested = p.life.requested
    BY <1>1 DEF Woken, PageGoes, PageQuiet
  <2>4. PageGoes(p, q, <<Ctrl("ABORT")>>, FALSE) /\ PageClean(p, q)
    BY <1>1, <2>2, <2>3, PageGoesOn
  <2> QED BY <1>2, <1>3, <2>2, <2>4
<1>4. CASE p.phase # "open"
  BY <1>1, <1>2, <1>4
<1> QED BY <1>3, <1>4

\* onPeerAckRes
LEMMA PageTakesAckRes ==
    ASSUME NEW p, PageStart(p), NEW f
    PROVE  LET q == TakeAckRes(p, f) IN PageGoes(p, q, <<>>, FALSE) /\ PageClean(p, q)
<1> DEFINE pr == Settled(p.promise, {f.id}, "ok")
           g == NotifyProgress(p.life)
           a == p.pendingAcks \ {f.id}
           q == [p EXCEPT !.pendingAcks = a, !.promise = pr, !.life = g]
<1>1. /\ p \in PageRecs /\ AtRest(p.life) /\ p.promise \in [PageIds -> States] /\ p.out = <<>>
      /\ p.pendingAcks \subseteq p.asked
  BY DEF PageStart, PageOK, PageTyped, PageRecs
<1>2. AtRest(g) /\ Woken(p.life, g)
  BY <1>1, NotifyRests
<1>3. pr \in [PageIds -> States] /\ PendingOf(pr) = PendingOf(p.promise) \ {f.id}
  BY <1>1, SettledDoes
<1>4. TakeAckRes(p, f) = IF f.id \notin p.pendingAcks THEN p ELSE q
  BY <1>1 DEF TakeAckRes, Progress, Settle, Settled, PageRecs
<1> HIDE DEF pr, g
<1>5. /\ q \in PageRecs /\ q.phase = p.phase /\ q.life = g /\ q.sent = p.sent /\ q.got = p.got
      /\ q.asked = p.asked /\ q.promise = pr /\ q.pendingAcks = a /\ q.out = <<>>
  BY <1>1, <1>2, <1>3 DEF PageRecs, AtRest
<1> HIDE DEF q
<1>6. Pending(q) \subseteq Pending(p)
  BY <1>3, <1>5 DEF Pending, PendingOf
<1>7. PageOK(q)
  <2>1. q.life.ended => q.asked \cap Pending(q) = {}
    BY <1>2, <1>5, <1>6 DEF Woken, PageStart, PageOK
  <2> QED BY <1>1, <1>2, <1>5, <2>1 DEF PageStart, PageOK, PageTyped, Woken
<1>8. PageQuiet(p, q)
  BY <1>5, <1>6 DEF PageQuiet
<1>9. PageGoes(p, q, <<>>, FALSE) /\ PageClean(p, q)
  BY <1>2, <1>5, <1>7, <1>8 DEF PageGoes, PageClean, Woken
<1>10. PageGoes(p, p, <<>>, FALSE) /\ PageClean(p, p)
  BY <1>1 DEF PageStart, PageGoes, PageClean, PageQuiet, PageOK, AtRest
<1> QED BY <1>4, <1>9, <1>10

\* An end that heard a message, the next of those it got.
PageHears(p, q, f) ==
    /\ PageOK(q) /\ q.phase = p.phase /\ q.life = p.life /\ q.sent = p.sent /\ q.out = <<>>
    /\ q.asked = p.asked /\ q.promise = p.promise /\ q.got = Append(p.got, f.id)

\* An end whose CLOSE was acknowledged.
PageIsAcked(p, q) ==
    /\ PageOK(q) /\ q.phase = p.phase /\ q.sent = p.sent /\ q.out = <<>> /\ q.got = p.got
    /\ q.asked = p.asked /\ q.promise = p.promise /\ q.life.acked
    /\ q.life.requested = p.life.requested /\ q.life.ended = p.life.ended
    /\ q.life.fired = p.life.fired /\ (q.life.run = "none") = (p.life.run = "none")

\* A frame to the page has its kind's fields.
LEMMA PageFrameIs ==
    ASSUME NEW f \in ToPageFrames
    PROVE  /\ f.t \in {"MESSAGE", "ACK_RES", "CLOSE", "CLOSE_ACK", "ABORT", "ERROR"}
           /\ f.t = "MESSAGE" => f.id \in ServerIds /\ f.ack \in BOOLEAN
           /\ f.t = "ACK_RES" => f.id \in PageIds
           /\ f.t = "CLOSE" => f.left \in Times
BY DEF ToPageFrames

\* onPeerMessage, onPeerAckReqMessage
LEMMA PageHearsDoes ==
    ASSUME NEW p, PageStart(p), ~p.life.ended, NEW f, f.id \in ServerIds, f.ack \in BOOLEAN
    PROVE  PageHears(p, Hear(p, f), f)
<1> DEFINE g == Append(p.got, f.id)
           a == IF f.ack THEN p.answering \cup {f.id} ELSE p.answering
           q == [p EXCEPT !.got = g, !.answering = a]
<1>1. p \in PageRecs /\ p.out = <<>>
  BY DEF PageStart, PageOK, PageTyped
<1>2. g \in Seq(ServerIds) /\ a \subseteq ServerIds
  BY <1>1, AppendProperties DEF PageRecs
<1>3. Hear(p, f) = q
  BY <1>1 DEF Hear, PageRecs
<1> HIDE DEF g, a
<1>4. /\ q \in PageRecs /\ q.phase = p.phase /\ q.life = p.life /\ q.sent = p.sent /\ q.got = g
      /\ q.asked = p.asked /\ q.promise = p.promise /\ q.pendingAcks = p.pendingAcks /\ q.out = <<>>
  BY <1>1, <1>2 DEF PageRecs
<1> HIDE DEF q
<1>5. Pending(q) = Pending(p)
  BY <1>4 DEF Pending
<1>6. PageOK(q)
  BY <1>4, <1>5 DEF PageStart, PageOK, PageTyped
<1> QED BY <1>3, <1>4, <1>6 DEF PageHears, g

\* onPeerCloseAck
LEMMA PageIsAckedDoes ==
    ASSUME NEW p, PageStart(p)
    PROVE  PageIsAcked(p, [p EXCEPT !.life = CloseAckReceived(@)])
<1> DEFINE g == CloseAckReceived(p.life)
           q == [p EXCEPT !.life = g]
<1>1. p \in PageRecs /\ p.out = <<>> /\ AtRest(p.life)
  BY DEF PageStart, PageOK, PageTyped
<1>2. /\ AtRest(g) /\ g.acked /\ ~g.awaiting
      /\ g.requested = p.life.requested /\ g.ended = p.life.ended
      /\ g.fired = p.life.fired /\ (g.run = "none") = (p.life.run = "none")
  BY <1>1, AckRests
<1>3. [p EXCEPT !.life = CloseAckReceived(@)] = q
  BY <1>1 DEF PageRecs
<1> HIDE DEF g
<1>4. /\ q \in PageRecs /\ q.phase = p.phase /\ q.life = g /\ q.sent = p.sent /\ q.got = p.got
      /\ q.asked = p.asked /\ q.promise = p.promise /\ q.pendingAcks = p.pendingAcks /\ q.out = <<>>
  BY <1>1, <1>2 DEF PageRecs, AtRest
<1> HIDE DEF q
<1>5. Pending(q) = Pending(p)
  BY <1>4 DEF Pending
<1>6. PageOK(q)
  BY <1>2, <1>4, <1>5 DEF PageStart, PageOK, PageTyped
<1> QED BY <1>2, <1>3, <1>4, <1>6 DEF PageIsAcked

\* _onEnded
LEMMA PageIsEndedDoes ==
    ASSUME NEW p, PageStart(p), NEW err \in Errors, err # "none"
    PROVE  LET q == PageIsEnded(p, err) IN
           /\ PageGoes(p, q, <<>>, FALSE) /\ (~p.life.acked => PageClean(p, q)) /\ q.phase = "ended"
<1>1. p \in PageRecs /\ p.out = <<>> /\ AtRest(p.life)
  BY DEF PageStart, PageOK, PageTyped
<1>2. CASE p.life.ended
  <2>1. PageIsEnded(p, err) = p
    BY <1>2 DEF PageIsEnded, PageEnd
  <2> QED BY <1>1, <1>2, <2>1 DEF PageStart, PageGoes, PageClean, PageQuiet, PageOK, AtRest
<1>3. CASE ~p.life.ended
  <2> DEFINE e == IF p.life.acked THEN "none" ELSE err
             q == PageEnd(p, e)
  <2>1. e \in Errors /\ (~p.life.acked => e # "none")
    BY DEF Errors
  <2>2. PageIsEnded(p, err) = q
    BY DEF PageIsEnded
  <2> HIDE DEF e
  <2>3. PageGoes(p, q, p.out, FALSE) /\ (e # "none" => PageClean(p, q)) /\ q.phase = "ended"
    BY <1>1, <1>3, <2>1, PageEndGoes DEF PageRecs
  <2> QED BY <1>1, <2>1, <2>2, <2>3
<1> QED BY <1>2, <1>3

\* A frame is read: _dispatchFrame.
PageReadsOf(p, q, f) ==
    \/ p.life.ended /\ q = p
    \/ ~p.life.ended /\ f.t = "MESSAGE" /\ PageHears(p, q, f)
    \/ ~p.life.ended /\ f.t = "ACK_RES" /\ PageGoes(p, q, <<>>, FALSE) /\ PageClean(p, q)
    \/ ~p.life.ended /\ f.t = "CLOSE" /\ PageGoes(p, q, <<Ctrl("CLOSE_ACK")>>, TRUE) /\ PageClean(p, q)
       /\ q.phase # "open"
    \/ ~p.life.ended /\ f.t = "CLOSE_ACK" /\ PageIsAcked(p, q)
    \/ ~p.life.ended /\ f.t \in {"ABORT", "ERROR"} /\ PageGoes(p, q, <<>>, FALSE)
       /\ (~p.life.acked => PageClean(p, q)) /\ q.phase = "ended"

\* Of each kind of frame, what reading it does to the page's end.
LEMMA PageTakesDoes ==
    ASSUME NEW p, PageStart(p), NEW f \in ToPageFrames
    PROVE  PageReadsOf(p, PageTakes(p, f), f)
<1> DEFINE q == PageTakes(p, f)
<1>1. CASE p.life.ended
  BY <1>1 DEF PageTakes, PageReadsOf
<1>2. CASE ~p.life.ended /\ f.t = "MESSAGE"
  <2>1. q = Hear(p, f)
    BY <1>2 DEF PageTakes
  <2> QED BY <1>2, <2>1, PageHearsDoes, PageFrameIs DEF PageReadsOf
<1>3. CASE ~p.life.ended /\ f.t = "ACK_RES"
  <2>1. q = TakeAckRes(p, f)
    BY <1>3 DEF PageTakes
  <2> QED BY <1>3, <2>1, PageTakesAckRes DEF PageReadsOf
<1>4. CASE ~p.life.ended /\ f.t = "CLOSE"
  <2>1. q = PageTakesClose(p, f.left)
    BY <1>4 DEF PageTakes
  <2> QED BY <1>4, <2>1, PageTakesCloseDoes, PageFrameIs DEF PageReadsOf
<1>5. CASE ~p.life.ended /\ f.t = "CLOSE_ACK"
  <2>1. q = [p EXCEPT !.life = CloseAckReceived(@)]
    BY <1>5 DEF PageTakes
  <2> QED BY <1>5, <2>1, PageIsAckedDoes DEF PageReadsOf
<1>6. CASE ~p.life.ended /\ f.t = "ABORT"
  <2>1. q = PageIsEnded(p, "abort") /\ "abort" \in Errors /\ "abort" # "none"
    BY <1>6 DEF PageTakes, Errors
  <2> QED BY <1>6, <2>1, PageIsEndedDoes DEF PageReadsOf
<1>7. CASE ~p.life.ended /\ f.t = "ERROR"
  <2>1. q = PageIsEnded(p, "error") /\ "error" \in Errors /\ "error" # "none"
    BY <1>7 DEF PageTakes, Errors
  <2> QED BY <1>7, <2>1, PageIsEndedDoes DEF PageReadsOf
<1> QED BY <1>1, <1>2, <1>3, <1>4, <1>5, <1>6, <1>7, PageFrameIs

-----------------------------------------------------------------------------
(* What the offline buffer holds, and the promises of the sends in it *)

Holds(b, i) == \E e \in Entries(b) : e.id = i

\* An entry of queue k: it waits until the channel ends, and past it if it asked for no ack.
Held(e, k, f, ended, acks, asked) ==
    /\ f[e.id] = IF e.live THEN "pending" ELSE "failed"
    /\ e.ack = use.sends[e.id].ack /\ use.sends[e.id].kind = k
    /\ e.live = (~ended \/ ~e.ack)
    /\ e.id \notin acks /\ (e.ack => e.id \in asked)

\* Of each kind, the last ones of the n that were sent.
NoGap(b, n) ==
    \A k \in QueueKinds : \A i \in 1 .. Len(b.queue[k]) : \A j \in b.queue[k][i].id .. n :
        use.sends[j].kind = k => \E l \in 1 .. Len(b.queue[k]) : b.queue[k][l].id = j

\* Buffer b holds what waits of the n sends whose promises are f, but for the `acks` that went.
Holding(b, f, ended, acks, asked, n) ==
    /\ b \in Buffers /\ BufferSorted(b, n)
    /\ \A k \in QueueKinds : \A i \in 1 .. Len(b.queue[k]) :
          Held(b.queue[k][i], k, f, ended, acks, asked)
    /\ PendingOf(f) \subseteq acks \cup StillWaiting(b)
    /\ ~ended => NoGap(b, n)

\* What a buffer holds is what one of its queues has, at some place.
LEMMA HoldsIs ==
    ASSUME NEW b \in Buffers
    PROVE  /\ \A x : Holds(b, x) <=> \E k \in QueueKinds : \E i \in 1 .. Len(b.queue[k]) : b.queue[k][i].id = x
           /\ \A x : x \in StillWaiting(b) <=>
                 \E k \in QueueKinds : \E i \in 1 .. Len(b.queue[k]) :
                    b.queue[k][i].live /\ b.queue[k][i].id = x
           /\ Entries(b) = {} <=> \A x : ~Holds(b, x)
<1>1. \A e : e \in Entries(b) <=> \E k \in QueueKinds : \E i \in 1 .. Len(b.queue[k]) : e = b.queue[k][i]
  BY EntriesAre
<1>2. \A x : Holds(b, x) <=> \E k \in QueueKinds : \E i \in 1 .. Len(b.queue[k]) : b.queue[k][i].id = x
  <2>1. ASSUME NEW x, Holds(b, x)
        PROVE  \E k \in QueueKinds : \E i \in 1 .. Len(b.queue[k]) : b.queue[k][i].id = x
    <3>1. PICK e \in Entries(b) : e.id = x
      BY <2>1 DEF Holds
    <3> QED BY <1>1, <3>1
  <2>2. ASSUME NEW x, NEW k \in QueueKinds, NEW i \in 1 .. Len(b.queue[k]), b.queue[k][i].id = x
        PROVE  Holds(b, x)
    <3>1. b.queue[k][i] \in Entries(b)
      BY <1>1
    <3> QED BY <2>2, <3>1 DEF Holds
  <2> QED BY <2>1, <2>2
<1>3. \A x : x \in StillWaiting(b) <=> \E e \in Entries(b) : e.live /\ e.id = x
  BY Zenon DEF StillWaiting
<1>4. ASSUME NEW x
      PROVE  (\E e \in Entries(b) : e.live /\ e.id = x) <=>
                 \E k \in QueueKinds : \E i \in 1 .. Len(b.queue[k]) :
                    b.queue[k][i].live /\ b.queue[k][i].id = x
  BY <1>1, ZenonT(180)
<1>5. Entries(b) = {} <=> \A x : ~Holds(b, x)
  BY DEF Holds
<1> QED BY <1>2, <1>3, <1>4, <1>5, Zenon

\* An empty buffer holds nothing that waits: all it held was told.
LEMMA HoldEmptied ==
    ASSUME NEW b, NEW f \in [ServerIds -> States], NEW ended \in BOOLEAN, NEW acks, NEW asked,
           NEW n \in Nat, 1 .. n \subseteq ServerIds, Holding(b, f, ended, acks, asked, n),
           NEW later \in BOOLEAN
    PROVE  LET g == Settled(f, StillWaiting(b) \ StillWaiting(EmptyBuffer), "failed") IN
           /\ g \in [ServerIds -> States] /\ Holding(EmptyBuffer, g, later, acks, asked, n)
           /\ PendingOf(g) \subseteq PendingOf(f)
           /\ \A i \in ServerIds : f[i] = "failed" => g[i] = "failed"
           /\ \A i : Holds(b, i) => g[i] = "failed"
<1> DEFINE ids == StillWaiting(b) \ StillWaiting(EmptyBuffer)
           g == Settled(f, ids, "failed")
<1>1. ids = StillWaiting(b)
  BY EmptyBufferIs
<1>2. /\ g \in [ServerIds -> States] /\ PendingOf(g) = PendingOf(f) \ ids
      /\ \A i \in ServerIds : /\ f[i] # "pending" \/ i \notin ids => g[i] = f[i]
                              /\ f[i] = "pending" /\ i \in ids => g[i] = "failed"
  <2> HIDE DEF ids
  <2> QED BY SettledDoes
<1> HIDE DEF g, ids
<1>3. PendingOf(g) \subseteq acks
  BY <1>1, <1>2 DEF Holding
<1>4. \A i \in ServerIds : f[i] = "failed" => g[i] = "failed"
  BY <1>2
<1>5. ASSUME NEW x, Holds(b, x) PROVE g[x] = "failed"
  <2>1. b \in Buffers
    BY DEF Holding
  <2>2. PICK k \in QueueKinds : \E j \in 1 .. Len(b.queue[k]) : b.queue[k][j].id = x
    BY <1>5, <2>1, HoldsIs
  <2>7. PICK i \in 1 .. Len(b.queue[k]) : b.queue[k][i].id = x
    BY <2>2
  <2> DEFINE e == b.queue[k][i]
  <2>3. Held(e, k, f, ended, acks, asked) /\ e.id \in 1 .. n /\ e \in BufferEntries
    BY <2>1, EntriesAre DEF Holding, BufferSorted
  <2>4. x \in ServerIds
    BY <2>3, <2>7
  <2>5. e.live => x \in ids
    BY <1>1, <2>1, <2>7, HoldsIs
  <2>6. f[x] = IF e.live THEN "pending" ELSE "failed"
    BY <2>3, <2>7 DEF Held
  <2> HIDE DEF e
  <2> QED BY <1>2, <2>4, <2>5, <2>6
<1>6. Holding(EmptyBuffer, g, later, acks, asked, n)
  <2>1. \A k \in QueueKinds : Len(EmptyBuffer.queue[k]) = 0
    BY EmptyBufferIs
  <2>2. \A i : i \notin 1 .. 0
    OBVIOUS
  <2>3. NoGap(EmptyBuffer, n)
    BY <2>1, <2>2 DEF NoGap
  <2> QED BY <1>3, <2>1, <2>2, <2>3, EmptyBufferIs DEF Holding
<1> QED BY <1>2, <1>4, <1>5, <1>6 DEF g, ids

\* Once the channel ended, what asked for an ack waits no longer (rejectAcks, shutdown).
LEMMA HoldRejected ==
    ASSUME NEW b, NEW f \in [ServerIds -> States], NEW acks, NEW asked,
           NEW n \in Nat, 1 .. n \subseteq ServerIds, Holding(b, f, FALSE, acks, asked, n)
    PROVE  LET c == RejectAcks(b)
               g == Settled(f, StillWaiting(b) \ StillWaiting(c), "failed")
               h == Settled(g, acks, "failed") IN
           /\ c \in Buffers /\ g \in [ServerIds -> States] /\ h \in [ServerIds -> States]
           /\ Holding(c, h, TRUE, {}, asked, n)
           /\ PendingOf(h) \subseteq PendingOf(f)
           /\ \A i \in ServerIds : f[i] = "failed" => h[i] = "failed"
           /\ \A i : Holds(c, i) <=> Holds(b, i)
<1> DEFINE c == RejectAcks(b)
           ids == StillWaiting(b) \ StillWaiting(c)
           g == Settled(f, ids, "failed")
           h == Settled(g, acks, "failed")
<1>1. b \in Buffers /\ BufferSorted(b, n)
  BY DEF Holding
<1>2. /\ c \in Buffers /\ c.next = b.next
      /\ \A k \in QueueKinds : /\ Len(c.queue[k]) = Len(b.queue[k])
                               /\ \A i \in 1 .. Len(b.queue[k]) : c.queue[k][i] = Rejected(b.queue[k][i])
      /\ \A e \in BufferEntries : /\ Rejected(e) \in BufferEntries
                                  /\ Rejected(e).id = e.id /\ Rejected(e).order = e.order
                                  /\ Rejected(e).ack = e.ack /\ Rejected(e).live = (e.live /\ ~e.ack)
  BY <1>1, RejectDoes
<1> HIDE DEF c
<1>3. \A k \in QueueKinds : \A i \in 1 .. Len(b.queue[k]) :
         /\ b.queue[k][i] \in BufferEntries /\ c.queue[k][i] \in BufferEntries
         /\ c.queue[k][i].id = b.queue[k][i].id /\ c.queue[k][i].order = b.queue[k][i].order
         /\ c.queue[k][i].ack = b.queue[k][i].ack
         /\ c.queue[k][i].live = (b.queue[k][i].live /\ ~b.queue[k][i].ack)
         /\ b.queue[k][i].id \in 1 .. n /\ b.queue[k][i].id \in ServerIds
  <2>1. TAKE k \in QueueKinds
  <2>2. TAKE i \in 1 .. Len(b.queue[k])
  <2> DEFINE e == b.queue[k][i]
  <2>3. e \in BufferEntries
    BY <1>1, EntriesAre
  <2>4. c.queue[k][i] = Rejected(e)
    BY <1>2
  <2>5. e.id \in 1 .. n
    BY <1>1 DEF BufferSorted
  <2> HIDE DEF e
  <2>6. /\ Rejected(e) \in BufferEntries /\ Rejected(e).id = e.id /\ Rejected(e).order = e.order
        /\ Rejected(e).ack = e.ack /\ Rejected(e).live = (e.live /\ ~e.ack)
    BY <1>2, <2>3
  <2>7. e.id \in ServerIds
    BY <2>5
  <2> QED BY <2>3, <2>4, <2>5, <2>6, <2>7 DEF e
<1>4. /\ g \in [ServerIds -> States] /\ PendingOf(g) = PendingOf(f) \ ids
      /\ \A i \in ServerIds : /\ f[i] # "pending" \/ i \notin ids => g[i] = f[i]
                              /\ f[i] = "pending" /\ i \in ids => g[i] = "failed"
  <2> HIDE DEF ids
  <2> QED BY SettledDoes
<1> HIDE DEF g
<1>5. /\ h \in [ServerIds -> States] /\ PendingOf(h) = PendingOf(g) \ acks
      /\ \A i \in ServerIds : /\ g[i] # "pending" \/ i \notin acks => h[i] = g[i]
                              /\ g[i] = "pending" /\ i \in acks => h[i] = "failed"
  BY <1>4, SettledDoes
<1> HIDE DEF h
<1>6. BufferSorted(c, n)
  <2>1. "text" \in QueueKinds /\ "binary" \in QueueKinds
    BY DEF QueueKinds
  <2>2. \A k \in QueueKinds : Sorted(c.queue[k])
    BY <1>1, <1>2, <1>3 DEF BufferSorted, Sorted
  <2>3. SortedAcross(c.queue["text"], c.queue["binary"])
    <3>1. SortedAcross(b.queue["text"], b.queue["binary"])
      BY <1>1 DEF BufferSorted
    <3> QED BY <1>2, <1>3, <2>1, <3>1, SMTT(180) DEF SortedAcross
  <2>4. \A k \in QueueKinds : \A i \in 1 .. Len(c.queue[k]) :
          c.queue[k][i].order < c.next /\ c.queue[k][i].id \in 1 .. n
    BY <1>1, <1>2, <1>3, SMTT(180) DEF BufferSorted
  <2> QED BY <2>2, <2>3, <2>4 DEF BufferSorted
<1>7. \A k \in QueueKinds : \A i \in 1 .. Len(b.queue[k]) : Held(b.queue[k][i], k, f, FALSE, acks, asked)
  BY DEF Holding
<1>8. \A k \in QueueKinds : \A i \in 1 .. Len(b.queue[k]) :
         /\ b.queue[k][i].live /\ b.queue[k][i].id \in StillWaiting(b)
         /\ f[b.queue[k][i].id] = "pending"
         /\ b.queue[k][i].ack = use.sends[b.queue[k][i].id].ack
         /\ (b.queue[k][i].id \in StillWaiting(c) <=> ~b.queue[k][i].ack)
  <2>1. SUFFICES ASSUME NEW k \in QueueKinds, NEW i \in 1 .. Len(b.queue[k])
        PROVE /\ b.queue[k][i].live /\ b.queue[k][i].id \in StillWaiting(b)
              /\ f[b.queue[k][i].id] = "pending"
              /\ b.queue[k][i].ack = use.sends[b.queue[k][i].id].ack
              /\ (b.queue[k][i].id \in StillWaiting(c) <=> ~b.queue[k][i].ack)
    OBVIOUS
  <2> DEFINE e == b.queue[k][i]
  <2>2. e \in BufferEntries /\ e.live /\ f[e.id] = "pending" /\ e.ack = use.sends[e.id].ack
    <3>1. Held(e, k, f, FALSE, acks, asked) /\ e \in BufferEntries
      BY <1>3, <1>7
    <3> HIDE DEF e
    <3> QED BY <3>1 DEF Held
  <2>3. e.id \in StillWaiting(b)
    BY <1>1, <2>2, HoldsIs
  <2>4. ASSUME ~e.ack PROVE e.id \in StillWaiting(c)
    <3>1. c.queue[k][i].live /\ c.queue[k][i].id = e.id
      BY <1>3, <2>2, <2>4
    <3>2. i \in 1 .. Len(c.queue[k])
      BY <1>2
    <3> QED BY <1>2, <3>1, <3>2, HoldsIs
  <2>5. ASSUME e.id \in StillWaiting(c) PROVE ~e.ack
    <3>5. PICK m \in QueueKinds :
              \E j \in 1 .. Len(c.queue[m]) : c.queue[m][j].live /\ c.queue[m][j].id = e.id
      BY <1>2, <2>5, HoldsIs, ZenonT(180)
    <3>1. PICK j \in 1 .. Len(c.queue[m]) : c.queue[m][j].live /\ c.queue[m][j].id = e.id
      BY <3>5
    <3>2. j \in 1 .. Len(b.queue[m])
      BY <1>2
    <3>3. ~b.queue[m][j].ack /\ b.queue[m][j].id = e.id
      BY <1>3, <3>1, <3>2
    <3>4. b.queue[m][j].ack = use.sends[e.id].ack
      BY <1>7, <3>2, <3>3, SMTT(180) DEF Held
    <3> QED BY <2>2, <3>3, <3>4
  <2> QED BY <2>2, <2>3, <2>4, <2>5
<1>9. ASSUME NEW k \in QueueKinds, NEW i \in 1 .. Len(c.queue[k])
      PROVE  Held(c.queue[k][i], k, h, TRUE, {}, asked)
  <2>1. i \in 1 .. Len(b.queue[k])
    BY <1>2
  <2>2. PICK e \in BufferEntries, d \in BufferEntries : e = b.queue[k][i] /\ d = c.queue[k][i]
    BY <1>3, <2>1
  <2>3. /\ d.id = e.id /\ d.ack = e.ack /\ d.live = (e.live /\ ~e.ack) /\ e.id \in ServerIds
        /\ e.live /\ e.id \in StillWaiting(b) /\ f[e.id] = "pending"
        /\ (e.id \in StillWaiting(c) <=> ~e.ack)
    BY <1>3, <1>8, <2>1, <2>2
  <2>4. /\ e.ack = use.sends[e.id].ack /\ use.sends[e.id].kind = k /\ e.id \notin acks
        /\ (e.ack => e.id \in asked)
    BY <1>7, <2>1, <2>2 DEF Held
  <2>5. e.id \in ids <=> e.ack
    BY <2>3
  <2>6. e.ack \in BOOLEAN /\ e.live \in BOOLEAN
    BY DEF BufferEntries
  <2>7. h[e.id] = IF e.ack THEN "failed" ELSE "pending"
    <3> HIDE DEF ids
    <3>1. CASE e.ack
      BY <1>4, <1>5, <2>3, <2>5, <3>1
    <3>2. CASE ~e.ack
      BY <1>4, <1>5, <2>3, <2>4, <2>5, <3>2
    <3> QED BY <3>1, <3>2
  <2>8. Held(d, k, h, TRUE, {}, asked)
    BY <2>3, <2>4, <2>6, <2>7 DEF Held
  <2> QED BY <2>2, <2>8
<1>10. PendingOf(h) \subseteq StillWaiting(c)
  <2>1. PendingOf(f) \subseteq acks \cup StillWaiting(b)
    BY DEF Holding
  <2> QED BY <1>4, <1>5, <2>1
<1>11. PendingOf(h) \subseteq PendingOf(f)
  BY <1>4, <1>5
<1>12. \A i \in ServerIds : f[i] = "failed" => h[i] = "failed"
  BY <1>4, <1>5
<1>13. ASSUME NEW x PROVE Holds(c, x) <=> Holds(b, x)
  <2>1. Holds(c, x) <=> \E k \in QueueKinds : \E i \in 1 .. Len(c.queue[k]) : c.queue[k][i].id = x
    BY <1>2, HoldsIs
  <2>2. Holds(b, x) <=> \E k \in QueueKinds : \E i \in 1 .. Len(b.queue[k]) : b.queue[k][i].id = x
    BY <1>1, HoldsIs
  <2>3. \A k \in QueueKinds : Len(c.queue[k]) = Len(b.queue[k])
           /\ \A i \in 1 .. Len(b.queue[k]) : c.queue[k][i].id = b.queue[k][i].id
    BY <1>2, <1>3
  <2>4. ASSUME NEW k \in QueueKinds
        PROVE  (\E i \in 1 .. Len(c.queue[k]) : c.queue[k][i].id = x)
                   <=> \E i \in 1 .. Len(b.queue[k]) : b.queue[k][i].id = x
    BY <2>3
  <2> QED BY <2>1, <2>2, <2>4
<1>14. Holding(c, h, TRUE, {}, asked, n)
  BY <1>2, <1>6, <1>9, <1>10 DEF Holding
<1> QED BY <1>2, <1>4, <1>5, <1>11, <1>12, <1>13, <1>14 DEF c, g, h, ids

-----------------------------------------------------------------------------
(* The server's end *)

AckFrames == [t : {"ACK_RES"}, id : PageIds]
EndsOwed == [closeAck : BOOLEAN, closeRequest : BOOLEAN, abort : BOOLEAN, error : BOOLEAN]

ServerRecs ==
    [phase : Phases, life : Handshakes, sent : Nat, promise : [ServerIds -> States],
     asked : SUBSET ServerIds, pendingAcks : SUBSET ServerIds, answering : SUBSET PageIds,
     got : Seq(PageIds), out : Seq(ToPageFrames), registered : BOOLEAN, attached : BOOLEAN,
     buf : Buffers, ackRes : Seq(AckFrames), pendingEnd : EndsOwed, seq : Nat,
     seqOf : [ServerIds -> Nat], pageSeq : Nat, closeSeq : Nat, pageClosed : BOOLEAN,
     released : BOOLEAN]

\* The server's end in the middle of a handler.
ServerTyped(s) ==
    /\ s \in ServerRecs /\ s.sent <= Len(use.sends)
    /\ s.pendingAcks \subseteq s.asked
    /\ s.asked \subseteq {i \in 1 .. s.sent : use.sends[i].ack}
    /\ s.pageSeq <= s.seq /\ s.closeSeq <= s.seq /\ \A i \in ServerIds : s.seqOf[i] <= s.seq
    /\ ~s.pendingEnd.closeAck /\ ~s.pendingEnd.error
ServerBuffered(s) ==
    Holding(s.buf, s.promise, s.phase = "ended", s.pendingAcks, s.asked, s.sent)

\* ... and between its handlers.
ServerOK(s) ==
    /\ ServerTyped(s) /\ ServerBuffered(s) /\ AtRest(s.life)
    /\ s.phase = "ended" <=> s.life.ended
    /\ s.phase = "open" => s.life.run = "none"
    /\ s.phase = "ended" => s.pendingAcks = {}
    /\ s.attached => s.phase # "ended" /\ Entries(s.buf) = {}
    /\ s.pendingEnd.abort => s.phase = "ended"
    /\ s.pendingEnd.closeRequest => s.phase # "open"
    /\ s.released => s.phase = "ended" /\ Entries(s.buf) = {}

\* What the buffer and the promises in it do not touch.
SameElse(r, t) ==
    /\ t.sent = r.sent /\ t.asked = r.asked /\ t.answering = r.answering /\ t.got = r.got
    /\ t.out = r.out /\ t.registered = r.registered /\ t.seq = r.seq /\ t.seqOf = r.seqOf
    /\ t.pageSeq = r.pageSeq /\ t.closeSeq = r.closeSeq /\ t.pageClosed = r.pageClosed

\* t is r but for what it no longer keeps: messages neither sent nor heard, none lost untold.
Keeps(r, t) ==
    /\ SameElse(r, t)
    /\ Pending(t) \subseteq Pending(r)
    /\ \A i \in ServerIds : r.promise[i] = "failed" => t.promise[i] = "failed"
    /\ \A i : Holds(t.buf, i) => Holds(r.buf, i)
    /\ \A i \in ServerIds : Holds(r.buf, i) => Holds(t.buf, i) \/ t.promise[i] = "failed"
    /\ t.life.acked = r.life.acked /\ t.life.requested = r.life.requested
    /\ t.pendingEnd.abort => r.pendingEnd.abort

\* WithBuffer, of what leaves the buffer.
LEMMA WithBufferDoes ==
    ASSUME NEW r \in ServerRecs, NEW c \in Buffers
    PROVE  LET t == WithBuffer(r, c)
               g == Settled(r.promise, StillWaiting(r.buf) \ StillWaiting(c), "failed") IN
           /\ t \in ServerRecs /\ SameElse(r, t) /\ t.buf = c /\ t.promise = g
           /\ t.life = NotifyProgress(r.life) /\ t.phase = r.phase /\ t.pendingAcks = r.pendingAcks
           /\ t.attached = r.attached /\ t.ackRes = r.ackRes /\ t.pendingEnd = r.pendingEnd
           /\ t.released = r.released
<1> DEFINE ids == StillWaiting(r.buf) \ StillWaiting(c)
           g == Settled(r.promise, ids, "failed")
           h == NotifyProgress(r.life)
           t == [r EXCEPT !.buf = c, !.promise = g, !.life = h]
<1>1. g \in [ServerIds -> States]
  <2>1. r.promise \in [ServerIds -> States]
    BY DEF ServerRecs
  <2> HIDE DEF ids
  <2> QED BY <2>1, SettledDoes
<1>2. h \in Handshakes
  BY NotifyDoes DEF ServerRecs
<1>3. WithBuffer(r, c) = t
  BY DEF WithBuffer, Progress, Settle, Settled, ServerRecs
<1> HIDE DEF g, h
<1>4. /\ t \in ServerRecs /\ t.buf = c /\ t.promise = g /\ t.life = h
  BY <1>1, <1>2 DEF ServerRecs
<1>5. /\ SameElse(r, t) /\ t.phase = r.phase /\ t.pendingAcks = r.pendingAcks
      /\ t.attached = r.attached /\ t.ackRes = r.ackRes /\ t.pendingEnd = r.pendingEnd
      /\ t.released = r.released
  BY DEF ServerRecs, SameElse
<1> QED BY <1>3, <1>4, <1>5 DEF g, h, ids

\* What ended is rid of what asked for an ack.
LEMMA EndedNone ==
    ASSUME NEW s, ServerTyped(s), ServerBuffered(s), s.phase = "ended", s.pendingAcks = {}
    PROVE  s.asked \cap Pending(s) = {} /\ (Entries(s.buf) = {} => Pending(s) = {})
<1>1. /\ s.buf \in Buffers /\ PendingOf(s.promise) \subseteq StillWaiting(s.buf)
      /\ \A k \in QueueKinds : \A i \in 1 .. Len(s.buf.queue[k]) :
            Held(s.buf.queue[k][i], k, s.promise, TRUE, {}, s.asked)
  BY DEF ServerBuffered, Holding
<1>2. Pending(s) = PendingOf(s.promise)
  BY DEF Pending, PendingOf
<1>3. ASSUME NEW x \in s.asked, x \in Pending(s) PROVE FALSE
  <2>1. PICK k \in QueueKinds : \E i \in 1 .. Len(s.buf.queue[k]) :
               s.buf.queue[k][i].live /\ s.buf.queue[k][i].id = x
    BY <1>1, <1>2, <1>3, HoldsIs
  <2>2. PICK i \in 1 .. Len(s.buf.queue[k]) : s.buf.queue[k][i].live /\ s.buf.queue[k][i].id = x
    BY <2>1
  <2>3. ~s.buf.queue[k][i].ack /\ s.buf.queue[k][i].ack = use.sends[x].ack
    BY <1>1, <2>2 DEF Held
  <2>4. use.sends[x].ack
    BY <1>3 DEF ServerTyped
  <2> QED BY <2>3, <2>4
<1>4. ASSUME Entries(s.buf) = {} PROVE Pending(s) = {}
  <2>1. StillWaiting(s.buf) = {}
    BY <1>4 DEF StillWaiting
  <2> QED BY <1>1, <1>2, <2>1
<1> QED BY <1>3, <1>4

\* _release
LEMMA ReleaseDoes ==
    ASSUME NEW r \in ServerRecs
    PROVE  LET t == Release(r)
               g == Settled(r.promise, StillWaiting(r.buf) \ StillWaiting(EmptyBuffer), "failed") IN
           /\ t \in ServerRecs /\ SameElse(r, t) /\ t.buf = EmptyBuffer /\ t.promise = g
           /\ t.life = NotifyProgress(r.life) /\ t.phase = r.phase /\ t.pendingAcks = r.pendingAcks
           /\ t.attached = r.attached /\ t.ackRes = <<>> /\ t.pendingEnd = NoPendingEnd
           /\ t.released
<1> DEFINE w == WithBuffer(r, EmptyBuffer)
           g == Settled(r.promise, StillWaiting(r.buf) \ StillWaiting(EmptyBuffer), "failed")
           t == [w EXCEPT !.released = TRUE, !.ackRes = <<>>, !.pendingEnd = NoPendingEnd]
<1>1. /\ w \in ServerRecs /\ SameElse(r, w) /\ w.buf = EmptyBuffer /\ w.promise = g
      /\ w.life = NotifyProgress(r.life) /\ w.phase = r.phase /\ w.pendingAcks = r.pendingAcks
      /\ w.attached = r.attached
  BY EmptyBufferIs, WithBufferDoes
<1> HIDE DEF w, g
<1>2. NoPendingEnd \in EndsOwed /\ <<>> \in Seq(AckFrames)
  BY DEF NoPendingEnd, EndsOwed
<1>3. /\ t \in ServerRecs /\ t.buf = w.buf /\ t.promise = w.promise /\ t.life = w.life
      /\ t.phase = w.phase /\ t.pendingAcks = w.pendingAcks /\ t.attached = w.attached
      /\ t.ackRes = <<>> /\ t.pendingEnd = NoPendingEnd /\ t.released
  BY <1>1, <1>2 DEF ServerRecs
<1>4. SameElse(w, t)
  BY <1>1 DEF ServerRecs, SameElse
<1>5. SameElse(r, t)
  BY <1>1, <1>4 DEF SameElse
<1>6. Release(r) = t
  BY DEF Release, w
<1> HIDE DEF t
<1> QED BY <1>1, <1>3, <1>5, <1>6 DEF g

\* What was sent is numbered among the server's messages.
LEMMA IdsSent ==
    ASSUME NEW s, ServerTyped(s), use \in Uses
    PROVE  s.sent \in Nat /\ 1 .. s.sent \subseteq ServerIds
<1>1. s.sent \in Nat /\ s.sent <= Len(use.sends)
  BY DEF ServerTyped, ServerRecs
<1> QED BY <1>1, IdsFinite

\* What is kept of what was kept is kept.
LEMMA KeepsOn ==
    ASSUME NEW r, NEW s, NEW t, Keeps(r, s), Keeps(s, t)
    PROVE  Keeps(r, t)
<1>1. SameElse(r, t)
  BY DEF Keeps, SameElse
<1>2. \A i \in ServerIds : Holds(r.buf, i) => Holds(t.buf, i) \/ t.promise[i] = "failed"
  BY DEF Keeps
<1> QED BY <1>1, <1>2 DEF Keeps

\* shutdown, of a channel that has not ended
LEMMA ShutdownDoes ==
    ASSUME NEW r, ServerTyped(r), ServerBuffered(r), r.phase # "ended", ~r.released, use \in Uses,
           NEW err \in Errors, NEW gone \in BOOLEAN
    PROVE  LET t == Shutdown(r, err, gone) IN
           /\ ServerOK(t) /\ Keeps(r, t) /\ t.phase = "ended" /\ t.life.ended /\ t.life.error = err
           /\ t.attached = FALSE
<1> DEFINE l == Terminate(r.life, err)
           e == [r EXCEPT !.phase = "ended", !.life = l, !.attached = FALSE]
           let == gone \/ PageNeedsNothing(e)
           k == IF let THEN Release(e) ELSE e
           c == RejectAcks(k.buf)
           w == WithBuffer(k, c)
           h == Settled(w.promise, k.pendingAcks, "failed")
           t == [w EXCEPT !.promise = h, !.pendingAcks = {}]
<1>1. /\ r \in ServerRecs /\ r.life \in Handshakes /\ r.promise \in [ServerIds -> States]
      /\ r.sent \in Nat /\ 1 .. r.sent \subseteq ServerIds
      /\ ~r.pendingEnd.closeAck /\ ~r.pendingEnd.error
  BY IdsSent DEF ServerTyped, ServerRecs
<1>2. /\ AtRest(l) /\ l.ended /\ l.error = err /\ l.acked = r.life.acked /\ l.run = "done"
      /\ l.requested = r.life.requested
  BY <1>1, TerminateDoes
<1>3. NotifyProgress(l) = l
  BY <1>2 DEF NotifyProgress
<1> HIDE DEF l
<1>4. /\ e \in ServerRecs /\ SameElse(r, e) /\ e.phase = "ended" /\ e.life = l /\ ~e.attached
      /\ e.buf = r.buf /\ e.promise = r.promise /\ e.pendingAcks = r.pendingAcks
      /\ e.pendingEnd = r.pendingEnd /\ ~e.released
  <2>1. e \in ServerRecs /\ e.phase = "ended" /\ e.life = l /\ ~e.attached
    BY <1>1, <1>2 DEF ServerRecs, AtRest, Phases
  <2>2. /\ SameElse(r, e) /\ e.buf = r.buf /\ e.promise = r.promise /\ e.pendingAcks = r.pendingAcks
        /\ e.pendingEnd = r.pendingEnd /\ ~e.released
    BY <1>1 DEF ServerRecs, SameElse
  <2> QED BY <2>1, <2>2
<1>5. Shutdown(r, err, gone) = t
  <2>1. w.pendingAcks = k.pendingAcks /\ w \in ServerRecs
    <3>1. k \in ServerRecs
      <4> HIDE DEF e, let
      <4> QED BY <1>4, ReleaseDoes
    <3>2. k.buf \in Buffers
      <4> HIDE DEF k
      <4> QED BY <3>1 DEF ServerRecs
    <3> HIDE DEF k
    <3>3. c \in Buffers
      BY <3>2, RejectDoes
    <3> HIDE DEF c
    <3> QED BY <3>1, <3>3, WithBufferDoes
  <2>2. Shutdown(r, err, gone) = [Settle(w, k.pendingAcks, "failed") EXCEPT !.pendingAcks = {}]
    BY DEF Shutdown, l
  <2> HIDE DEF k, c, w
  <2>3. Settle(w, k.pendingAcks, "failed") = [w EXCEPT !.promise = h]
    BY <2>1 DEF Settle, Settled, ServerRecs
  <2> HIDE DEF h
  <2> QED BY <2>1, <2>2, <2>3 DEF ServerRecs
<1> HIDE DEF e, let
<1>6. /\ k \in ServerRecs /\ SameElse(r, k) /\ k.phase = "ended" /\ k.life = l /\ ~k.attached
      /\ k.pendingAcks = r.pendingAcks
      /\ Holding(k.buf, k.promise, FALSE, r.pendingAcks, r.asked, r.sent)
      /\ PendingOf(k.promise) \subseteq PendingOf(r.promise)
      /\ \A i \in ServerIds : r.promise[i] = "failed" => k.promise[i] = "failed"
      /\ \A i : Holds(k.buf, i) => Holds(r.buf, i)
      /\ \A i \in ServerIds : Holds(r.buf, i) => Holds(k.buf, i) \/ k.promise[i] = "failed"
      /\ k.pendingEnd.abort => r.pendingEnd.abort
      /\ ~k.pendingEnd.closeAck /\ ~k.pendingEnd.error
      /\ k.released => Entries(k.buf) = {}
  <2>1. CASE ~let
    <3>1. k = e
      BY <2>1
    <3>2. Holding(r.buf, r.promise, FALSE, r.pendingAcks, r.asked, r.sent)
      BY DEF ServerBuffered
    <3> QED BY <1>1, <1>4, <3>1, <3>2
  <2>2. CASE let
    <3> DEFINE g == Settled(r.promise, StillWaiting(r.buf) \ StillWaiting(EmptyBuffer), "failed")
    <3>1. k = Release(e)
      BY <2>2
    <3>2. /\ k \in ServerRecs /\ SameElse(e, k) /\ k.buf = EmptyBuffer
          /\ k.promise = Settled(e.promise, StillWaiting(e.buf) \ StillWaiting(EmptyBuffer), "failed")
          /\ k.life = NotifyProgress(e.life) /\ k.phase = e.phase /\ k.pendingAcks = e.pendingAcks
          /\ k.attached = e.attached /\ k.pendingEnd = NoPendingEnd
      BY <1>4, <3>1, ReleaseDoes
    <3>3. k.promise = g
      BY <1>4, <3>2
    <3>4. Holding(r.buf, r.promise, FALSE, r.pendingAcks, r.asked, r.sent)
      BY DEF ServerBuffered
    <3>5. /\ Holding(EmptyBuffer, g, FALSE, r.pendingAcks, r.asked, r.sent)
          /\ PendingOf(g) \subseteq PendingOf(r.promise)
          /\ \A i \in ServerIds : r.promise[i] = "failed" => g[i] = "failed"
          /\ \A i : Holds(r.buf, i) => g[i] = "failed"
      BY <1>1, <3>4, HoldEmptied
    <3> HIDE DEF g, k
    <3>6. Entries(EmptyBuffer) = {} /\ \A i : ~Holds(EmptyBuffer, i)
      BY EmptyBufferIs, HoldsIs
    <3>7. ~NoPendingEnd.abort /\ ~NoPendingEnd.closeAck /\ ~NoPendingEnd.error
      BY DEF NoPendingEnd
    <3>8. SameElse(r, k) /\ k.life = l
      BY <1>3, <1>4, <3>2 DEF SameElse
    <3> QED BY <1>4, <3>2, <3>3, <3>5, <3>6, <3>7, <3>8
  <2> QED BY <2>1, <2>2
<1> HIDE DEF k
<1>7. /\ c \in Buffers /\ k.buf \in Buffers /\ k.promise \in [ServerIds -> States]
  <2>1. k.buf \in Buffers /\ k.promise \in [ServerIds -> States]
    BY <1>6 DEF ServerRecs
  <2> QED BY <2>1, RejectDoes
<1> DEFINE g == Settled(k.promise, StillWaiting(k.buf) \ StillWaiting(c), "failed")
<1>8. /\ w \in ServerRecs /\ SameElse(k, w) /\ w.buf = c /\ w.promise = g
      /\ w.life = NotifyProgress(k.life) /\ w.phase = k.phase /\ w.pendingAcks = k.pendingAcks
      /\ w.attached = k.attached /\ w.ackRes = k.ackRes /\ w.pendingEnd = k.pendingEnd
      /\ w.released = k.released
  <2> HIDE DEF c
  <2> QED BY <1>6, <1>7, WithBufferDoes, ZenonT(180)
<1>9. h = Settled(g, r.pendingAcks, "failed")
  <2> HIDE DEF w, g
  <2> QED BY <1>6, <1>8, Zenon
<1>10. /\ h \in [ServerIds -> States]
       /\ Holding(c, h, TRUE, {}, r.asked, r.sent)
       /\ PendingOf(h) \subseteq PendingOf(k.promise)
       /\ \A i \in ServerIds : k.promise[i] = "failed" => h[i] = "failed"
       /\ \A i : Holds(c, i) <=> Holds(k.buf, i)
  <2> HIDE DEF h
  <2> QED BY <1>1, <1>6, <1>7, <1>9, HoldRejected, ZenonT(180)
<1> HIDE DEF h, w, g, c
<1>11. /\ t \in ServerRecs /\ t.phase = "ended" /\ t.life = l /\ ~t.attached /\ t.pendingAcks = {}
       /\ t.buf = c /\ t.promise = h /\ t.pendingEnd = k.pendingEnd /\ t.released = k.released
  BY <1>3, <1>6, <1>8, <1>10, ZenonT(180) DEF ServerRecs
<1>12. SameElse(r, t)
  <2>1. SameElse(w, t)
    BY <1>8 DEF ServerRecs, SameElse
  <2> HIDE DEF t
  <2> QED BY <1>6, <1>8, <2>1 DEF SameElse
<1> HIDE DEF t
<1>13. Pending(t) \subseteq Pending(r)
  BY <1>6, <1>10, <1>11 DEF Pending, PendingOf
<1>14. Keeps(r, t)
  BY <1>2, <1>6, <1>10, <1>11, <1>12, <1>13 DEF Keeps
<1>15. ServerTyped(t) /\ ServerBuffered(t)
  <2>1. ServerTyped(t)
    BY <1>6, <1>11, <1>12 DEF ServerTyped, SameElse
  <2>2. ServerBuffered(t)
    BY <1>10, <1>11, <1>12 DEF ServerBuffered, SameElse
  <2> QED BY <2>1, <2>2
<1>16. t.released => Entries(t.buf) = {}
  BY <1>6, <1>7, <1>10, <1>11, HoldsIs
<1>17. ServerOK(t)
  BY <1>2, <1>11, <1>15, <1>16 DEF ServerOK
<1>18. t.attached = FALSE
  <2>1. t.attached \in BOOLEAN
    BY <1>11 DEF ServerRecs
  <2> QED BY <1>11, <2>1
<1> QED BY <1>2, <1>5, <1>11, <1>14, <1>17, <1>18

-----------------------------------------------------------------------------
(* What a queue of frames carries *)

Carries(q, t) == \E i \in 1 .. Len(q) : q[i].t = t
CarriesId(q, id) == \E i \in 1 .. Len(q) : q[i].t = "MESSAGE" /\ q[i].id = id

\* The frames of a close, behind which an end sends no message.
Finals == {"CLOSE", "CLOSE_ACK", "ABORT", "ERROR"}
CarriesFinal(q) == \E t \in Finals : Carries(q, t)

\* Messages go in the order of their ids, and none behind a close.
Ordered(q) ==
    \A i, j \in 1 .. Len(q) :
        i < j /\ q[j].t = "MESSAGE" =>
            q[i].t \notin Finals /\ (q[i].t = "MESSAGE" => q[i].id < q[j].id)

\* A queue without frames carries nothing.
LEMMA NoFrame ==
    /\ \A t : ~Carries(<<>>, t)
    /\ \A i : ~CarriesId(<<>>, i)
    /\ ~CarriesFinal(<<>>) /\ Ordered(<<>>) /\ Len(<<>>) = 0
<1>1. Len(<<>>) = 0 /\ \A i : i \notin 1 .. 0
  OBVIOUS
<1> QED BY <1>1 DEF Carries, CarriesId, CarriesFinal, Ordered

\* A queue of one frame carries that frame.
LEMMA OneFrame ==
    ASSUME NEW f
    PROVE  /\ \A t : Carries(<<f>>, t) <=> f.t = t
           /\ \A i : CarriesId(<<f>>, i) <=> f.t = "MESSAGE" /\ f.id = i
           /\ CarriesFinal(<<f>>) <=> f.t \in Finals
           /\ Ordered(<<f>>) /\ Len(<<f>>) = 1
<1> DEFINE q == <<f>>
<1>1. Len(q) = 1 /\ q[1] = f
  OBVIOUS
<1>2. \A i \in 1 .. 1 : i = 1
  OBVIOUS
<1>3. 1 \in 1 .. 1 /\ ~(1 < 1)
  OBVIOUS
<1> HIDE DEF q
<1>4. \A t : Carries(q, t) <=> f.t = t
  BY <1>1, <1>2, <1>3 DEF Carries
<1>5. \A i : CarriesId(q, i) <=> f.t = "MESSAGE" /\ f.id = i
  BY <1>1, <1>2, <1>3 DEF CarriesId
<1>6. CarriesFinal(q) <=> f.t \in Finals
  BY <1>4 DEF CarriesFinal
<1>7. Ordered(q)
  BY <1>1, <1>2, <1>3 DEF Ordered
<1> QED BY <1>1, <1>4, <1>5, <1>6, <1>7 DEF q

\* Two queues joined carry what both do, in order where the first has nothing later or final.
LEMMA JoinCarries ==
    ASSUME NEW S, NEW q \in Seq(S), NEW r \in Seq(S)
    PROVE  /\ q \o r \in Seq(S) /\ Len(q \o r) = Len(q) + Len(r)
           /\ \A t : Carries(q \o r, t) <=> Carries(q, t) \/ Carries(r, t)
           /\ \A i : CarriesId(q \o r, i) <=> CarriesId(q, i) \/ CarriesId(r, i)
           /\ CarriesFinal(q \o r) <=> CarriesFinal(q) \/ CarriesFinal(r)
           /\ /\ Ordered(q) /\ Ordered(r) /\ (Carries(r, "MESSAGE") => ~CarriesFinal(q))
              /\ \A i, j : CarriesId(q, i) /\ CarriesId(r, j) => i < j
              => Ordered(q \o r)
<1> DEFINE z == q \o r
<1>1. PICK m \in Nat, n \in Nat : m = Len(q) /\ n = Len(r)
  BY LenProperties
<1>2. z \in Seq(S) /\ Len(z) = m + n /\ (\A i \in 1 .. m : z[i] = q[i]) /\ (\A i \in 1 .. n : z[m + i] = r[i])
  BY <1>1
<1> HIDE DEF z
<1>3. \A i \in 1 .. m + n : i \in 1 .. m \/ \E j \in 1 .. n : i = m + j
  <2>1. \A i \in 1 .. m + n : i \in 1 .. m \/ (i - m \in 1 .. n /\ i = m + (i - m))
    OBVIOUS
  <2> QED BY <2>1
<1>4. (\A i \in 1 .. m : i \in 1 .. m + n) /\ (\A i \in 1 .. n : m + i \in 1 .. m + n)
  OBVIOUS
<1>5. \A t : Carries(z, t) <=> Carries(q, t) \/ Carries(r, t)
  <2>1. ASSUME NEW t, Carries(z, t) PROVE Carries(q, t) \/ Carries(r, t)
    <3>1. PICK i \in 1 .. m + n : z[i].t = t
      BY <1>2, <2>1 DEF Carries
    <3>2. CASE i \in 1 .. m
      BY <1>1, <1>2, <3>1, <3>2 DEF Carries
    <3>3. ASSUME NEW j \in 1 .. n, i = m + j PROVE Carries(r, t)
      BY <1>1, <1>2, <3>1, <3>3 DEF Carries
    <3> QED BY <1>3, <3>2, <3>3
  <2>2. ASSUME NEW i \in 1 .. m PROVE Carries(z, q[i].t)
    BY <1>2, <1>4 DEF Carries
  <2>3. ASSUME NEW i \in 1 .. n PROVE Carries(z, r[i].t)
    BY <1>2, <1>4 DEF Carries
  <2> QED BY <1>1, <2>1, <2>2, <2>3, ZenonT(180) DEF Carries
<1>6. \A i : CarriesId(z, i) <=> CarriesId(q, i) \/ CarriesId(r, i)
  <2>1. ASSUME NEW x, CarriesId(z, x) PROVE CarriesId(q, x) \/ CarriesId(r, x)
    <3>1. PICK i \in 1 .. m + n : z[i].t = "MESSAGE" /\ z[i].id = x
      BY <1>2, <2>1 DEF CarriesId
    <3>2. CASE i \in 1 .. m
      BY <1>1, <1>2, <3>1, <3>2 DEF CarriesId
    <3>3. ASSUME NEW j \in 1 .. n, i = m + j PROVE CarriesId(r, x)
      BY <1>1, <1>2, <3>1, <3>3 DEF CarriesId
    <3> QED BY <1>3, <3>2, <3>3
  <2>2. ASSUME NEW i \in 1 .. m, q[i].t = "MESSAGE" PROVE CarriesId(z, q[i].id)
    BY <1>2, <1>4, <2>2 DEF CarriesId
  <2>3. ASSUME NEW i \in 1 .. n, r[i].t = "MESSAGE" PROVE CarriesId(z, r[i].id)
    BY <1>2, <1>4, <2>3 DEF CarriesId
  <2>4. ASSUME NEW x, CarriesId(q, x) \/ CarriesId(r, x) PROVE CarriesId(z, x)
    <3>1. CASE CarriesId(q, x)
      <4>1. PICK i \in 1 .. m : q[i].t = "MESSAGE" /\ q[i].id = x
        BY <1>1, <3>1 DEF CarriesId
      <4> QED BY <2>2, <4>1
    <3>2. CASE CarriesId(r, x)
      <4>1. PICK i \in 1 .. n : r[i].t = "MESSAGE" /\ r[i].id = x
        BY <1>1, <3>2 DEF CarriesId
      <4> QED BY <2>3, <4>1
    <3> QED BY <2>4, <3>1, <3>2
  <2> QED BY <2>1, <2>4
<1>7. CarriesFinal(z) <=> CarriesFinal(q) \/ CarriesFinal(r)
  BY <1>5 DEF CarriesFinal
<1>8. ASSUME Ordered(q), Ordered(r), Carries(r, "MESSAGE") => ~CarriesFinal(q),
             \A i, j : CarriesId(q, i) /\ CarriesId(r, j) => i < j
      PROVE  Ordered(z)
  <2>1. SUFFICES ASSUME NEW i \in 1 .. m + n, NEW j \in 1 .. m + n, i < j, z[j].t = "MESSAGE"
                 PROVE  z[i].t \notin Finals /\ (z[i].t = "MESSAGE" => z[i].id < z[j].id)
    BY <1>2 DEF Ordered
  <2>2. CASE j \in 1 .. m
    <3>1. i \in 1 .. m
      BY <2>1, <2>2
    <3> QED BY <1>1, <1>2, <1>8, <2>1, <2>2, <3>1 DEF Ordered
  <2>3. ASSUME NEW k \in 1 .. n, j = m + k PROVE z[i].t \notin Finals /\ (z[i].t = "MESSAGE" => z[i].id < z[j].id)
    <3>1. z[j] = r[k] /\ r[k].t = "MESSAGE" /\ Carries(r, "MESSAGE") /\ CarriesId(r, r[k].id)
      BY <1>1, <1>2, <2>1, <2>3 DEF Carries, CarriesId
    <3>2. CASE i \in 1 .. m
      <4>1. z[i] = q[i] /\ q[i].t \notin Finals
        BY <1>1, <1>2, <1>8, <3>1, <3>2 DEF CarriesFinal, Carries
      <4>2. q[i].t = "MESSAGE" => CarriesId(q, q[i].id)
        BY <1>1, <3>2 DEF CarriesId
      <4> QED BY <1>8, <3>1, <4>1, <4>2
    <3>3. ASSUME NEW h \in 1 .. n, i = m + h PROVE z[i].t \notin Finals /\ (z[i].t = "MESSAGE" => z[i].id < z[j].id)
      <4>1. h < k /\ z[i] = r[h]
        BY <1>2, <2>1, <2>3, <3>3
      <4> QED BY <1>1, <1>8, <3>1, <4>1 DEF Ordered
    <3> QED BY <1>3, <2>1, <3>2, <3>3
  <2> QED BY <1>3, <2>1, <2>2, <2>3
<1> QED BY <1>1, <1>2, <1>5, <1>6, <1>7, <1>8 DEF z

\* The rest of a queue carries what its head is not, and nothing behind a close.
LEMMA TailCarries ==
    ASSUME NEW S, NEW q \in Seq(S), q # <<>>, Ordered(q)
    PROVE  LET f == Head(q)
               r == Tail(q) IN
           /\ f \in S /\ r \in Seq(S) /\ Len(r) = Len(q) - 1 /\ Len(r) \in Nat /\ Ordered(r)
           /\ \A t : Carries(q, t) <=> f.t = t \/ Carries(r, t)
           /\ \A i : CarriesId(q, i) <=> (f.t = "MESSAGE" /\ f.id = i) \/ CarriesId(r, i)
           /\ CarriesFinal(q) <=> f.t \in Finals \/ CarriesFinal(r)
           /\ f.t \in Finals => ~Carries(r, "MESSAGE") /\ \A i : ~CarriesId(r, i)
           /\ f.t = "MESSAGE" => \A i : CarriesId(r, i) => f.id < i
<1> DEFINE f == Head(q)
           r == Tail(q)
<1>1. PICK n \in Nat : n = Len(q)
  BY LenProperties
<1>2. n > 0 /\ f = q[1] /\ r \in Seq(S) /\ Len(r) = n - 1 /\ \A i \in 1 .. n - 1 : r[i] = q[i + 1]
  BY <1>1, HeadTailProperties
<1>3. f \in S
  BY <1>1, <1>2, ElementOfSeq
<1> HIDE DEF f, r
<1>4. \A i \in 1 .. n : i = 1 \/ \E j \in 1 .. n - 1 : i = j + 1
  <2>1. \A i \in 1 .. n : i = 1 \/ (i - 1 \in 1 .. n - 1 /\ i = (i - 1) + 1)
    BY <1>2
  <2> QED BY <2>1
<1>5. 1 \in 1 .. n /\ \A i \in 1 .. n - 1 : i + 1 \in 1 .. n /\ 1 < i + 1
  BY <1>2
<1>6. \A t : Carries(q, t) <=> f.t = t \/ Carries(r, t)
  <2>1. ASSUME NEW t, Carries(q, t) PROVE f.t = t \/ Carries(r, t)
    <3>1. PICK i \in 1 .. n : q[i].t = t
      BY <1>1, <2>1 DEF Carries
    <3>2. CASE i = 1
      BY <1>2, <3>1, <3>2
    <3>3. ASSUME NEW j \in 1 .. n - 1, i = j + 1 PROVE Carries(r, t)
      BY <1>2, <3>1, <3>3 DEF Carries
    <3> QED BY <1>4, <3>2, <3>3
  <2>2. Carries(q, f.t)
    BY <1>1, <1>2, <1>5 DEF Carries
  <2>3. ASSUME NEW i \in 1 .. n - 1 PROVE Carries(q, r[i].t)
    BY <1>1, <1>2, <1>5 DEF Carries
  <2> QED BY <1>2, <2>1, <2>2, <2>3, ZenonT(180) DEF Carries
<1>7. \A i : CarriesId(q, i) <=> (f.t = "MESSAGE" /\ f.id = i) \/ CarriesId(r, i)
  <2>1. ASSUME NEW x, CarriesId(q, x) PROVE (f.t = "MESSAGE" /\ f.id = x) \/ CarriesId(r, x)
    <3>1. PICK i \in 1 .. n : q[i].t = "MESSAGE" /\ q[i].id = x
      BY <1>1, <2>1 DEF CarriesId
    <3>2. CASE i = 1
      BY <1>2, <3>1, <3>2
    <3>3. ASSUME NEW j \in 1 .. n - 1, i = j + 1 PROVE CarriesId(r, x)
      BY <1>2, <3>1, <3>3 DEF CarriesId
    <3> QED BY <1>4, <3>2, <3>3
  <2>2. f.t = "MESSAGE" => CarriesId(q, f.id)
    BY <1>1, <1>2, <1>5 DEF CarriesId
  <2>3. ASSUME NEW i \in 1 .. n - 1, r[i].t = "MESSAGE" PROVE CarriesId(q, r[i].id)
    BY <1>1, <1>2, <1>5, <2>3 DEF CarriesId
  <2>4. ASSUME NEW x, (f.t = "MESSAGE" /\ f.id = x) \/ CarriesId(r, x) PROVE CarriesId(q, x)
    <3>1. CASE CarriesId(r, x)
      <4>1. PICK i \in 1 .. n - 1 : r[i].t = "MESSAGE" /\ r[i].id = x
        BY <1>2, <3>1 DEF CarriesId
      <4> QED BY <2>3, <4>1
    <3> QED BY <2>2, <2>4, <3>1
  <2> QED BY <2>1, <2>4
<1>8. CarriesFinal(q) <=> f.t \in Finals \/ CarriesFinal(r)
  BY <1>6 DEF CarriesFinal
<1>9. Ordered(r)
  <2>1. \A i, j \in 1 .. n - 1 : i < j => i + 1 < j + 1
    OBVIOUS
  <2> QED BY <1>1, <1>2, <1>5, <2>1 DEF Ordered
<1>10. \A j \in 1 .. n - 1 : r[j].t = "MESSAGE" => f.t \notin Finals /\ (f.t = "MESSAGE" => f.id < r[j].id)
  BY <1>1, <1>2, <1>5 DEF Ordered
<1>11. f.t \in Finals => ~Carries(r, "MESSAGE") /\ \A i : ~CarriesId(r, i)
  BY <1>2, <1>10 DEF Carries, CarriesId
<1>12. f.t = "MESSAGE" => \A i : CarriesId(r, i) => f.id < i
  BY <1>2, <1>10 DEF CarriesId
<1>13. n - 1 \in Nat
  BY <1>2
<1> QED BY <1>1, <1>2, <1>3, <1>6, <1>7, <1>8, <1>9, <1>11, <1>12, <1>13 DEF f, r

\* A queue carries a message if it carries one of some id.
LEMMA CarriesSome ==
    ASSUME NEW q
    PROVE  Carries(q, "MESSAGE") <=> \E i : CarriesId(q, i)
BY DEF Carries, CarriesId

\* An end that sends nothing more, nor keeps anything to send.
Silent(s) == s.phase # "open" /\ Entries(s.buf) = {}

ServerStart(s) == ServerOK(s) /\ s.out = <<>> /\ use \in Uses

\* The server's end at s goes on to t, sending fs: each message that waited or is new is kept, is
\* sent, or is told lost, and nothing follows a close.
ServerWords(s, t, fs) ==
    /\ t.out = fs /\ t.got = s.got /\ t.seq = s.seq + Len(fs)
    /\ t.sent \in {s.sent, s.sent + 1}
    /\ t.sent = s.sent => Pending(t) \subseteq Pending(s) /\ t.asked = s.asked
    /\ t.sent # s.sent => s.phase = "open" /\ t.phase \in {"open", "ended"}
    /\ \A i \in 1 .. s.sent : s.promise[i] = "failed" => t.promise[i] = "failed"
    /\ Ordered(fs)
    /\ \A i : CarriesId(fs, i) => Holds(s.buf, i) \/ i \in s.sent + 1 .. t.sent
    /\ \A i : Holds(t.buf, i) => Holds(s.buf, i) \/ i \in s.sent + 1 .. t.sent
    /\ \A i \in 1 .. t.sent : Holds(s.buf, i) \/ i \in s.sent + 1 .. t.sent =>
          Holds(t.buf, i) \/ CarriesId(fs, i) \/ t.promise[i] = "failed"
    /\ Carries(fs, "MESSAGE") => Entries(t.buf) = {}
    /\ CarriesFinal(fs) => Silent(t)

\* ... and its close goes on.  `told`: it took the page's CLOSE.
ServerLife(s, t, fs, told) ==
    /\ s.phase # "open" => t.phase # "open"
    /\ s.life.ended => t.life.ended
    /\ t.life.acked = s.life.acked
    /\ s.life.requested => t.life.requested
    /\ ~t.life.ended /\ t.life.fired =>
         s.life.fired \/ (s.asked \cap Pending(s) = {} /\ t.sent = s.sent)
    /\ ~t.life.ended /\ t.life.run # "none" /\ ~t.life.requested =>
         told \/ (s.life.run # "none" /\ ~s.life.requested)
    /\ Carries(fs, "CLOSE_ACK") => told
    /\ Carries(fs, "ABORT") \/ Carries(fs, "ERROR") =>
         t.phase = "ended" /\ (~Silent(s) \/ s.pendingEnd.abort)
    /\ t.pendingEnd.abort => s.pendingEnd.abort \/ ~Silent(s)
    /\ told => fs = <<Ctrl("CLOSE_ACK")>> /\ ~t.pendingEnd.abort

ServerMoves(s, t, fs, told) == ServerOK(t) /\ ServerWords(s, t, fs) /\ ServerLife(s, t, fs, told)

\* An end that ends cleanly had no ack request in flight.
ServerClean(s, t) ==
    ~s.life.ended /\ t.life.ended /\ t.life.error = "none" =>
        s.life.fired \/ s.asked \cap Pending(s) = {}

\* Only its end detaches it, and what it let go of it does not take back.
Stays(s, t) == t.attached = (s.attached /\ t.phase # "ended") /\ (s.released => t.released)

\* The messages and promises of s, some handshake and some frame further on.
SameWords(s, r) ==
    /\ r.sent = s.sent /\ r.got = s.got /\ r.asked = s.asked /\ r.promise = s.promise
    /\ r.buf = s.buf /\ r.pendingAcks = s.pendingAcks

\* An end that only keeps what it kept, and sends no message, says what ServerWords asks.
LEMMA WordsOf ==
    ASSUME NEW s, ServerTyped(s), NEW r, NEW t, NEW fs, \A i : ~CarriesId(fs, i), Ordered(fs),
           SameWords(s, r), r.out = fs, r.seq = s.seq + Len(fs), Keeps(r, t),
           CarriesFinal(fs) => Silent(t), use \in Uses
    PROVE  ServerWords(s, t, fs)
<1>1. Pending(r) = Pending(s)
  BY DEF SameWords, Pending
<1>2. s.sent \in Nat /\ 1 .. s.sent \subseteq ServerIds
  BY IdsSent
<1>3. t.sent = s.sent /\ t.got = s.got /\ t.asked = s.asked /\ t.out = fs /\ t.seq = s.seq + Len(fs)
  BY DEF Keeps, SameElse, SameWords
<1>4. Pending(t) \subseteq Pending(s)
  BY <1>1 DEF Keeps
<1>5. \A i \in 1 .. s.sent : s.promise[i] = "failed" => t.promise[i] = "failed"
  BY <1>2 DEF Keeps, SameWords
<1>6. \A i : Holds(t.buf, i) => Holds(s.buf, i)
  BY DEF Keeps, SameWords
<1>7. \A i \in 1 .. s.sent : Holds(s.buf, i) => Holds(t.buf, i) \/ t.promise[i] = "failed"
  BY <1>2 DEF Keeps, SameWords
<1>8. \A i : i \notin s.sent + 1 .. s.sent
  BY <1>2
<1>9. ~Carries(fs, "MESSAGE")
  BY CarriesSome
<1> QED BY <1>3, <1>4, <1>5, <1>6, <1>7, <1>8, <1>9 DEF ServerWords

\* An end of which nothing is told or kept otherwise.
LEMMA KeepsSame ==
    ASSUME NEW r
    PROVE  Keeps(r, r)
BY DEF Keeps, SameElse

\* Of an empty buffer nothing is kept.
LEMMA EmptyKept ==
    ASSUME NEW r, NEW t, r.buf \in Buffers, t.buf \in Buffers, Keeps(r, t), Entries(r.buf) = {}
    PROVE  Entries(t.buf) = {}
BY HoldsIs DEF Keeps

\* A pass of the close's run: the end waits on, or ended.
LEMMA ServerRanDoes ==
    ASSUME NEW r, ServerTyped(r), ServerBuffered(r), r.phase = "closing", ~r.life.ended,
           r.life.run \notin {"none", "done"}, r.life.run = "waiting" => r.life.timer = r.life.left,
           r.attached => Entries(r.buf) = {}, ~r.pendingEnd.abort, ~r.released, use \in Uses
    PROVE  LET t == ServerRan(r) IN
           /\ ServerOK(t) /\ Keeps(r, t) /\ t.phase # "open"
           /\ t.attached = (r.attached /\ t.phase # "ended")
           /\ t = r \/ (t.life.ended /\ (t.life.error = "none" => r.life.run = "clean"))
<1>1. CASE r.life.run = "clean"
  <2>1. ServerRan(r) = Shutdown(r, "none", FALSE)
    BY <1>1 DEF ServerRan
  <2>2. "none" \in Errors /\ r.phase # "ended"
    BY DEF Errors
  <2> DEFINE t == Shutdown(r, "none", FALSE)
  <2>3. /\ ServerOK(t) /\ Keeps(r, t) /\ t.phase = "ended" /\ t.life.ended /\ t.attached = FALSE
    BY <2>2, ShutdownDoes, ZenonT(180)
  <2> HIDE DEF t
  <2>4. t.attached = (r.attached /\ t.phase # "ended")
    BY <2>3
  <2> QED BY <1>1, <2>1, <2>3, <2>4 DEF t
<1>2. CASE r.life.run = "late"
  <2>1. ServerRan(r) = Shutdown(r, "timeout", FALSE)
    BY <1>2 DEF ServerRan
  <2>2. "timeout" \in Errors /\ r.phase # "ended" /\ "timeout" # "none"
    BY DEF Errors
  <2> DEFINE t == Shutdown(r, "timeout", FALSE)
  <2>3. /\ ServerOK(t) /\ Keeps(r, t) /\ t.phase = "ended" /\ t.life.ended /\ t.attached = FALSE
        /\ t.life.error # "none"
    BY <2>2, ShutdownDoes, ZenonT(180)
  <2> HIDE DEF t
  <2>4. t.attached = (r.attached /\ t.phase # "ended")
    BY <2>3
  <2> QED BY <2>1, <2>3, <2>4 DEF t
<1>3. CASE r.life.run \notin {"clean", "late"}
  <2>1. ServerRan(r) = r
    BY <1>3 DEF ServerRan
  <2>2. AtRest(r.life)
    BY <1>3 DEF AtRest, ServerTyped, ServerRecs
  <2>3. r.attached \in BOOLEAN
    BY DEF ServerTyped, ServerRecs
  <2> QED BY <1>3, <2>1, <2>2, <2>3, KeepsSame DEF ServerOK
<1> QED BY <1>1, <1>2, <1>3

\* What a handler of the server's end finds.
LEMMA StartIs ==
    ASSUME NEW s, ServerStart(s)
    PROVE  /\ s \in ServerRecs /\ s.out = <<>> /\ AtRest(s.life) /\ s.buf \in Buffers
           /\ s.phase # "ended" => ~s.life.ended /\ ~s.pendingEnd.abort /\ ~s.released
           /\ IsFiniteSet(s.asked) /\ IsFiniteSet(s.answering)
           /\ s.seq \in Nat /\ s.attached \in BOOLEAN /\ s.phase \in Phases
<1>1. s \in ServerRecs /\ s.out = <<>> /\ AtRest(s.life)
  BY DEF ServerStart, ServerOK, ServerTyped
<1>2. s.phase # "ended" => ~s.life.ended /\ ~s.pendingEnd.abort /\ ~s.released
  BY DEF ServerStart, ServerOK
<1>3. /\ s.buf \in Buffers /\ s.seq \in Nat /\ s.attached \in BOOLEAN /\ s.asked \subseteq ServerIds
      /\ s.answering \subseteq PageIds /\ s.phase \in Phases
  BY <1>1 DEF ServerRecs
<1>4. IsFiniteSet(s.asked) /\ IsFiniteSet(s.answering)
  BY <1>3, IdsFinite, FS_Subset DEF ServerStart
<1> QED BY <1>1, <1>2, <1>3, <1>4

\* The close that was begun in r, which is s but for its phase, its handshake, and what it sends.
LEMMA ServerBegins ==
    ASSUME NEW s, ServerStart(s), s.phase # "ended", NEW r, ServerTyped(r), SameWords(s, r),
           NEW n, n = Inflight(s), r.phase = "closing", r.attached = s.attached,
           r.released = s.released, ~r.pendingEnd.abort,
           NEW h \in Handshakes, h.run \in {"none", "due", "waiting"}, ~h.ended,
           h.acked = s.life.acked, h.fired = s.life.fired, s.life.requested => h.requested,
           Begun(h, r.life, n) \/ Passed(h, r.life, n),
           NEW fs, \A i : ~CarriesId(fs, i), Ordered(fs), r.out = fs, r.seq = s.seq + Len(fs),
           fs # <<>> => s.attached, ~Carries(fs, "ABORT"), ~Carries(fs, "ERROR"),
           NEW told \in BOOLEAN, ~h.requested => told \/ (s.life.run # "none" /\ ~s.life.requested),
           Carries(fs, "CLOSE_ACK") => told, told => fs = <<Ctrl("CLOSE_ACK")>>
    PROVE  LET t == ServerRan(r) IN
           ServerMoves(s, t, fs, told) /\ ServerClean(s, t) /\ Stays(s, t) /\ t.phase # "open"
<1>1. /\ r.life.requested = h.requested /\ r.life.awaiting = h.awaiting /\ r.life.acked = h.acked
      /\ ~r.life.ended /\ r.life.run \in {"clean", "late", "waiting", "due"}
      /\ r.life.run = "waiting" => r.life.timer = r.life.left
      /\ r.life.run = "clean" => r.life.fired
      /\ r.life.fired => h.fired \/ n = 0
  BY DEF Begun, Passed
<1>2. /\ s \in ServerRecs /\ s.buf \in Buffers /\ ~s.life.ended /\ ~s.released /\ ~s.pendingEnd.abort
      /\ IsFiniteSet(s.asked) /\ IsFiniteSet(s.answering) /\ s.attached \in BOOLEAN
      /\ ServerTyped(s) /\ ServerBuffered(s) /\ use \in Uses
      /\ (s.attached => Entries(s.buf) = {})
  BY StartIs DEF ServerStart, ServerOK
<1>3. ServerBuffered(r) /\ r.buf = s.buf
  BY <1>2 DEF ServerBuffered, SameWords
<1> DEFINE t == ServerRan(r)
<1>4. /\ ServerOK(t) /\ Keeps(r, t) /\ t.phase # "open"
      /\ t.attached = (r.attached /\ t.phase # "ended")
      /\ t = r \/ (t.life.ended /\ (t.life.error = "none" => r.life.run = "clean"))
  BY <1>1, <1>2, <1>3, ServerRanDoes
<1> HIDE DEF t
<1>5. t.buf \in Buffers
  BY <1>4 DEF ServerOK, ServerTyped, ServerRecs
<1>6. Entries(s.buf) = {} => Entries(t.buf) = {}
  BY <1>2, <1>3, <1>4, <1>5, EmptyKept
<1>7. CarriesFinal(fs) => Silent(t)
  <2>1. CarriesFinal(fs) => s.attached
    BY NoFrame
  <2> QED BY <1>2, <1>4, <1>6, <2>1 DEF Silent
<1>8. ServerWords(s, t, fs)
  BY <1>2, <1>4, <1>7, WordsOf
<1>9. n = 0 => s.asked \cap Pending(s) = {}
  BY <1>2, InflightNone
<1>10. /\ t.life.acked = s.life.acked /\ t.life.requested = h.requested /\ t.sent = s.sent
       /\ ~t.pendingEnd.abort
  BY <1>1, <1>4 DEF Keeps, SameElse, SameWords
<1>11. ~t.life.ended /\ t.life.fired => s.life.fired \/ s.asked \cap Pending(s) = {}
  BY <1>1, <1>4, <1>9
<1>12. ServerClean(s, t)
  BY <1>1, <1>4, <1>9 DEF ServerClean
<1>13. ServerLife(s, t, fs, told)
  BY <1>2, <1>4, <1>10, <1>11 DEF ServerLife
<1>14. Stays(s, t)
  BY <1>2, <1>4 DEF Stays
<1> QED BY <1>4, <1>8, <1>12, <1>13, <1>14 DEF ServerMoves, t

\* What the close leaves of the end it was asked of, at handshake g.
LEMMA CloseTyped ==
    ASSUME NEW s, ServerStart(s), NEW g \in Handshakes, NEW f \in ToPageFrames, NEW at,
           at \in {s.closeSeq, s.seq + 1}
    PROVE  LET r == [s EXCEPT !.phase = "closing", !.life = g, !.seq = s.seq + 1, !.out = <<f>>,
                              !.closeSeq = at] IN
           /\ ServerTyped(r) /\ SameWords(s, r) /\ r.phase = "closing" /\ r.life = g
           /\ r.attached = s.attached /\ r.released = s.released /\ r.pendingEnd = s.pendingEnd
           /\ r.out = <<f>> /\ r.seq = s.seq + Len(<<f>>)
<1> DEFINE r == [s EXCEPT !.phase = "closing", !.life = g, !.seq = s.seq + 1, !.out = <<f>>,
                          !.closeSeq = at]
<1>1. s \in ServerRecs /\ ServerTyped(s)
  BY DEF ServerStart, ServerOK, ServerTyped
<1>2. <<f>> \in Seq(ToPageFrames) /\ Len(<<f>>) = 1
  OBVIOUS
<1>3. /\ s.seq \in Nat /\ s.closeSeq \in Nat /\ s.closeSeq <= s.seq /\ s.pageSeq \in Nat
      /\ s.pageSeq <= s.seq /\ \A i \in ServerIds : s.seqOf[i] \in Nat /\ s.seqOf[i] <= s.seq
  BY <1>1 DEF ServerTyped, ServerRecs
<1>4. /\ at \in Nat /\ at <= s.seq + 1 /\ s.seq + 1 \in Nat /\ s.pageSeq <= s.seq + 1
      /\ \A i \in ServerIds : s.seqOf[i] <= s.seq + 1
  BY <1>3
<1>5. /\ r \in ServerRecs /\ r.phase = "closing" /\ r.life = g /\ r.out = <<f>> /\ r.seq = s.seq + 1
      /\ r.closeSeq = at
  BY <1>1, <1>2, <1>4 DEF ServerRecs, Phases
<1>6. /\ SameWords(s, r) /\ r.attached = s.attached /\ r.released = s.released
      /\ r.pendingEnd = s.pendingEnd /\ r.pageSeq = s.pageSeq /\ r.seqOf = s.seqOf
  BY <1>1 DEF ServerRecs, SameWords
<1> HIDE DEF r
<1>7. ServerTyped(r)
  BY <1>1, <1>4, <1>5, <1>6 DEF ServerTyped, SameWords
<1> QED BY <1>2, <1>5, <1>6, <1>7 DEF r

\* A frame that is no message.
LEMMA NoMessage ==
    ASSUME NEW f, f.t # "MESSAGE"
    PROVE  Ordered(<<f>>) /\ (\A i : ~CarriesId(<<f>>, i)) /\ <<f>> # <<>>
<1>1. <<f>> # <<>>
  OBVIOUS
<1> QED BY <1>1, OneFrame

\* close
LEMMA ServerCloseDoes ==
    ASSUME NEW s, ServerStart(s), s.phase # "ended", NEW timeout \in Timeouts
    PROVE  LET t == ServerClose(s, timeout) IN
           ServerMoves(s, t, t.out, FALSE) /\ ServerClean(s, t) /\ Stays(s, t)
<1> DEFINE h == RequestClose(s.life, timeout, s.registered)
           n == Inflight(s)
           g == BeginRun(h, n)
           f == Close(timeout)
           q == [s EXCEPT !.phase = "closing", !.life = h]
           t == ServerClose(s, timeout)
<1>1. /\ s \in ServerRecs /\ AtRest(s.life) /\ s.out = <<>> /\ ~s.life.ended /\ s.registered \in BOOLEAN
      /\ s.pendingEnd \in EndsOwed /\ ~s.pendingEnd.closeAck /\ ~s.pendingEnd.error
      /\ ~s.pendingEnd.abort /\ s.attached \in BOOLEAN
  BY StartIs DEF ServerStart, ServerOK, ServerTyped, ServerRecs
<1>2. timeout \in Times /\ f \in ToPageFrames /\ f.t = "CLOSE"
  BY TimeoutsAreTimes, FrameTypes DEF Close
<1>3. /\ h \in Handshakes /\ h.run \in {"none", "due", "waiting"}
      /\ h.run = "waiting" => h.timer = h.left
      /\ h.requested /\ h.acked = s.life.acked
      /\ ~h.ended /\ h.fired = s.life.fired
  BY <1>1, <1>2, RequestDoes
<1>4. Begun(h, g, n) /\ g \in Handshakes
  <2> HIDE DEF h, n
  <2>1. Begun(h, BeginRun(h, n), n)
    BY <1>3, BeginDoes
  <2> QED BY <2>1 DEF Begun
<1>5. Append(<<>>, f) = <<f>>
  OBVIOUS
<1> HIDE DEF h, g
<1>6. CASE s.attached
  <2> DEFINE r == [s EXCEPT !.phase = "closing", !.life = g, !.seq = s.seq + 1, !.out = <<f>>,
                            !.closeSeq = s.seq + 1]
             k == [Emit(q, f) EXCEPT !.closeSeq = s.seq + 1]
  <2>1. t = ServerRan(r)
    <3>1. k.asked = s.asked /\ k.promise = s.promise /\ k.answering = s.answering
      BY <1>1 DEF Emit, ServerRecs
    <3>2. Inflight(k) = n
      <4> HIDE DEF k
      <4> QED BY <3>1 DEF Inflight, Pending
    <3>3. [k EXCEPT !.life = BeginRun(@, n)] = r
      BY <1>1, <1>5, ZenonT(180) DEF Emit, ServerRecs, g
    <3>4. t = ServerRan([k EXCEPT !.life = BeginRun(@, Inflight(k))])
      BY <1>6 DEF ServerClose, h
    <3> HIDE DEF k, r, n
    <3> QED BY <3>2, <3>3, <3>4
  <2>2. /\ ServerTyped(r) /\ SameWords(s, r) /\ r.phase = "closing" /\ r.life = g
        /\ r.attached = s.attached /\ r.released = s.released /\ r.pendingEnd = s.pendingEnd
        /\ r.out = <<f>> /\ r.seq = s.seq + Len(<<f>>)
    BY <1>2, <1>4, CloseTyped, ZenonT(180)
  <2> HIDE DEF r, n, t
  <2>3. /\ Ordered(<<f>>) /\ (\A i : ~CarriesId(<<f>>, i)) /\ ~Carries(<<f>>, "ABORT")
        /\ ~Carries(<<f>>, "ERROR") /\ ~Carries(<<f>>, "CLOSE_ACK")
    <3> HIDE DEF f
    <3> QED BY <1>2, NoMessage, OneFrame
  <2> HIDE DEF f
  <2>4. ServerMoves(s, ServerRan(r), <<f>>, FALSE) /\ ServerClean(s, ServerRan(r)) /\ Stays(s, ServerRan(r))
    BY <1>1, <1>3, <1>4, <1>6, <2>2, <2>3, ServerBegins DEF n
  <2>5. t.out = <<f>>
    BY <2>1, <2>4 DEF ServerMoves, ServerWords
  <2>6. ServerMoves(s, t, t.out, FALSE) /\ ServerClean(s, t) /\ Stays(s, t)
    BY <2>1, <2>4, <2>5
  <2> QED BY <2>6 DEF t
<1>7. CASE ~s.attached
  <2> DEFINE e == [s.pendingEnd EXCEPT !.closeRequest = TRUE]
             r == [s EXCEPT !.phase = "closing", !.life = g, !.pendingEnd = e]
             k == [q EXCEPT !.pendingEnd.closeRequest = TRUE]
  <2>0. e \in EndsOwed /\ ~e.closeAck /\ ~e.error /\ ~e.abort
    BY <1>1 DEF EndsOwed
  <2>1. t = ServerRan(r)
    <3>1. k.asked = s.asked /\ k.promise = s.promise /\ k.answering = s.answering
      BY <1>1 DEF ServerRecs
    <3>2. Inflight(k) = n
      <4> HIDE DEF k
      <4> QED BY <3>1 DEF Inflight, Pending
    <3>3. [k EXCEPT !.life = BeginRun(@, n)] = r
      BY <1>1 DEF ServerRecs, g
    <3>4. t = ServerRan([k EXCEPT !.life = BeginRun(@, Inflight(k))])
      BY <1>7 DEF ServerClose, h
    <3> HIDE DEF k, r, n
    <3> QED BY <3>2, <3>3, <3>4
  <2> HIDE DEF e
  <2>2. /\ ServerTyped(r) /\ SameWords(s, r) /\ r.phase = "closing" /\ r.life = g
        /\ r.attached = s.attached /\ r.released = s.released /\ r.pendingEnd = e
        /\ r.out = <<>> /\ r.seq = s.seq + Len(<<>>)
    <3> HIDE DEF k, q, n, t, f
    <3>1. s \in ServerRecs /\ ServerTyped(s) /\ s.out = <<>> /\ s.seq \in Nat
      BY StartIs DEF ServerStart, ServerOK
    <3>2. Len(<<>>) = 0 /\ s.seq + 0 = s.seq
      BY <3>1
    <3>3. r \in ServerRecs /\ r.phase = "closing" /\ r.life = g /\ r.pendingEnd = e
      BY <1>4, <2>0, <3>1 DEF ServerRecs, Phases
    <3>4. /\ SameWords(s, r) /\ r.attached = s.attached /\ r.released = s.released
          /\ r.out = s.out /\ r.seq = s.seq /\ r.pageSeq = s.pageSeq /\ r.seqOf = s.seqOf
          /\ r.closeSeq = s.closeSeq
      BY <3>1 DEF ServerRecs, SameWords
    <3> HIDE DEF r
    <3>5. ServerTyped(r)
      BY <2>0, <3>1, <3>3, <3>4 DEF ServerTyped, SameWords
    <3> QED BY <3>1, <3>2, <3>3, <3>4, <3>5
  <2> HIDE DEF r, n, t
  <2>4. ServerMoves(s, ServerRan(r), <<>>, FALSE) /\ ServerClean(s, ServerRan(r)) /\ Stays(s, ServerRan(r))
    BY <1>1, <1>3, <1>4, <2>0, <2>2, NoFrame, ServerBegins DEF n
  <2>5. t.out = <<>>
    BY <2>1, <2>4 DEF ServerMoves, ServerWords
  <2>6. ServerMoves(s, t, t.out, FALSE) /\ ServerClean(s, t) /\ Stays(s, t)
    BY <2>1, <2>4, <2>5
  <2> QED BY <2>6 DEF t
<1> QED BY <1>6, <1>7

\* onPeerCloseRequest, of an end a page is attached to
LEMMA ServerTakesCloseDoes ==
    ASSUME NEW s, ServerStart(s), s.phase # "ended", s.attached, NEW timeout \in Times
    PROVE  LET t == ServerTakesClose(s, timeout) IN
           ServerMoves(s, t, t.out, TRUE) /\ ServerClean(s, t) /\ Stays(s, t)
<1> DEFINE h == ShortenDeadline(s.life, timeout)
           n == Inflight(s)
           g == BeginRun(h, n)
           f == Ctrl("CLOSE_ACK")
           q == [s EXCEPT !.phase = "closing", !.life = h]
           t == ServerTakesClose(s, timeout)
<1>1. /\ s \in ServerRecs /\ AtRest(s.life) /\ s.out = <<>> /\ ~s.life.ended
      /\ ~s.pendingEnd.abort /\ s.attached \in BOOLEAN
  BY StartIs DEF ServerStart, ServerOK, ServerTyped, ServerRecs
<1>2. f \in ToPageFrames /\ f.t = "CLOSE_ACK"
  BY FrameTypes DEF Ctrl
<1>3. /\ h \in Handshakes /\ h.run \in {"none", "due", "waiting"}
      /\ h.run = "waiting" => h.timer = h.left
      /\ h.requested = s.life.requested /\ h.acked = s.life.acked
      /\ ~h.ended /\ h.fired = s.life.fired
  BY <1>1, ShortenDoes
<1>4. Begun(h, g, n) /\ g \in Handshakes
  <2> HIDE DEF h, n
  <2>1. Begun(h, BeginRun(h, n), n)
    BY <1>3, BeginDoes
  <2> QED BY <2>1 DEF Begun
<1>5. Append(<<>>, f) = <<f>>
  OBVIOUS
<1> HIDE DEF h, g
<1> DEFINE r == [s EXCEPT !.phase = "closing", !.life = g, !.seq = s.seq + 1, !.out = <<f>>,
                          !.closeSeq = s.closeSeq]
           k == Emit(q, f)
<1>6. t = ServerRan(r)
  <2>1. k.asked = s.asked /\ k.promise = s.promise /\ k.answering = s.answering
    BY <1>1 DEF Emit, ServerRecs
  <2>2. Inflight(k) = n
    <3> HIDE DEF k
    <3> QED BY <2>1 DEF Inflight, Pending
  <2>3. [k EXCEPT !.life = BeginRun(@, n)] = r
    BY <1>1, <1>5, ZenonT(180) DEF Emit, ServerRecs, g
  <2>4. t = ServerRan([k EXCEPT !.life = BeginRun(@, Inflight(k))])
    BY DEF ServerTakesClose, h
  <2> HIDE DEF k, r, n
  <2> QED BY <2>2, <2>3, <2>4
<1>7. /\ ServerTyped(r) /\ SameWords(s, r) /\ r.phase = "closing" /\ r.life = g
      /\ r.attached = s.attached /\ r.released = s.released /\ r.pendingEnd = s.pendingEnd
      /\ r.out = <<f>> /\ r.seq = s.seq + Len(<<f>>)
  BY <1>2, <1>4, CloseTyped, ZenonT(180)
<1> HIDE DEF r, n, t
<1>8. /\ Ordered(<<f>>) /\ (\A i : ~CarriesId(<<f>>, i)) /\ ~Carries(<<f>>, "ABORT")
      /\ ~Carries(<<f>>, "ERROR")
  <2> HIDE DEF f
  <2> QED BY <1>2, NoMessage, OneFrame
<1>9. ServerMoves(s, ServerRan(r), <<f>>, TRUE) /\ ServerClean(s, ServerRan(r)) /\ Stays(s, ServerRan(r))
  BY <1>1, <1>3, <1>4, <1>7, <1>8, ServerBegins DEF n
<1>10. t.out = <<f>>
  BY <1>6, <1>9 DEF ServerMoves, ServerWords
<1>11. ServerMoves(s, t, t.out, TRUE) /\ ServerClean(s, t) /\ Stays(s, t)
  BY <1>6, <1>9, <1>10
<1> QED BY <1>11 DEF t

\* runUntilEnded, woken
LEMMA ServerRunsDoes ==
    ASSUME NEW s, ServerStart(s), s.life.run = "due"
    PROVE  LET t == ServerRan([s EXCEPT !.life = Run(@, Inflight(s))]) IN
           ServerMoves(s, t, t.out, FALSE) /\ ServerClean(s, t) /\ Stays(s, t)
<1> DEFINE h == s.life
           n == Inflight(s)
           g == Run(h, n)
           r == [s EXCEPT !.life = g]
           t == ServerRan([s EXCEPT !.life = Run(@, Inflight(s))])
<1>1. /\ s \in ServerRecs /\ AtRest(h) /\ s.out = <<>> /\ s.phase = "closing" /\ ~s.life.ended
      /\ ~s.pendingEnd.abort /\ s.attached \in BOOLEAN /\ ServerTyped(s) /\ s.seq \in Nat
  <2>1. /\ s \in ServerRecs /\ AtRest(h) /\ s.out = <<>> /\ s.phase \in Phases /\ s.seq \in Nat
        /\ s.attached \in BOOLEAN
    BY StartIs
  <2>2. s.phase # "ended" /\ s.phase # "open"
    BY <2>1 DEF ServerStart, ServerOK, AtRest
  <2> QED BY <2>1, <2>2, StartIs DEF Phases, ServerStart, ServerOK
<1>2. Passed(h, g, n) /\ h \in Handshakes /\ g \in Handshakes
  BY <1>1, RunPasses DEF AtRest, Passed
<1> HIDE DEF g
<1>3. r \in ServerRecs /\ r.life = g
  BY <1>1, <1>2 DEF ServerRecs
<1>4. /\ SameWords(s, r) /\ r.phase = s.phase /\ r.attached = s.attached /\ r.released = s.released
      /\ r.pendingEnd = s.pendingEnd /\ r.out = <<>> /\ r.seq = s.seq /\ r.pageSeq = s.pageSeq
      /\ r.closeSeq = s.closeSeq /\ r.seqOf = s.seqOf
  BY <1>1 DEF ServerRecs, SameWords
<1>5. t = ServerRan(r)
  BY <1>1 DEF ServerRecs, g
<1> HIDE DEF r, n, t
<1>6. ServerTyped(r)
  BY <1>1, <1>3, <1>4 DEF ServerTyped, SameWords
<1>7. r.seq = s.seq + Len(<<>>)
  BY <1>1, <1>4, NoFrame
<1>8. ServerMoves(s, ServerRan(r), <<>>, FALSE) /\ ServerClean(s, ServerRan(r)) /\ Stays(s, ServerRan(r))
  BY <1>1, <1>2, <1>3, <1>4, <1>6, <1>7, NoFrame, ServerBegins DEF n
<1>9. t.out = <<>>
  BY <1>5, <1>8 DEF ServerMoves, ServerWords
<1>10. ServerMoves(s, t, t.out, FALSE) /\ ServerClean(s, t) /\ Stays(s, t)
  BY <1>5, <1>8, <1>9
<1> QED BY <1>10 DEF t

\* An end of which only the handshake goes on, woken at most, and which sends no message.
LEMMA ServerGoesOn ==
    ASSUME NEW s, ServerStart(s), NEW r, ServerTyped(r), SameWords(s, r),
           AtRest(r.life), Woken(s.life, r.life), r.phase = s.phase, r.attached = s.attached,
           r.released = s.released, r.pendingEnd = s.pendingEnd,
           NEW fs, \A i : ~CarriesId(fs, i), Ordered(fs), ~CarriesFinal(fs),
           r.out = fs, r.seq = s.seq + Len(fs)
    PROVE  ServerMoves(s, r, fs, FALSE) /\ ServerClean(s, r) /\ Stays(s, r)
<1>1. /\ ServerTyped(s) /\ ServerBuffered(s) /\ AtRest(s.life) /\ use \in Uses /\ s.attached \in BOOLEAN
      /\ (s.phase = "ended" <=> s.life.ended)
      /\ (s.phase = "open" => s.life.run = "none")
      /\ (s.phase = "ended" => s.pendingAcks = {})
      /\ (s.attached => s.phase # "ended" /\ Entries(s.buf) = {})
      /\ (s.pendingEnd.abort => s.phase = "ended")
      /\ (s.pendingEnd.closeRequest => s.phase # "open")
      /\ (s.released => s.phase = "ended" /\ Entries(s.buf) = {})
  BY StartIs DEF ServerStart, ServerOK
<1>2. /\ r.life.ended = s.life.ended /\ (r.life.run = "none") = (s.life.run = "none")
      /\ r.life.acked = s.life.acked /\ r.life.requested = s.life.requested
      /\ r.life.fired = s.life.fired /\ r.life.error = s.life.error
  BY DEF Woken
<1>3. ServerBuffered(r)
  BY <1>1 DEF ServerBuffered, SameWords
<1>4. ServerOK(r)
  BY <1>1, <1>2, <1>3 DEF ServerOK, SameWords
<1>5. ServerWords(s, r, fs)
  BY <1>1, KeepsSame, WordsOf
<1>6. ~Carries(fs, "CLOSE_ACK") /\ ~Carries(fs, "ABORT") /\ ~Carries(fs, "ERROR")
  BY DEF CarriesFinal, Finals
<1>7. ServerLife(s, r, fs, FALSE)
  BY <1>1, <1>2, <1>6 DEF ServerLife
<1>8. ServerClean(s, r)
  BY <1>2 DEF ServerClean
<1>9. Stays(s, r)
  BY <1>1 DEF Stays
<1> QED BY <1>4, <1>5, <1>7, <1>8, <1>9 DEF ServerMoves

\* An end that ends: `r` is s but for its phase, its handshake woken at most, and what it sends or owes.
LEMMA ServerEnds ==
    ASSUME NEW s, ServerStart(s), s.phase # "ended", NEW r, ServerTyped(r), SameWords(s, r),
           Woken(s.life, r.life), r.phase # "ended", r.attached = s.attached,
           r.released = s.released, NEW err \in Errors, err # "none", NEW gone \in BOOLEAN,
           NEW fs, \A i : ~CarriesId(fs, i), Ordered(fs), r.out = fs, r.seq = s.seq + Len(fs),
           fs # <<>> => s.attached, ~Carries(fs, "CLOSE_ACK"),
           Carries(fs, "ABORT") \/ Carries(fs, "ERROR") => ~Silent(s),
           r.pendingEnd.abort => ~Silent(s)
    PROVE  LET t == Shutdown(r, err, gone) IN
           ServerMoves(s, t, fs, FALSE) /\ ServerClean(s, t) /\ Stays(s, t) /\ t.phase = "ended"
<1>1. /\ ServerTyped(s) /\ ServerBuffered(s) /\ use \in Uses /\ s.attached \in BOOLEAN
      /\ s.buf \in Buffers /\ ~s.life.ended /\ ~s.released
      /\ (s.attached => Entries(s.buf) = {})
  BY StartIs DEF ServerStart, ServerOK
<1>2. ServerBuffered(r) /\ r.buf = s.buf /\ ~r.released
  BY <1>1 DEF ServerBuffered, SameWords
<1> DEFINE t == Shutdown(r, err, gone)
<1>3. /\ ServerOK(t) /\ Keeps(r, t) /\ t.phase = "ended" /\ t.life.ended /\ t.life.error = err
      /\ t.attached = FALSE
  <2>1. /\ ServerTyped(r) /\ ServerBuffered(r) /\ r.phase # "ended" /\ ~r.released /\ use \in Uses
        /\ err \in Errors
    BY <1>1, <1>2
  <2>2. CASE gone
    <3> DEFINE u == Shutdown(r, err, TRUE)
    <3>1. /\ ServerOK(u) /\ Keeps(r, u) /\ u.phase = "ended" /\ u.life.ended /\ u.life.error = err
          /\ u.attached = FALSE
      BY <2>1, ShutdownDoes, ZenonT(180)
    <3> HIDE DEF u
    <3>2. gone = TRUE
      BY <2>2
    <3> QED BY <3>1, <3>2 DEF u
  <2>3. CASE ~gone
    <3> DEFINE u == Shutdown(r, err, FALSE)
    <3>1. /\ ServerOK(u) /\ Keeps(r, u) /\ u.phase = "ended" /\ u.life.ended /\ u.life.error = err
          /\ u.attached = FALSE
      BY <2>1, ShutdownDoes
    <3> HIDE DEF u
    <3>2. gone = FALSE
      BY <2>3
    <3> QED BY <3>1, <3>2 DEF u
  <2> QED BY <2>2, <2>3
<1> HIDE DEF t
<1>4. t.buf \in Buffers
  BY <1>3 DEF ServerOK, ServerTyped, ServerRecs
<1>5. Entries(s.buf) = {} => Entries(t.buf) = {}
  BY <1>1, <1>2, <1>3, <1>4, EmptyKept
<1>6. CarriesFinal(fs) => Silent(t)
  <2>1. CarriesFinal(fs) => s.attached
    BY NoFrame
  <2> QED BY <1>1, <1>3, <1>5, <2>1 DEF Silent
<1>7. ServerWords(s, t, fs)
  BY <1>1, <1>3, <1>6, WordsOf
<1>8. /\ t.life.acked = s.life.acked /\ t.life.requested = s.life.requested
      /\ (t.pendingEnd.abort => ~Silent(s))
  BY <1>3 DEF Keeps, Woken
<1>9. ServerLife(s, t, fs, FALSE)
  BY <1>3, <1>8 DEF ServerLife
<1>10. ServerClean(s, t)
  BY <1>3 DEF ServerClean
<1>11. Stays(s, t)
  BY <1>1, <1>3 DEF Stays
<1> QED BY <1>3, <1>7, <1>9, <1>10, <1>11 DEF ServerMoves, t

\* The page left: nothing is kept for it (shutdown).
LEMMA ServerGoneDoes ==
    ASSUME NEW s, ServerStart(s), s.phase # "ended", NEW err \in Errors, err # "none", NEW gone \in BOOLEAN
    PROVE  LET t == Shutdown(s, err, gone) IN
           ServerMoves(s, t, t.out, FALSE) /\ ServerClean(s, t) /\ Stays(s, t)
<1>1. /\ ServerTyped(s) /\ s.out = <<>> /\ s.seq \in Nat /\ ~s.pendingEnd.abort
  BY StartIs DEF ServerStart, ServerOK
<1>2. s.seq = s.seq + Len(<<>>)
  BY <1>1, NoFrame
<1>3. Woken(s.life, s.life) /\ SameWords(s, s)
  BY DEF Woken, SameWords
<1> DEFINE t == Shutdown(s, err, gone)
<1>4. ServerMoves(s, t, <<>>, FALSE) /\ ServerClean(s, t) /\ Stays(s, t) /\ t.phase = "ended"
  BY <1>1, <1>2, <1>3, NoFrame, ServerEnds
<1> HIDE DEF t
<1>5. t.out = <<>>
  BY <1>4 DEF ServerMoves, ServerWords
<1>6. ServerMoves(s, t, t.out, FALSE) /\ ServerClean(s, t) /\ Stays(s, t)
  BY <1>4, <1>5
<1> QED BY <1>6 DEF t

\* abort, of an open end woken at most
LEMMA AbortDoes ==
    ASSUME NEW s, ServerStart(s), s.phase = "open", NEW p, ServerTyped(p), SameWords(s, p),
           Woken(s.life, p.life), p.phase = "open", p.attached = s.attached, p.released = s.released,
           p.out = <<>>, p.seq = s.seq
    PROVE  LET t == ServerAbort(p) IN
           ServerMoves(s, t, t.out, FALSE) /\ ServerClean(s, t) /\ Stays(s, t)
<1> DEFINE f == Ctrl("ABORT")
           t == ServerAbort(p)
<1>1. /\ s.seq \in Nat /\ s.phase # "ended" /\ s.attached \in BOOLEAN /\ ~Silent(s) /\ p \in ServerRecs
  BY StartIs DEF ServerStart, ServerOK, Silent, ServerTyped
<1>2. f \in ToPageFrames /\ f.t = "ABORT" /\ Append(<<>>, f) = <<f>> /\ <<f>> \in Seq(ToPageFrames)
      /\ <<f>> # <<>> /\ Len(<<f>>) = 1
  BY FrameTypes, OneOut DEF Ctrl
<1>3. /\ "abort" \in Errors /\ "abort" # "none"
  BY DEF Errors
<1> HIDE DEF f
<1>4. CASE s.attached
  <2> DEFINE r == [p EXCEPT !.phase = "closing", !.seq = s.seq + 1, !.out = <<f>>]
  <2>1. t = Shutdown(r, "abort", FALSE)
    BY <1>1, <1>2, <1>4 DEF ServerAbort, Emit, f, ServerRecs
  <2>2. /\ r \in ServerRecs /\ r.phase = "closing" /\ r.out = <<f>> /\ r.seq = s.seq + 1
    <3>1. s.seq + 1 \in Nat /\ "closing" \in Phases
      BY <1>1 DEF Phases
    <3> QED BY <1>1, <1>2, <3>1 DEF ServerRecs
  <2>3. /\ SameWords(p, r) /\ r.attached = p.attached /\ r.released = p.released /\ r.life = p.life
        /\ r.pendingEnd = p.pendingEnd /\ r.pageSeq = p.pageSeq /\ r.seqOf = p.seqOf
        /\ r.closeSeq = p.closeSeq
    BY <1>1 DEF ServerRecs, SameWords
  <2> HIDE DEF r, t
  <2>4. ServerTyped(r)
    <3>1. /\ p.pageSeq \in Nat /\ p.pageSeq <= s.seq /\ p.closeSeq \in Nat /\ p.closeSeq <= s.seq
          /\ \A i \in ServerIds : p.seqOf[i] \in Nat /\ p.seqOf[i] <= s.seq
      BY <1>1 DEF ServerTyped, ServerRecs
    <3>2. /\ p.pageSeq <= s.seq + 1 /\ p.closeSeq <= s.seq + 1
          /\ \A i \in ServerIds : p.seqOf[i] <= s.seq + 1
      BY <1>1, <3>1
    <3> QED BY <2>2, <2>3, <3>2 DEF ServerTyped, SameWords
  <2>5. ~Carries(<<f>>, "CLOSE_ACK") /\ Ordered(<<f>>) /\ \A i : ~CarriesId(<<f>>, i)
    BY <1>2, OneFrame
  <2>6. SameWords(s, r)
    BY <2>3 DEF SameWords
  <2> DEFINE u == Shutdown(r, "abort", FALSE)
  <2>7. ServerMoves(s, u, <<f>>, FALSE) /\ ServerClean(s, u) /\ Stays(s, u) /\ u.phase = "ended"
    <3>1. /\ ServerTyped(r) /\ SameWords(s, r) /\ Woken(s.life, r.life) /\ r.phase # "ended"
          /\ r.attached = s.attached /\ r.released = s.released
      BY <2>2, <2>3, <2>4, <2>6
    <3> DEFINE fs == <<f>>
    <3>2. /\ \A i : ~CarriesId(fs, i)
          /\ Ordered(fs) /\ ~Carries(fs, "CLOSE_ACK") /\ ~Silent(s) /\ s.attached
      BY <1>1, <1>4, <2>5
    <3>3. r.out = fs /\ r.seq = s.seq + Len(fs)
      BY <1>2, <2>2
    <3>4. ServerStart(s) /\ s.phase # "ended" /\ "abort" \in Errors /\ "abort" # "none"
      BY <1>1, <1>3
    <3>5. ServerMoves(s, u, fs, FALSE) /\ ServerClean(s, u) /\ Stays(s, u) /\ u.phase = "ended"
      <4> HIDE DEF fs
      <4> QED BY <3>1, <3>2, <3>3, <3>4, ServerEnds
    <3> QED BY <3>5
  <2> HIDE DEF u
  <2>8. u.out = <<f>>
    BY <2>7 DEF ServerMoves, ServerWords
  <2>9. ServerMoves(s, u, u.out, FALSE) /\ ServerClean(s, u) /\ Stays(s, u)
    BY <2>7, <2>8
  <2> QED BY <2>1, <2>9 DEF t, u
<1>5. CASE ~s.attached
  <2> DEFINE r == [p EXCEPT !.phase = "closing", !.pendingEnd.abort = TRUE]
  <2>1. t = Shutdown(r, "abort", FALSE)
    BY <1>1, <1>5 DEF ServerAbort
  <2>0. p.pendingEnd \in EndsOwed
    BY <1>1 DEF ServerRecs
  <2>2. /\ r \in ServerRecs /\ r.phase = "closing"
        /\ r.pendingEnd.closeAck = p.pendingEnd.closeAck /\ r.pendingEnd.error = p.pendingEnd.error
    BY <1>1, <2>0 DEF ServerRecs, Phases, EndsOwed
  <2>3. /\ SameWords(p, r) /\ r.attached = p.attached /\ r.released = p.released /\ r.life = p.life
        /\ r.pageSeq = p.pageSeq /\ r.seqOf = p.seqOf /\ r.out = p.out
        /\ r.closeSeq = p.closeSeq /\ r.seq = p.seq
    BY <1>1 DEF ServerRecs, SameWords
  <2> HIDE DEF r, t
  <2>4. ServerTyped(r)
    BY <2>2, <2>3 DEF ServerTyped, SameWords
  <2>5. SameWords(s, r) /\ r.seq = s.seq + Len(<<>>)
    BY <1>1, <2>3, NoFrame DEF SameWords
  <2> DEFINE u == Shutdown(r, "abort", FALSE)
  <2>6. ServerMoves(s, u, <<>>, FALSE) /\ ServerClean(s, u) /\ Stays(s, u) /\ u.phase = "ended"
    BY <1>1, <1>3, <2>2, <2>3, <2>4, <2>5, NoFrame, ServerEnds, ZenonT(180)
  <2> HIDE DEF u
  <2>7. u.out = <<>>
    BY <2>6 DEF ServerMoves, ServerWords
  <2>8. ServerMoves(s, u, u.out, FALSE) /\ ServerClean(s, u) /\ Stays(s, u)
    BY <2>6, <2>7
  <2> QED BY <2>1, <2>8 DEF t, u
<1> QED BY <1>1, <1>4, <1>5 DEF t

\* An end of which only the handshake goes on, woken at most, and what it knows of the page.
LEMMA ServerWakes ==
    ASSUME NEW s, ServerStart(s), NEW t \in ServerRecs, AtRest(t.life), Woken(s.life, t.life),
           SameWords(s, t), t.phase = s.phase, t.attached = s.attached, t.released = s.released,
           t.pendingEnd = s.pendingEnd, t.out = <<>>, t.seq = s.seq, t.pageSeq <= s.seq,
           t.closeSeq = s.closeSeq, t.seqOf = s.seqOf
    PROVE  /\ ServerMoves(s, t, <<>>, FALSE) /\ ServerClean(s, t) /\ Stays(s, t)
           /\ ServerTyped(t) /\ ServerStart(t)
<1>1. s \in ServerRecs /\ ServerTyped(s) /\ s.seq \in Nat /\ use \in Uses
  BY StartIs DEF ServerStart, ServerOK
<1>2. ServerTyped(t)
  BY <1>1 DEF ServerTyped, SameWords
<1>3. t.seq = s.seq + Len(<<>>)
  BY <1>1, NoFrame
<1>4. ServerMoves(s, t, <<>>, FALSE) /\ ServerClean(s, t) /\ Stays(s, t)
  BY <1>2, <1>3, NoFrame, ServerGoesOn
<1> QED BY <1>1, <1>2, <1>4 DEF ServerMoves, ServerStart

\* The timer of the close, its callbacks.
LEMMA ServerTimerDoes ==
    ASSUME NEW s, ServerStart(s), NEW g, AtRest(g), Woken(s.life, g)
    PROVE  LET t == [s EXCEPT !.life = g] IN
           ServerMoves(s, t, <<>>, FALSE) /\ ServerClean(s, t) /\ Stays(s, t) /\ t.out = <<>>
<1> DEFINE t == [s EXCEPT !.life = g]
<1>1. s \in ServerRecs /\ ServerTyped(s) /\ s.out = <<>>
  BY StartIs DEF ServerStart, ServerOK
<1>2. t \in ServerRecs /\ t.life = g
  BY <1>1 DEF ServerRecs, AtRest
<1>3. /\ SameWords(s, t) /\ t.phase = s.phase /\ t.attached = s.attached /\ t.released = s.released
      /\ t.pendingEnd = s.pendingEnd /\ t.out = <<>> /\ t.seq = s.seq /\ t.pageSeq = s.pageSeq
      /\ t.closeSeq = s.closeSeq /\ t.seqOf = s.seqOf
  BY <1>1 DEF ServerRecs, SameWords
<1>4. s.pageSeq <= s.seq
  BY <1>1 DEF ServerTyped
<1> HIDE DEF t
<1>5. ServerMoves(s, t, <<>>, FALSE) /\ ServerClean(s, t) /\ Stays(s, t)
  BY <1>2, <1>3, <1>4, ServerWakes
<1> QED BY <1>3, <1>5 DEF t

\* The response that carries the channel.
LEMMA RegisterDoes ==
    ASSUME NEW s, ServerStart(s)
    PROVE  LET t == [s EXCEPT !.registered = TRUE] IN
           ServerMoves(s, t, <<>>, FALSE) /\ ServerClean(s, t) /\ Stays(s, t) /\ t.out = <<>>
<1> DEFINE t == [s EXCEPT !.registered = TRUE]
<1>1. s \in ServerRecs /\ ServerTyped(s) /\ s.out = <<>> /\ AtRest(s.life) /\ Woken(s.life, s.life)
  BY StartIs DEF ServerStart, ServerOK, Woken
<1>2. t \in ServerRecs
  BY <1>1 DEF ServerRecs
<1>3. /\ SameWords(s, t) /\ t.phase = s.phase /\ t.attached = s.attached /\ t.released = s.released
      /\ t.pendingEnd = s.pendingEnd /\ t.out = <<>> /\ t.seq = s.seq /\ t.pageSeq = s.pageSeq
      /\ t.closeSeq = s.closeSeq /\ t.seqOf = s.seqOf /\ t.life = s.life
  BY <1>1 DEF ServerRecs, SameWords
<1>4. s.pageSeq <= s.seq
  BY <1>1 DEF ServerTyped
<1> HIDE DEF t
<1>5. ServerMoves(s, t, <<>>, FALSE) /\ ServerClean(s, t) /\ Stays(s, t)
  BY <1>1, <1>2, <1>3, <1>4, ServerWakes
<1> QED BY <1>3, <1>5 DEF t

\* The later of two seqs.
LEMMA PageHasMax ==
    ASSUME NEW m \in Nat, NEW n \in Nat
    PROVE  Max({m, n}) \in Nat /\ Max({m, n}) \in {m, n}
<1>1. \E x \in {m, n} : \A y \in {m, n} : x >= y
  <2>1. m >= n \/ n >= m
    OBVIOUS
  <2> QED BY <2>1
<1>2. Max({m, n}) \in {m, n}
  BY <1>1, Zenon DEF Max
<1> QED BY <1>2

\* What an end knows of the page changes.
SameButPage(s, t) ==
    /\ ServerMoves(s, t, <<>>, FALSE) /\ ServerClean(s, t) /\ Stays(s, t) /\ t.out = <<>>
    /\ ServerStart(t) /\ SameWords(s, t) /\ t.phase = s.phase /\ t.life = s.life
    /\ t.attached = s.attached /\ t.released = s.released /\ t.pendingEnd = s.pendingEnd
    /\ t.seq = s.seq /\ t.ackRes = s.ackRes /\ t.closeSeq = s.closeSeq /\ t.seqOf = s.seqOf
    /\ t.answering = s.answering

\* An end that learnt what the page has (_dispatchFrame's lastSeq, the RECONCILE's).
LEMMA PageIsAhead ==
    ASSUME NEW s, ServerStart(s), NEW n \in Nat, n <= s.seq
    PROVE  SameButPage(s, OnPageHas(s, n))
<1> DEFINE seq == Max({s.pageSeq, n})
           t == OnPageHas(s, n)
<1>1. s \in ServerRecs /\ ServerTyped(s) /\ s.out = <<>> /\ AtRest(s.life) /\ Woken(s.life, s.life)
  BY StartIs DEF ServerStart, ServerOK, Woken
<1>2. s.pageSeq \in Nat /\ s.pageSeq <= s.seq
  BY <1>1 DEF ServerTyped, ServerRecs
<1>3. seq \in Nat /\ seq <= s.seq
  BY <1>2, PageHasMax
<1>4. t = [s EXCEPT !.pageSeq = seq]
  BY DEF OnPageHas
<1> HIDE DEF seq, t
<1>5. t \in ServerRecs /\ t.pageSeq = seq
  BY <1>1, <1>3, <1>4 DEF ServerRecs
<1>6. /\ SameWords(s, t) /\ t.phase = s.phase /\ t.attached = s.attached /\ t.released = s.released
      /\ t.pendingEnd = s.pendingEnd /\ t.out = <<>> /\ t.seq = s.seq
      /\ t.closeSeq = s.closeSeq /\ t.seqOf = s.seqOf /\ t.life = s.life /\ t.ackRes = s.ackRes
      /\ t.answering = s.answering
  BY <1>1, <1>4 DEF ServerRecs, SameWords
<1>7. ServerMoves(s, t, <<>>, FALSE) /\ ServerClean(s, t) /\ Stays(s, t) /\ ServerStart(t)
  BY <1>1, <1>3, <1>5, <1>6, ServerWakes
<1> QED BY <1>6, <1>7 DEF SameButPage, t

\* ... and that the page closed the channel (_onPageClosed).
LEMMA PageClosedDoes ==
    ASSUME NEW s, ServerStart(s), NEW n \in Nat, n <= s.seq
    PROVE  SameButPage(s, OnPageHas([s EXCEPT !.pageClosed = TRUE], n))
<1> DEFINE r == [s EXCEPT !.pageClosed = TRUE]
           t == OnPageHas(r, n)
<1>1. s \in ServerRecs /\ ServerTyped(s) /\ s.out = <<>> /\ AtRest(s.life) /\ Woken(s.life, s.life)
  BY StartIs DEF ServerStart, ServerOK, Woken
<1>2. r \in ServerRecs
  BY <1>1 DEF ServerRecs
<1>3. /\ SameWords(s, r) /\ r.phase = s.phase /\ r.attached = s.attached /\ r.released = s.released
      /\ r.pendingEnd = s.pendingEnd /\ r.out = <<>> /\ r.seq = s.seq /\ r.pageSeq = s.pageSeq
      /\ r.closeSeq = s.closeSeq /\ r.seqOf = s.seqOf /\ r.life = s.life /\ r.ackRes = s.ackRes
      /\ r.answering = s.answering
  BY <1>1 DEF ServerRecs, SameWords
<1>4. s.pageSeq <= s.seq
  BY <1>1 DEF ServerTyped
<1> HIDE DEF r
<1>5. ServerStart(r)
  BY <1>1, <1>2, <1>3, <1>4, ServerWakes
<1>6. SameButPage(r, t)
  BY <1>3, <1>5, PageIsAhead
<1> HIDE DEF t
<1>7. /\ t.phase = s.phase /\ t.attached = s.attached /\ t.released = s.released /\ SameWords(s, t)
      /\ t.pendingEnd = s.pendingEnd /\ t.out = <<>> /\ t.seq = s.seq
      /\ t.closeSeq = s.closeSeq /\ t.seqOf = s.seqOf /\ t.life = s.life /\ t.ackRes = s.ackRes
      /\ t.answering = s.answering /\ t \in ServerRecs /\ ServerTyped(t)
  BY <1>3, <1>6, StartIs DEF SameButPage, SameWords, ServerStart, ServerOK
<1>8. t.pageSeq <= s.seq
  BY <1>7 DEF ServerTyped
<1>9. ServerMoves(s, t, <<>>, FALSE) /\ ServerClean(s, t) /\ Stays(s, t) /\ ServerStart(t)
  BY <1>1, <1>7, <1>8, ServerWakes
<1> QED BY <1>7, <1>9 DEF SameButPage, t, r

\* An end that goes on as its listeners answer: the answer goes, or waits for a page (answerAckReq).
LEMMA ServerAnswersDoes ==
    ASSUME NEW s, ServerStart(s), NEW id \in PageIds
    PROVE  LET t == ServerAnswers(s, id) IN
           ServerMoves(s, t, t.out, FALSE) /\ ServerClean(s, t) /\ Stays(s, t)
<1> DEFINE f == AckRes(id)
           g == NotifyProgress(s.life)
           a == s.answering \ {id}
           q == Progress([s EXCEPT !.answering = @ \ {id}])
           t == ServerAnswers(s, id)
<1>1. s \in ServerRecs /\ ServerTyped(s) /\ s.out = <<>> /\ AtRest(s.life) /\ s.seq \in Nat /\ s.attached \in BOOLEAN
  BY StartIs DEF ServerStart, ServerOK
<1>2. AtRest(g) /\ Woken(s.life, g)
  BY <1>1, NotifyRests
<1>3. /\ f \in ToPageFrames /\ f \in AckFrames /\ f.t = "ACK_RES" /\ Append(<<>>, f) = <<f>>
      /\ <<f>> \in Seq(ToPageFrames) /\ Len(<<f>>) = 1
  BY FrameTypes, OneOut DEF AckRes, AckFrames
<1>4. q = [s EXCEPT !.answering = a, !.life = g]
  BY <1>1 DEF Progress, ServerRecs
<1> HIDE DEF q, f, g
<1>5. q \in ServerRecs /\ q.life = g
  BY <1>1, <1>2, <1>4 DEF ServerRecs, AtRest
<1>6. /\ SameWords(s, q) /\ q.phase = s.phase /\ q.attached = s.attached /\ q.released = s.released
      /\ q.pendingEnd = s.pendingEnd /\ q.out = <<>> /\ q.seq = s.seq /\ q.pageSeq = s.pageSeq
      /\ q.closeSeq = s.closeSeq /\ q.seqOf = s.seqOf /\ q.ackRes = s.ackRes
  BY <1>1, <1>4 DEF ServerRecs, SameWords
<1>7. CASE s.attached
  <2> DEFINE u == [q EXCEPT !.seq = s.seq + 1, !.out = <<f>>]
  <2>1. t = u
    <3>1. t = Emit(q, f)
      BY <1>7 DEF ServerAnswers, q, f
    <3> HIDE DEF t
    <3> QED BY <1>3, <1>6, <3>1 DEF Emit
  <2>2. u \in ServerRecs /\ u.out = <<f>> /\ u.seq = s.seq + 1
    <3>1. s.seq + 1 \in Nat
      BY <1>1
    <3> QED BY <1>3, <1>5, <3>1 DEF ServerRecs
  <2>3. /\ SameWords(q, u) /\ u.phase = q.phase /\ u.attached = q.attached /\ u.released = q.released
        /\ u.pendingEnd = q.pendingEnd /\ u.life = q.life /\ u.pageSeq = q.pageSeq
        /\ u.closeSeq = q.closeSeq /\ u.seqOf = q.seqOf
    BY <1>5 DEF ServerRecs, SameWords
  <2> HIDE DEF u, t
  <2>4. ServerTyped(u)
    <3>1. /\ s.pageSeq \in Nat /\ s.pageSeq <= s.seq /\ s.closeSeq \in Nat /\ s.closeSeq <= s.seq
          /\ \A i \in ServerIds : s.seqOf[i] \in Nat /\ s.seqOf[i] <= s.seq
      BY <1>1 DEF ServerTyped, ServerRecs
    <3>2. /\ s.pageSeq <= s.seq + 1 /\ s.closeSeq <= s.seq + 1
          /\ \A i \in ServerIds : s.seqOf[i] <= s.seq + 1
      BY <1>1, <3>1
    <3> QED BY <1>1, <1>6, <2>2, <2>3, <3>2 DEF ServerTyped, SameWords
  <2>5. /\ ~CarriesFinal(<<f>>) /\ Ordered(<<f>>) /\ \A i : ~CarriesId(<<f>>, i)
    BY <1>3, OneFrame DEF Finals
  <2>6. SameWords(s, u) /\ u.seq = s.seq + Len(<<f>>)
    BY <1>3, <1>6, <2>2, <2>3 DEF SameWords
  <2>7. ServerMoves(s, u, <<f>>, FALSE) /\ ServerClean(s, u) /\ Stays(s, u)
    BY <1>2, <1>5, <1>6, <2>2, <2>3, <2>4, <2>5, <2>6, ServerGoesOn
  <2> QED BY <2>1, <2>2, <2>7 DEF t
<1>8. CASE ~s.attached
  <2> DEFINE u == [q EXCEPT !.ackRes = Append(s.ackRes, f)]
  <2>1. t = u
    <3>1. t = [q EXCEPT !.ackRes = Append(@, f)]
      BY <1>8 DEF ServerAnswers, q, f
    <3> HIDE DEF t
    <3> QED BY <1>6, <3>1
  <2>2. u \in ServerRecs
    <3>1. Append(s.ackRes, f) \in Seq(AckFrames)
      BY <1>1, <1>3 DEF ServerRecs
    <3> QED BY <1>5, <3>1 DEF ServerRecs
  <2>3. /\ SameWords(q, u) /\ u.phase = q.phase /\ u.attached = q.attached /\ u.released = q.released
        /\ u.pendingEnd = q.pendingEnd /\ u.life = q.life /\ u.pageSeq = q.pageSeq
        /\ u.closeSeq = q.closeSeq /\ u.seqOf = q.seqOf /\ u.out = q.out /\ u.seq = q.seq
    BY <1>5 DEF ServerRecs, SameWords
  <2> HIDE DEF u, t
  <2>4. SameWords(s, u) /\ s.pageSeq <= s.seq
    BY <1>1, <1>6, <2>3 DEF SameWords, ServerTyped
  <2>5. ServerMoves(s, u, <<>>, FALSE) /\ ServerClean(s, u) /\ Stays(s, u)
    BY <1>2, <1>5, <1>6, <2>2, <2>3, <2>4, ServerWakes
  <2> QED BY <1>6, <2>1, <2>3, <2>5 DEF t
<1> QED BY <1>1, <1>7, <1>8

\* A listener that throws Abort: the channel is aborted.
LEMMA ServerListenerAbortsDoes ==
    ASSUME NEW s, ServerStart(s), NEW id
    PROVE  LET t == ServerListenerAborts(s, id) IN
           ServerMoves(s, t, t.out, FALSE) /\ ServerClean(s, t) /\ Stays(s, t)
<1> DEFINE g == NotifyProgress(s.life)
           a == s.answering \ {id}
           q == Progress([s EXCEPT !.answering = @ \ {id}])
           t == ServerListenerAborts(s, id)
<1>1. s \in ServerRecs /\ ServerTyped(s) /\ s.out = <<>> /\ AtRest(s.life) /\ s.seq \in Nat
  BY StartIs DEF ServerStart, ServerOK
<1>2. AtRest(g) /\ Woken(s.life, g)
  BY <1>1, NotifyRests
<1>4. q = [s EXCEPT !.answering = a, !.life = g]
  BY <1>1 DEF Progress, ServerRecs
<1> HIDE DEF q, g
<1>5. q \in ServerRecs /\ q.life = g
  BY <1>1, <1>2, <1>4 DEF ServerRecs, AtRest
<1>6. /\ SameWords(s, q) /\ q.phase = s.phase /\ q.attached = s.attached /\ q.released = s.released
      /\ q.pendingEnd = s.pendingEnd /\ q.out = <<>> /\ q.seq = s.seq /\ q.pageSeq = s.pageSeq
      /\ q.closeSeq = s.closeSeq /\ q.seqOf = s.seqOf /\ q.ackRes = s.ackRes
  BY <1>1, <1>4 DEF ServerRecs, SameWords
<1>7. s.pageSeq <= s.seq
  BY <1>1 DEF ServerTyped
<1>8. ServerMoves(s, q, <<>>, FALSE) /\ ServerClean(s, q) /\ Stays(s, q) /\ ServerTyped(q)
  BY <1>2, <1>5, <1>6, <1>7, ServerWakes
<1>9. CASE s.phase = "open"
  <2> DEFINE u == ServerAbort(q)
  <2>1. t = u
    BY <1>9 DEF ServerListenerAborts, q
  <2> HIDE DEF t
  <2>2. ServerMoves(s, u, u.out, FALSE) /\ ServerClean(s, u) /\ Stays(s, u)
    BY <1>2, <1>5, <1>6, <1>8, <1>9, AbortDoes
  <2> HIDE DEF u
  <2> QED BY <2>1, <2>2 DEF t
<1>10. CASE s.phase # "open"
  <2>1. t = q
    BY <1>10 DEF ServerListenerAborts, q
  <2> HIDE DEF t
  <2> QED BY <1>6, <1>8, <2>1 DEF t
<1> QED BY <1>9, <1>10

\* The promise of an ack request that was answered.
LEMMA HoldAnswered ==
    ASSUME NEW s, ServerTyped(s), ServerBuffered(s), use \in Uses, NEW x, x \in s.pendingAcks
    PROVE  LET g == Settled(s.promise, {x}, "ok") IN
           /\ g \in [ServerIds -> States]
           /\ Holding(s.buf, g, s.phase = "ended", s.pendingAcks \ {x}, s.asked, s.sent)
           /\ PendingOf(g) \subseteq PendingOf(s.promise)
           /\ \A i \in ServerIds : s.promise[i] = "failed" => g[i] = "failed"
<1> DEFINE g == Settled(s.promise, {x}, "ok")
           b == s.buf
<1>0. s.promise \in [ServerIds -> States]
  BY DEF ServerTyped, ServerRecs
<1>1. /\ g \in [ServerIds -> States] /\ PendingOf(g) = PendingOf(s.promise) \ {x}
      /\ \A i \in ServerIds : s.promise[i] # "pending" \/ i \notin {x} => g[i] = s.promise[i]
  BY <1>0, SettledDoes
<1> HIDE DEF g
<1>2. \A i \in ServerIds : (s.promise[i] = "failed" => g[i] = "failed") /\ (i # x => g[i] = s.promise[i])
  BY <1>1
<1>3. ASSUME NEW k \in QueueKinds, NEW i \in 1 .. Len(b.queue[k])
      PROVE  Held(b.queue[k][i], k, g, s.phase = "ended", s.pendingAcks \ {x}, s.asked)
  <2>1. /\ Held(b.queue[k][i], k, s.promise, s.phase = "ended", s.pendingAcks, s.asked)
        /\ b.queue[k][i].id \in 1 .. s.sent
    BY DEF ServerBuffered, Holding, BufferSorted
  <2>2. b.queue[k][i].id \in ServerIds /\ b.queue[k][i].id # x
    BY <2>1, IdsSent DEF Held
  <2>3. g[b.queue[k][i].id] = s.promise[b.queue[k][i].id]
    BY <1>2, <2>2
  <2> QED BY <2>1, <2>3 DEF Held
<1>4. PendingOf(g) \subseteq (s.pendingAcks \ {x}) \cup StillWaiting(b)
  BY <1>1 DEF ServerBuffered, Holding
<1>5. Holding(b, g, s.phase = "ended", s.pendingAcks \ {x}, s.asked, s.sent)
  BY <1>3, <1>4 DEF ServerBuffered, Holding
<1> QED BY <1>1, <1>2, <1>5 DEF g

\* onPeerAckRes
LEMMA ServerTakesAckRes ==
    ASSUME NEW s, ServerStart(s), NEW f
    PROVE  LET t == TakeAckRes(s, f) IN
           ServerMoves(s, t, <<>>, FALSE) /\ ServerClean(s, t) /\ Stays(s, t) /\ t.out = <<>>
<1>1. /\ s \in ServerRecs /\ ServerTyped(s) /\ ServerBuffered(s) /\ s.out = <<>> /\ AtRest(s.life)
      /\ s.seq \in Nat /\ use \in Uses
      /\ Woken(s.life, s.life)
  BY StartIs DEF ServerStart, ServerOK, Woken
<1>2. CASE f.id \notin s.pendingAcks
  <2>1. TakeAckRes(s, f) = s
    BY <1>2 DEF TakeAckRes
  <2>2. SameWords(s, s) /\ s.pageSeq <= s.seq
    BY <1>1 DEF SameWords, ServerTyped
  <2>3. ServerMoves(s, s, <<>>, FALSE) /\ ServerClean(s, s) /\ Stays(s, s)
    BY <1>1, <2>2, ServerWakes
  <2> QED BY <1>1, <2>1, <2>3
<1>3. CASE f.id \in s.pendingAcks
  <2> DEFINE x == f.id
             g == Settled(s.promise, {x}, "ok")
             h == NotifyProgress(s.life)
             t == [s EXCEPT !.pendingAcks = s.pendingAcks \ {x}, !.promise = g, !.life = h]
  <2>1. TakeAckRes(s, f) = t
    BY <1>1, <1>3 DEF TakeAckRes, Progress, Settle, Settled, ServerRecs
  <2>2. s.promise \in [ServerIds -> States] /\ s.sent \in Nat /\ 1 .. s.sent \subseteq ServerIds
    BY <1>1, IdsSent DEF ServerRecs
  <2>3. AtRest(h) /\ Woken(s.life, h)
    BY <1>1, NotifyRests
  <2>4. /\ g \in [ServerIds -> States]
        /\ Holding(s.buf, g, s.phase = "ended", s.pendingAcks \ {x}, s.asked, s.sent)
        /\ PendingOf(g) \subseteq PendingOf(s.promise)
        /\ \A i \in ServerIds : s.promise[i] = "failed" => g[i] = "failed"
    <3>1. x \in s.pendingAcks
      BY <1>3
    <3> HIDE DEF x, h, t
    <3> QED BY <1>1, <3>1, HoldAnswered
  <2> HIDE DEF x, g, h
  <2>5. t \in ServerRecs /\ t.pendingAcks = s.pendingAcks \ {x} /\ t.promise = g /\ t.life = h
    BY <1>1, <2>3, <2>4 DEF ServerRecs, AtRest
  <2>6. /\ SameElse(s, t) /\ t.phase = s.phase /\ t.attached = s.attached /\ t.released = s.released
        /\ t.pendingEnd = s.pendingEnd /\ t.buf = s.buf
    BY <1>1 DEF ServerRecs, SameElse
  <2> HIDE DEF t
  <2>7. ServerTyped(t)
    BY <1>1, <2>5, <2>6 DEF ServerTyped, SameElse
  <2>8. ServerBuffered(t)
    BY <2>4, <2>5, <2>6 DEF ServerBuffered, SameElse
  <2>9. ServerOK(t)
    BY <2>3, <2>5, <2>6, <2>7, <2>8 DEF ServerOK, ServerStart, Woken
  <2>10. Keeps(s, t)
    BY <2>3, <2>4, <2>5, <2>6 DEF Keeps, Pending, PendingOf, Woken
  <2>11. SameWords(s, s) /\ s.seq = s.seq + Len(<<>>)
    BY <1>1, NoFrame DEF SameWords
  <2>12. ServerWords(s, t, <<>>)
    BY <1>1, <2>10, <2>11, NoFrame, WordsOf
  <2>13. ServerLife(s, t, <<>>, FALSE)
    BY <2>3, <2>5, <2>6, NoFrame DEF ServerLife, Woken
  <2>14. ServerClean(s, t) /\ Stays(s, t)
    <3>1. s.attached => s.phase # "ended"
      BY DEF ServerStart, ServerOK
    <3>2. s.attached \in BOOLEAN
      BY <1>1 DEF ServerRecs
    <3> QED BY <2>3, <2>5, <2>6, <3>1, <3>2 DEF ServerClean, Stays, Woken
  <2>15. t.out = <<>>
    BY <1>1, <2>6 DEF SameElse
  <2> QED BY <2>1, <2>9, <2>12, <2>13, <2>14, <2>15 DEF ServerMoves
<1> QED BY <1>2, <1>3

\* An end that heard a message, the next of those it got.
ServerHears(s, t, f) ==
    /\ ServerOK(t) /\ t.got = Append(s.got, f.id) /\ t.sent = s.sent /\ t.asked = s.asked
    /\ t.out = <<>> /\ t.seq = s.seq /\ t.phase = s.phase /\ t.life = s.life
    /\ t.promise = s.promise /\ t.buf = s.buf /\ t.pendingAcks = s.pendingAcks
    /\ t.attached = s.attached /\ t.released = s.released /\ t.pendingEnd = s.pendingEnd

\* onPeerMessage, onPeerAckReqMessage
LEMMA ServerHearsDoes ==
    ASSUME NEW s, ServerStart(s), NEW f, f.id \in PageIds, f.ack \in BOOLEAN
    PROVE  ServerHears(s, Hear(s, f), f)
<1> DEFINE g == Append(s.got, f.id)
           a == IF f.ack THEN s.answering \cup {f.id} ELSE s.answering
           t == [s EXCEPT !.got = g, !.answering = a]
<1>1. s \in ServerRecs /\ ServerOK(s) /\ s.out = <<>>
  BY StartIs DEF ServerStart
<1>2. g \in Seq(PageIds) /\ a \subseteq PageIds
  BY <1>1 DEF ServerRecs
<1>3. Hear(s, f) = t
  BY <1>1 DEF Hear, ServerRecs
<1> HIDE DEF g, a
<1>4. t \in ServerRecs /\ t.got = g
  BY <1>1, <1>2 DEF ServerRecs
<1>5. /\ t.sent = s.sent /\ t.asked = s.asked /\ t.out = s.out /\ t.seq = s.seq /\ t.phase = s.phase
      /\ t.life = s.life /\ t.promise = s.promise /\ t.buf = s.buf
      /\ t.pendingAcks = s.pendingAcks /\ t.attached = s.attached /\ t.released = s.released
      /\ t.pendingEnd = s.pendingEnd /\ t.pageSeq = s.pageSeq /\ t.closeSeq = s.closeSeq
      /\ t.seqOf = s.seqOf
  BY <1>1 DEF ServerRecs
<1> HIDE DEF t
<1>6. ServerTyped(t)
  BY <1>1, <1>4, <1>5 DEF ServerTyped, ServerOK
<1>7. ServerBuffered(t)
  BY <1>1, <1>5 DEF ServerBuffered, ServerOK
<1>8. ServerOK(t)
  BY <1>1, <1>5, <1>6, <1>7 DEF ServerOK
<1>9. ServerHears(s, t, f)
  BY <1>1, <1>4, <1>5, <1>8 DEF ServerHears, g
<1> QED BY <1>3, <1>9

\* An end whose CLOSE was acknowledged.
ServerIsAcked(s, t) ==
    /\ ServerOK(t) /\ SameWords(s, t) /\ t.phase = s.phase /\ t.out = <<>> /\ t.seq = s.seq
    /\ t.attached = s.attached /\ t.released = s.released /\ t.pendingEnd = s.pendingEnd
    /\ t.life.acked /\ t.life.requested = s.life.requested /\ t.life.ended = s.life.ended
    /\ t.life.fired = s.life.fired /\ (t.life.run = "none") = (s.life.run = "none")

\* onPeerCloseAck, and how far the page is.
LEMMA ServerIsAckedDoes ==
    ASSUME NEW s, ServerStart(s)
    PROVE  ServerIsAcked(s, [OnPageHas(s, s.closeSeq) EXCEPT !.life = CloseAckReceived(@)])
<1> DEFINE r == OnPageHas(s, s.closeSeq)
           g == CloseAckReceived(r.life)
           t == [r EXCEPT !.life = g]
<1>1. s.closeSeq \in Nat /\ s.closeSeq <= s.seq
  BY StartIs DEF ServerStart, ServerOK, ServerTyped, ServerRecs
<1>2. SameButPage(s, r)
  BY <1>1, PageIsAhead
<1> HIDE DEF r
<1>3. /\ ServerStart(r) /\ SameWords(s, r) /\ r.phase = s.phase /\ r.life = s.life /\ r.out = <<>>
      /\ r.attached = s.attached /\ r.released = s.released /\ r.pendingEnd = s.pendingEnd
      /\ r.seq = s.seq
  BY <1>2 DEF SameButPage
<1>4. r \in ServerRecs /\ ServerOK(r) /\ AtRest(r.life)
  BY <1>3, StartIs DEF ServerStart
<1>5. /\ AtRest(g) /\ g.acked
      /\ g.requested = s.life.requested /\ g.ended = s.life.ended
      /\ g.fired = s.life.fired /\ (g.run = "none") = (s.life.run = "none")
  BY <1>3, <1>4, AckRests
<1> HIDE DEF g
<1>6. t \in ServerRecs /\ t.life = g
  BY <1>4, <1>5 DEF ServerRecs, AtRest
<1>7. /\ SameWords(r, t) /\ t.phase = r.phase /\ t.out = r.out /\ t.seq = r.seq
      /\ t.attached = r.attached /\ t.released = r.released /\ t.pendingEnd = r.pendingEnd
      /\ t.pageSeq = r.pageSeq /\ t.closeSeq = r.closeSeq /\ t.seqOf = r.seqOf
  BY <1>4 DEF ServerRecs, SameWords
<1> HIDE DEF t
<1>8. ServerTyped(t)
  BY <1>4, <1>6, <1>7 DEF ServerTyped, ServerOK, SameWords
<1>9. ServerBuffered(t)
  BY <1>4, <1>7 DEF ServerBuffered, ServerOK, SameWords
<1>10. ServerOK(t)
  BY <1>3, <1>4, <1>5, <1>6, <1>7, <1>8, <1>9 DEF ServerOK, SameWords
<1>11. SameWords(s, t)
  BY <1>3, <1>7 DEF SameWords
<1>12. ServerIsAcked(s, t)
  BY <1>3, <1>5, <1>6, <1>7, <1>10, <1>11 DEF ServerIsAcked
<1>13. t = [r EXCEPT !.life = CloseAckReceived(@)]
  BY DEF t, g
<1> QED BY <1>12, <1>13 DEF r

\* _release, of an end that ended
LEMMA ServerReleasesDoes ==
    ASSUME NEW s, ServerStart(s), s.phase = "ended"
    PROVE  LET t == Release(s) IN
           ServerMoves(s, t, <<>>, FALSE) /\ ServerClean(s, t) /\ Stays(s, t) /\ t.out = <<>>
<1> DEFINE g == Settled(s.promise, StillWaiting(s.buf) \ StillWaiting(EmptyBuffer), "failed")
           t == Release(s)
<1>1. /\ s \in ServerRecs /\ ServerTyped(s) /\ ServerBuffered(s) /\ s.out = <<>> /\ AtRest(s.life)
      /\ s.seq \in Nat /\ use \in Uses /\ s.life.ended /\ s.pendingAcks = {} /\ s.attached \in BOOLEAN
      /\ ~s.attached
  BY StartIs DEF ServerStart, ServerOK
<1>2. /\ t \in ServerRecs /\ SameElse(s, t) /\ t.buf = EmptyBuffer /\ t.promise = g
      /\ t.life = NotifyProgress(s.life) /\ t.phase = s.phase /\ t.pendingAcks = s.pendingAcks
      /\ t.attached = s.attached /\ t.ackRes = <<>> /\ t.pendingEnd = NoPendingEnd
      /\ t.released
  BY <1>1, ReleaseDoes
<1>3. /\ s.promise \in [ServerIds -> States] /\ s.sent \in Nat /\ 1 .. s.sent \subseteq ServerIds
  BY <1>1, IdsSent DEF ServerRecs
<1>4. Holding(s.buf, s.promise, TRUE, s.pendingAcks, s.asked, s.sent)
  <2>1. (s.phase = "ended") = TRUE
    OBVIOUS
  <2> QED BY <1>1, <2>1 DEF ServerBuffered
<1>5. /\ Holding(EmptyBuffer, g, TRUE, s.pendingAcks, s.asked, s.sent)
      /\ PendingOf(g) \subseteq PendingOf(s.promise)
      /\ \A i \in ServerIds : s.promise[i] = "failed" => g[i] = "failed"
      /\ \A i : Holds(s.buf, i) => g[i] = "failed"
  BY <1>3, <1>4, HoldEmptied
<1> HIDE DEF g, t
<1>6. Entries(EmptyBuffer) = {} /\ \A i : ~Holds(EmptyBuffer, i)
  BY EmptyBufferIs, HoldsIs
<1>7. ~NoPendingEnd.abort /\ ~NoPendingEnd.closeAck /\ ~NoPendingEnd.error /\ ~NoPendingEnd.closeRequest
  BY DEF NoPendingEnd
<1>8. t.life = s.life
  BY <1>1, <1>2 DEF NotifyProgress, AtRest
<1>9. ServerTyped(t)
  BY <1>1, <1>2, <1>7 DEF ServerTyped, SameElse
<1>10. ServerBuffered(t)
  <2>1. (t.phase = "ended") = TRUE
    BY <1>2
  <2> QED BY <1>2, <1>5, <2>1 DEF ServerBuffered, SameElse
<1>11. ServerOK(t)
  BY <1>1, <1>2, <1>6, <1>7, <1>8, <1>9, <1>10 DEF ServerOK, SameElse
<1>12. Keeps(s, t)
  BY <1>2, <1>5, <1>6, <1>7, <1>8 DEF Keeps, Pending, PendingOf
<1>13. SameWords(s, s) /\ s.seq = s.seq + Len(<<>>)
  BY <1>1, NoFrame DEF SameWords
<1>14. ServerWords(s, t, <<>>)
  BY <1>1, <1>12, <1>13, NoFrame, WordsOf
<1>15. ServerLife(s, t, <<>>, FALSE)
  BY <1>1, <1>2, <1>7, <1>8, NoFrame DEF ServerLife
<1>16. ServerClean(s, t) /\ Stays(s, t)
  BY <1>1, <1>2, <1>8 DEF ServerClean, Stays
<1>17. t.out = <<>>
  BY <1>1, <1>2 DEF SameElse
<1> QED BY <1>11, <1>14, <1>15, <1>16, <1>17 DEF ServerMoves, t

\* Two ends with the same messages and the same close move alike.
LEMMA MovesAlike ==
    ASSUME NEW s, NEW r, NEW t, NEW fs, NEW told, SameButPage(s, r), ServerMoves(r, t, fs, told),
           ServerClean(r, t), Stays(r, t)
    PROVE  ServerMoves(s, t, fs, told) /\ ServerClean(s, t) /\ Stays(s, t)
<1>1. /\ r.sent = s.sent /\ r.got = s.got /\ r.asked = s.asked /\ r.promise = s.promise
      /\ r.buf = s.buf /\ r.pendingAcks = s.pendingAcks /\ r.phase = s.phase /\ r.life = s.life
      /\ r.attached = s.attached /\ r.released = s.released /\ r.pendingEnd = s.pendingEnd
      /\ r.seq = s.seq
  BY DEF SameButPage, SameWords
<1>2. Pending(r) = Pending(s)
  BY <1>1 DEF Pending
<1>3. Silent(r) = Silent(s)
  BY <1>1 DEF Silent
<1>4. ServerWords(s, t, fs)
  BY <1>1, <1>2 DEF ServerMoves, ServerWords
<1>5. ServerLife(s, t, fs, told)
  BY <1>1, <1>2, <1>3 DEF ServerMoves, ServerLife
<1>6. ServerClean(s, t) /\ Stays(s, t)
  BY <1>1, <1>2 DEF ServerClean, Stays
<1> QED BY <1>4, <1>5, <1>6 DEF ServerMoves

\* The page closed the channel: what ended is let go of (_onPageClosed).
LEMMA ServerReportsDoes ==
    ASSUME NEW s, ServerStart(s), NEW n \in Nat, n <= s.seq
    PROVE  LET r == OnPageHas([s EXCEPT !.pageClosed = TRUE], n)
               t == IF r.phase = "ended" THEN Release(r) ELSE r IN
           ServerMoves(s, t, <<>>, FALSE) /\ ServerClean(s, t) /\ Stays(s, t) /\ t.out = <<>>
<1> DEFINE r == OnPageHas([s EXCEPT !.pageClosed = TRUE], n)
           t == IF r.phase = "ended" THEN Release(r) ELSE r
<1>1. SameButPage(s, r)
  BY PageClosedDoes
<1> HIDE DEF r
<1>2. CASE r.phase = "ended"
  <2> DEFINE u == Release(r)
  <2>1. ServerMoves(r, u, <<>>, FALSE) /\ ServerClean(r, u) /\ Stays(r, u) /\ u.out = <<>>
    BY <1>1, <1>2, ServerReleasesDoes DEF SameButPage
  <2>2. t = u
    BY <1>2
  <2> HIDE DEF u, t
  <2>3. ServerMoves(s, u, <<>>, FALSE) /\ ServerClean(s, u) /\ Stays(s, u)
    BY <1>1, <2>1, MovesAlike
  <2> QED BY <2>1, <2>2, <2>3 DEF t, r
<1>3. CASE r.phase # "ended"
  <2>1. t = r
    BY <1>3
  <2> HIDE DEF t
  <2> QED BY <1>1, <2>1 DEF SameButPage, t, r
<1> QED BY <1>2, <1>3

\* A frame is read: _dispatchFrame.
ServerReadsOf(s, t, f) ==
    \/ s.phase = "ended" /\ t = s
    \/ s.phase # "ended" /\ f.t = "MESSAGE" /\ ServerHears(s, t, f)
    \/ s.phase # "ended" /\ f.t \in {"ACK_RES", "ABORT"} /\ ServerMoves(s, t, t.out, FALSE)
       /\ ServerClean(s, t) /\ Stays(s, t)
    \/ s.phase # "ended" /\ f.t = "CLOSE" /\ ServerMoves(s, t, t.out, TRUE)
       /\ ServerClean(s, t) /\ Stays(s, t)
    \/ s.phase # "ended" /\ f.t = "CLOSE_ACK" /\ ServerIsAcked(s, t)

\* A frame to the server has its kind's fields.
LEMMA ServerFrameIs ==
    ASSUME NEW f \in ToServerFrames
    PROVE  /\ f.t \in {"MESSAGE", "ACK_RES", "CLOSE", "CLOSE_ACK", "ABORT"}
           /\ f.t = "MESSAGE" => f.id \in PageIds /\ f.ack \in BOOLEAN
           /\ f.t = "ACK_RES" => f.id \in ServerIds
           /\ f.t = "CLOSE" => f.left \in Times
BY DEF ToServerFrames

\* Of each kind of frame, what reading it does to the server's end.
LEMMA ServerTakesDoes ==
    ASSUME NEW s, ServerStart(s), NEW f \in ToServerFrames, s.phase # "ended" => s.attached
    PROVE  ServerReadsOf(s, ServerTakes(s, f), f)
<1> DEFINE t == ServerTakes(s, f)
<1>1. CASE s.phase = "ended"
  <2>1. t = s
    BY <1>1 DEF ServerTakes
  <2> HIDE DEF t
  <2>2. ServerReadsOf(s, t, f)
    BY <1>1, <2>1 DEF ServerReadsOf
  <2> QED BY <2>2 DEF t
<1>2. CASE s.phase # "ended" /\ f.t = "MESSAGE"
  <2>1. t = Hear(s, f)
    BY <1>2 DEF ServerTakes
  <2>2. ServerHears(s, Hear(s, f), f)
    BY <1>2, ServerFrameIs, ServerHearsDoes
  <2> HIDE DEF t
  <2>3. ServerReadsOf(s, t, f)
    BY <1>2, <2>1, <2>2 DEF ServerReadsOf
  <2> QED BY <2>3 DEF t
<1>3. CASE s.phase # "ended" /\ f.t = "ACK_RES"
  <2> DEFINE n == s.seqOf[f.id]
             r == OnPageHas(s, n)
             u == TakeAckRes(r, f)
  <2>1. t = u
    BY <1>3 DEF ServerTakes
  <2>2. n \in Nat /\ n <= s.seq
    <3>1. f.id \in ServerIds
      BY <1>3, ServerFrameIs
    <3> QED BY <3>1 DEF ServerStart, ServerOK, ServerTyped, ServerRecs
  <2> HIDE DEF n
  <2>3. SameButPage(s, r)
    BY <2>2, PageIsAhead
  <2> HIDE DEF r
  <2>4. ServerStart(r)
    BY <2>3 DEF SameButPage
  <2>5. ServerMoves(r, u, <<>>, FALSE) /\ ServerClean(r, u) /\ Stays(r, u) /\ u.out = <<>>
    BY <2>4, ServerTakesAckRes
  <2> HIDE DEF u, t
  <2>6. ServerMoves(s, u, <<>>, FALSE) /\ ServerClean(s, u) /\ Stays(s, u)
    BY <2>3, <2>5, MovesAlike
  <2>7. ServerReadsOf(s, t, f)
    BY <1>3, <2>1, <2>5, <2>6 DEF ServerReadsOf
  <2> QED BY <2>7 DEF t
<1>4. CASE s.phase # "ended" /\ f.t = "CLOSE"
  <2> DEFINE u == ServerTakesClose(s, f.left)
  <2>1. t = u
    BY <1>4 DEF ServerTakes
  <2>2. f.left \in Times
    BY <1>4, ServerFrameIs
  <2>3. ServerMoves(s, u, u.out, TRUE) /\ ServerClean(s, u) /\ Stays(s, u)
    BY <1>4, <2>2, ServerTakesCloseDoes
  <2> HIDE DEF u, t
  <2>4. ServerReadsOf(s, t, f)
    BY <1>4, <2>1, <2>3 DEF ServerReadsOf
  <2> QED BY <2>4 DEF t
<1>5. CASE s.phase # "ended" /\ f.t = "CLOSE_ACK"
  <2> DEFINE u == [OnPageHas(s, s.closeSeq) EXCEPT !.life = CloseAckReceived(@)]
  <2>1. t = u
    BY <1>5 DEF ServerTakes
  <2>2. ServerIsAcked(s, u)
    BY ServerIsAckedDoes
  <2> HIDE DEF u, t
  <2>3. ServerReadsOf(s, t, f)
    BY <1>5, <2>1, <2>2 DEF ServerReadsOf
  <2> QED BY <2>3 DEF t
<1>6. CASE s.phase # "ended" /\ f.t = "ABORT"
  <2> DEFINE u == Shutdown(s, "abort", TRUE)
  <2>1. t = u
    BY <1>6 DEF ServerTakes
  <2>2. "abort" \in Errors /\ "abort" # "none"
    BY DEF Errors
  <2>3. ServerMoves(s, u, u.out, FALSE) /\ ServerClean(s, u) /\ Stays(s, u)
    BY <1>6, <2>2, ServerGoneDoes
  <2> HIDE DEF u, t
  <2>4. ServerReadsOf(s, t, f)
    BY <1>6, <2>1, <2>3 DEF ServerReadsOf
  <2> QED BY <2>4 DEF t
<1> QED BY <1>1, <1>2, <1>3, <1>4, <1>5, <1>6, ServerFrameIs

\* endWithError, of an end whose page is attached: nothing waits any more.
LEMMA OverflowDoes ==
    ASSUME NEW r, ServerTyped(r), r.phase # "ended", ~r.released, r.attached, use \in Uses,
           PendingOf(r.promise) \subseteq r.pendingAcks \cup StillWaiting(r.buf)
    PROVE  LET t == Overflow(r) IN
           /\ ServerOK(t) /\ t.phase = "ended" /\ t.life.ended /\ t.life.error = "overflow"
           /\ t.attached = FALSE /\ (\A i : ~Holds(t.buf, i))
           /\ t.out = Append(r.out, Ctrl("ERROR")) /\ t.seq = r.seq + 1
           /\ t.sent = r.sent /\ t.got = r.got /\ t.asked = r.asked
           /\ Pending(t) \subseteq Pending(r)
           /\ \A i \in ServerIds : r.promise[i] = "failed" => t.promise[i] = "failed"
           /\ \A i \in ServerIds : r.promise[i] = "pending" /\ i \in StillWaiting(r.buf) =>
                 t.promise[i] = "failed"
           /\ t.life.acked = r.life.acked /\ t.life.requested = r.life.requested
           /\ t.pendingEnd.abort => r.pendingEnd.abort
<1> DEFINE c == WithBuffer(r, EmptyBuffer)
           f == Ctrl("ERROR")
           e == [c EXCEPT !.seq = c.seq + 1, !.out = Append(c.out, f)]
           g == Settled(r.promise, StillWaiting(r.buf) \ StillWaiting(EmptyBuffer), "failed")
           t == Overflow(r)
<1>1. /\ r \in ServerRecs /\ r.promise \in [ServerIds -> States] /\ r.sent \in Nat /\ r.seq \in Nat
      /\ 1 .. r.sent \subseteq ServerIds /\ r.life \in Handshakes
  BY IdsSent DEF ServerTyped, ServerRecs
<1>2. EmptyBuffer \in Buffers /\ StillWaiting(EmptyBuffer) = {} /\ \A i : ~Holds(EmptyBuffer, i)
  <2>1. EmptyBuffer \in Buffers /\ Entries(EmptyBuffer) = {}
    BY EmptyBufferIs
  <2> QED BY <2>1 DEF StillWaiting, Holds
<1>3. /\ c \in ServerRecs /\ SameElse(r, c) /\ c.buf = EmptyBuffer /\ c.promise = g
      /\ c.life = NotifyProgress(r.life) /\ c.phase = r.phase /\ c.pendingAcks = r.pendingAcks
      /\ c.attached = r.attached /\ c.pendingEnd = r.pendingEnd /\ c.released = r.released
  BY <1>1, <1>2, WithBufferDoes, ZenonT(180)
<1>4. /\ g \in [ServerIds -> States] /\ PendingOf(g) \subseteq r.pendingAcks
      /\ PendingOf(g) \subseteq PendingOf(r.promise)
      /\ \A i \in ServerIds : r.promise[i] = "failed" => g[i] = "failed"
      /\ \A i \in ServerIds : r.promise[i] = "pending" /\ i \in StillWaiting(r.buf) => g[i] = "failed"
  <2> DEFINE ids == StillWaiting(r.buf) \ StillWaiting(EmptyBuffer)
             h == Settled(r.promise, ids, "failed")
  <2>1. ids = StillWaiting(r.buf)
    BY <1>2
  <2>2. /\ h \in [ServerIds -> States] /\ PendingOf(h) = PendingOf(r.promise) \ ids
        /\ \A i \in ServerIds : /\ r.promise[i] # "pending" \/ i \notin ids => h[i] = r.promise[i]
                                /\ r.promise[i] = "pending" /\ i \in ids => h[i] = "failed"
    <3> HIDE DEF ids
    <3> QED BY <1>1, SettledDoes
  <2>3. g = h
    OBVIOUS
  <2> HIDE DEF ids, g, h
  <2> QED BY <2>1, <2>2, <2>3
<1>5. t = Shutdown(e, "overflow", FALSE)
  <2>1. Emit(c, f) = e
    BY <1>3 DEF Emit, ServerRecs
  <2> HIDE DEF c, e, f
  <2> QED BY <2>1 DEF Overflow, c, f
<1>6. f \in ToPageFrames
  BY FrameTypes
<1> HIDE DEF c, g, f, t
<1>7. e \in ServerRecs /\ e.seq = r.seq + 1 /\ e.out = Append(r.out, f)
  <2>1. c.seq = r.seq /\ c.out = r.out /\ c.out \in Seq(ToPageFrames)
    BY <1>3 DEF SameElse, ServerRecs
  <2>2. r.seq + 1 \in Nat /\ Append(r.out, f) \in Seq(ToPageFrames)
    BY <1>1, <1>6, <2>1
  <2> QED BY <1>3, <2>1, <2>2 DEF ServerRecs
<1>8. /\ e.sent = r.sent /\ e.asked = r.asked /\ e.answering = r.answering /\ e.got = r.got
      /\ e.seqOf = r.seqOf /\ e.pageSeq = r.pageSeq /\ e.closeSeq = r.closeSeq
      /\ e.buf = EmptyBuffer /\ e.promise = g /\ e.life = NotifyProgress(r.life) /\ e.phase = r.phase
      /\ e.pendingAcks = r.pendingAcks /\ e.attached = r.attached /\ e.pendingEnd = r.pendingEnd
      /\ e.released = r.released
  <2>1. /\ e.sent = c.sent /\ e.asked = c.asked /\ e.answering = c.answering /\ e.got = c.got
        /\ e.seqOf = c.seqOf /\ e.pageSeq = c.pageSeq /\ e.closeSeq = c.closeSeq
        /\ e.buf = c.buf /\ e.promise = c.promise /\ e.life = c.life /\ e.phase = c.phase
        /\ e.pendingAcks = c.pendingAcks /\ e.attached = c.attached /\ e.pendingEnd = c.pendingEnd
        /\ e.released = c.released
    BY <1>3 DEF ServerRecs
  <2> HIDE DEF e
  <2> QED BY <1>3, <2>1 DEF SameElse
<1> HIDE DEF e
<1>9. ServerTyped(e)
  <2>1. /\ r.pageSeq \in Nat /\ r.pageSeq <= r.seq /\ r.closeSeq \in Nat /\ r.closeSeq <= r.seq
        /\ \A i \in ServerIds : r.seqOf[i] \in Nat /\ r.seqOf[i] <= r.seq
    BY <1>1 DEF ServerTyped, ServerRecs
  <2>2. /\ r.pageSeq <= r.seq + 1 /\ r.closeSeq <= r.seq + 1
        /\ \A i \in ServerIds : r.seqOf[i] <= r.seq + 1
    BY <1>1, <2>1
  <2> QED BY <1>7, <1>8, <2>2 DEF ServerTyped
<1>10. ServerBuffered(e)
  <2>1. \A k \in QueueKinds : Len(EmptyBuffer.queue[k]) = 0
    BY EmptyBufferIs
  <2>2. \A i : i \notin 1 .. 0
    OBVIOUS
  <2>3. BufferSorted(EmptyBuffer, r.sent)
    BY <1>1, EmptyBufferIs
  <2>4. Holding(EmptyBuffer, g, e.phase = "ended", r.pendingAcks, r.asked, r.sent)
    BY <1>2, <1>4, <2>1, <2>2, <2>3 DEF Holding, NoGap
  <2> QED BY <1>8, <2>4 DEF ServerBuffered
<1>11. "overflow" \in Errors /\ e.phase # "ended" /\ ~e.released
  BY <1>8 DEF Errors
<1>12. /\ ServerOK(t) /\ Keeps(e, t) /\ t.phase = "ended" /\ t.life.ended /\ t.life.error = "overflow"
       /\ t.attached = FALSE
  <2> DEFINE u == Shutdown(e, "overflow", FALSE)
  <2>1. /\ ServerOK(u) /\ Keeps(e, u) /\ u.phase = "ended" /\ u.life.ended /\ u.life.error = "overflow"
        /\ u.attached = FALSE
    BY <1>9, <1>10, <1>11, ShutdownDoes
  <2> HIDE DEF u
  <2> QED BY <1>5, <2>1 DEF u
<1>13. Woken(r.life, e.life)
  BY <1>1, <1>8, NotifyDoes
<1>14. /\ t.out = Append(r.out, f) /\ t.seq = r.seq + 1 /\ t.sent = r.sent /\ t.got = r.got
       /\ t.asked = r.asked /\ t.life.acked = r.life.acked /\ t.life.requested = r.life.requested
       /\ (t.pendingEnd.abort => r.pendingEnd.abort)
  BY <1>7, <1>8, <1>12, <1>13 DEF Keeps, SameElse, Woken
<1>15. \A i : ~Holds(t.buf, i)
  BY <1>2, <1>8, <1>12 DEF Keeps
<1>16. Pending(t) \subseteq Pending(r)
  BY <1>4, <1>8, <1>12 DEF Keeps, Pending, PendingOf
<1>17. /\ \A i \in ServerIds : r.promise[i] = "failed" => t.promise[i] = "failed"
       /\ \A i \in ServerIds : r.promise[i] = "pending" /\ i \in StillWaiting(r.buf) => t.promise[i] = "failed"
  BY <1>4, <1>8, <1>12 DEF Keeps
<1> QED BY <1>12, <1>14, <1>15, <1>16, <1>17 DEF t, f

\* A buffer without entries holds nothing that waits.
LEMMA HoldsNothing ==
    ASSUME NEW b \in Buffers, Entries(b) = {}
    PROVE  /\ StillWaiting(b) = {} /\ (\A i : ~Holds(b, i))
           /\ \A f, acks, asked, n, ended : PendingOf(f) \subseteq acks => Holding(b, f, ended, acks, asked, n)
<1>1. StillWaiting(b) = {} /\ (\A i : ~Holds(b, i))
  BY DEF StillWaiting, Holds
<1>2. \A k \in QueueKinds : \A i : i \notin 1 .. Len(b.queue[k])
  BY EntriesAre
<1>3. "text" \in QueueKinds /\ "binary" \in QueueKinds
  BY DEF QueueKinds
<1>4. \A n : BufferSorted(b, n) /\ NoGap(b, n)
  BY <1>2, <1>3 DEF BufferSorted, Sorted, SortedAcross, NoGap
<1>5. ASSUME NEW f, NEW acks, NEW asked, NEW n, NEW ended, PendingOf(f) \subseteq acks
      PROVE  Holding(b, f, ended, acks, asked, n)
  BY <1>1, <1>2, <1>4, <1>5 DEF Holding
<1> QED BY <1>1, <1>5

\* A send to the page attached.
LEMMA ServerSendsDoes ==
    ASSUME NEW s, ServerStart(s), s.phase = "open", s.attached, s.sent + 1 \in ServerIds,
           Admits(s, use.sends[s.sent + 1].ack)
    PROVE  LET t == ServerSend(s) IN
           ServerMoves(s, t, t.out, FALSE) /\ ServerClean(s, t) /\ Stays(s, t)
<1> DEFINE id == s.sent + 1
           ack == use.sends[id].ack
           f == Message(id, ack)
           pr == [s.promise EXCEPT ![id] = IF ack THEN "pending" ELSE "ok"]
           asked == IF ack THEN s.asked \cup {id} ELSE s.asked
           acks == IF ack THEN s.pendingAcks \cup {id} ELSE s.pendingAcks
           so == [s.seqOf EXCEPT ![id] = s.seq + 1]
           t == [s EXCEPT !.sent = id, !.promise = pr, !.asked = asked, !.pendingAcks = acks,
                          !.seq = s.seq + 1, !.out = <<f>>, !.seqOf = so]
<1>1. /\ s \in ServerRecs /\ ServerTyped(s) /\ ServerBuffered(s) /\ s.out = <<>> /\ AtRest(s.life)
      /\ s.seq \in Nat /\ use \in Uses /\ Entries(s.buf) = {} /\ s.buf \in Buffers /\ s.sent \in Nat
      /\ s.promise \in [ServerIds -> States] /\ s.seqOf \in [ServerIds -> Nat]
      /\ s.asked \subseteq ServerIds /\ s.pendingAcks \subseteq s.asked /\ ServerOK(s)
  BY StartIs DEF ServerStart, ServerOK, ServerTyped, ServerRecs
<1>2. id \in Nat /\ id \in ServerIds /\ ack \in BOOLEAN /\ id <= Len(use.sends) /\ s.seq + 1 \in Nat
      /\ ServerIds = 1 .. Len(use.sends)
  BY <1>1, IdsFinite
<1>3. f \in ToPageFrames /\ f.t = "MESSAGE" /\ f.id = id /\ Append(<<>>, f) = <<f>>
      /\ <<f>> \in Seq(ToPageFrames)
  <2> HIDE DEF ack, id
  <2>1. f \in ToPageFrames /\ f.t = "MESSAGE" /\ f.id = id
    BY <1>2, FrameTypes DEF Message
  <2> HIDE DEF f
  <2> QED BY <2>1
<1>4. ServerSend(s) = t
  <2> HIDE DEF f
  <2>1. CASE ack
    <3> DEFINE n == [s EXCEPT !.sent = id, !.promise[id] = "pending", !.asked = @ \cup {id}]
    <3>1. ServerSend(s) = EmitMessage([n EXCEPT !.pendingAcks = @ \cup {id}], id, ack)
      BY <2>1 DEF ServerSend
    <3>2. EmitMessage([n EXCEPT !.pendingAcks = @ \cup {id}], id, ack) = t
      BY <1>1, <1>2, <1>3, <2>1, ZenonT(180) DEF EmitMessage, Emit, ServerRecs, f
    <3> QED BY <3>1, <3>2
  <2>2. CASE ~ack
    <3> DEFINE n == [s EXCEPT !.sent = id, !.promise[id] = "pending", !.asked = @]
               x == [s EXCEPT !.sent = id, !.promise = pr]
    <3>1. ServerSend(s) = EmitMessage(Settle(n, {id}, "ok"), id, ack)
      BY <2>2 DEF ServerSend
    <3>2. Settle(n, {id}, "ok") = x
      <4>1. n = [s EXCEPT !.sent = id, !.promise = [s.promise EXCEPT ![id] = "pending"]]
        BY <1>1 DEF ServerRecs
      <4>2. [i \in DOMAIN [s.promise EXCEPT ![id] = "pending"] |->
                IF i \in {id} /\ [s.promise EXCEPT ![id] = "pending"][i] = "pending" THEN "ok"
                ELSE [s.promise EXCEPT ![id] = "pending"][i]] = pr
        BY <1>1, <1>2, <2>2
      <4> DEFINE y == [s.promise EXCEPT ![id] = "pending"]
      <4>3. n.promise = y
        BY <1>1, <4>1 DEF ServerRecs
      <4> HIDE DEF pr, y
      <4>4. Settle(n, {id}, "ok") = [n EXCEPT !.promise = pr]
        BY <4>2, <4>3 DEF Settle, y
      <4> QED BY <1>1, <4>1, <4>4, ZenonT(180) DEF ServerRecs
    <3> HIDE DEF n
    <3>3. EmitMessage(x, id, ack) = t
      BY <1>1, <1>2, <1>3, <2>2, ZenonT(180) DEF EmitMessage, Emit, ServerRecs, f
    <3> QED BY <3>1, <3>2, <3>3
  <2> QED BY <1>2, <2>1, <2>2
<1>5. /\ pr \in [ServerIds -> States] /\ pr[id] = (IF ack THEN "pending" ELSE "ok")
      /\ \A i \in ServerIds : i # id => pr[i] = s.promise[i]
  BY <1>1, <1>2 DEF States
<1>6. /\ so \in [ServerIds -> Nat] /\ \A i \in ServerIds : so[i] = s.seq + 1 \/ so[i] = s.seqOf[i]
  BY <1>1, <1>2
<1>7. /\ acks \subseteq asked /\ asked \subseteq ServerIds /\ asked \subseteq {i \in 1 .. id : use.sends[i].ack}
  <2>1. s.asked \subseteq {i \in 1 .. s.sent : use.sends[i].ack}
    BY <1>1 DEF ServerTyped
  <2>2. 1 .. s.sent \subseteq 1 .. id /\ id \in 1 .. id
    BY <1>1
  <2> QED BY <1>1, <1>2, <2>1, <2>2
<1>8. PendingOf(pr) \subseteq acks
  <2>1. PendingOf(s.promise) \subseteq s.pendingAcks
    BY <1>1, HoldsNothing DEF ServerBuffered, Holding
  <2> HIDE DEF pr
  <2> QED BY <1>1, <1>5, <2>1 DEF PendingOf
<1> HIDE DEF pr, asked, acks, so, f, ack
<1>9. /\ t \in ServerRecs /\ t.sent = id /\ t.promise = pr /\ t.asked = asked /\ t.pendingAcks = acks
      /\ t.seq = s.seq + 1 /\ t.out = <<f>> /\ t.seqOf = so
  BY <1>1, <1>2, <1>3, <1>5, <1>6, <1>7, ZenonT(180) DEF ServerRecs
<1>10. /\ t.got = s.got /\ t.phase = s.phase /\ t.life = s.life /\ t.buf = s.buf
       /\ t.attached = s.attached /\ t.released = s.released /\ t.pendingEnd = s.pendingEnd
       /\ t.pageSeq = s.pageSeq /\ t.closeSeq = s.closeSeq
  BY <1>1 DEF ServerRecs
<1> HIDE DEF t
<1>11. ServerTyped(t)
  <2>1. /\ s.pageSeq \in Nat /\ s.pageSeq <= s.seq /\ s.closeSeq \in Nat /\ s.closeSeq <= s.seq
        /\ \A i \in ServerIds : s.seqOf[i] \in Nat /\ s.seqOf[i] <= s.seq
    BY <1>1 DEF ServerTyped, ServerRecs
  <2>2. s.pageSeq <= s.seq + 1 /\ s.closeSeq <= s.seq + 1 /\ \A i \in ServerIds : so[i] <= s.seq + 1
    <3>1. \A i \in ServerIds : s.seqOf[i] <= s.seq + 1
      BY <1>1, <2>1
    <3> QED BY <1>1, <1>6, <2>1, <3>1, SMTT(180)
  <2> QED BY <1>1, <1>2, <1>7, <1>9, <1>10, <2>2 DEF ServerTyped
<1>12. ServerBuffered(t)
  BY <1>1, <1>8, <1>9, <1>10, HoldsNothing DEF ServerBuffered
<1>13. ServerOK(t)
  BY <1>1, <1>10, <1>11, <1>12 DEF ServerOK
<1>14. ServerWords(s, t, <<f>>)
  <2>1. t.seq = s.seq + Len(<<f>>) /\ Ordered(<<f>>) /\ ~CarriesFinal(<<f>>)
        /\ \A i : CarriesId(<<f>>, i) <=> i = id
    BY <1>3, <1>9, OneFrame DEF Finals
  <2>2. \A i : i \in s.sent + 1 .. t.sent <=> i = id
    BY <1>1, <1>9
  <2>3. \A i : ~Holds(s.buf, i)
    BY <1>1, HoldsNothing
  <2>4. \A i \in 1 .. s.sent : i \in ServerIds /\ i # id
    BY <1>1, <1>2
  <2>5. \A i \in 1 .. s.sent : t.promise[i] = s.promise[i]
    BY <1>5, <1>9, <2>4
  <2>6. t.sent # s.sent
    BY <1>1, <1>9
  <2> QED BY <1>1, <1>9, <1>10, <2>1, <2>2, <2>3, <2>5, <2>6 DEF ServerWords
<1>15. ServerLife(s, t, <<f>>, FALSE)
  <2>1. ~Carries(<<f>>, "CLOSE_ACK") /\ ~Carries(<<f>>, "ABORT") /\ ~Carries(<<f>>, "ERROR")
    BY <1>3, OneFrame
  <2>2. ~s.life.fired /\ s.life.run = "none"
    BY <1>1 DEF ServerOK, AtRest
  <2>3. ~s.pendingEnd.abort
    BY <1>1 DEF ServerOK
  <2> QED BY <1>10, <2>1, <2>2, <2>3 DEF ServerLife
<1>16. ServerClean(s, t) /\ Stays(s, t)
  BY <1>1, <1>10 DEF ServerClean, Stays, ServerOK
<1>17. ServerMoves(s, t, t.out, FALSE)
  BY <1>9, <1>13, <1>14, <1>15 DEF ServerMoves
<1>18. ServerMoves(s, t, t.out, FALSE) /\ ServerClean(s, t) /\ Stays(s, t)
  BY <1>16, <1>17
<1> HIDE DEF id
<1> QED BY <1>4, <1>18

\* A send past maxPendingAcks, which ends the channel.
LEMMA ServerOverflowsDoes ==
    ASSUME NEW s, ServerStart(s), s.phase = "open", s.attached, s.sent + 1 \in ServerIds,
           ~Admits(s, use.sends[s.sent + 1].ack)
    PROVE  LET t == ServerSend(s) IN
           ServerMoves(s, t, t.out, FALSE) /\ ServerClean(s, t) /\ Stays(s, t)
<1> DEFINE id == s.sent + 1
           pr == [s.promise EXCEPT ![id] = "failed"]
           r == [s EXCEPT !.sent = id, !.promise = pr]
           f == Ctrl("ERROR")
           t == Overflow(r)
<1>1. /\ s \in ServerRecs /\ ServerTyped(s) /\ ServerBuffered(s) /\ s.out = <<>> /\ AtRest(s.life)
      /\ s.seq \in Nat /\ use \in Uses /\ Entries(s.buf) = {} /\ s.buf \in Buffers /\ s.sent \in Nat
      /\ s.promise \in [ServerIds -> States] /\ ServerOK(s) /\ ~s.life.ended /\ ~s.released
      /\ ~s.pendingEnd.abort
  BY StartIs DEF ServerStart, ServerOK, ServerTyped, ServerRecs
<1>2. id \in Nat /\ id \in ServerIds /\ id <= Len(use.sends) /\ ServerIds = 1 .. Len(use.sends)
  BY <1>1, IdsFinite
<1>3. ServerSend(s) = t
  BY DEF ServerSend
<1>4. /\ pr \in [ServerIds -> States] /\ pr[id] = "failed"
      /\ \A i \in ServerIds : i # id => pr[i] = s.promise[i]
  BY <1>1, <1>2 DEF States
<1> HIDE DEF pr, t
<1>5. r \in ServerRecs /\ r.sent = id /\ r.promise = pr
  BY <1>1, <1>2, <1>4, ZenonT(180) DEF ServerRecs
<1>6. /\ r.got = s.got /\ r.phase = s.phase /\ r.life = s.life /\ r.buf = s.buf /\ r.out = <<>>
      /\ r.attached = s.attached /\ r.released = s.released /\ r.pendingEnd = s.pendingEnd
      /\ r.pageSeq = s.pageSeq /\ r.closeSeq = s.closeSeq /\ r.asked = s.asked
      /\ r.pendingAcks = s.pendingAcks /\ r.seq = s.seq /\ r.seqOf = s.seqOf
  BY <1>1 DEF ServerRecs
<1> HIDE DEF r
<1>7. ServerTyped(r)
  <2>1. s.asked \subseteq {i \in 1 .. id : use.sends[i].ack}
    <3>1. s.asked \subseteq {i \in 1 .. s.sent : use.sends[i].ack}
      BY <1>1 DEF ServerTyped
    <3>2. 1 .. s.sent \subseteq 1 .. id
      BY <1>1
    <3> QED BY <3>1, <3>2
  <2> QED BY <1>1, <1>2, <1>5, <1>6, <2>1 DEF ServerTyped
<1>8. PendingOf(r.promise) \subseteq r.pendingAcks \cup StillWaiting(r.buf)
  <2>1. PendingOf(s.promise) \subseteq s.pendingAcks
    BY <1>1, HoldsNothing DEF ServerBuffered, Holding
  <2> QED BY <1>1, <1>4, <1>5, <1>6, <2>1 DEF PendingOf
<1>9. r.phase # "ended" /\ ~r.released /\ r.attached
  BY <1>1, <1>6
<1>10. /\ ServerOK(t) /\ t.phase = "ended" /\ t.life.ended /\ t.life.error = "overflow"
       /\ t.attached = FALSE /\ (\A i : ~Holds(t.buf, i))
       /\ t.out = Append(r.out, Ctrl("ERROR")) /\ t.seq = r.seq + 1
       /\ t.sent = r.sent /\ t.got = r.got /\ t.asked = r.asked
       /\ \A i \in ServerIds : r.promise[i] = "failed" => t.promise[i] = "failed"
       /\ t.life.acked = r.life.acked /\ t.life.requested = r.life.requested
       /\ (t.pendingEnd.abort => r.pendingEnd.abort)
  <2> DEFINE u == Overflow(r)
  <2>1. /\ ServerOK(u) /\ u.phase = "ended" /\ u.life.ended /\ u.life.error = "overflow"
        /\ u.attached = FALSE /\ (\A i : ~Holds(u.buf, i))
        /\ u.out = Append(r.out, Ctrl("ERROR")) /\ u.seq = r.seq + 1
        /\ u.sent = r.sent /\ u.got = r.got /\ u.asked = r.asked
        /\ \A i \in ServerIds : r.promise[i] = "failed" => u.promise[i] = "failed"
        /\ u.life.acked = r.life.acked /\ u.life.requested = r.life.requested
        /\ (u.pendingEnd.abort => r.pendingEnd.abort)
    BY <1>1, <1>7, <1>8, <1>9, OverflowDoes, ZenonT(180)
  <2>2. t = u
    BY DEF t
  <2> HIDE DEF u
  <2> QED BY <2>1, <2>2
<1>11. f.t = "ERROR" /\ Append(<<>>, f) = <<f>>
  BY DEF Ctrl
<1>12. t.out = <<f>>
  BY <1>6, <1>10, <1>11
<1> HIDE DEF f
<1>13. Entries(t.buf) = {}
  BY <1>10, HoldsIs DEF ServerOK, ServerTyped, ServerRecs
<1>14. ServerWords(s, t, <<f>>)
  <2>1. Len(<<f>>) = 1 /\ Ordered(<<f>>) /\ \A i : ~CarriesId(<<f>>, i)
    BY <1>11, OneFrame
  <2>0. ~Carries(<<f>>, "MESSAGE")
    BY <2>1, CarriesSome
  <2>2. \A i : i \in s.sent + 1 .. t.sent <=> i = id
    BY <1>1, <1>5, <1>10
  <2>3. \A i : ~Holds(s.buf, i)
    BY <1>1, HoldsNothing
  <2>4. \A i \in 1 .. s.sent : i \in ServerIds /\ i # id
    BY <1>1, <1>2
  <2>5. \A i \in 1 .. s.sent : s.promise[i] = "failed" => t.promise[i] = "failed"
    BY <1>4, <1>5, <1>10, <2>4
  <2>6. t.sent # s.sent /\ t.promise[id] = "failed"
    BY <1>1, <1>2, <1>4, <1>5, <1>10
  <2>7. Silent(t)
    BY <1>10, <1>13 DEF Silent
  <2> QED BY <1>1, <1>5, <1>6, <1>10, <1>12, <2>0, <2>1, <2>2, <2>3, <2>5, <2>6, <2>7 DEF ServerWords
<1>15. ServerLife(s, t, <<f>>, FALSE)
  <2>1. ~Carries(<<f>>, "CLOSE_ACK")
    BY <1>11, OneFrame
  <2>2. ~Silent(s)
    BY DEF Silent
  <2> QED BY <1>1, <1>6, <1>10, <2>1, <2>2 DEF ServerLife
<1>16. ServerClean(s, t)
  BY <1>10 DEF ServerClean
<1>17. Stays(s, t)
  BY <1>1, <1>10 DEF Stays
<1>18. ServerMoves(s, t, t.out, FALSE) /\ ServerClean(s, t) /\ Stays(s, t)
  BY <1>10, <1>12, <1>14, <1>15, <1>16, <1>17 DEF ServerMoves
<1> QED BY <1>3, <1>18

\* What a push of send n + 1 changes, of what was held and of the promises p with the new one's.
Pushes(b, c, f, p, g, acks, asked, after, n) ==
    /\ f \in [ServerIds -> States] /\ n \in Nat
    /\ use.sends[n + 1].kind \in QueueKinds /\ use.sends[n + 1].ack \in BOOLEAN
    /\ PushedTo(b, c, use.sends[n + 1].kind, n, use.sends[n + 1].ack)
    /\ Holding(b, f, FALSE, acks, asked, n) /\ n + 1 \in ServerIds /\ 1 .. n \subseteq ServerIds
    /\ n + 1 \notin acks
    /\ asked \subseteq after /\ (use.sends[n + 1].ack => n + 1 \in after)
    /\ p \in [ServerIds -> States] /\ p[n + 1] = "pending"
    /\ \A i \in ServerIds : i # n + 1 => p[i] = f[i]
    /\ g \in [ServerIds -> States]
    /\ \A i \in ServerIds : g[i] = IF /\ i \in StillWaiting(b) \/ i = n + 1
                                      /\ i \notin StillWaiting(c) /\ p[i] = "pending"
                                   THEN "failed" ELSE p[i]

\* Each of what b held and of send id is held by c, or was told.
ToldOf(b, c, g, id) ==
    \A i \in ServerIds : Holds(b, i) \/ i = id => Holds(c, i) \/ g[i] = "failed"

\* What a push keeps is what waits; what it dropped was told.
LEMMA PushHolds ==
    ASSUME NEW b, NEW c, NEW f, NEW p, NEW g, NEW acks, NEW asked, NEW after, NEW n,
           Pushes(b, c, f, p, g, acks, asked, after, n)
    PROVE  /\ Holding(c, g, FALSE, acks, after, n + 1)
           /\ \A i : Holds(c, i) => Holds(b, i) \/ i = n + 1
           /\ ToldOf(b, c, g, n + 1)
<1> USE DEF Pushes
<1>0. PICK kind \in QueueKinds, ack \in BOOLEAN :
          /\ kind = use.sends[n + 1].kind /\ ack = use.sends[n + 1].ack
          /\ ack => n + 1 \in after
  OBVIOUS
<1>a. PushedTo(b, c, kind, n, ack)
  BY <1>0, Zenon
<1>1. /\ b \in Buffers /\ c \in Buffers /\ BufferSorted(c, n + 1) /\ BufferSorted(b, n)
      /\ \A k \in QueueKinds : k # kind => c.queue[k] = b.queue[k]
  BY <1>a DEF Holding, PushedTo
<1>2. PICK m \in Nat, l \in Nat :
          /\ Len(b.queue[kind]) = l /\ m <= l + 1 /\ Len(c.queue[kind]) = l + 1 - m
          /\ \A i \in 1 .. l + 1 - m :
                IF m + i = l + 1
                THEN /\ c.queue[kind][i].id = n + 1 /\ c.queue[kind][i].ack = ack
                     /\ c.queue[kind][i].live
                ELSE m + i \in 1 .. l /\ c.queue[kind][i] = b.queue[kind][m + i]
  BY <1>a DEF PushedTo
<1>3. /\ \A k \in QueueKinds : \A i \in 1 .. Len(b.queue[k]) :
            Held(b.queue[k][i], k, f, FALSE, acks, asked) /\ b.queue[k][i].id \in 1 .. n
      /\ NoGap(b, n)
      /\ PendingOf(f) \subseteq acks \cup StillWaiting(b)
  BY DEF Holding, BufferSorted
<1>4. \A i : i \in 1 .. n => i \in ServerIds /\ i # n + 1
  OBVIOUS
<1>5. ASSUME NEW k \in QueueKinds, NEW i \in 1 .. Len(b.queue[k])
      PROVE  /\ b.queue[k][i].live /\ f[b.queue[k][i].id] = "pending" /\ p[b.queue[k][i].id] = "pending"
             /\ b.queue[k][i].id \in ServerIds /\ b.queue[k][i].id # n + 1
             /\ b.queue[k][i].id \in StillWaiting(b)
  <2>1. Held(b.queue[k][i], k, f, FALSE, acks, asked) /\ b.queue[k][i].id \in 1 .. n
    BY <1>3
  <2>2. b.queue[k][i] \in BufferEntries
    BY <1>1, EntriesAre
  <2>3. b.queue[k][i].live /\ f[b.queue[k][i].id] = "pending"
    BY <2>1, <2>2 DEF Held
  <2>4. b.queue[k][i].id \in StillWaiting(b)
    BY <1>1, <2>3, HoldsIs
  <2> QED BY <1>4, <2>1, <2>3, <2>4
\* An entry of the new buffer is the new one, or one of the old buffer.
<1>6. ASSUME NEW k \in QueueKinds, NEW i \in 1 .. Len(c.queue[k])
      PROVE  \/ k = kind /\ c.queue[k][i].id = n + 1 /\ c.queue[k][i].ack = ack /\ c.queue[k][i].live
             \/ \E j \in 1 .. Len(b.queue[k]) : c.queue[k][i] = b.queue[k][j]
  <2>1. CASE k # kind
    BY <1>1, <2>1
  <2>2. CASE k = kind
    BY <1>2, <2>2
  <2> QED BY <2>1, <2>2
<1>7. ASSUME NEW k \in QueueKinds, NEW i \in 1 .. Len(c.queue[k])
      PROVE  Held(c.queue[k][i], k, g, FALSE, acks, after)
  <2>1. PICK e \in BufferEntries : e = c.queue[k][i]
    BY <1>1, EntriesAre
  <2>2. /\ e.live /\ e.id \in ServerIds /\ p[e.id] = "pending" /\ e.ack = use.sends[e.id].ack
        /\ use.sends[e.id].kind = k /\ e.id \notin acks /\ (e.ack => e.id \in after)
    <3>1. CASE k = kind /\ e.id = n + 1 /\ e.ack = ack /\ e.live
      BY <1>0, <3>1
    <3>2. ASSUME NEW j \in 1 .. Len(b.queue[k]), e = b.queue[k][j]
          PROVE  /\ e.live /\ e.id \in ServerIds /\ p[e.id] = "pending" /\ e.ack = use.sends[e.id].ack
                 /\ use.sends[e.id].kind = k /\ e.id \notin acks /\ (e.ack => e.id \in after)
      <4>1. Held(e, k, f, FALSE, acks, asked)
        BY <1>3, <3>2
      <4>2. e.live /\ e.id \in ServerIds /\ p[e.id] = "pending"
        BY <1>5, <3>2
      <4> QED BY <4>1, <4>2 DEF Held
    <3> QED BY <1>6, <2>1, <3>1, <3>2
  <2>3. e.id \in StillWaiting(c)
    BY <1>1, <2>1, <2>2, HoldsIs
  <2>4. g[e.id] = "pending"
    BY <2>2, <2>3
  <2>5. e.live = TRUE
    BY <2>2 DEF BufferEntries
  <2>6. Held(e, k, g, FALSE, acks, after)
    BY <2>2, <2>4, <2>5 DEF Held
  <2> QED BY <2>1, <2>6
<1>8. PendingOf(g) \subseteq acks \cup StillWaiting(c)
  <2>0. \A i \in PendingOf(g) : /\ i \in ServerIds /\ p[i] = "pending"
                                /\ i \in StillWaiting(b) \/ i = n + 1 => i \in StillWaiting(c)
    BY DEF PendingOf
  <2>1. \A i \in PendingOf(p) : i \in PendingOf(f) \/ i = n + 1
    BY DEF PendingOf
  <2>2. \A i \in PendingOf(g) : i \in PendingOf(p)
    BY <2>0 DEF PendingOf
  <2> QED BY <1>3, <2>0, <2>1, <2>2
<1>9. NoGap(c, n + 1)
  <2> SUFFICES ASSUME NEW k \in QueueKinds, NEW i \in 1 .. Len(c.queue[k]),
                      NEW j \in c.queue[k][i].id .. n + 1, use.sends[j].kind = k
               PROVE  \E h \in 1 .. Len(c.queue[k]) : c.queue[k][h].id = j
    BY DEF NoGap
  <2>0. c.queue[k][i].id \in Nat
    BY <1>1, EntriesAre DEF BufferEntries
  <2>1. j \in Int /\ j <= n + 1 /\ c.queue[k][i].id <= j
    BY <2>0
  <2>2. CASE k # kind
    <3>1. j <= n
      BY <1>0, <2>1, <2>2
    <3>2. c.queue[k] = b.queue[k]
      BY <1>1, <2>2
    <3> QED BY <1>3, <2>0, <2>1, <3>1, <3>2 DEF NoGap
  <2>3. CASE k = kind
    <3>1. i \in 1 .. l + 1 - m /\ l + 1 - m \in 1 .. l + 1 - m /\ m + (l + 1 - m) = l + 1
      BY <1>2, <2>3
    <3>2. CASE j = n + 1
      <4>1. c.queue[kind][l + 1 - m].id = n + 1
        BY <1>2, <3>1
      <4> QED BY <1>2, <2>3, <3>1, <3>2, <4>1
    <3>3. CASE j # n + 1
      <4>1. j <= n /\ c.queue[k][i].id # n + 1
        BY <2>0, <2>1, <3>3
      <4>2. m + i \in 1 .. l /\ c.queue[kind][i] = b.queue[kind][m + i]
        BY <1>2, <2>3, <3>1, <4>1
      <4>3. j \in b.queue[kind][m + i].id .. n
        BY <2>0, <2>1, <2>3, <4>1, <4>2
      <4>8. use.sends[j].kind = kind /\ m + i \in 1 .. Len(b.queue[kind])
        BY <1>2, <2>3, <4>2
      <4>9. \E h \in 1 .. Len(b.queue[kind]) : b.queue[kind][h].id = j
        BY <1>3, <4>3, <4>8 DEF NoGap
      <4>4. PICK h \in 1 .. l : b.queue[kind][h].id = j
        BY <1>2, <4>9
      <4>5. h >= m + i
        <5>1. SUFFICES ASSUME h < m + i PROVE FALSE
          BY <4>2
        <5>2. b.queue[kind][h].id < b.queue[kind][m + i].id
          BY <1>1, <1>2, <4>2, <5>1 DEF BufferSorted, Sorted
        <5> QED BY <2>0, <2>1, <2>3, <4>2, <4>4, <5>2, SMTT(180)
      <4>6. h - m \in 1 .. l + 1 - m /\ m + (h - m) = h /\ h # l + 1
        BY <3>1, <4>5, SMTT(180)
      <4>7. c.queue[kind][h - m] = b.queue[kind][h]
        BY <1>2, <4>6
      <4>10. c.queue[kind][h - m].id = j /\ h - m \in 1 .. Len(c.queue[kind])
        BY <1>2, <4>4, <4>6, <4>7
      <4> QED BY <2>3, <4>10
    <3> QED BY <3>2, <3>3
  <2> QED BY <2>2, <2>3
<1>10. Holding(c, g, FALSE, acks, after, n + 1)
  BY <1>1, <1>7, <1>8, <1>9 DEF Holding
<1>11. ASSUME NEW x, Holds(c, x) PROVE Holds(b, x) \/ x = n + 1
  <2>1. PICK k \in QueueKinds : \E i \in 1 .. Len(c.queue[k]) : c.queue[k][i].id = x
    BY <1>1, <1>11, HoldsIs
  <2>2. PICK i \in 1 .. Len(c.queue[k]) : c.queue[k][i].id = x
    BY <2>1
  <2>3. c.queue[k][i].id = n + 1 \/ \E j \in 1 .. Len(b.queue[k]) : c.queue[k][i] = b.queue[k][j]
    BY <1>6
  <2> QED BY <1>1, <2>2, <2>3, HoldsIs
<1>12. ASSUME NEW x, Holds(b, x) \/ x = n + 1 PROVE Holds(c, x) \/ g[x] = "failed"
  <2>1. x \in ServerIds /\ p[x] = "pending" /\ (x \in StillWaiting(b) \/ x = n + 1)
    <3>1. CASE x = n + 1
      BY <3>1
    <3>2. CASE Holds(b, x)
      <4>1. PICK k \in QueueKinds : \E i \in 1 .. Len(b.queue[k]) : b.queue[k][i].id = x
        BY <1>1, <3>2, HoldsIs
      <4> QED BY <1>5, <4>1
    <3> QED BY <1>12, <3>1, <3>2
  <2>2. CASE x \in StillWaiting(c)
    BY <1>1, <2>2, HoldsIs
  <2>3. CASE x \notin StillWaiting(c)
    BY <2>1, <2>3
  <2> QED BY <2>2, <2>3
<1> QED BY <1>10, <1>11, <1>12 DEF ToldOf

\* A send while no page is attached: it joins the buffer, and what that drops is told.
LEMMA ServerBuffersDoes ==
    ASSUME NEW s, ServerStart(s), s.phase = "open", ~s.attached, s.sent + 1 \in ServerIds
    PROVE  LET t == ServerSend(s) IN
           ServerMoves(s, t, t.out, FALSE) /\ ServerClean(s, t) /\ Stays(s, t)
<1> DEFINE n == s.sent
           id == n + 1
           m == use.sends[id]
           b == PushEntry(s.buf, m.kind, id, m.ack, m.bytes)
           p == [s.promise EXCEPT ![id] = "pending"]
           after == IF m.ack THEN s.asked \cup {id} ELSE s.asked
           ids == (StillWaiting(s.buf) \cup {id}) \ StillWaiting(b)
           g == Settled(p, ids, "failed")
           t == [s EXCEPT !.sent = id, !.promise = g, !.asked = after, !.buf = b]
<1>1. /\ s \in ServerRecs /\ ServerTyped(s) /\ ServerBuffered(s) /\ s.out = <<>> /\ AtRest(s.life)
      /\ s.seq \in Nat /\ use \in Uses /\ s.buf \in Buffers /\ s.sent \in Nat
      /\ s.promise \in [ServerIds -> States] /\ ServerOK(s) /\ ~s.life.ended /\ ~s.released
      /\ ~s.pendingEnd.abort /\ s.asked \subseteq ServerIds /\ s.pendingAcks \subseteq s.asked
      /\ s.life.run = "none" /\ ~s.life.fired /\ 1 .. s.sent \subseteq ServerIds
  BY StartIs, IdsSent DEF ServerStart, ServerOK, ServerTyped, ServerRecs, AtRest
<1>2. /\ id \in Nat /\ id \in ServerIds /\ id <= Len(use.sends) /\ ServerIds = 1 .. Len(use.sends)
      /\ m.kind \in QueueKinds /\ m.ack \in BOOLEAN /\ m.bytes \in Nat
  BY <1>1, IdsFinite
<1>3. PushedTo(s.buf, b, m.kind, n, m.ack)
  <2>1. BufferSorted(s.buf, n)
    BY <1>1 DEF ServerBuffered, Holding
  <2> HIDE DEF m
  <2>2. PushedTo(s.buf, PushEntry(s.buf, m.kind, n + 1, m.ack, m.bytes), m.kind, n, m.ack)
    BY <1>1, <1>2, <2>1, PushDoes
  <2> QED BY <2>2
<1>4. b \in Buffers
  BY <1>3 DEF PushedTo
<1>5. /\ p \in [ServerIds -> States] /\ p[id] = "pending"
      /\ \A i \in ServerIds : i # id => p[i] = s.promise[i]
  BY <1>1, <1>2 DEF States
<1> HIDE DEF p, b
<1>6. /\ g \in [ServerIds -> States] /\ PendingOf(g) = PendingOf(p) \ ids
      /\ \A i \in ServerIds : /\ p[i] # "pending" \/ i \notin ids => g[i] = p[i]
                              /\ p[i] = "pending" /\ i \in ids => g[i] = "failed"
  <2> HIDE DEF ids
  <2> DEFINE z == Settled(p, ids, "failed")
  <2>1. /\ z \in [ServerIds -> States] /\ PendingOf(z) = PendingOf(p) \ ids
        /\ \A i \in ServerIds : /\ p[i] # "pending" \/ i \notin ids => z[i] = p[i]
                                /\ p[i] = "pending" /\ i \in ids => z[i] = "failed"
    BY <1>5, SettledDoes
  <2> QED BY <2>1
<1>7. /\ after \subseteq ServerIds /\ s.asked \subseteq after /\ (m.ack => id \in after)
      /\ \A i \in after : i \in s.asked \/ (i = id /\ m.ack)
  BY <1>1, <1>2
<1>8. ServerSend(s) = t
  <2> DEFINE x == [s EXCEPT !.sent = id, !.promise = p, !.asked = after, !.buf = b]
  <2>1. [[s EXCEPT !.sent = id, !.promise[id] = "pending",
                   !.asked = IF m.ack THEN @ \cup {id} ELSE @] EXCEPT !.buf = b] = x
    BY <1>1 DEF p, ServerRecs
  <2>2. ServerSend(s) = Progress(Settle(x, ids, "failed"))
    <3> DEFINE y == [[s EXCEPT !.sent = id, !.promise[id] = "pending",
                               !.asked = IF m.ack THEN @ \cup {id} ELSE @] EXCEPT !.buf = b]
    <3>1. ServerSend(s) = Progress(Settle(y, ids, "failed"))
      BY DEF ServerSend, b
    <3> HIDE DEF y, x, ids
    <3>2. y = x
      BY <2>1 DEF y, x
    <3> QED BY <3>1, <3>2
  <2>3. x.promise = p /\ Settle(x, ids, "failed") = [x EXCEPT !.promise = g]
    <3>1. x.promise = p
      BY <1>1 DEF ServerRecs
    <3> HIDE DEF x, ids
    <3> QED BY <3>1 DEF Settle, Settled
  <2> HIDE DEF g, ids, after
  <2>4. [x EXCEPT !.promise = g] = t /\ t.life = s.life
    BY <1>1 DEF ServerRecs
  <2> HIDE DEF x, t
  <2>5. Progress(t) = t
    <3>1. NotifyProgress(t.life) = t.life
      BY <1>1, <2>4 DEF NotifyProgress
    <3>2. t = [t EXCEPT !.life = t.life]
      BY <1>1 DEF t, ServerRecs
    <3> QED BY <3>1, <3>2 DEF Progress
  <2> QED BY <2>2, <2>3, <2>4, <2>5
<1>9. /\ Holding(b, g, FALSE, s.pendingAcks, after, id)
      /\ \A i : Holds(b, i) => Holds(s.buf, i) \/ i = id
      /\ \A i \in ServerIds : Holds(s.buf, i) \/ i = id => Holds(b, i) \/ g[i] = "failed"
  <2>1. Holding(s.buf, s.promise, FALSE, s.pendingAcks, s.asked, n)
    BY <1>1 DEF ServerBuffered
  <2>2. id \notin s.pendingAcks
    <3>1. s.asked \subseteq 1 .. n
      BY <1>1 DEF ServerTyped
    <3> QED BY <1>1, <3>1
  <2> HIDE DEF after, g, n
  <2>3. /\ n \in Nat /\ n + 1 \in ServerIds /\ 1 .. n \subseteq ServerIds
        /\ use.sends[n + 1].kind \in QueueKinds /\ use.sends[n + 1].ack \in BOOLEAN
        /\ PushedTo(s.buf, b, use.sends[n + 1].kind, n, use.sends[n + 1].ack)
        /\ n + 1 \notin s.pendingAcks /\ (use.sends[n + 1].ack => n + 1 \in after)
        /\ p[n + 1] = "pending" /\ \A i \in ServerIds : i # n + 1 => p[i] = s.promise[i]
        /\ \A i \in ServerIds : i \in ids <=> /\ i \in StillWaiting(s.buf) \/ i = n + 1
                                              /\ i \notin StillWaiting(b)
    BY <1>1, <1>2, <1>3, <1>5, <1>7, <2>2 DEF n
  <2> HIDE DEF ids, id
  <2>5. \A i \in ServerIds : g[i] = IF /\ i \in StillWaiting(s.buf) \/ i = n + 1
                                       /\ i \notin StillWaiting(b) /\ p[i] = "pending"
                                    THEN "failed" ELSE p[i]
    BY <1>6, <2>3
  <2>4. /\ Holding(b, g, FALSE, s.pendingAcks, after, n + 1)
        /\ \A i : Holds(b, i) => Holds(s.buf, i) \/ i = n + 1
        /\ ToldOf(s.buf, b, g, n + 1)
    <3>1. Pushes(s.buf, b, s.promise, p, g, s.pendingAcks, s.asked, after, n)
      BY <1>1, <1>5, <1>6, <1>7, <2>1, <2>3, <2>5 DEF Pushes
    <3> QED BY <3>1, PushHolds
  <2> QED BY <2>4 DEF id, ToldOf
<1> HIDE DEF g, ids, after
<1>10. t \in ServerRecs /\ t.sent = id /\ t.promise = g /\ t.asked = after /\ t.buf = b
  BY <1>1, <1>2, <1>4, <1>6, <1>7, ZenonT(180) DEF ServerRecs
<1>11. /\ t.got = s.got /\ t.phase = s.phase /\ t.life = s.life /\ t.out = <<>> /\ t.seq = s.seq
       /\ t.attached = s.attached /\ t.released = s.released /\ t.pendingEnd = s.pendingEnd
       /\ t.pageSeq = s.pageSeq /\ t.closeSeq = s.closeSeq /\ t.pendingAcks = s.pendingAcks
       /\ t.seqOf = s.seqOf
  BY <1>1 DEF ServerRecs
<1> HIDE DEF t
<1>12. ServerTyped(t)
  <2>1. after \subseteq {i \in 1 .. id : use.sends[i].ack}
    <3>1. s.asked \subseteq {i \in 1 .. n : use.sends[i].ack}
      BY <1>1 DEF ServerTyped
    <3>2. 1 .. n \subseteq 1 .. id /\ id \in 1 .. id
      BY <1>1
    <3> QED BY <1>7, <3>1, <3>2
  <2> QED BY <1>1, <1>2, <1>7, <1>10, <1>11, <2>1 DEF ServerTyped
<1>13. ServerBuffered(t)
  BY <1>9, <1>10, <1>11 DEF ServerBuffered
<1>14. ServerOK(t)
  BY <1>1, <1>11, <1>12, <1>13 DEF ServerOK
<1>15. ServerWords(s, t, <<>>)
  <2>1. \A i : i \in s.sent + 1 .. t.sent <=> i = id
    BY <1>1, <1>10
  <2>4. \A i \in 1 .. s.sent : i \in ServerIds /\ i # id
    BY <1>1, <1>2
  <2>5. \A i \in 1 .. s.sent : s.promise[i] = "failed" => t.promise[i] = "failed"
    BY <1>5, <1>6, <1>10, <2>4
  <2>6. t.sent # s.sent
    BY <1>1, <1>10
  <2>7. s.seq = s.seq + Len(<<>>)
    BY <1>1, NoFrame
  <2>8. \A i \in 1 .. t.sent : Holds(s.buf, i) \/ i \in s.sent + 1 .. t.sent =>
            Holds(t.buf, i) \/ t.promise[i] = "failed"
    <3>1. \A i \in 1 .. t.sent : i \in ServerIds
      BY <1>2, <1>10
    <3> QED BY <1>9, <1>10, <2>1, <3>1
  <2>9. \A i : Holds(t.buf, i) => Holds(s.buf, i) \/ i \in s.sent + 1 .. t.sent
    BY <1>9, <1>10, <2>1
  <2>10. t.sent \in {s.sent, s.sent + 1} /\ t.phase = "open"
    BY <1>10, <1>11
  <2> QED BY <1>11, <2>5, <2>6, <2>7, <2>8, <2>9, <2>10, NoFrame DEF ServerWords
<1>16. ServerLife(s, t, <<>>, FALSE)
  BY <1>1, <1>11, NoFrame DEF ServerLife
<1>17. ServerClean(s, t) /\ Stays(s, t)
  <2>1. s.attached = FALSE
    BY <1>1 DEF ServerRecs
  <2> QED BY <1>1, <1>11, <2>1 DEF ServerClean, Stays
<1>18. ServerMoves(s, t, t.out, FALSE) /\ ServerClean(s, t) /\ Stays(s, t)
  BY <1>11, <1>14, <1>15, <1>16, <1>17 DEF ServerMoves
<1> QED BY <1>8, <1>18

-----------------------------------------------------------------------------
(* What is buffered is sent, once a page is attached *)

\* An entry of what s had buffered is sent, of which x is left so far.
SentOne(s, x, e) == SendBuffered(x, e, s.phase = "ended")

\* f is what is left of s once each of the first n of m went.
SentTo(s, m, n, f) == f = [i \in 0 .. n |-> IF i = 0 THEN s ELSE SentOne(s, f[i - 1], m[i])]

\* t is s with all of m sent, and the buffer emptied.
SentAll(s, m, t) ==
    \E f : SentTo(s, m, Len(m), f) /\ t = [f[Len(m)] EXCEPT !.buf = EmptyBuffer]

\* Flush sends the buffered entries one after the other, and leaves the buffer empty.
LEMMA FlushGoes ==
    ASSUME NEW s, Len(Flushed(s.buf)) \in Nat
    PROVE  SentAll(s, Flushed(s.buf), Flush(s))
<1> DEFINE m == Flushed(s.buf)
           n == Len(m)
           h == CHOOSE f : f = [i \in 0 .. n |-> IF i = 0 THEN s ELSE SentOne(s, f[i - 1], m[i])]
           G == {k \in Nat : \E f : SentTo(s, m, k, f)}
<1>0. n \in Nat
  OBVIOUS
<1> HIDE DEF m, n
<1>1. 0 \in G
  <2>1. SentTo(s, m, 0, [i \in 0 .. 0 |-> s])
    BY DEF SentTo
  <2> QED BY <2>1
<1>2. ASSUME NEW k \in Nat, k \in G PROVE k + 1 \in G
  <2>1. PICK f : SentTo(s, m, k, f)
    BY <1>2
  <2> DEFINE last == SentOne(s, f[k], m[k + 1])
             g == [i \in 0 .. k + 1 |-> IF i = k + 1 THEN last ELSE f[i]]
  <2>2. ASSUME NEW i \in 0 .. k + 1
        PROVE  g[i] = IF i = 0 THEN s ELSE SentOne(s, g[i - 1], m[i])
    <3>1. CASE i = k + 1
      <4>1. g[i] = last /\ g[i - 1] = f[k] /\ i # 0 /\ i - 1 = k
        <5> HIDE DEF last
        <5> QED BY <3>1
      <4> QED BY <3>1, <4>1
    <3>2. CASE i # k + 1
      <4>1. i \in 0 .. k /\ g[i] = f[i] /\ (i # 0 => g[i - 1] = f[i - 1])
        BY <3>2
      <4>2. f[i] = IF i = 0 THEN s ELSE SentOne(s, f[i - 1], m[i])
        BY <2>1, <4>1 DEF SentTo
      <4> QED BY <4>1, <4>2
    <3> QED BY <3>1, <3>2
  <2>3. SentTo(s, m, k + 1, g)
    BY <2>2, Zenon DEF SentTo
  <2>4. k + 1 \in Nat
    OBVIOUS
  <2> HIDE DEF g
  <2> QED BY <2>3, <2>4, Zenon
<1>3. \A k \in Nat : k \in G
  BY <1>1, <1>2, NatByStep, Zenon
<1>4. PICK f : SentTo(s, m, n, f)
  BY <1>0, <1>3
<1>5. SentTo(s, m, n, h)
  <2>1. f = [i \in 0 .. n |-> IF i = 0 THEN s ELSE SentOne(s, f[i - 1], m[i])]
    BY <1>4 DEF SentTo
  <2>2. h = [i \in 0 .. n |-> IF i = 0 THEN s ELSE SentOne(s, h[i - 1], m[i])]
    BY <2>1, Zenon
  <2> HIDE DEF h
  <2> QED BY <2>2, Zenon DEF SentTo
<1>6. Flush(s) = [h[n] EXCEPT !.buf = EmptyBuffer]
  BY DEF Flush, SentOne, m, n
<1> HIDE DEF h
<1>7. SentAll(s, m, Flush(s))
  BY <1>5, <1>6 DEF SentAll, n
<1> QED BY <1>7 DEF m

\* m is what s keeps, in the order it was sent.
FlushOrder(s, m) ==
    /\ m \in Seq(BufferEntries) /\ Len(m) \in Nat
    /\ \A i \in 1 .. Len(m) :
          /\ m[i] \in BufferEntries /\ m[i].id \in 1 .. s.sent /\ m[i].id \in ServerIds
          /\ s.promise[m[i].id] = IF m[i].live THEN "pending" ELSE "failed"
          /\ m[i].live = (s.phase # "ended" \/ ~m[i].ack)
          /\ m[i].ack => m[i].id \in s.asked
    /\ \A i, j \in 1 .. Len(m) : i < j => m[i].id < m[j].id
    /\ \A x : Holds(s.buf, x) <=> \E i \in 1 .. Len(m) : m[i].id = x
    /\ \A x : x \in StillWaiting(s.buf) <=> \E i \in 1 .. Len(m) : m[i].live /\ m[i].id = x

\* What flush sends is all that was kept, in the order it was sent.
LEMMA FlushedIs ==
    ASSUME NEW s, ServerTyped(s), ServerBuffered(s), use \in Uses
    PROVE  FlushOrder(s, Flushed(s.buf))
<1>1. /\ s.buf \in Buffers /\ BufferSorted(s.buf, s.sent)
      /\ \A k \in QueueKinds : \A i \in 1 .. Len(s.buf.queue[k]) :
            Held(s.buf.queue[k][i], k, s.promise, s.phase = "ended", s.pendingAcks, s.asked)
      /\ 1 .. s.sent \subseteq ServerIds
  BY IdsSent DEF ServerBuffered, Holding
<1>2. PICK q \in Seq(BufferEntries), r \in Seq(BufferEntries) :
          q = s.buf.queue["text"] /\ r = s.buf.queue["binary"]
  BY <1>1 DEF Buffers, QueueKinds
<1>3. Sorted(q) /\ Sorted(r) /\ SortedAcross(q, r)
  BY <1>1, <1>2 DEF BufferSorted, QueueKinds
<1>4. ASSUME NEW e \in BufferEntries,
             (\E i \in 1 .. Len(q) : e = q[i]) \/ (\E i \in 1 .. Len(r) : e = r[i])
      PROVE  /\ e.id \in 1 .. s.sent /\ e.id \in ServerIds
             /\ s.promise[e.id] = IF e.live THEN "pending" ELSE "failed"
             /\ e.live = (s.phase # "ended" \/ ~e.ack)
             /\ e.ack => e.id \in s.asked
  <2>1. PICK k \in QueueKinds : \E i \in 1 .. Len(s.buf.queue[k]) : e = s.buf.queue[k][i]
    BY <1>2, <1>4 DEF QueueKinds
  <2>2. PICK i \in 1 .. Len(s.buf.queue[k]) : e = s.buf.queue[k][i]
    BY <2>1
  <2>3. e.id \in 1 .. s.sent
    BY <1>1, <2>2 DEF BufferSorted
  <2>4. Held(e, k, s.promise, s.phase = "ended", s.pendingAcks, s.asked)
    BY <1>1, <2>2
  <2> QED BY <1>1, <2>3, <2>4 DEF Held
<1> DEFINE m == Merged(q, r)
           n == Len(q) + Len(r)
<1>5. n \in Nat /\ m \in Seq(BufferEntries) /\ Len(m) = n /\ Has(q, r, m, Len(q), Len(r))
  BY <1>3, MergeIsSorted
<1>6. Flushed(s.buf) = m
  BY <1>2 DEF Flushed
<1> HIDE DEF m
<1>7. /\ \A i \in 1 .. n : (\E j \in 1 .. Len(q) : m[i] = q[j]) \/ (\E j \in 1 .. Len(r) : m[i] = r[j])
      /\ \A j \in 1 .. Len(q) : \E i \in 1 .. n : m[i] = q[j]
      /\ \A j \in 1 .. Len(r) : \E i \in 1 .. n : m[i] = r[j]
      /\ \A i, j \in 1 .. n : i < j => m[i].id < m[j].id
  BY <1>5 DEF Has
<1> HIDE DEF n
<1>8. \A i \in 1 .. n : m[i] \in BufferEntries
  BY <1>5
<1>9. \A x : Holds(s.buf, x) <=> \E i \in 1 .. n : m[i].id = x
  <2>1. \A x : Holds(s.buf, x) <=> \/ \E i \in 1 .. Len(q) : q[i].id = x
                                   \/ \E i \in 1 .. Len(r) : r[i].id = x
    BY <1>1, <1>2, HoldsIs, SMTT(180) DEF QueueKinds
  <2>2. ASSUME NEW x, Holds(s.buf, x) PROVE \E i \in 1 .. n : m[i].id = x
    <3>1. CASE \E i \in 1 .. Len(q) : q[i].id = x
      BY <1>7, <3>1
    <3>2. CASE \E i \in 1 .. Len(r) : r[i].id = x
      BY <1>7, <3>2
    <3> QED BY <2>1, <2>2, <3>1, <3>2
  <2>3. ASSUME NEW x, NEW i \in 1 .. n, m[i].id = x PROVE Holds(s.buf, x)
    <3>1. CASE \E j \in 1 .. Len(q) : m[i] = q[j]
      BY <2>1, <2>3, <3>1
    <3>2. CASE \E j \in 1 .. Len(r) : m[i] = r[j]
      BY <2>1, <2>3, <3>2
    <3> QED BY <1>7, <3>1, <3>2
  <2> QED BY <2>2, <2>3
<1>10. \A x : x \in StillWaiting(s.buf) <=> \E i \in 1 .. n : m[i].live /\ m[i].id = x
  <2>1. \A x : x \in StillWaiting(s.buf) <=> \/ \E i \in 1 .. Len(q) : q[i].live /\ q[i].id = x
                                            \/ \E i \in 1 .. Len(r) : r[i].live /\ r[i].id = x
    BY <1>1, <1>2, HoldsIs, SMTT(180) DEF QueueKinds
  <2>2. ASSUME NEW x, x \in StillWaiting(s.buf) PROVE \E i \in 1 .. n : m[i].live /\ m[i].id = x
    <3>1. CASE \E i \in 1 .. Len(q) : q[i].live /\ q[i].id = x
      BY <1>7, <3>1
    <3>2. CASE \E i \in 1 .. Len(r) : r[i].live /\ r[i].id = x
      BY <1>7, <3>2
    <3> QED BY <2>1, <2>2, <3>1, <3>2
  <2>3. ASSUME NEW x, NEW i \in 1 .. n, m[i].live /\ m[i].id = x PROVE x \in StillWaiting(s.buf)
    <3>1. CASE \E j \in 1 .. Len(q) : m[i] = q[j]
      BY <2>1, <2>3, <3>1
    <3>2. CASE \E j \in 1 .. Len(r) : m[i] = r[j]
      BY <2>1, <2>3, <3>2
    <3> QED BY <1>7, <3>1, <3>2
  <2> QED BY <2>2, <2>3
<1>11. \A i \in 1 .. n :
          /\ m[i] \in BufferEntries /\ m[i].id \in 1 .. s.sent /\ m[i].id \in ServerIds
          /\ s.promise[m[i].id] = IF m[i].live THEN "pending" ELSE "failed"
          /\ m[i].live = (s.phase # "ended" \/ ~m[i].ack)
          /\ m[i].ack => m[i].id \in s.asked
  BY <1>4, <1>7, <1>8
<1>12. FlushOrder(s, m)
  BY <1>5, <1>7, <1>9, <1>10, <1>11 DEF FlushOrder
<1> QED BY <1>6, <1>12

\* What the sends of a flush leave alone.
SameKept(y, t) ==
    /\ t.phase = y.phase /\ t.life = y.life /\ t.sent = y.sent /\ t.asked = y.asked
    /\ t.got = y.got /\ t.buf = y.buf /\ t.attached = y.attached /\ t.released = y.released
    /\ t.pendingEnd = y.pendingEnd /\ t.pageSeq = y.pageSeq /\ t.closeSeq = y.closeSeq
    /\ t.ackRes = y.ackRes

\* t is y once message `id` went to the page.
Emitted(y, t, id) ==
    /\ t \in ServerRecs /\ SameKept(y, t) /\ t.promise = y.promise /\ t.pendingAcks = y.pendingAcks
    /\ t.seq = y.seq + 1 /\ Len(t.out) = Len(y.out) + 1
    /\ \A i \in 1 .. Len(y.out) : t.out[i] = y.out[i]
    /\ t.out[Len(y.out) + 1].t = "MESSAGE" /\ t.out[Len(y.out) + 1].id = id
    /\ \A i \in ServerIds : t.seqOf[i] = y.seqOf[i] \/ t.seqOf[i] = y.seq + 1

\* IndexedPeer: the message goes with the next seq.
LEMMA EmitDoes ==
    ASSUME NEW y \in ServerRecs, NEW e \in BufferEntries, e.id \in ServerIds
    PROVE  Emitted(y, EmitMessage(y, e.id, e.ack), e.id)
<1> DEFINE f == Message(e.id, e.ack)
           o == Append(y.out, f)
           so == [y.seqOf EXCEPT ![e.id] = y.seq + 1]
           t == [y EXCEPT !.seq = y.seq + 1, !.out = o, !.seqOf = so]
<1>1. EmitMessage(y, e.id, e.ack) = t
  BY DEF EmitMessage, Emit, ServerRecs
<1>2. f \in ToPageFrames /\ f.t = "MESSAGE" /\ f.id = e.id
  <2>1. e.ack \in BOOLEAN
    BY DEF BufferEntries
  <2> QED BY <2>1, FrameTypes DEF Message
<1>3. y.out \in Seq(ToPageFrames) /\ y.seq \in Nat /\ y.seqOf \in [ServerIds -> Nat]
  BY DEF ServerRecs
<1> HIDE DEF f
<1>4. /\ o \in Seq(ToPageFrames) /\ Len(o) = Len(y.out) + 1 /\ o[Len(y.out) + 1] = f
      /\ \A i \in 1 .. Len(y.out) : o[i] = y.out[i]
  BY <1>2, <1>3, AppendProperties
<1>5. y.seq + 1 \in Nat
  BY <1>3
<1>6. so \in [ServerIds -> Nat] /\ \A i \in ServerIds : so[i] = y.seqOf[i] \/ so[i] = y.seq + 1
  BY <1>3, <1>5
<1> HIDE DEF o, so
<1>7. t \in ServerRecs /\ t.seq = y.seq + 1 /\ t.out = o /\ t.seqOf = so
  BY <1>4, <1>5, <1>6 DEF ServerRecs
<1>8. SameKept(y, t) /\ t.promise = y.promise /\ t.pendingAcks = y.pendingAcks
  BY DEF ServerRecs, SameKept
<1> HIDE DEF t
<1>9. Emitted(y, t, e.id)
  BY <1>2, <1>4, <1>6, <1>7, <1>8 DEF Emitted
<1> QED BY <1>1, <1>9

\* A page was just attached to s, unless it ended.
Attaching(s) ==
    /\ ServerTyped(s) /\ ServerBuffered(s) /\ AtRest(s.life) /\ s.out = <<>> /\ use \in Uses
    /\ ~s.released /\ s.attached = (s.phase # "ended")
    /\ s.phase = "ended" <=> s.life.ended
    /\ s.phase = "open" => s.life.run = "none"
    /\ s.phase = "ended" => s.pendingAcks = {}
    /\ s.pendingEnd.abort => s.phase = "ended"
    /\ s.pendingEnd.closeRequest => s.phase # "open"

\* x is s once the first n of m went, and nothing ended it.
Sending(s, x, m, n) ==
    /\ x \in ServerRecs /\ SameKept(s, x)
    /\ x.seq = s.seq + n /\ Len(x.out) = n
    /\ \A i \in 1 .. n : x.out[i].t = "MESSAGE" /\ x.out[i].id = m[i].id
    /\ x.pendingAcks \subseteq s.asked /\ (s.phase = "ended" => x.pendingAcks = {})
    /\ \A i \in ServerIds : x.seqOf[i] <= s.seq + n
    /\ \A i \in ServerIds : x.promise[i] = "pending" =>
          /\ s.promise[i] = "pending"
          /\ i \in x.pendingAcks \/ \E j \in n + 1 .. Len(m) : m[j].live /\ m[j].id = i
    /\ \A i \in ServerIds : s.promise[i] = "failed" => x.promise[i] = "failed"
    /\ \A j \in n + 1 .. Len(m) : x.promise[m[j].id] = s.promise[m[j].id]

\* A flush that has sent nothing yet.
LEMMA SendingStarts ==
    ASSUME NEW s, Attaching(s), NEW m, FlushOrder(s, m)
    PROVE  Sending(s, s, m, 0)
<1>1. s \in ServerRecs /\ s.seq \in Nat /\ s.out = <<>> /\ s.promise \in [ServerIds -> States]
      /\ s.pendingAcks \subseteq s.asked /\ \A i \in ServerIds : s.seqOf[i] <= s.seq
  BY DEF Attaching, ServerTyped, ServerRecs
<1>2. \A i \in ServerIds : s.promise[i] = "pending" =>
          i \in s.pendingAcks \/ \E j \in 1 .. Len(m) : m[j].live /\ m[j].id = i
  <2>1. PendingOf(s.promise) \subseteq s.pendingAcks \cup StillWaiting(s.buf)
    BY DEF Attaching, ServerBuffered, Holding
  <2> QED BY <1>1, <2>1 DEF PendingOf, FlushOrder
<1>3. s.seq + 0 = s.seq /\ 0 + 1 = 1 /\ Len(s.out) = 0 /\ 1 .. 0 = {}
  BY <1>1
<1>4. s.phase = "ended" => s.pendingAcks = {}
  BY DEF Attaching
<1> QED BY <1>1, <1>2, <1>3, <1>4 DEF Sending, SameKept

\* The next entry goes, of an end where it may.
LEMMA SentNext ==
    ASSUME NEW s, Attaching(s), NEW m, FlushOrder(s, m), NEW n \in Nat, n + 1 \in 1 .. Len(m),
           NEW x, Sending(s, x, m, n), NEW e \in BufferEntries, e = m[n + 1],
           NEW acks, e.ack /\ e.live => acks = x.pendingAcks \cup {e.id},
           ~(e.ack /\ e.live) => acks = x.pendingAcks,
           NEW g \in [ServerIds -> States], \A i \in ServerIds : i # e.id => g[i] = x.promise[i],
           g[e.id] = IF e.ack THEN x.promise[e.id] ELSE "ok",
           NEW y \in ServerRecs, SameKept(x, y), y.promise = g, y.pendingAcks = acks,
           y.seq = x.seq, y.out = x.out, y.seqOf = x.seqOf,
           NEW t, Emitted(y, t, e.id)
    PROVE  Sending(s, t, m, n + 1)
<1>1. /\ n + 1 + 1 = n + 2 /\ s.seq \in Nat /\ s.seq + n + 1 = s.seq + (n + 1)
      /\ s.phase \in Phases
  BY SMTT(180) DEF Attaching, ServerTyped, ServerRecs
<1>2. /\ e.id \in ServerIds /\ s.promise[e.id] = (IF e.live THEN "pending" ELSE "failed")
      /\ e.live = (s.phase # "ended" \/ ~e.ack) /\ (e.ack => e.id \in s.asked)
  BY DEF FlushOrder
<1>3. \A j \in n + 2 .. Len(m) : m[j].id # e.id /\ j \in n + 1 .. Len(m) /\ m[j].id \in ServerIds
  <2> SUFFICES ASSUME NEW j \in n + 2 .. Len(m)
               PROVE  m[j].id # e.id /\ j \in n + 1 .. Len(m) /\ m[j].id \in ServerIds
    OBVIOUS
  <2>1. Len(m) \in Nat
    BY DEF FlushOrder
  <2>2. j \in 1 .. Len(m) /\ n + 1 < j /\ j \in n + 1 .. Len(m)
    BY <2>1
  <2>3. m[n + 1].id < m[j].id /\ m[j].id \in 1 .. s.sent /\ m[j].id \in ServerIds
        /\ m[n + 1].id \in 1 .. s.sent
    BY <2>2 DEF FlushOrder
  <2> QED BY <2>2, <2>3
<1>4. n + 1 \in n + 1 .. Len(m) /\ x.promise[e.id] = s.promise[e.id]
  <2>1. Len(m) \in Nat
    BY DEF FlushOrder
  <2>2. n + 1 \in n + 1 .. Len(m)
    BY <2>1
  <2> QED BY <2>2 DEF Sending
<1>5. t \in ServerRecs /\ SameKept(s, t) /\ t.promise = g /\ t.pendingAcks = acks
  BY DEF Emitted, Sending, SameKept
<1>6. t.seq = s.seq + (n + 1) /\ Len(t.out) = n + 1
  BY <1>1 DEF Emitted, Sending
<1>7. \A i \in 1 .. n + 1 : t.out[i].t = "MESSAGE" /\ t.out[i].id = m[i].id
  <2>1. \A i \in 1 .. n + 1 : i \in 1 .. n \/ i = n + 1
    OBVIOUS
  <2> QED BY <2>1, SMTT(180) DEF Emitted, Sending
<1>8. t.pendingAcks \subseteq s.asked /\ (s.phase = "ended" => t.pendingAcks = {})
  <2>1. x.pendingAcks \subseteq s.asked /\ (s.phase = "ended" => x.pendingAcks = {})
    BY DEF Sending
  <2>2. CASE e.ack /\ e.live
    BY <1>2, <1>5, <2>1, <2>2
  <2>3. CASE ~(e.ack /\ e.live)
    BY <1>5, <2>1, <2>3
  <2> QED BY <2>2, <2>3
<1>9. \A i \in ServerIds : t.seqOf[i] <= s.seq + (n + 1)
  <2> SUFFICES ASSUME NEW i \in ServerIds PROVE t.seqOf[i] <= s.seq + (n + 1)
    OBVIOUS
  <2>1. t.seqOf[i] \in Nat /\ x.seqOf[i] \in Nat
    BY <1>5 DEF Sending, ServerRecs
  <2>2. x.seqOf[i] <= s.seq + n /\ (t.seqOf[i] = x.seqOf[i] \/ t.seqOf[i] = s.seq + n + 1)
    BY DEF Emitted, Sending
  <2> QED BY <1>1, <2>1, <2>2
<1>10. ASSUME NEW i \in ServerIds, t.promise[i] = "pending"
       PROVE  /\ s.promise[i] = "pending"
              /\ i \in t.pendingAcks \/ \E j \in n + 1 + 1 .. Len(m) : m[j].live /\ m[j].id = i
  <2>1. g[i] = "pending" /\ x.promise[i] = "pending"
    BY <1>5, <1>10
  <2>2. /\ s.promise[i] = "pending"
        /\ i \in x.pendingAcks \/ \E j \in n + 1 .. Len(m) : m[j].live /\ m[j].id = i
    BY <2>1 DEF Sending
  <2>3. x.pendingAcks \subseteq acks
    OBVIOUS
  <2>4. CASE i = e.id
    <3>1. e.ack /\ e.live
      BY <1>2, <1>4, <2>1, <2>4
    <3> QED BY <1>5, <2>2, <2>4, <3>1
  <2>5. CASE i # e.id
    <3>1. ASSUME NEW j \in n + 1 .. Len(m), m[j].live, m[j].id = i
          PROVE  j \in n + 2 .. Len(m)
      <4>1. j # n + 1
        BY <2>5, <3>1
      <4>2. Len(m) \in Nat
        BY DEF FlushOrder
      <4> QED BY <4>1, <4>2
    <3> QED BY <1>1, <1>5, <2>2, <2>3, <3>1
  <2> QED BY <2>4, <2>5
<1>11. \A i \in ServerIds : s.promise[i] = "failed" => t.promise[i] = "failed"
  <2> SUFFICES ASSUME NEW i \in ServerIds, s.promise[i] = "failed" PROVE t.promise[i] = "failed"
    OBVIOUS
  <2>1. x.promise[i] = "failed"
    BY DEF Sending
  <2>2. CASE i = e.id
    <3>1. e.ack
      BY <1>2, <2>2
    <3> QED BY <1>5, <2>1, <2>2, <3>1
  <2>3. CASE i # e.id
    BY <1>5, <2>1, <2>3
  <2> QED BY <2>2, <2>3
<1>12. \A j \in n + 1 + 1 .. Len(m) : t.promise[m[j].id] = s.promise[m[j].id]
  BY <1>1, <1>3, <1>5 DEF Sending
<1> QED BY <1>5, <1>6, <1>7, <1>8, <1>9, <1>10, <1>11, <1>12 DEF Sending

\* The channel ended for want of room in the middle of a flush, and t is what is left of s.
SentOver(s, t) ==
    /\ s.phase # "ended" /\ Entries(s.buf) # {} /\ ServerOK(t) /\ ServerWords(s, t, t.out)
    /\ t.phase = "ended" /\ t.life.ended /\ t.life.error = "overflow" /\ (\A i : ~Holds(t.buf, i))
    /\ t.attached = FALSE /\ t.life.acked = s.life.acked /\ t.life.requested = s.life.requested
    /\ ~t.pendingEnd.abort /\ ~Carries(t.out, "CLOSE_ACK")

\* The messages q carries are the first n of m.
CarriesFirst(q, m, n) == \A i : CarriesId(q, i) <=> \E j \in 1 .. n : m[j].id = i

\* What was sent so far, of m.
LEMMA SentCarries ==
    ASSUME NEW s, Attaching(s), NEW m, FlushOrder(s, m), NEW n \in Nat, n <= Len(m),
           NEW x, Sending(s, x, m, n)
    PROVE  /\ x.out \in Seq(ToPageFrames) /\ Ordered(x.out) /\ ~CarriesFinal(x.out)
           /\ CarriesFirst(x.out, m, n)
           /\ ~Carries(x.out, "CLOSE_ACK") /\ ~Carries(x.out, "ABORT") /\ ~Carries(x.out, "ERROR")
<1>1. /\ Len(x.out) = n /\ x.out \in Seq(ToPageFrames)
      /\ \A i \in 1 .. n : x.out[i].t = "MESSAGE" /\ x.out[i].id = m[i].id
  BY DEF Sending, ServerRecs
<1>2. \A i \in 1 .. n : i \in 1 .. Len(m)
  BY DEF FlushOrder
<1>3. Ordered(x.out)
  BY <1>1, <1>2 DEF Ordered, FlushOrder, Finals
<1>4. \A t : Carries(x.out, t) => t = "MESSAGE"
  BY <1>1 DEF Carries
<1>5. ~CarriesFinal(x.out)
  BY <1>4 DEF CarriesFinal, Finals
<1>6. ASSUME NEW i, CarriesId(x.out, i) PROVE \E j \in 1 .. n : m[j].id = i
  BY <1>1, <1>6 DEF CarriesId
<1>7. ASSUME NEW i, NEW j \in 1 .. n, m[j].id = i PROVE CarriesId(x.out, i)
  BY <1>1, <1>7 DEF CarriesId
<1> QED BY <1>1, <1>3, <1>4, <1>5, <1>6, <1>7 DEF CarriesFirst

\* ... and one whose next entry finds no room for its ack: the channel ends.
LEMMA SentOverflows ==
    ASSUME NEW s, Attaching(s), s.phase # "ended", NEW m, FlushOrder(s, m), NEW n \in Nat,
           n <= Len(m), n + 1 \in 1 .. Len(m), NEW x, Sending(s, x, m, n)
    PROVE  SentOver(s, Overflow(x))
<1> DEFINE t == Overflow(x)
           f == Ctrl("ERROR")
<1>1. /\ s \in ServerRecs /\ ServerTyped(s) /\ s.seq \in Nat /\ s.sent \in Nat
      /\ s.promise \in [ServerIds -> States] /\ use \in Uses /\ 1 .. s.sent \subseteq ServerIds
      /\ ~s.released /\ s.attached /\ ~s.pendingEnd.abort
  BY IdsSent DEF Attaching, ServerTyped, ServerRecs
<1>2. /\ x \in ServerRecs /\ x.promise \in [ServerIds -> States] /\ x.phase # "ended" /\ ~x.released
      /\ x.attached /\ x.sent = s.sent /\ x.got = s.got /\ x.asked = s.asked /\ x.buf = s.buf
      /\ x.pendingEnd = s.pendingEnd /\ x.life = s.life /\ x.seq = s.seq + n
  BY <1>1 DEF Sending, SameKept, ServerRecs
<1>3. /\ x.out \in Seq(ToPageFrames) /\ Len(x.out) = n /\ Ordered(x.out) /\ ~CarriesFinal(x.out)
      /\ \A i : CarriesId(x.out, i) <=> \E j \in 1 .. n : m[j].id = i
      /\ ~Carries(x.out, "CLOSE_ACK")
  <2>1. Len(x.out) = n
    BY DEF Sending
  <2>2. /\ x.out \in Seq(ToPageFrames) /\ Ordered(x.out) /\ ~CarriesFinal(x.out)
        /\ CarriesFirst(x.out, m, n) /\ ~Carries(x.out, "CLOSE_ACK")
    BY SentCarries
  <2> QED BY <2>1, <2>2 DEF CarriesFirst
<1>4. ServerTyped(x)
  <2>1. /\ s.pageSeq \in Nat /\ s.pageSeq <= s.seq /\ s.closeSeq \in Nat /\ s.closeSeq <= s.seq
        /\ x.pageSeq = s.pageSeq /\ x.closeSeq = s.closeSeq
    BY DEF Attaching, ServerTyped, ServerRecs, Sending, SameKept
  <2>2. s.pageSeq <= s.seq + n /\ s.closeSeq <= s.seq + n
    BY <1>1, <2>1
  <2>3. \A i \in ServerIds : x.seqOf[i] <= s.seq + n
    BY DEF Sending
  <2>4. /\ s.sent <= Len(use.sends) /\ s.asked \subseteq {i \in 1 .. s.sent : use.sends[i].ack}
        /\ ~s.pendingEnd.closeAck /\ ~s.pendingEnd.error
    BY <1>1 DEF ServerTyped
  <2>5. x.pendingAcks \subseteq s.asked
    BY DEF Sending
  <2> QED BY <1>2, <2>1, <2>2, <2>3, <2>4, <2>5 DEF ServerTyped
<1>5. PendingOf(x.promise) \subseteq x.pendingAcks \cup StillWaiting(x.buf)
  <2> SUFFICES ASSUME NEW i \in PendingOf(x.promise)
               PROVE  i \in x.pendingAcks \/ i \in StillWaiting(s.buf)
    BY <1>2
  <2>1. i \in ServerIds /\ x.promise[i] = "pending"
    BY <1>2 DEF PendingOf
  <2>2. i \in x.pendingAcks \/ \E j \in n + 1 .. Len(m) : m[j].live /\ m[j].id = i
    BY <2>1 DEF Sending
  <2>3. \A j \in n + 1 .. Len(m) : j \in 1 .. Len(m)
    BY DEF FlushOrder
  <2> QED BY <2>2, <2>3 DEF FlushOrder
<1>6. /\ ServerOK(t) /\ t.phase = "ended" /\ t.life.ended /\ t.life.error = "overflow"
      /\ t.attached = FALSE /\ (\A i : ~Holds(t.buf, i))
      /\ t.out = Append(x.out, f) /\ t.seq = x.seq + 1
      /\ t.sent = x.sent /\ t.got = x.got /\ t.asked = x.asked
      /\ Pending(t) \subseteq Pending(x)
      /\ \A i \in ServerIds : x.promise[i] = "failed" => t.promise[i] = "failed"
      /\ \A i \in ServerIds : x.promise[i] = "pending" /\ i \in StillWaiting(x.buf) =>
            t.promise[i] = "failed"
      /\ t.life.acked = x.life.acked /\ t.life.requested = x.life.requested
      /\ (t.pendingEnd.abort => x.pendingEnd.abort)
  BY <1>1, <1>2, <1>4, <1>5, OverflowDoes
<1> HIDE DEF t
<1>7. f.t = "ERROR" /\ f \in ToPageFrames
  BY FrameTypes DEF Ctrl
<1> HIDE DEF f
<1>8. t.out = x.out \o <<f>> /\ <<f>> \in Seq(ToPageFrames)
  BY <1>3, <1>6, <1>7, AppendIsConcat, SMTT(180)
<1>9. /\ Len(<<f>>) = 1 /\ Ordered(<<f>>) /\ (\A i : ~CarriesId(<<f>>, i))
      /\ ~Carries(<<f>>, "MESSAGE") /\ ~Carries(<<f>>, "CLOSE_ACK")
  BY <1>7, OneFrame
<1>10. /\ Len(t.out) = n + 1 /\ Ordered(t.out) /\ ~Carries(t.out, "CLOSE_ACK")
       /\ \A i : CarriesId(t.out, i) <=> CarriesId(x.out, i)
  <2> DEFINE e == <<f>>
             o == x.out \o e
  <2>1. e \in Seq(ToPageFrames) /\ Len(e) = 1 /\ Ordered(e) /\ (\A i : ~CarriesId(e, i))
        /\ ~Carries(e, "MESSAGE") /\ ~Carries(e, "CLOSE_ACK")
    BY <1>8, <1>9
  <2> HIDE DEF e
  <2>2. /\ Len(o) = Len(x.out) + Len(e)
        /\ Carries(o, "CLOSE_ACK") <=> Carries(x.out, "CLOSE_ACK") \/ Carries(e, "CLOSE_ACK")
        /\ \A i : CarriesId(o, i) <=> CarriesId(x.out, i) \/ CarriesId(e, i)
    BY <1>3, <2>1, JoinCarries, ZenonT(180)
  <2>3. Ordered(o)
    BY <1>3, <2>1, JoinCarries
  <2> HIDE DEF o
  <2>4. t.out = o
    BY <1>8 DEF o, e
  <2> QED BY <1>3, <2>1, <2>2, <2>3, <2>4
<1>11. \A i : CarriesId(t.out, i) => Holds(s.buf, i)
  <2>1. \A j \in 1 .. n : j \in 1 .. Len(m)
    BY DEF FlushOrder
  <2> QED BY <1>3, <1>10, <2>1 DEF FlushOrder
<1>12. ASSUME NEW i \in ServerIds, Holds(s.buf, i)
       PROVE  CarriesId(t.out, i) \/ t.promise[i] = "failed"
  <2>1. PICK j \in 1 .. Len(m) : m[j].id = i
    BY <1>12 DEF FlushOrder
  <2>2. CASE j \in 1 .. n
    BY <1>3, <1>10, <2>1, <2>2
  <2>3. CASE j \notin 1 .. n
    <3>1. j \in n + 1 .. Len(m)
      BY <2>3 DEF FlushOrder
    <3>2. m[j].live = TRUE /\ s.promise[i] = "pending"
      BY <1>1, <2>1 DEF FlushOrder
    <3>3. x.promise[i] = "pending"
      BY <2>1, <3>1, <3>2 DEF Sending
    <3>4. i \in StillWaiting(s.buf)
      BY <2>1, <3>2 DEF FlushOrder
    <3> QED BY <1>2, <1>6, <3>3, <3>4
  <2> QED BY <2>2, <2>3
<1>13. Pending(t) \subseteq Pending(s)
  <2>1. Pending(x) \subseteq Pending(s)
    BY <1>1, <1>2 DEF Pending, Sending
  <2> QED BY <1>6, <2>1
<1>14. Entries(t.buf) = {}
  BY <1>6, HoldsIs DEF ServerOK, ServerTyped, ServerRecs
<1>15. ServerWords(s, t, t.out)
  <2>1. t.seq = s.seq + Len(t.out)
    <3>1. s.seq + n + 1 = s.seq + (n + 1)
      BY <1>1, SMTT(180)
    <3> QED BY <1>2, <1>6, <1>10, <3>1
  <2>2. \A i \in 1 .. s.sent : s.promise[i] = "failed" => t.promise[i] = "failed"
    BY <1>1, <1>6, ZenonT(180) DEF Sending
  <2>3. Silent(t)
    BY <1>6, <1>14 DEF Silent
  <2>4. \A i \in 1 .. t.sent : i \in ServerIds
    BY <1>1, <1>2, <1>6
  <2>5. s.sent + 1 .. t.sent = {}
    BY <1>1, <1>2, <1>6
  <2> QED BY <1>2, <1>6, <1>10, <1>11, <1>12, <1>13, <1>14, <2>1, <2>2, <2>3, <2>4, <2>5 DEF ServerWords
<1>16. Entries(s.buf) # {}
  <2>1. Holds(s.buf, m[n + 1].id)
    BY DEF FlushOrder
  <2>2. s.buf \in Buffers
    BY <1>1 DEF ServerRecs
  <2> QED BY <2>1, <2>2, HoldsNothing
<1> QED BY <1>1, <1>2, <1>6, <1>10, <1>15, <1>16 DEF SentOver, t

\* x is what is left of s once the first n of m went, or the channel ended on the way.
Sent(s, x, m, n) == Sending(s, x, m, n) \/ SentOver(s, x)

\* One entry of a flush: it goes, or the channel ends or had ended.
LEMMA SentOneDoes ==
    ASSUME NEW s, Attaching(s), NEW m, FlushOrder(s, m), NEW n \in Nat, n + 1 \in 1 .. Len(m),
           NEW x, Sent(s, x, m, n)
    PROVE  Sent(s, SentOne(s, x, m[n + 1]), m, n + 1)
<1>1. PICK e \in BufferEntries : e = m[n + 1]
  BY DEF FlushOrder
<1>2. CASE SentOver(s, x)
  <2>1. x.phase = "ended" /\ s.phase # "ended"
    BY <1>2 DEF SentOver
  <2>2. SentOne(s, x, m[n + 1]) = x
    BY <2>1 DEF SentOne, SendBuffered
  <2> QED BY <1>2, <2>2 DEF Sent
<1>3. CASE Sending(s, x, m, n)
  <2>1. /\ x \in ServerRecs /\ x.phase = s.phase /\ x.promise \in [ServerIds -> States]
        /\ e.id \in ServerIds /\ s.asked \subseteq ServerIds
        /\ x.pendingAcks \subseteq ServerIds /\ e.ack \in BOOLEAN /\ e.live \in BOOLEAN
    BY <1>1, <1>3 DEF FlushOrder, Sending, SameKept, ServerRecs, Attaching, ServerTyped, BufferEntries
  <2>2. CASE s.phase # "ended" /\ ~Admits(x, e.ack)
    <3>1. SentOne(s, x, m[n + 1]) = Overflow(x)
      BY <1>1, <2>1, <2>2 DEF SentOne, SendBuffered
    <3>2. n <= Len(m)
      BY DEF FlushOrder
    <3>3. SentOver(s, Overflow(x))
      BY <1>3, <2>2, <3>2, SentOverflows
    <3> QED BY <3>1, <3>3 DEF Sent
  <2>3. CASE ~(s.phase # "ended" /\ ~Admits(x, e.ack))
    <3> DEFINE acks == IF e.ack /\ e.live THEN x.pendingAcks \cup {e.id} ELSE x.pendingAcks
               set == Settled(x.promise, {e.id}, "ok")
               g == IF e.ack THEN x.promise ELSE [x.promise EXCEPT ![e.id] = "ok"]
               y == [x EXCEPT !.promise = g, !.pendingAcks = acks]
               t == EmitMessage(y, e.id, e.ack)
    <3>1. /\ g \in [ServerIds -> States] /\ acks \subseteq ServerIds
          /\ \A i \in ServerIds : i # e.id => g[i] = x.promise[i]
          /\ g[e.id] = IF e.ack THEN x.promise[e.id] ELSE "ok"
      BY <2>1 DEF States
    <3>2. ~e.ack => set = g
      <4>1. SUFFICES ASSUME ~e.ack PROVE set = g
        OBVIOUS
      <4>2. x.promise[e.id] = "pending"
        <5>1. e.live = TRUE
          BY <1>1, <2>1, <4>1 DEF FlushOrder
        <5>2. s.promise[e.id] = "pending"
          BY <1>1, <5>1 DEF FlushOrder
        <5>3. n + 1 \in n + 1 .. Len(m)
          BY DEF FlushOrder
        <5> QED BY <1>1, <1>3, <5>2, <5>3 DEF Sending
      <4>3. set \in [ServerIds -> States]
        BY <2>1 DEF Settled, States
      <4>4. \A i \in ServerIds : set[i] = g[i]
        BY <2>1, <4>1, <4>2 DEF Settled
      <4> HIDE DEF set, g
      <4> QED BY <3>1, <4>3, <4>4
    <3>3. SentOne(s, x, m[n + 1]) = t
      <4>1. SentOne(s, x, e) =
                EmitMessage(IF e.ack THEN [x EXCEPT !.pendingAcks = IF e.live THEN @ \cup {e.id} ELSE @]
                            ELSE Settle(x, {e.id}, "ok"), e.id, e.ack)
        BY <2>1, <2>3 DEF SentOne, SendBuffered
      <4>2. CASE e.ack
        <5>1. [x EXCEPT !.pendingAcks = IF e.live THEN @ \cup {e.id} ELSE @] = y
          BY <2>1, <4>2 DEF ServerRecs
        <5> HIDE DEF y
        <5>2. SentOne(s, x, e) = EmitMessage(y, e.id, e.ack)
          BY <4>1, <4>2, <5>1, Zenon
        <5> QED BY <1>1, <5>2
      <4>3. CASE ~e.ack
        <5>1. Settle(x, {e.id}, "ok") = [x EXCEPT !.promise = set]
          BY DEF Settle, Settled
        <5>2. [x EXCEPT !.promise = set] = y
          <6> HIDE DEF set, g
          <6> QED BY <2>1, <3>2, <4>3 DEF ServerRecs
        <5> HIDE DEF y, set
        <5>3. SentOne(s, x, e) = EmitMessage(y, e.id, e.ack)
          BY <4>1, <4>3, <5>1, <5>2, Zenon
        <5> QED BY <1>1, <5>3
      <4> QED BY <4>2, <4>3
    <3> HIDE DEF g, acks, set
    <3>4. /\ y \in ServerRecs /\ y.promise = g /\ y.pendingAcks = acks /\ SameKept(x, y)
          /\ y.seq = x.seq /\ y.out = x.out /\ y.seqOf = x.seqOf
      BY <2>1, <3>1 DEF ServerRecs, SameKept
    <3> HIDE DEF y
    <3>5. Emitted(y, t, e.id)
      BY <2>1, <3>4, EmitDoes
    <3> HIDE DEF t
    <3>6. /\ e.ack /\ e.live => acks = x.pendingAcks \cup {e.id}
          /\ ~(e.ack /\ e.live) => acks = x.pendingAcks
      BY DEF acks
    <3>7. Sending(s, t, m, n + 1)
      BY <1>1, <1>3, <3>1, <3>4, <3>5, <3>6, SentNext
    <3> QED BY <3>3, <3>7 DEF Sent
  <2> QED BY <2>2, <2>3
<1> QED BY <1>2, <1>3 DEF Sent

\* The whole of it went, or the channel ended on the way.
LEMMA SentEvery ==
    ASSUME NEW s, Attaching(s), NEW m, FlushOrder(s, m), NEW f, SentTo(s, m, Len(m), f)
    PROVE  Sent(s, f[Len(m)], m, Len(m))
<1>0. PICK n \in Nat : n = Len(m)
  BY DEF FlushOrder
<1> USE <1>0
<1> DEFINE H == {k \in Nat : k <= n => Sent(s, f[k], m, k)}
<1>1. 0 \in H
  <2>1. f[0] = s
    BY DEF SentTo
  <2> QED BY <2>1, SendingStarts DEF Sent
<1>2. ASSUME NEW k \in Nat, k \in H PROVE k + 1 \in H
  <2> SUFFICES ASSUME k + 1 <= n PROVE Sent(s, f[k + 1], m, k + 1)
    OBVIOUS
  <2>1. k <= n /\ k + 1 \in 0 .. n /\ k + 1 # 0 /\ k + 1 - 1 = k /\ k + 1 \in 1 .. Len(m)
    OBVIOUS
  <2>2. f[k + 1] = SentOne(s, f[k], m[k + 1])
    BY <2>1 DEF SentTo
  <2>3. Sent(s, f[k], m, k)
    BY <1>2, <2>1
  <2> QED BY <2>1, <2>2, <2>3, SentOneDoes
<1>3. \A k \in Nat : k \in H
  BY <1>1, <1>2, NatByStep, Zenon
<1> QED BY <1>3

\* Frames that carry neither messages nor an end that is not owed in `end`.
OwedBy(end, r) ==
    /\ r \in Seq(ToPageFrames) /\ Len(r) \in Nat /\ ~Carries(r, "MESSAGE") /\ Ordered(r)
    /\ ~Carries(r, "CLOSE_ACK") /\ ~Carries(r, "ERROR")
    /\ Carries(r, "ABORT") => end.abort
    /\ Carries(r, "CLOSE") => end.closeRequest

\* Two runs of frames owed, one after the other.
LEMMA OwedJoin ==
    ASSUME NEW end, NEW q, NEW r, OwedBy(end, q), OwedBy(end, r)
    PROVE  OwedBy(end, q \o r) /\ Len(q \o r) = Len(q) + Len(r)
<1> DEFINE z == q \o r
<1>1. /\ z \in Seq(ToPageFrames) /\ Len(z) = Len(q) + Len(r)
      /\ \A t : Carries(z, t) <=> Carries(q, t) \/ Carries(r, t)
  BY JoinCarries DEF OwedBy
<1>2. Ordered(z)
  <2>1. \A i : ~CarriesId(q, i) /\ ~CarriesId(r, i)
    BY CarriesSome DEF OwedBy
  <2> QED BY <2>1, JoinCarries DEF OwedBy
<1> HIDE DEF z
<1>3. Len(z) \in Nat
  BY <1>1 DEF OwedBy
<1>4. OwedBy(end, z) /\ Len(z) = Len(q) + Len(r)
  BY <1>1, <1>2, <1>3 DEF OwedBy
<1> QED BY <1>4 DEF z

\* A frame that is owed.
LEMMA OwedOne ==
    ASSUME NEW end, NEW f \in ToPageFrames, f.t \in {"ACK_RES", "CLOSE", "ABORT"},
           f.t = "ABORT" => end.abort, f.t = "CLOSE" => end.closeRequest
    PROVE  OwedBy(end, <<f>>) /\ Len(<<f>>) = 1
<1> DEFINE z == <<f>>
<1>1. /\ \A t : Carries(z, t) <=> f.t = t
      /\ Ordered(z) /\ Len(z) = 1 /\ z \in Seq(ToPageFrames)
  BY OneFrame
<1> HIDE DEF z
<1>2. OwedBy(end, z) /\ Len(z) = 1
  BY <1>1 DEF OwedBy
<1> QED BY <1>2 DEF z

\* Nothing is always owed.
LEMMA OwedNone == \A end : OwedBy(end, <<>>)
BY NoFrame DEF OwedBy

\* t is y with what it owed its page sent, in r.
PaidOwed(y, t, r) ==
    /\ t \in ServerRecs /\ OwedBy(y.pendingEnd, r) /\ t.seq = y.seq + Len(r) /\ t.out = y.out \o r
    /\ t.pendingEnd = NoPendingEnd
    /\ t.closeSeq = y.closeSeq \/ (t.closeSeq = y.seq + 1 /\ Len(r) >= 1)
    /\ t.phase = y.phase /\ t.life = y.life /\ t.sent = y.sent /\ t.asked = y.asked
    /\ t.got = y.got /\ t.buf = y.buf /\ t.attached = y.attached /\ t.released = y.released
    /\ t.pageSeq = y.pageSeq /\ t.promise = y.promise /\ t.pendingAcks = y.pendingAcks
    /\ t.seqOf = y.seqOf

\* sendPendingEnd: what the end owes goes last.
LEMMA PaysEnd ==
    ASSUME NEW y \in ServerRecs, ~y.pendingEnd.closeAck, ~y.pendingEnd.error
    PROVE  \E r : PaidOwed(y, SendPendingEnd(y), r)
<1> DEFINE end == y.pendingEnd
           f == Close(y.life.left)
           a == Ctrl("ABORT")
           c == IF end.closeRequest THEN <<f>> ELSE <<>>
           b == IF end.abort THEN <<a>> ELSE <<>>
           r == c \o b
           o == y.out \o r
           at == IF end.closeRequest THEN y.seq + 1 ELSE y.closeSeq
           t == [y EXCEPT !.seq = y.seq + Len(r), !.out = o, !.pendingEnd = NoPendingEnd, !.closeSeq = at]
<1>1. /\ end \in EndsOwed /\ y.life.left \in Times /\ y.seq \in Nat /\ y.closeSeq \in Nat
      /\ y.out \in Seq(ToPageFrames)
  BY DEF ServerRecs, Handshakes
<1>2. f \in ToPageFrames /\ f.t = "CLOSE" /\ a \in ToPageFrames /\ a.t = "ABORT"
  BY <1>1, FrameTypes DEF Close, Ctrl
<1> HIDE DEF f, a
<1>3. OwedBy(end, c) /\ (end.closeRequest => Len(c) = 1)
  <2>1. CASE end.closeRequest
    <3>1. OwedBy(end, <<f>>) /\ Len(<<f>>) = 1
      BY <1>2, <2>1, OwedOne
    <3> QED BY <2>1, <3>1
  <2>2. CASE ~end.closeRequest
    BY <2>2, OwedNone
  <2> QED BY <2>1, <2>2
<1>4. OwedBy(end, b)
  <2>1. CASE end.abort
    <3>1. OwedBy(end, <<a>>)
      BY <1>2, <2>1, OwedOne
    <3> QED BY <2>1, <3>1
  <2>2. CASE ~end.abort
    BY <2>2, OwedNone
  <2> QED BY <2>1, <2>2
<1>5. SendPendingEnd(y) = t
  <2>1. SendPendingEnd(y) =
          [EmitAll(y, <<>> \o ((c \o b) \o <<>>)) EXCEPT
              !.pendingEnd = NoPendingEnd,
              !.closeSeq = IF end.closeRequest THEN y.seq + Len(<<>>) + 1 ELSE @]
    BY DEF SendPendingEnd, f, a
  <2> HIDE DEF b, c
  <2>2. <<>> \o ((c \o b) \o <<>>) = r /\ Len(<<>>) = 0 /\ y.seq + 0 + 1 = y.seq + 1
    <3>1. c \in Seq(ToPageFrames) /\ b \in Seq(ToPageFrames)
      BY <1>3, <1>4 DEF OwedBy
    <3>2. r \in Seq(ToPageFrames)
      BY <3>1
    <3>3. r \o <<>> = r
      BY <3>2
    <3> QED BY <1>1, <3>2, <3>3
  <2> HIDE DEF r, end
  <2> DEFINE z == EmitAll(y, r)
             w == [y EXCEPT !.seq = y.seq + Len(r), !.out = o]
  <2>3. z = w
    BY <1>1 DEF EmitAll, ServerRecs
  <2>4. w.closeSeq = y.closeSeq
    BY DEF ServerRecs
  <2>5. SendPendingEnd(y) =
          [EmitAll(y, r) EXCEPT !.pendingEnd = NoPendingEnd,
                                !.closeSeq = IF end.closeRequest THEN y.seq + 1 ELSE @]
    BY <2>1, <2>2 DEF r
  <2>6. [w EXCEPT !.pendingEnd = NoPendingEnd, !.closeSeq = IF end.closeRequest THEN y.seq + 1 ELSE @] = t
    BY DEF ServerRecs
  <2> HIDE DEF t, w
  <2> QED BY <2>3, <2>5, <2>6 DEF z
<1> HIDE DEF b, c
<1>6. OwedBy(end, r) /\ Len(r) = Len(c) + Len(b) /\ Len(b) \in Nat
  <2>1. Len(b) \in Nat
    BY <1>4 DEF OwedBy
  <2> QED BY <1>3, <1>4, <2>1, OwedJoin
<1> HIDE DEF r
<1>7. o \in Seq(ToPageFrames) /\ y.seq + Len(r) \in Nat /\ at \in Nat
  <2>1. r \in Seq(ToPageFrames) /\ Len(r) \in Nat
    BY <1>6 DEF OwedBy
  <2> QED BY <1>1, <2>1
<1>8. at = y.closeSeq \/ (at = y.seq + 1 /\ Len(r) >= 1)
  <2>1. CASE end.closeRequest
    BY <1>3, <1>6, <2>1
  <2>2. CASE ~end.closeRequest
    BY <2>2
  <2> QED BY <2>1, <2>2
<1>9. NoPendingEnd \in EndsOwed
  BY DEF NoPendingEnd, EndsOwed
<1> HIDE DEF o, at
<1> DEFINE n == y.seq + Len(r)
<1>10. n \in Nat
  BY <1>7
<1> HIDE DEF n
<1>11. t \in ServerRecs /\ t.seq = n /\ t.out = o /\ t.pendingEnd = NoPendingEnd /\ t.closeSeq = at
  <2>1. t = [y EXCEPT !.seq = n, !.out = o, !.pendingEnd = NoPendingEnd, !.closeSeq = at]
    BY DEF n
  <2> HIDE DEF t
  <2> QED BY <1>7, <1>9, <1>10, <2>1 DEF ServerRecs
<1>12. /\ t.phase = y.phase /\ t.life = y.life /\ t.sent = y.sent /\ t.asked = y.asked
       /\ t.got = y.got /\ t.buf = y.buf /\ t.attached = y.attached /\ t.released = y.released
       /\ t.pageSeq = y.pageSeq /\ t.promise = y.promise /\ t.pendingAcks = y.pendingAcks
       /\ t.seqOf = y.seqOf
  BY DEF ServerRecs
<1> HIDE DEF t
<1>13. PaidOwed(y, t, r)
  BY <1>6, <1>8, <1>11, <1>12 DEF PaidOwed, o, n
<1> QED BY <1>5, <1>13

\* sendPendingAckRes: the answers that waited for a page go.
LEMMA PaysAcks ==
    ASSUME NEW y \in ServerRecs
    PROVE  LET t == SendPendingAckRes(y) IN
           /\ t \in ServerRecs /\ OwedBy(y.pendingEnd, y.ackRes) /\ t.seq = y.seq + Len(y.ackRes)
           /\ t.out = y.out \o y.ackRes /\ t.pendingEnd = y.pendingEnd /\ t.closeSeq = y.closeSeq
           /\ t.phase = y.phase /\ t.life = y.life /\ t.sent = y.sent /\ t.asked = y.asked
           /\ t.got = y.got /\ t.buf = y.buf /\ t.attached = y.attached /\ t.released = y.released
           /\ t.pageSeq = y.pageSeq /\ t.promise = y.promise /\ t.pendingAcks = y.pendingAcks
           /\ t.seqOf = y.seqOf
<1> DEFINE a == y.ackRes
           o == y.out \o a
           n == y.seq + Len(a)
           t == [y EXCEPT !.seq = n, !.out = o, !.ackRes = <<>>]
<1>1. a \in Seq(AckFrames) /\ a \in Seq(ToPageFrames) /\ Len(a) \in Nat
  <2>1. a \in Seq(AckFrames)
    BY DEF ServerRecs
  <2>2. AckFrames \subseteq ToPageFrames
    BY DEF AckFrames, ToPageFrames
  <2> QED BY <2>1, <2>2
<1>2. \A i \in 1 .. Len(a) : a[i].t = "ACK_RES"
  <2> HIDE DEF a
  <2>1. \A i \in 1 .. Len(a) : a[i] \in AckFrames
    BY <1>1
  <2>2. \A e \in AckFrames : e.t = "ACK_RES"
    BY DEF AckFrames
  <2> QED BY <2>1, <2>2
<1>3. OwedBy(y.pendingEnd, a)
  BY <1>1, <1>2 DEF OwedBy, Carries, Ordered
<1>4. o \in Seq(ToPageFrames) /\ n \in Nat
  BY <1>1 DEF ServerRecs
<1>5. SendPendingAckRes(y) = t
  BY DEF SendPendingAckRes, EmitAll, ServerRecs
<1>6. <<>> \in Seq(AckFrames)
  OBVIOUS
<1> HIDE DEF o, n, a
<1>7. t \in ServerRecs /\ t.seq = n /\ t.out = o
  BY <1>4, <1>6 DEF ServerRecs
<1>8. /\ t.pendingEnd = y.pendingEnd /\ t.closeSeq = y.closeSeq
      /\ t.phase = y.phase /\ t.life = y.life /\ t.sent = y.sent /\ t.asked = y.asked
      /\ t.got = y.got /\ t.buf = y.buf /\ t.attached = y.attached /\ t.released = y.released
      /\ t.pageSeq = y.pageSeq /\ t.promise = y.promise /\ t.pendingAcks = y.pendingAcks
      /\ t.seqOf = y.seqOf
  BY DEF ServerRecs
<1> HIDE DEF t
<1> QED BY <1>3, <1>5, <1>7, <1>8 DEF a, o, n

\* The end as the page's attachment finds it, but for the buffer of it.
Unbuffered(x, f) ==
    /\ f \in ServerRecs /\ f.buf = EmptyBuffer /\ f.phase = x.phase /\ f.life = x.life
    /\ f.sent = x.sent /\ f.asked = x.asked /\ f.got = x.got /\ f.attached = x.attached
    /\ f.released = x.released /\ f.pendingEnd = x.pendingEnd /\ f.pageSeq = x.pageSeq
    /\ f.closeSeq = x.closeSeq /\ f.ackRes = x.ackRes /\ f.promise = x.promise
    /\ f.pendingAcks = x.pendingAcks /\ f.seq = x.seq /\ f.seqOf = x.seqOf /\ f.out = x.out
    /\ f.answering = x.answering /\ f.registered = x.registered /\ f.pageClosed = x.pageClosed

\* The buffer of an end is emptied, and nothing else changes.
LEMMA UnbufferDoes ==
    ASSUME NEW x \in ServerRecs
    PROVE  Unbuffered(x, [x EXCEPT !.buf = EmptyBuffer])
<1>1. EmptyBuffer \in Buffers
  BY EmptyBufferIs
<1> QED BY <1>1 DEF Unbuffered, ServerRecs

\* _attachPeer, before the flush.
LEMMA AttachingIs ==
    ASSUME NEW s, ServerStart(s), ~s.released, ~s.attached
    PROVE  LET a == [s EXCEPT !.attached = s.phase # "ended"] IN
           /\ Attaching(a) /\ SameWords(s, a) /\ a.seq = s.seq /\ a.phase = s.phase
           /\ a.life = s.life /\ a.pendingEnd = s.pendingEnd
<1> DEFINE is == s.phase # "ended"
           a == [s EXCEPT !.attached = is]
<1>1. /\ s \in ServerRecs /\ ServerTyped(s) /\ ServerBuffered(s) /\ AtRest(s.life) /\ s.out = <<>>
      /\ use \in Uses /\ ServerOK(s)
  BY DEF ServerStart, ServerOK, ServerTyped
<1>2. is \in BOOLEAN /\ is = (s.phase # "ended")
  OBVIOUS
<1> HIDE DEF is
<1>3. a \in ServerRecs /\ a.attached = is
  BY <1>1, <1>2 DEF ServerRecs
<1>4. /\ a.phase = s.phase /\ a.life = s.life /\ a.sent = s.sent /\ a.asked = s.asked
      /\ a.got = s.got /\ a.buf = s.buf /\ a.released = s.released /\ a.pendingEnd = s.pendingEnd
      /\ a.pageSeq = s.pageSeq /\ a.closeSeq = s.closeSeq /\ a.promise = s.promise
      /\ a.pendingAcks = s.pendingAcks /\ a.seq = s.seq /\ a.seqOf = s.seqOf /\ a.out = s.out
  BY <1>1 DEF ServerRecs
<1> HIDE DEF a
<1>5. ServerTyped(a)
  BY <1>1, <1>3, <1>4 DEF ServerTyped
<1>6. ServerBuffered(a)
  BY <1>1, <1>4 DEF ServerBuffered
<1>7. Attaching(a)
  BY <1>1, <1>2, <1>3, <1>4, <1>5, <1>6 DEF Attaching, ServerOK
<1>8. SameWords(s, a)
  BY <1>4 DEF SameWords
<1> QED BY <1>4, <1>7, <1>8 DEF a, is

\* A flush that ended the channel.
LEMMA AttachOver ==
    ASSUME NEW s, ServerStart(s), ~s.released, ~s.attached, NEW a, SameWords(s, a), a.seq = s.seq,
           a.phase = s.phase, a.life = s.life, a.pendingEnd = s.pendingEnd,
           NEW x, SentOver(a, x), NEW t, Unbuffered(x, t)
    PROVE  ServerMoves(s, t, t.out, FALSE) /\ ServerClean(s, t) /\ t.attached = FALSE /\ t.phase = "ended"
<1>1. /\ ServerOK(x) /\ ServerWords(a, x, x.out) /\ x.phase = "ended" /\ x.life.ended
      /\ x.life.error = "overflow" /\ (\A i : ~Holds(x.buf, i)) /\ x.attached = FALSE
      /\ x.life.acked = a.life.acked /\ (x.life.requested = a.life.requested)
      /\ ~x.pendingEnd.abort /\ ~Carries(x.out, "CLOSE_ACK") /\ s.phase # "ended"
  BY DEF SentOver
<1>2. /\ x \in ServerRecs /\ x.buf \in Buffers /\ x.promise \in [ServerIds -> States] /\ ServerTyped(x)
      /\ ServerBuffered(x) /\ x.pendingAcks = {}
  BY <1>1 DEF ServerOK, ServerTyped, ServerRecs
<1>3. /\ t \in ServerRecs /\ t.buf = EmptyBuffer /\ Entries(t.buf) = {} /\ (\A i : ~Holds(t.buf, i))
      /\ EmptyBuffer \in Buffers
  BY EmptyBufferIs, HoldsNothing DEF Unbuffered
<1>4. PendingOf(x.promise) \subseteq {}
  <2>1. Entries(x.buf) = {}
    BY <1>1, <1>2, HoldsIs
  <2>2. StillWaiting(x.buf) = {}
    BY <1>2, <2>1, HoldsNothing
  <2> QED BY <1>2, <2>2 DEF ServerBuffered, Holding
<1>5. ServerBuffered(t)
  <2>1. \A acks, asked, n, ended : Holding(EmptyBuffer, x.promise, ended, acks, asked, n)
    BY <1>3, <1>4, HoldsNothing
  <2> QED BY <1>3, <2>1 DEF ServerBuffered, Unbuffered
<1>6. ServerTyped(t)
  BY <1>2, <1>3 DEF ServerTyped, Unbuffered
<1>7. ServerOK(t)
  BY <1>1, <1>3, <1>5, <1>6 DEF ServerOK, Unbuffered
<1>8. ServerWords(a, t, t.out)
  <2>1. /\ t.out = x.out /\ t.got = x.got /\ t.seq = x.seq /\ t.sent = x.sent /\ t.promise = x.promise
        /\ t.asked = x.asked /\ t.phase = x.phase /\ Pending(t) = Pending(x)
    BY DEF Unbuffered, Pending
  <2>2. Silent(t)
    BY <1>1, <1>3, <2>1 DEF Silent
  <2> QED BY <1>1, <1>3, <2>1, <2>2 DEF ServerWords
<1>9. ServerWords(s, t, t.out)
  <2>1. Pending(a) = Pending(s)
    BY DEF SameWords, Pending
  <2> QED BY <1>8, <2>1 DEF ServerWords, SameWords
<1>10. ServerLife(s, t, t.out, FALSE)
  <2>1. ~s.life.ended /\ s.phase # "ended"
    BY <1>1 DEF ServerStart, ServerOK
  <2>2. /\ t.life = x.life /\ t.pendingEnd = x.pendingEnd /\ t.out = x.out /\ t.phase = "ended"
    BY <1>1 DEF Unbuffered
  <2>3. ~Silent(s)
    BY DEF Silent, SentOver, SameWords
  <2> QED BY <1>1, <2>1, <2>2, <2>3 DEF ServerLife
<1>11. ServerClean(s, t)
  BY <1>1 DEF ServerClean, Unbuffered
<1> QED BY <1>1, <1>7, <1>9, <1>10, <1>11 DEF ServerMoves, Unbuffered

\* A flush after which the channel goes on: what is owed follows what was kept.
LEMMA AttachPays ==
    ASSUME NEW s, ServerStart(s), ~s.released, ~s.attached,
           NEW a, Attaching(a), SameWords(s, a), a.seq = s.seq,
           a.phase = s.phase, a.life = s.life, a.pendingEnd = s.pendingEnd, a.ackRes = s.ackRes,
           NEW m, FlushOrder(a, m), NEW x, Sending(a, x, m, Len(m)), NEW f, Unbuffered(x, f)
    PROVE  LET t == SendPendingEnd(SendPendingAckRes(f)) IN
           /\ ServerMoves(s, t, t.out, FALSE) /\ ServerClean(s, t)
           /\ t.attached = (t.phase # "ended") /\ t.phase = s.phase
<1> DEFINE y == SendPendingAckRes(f)
           t == SendPendingEnd(y)
           fs == x.out \o f.ackRes
<1>1. /\ s \in ServerRecs /\ ServerOK(s) /\ use \in Uses /\ s.seq \in Nat /\ s.sent \in Nat
      /\ 1 .. s.sent \subseteq ServerIds /\ s.promise \in [ServerIds -> States] /\ AtRest(s.life)
      /\ ServerTyped(s) /\ ~s.pendingEnd.closeAck /\ ~s.pendingEnd.error
  BY StartIs, IdsSent DEF ServerStart, ServerOK, ServerTyped, ServerRecs
<1>2. PICK n \in Nat : n = Len(m)
  BY DEF FlushOrder
<1>3. /\ x \in ServerRecs /\ x.phase = s.phase /\ x.life = s.life /\ x.sent = s.sent
      /\ x.asked = s.asked /\ x.got = s.got /\ x.attached = (s.phase # "ended")
      /\ x.released = FALSE /\ x.pendingEnd = s.pendingEnd /\ x.seq = s.seq + n
      /\ x.pageSeq = a.pageSeq /\ x.closeSeq = a.closeSeq /\ Len(x.out) = n
      /\ x.promise \in [ServerIds -> States]
  <2>1. x \in ServerRecs /\ SameKept(a, x) /\ x.seq = a.seq + n /\ Len(x.out) = n
    BY <1>2 DEF Sending
  <2>2. x.released \in BOOLEAN /\ x.promise \in [ServerIds -> States]
    BY <2>1 DEF ServerRecs
  <2>3. ~a.released /\ a.attached = (a.phase # "ended")
    BY DEF Attaching
  <2>4. a.sent = s.sent /\ a.asked = s.asked /\ a.got = s.got
    BY DEF SameWords
  <2> QED BY <2>1, <2>2, <2>3, <2>4 DEF SameKept
<1>4. /\ x.pendingAcks \subseteq s.asked /\ (s.phase = "ended" => x.pendingAcks = {})
      /\ \A i \in ServerIds : x.seqOf[i] <= s.seq + n
      /\ \A i \in ServerIds : x.promise[i] = "pending" =>
            s.promise[i] = "pending" /\ i \in x.pendingAcks
      /\ \A i \in ServerIds : s.promise[i] = "failed" => x.promise[i] = "failed"
  <2>1. n + 1 .. Len(m) = {}
    BY <1>2
  <2>2. a.asked = s.asked /\ a.promise = s.promise
    BY DEF SameWords
  <2> QED BY <1>2, <2>1, <2>2 DEF Sending
<1>5. /\ x.out \in Seq(ToPageFrames) /\ Ordered(x.out) /\ ~CarriesFinal(x.out)
      /\ CarriesFirst(x.out, m, n)
      /\ ~Carries(x.out, "CLOSE_ACK") /\ ~Carries(x.out, "ABORT") /\ ~Carries(x.out, "ERROR")
  BY <1>2, SentCarries
<1>6. \A i : CarriesId(x.out, i) <=> Holds(s.buf, i)
  <2>1. \A i : Holds(a.buf, i) <=> \E j \in 1 .. n : m[j].id = i
    BY <1>2 DEF FlushOrder
  <2>2. a.buf = s.buf
    BY DEF SameWords
  <2>3. \A i : CarriesId(x.out, i) <=> \E j \in 1 .. n : m[j].id = i
    BY <1>5 DEF CarriesFirst
  <2> QED BY <2>1, <2>2, <2>3
<1>7. /\ f \in ServerRecs /\ f.out = x.out /\ f.pendingEnd = s.pendingEnd /\ f.seq = s.seq + n
      /\ f.phase = s.phase /\ f.life = s.life /\ f.sent = s.sent /\ f.asked = s.asked
      /\ f.got = s.got /\ f.buf = EmptyBuffer /\ f.attached = (s.phase # "ended")
      /\ f.released = FALSE /\ f.promise = x.promise /\ f.pendingAcks = x.pendingAcks
      /\ f.seqOf = x.seqOf /\ f.pageSeq = x.pageSeq /\ f.closeSeq = x.closeSeq
  BY <1>3 DEF Unbuffered
<1>8. /\ y \in ServerRecs /\ OwedBy(s.pendingEnd, f.ackRes) /\ y.seq = s.seq + n + Len(f.ackRes)
      /\ y.out = fs /\ y.pendingEnd = s.pendingEnd /\ y.closeSeq = x.closeSeq
      /\ y.phase = s.phase /\ y.life = s.life /\ y.sent = s.sent /\ y.asked = s.asked
      /\ y.got = s.got /\ y.buf = EmptyBuffer /\ y.attached = (s.phase # "ended")
      /\ y.released = FALSE /\ y.pageSeq = x.pageSeq /\ y.promise = x.promise
      /\ y.pendingAcks = x.pendingAcks /\ y.seqOf = x.seqOf
  <2>1. /\ y \in ServerRecs /\ OwedBy(f.pendingEnd, f.ackRes) /\ y.seq = f.seq + Len(f.ackRes)
        /\ y.out = f.out \o f.ackRes /\ y.pendingEnd = f.pendingEnd /\ y.closeSeq = f.closeSeq
        /\ y.phase = f.phase /\ y.life = f.life /\ y.sent = f.sent /\ y.asked = f.asked
        /\ y.got = f.got /\ y.buf = f.buf /\ y.attached = f.attached /\ y.released = f.released
        /\ y.pageSeq = f.pageSeq /\ y.promise = f.promise /\ y.pendingAcks = f.pendingAcks
        /\ y.seqOf = f.seqOf
    BY <1>7, PaysAcks
  <2> HIDE DEF y
  <2> QED BY <1>7, <2>1
<1> HIDE DEF y
<1>9. PICK r : PaidOwed(y, t, r)
  BY <1>1, <1>8, PaysEnd
<1> HIDE DEF t
<1>10. OwedBy(s.pendingEnd, r) /\ OwedBy(s.pendingEnd, f.ackRes)
  BY <1>8, <1>9 DEF PaidOwed
<1> DEFINE o == f.ackRes \o r
<1>11. OwedBy(s.pendingEnd, o) /\ Len(o) = Len(f.ackRes) + Len(r) /\ Len(r) \in Nat
       /\ Len(f.ackRes) \in Nat /\ o \in Seq(ToPageFrames)
  <2>1. OwedBy(s.pendingEnd, f.ackRes \o r) /\ Len(f.ackRes \o r) = Len(f.ackRes) + Len(r)
    BY <1>10, OwedJoin
  <2> QED BY <1>10, <2>1 DEF OwedBy
<1>12. t.out = x.out \o o
  <2>1. t.out = (x.out \o f.ackRes) \o r
    BY <1>8, <1>9 DEF PaidOwed
  <2>2. f.ackRes \in Seq(ToPageFrames) /\ r \in Seq(ToPageFrames)
    BY <1>10 DEF OwedBy
  <2>3. x.out \o (f.ackRes \o r) = (x.out \o f.ackRes) \o r
    <3> DEFINE F == ToPageFrames
               u == x.out
               v == f.ackRes
    <3>1. u \in Seq(F) /\ v \in Seq(F) /\ r \in Seq(F)
      BY <1>5, <2>2
    <3> HIDE DEF F, u, v
    <3>2. (u \o v) \o r = u \o (v \o r)
      BY <3>1, ConcatAssociative
    <3> QED BY <3>2 DEF u, v
  <2> QED BY <2>1, <2>3
<1> HIDE DEF o, fs
<1>13. /\ Ordered(t.out) /\ Len(t.out) = n + Len(o)
       /\ \A i : CarriesId(t.out, i) <=> Holds(s.buf, i)
       /\ \A k : Carries(t.out, k) <=> Carries(x.out, k) \/ Carries(o, k)
  <2> DEFINE z == x.out \o o
  <2>1. ~Carries(o, "MESSAGE") /\ Ordered(o)
    BY <1>11 DEF OwedBy
  <2>2. \A i : ~CarriesId(o, i)
    BY <2>1, CarriesSome
  <2>3. /\ Len(z) = Len(x.out) + Len(o)
        /\ \A k : Carries(z, k) <=> Carries(x.out, k) \/ Carries(o, k)
        /\ \A i : CarriesId(z, i) <=> CarriesId(x.out, i) \/ CarriesId(o, i)
    BY <1>5, <1>11, JoinCarries
  <2>4. Ordered(z)
    BY <1>5, <1>11, <2>1, <2>2, JoinCarries
  <2> HIDE DEF z
  <2>5. t.out = z
    BY <1>12 DEF z
  <2> QED BY <1>3, <1>6, <2>2, <2>3, <2>4, <2>5
<1>14. /\ ~Carries(t.out, "CLOSE_ACK") /\ ~Carries(t.out, "ERROR")
       /\ Carries(t.out, "ABORT") => s.pendingEnd.abort
       /\ CarriesFinal(t.out) => s.phase # "open"
  <2>1. /\ ~Carries(o, "CLOSE_ACK") /\ ~Carries(o, "ERROR")
        /\ Carries(o, "ABORT") => s.pendingEnd.abort
        /\ Carries(o, "CLOSE") => s.pendingEnd.closeRequest
    BY <1>11 DEF OwedBy
  <2>2. \A k \in Finals : ~Carries(x.out, k)
    BY <1>5 DEF CarriesFinal
  <2>3. (s.pendingEnd.abort => s.phase = "ended") /\ (s.pendingEnd.closeRequest => s.phase # "open")
    BY <1>1 DEF ServerOK
  <2> QED BY <1>5, <1>13, <2>1, <2>2, <2>3 DEF CarriesFinal, Finals
<1>15. /\ t \in ServerRecs /\ t.seq = s.seq + (n + Len(o)) /\ t.pendingEnd = NoPendingEnd
       /\ t.closeSeq = x.closeSeq \/ (t.closeSeq = s.seq + n + Len(f.ackRes) + 1 /\ Len(r) >= 1)
       /\ t.phase = s.phase /\ t.life = s.life /\ t.sent = s.sent /\ t.asked = s.asked
       /\ t.got = s.got /\ t.buf = EmptyBuffer /\ t.attached = (s.phase # "ended")
       /\ t.released = FALSE /\ t.pageSeq = x.pageSeq /\ t.promise = x.promise
       /\ t.pendingAcks = x.pendingAcks /\ t.seqOf = x.seqOf
  <2>1. t.seq = y.seq + Len(r) /\ (t.closeSeq = y.closeSeq \/ (t.closeSeq = y.seq + 1 /\ Len(r) >= 1))
    BY <1>9 DEF PaidOwed
  <2>2. s.seq + n + Len(f.ackRes) + Len(r) = s.seq + (n + Len(o))
    BY <1>1, <1>11
  <2>3. t.seq = s.seq + (n + Len(o))
    BY <1>8, <2>1, <2>2
  <2> QED BY <1>8, <1>9, <2>1, <2>3 DEF PaidOwed
<1>16. ServerTyped(t)
  <2>1. /\ a.pageSeq \in Nat /\ a.pageSeq <= s.seq /\ a.closeSeq \in Nat /\ a.closeSeq <= s.seq
    BY DEF Attaching, ServerTyped, ServerRecs
  <2>2. a.pageSeq <= s.seq + (n + Len(o)) /\ a.closeSeq <= s.seq + (n + Len(o))
    BY <1>1, <1>11, <2>1
  <2>3. t.closeSeq <= t.seq
    <3>1. Len(r) >= 1 => s.seq + n + Len(f.ackRes) + 1 <= s.seq + (n + Len(o))
      BY <1>1, <1>11
    <3> QED BY <1>3, <1>15, <2>2, <3>1
  <2>4. \A i \in ServerIds : t.seqOf[i] <= t.seq
    <3> SUFFICES ASSUME NEW i \in ServerIds PROVE x.seqOf[i] <= s.seq + (n + Len(o))
      BY <1>15
    <3>1. x.seqOf[i] \in Nat /\ x.seqOf[i] <= s.seq + n
      BY <1>3, <1>4 DEF ServerRecs
    <3> QED BY <1>1, <1>11, <3>1
  <2>5. /\ s.sent <= Len(use.sends) /\ s.asked \subseteq {i \in 1 .. s.sent : use.sends[i].ack}
    BY <1>1 DEF ServerTyped
  <2>6. ~NoPendingEnd.closeAck /\ ~NoPendingEnd.error /\ ~NoPendingEnd.abort /\ ~NoPendingEnd.closeRequest
    BY DEF NoPendingEnd
  <2> QED BY <1>3, <1>4, <1>15, <2>2, <2>3, <2>4, <2>5, <2>6 DEF ServerTyped
<1>17. Entries(EmptyBuffer) = {} /\ EmptyBuffer \in Buffers /\ \A i : ~Holds(EmptyBuffer, i)
  BY EmptyBufferIs, HoldsNothing
<1>18. ServerBuffered(t)
  <2>1. PendingOf(x.promise) \subseteq x.pendingAcks
    BY <1>3, <1>4 DEF PendingOf
  <2> QED BY <1>15, <1>17, <2>1, HoldsNothing DEF ServerBuffered
<1>19. ServerOK(t)
  <2>1. ~NoPendingEnd.abort /\ ~NoPendingEnd.closeRequest
    BY DEF NoPendingEnd
  <2> QED BY <1>1, <1>4, <1>15, <1>16, <1>17, <1>18, <2>1 DEF ServerOK
<1>20. ServerWords(s, t, t.out)
  <2>1. Pending(t) \subseteq Pending(s)
    BY <1>1, <1>3, <1>4, <1>15 DEF Pending
  <2>2. s.sent + 1 .. t.sent = {}
    BY <1>1, <1>15
  <2>3. \A i \in 1 .. s.sent : s.promise[i] = "failed" => t.promise[i] = "failed"
    BY <1>1, <1>4, <1>15
  <2>4. CarriesFinal(t.out) => Silent(t)
    BY <1>14, <1>15, <1>17 DEF Silent
  <2> QED BY <1>13, <1>15, <1>17, <2>1, <2>2, <2>3, <2>4 DEF ServerWords
<1>21. ServerLife(s, t, t.out, FALSE)
  <2>1. ~NoPendingEnd.abort
    BY DEF NoPendingEnd
  <2>2. s.pendingEnd.abort => s.phase = "ended"
    BY <1>1 DEF ServerOK
  <2> QED BY <1>14, <1>15, <2>1, <2>2 DEF ServerLife
<1>22. ServerClean(s, t)
  BY <1>15 DEF ServerClean
<1>23. ServerMoves(s, t, t.out, FALSE)
  BY <1>19, <1>20, <1>21 DEF ServerMoves
<1> QED BY <1>15, <1>22, <1>23 DEF t, y

\* _attachPeer: a page is attached to the server's end, which sends what it kept.
LEMMA AttachPeerDoes ==
    ASSUME NEW s, ServerStart(s), ~s.released, ~s.attached
    PROVE  LET t == AttachPeer(s) IN
           ServerMoves(s, t, t.out, FALSE) /\ ServerClean(s, t) /\ t.attached = (t.phase # "ended")
<1> DEFINE a == [s EXCEPT !.attached = s.phase # "ended"]
           m == Flushed(a.buf)
           f == Flush(a)
           t == AttachPeer(s)
<1>1. /\ Attaching(a) /\ SameWords(s, a) /\ a.seq = s.seq /\ a.phase = s.phase
      /\ a.life = s.life /\ a.pendingEnd = s.pendingEnd /\ a.ackRes = s.ackRes
  <2>1. a.ackRes = s.ackRes
    BY DEF ServerStart, ServerOK, ServerTyped, ServerRecs
  <2>2. /\ Attaching(a) /\ SameWords(s, a) /\ a.seq = s.seq /\ a.phase = s.phase
        /\ a.life = s.life /\ a.pendingEnd = s.pendingEnd
    BY AttachingIs
  <2> QED BY <2>1, <2>2
<1>2. t = IF s.phase # "ended" /\ f.phase = "ended" THEN f ELSE SendPendingEnd(SendPendingAckRes(f))
  BY DEF AttachPeer
<1> HIDE DEF a, t
<1>3. FlushOrder(a, m)
  BY <1>1, FlushedIs DEF Attaching
<1>4. SentAll(a, m, f)
  <2>1. Len(Flushed(a.buf)) \in Nat
    BY <1>3 DEF FlushOrder
  <2> QED BY <2>1, FlushGoes
<1> HIDE DEF m, f
<1>5. PICK g : SentTo(a, m, Len(m), g) /\ f = [g[Len(m)] EXCEPT !.buf = EmptyBuffer]
  BY <1>4 DEF SentAll
<1> DEFINE x == g[Len(m)]
<1>6. Sent(a, x, m, Len(m))
  BY <1>1, <1>3, <1>5, SentEvery
<1>7. f = [x EXCEPT !.buf = EmptyBuffer]
  BY <1>5
<1> HIDE DEF x
<1>8. Unbuffered(x, f)
  <2>1. x \in ServerRecs
    BY <1>6 DEF Sent, Sending, SentOver, ServerOK, ServerTyped
  <2> QED BY <1>7, <2>1, UnbufferDoes
<1>9. CASE SentOver(a, x)
  <2>1. f.phase = "ended" /\ s.phase # "ended"
    BY <1>1, <1>8, <1>9 DEF SentOver, Unbuffered
  <2>2. t = f
    BY <1>2, <2>1
  <2>3. ServerMoves(s, f, f.out, FALSE) /\ ServerClean(s, f) /\ f.attached = FALSE /\ f.phase = "ended"
    BY <1>1, <1>8, <1>9, AttachOver
  <2> QED BY <2>2, <2>3 DEF t
<1>10. CASE Sending(a, x, m, Len(m))
  <2>1. f.phase = s.phase
    BY <1>1, <1>8, <1>10 DEF Sending, SameKept, Unbuffered
  <2>2. t = SendPendingEnd(SendPendingAckRes(f))
    BY <1>2, <2>1
  <2> DEFINE z == SendPendingEnd(SendPendingAckRes(f))
  <2>3. ServerMoves(s, z, z.out, FALSE) /\ ServerClean(s, z) /\ z.attached = (z.phase # "ended")
    BY <1>1, <1>3, <1>8, <1>10, AttachPays, ZenonT(180)
  <2>4. t = z
    BY <2>2
  <2> HIDE DEF z
  <2> QED BY <2>3, <2>4 DEF t
<1> QED BY <1>6, <1>9, <1>10 DEF Sent

\* Two ends with the same messages and the same close move alike.
LEMMA MovesOn ==
    ASSUME NEW s, NEW r, NEW t, NEW fs, NEW told, SameButPage(s, r), ServerMoves(r, t, fs, told),
           ServerClean(r, t)
    PROVE  ServerMoves(s, t, fs, told) /\ ServerClean(s, t)
<1>1. Pending(r) = Pending(s)
  BY DEF SameButPage, SameWords, Pending
<1>2. Silent(r) <=> Silent(s)
  BY DEF SameButPage, SameWords, Silent
<1>3. ServerWords(s, t, fs)
  BY <1>1 DEF SameButPage, SameWords, ServerMoves, ServerWords
<1>4. ServerLife(s, t, fs, told)
  BY <1>1, <1>2 DEF SameButPage, SameWords, ServerMoves, ServerLife
<1> QED BY <1>1, <1>3, <1>4 DEF ServerMoves, ServerClean, SameButPage, SameWords

\* A wire carries the channel.
LEMMA AttachDoes ==
    ASSUME NEW s, ServerStart(s), ~s.released, ~s.attached, NEW n \in Nat, n <= s.seq
    PROVE  LET t == AttachPeer(OnPageHas(s, n)) IN
           ServerMoves(s, t, t.out, FALSE) /\ ServerClean(s, t) /\ t.attached = (t.phase # "ended")
<1> DEFINE r == OnPageHas(s, n)
           t == AttachPeer(r)
<1>1. SameButPage(s, r)
  BY PageIsAhead
<1> HIDE DEF r
<1>2. ServerStart(r) /\ ~r.released /\ ~r.attached
  BY <1>1 DEF SameButPage
<1>3. ServerMoves(r, t, t.out, FALSE) /\ ServerClean(r, t) /\ t.attached = (t.phase # "ended")
  BY <1>2, AttachPeerDoes
<1> HIDE DEF t
<1>4. ServerMoves(s, t, t.out, FALSE) /\ ServerClean(s, t)
  BY <1>1, <1>3, MovesOn
<1> QED BY <1>3, <1>4 DEF t, r

\* sendData, _sendBinary
LEMMA ServerSendDoes ==
    ASSUME NEW s, ServerStart(s), s.phase = "open", s.sent + 1 \in ServerIds
    PROVE  LET t == ServerSend(s) IN
           ServerMoves(s, t, t.out, FALSE) /\ ServerClean(s, t) /\ Stays(s, t)
<1>1. CASE ~s.attached
  BY <1>1, ServerBuffersDoes
<1>2. CASE s.attached /\ Admits(s, use.sends[s.sent + 1].ack)
  BY <1>2, ServerSendsDoes
<1>3. CASE s.attached /\ ~Admits(s, use.sends[s.sent + 1].ack)
  BY <1>3, ServerOverflowsDoes
<1> QED BY <1>1, <1>2, <1>3

\* abort
LEMMA ServerAbortDoes ==
    ASSUME NEW s, ServerStart(s), s.phase = "open"
    PROVE  LET t == ServerAbort(s) IN
           ServerMoves(s, t, t.out, FALSE) /\ ServerClean(s, t) /\ Stays(s, t)
<1>1. ServerTyped(s) /\ SameWords(s, s) /\ Woken(s.life, s.life) /\ s.out = <<>>
  BY DEF ServerStart, ServerOK, SameWords, Woken
<1> QED BY <1>1, AbortDoes

-----------------------------------------------------------------------------
(* What the ends agree on *)

\* An end of which the page heard message i, or whose sender was told of its loss.
Heard(p, i) == \E k \in 1 .. Len(p.got) : p.got[k] = i
Told(p, s, i) == Heard(p, i) \/ s.promise[i] = "failed"

\* The page's messages are heard in turn, and what the server has not heard is on its way.
ServerIsTold(p, s, qs) ==
    /\ Ordered(qs)
    /\ \A i \in 1 .. Len(s.got) : s.got[i] = i
    /\ Len(s.got) <= p.sent
    /\ \A i : CarriesId(qs, i) => i \in Len(s.got) + 1 .. p.sent
    /\ s.phase # "ended" => \A i \in Len(s.got) + 1 .. p.sent : CarriesId(qs, i)

\* The server's messages are heard in order; one that was not is on its way, waits for a page, or
\* was told lost.
PageIsTold(p, s, qp) ==
    /\ Ordered(qp)
    /\ \A i, j \in 1 .. Len(p.got) : i < j => p.got[i] < p.got[j]
    /\ \A i : Heard(p, i) \/ CarriesId(qp, i) => i \in 1 .. s.sent
    /\ \A i, j : Heard(p, j) /\ (CarriesId(qp, i) \/ Holds(s.buf, i)) => j < i
    /\ \A i, j : CarriesId(qp, j) /\ Holds(s.buf, i) => j < i
    /\ \A i \in 1 .. s.sent : \A j : Heard(p, j) /\ i < j => Told(p, s, i)
    /\ p.phase # "ended" =>
          \A i \in 1 .. s.sent : Told(p, s, i) \/ CarriesId(qp, i) \/ Holds(s.buf, i)

\* The page's close, and what it says of the server.
PageCloseHolds(p, s, qp) ==
    /\ CarriesFinal(qp) => Silent(s)
    /\ ~p.life.ended /\ (p.life.acked \/ p.life.fired \/ (p.life.run # "none" /\ ~p.life.requested)) =>
          ~Carries(qp, "MESSAGE") /\ Silent(s)
    /\ Carries(qp, "CLOSE_ACK") \/ p.life.acked =>
          /\ p.phase # "open" /\ Silent(s) /\ ~Carries(qp, "ABORT") /\ ~Carries(qp, "ERROR")
          /\ ~s.pendingEnd.abort /\ Len(s.got) = p.sent
    /\ Carries(qp, "ABORT") \/ Carries(qp, "ERROR") => s.phase = "ended"
    /\ p.life.fired /\ ~p.life.ended => p.asked \cap Pending(p) = {}

\* The server's close, and what it says of the page.
ServerCloseHolds(p, s, qs) ==
    /\ CarriesFinal(qs) => p.phase # "open"
    /\ ~s.life.ended /\ (s.life.acked \/ (s.life.run # "none" /\ ~s.life.requested)) =>
          ~Carries(qs, "MESSAGE") /\ p.phase # "open"
    /\ Carries(qs, "CLOSE_ACK") \/ s.life.acked =>
          s.phase # "open" /\ \A i \in 1 .. s.sent : Told(p, s, i)
    /\ s.life.fired /\ ~s.life.ended => s.asked \cap Pending(s) = {}

\* The ends agree on what went between them, whatever is on its way.
EndsAgree(p, s, qp, qs) ==
    /\ ServerIsTold(p, s, qs) /\ PageIsTold(p, s, qp)
    /\ PageCloseHolds(p, s, qp) /\ ServerCloseHolds(p, s, qs)

-----------------------------------------------------------------------------
(* What each of an end's handlers keeps of what the ends agree on *)

\* An end whose close has not begun asked for nothing and fired nothing.
LEMMA OpenIs ==
    /\ \A p : PageOK(p) /\ p.phase = "open" =>
          p.life.run = "none" /\ ~p.life.fired /\ ~p.life.requested /\ ~p.life.ended
    /\ \A s : ServerOK(s) /\ s.phase = "open" =>
          s.life.run = "none" /\ ~s.life.fired /\ ~s.life.requested /\ ~s.life.ended
    /\ \A p : PageOK(p) /\ p.life.fired => p.life.run # "none"
    /\ \A s : ServerOK(s) /\ s.life.fired => s.life.run # "none"
BY DEF PageOK, ServerOK, AtRest

\* An end that goes on as PageGoes says, behind the frames it had sent.
LEMMA PageGoesAgrees ==
    ASSUME NEW p, NEW q, NEW s, NEW qp, NEW S, NEW qs \in Seq(S), NEW fs \in Seq(S),
           EndsAgree(p, s, qp, qs), PageOK(p), NEW told \in BOOLEAN, PageGoes(p, q, fs, told),
           ~Carries(fs, "MESSAGE"), Ordered(fs), CarriesFinal(fs) => q.phase # "open",
           Carries(fs, "CLOSE_ACK") => told,
           told => /\ ~Carries(qp, "MESSAGE") /\ Silent(s)
                   /\ \A i \in 1 .. s.sent : Told(p, s, i)
    PROVE  EndsAgree(q, s, qp, qs \o fs)
<1> DEFINE r == qs \o fs
<1>1. /\ \A t : Carries(r, t) <=> Carries(qs, t) \/ Carries(fs, t)
      /\ \A i : CarriesId(r, i) <=> CarriesId(qs, i) \/ CarriesId(fs, i)
      /\ CarriesFinal(r) <=> CarriesFinal(qs) \/ CarriesFinal(fs)
      /\ /\ Ordered(qs) /\ Ordered(fs) /\ (Carries(fs, "MESSAGE") => ~CarriesFinal(qs))
         /\ \A i, j : CarriesId(qs, i) /\ CarriesId(fs, j) => i < j
         => Ordered(r)
  BY JoinCarries
<1>2. \A i : ~CarriesId(fs, i)
  BY CarriesSome
<1> HIDE DEF r
<1>3. PageOK(q) /\ q.sent = p.sent /\ q.got = p.got /\ q.asked = p.asked
      /\ Pending(q) \subseteq Pending(p) /\ (p.phase # "open" => q.phase # "open")
      /\ q.life.acked = p.life.acked /\ (p.life.ended => q.life.ended)
  BY DEF PageGoes, PageQuiet
<1>4. \A i : Heard(q, i) <=> Heard(p, i)
  BY <1>3 DEF Heard
<1>5. \A i : Told(q, s, i) <=> Told(p, s, i)
  BY <1>4 DEF Told
<1>6. q.phase # "ended" => p.phase # "ended"
  BY <1>3 DEF PageOK
<1>7. ServerIsTold(q, s, r)
  BY <1>1, <1>2, <1>3 DEF EndsAgree, ServerIsTold
<1>8. PageIsTold(q, s, qp)
  BY <1>3, <1>4, <1>5, <1>6 DEF EndsAgree, PageIsTold
<1>9. PageCloseHolds(q, s, qp)
  <2>1. ~q.life.ended /\ (q.life.acked \/ q.life.fired \/ (q.life.run # "none" /\ ~q.life.requested)) =>
          ~Carries(qp, "MESSAGE") /\ Silent(s)
    <3>1. ~q.life.ended /\ q.life.run # "none" /\ ~q.life.requested => ~Carries(qp, "MESSAGE") /\ Silent(s)
      BY <1>3 DEF PageGoes, EndsAgree, PageCloseHolds
    <3>2. ~q.life.ended /\ q.life.acked => ~Carries(qp, "MESSAGE") /\ Silent(s)
      BY <1>3 DEF EndsAgree, PageCloseHolds
    <3>3. ~q.life.ended /\ q.life.fired => ~Carries(qp, "MESSAGE") /\ Silent(s)
      <4>1. q.life.fired => q.life.run # "none"
        BY <1>3, OpenIs
      <4> QED BY <4>1, <3>1, <3>2, <1>3 DEF PageGoes, EndsAgree, PageCloseHolds
    <3> QED BY <3>1, <3>2, <3>3
  <2>2. q.life.fired /\ ~q.life.ended => q.asked \cap Pending(q) = {}
    BY <1>3 DEF PageGoes, EndsAgree, PageCloseHolds
  <2> QED BY <2>1, <2>2, <1>3 DEF EndsAgree, PageCloseHolds
<1>10. ServerCloseHolds(q, s, r)
  <2>1. Carries(r, "CLOSE_ACK") \/ s.life.acked =>
          s.phase # "open" /\ \A i \in 1 .. s.sent : Told(q, s, i)
    BY <1>1, <1>5 DEF EndsAgree, ServerCloseHolds, Silent
  <2> QED BY <2>1, <1>1, <1>2, <1>3 DEF EndsAgree, ServerCloseHolds
<1> QED BY <1>7, <1>8, <1>9, <1>10 DEF EndsAgree, r

\* sendData: a message behind the frames the page had sent.
LEMMA PageSendAgrees ==
    ASSUME NEW p, NEW q, NEW s, NEW qp, NEW S, NEW qs \in Seq(S), NEW f \in S,
           EndsAgree(p, s, qp, qs), PageOK(p), PageOK(q), p.phase = "open", q.phase = "open",
           q.life = p.life, p.sent \in Nat, q.sent = p.sent + 1, q.got = p.got,
           f.t = "MESSAGE", f.id = p.sent + 1, s.got \in Seq(PageIds)
    PROVE  EndsAgree(q, s, qp, qs \o <<f>>)
<1> DEFINE fs == <<f>>
           r == qs \o fs
<1>0. fs \in Seq(S)
  BY OneOut
<1>1. /\ \A t : Carries(fs, t) <=> f.t = t
      /\ \A i : CarriesId(fs, i) <=> f.t = "MESSAGE" /\ f.id = i
      /\ CarriesFinal(fs) <=> f.t \in Finals
      /\ Ordered(fs)
  BY OneFrame
<1> HIDE DEF fs
<1>2. /\ \A t : Carries(r, t) <=> Carries(qs, t) \/ Carries(fs, t)
      /\ \A i : CarriesId(r, i) <=> CarriesId(qs, i) \/ CarriesId(fs, i)
      /\ CarriesFinal(r) <=> CarriesFinal(qs) \/ CarriesFinal(fs)
      /\ /\ Ordered(qs) /\ Ordered(fs) /\ (Carries(fs, "MESSAGE") => ~CarriesFinal(qs))
         /\ \A i, j : CarriesId(qs, i) /\ CarriesId(fs, j) => i < j
         => Ordered(r)
  BY <1>0, JoinCarries
<1> HIDE DEF r
<1>3. Len(s.got) \in Nat
  OBVIOUS
<1>4. p.life.run = "none" /\ ~p.life.fired /\ ~p.life.requested /\ ~p.life.ended
  BY OpenIs
<1>5. \A i : Heard(q, i) <=> Heard(p, i)
  BY DEF Heard
<1>6. \A i : Told(q, s, i) <=> Told(p, s, i)
  BY <1>5 DEF Told
<1>7. ServerIsTold(q, s, r)
  <2>1. ~CarriesFinal(qs)
    BY DEF EndsAgree, ServerCloseHolds
  <2>2. \A i : CarriesId(qs, i) => i \in Len(s.got) + 1 .. p.sent
    BY DEF EndsAgree, ServerIsTold
  <2>3. Ordered(r)
    <3>1. \A i, j : CarriesId(qs, i) /\ CarriesId(fs, j) => i < j
      BY <2>2, <1>1, <1>3
    <3> QED BY <3>1, <2>1, <1>1, <1>2 DEF EndsAgree, ServerIsTold
  <2>4. \A i : CarriesId(r, i) => i \in Len(s.got) + 1 .. q.sent
    <3>1. Len(s.got) <= p.sent
      BY DEF EndsAgree, ServerIsTold
    <3> QED BY <3>1, <2>2, <1>1, <1>2, <1>3
  <2>5. ASSUME s.phase # "ended", NEW i \in Len(s.got) + 1 .. q.sent PROVE CarriesId(r, i)
    <3>1. CASE i = p.sent + 1
      BY <3>1, <1>1, <1>2
    <3>2. CASE i # p.sent + 1
      <4>1. i \in Len(s.got) + 1 .. p.sent
        BY <3>2, <1>3
      <4> QED BY <4>1, <2>5, <1>2 DEF EndsAgree, ServerIsTold
    <3> QED BY <3>1, <3>2
  <2>6. Len(s.got) <= q.sent
    BY <1>3 DEF EndsAgree, ServerIsTold
  <2> QED BY <2>3, <2>4, <2>5, <2>6 DEF EndsAgree, ServerIsTold
<1>8. PageIsTold(q, s, qp)
  BY <1>5, <1>6 DEF EndsAgree, PageIsTold
<1>9. PageCloseHolds(q, s, qp)
  BY <1>4 DEF EndsAgree, PageCloseHolds
<1>10. ServerCloseHolds(q, s, r)
  <2>1. Carries(r, "CLOSE_ACK") => Carries(qs, "CLOSE_ACK")
    BY <1>1, <1>2
  <2>2. ~CarriesFinal(r)
    BY <1>1, <1>2 DEF EndsAgree, ServerCloseHolds, Finals
  <2> QED BY <2>1, <2>2, <1>6 DEF EndsAgree, ServerCloseHolds
<1> QED BY <1>7, <1>8, <1>9, <1>10 DEF EndsAgree, r, fs

\* What the tail of a queue carries of it.
LEMMA TailIs ==
    ASSUME NEW S, NEW q \in Seq(S), q # <<>>, Ordered(q)
    PROVE  /\ Tail(q) \in Seq(S) /\ Ordered(Tail(q))
           /\ \A t : Carries(Tail(q), t) => Carries(q, t)
           /\ \A i : CarriesId(Tail(q), i) => CarriesId(q, i)
           /\ CarriesFinal(Tail(q)) => CarriesFinal(q)
           /\ Head(q).t # "MESSAGE" => \A i : CarriesId(q, i) => CarriesId(Tail(q), i)
<1> DEFINE f == Head(q)
           r == Tail(q)
<1>1. /\ f \in S /\ r \in Seq(S) /\ Len(r) = Len(q) - 1 /\ Len(r) \in Nat /\ Ordered(r)
      /\ \A t : Carries(q, t) <=> f.t = t \/ Carries(r, t)
      /\ \A i : CarriesId(q, i) <=> (f.t = "MESSAGE" /\ f.id = i) \/ CarriesId(r, i)
      /\ CarriesFinal(q) <=> f.t \in Finals \/ CarriesFinal(r)
  BY TailCarries
<1> HIDE DEF f, r
<1>2. /\ r \in Seq(S) /\ Ordered(r)
      /\ \A t : Carries(r, t) => Carries(q, t)
      /\ \A i : CarriesId(r, i) => CarriesId(q, i)
      /\ CarriesFinal(r) => CarriesFinal(q)
      /\ f.t # "MESSAGE" => \A i : CarriesId(q, i) => CarriesId(r, i)
  BY <1>1
<1> QED BY <1>2 DEF f, r

\* A frame the page drops or reads that is no message: the rest is agreed on.
LEMMA PageDropAgrees ==
    ASSUME NEW p, NEW s, NEW qs, NEW S, NEW qp \in Seq(S), qp # <<>>, EndsAgree(p, s, qp, qs),
           Head(qp).t # "MESSAGE" \/ p.phase = "ended"
    PROVE  EndsAgree(p, s, Tail(qp), qs)
<1> DEFINE r == Tail(qp)
<1>0. Ordered(qp)
  BY DEF EndsAgree, PageIsTold
<1>1. /\ r \in Seq(S) /\ Ordered(r)
      /\ \A t : Carries(r, t) => Carries(qp, t)
      /\ \A i : CarriesId(r, i) => CarriesId(qp, i)
      /\ CarriesFinal(r) => CarriesFinal(qp)
      /\ Head(qp).t # "MESSAGE" => \A i : CarriesId(qp, i) => CarriesId(r, i)
  BY <1>0, TailIs
<1> HIDE DEF r
<1>2. PageIsTold(p, s, r)
  BY <1>1 DEF EndsAgree, PageIsTold
<1>3. PageCloseHolds(p, s, r)
  BY <1>1 DEF EndsAgree, PageCloseHolds
<1> QED BY <1>2, <1>3 DEF EndsAgree, r

\* ... and of the server.
LEMMA ServerDropAgrees ==
    ASSUME NEW p, NEW s, NEW qp, NEW S, NEW qs \in Seq(S), qs # <<>>, EndsAgree(p, s, qp, qs),
           Head(qs).t # "MESSAGE" \/ s.phase = "ended"
    PROVE  EndsAgree(p, s, qp, Tail(qs))
<1> DEFINE r == Tail(qs)
<1>0. Ordered(qs)
  BY DEF EndsAgree, ServerIsTold
<1>1. /\ r \in Seq(S) /\ Ordered(r)
      /\ \A t : Carries(r, t) => Carries(qs, t)
      /\ \A i : CarriesId(r, i) => CarriesId(qs, i)
      /\ CarriesFinal(r) => CarriesFinal(qs)
      /\ Head(qs).t # "MESSAGE" => \A i : CarriesId(qs, i) => CarriesId(r, i)
  BY <1>0, TailIs
<1> HIDE DEF r
<1>2. ServerIsTold(p, s, r)
  BY <1>1 DEF EndsAgree, ServerIsTold
<1>3. ServerCloseHolds(p, s, r)
  BY <1>1 DEF EndsAgree, ServerCloseHolds
<1> QED BY <1>2, <1>3 DEF EndsAgree, r

\* onPeerMessage: the page hears the next message.
LEMMA PageHearsAgrees ==
    ASSUME NEW p, NEW q, NEW s, NEW qs, NEW S, NEW qp \in Seq(S), qp # <<>>,
           EndsAgree(p, s, qp, qs), Head(qp).t = "MESSAGE", PageHears(p, q, Head(qp)),
           p.phase # "ended", p.got \in Seq(ServerIds), s.sent \in Nat, Head(qp).id \in ServerIds,
           \A i : Holds(s.buf, i) => i \in 1 .. s.sent
    PROVE  EndsAgree(q, s, Tail(qp), qs)
<1> DEFINE f == Head(qp)
           r == Tail(qp)
<1>0. Ordered(qp)
  BY DEF EndsAgree, PageIsTold
<1>1. /\ r \in Seq(S) /\ Ordered(r)
      /\ \A t : Carries(qp, t) <=> f.t = t \/ Carries(r, t)
      /\ \A i : CarriesId(qp, i) <=> (f.t = "MESSAGE" /\ f.id = i) \/ CarriesId(r, i)
      /\ CarriesFinal(qp) <=> f.t \in Finals \/ CarriesFinal(r)
      /\ f.t = "MESSAGE" => \A i : CarriesId(r, i) => f.id < i
  BY <1>0, TailCarries
<1> HIDE DEF f, r
<1>2. f.t = "MESSAGE" /\ PageHears(p, q, f) /\ f.id \in ServerIds
  BY DEF f
<1>3. /\ q.phase = p.phase /\ q.life = p.life /\ q.sent = p.sent
      /\ q.asked = p.asked /\ q.promise = p.promise /\ q.got = Append(p.got, f.id)
  BY <1>2 DEF PageHears
<1>4. Pending(q) = Pending(p)
  BY <1>3 DEF Pending
<1>5. /\ Len(p.got) \in Nat /\ Len(q.got) = Len(p.got) + 1 /\ q.got[Len(p.got) + 1] = f.id
      /\ \A k \in 1 .. Len(p.got) : q.got[k] = p.got[k]
  BY <1>2, <1>3
<1>6. \A i : Heard(q, i) <=> Heard(p, i) \/ i = f.id
  <2>1. ASSUME NEW i, Heard(q, i) PROVE Heard(p, i) \/ i = f.id
    <3>1. PICK k \in 1 .. Len(q.got) : q.got[k] = i
      BY <2>1 DEF Heard
    <3>2. k = Len(p.got) + 1 \/ k \in 1 .. Len(p.got)
      BY <1>5, <3>1
    <3> QED BY <1>5, <3>1, <3>2 DEF Heard
  <2>2. ASSUME NEW i, Heard(p, i) PROVE Heard(q, i)
    <3>1. PICK k \in 1 .. Len(p.got) : p.got[k] = i
      BY <2>2 DEF Heard
    <3>2. k \in 1 .. Len(q.got) /\ q.got[k] = i
      BY <1>5, <3>1
    <3> QED BY <3>2 DEF Heard
  <2>3. Heard(q, f.id)
    <3>1. Len(p.got) + 1 \in 1 .. Len(q.got)
      BY <1>5
    <3> QED BY <1>5, <3>1 DEF Heard
  <2> QED BY <2>1, <2>2, <2>3
<1>7. \A i : Told(p, s, i) => Told(q, s, i)
  BY <1>6 DEF Told
<1>8. /\ CarriesId(qp, f.id) /\ Carries(qp, "MESSAGE") /\ f.id \in 1 .. s.sent
      /\ \A i : CarriesId(r, i) => CarriesId(qp, i) /\ f.id < i
      /\ \A t : Carries(r, t) => Carries(qp, t)
      /\ CarriesFinal(r) => CarriesFinal(qp)
  BY <1>1, <1>2 DEF EndsAgree, PageIsTold
<1>9. /\ \A i : Heard(p, i) \/ CarriesId(qp, i) => i \in 1 .. s.sent
      /\ \A i : Heard(p, i) => i < f.id
      /\ \A i : Holds(s.buf, i) => f.id < i
  BY <1>8 DEF EndsAgree, PageIsTold
<1>10. PageIsTold(q, s, r)
  <2>1. ASSUME NEW i \in 1 .. Len(q.got), NEW j \in 1 .. Len(q.got), i < j PROVE q.got[i] < q.got[j]
    <3>1. CASE j = Len(p.got) + 1
      <4>1. i \in 1 .. Len(p.got)
        BY <1>5, <2>1, <3>1
      <4>2. Heard(p, p.got[i])
        BY <4>1 DEF Heard
      <4> QED BY <4>1, <4>2, <3>1, <1>5, <1>9
    <3>2. CASE j # Len(p.got) + 1
      <4>1. i \in 1 .. Len(p.got) /\ j \in 1 .. Len(p.got)
        BY <1>5, <2>1, <3>2
      <4> QED BY <4>1, <2>1, <1>5 DEF EndsAgree, PageIsTold
    <3> QED BY <3>1, <3>2
  <2>2. \A i : Heard(q, i) \/ CarriesId(r, i) => i \in 1 .. s.sent
    BY <1>6, <1>8, <1>9
  <2>3. \A i, j : Heard(q, j) /\ (CarriesId(r, i) \/ Holds(s.buf, i)) => j < i
    BY <1>6, <1>8, <1>9 DEF EndsAgree, PageIsTold
  <2>4. \A i, j : CarriesId(r, j) /\ Holds(s.buf, i) => j < i
    BY <1>8 DEF EndsAgree, PageIsTold
  <2>5. ASSUME NEW i \in 1 .. s.sent, NEW j, Heard(q, j), i < j PROVE Told(q, s, i)
    <3>1. CASE Heard(p, j)
      BY <3>1, <2>5, <1>7 DEF EndsAgree, PageIsTold
    <3>2. CASE j = f.id
      <4>1. Told(p, s, i) \/ CarriesId(qp, i) \/ Holds(s.buf, i)
        BY DEF EndsAgree, PageIsTold
      <4>2. ~Holds(s.buf, i)
        BY <1>8, <1>9, <2>5, <3>2
      <4>3. ~CarriesId(qp, i)
        <5>1. i # f.id
          BY <1>8, <2>5, <3>2
        <5>2. ~CarriesId(r, i)
          BY <1>8, <2>5, <3>2
        <5> QED BY <5>1, <5>2, <1>1
      <4> QED BY <4>1, <4>2, <4>3, <1>7
    <3> QED BY <3>1, <3>2, <2>5, <1>6
  <2>6. ASSUME NEW i \in 1 .. s.sent PROVE Told(q, s, i) \/ CarriesId(r, i) \/ Holds(s.buf, i)
    <3>1. Told(p, s, i) \/ CarriesId(qp, i) \/ Holds(s.buf, i)
      BY DEF EndsAgree, PageIsTold
    <3>2. CarriesId(qp, i) => Told(q, s, i) \/ CarriesId(r, i)
      BY <1>1, <1>6 DEF Told
    <3> QED BY <3>1, <3>2, <1>7
  <2> QED BY <2>1, <2>2, <2>3, <2>4, <2>5, <2>6, <1>1 DEF PageIsTold
<1>11. PageCloseHolds(q, s, r)
  BY <1>3, <1>4, <1>8 DEF EndsAgree, PageCloseHolds
<1>12. ServerCloseHolds(q, s, qs)
  BY <1>3, <1>7 DEF EndsAgree, ServerCloseHolds
<1>13. ServerIsTold(q, s, qs)
  BY <1>3 DEF EndsAgree, ServerIsTold
<1> QED BY <1>10, <1>11, <1>12, <1>13 DEF EndsAgree, r

\* onPeerCloseAck: what the page is told of the server's end.
LEMMA PageIsAckedAgrees ==
    ASSUME NEW p, NEW q, NEW s, NEW qs, NEW S, NEW qp \in Seq(S), qp # <<>>,
           EndsAgree(p, s, qp, qs), Head(qp).t = "CLOSE_ACK", PageIsAcked(p, q)
    PROVE  EndsAgree(q, s, Tail(qp), qs)
<1> DEFINE f == Head(qp)
           r == Tail(qp)
<1>0. Ordered(qp)
  BY DEF EndsAgree, PageIsTold
<1>1. /\ r \in Seq(S) /\ Ordered(r)
      /\ \A t : Carries(qp, t) <=> f.t = t \/ Carries(r, t)
      /\ \A i : CarriesId(qp, i) <=> (f.t = "MESSAGE" /\ f.id = i) \/ CarriesId(r, i)
      /\ CarriesFinal(qp) <=> f.t \in Finals \/ CarriesFinal(r)
      /\ f.t \in Finals => ~Carries(r, "MESSAGE") /\ \A i : ~CarriesId(r, i)
  BY <1>0, TailCarries
<1> HIDE DEF f, r
<1>2. f.t = "CLOSE_ACK" /\ f.t \in Finals
  BY DEF f, Finals
<1>3. /\ q.phase = p.phase /\ q.sent = p.sent /\ q.got = p.got
      /\ q.asked = p.asked /\ q.promise = p.promise /\ q.life.acked
      /\ q.life.requested = p.life.requested /\ q.life.ended = p.life.ended
      /\ q.life.fired = p.life.fired /\ (q.life.run = "none") = (p.life.run = "none")
  BY DEF PageIsAcked
<1>4. /\ Carries(qp, "CLOSE_ACK") /\ Silent(s) /\ ~Carries(r, "MESSAGE")
      /\ \A t : Carries(r, t) => Carries(qp, t)
      /\ \A i : CarriesId(r, i) <=> CarriesId(qp, i)
  BY <1>1, <1>2 DEF EndsAgree, PageCloseHolds
<1>5. Pending(q) = Pending(p)
  BY <1>3 DEF Pending
<1>6. \A i : Heard(q, i) <=> Heard(p, i)
  BY <1>3 DEF Heard
<1>7. \A i : Told(q, s, i) <=> Told(p, s, i)
  BY <1>6 DEF Told
<1>8. ServerIsTold(q, s, qs) /\ ServerCloseHolds(q, s, qs)
  BY <1>3, <1>7 DEF EndsAgree, ServerIsTold, ServerCloseHolds
<1>9. PageIsTold(q, s, r)
  BY <1>1, <1>3, <1>4, <1>6, <1>7 DEF EndsAgree, PageIsTold
<1>10. PageCloseHolds(q, s, r)
  BY <1>3, <1>4, <1>5 DEF EndsAgree, PageCloseHolds
<1> QED BY <1>8, <1>9, <1>10 DEF EndsAgree, r

\* A silent end sends no message, and stays silent.
LEMMA SilentStays ==
    ASSUME NEW s, NEW t, NEW fs, NEW told, ServerMoves(s, t, fs, told), Silent(s), s.sent \in Nat
    PROVE  /\ Silent(t) /\ ~Carries(fs, "MESSAGE") /\ t.sent = s.sent
           /\ \A i : ~CarriesId(fs, i)
<1>1. t.sent = s.sent /\ t.phase # "open"
  BY DEF ServerMoves, ServerWords, ServerLife, Silent
<1>2. s.sent + 1 .. t.sent = {}
  BY <1>1
<1>3. \A i : ~Holds(s.buf, i)
  BY DEF Silent, Holds
<1>4. \A i : ~CarriesId(fs, i)
  BY <1>2, <1>3 DEF ServerMoves, ServerWords
<1>5. \A i : ~Holds(t.buf, i)
  BY <1>2, <1>3 DEF ServerMoves, ServerWords
<1>6. Entries(t.buf) = {}
  BY <1>5 DEF Holds
<1> QED BY <1>1, <1>4, <1>6, CarriesSome DEF Silent

\* What a buffer holds was sent.
LEMMA HeldWasSent ==
    ASSUME NEW s, ServerOK(s)
    PROVE  s.sent \in Nat /\ s.promise \in [ServerIds -> States] /\ \A i : Holds(s.buf, i) => i \in 1 .. s.sent
<1>1. s.sent \in Nat /\ s.buf \in Buffers /\ BufferSorted(s.buf, s.sent) /\ s.promise \in [ServerIds -> States]
  BY DEF ServerOK, ServerTyped, ServerBuffered, Holding, ServerRecs
<1>2. ASSUME NEW i, Holds(s.buf, i) PROVE i \in 1 .. s.sent
  <2>1. PICK k \in QueueKinds : \E l \in 1 .. Len(s.buf.queue[k]) : s.buf.queue[k][l].id = i
    BY <1>1, <1>2, HoldsIs
  <2>2. PICK l \in 1 .. Len(s.buf.queue[k]) : s.buf.queue[k][l].id = i
    BY <2>1
  <2> QED BY <1>1, <2>2 DEF BufferSorted, Sorted
<1> QED BY <1>1, <1>2

\* The server's end goes on as ServerMoves says, behind the frames it had sent.
LEMMA ServerMovesAgrees ==
    ASSUME NEW p, NEW s, NEW t, NEW qs, NEW S, NEW qp \in Seq(S), NEW fs \in Seq(S),
           EndsAgree(p, s, qp, qs), ServerOK(s), use \in Uses, NEW told \in BOOLEAN,
           ServerMoves(s, t, fs, told),
           told => /\ p.phase # "open" /\ s.phase # "ended" /\ ~Carries(qs, "MESSAGE")
                   /\ Len(s.got) = p.sent
    PROVE  EndsAgree(p, t, qp \o fs, qs)
<1> DEFINE r == qp \o fs
<1>1. /\ \A x : Carries(r, x) <=> Carries(qp, x) \/ Carries(fs, x)
      /\ \A i : CarriesId(r, i) <=> CarriesId(qp, i) \/ CarriesId(fs, i)
      /\ CarriesFinal(r) <=> CarriesFinal(qp) \/ CarriesFinal(fs)
      /\ /\ Ordered(qp) /\ Ordered(fs) /\ (Carries(fs, "MESSAGE") => ~CarriesFinal(qp))
         /\ \A i, j : CarriesId(qp, i) /\ CarriesId(fs, j) => i < j
         => Ordered(r)
  BY JoinCarries
<1> HIDE DEF r
<1>2. /\ t.got = s.got /\ t.sent \in {s.sent, s.sent + 1}
      /\ t.sent = s.sent => Pending(t) \subseteq Pending(s) /\ t.asked = s.asked
      /\ t.sent # s.sent => s.phase = "open"
      /\ \A i \in 1 .. s.sent : s.promise[i] = "failed" => t.promise[i] = "failed"
      /\ Ordered(fs)
      /\ \A i : CarriesId(fs, i) => Holds(s.buf, i) \/ i \in s.sent + 1 .. t.sent
      /\ \A i : Holds(t.buf, i) => Holds(s.buf, i) \/ i \in s.sent + 1 .. t.sent
      /\ \A i \in 1 .. t.sent : Holds(s.buf, i) \/ i \in s.sent + 1 .. t.sent =>
            Holds(t.buf, i) \/ CarriesId(fs, i) \/ t.promise[i] = "failed"
      /\ Carries(fs, "MESSAGE") => Entries(t.buf) = {}
      /\ CarriesFinal(fs) => Silent(t)
  BY DEF ServerMoves, ServerWords
<1>3. /\ s.phase # "open" => t.phase # "open"
      /\ s.life.ended => t.life.ended
      /\ t.life.acked = s.life.acked
      /\ ~t.life.ended /\ t.life.fired =>
           s.life.fired \/ (s.asked \cap Pending(s) = {} /\ t.sent = s.sent)
      /\ ~t.life.ended /\ t.life.run # "none" /\ ~t.life.requested =>
           told \/ (s.life.run # "none" /\ ~s.life.requested)
      /\ Carries(fs, "CLOSE_ACK") => told
      /\ Carries(fs, "ABORT") \/ Carries(fs, "ERROR") =>
           t.phase = "ended" /\ (~Silent(s) \/ s.pendingEnd.abort)
      /\ t.pendingEnd.abort => s.pendingEnd.abort \/ ~Silent(s)
      /\ told => fs = <<Ctrl("CLOSE_ACK")>> /\ ~t.pendingEnd.abort
  BY DEF ServerMoves, ServerLife
<1>4. /\ s.sent \in Nat /\ \A i : Holds(s.buf, i) => i \in 1 .. s.sent
  BY HeldWasSent
<1>5. ServerOK(t)
  BY DEF ServerMoves
<1>6. Silent(s) => Silent(t) /\ ~Carries(fs, "MESSAGE") /\ t.sent = s.sent
  BY <1>4, SilentStays
<1>7. t.phase # "ended" => s.phase # "ended"
  BY <1>3, <1>5 DEF ServerOK
<1>8. ASSUME NEW i \in 1 .. s.sent, Told(p, s, i) PROVE Told(p, t, i)
  BY <1>2, <1>8 DEF Told
<1>9. 1 .. s.sent \subseteq 1 .. t.sent /\ t.sent \in Nat
  BY <1>2, <1>4
<1>10. ServerIsTold(p, t, qs)
  BY <1>2, <1>7 DEF EndsAgree, ServerIsTold
<1>11. PageIsTold(p, t, r)
  <2>1. \A i : CarriesId(qp, i) \/ Heard(p, i) => i \in 1 .. s.sent
    BY DEF EndsAgree, PageIsTold
  <2>2. \A i : CarriesId(fs, i) \/ Holds(t.buf, i) =>
           i \in 1 .. t.sent /\ (Holds(s.buf, i) \/ i \in s.sent + 1 .. t.sent)
    BY <1>2, <1>4, <1>9
  <2>3. ASSUME NEW i, NEW j, CarriesId(fs, j) \/ Holds(t.buf, j), CarriesId(qp, i) \/ Heard(p, i) PROVE i < j
    <3>1. CASE Holds(s.buf, j)
      BY <2>3, <3>1 DEF EndsAgree, PageIsTold
    <3>2. CASE j \in s.sent + 1 .. t.sent
      BY <2>1, <2>3, <3>2, <1>4, <1>9
    <3> QED BY <2>2, <2>3, <3>1, <3>2
  <2>4. Ordered(r)
    <3>1. Carries(fs, "MESSAGE") => ~CarriesFinal(qp)
      BY <1>6 DEF EndsAgree, PageCloseHolds
    <3>2. \A i, j : CarriesId(qp, i) /\ CarriesId(fs, j) => i < j
      BY <2>3
    <3>3. Ordered(qp)
      BY DEF EndsAgree, PageIsTold
    <3> QED BY <3>1, <3>2, <3>3, <1>1, <1>2
  <2>5. \A i : Heard(p, i) \/ CarriesId(r, i) => i \in 1 .. t.sent
    BY <1>1, <1>9, <2>1, <2>2
  <2>6. \A i, j : Heard(p, j) /\ (CarriesId(r, i) \/ Holds(t.buf, i)) => j < i
    BY <1>1, <2>3 DEF EndsAgree, PageIsTold
  <2>7. ASSUME NEW i, NEW j, CarriesId(r, j), Holds(t.buf, i) PROVE j < i
    <3>1. Entries(t.buf) # {}
      BY <2>7 DEF Holds
    <3>2. ~CarriesId(fs, j)
      BY <3>1, <1>2, CarriesSome
    <3> QED BY <3>2, <2>7, <2>3, <1>1
  <2>8. ASSUME NEW i \in 1 .. t.sent, NEW j, Heard(p, j), i < j PROVE Told(p, t, i)
    <3>1. i \in 1 .. s.sent
      BY <2>1, <2>8, <1>4, <1>9
    <3> QED BY <3>1, <2>8, <1>8 DEF EndsAgree, PageIsTold
  <2>9. ASSUME p.phase # "ended", NEW i \in 1 .. t.sent
        PROVE  Told(p, t, i) \/ CarriesId(r, i) \/ Holds(t.buf, i)
    <3>1. CASE i \in 1 .. s.sent
      <4>1. Told(p, s, i) \/ CarriesId(qp, i) \/ Holds(s.buf, i)
        BY <2>9, <3>1 DEF EndsAgree, PageIsTold
      <4>2. Holds(s.buf, i) => Told(p, t, i) \/ CarriesId(r, i) \/ Holds(t.buf, i)
        BY <1>1, <1>2 DEF Told
      <4> QED BY <4>1, <4>2, <1>1, <1>8, <3>1
    <3>2. CASE i \notin 1 .. s.sent
      <4>1. i \in s.sent + 1 .. t.sent
        BY <3>2, <1>4, <1>9
      <4> QED BY <4>1, <1>1, <1>2 DEF Told
    <3> QED BY <3>1, <3>2
  <2> QED BY <2>4, <2>5, <2>6, <2>7, <2>8, <2>9 DEF EndsAgree, PageIsTold
<1>12. PageCloseHolds(p, t, r)
  <2>1. CarriesFinal(r) => Silent(t)
    BY <1>1, <1>2, <1>6 DEF EndsAgree, PageCloseHolds
  <2>2. ~p.life.ended /\ (p.life.acked \/ p.life.fired \/ (p.life.run # "none" /\ ~p.life.requested)) =>
          ~Carries(r, "MESSAGE") /\ Silent(t)
    BY <1>1, <1>6 DEF EndsAgree, PageCloseHolds
  <2>3. Carries(r, "ABORT") \/ Carries(r, "ERROR") => t.phase = "ended"
    <3>1. Carries(qp, "ABORT") \/ Carries(qp, "ERROR") => t.phase = "ended"
      BY <1>7 DEF EndsAgree, PageCloseHolds
    <3> QED BY <3>1, <1>1, <1>3
  <2>4. CASE Carries(qp, "CLOSE_ACK") \/ p.life.acked
    <3>1. /\ p.phase # "open" /\ Silent(s) /\ ~Carries(qp, "ABORT") /\ ~Carries(qp, "ERROR")
          /\ ~s.pendingEnd.abort /\ Len(s.got) = p.sent
      BY <2>4 DEF EndsAgree, PageCloseHolds
    <3>2. /\ p.phase # "open" /\ Silent(t) /\ ~Carries(r, "ABORT") /\ ~Carries(r, "ERROR")
          /\ ~t.pendingEnd.abort /\ Len(t.got) = p.sent
      BY <3>1, <1>1, <1>2, <1>3, <1>6
    <3> QED BY <3>2, <2>1, <2>2, <2>3 DEF EndsAgree, PageCloseHolds
  <2>5. CASE Carries(fs, "CLOSE_ACK")
    <3>1. told /\ fs = <<Ctrl("CLOSE_ACK")>> /\ ~t.pendingEnd.abort
      BY <2>5, <1>3
    <3>2. \A x : Carries(fs, x) <=> Ctrl("CLOSE_ACK").t = x
      <4>1. \A x : Carries(<<Ctrl("CLOSE_ACK")>>, x) <=> Ctrl("CLOSE_ACK").t = x
        BY OneFrame
      <4> QED BY <4>1, <3>1
    <3>3. ~Carries(fs, "ABORT") /\ ~Carries(fs, "ERROR")
      BY <3>2 DEF Ctrl
    <3>4. ~Carries(qp, "ABORT") /\ ~Carries(qp, "ERROR")
      BY <3>1 DEF EndsAgree, PageCloseHolds
    <3>5. Silent(t)
      BY <2>5, <1>2 DEF CarriesFinal, Finals
    <3>6. /\ p.phase # "open" /\ Silent(t) /\ ~Carries(r, "ABORT") /\ ~Carries(r, "ERROR")
          /\ ~t.pendingEnd.abort /\ Len(t.got) = p.sent
      BY <3>1, <3>3, <3>4, <3>5, <1>1, <1>2
    <3> QED BY <3>6, <2>1, <2>2, <2>3 DEF EndsAgree, PageCloseHolds
  <2>6. CASE ~(Carries(r, "CLOSE_ACK") \/ p.life.acked)
    BY <2>6, <2>1, <2>2, <2>3 DEF EndsAgree, PageCloseHolds
  <2> QED BY <2>4, <2>5, <2>6, <1>1
<1>13. ServerCloseHolds(p, t, qs)
  <2>1. ~t.life.ended /\ (t.life.acked \/ (t.life.run # "none" /\ ~t.life.requested)) =>
          ~Carries(qs, "MESSAGE") /\ p.phase # "open"
    BY <1>3 DEF EndsAgree, ServerCloseHolds
  <2>2. Carries(qs, "CLOSE_ACK") \/ t.life.acked =>
          t.phase # "open" /\ \A i \in 1 .. t.sent : Told(p, t, i)
    BY <1>2, <1>3, <1>8 DEF EndsAgree, ServerCloseHolds
  <2>3. t.life.fired /\ ~t.life.ended => t.asked \cap Pending(t) = {}
    <3>1. s.life.fired => s.phase # "open"
      BY OpenIs
    <3> QED BY <3>1, <1>2, <1>3 DEF EndsAgree, ServerCloseHolds
  <2> QED BY <2>1, <2>2, <2>3 DEF EndsAgree, ServerCloseHolds
<1> QED BY <1>10, <1>11, <1>12, <1>13 DEF EndsAgree, r

\* onPeerMessage: the server hears the next message.
LEMMA ServerHearsAgrees ==
    ASSUME NEW p, NEW s, NEW t, NEW qp, NEW S, NEW qs \in Seq(S), qs # <<>>,
           EndsAgree(p, s, qp, qs), Head(qs).t = "MESSAGE", ServerHears(s, t, Head(qs)),
           s.phase # "ended", s.got \in Seq(PageIds), p.sent \in Nat, Head(qs).id \in PageIds
    PROVE  EndsAgree(p, t, qp, Tail(qs))
<1> DEFINE f == Head(qs)
           r == Tail(qs)
<1>0. Ordered(qs)
  BY DEF EndsAgree, ServerIsTold
<1>1. /\ r \in Seq(S) /\ Ordered(r)
      /\ \A x : Carries(qs, x) <=> f.t = x \/ Carries(r, x)
      /\ \A i : CarriesId(qs, i) <=> (f.t = "MESSAGE" /\ f.id = i) \/ CarriesId(r, i)
      /\ CarriesFinal(qs) <=> f.t \in Finals \/ CarriesFinal(r)
      /\ f.t = "MESSAGE" => \A i : CarriesId(r, i) => f.id < i
  BY <1>0, TailCarries
<1> HIDE DEF f, r
<1>2. f.t = "MESSAGE" /\ ServerHears(s, t, f) /\ f.id \in PageIds
  BY DEF f
<1>3. /\ t.got = Append(s.got, f.id) /\ t.sent = s.sent /\ t.asked = s.asked
      /\ t.phase = s.phase /\ t.life = s.life /\ t.promise = s.promise /\ t.buf = s.buf
      /\ t.pendingEnd = s.pendingEnd
  BY <1>2 DEF ServerHears
<1>4. Pending(t) = Pending(s) /\ Silent(t) = Silent(s)
  BY <1>3 DEF Pending, Silent
<1>5. /\ Len(s.got) \in Nat /\ Len(t.got) = Len(s.got) + 1 /\ t.got[Len(s.got) + 1] = f.id
      /\ \A k \in 1 .. Len(s.got) : t.got[k] = s.got[k]
  BY <1>2, <1>3
<1>6. /\ CarriesId(qs, f.id) /\ Carries(qs, "MESSAGE")
      /\ \A i : CarriesId(r, i) => CarriesId(qs, i) /\ f.id < i
      /\ \A x : Carries(r, x) => Carries(qs, x)
      /\ CarriesFinal(r) => CarriesFinal(qs)
  BY <1>1, <1>2
<1>7. /\ \A i : CarriesId(qs, i) => i \in Len(s.got) + 1 .. p.sent
      /\ \A i \in Len(s.got) + 1 .. p.sent : CarriesId(qs, i)
      /\ \A i \in 1 .. Len(s.got) : s.got[i] = i
  BY DEF EndsAgree, ServerIsTold
<1>8. f.id = Len(s.got) + 1 /\ Len(s.got) + 1 <= p.sent
  <2>1. f.id \in Len(s.got) + 1 .. p.sent
    BY <1>6, <1>7
  <2>2. Len(s.got) + 1 \in Len(s.got) + 1 .. p.sent
    BY <2>1, <1>5
  <2>3. f.id = Len(s.got) + 1 \/ CarriesId(r, Len(s.got) + 1)
    BY <2>2, <1>1, <1>7
  <2>4. ~CarriesId(r, Len(s.got) + 1)
    BY <2>1, <1>5, <1>6
  <2> QED BY <2>2, <2>3, <2>4, <1>5
<1>9. ServerIsTold(p, t, r)
  <2>1. ASSUME NEW i \in 1 .. Len(t.got) PROVE t.got[i] = i
    <3>1. i = Len(s.got) + 1 \/ i \in 1 .. Len(s.got)
      BY <1>5
    <3> QED BY <3>1, <1>5, <1>7, <1>8
  <2>2. ASSUME NEW i, CarriesId(r, i) PROVE i \in Len(t.got) + 1 .. p.sent
    <3>1. i \in Len(s.got) + 1 .. p.sent /\ f.id < i
      BY <2>2, <1>6, <1>7
    <3> QED BY <3>1, <1>5, <1>8
  <2>3. ASSUME NEW i \in Len(t.got) + 1 .. p.sent PROVE CarriesId(r, i)
    <3>1. i \in Len(s.got) + 1 .. p.sent /\ i # f.id
      BY <1>5, <1>8
    <3> QED BY <3>1, <1>1, <1>7
  <2>4. Len(t.got) <= p.sent
    BY <1>5, <1>8
  <2> QED BY <2>1, <2>2, <2>3, <2>4, <1>1 DEF ServerIsTold
<1>10. \A i : Told(p, t, i) <=> Told(p, s, i)
  BY <1>3 DEF Told
<1>11. PageIsTold(p, t, qp)
  BY <1>3, <1>10 DEF EndsAgree, PageIsTold
<1>12. PageCloseHolds(p, t, qp)
  <2>1. ~(Carries(qp, "CLOSE_ACK") \/ p.life.acked)
    <3>1. Len(s.got) # p.sent
      BY <1>5, <1>8
    <3> QED BY <3>1 DEF EndsAgree, PageCloseHolds
  <2> QED BY <2>1, <1>3, <1>4 DEF EndsAgree, PageCloseHolds
<1>13. ServerCloseHolds(p, t, r)
  BY <1>3, <1>4, <1>6, <1>10 DEF EndsAgree, ServerCloseHolds
<1> QED BY <1>9, <1>11, <1>12, <1>13 DEF EndsAgree, r

\* onPeerCloseAck: what the server is told of the page's end.
LEMMA ServerIsAckedAgrees ==
    ASSUME NEW p, NEW s, NEW t, NEW qp, NEW S, NEW qs \in Seq(S), qs # <<>>,
           EndsAgree(p, s, qp, qs), Head(qs).t = "CLOSE_ACK", ServerIsAcked(s, t)
    PROVE  EndsAgree(p, t, qp, Tail(qs))
<1> DEFINE f == Head(qs)
           r == Tail(qs)
<1>0. Ordered(qs)
  BY DEF EndsAgree, ServerIsTold
<1>1. /\ r \in Seq(S) /\ Ordered(r)
      /\ \A x : Carries(qs, x) <=> f.t = x \/ Carries(r, x)
      /\ \A i : CarriesId(qs, i) <=> (f.t = "MESSAGE" /\ f.id = i) \/ CarriesId(r, i)
      /\ CarriesFinal(qs) <=> f.t \in Finals \/ CarriesFinal(r)
      /\ f.t \in Finals => ~Carries(r, "MESSAGE") /\ \A i : ~CarriesId(r, i)
  BY <1>0, TailCarries
<1> HIDE DEF f, r
<1>2. f.t = "CLOSE_ACK" /\ f.t \in Finals
  BY DEF f, Finals
<1>3. /\ t.sent = s.sent /\ t.got = s.got /\ t.asked = s.asked /\ t.promise = s.promise
      /\ t.buf = s.buf /\ t.phase = s.phase /\ t.pendingEnd = s.pendingEnd
      /\ t.life.acked /\ t.life.requested = s.life.requested /\ t.life.ended = s.life.ended
      /\ t.life.fired = s.life.fired /\ (t.life.run = "none") = (s.life.run = "none")
  BY DEF ServerIsAcked, SameWords
<1>4. /\ Carries(qs, "CLOSE_ACK") /\ p.phase # "open" /\ ~Carries(r, "MESSAGE")
      /\ \A x : Carries(r, x) => Carries(qs, x)
      /\ \A i : CarriesId(r, i) <=> CarriesId(qs, i)
  BY <1>1, <1>2 DEF EndsAgree, ServerCloseHolds
<1>5. Pending(t) = Pending(s) /\ Silent(t) = Silent(s)
  BY <1>3 DEF Pending, Silent
<1>6. \A i : Told(p, t, i) <=> Told(p, s, i)
  BY <1>3 DEF Told
<1>7. ServerIsTold(p, t, r)
  BY <1>1, <1>3, <1>4 DEF EndsAgree, ServerIsTold
<1>8. PageIsTold(p, t, qp)
  BY <1>3, <1>6 DEF EndsAgree, PageIsTold
<1>9. PageCloseHolds(p, t, qp)
  BY <1>3, <1>5 DEF EndsAgree, PageCloseHolds
<1>10. ServerCloseHolds(p, t, r)
  BY <1>3, <1>4, <1>5, <1>6 DEF EndsAgree, ServerCloseHolds
<1> QED BY <1>7, <1>8, <1>9, <1>10 DEF EndsAgree, r

-----------------------------------------------------------------------------
(* The invariant, and what a step of one end makes of it *)

\* The inductive invariant: the ends between their handlers, the wire, and what the ends agree on.
EndsHold ==
    /\ use \in Uses /\ breaks \in Nat /\ wire \in {"up", "down", "over"}
    /\ toPage \in Seq(ToPageFrames) /\ toServer \in Seq(ToServerFrames)
    /\ PageOK(page) /\ page.out = <<>> /\ ServerOK(server) /\ server.out = <<>>
    /\ server.attached = (wire = "up" /\ server.phase # "ended")
    /\ wire = "over" => server.released
    /\ Len(toPage) <= server.seq
    /\ EndsAgree(page, server, toPage, toServer)

\* What a step keeps: EndIsFinal says it of every step.
StepHolds == EndsHold' /\ ClosedHearsNothing /\ CleanEndFailsNoAck

\* The ends' types do not change as long as the use does not.
LEMMA PageOKNext ==
    ASSUME NEW x, page' = x, use' = use, PageOK(x)
    PROVE  PageOK(page)'
BY DEF PageOK, PageTyped, PageRecs, PageIds, ServerIds, ToServerFrames, Pending

\* ... nor those of the server's end.
LEMMA ServerOKNext ==
    ASSUME NEW x, server' = x, use' = use, ServerOK(x)
    PROVE  ServerOK(server)'
<1>1. ServerTyped(server)'
  BY DEF ServerOK, ServerTyped, ServerRecs, PageIds, ServerIds, ToPageFrames, AckFrames
<1>2. ServerBuffered(server)'
  BY DEF ServerOK, ServerBuffered, Holding, Held, NoGap
<1> QED BY <1>1, <1>2 DEF ServerOK, Pending

\* ... nor those of the frames on their way.
LEMMA QueuesNext ==
    ASSUME NEW qp \in Seq(ToPageFrames), NEW qs \in Seq(ToServerFrames), use' = use,
           toPage' = qp, toServer' = qs
    PROVE  (toPage \in Seq(ToPageFrames) /\ toServer \in Seq(ToServerFrames))'
BY DEF ToPageFrames, ToServerFrames, PageIds, ServerIds

\* An end whose frames went.
LEMMA PageOff ==
    ASSUME NEW q, PageOK(q), NEW s, NEW qp, NEW qs, EndsAgree(q, s, qp, qs)
    PROVE  LET r == [q EXCEPT !.out = <<>>] IN
           /\ PageOK(r) /\ r.out = <<>> /\ EndsAgree(r, s, qp, qs)
           /\ r.phase = q.phase /\ r.life = q.life /\ r.got = q.got
<1> DEFINE r == [q EXCEPT !.out = <<>>]
<1>1. /\ r \in PageRecs /\ r.phase = q.phase /\ r.life = q.life /\ r.sent = q.sent
      /\ r.promise = q.promise /\ r.asked = q.asked /\ r.pendingAcks = q.pendingAcks
      /\ r.got = q.got /\ r.out = <<>>
  <2>1. q \in PageRecs /\ <<>> \in Seq(ToServerFrames)
    BY EmptySeq DEF PageOK, PageTyped
  <2> QED BY <2>1 DEF PageRecs
<1> HIDE DEF r
<1>2. Pending(r) = Pending(q)
  BY <1>1 DEF Pending
<1>3. PageOK(r)
  BY <1>1, <1>2 DEF PageOK, PageTyped
<1>4. \A i : Heard(r, i) <=> Heard(q, i)
  BY <1>1 DEF Heard
<1>5. \A i : Told(r, s, i) <=> Told(q, s, i)
  BY <1>4 DEF Told
<1>6. EndsAgree(r, s, qp, qs)
  BY <1>1, <1>2, <1>4, <1>5 DEF EndsAgree, ServerIsTold, PageIsTold, PageCloseHolds, ServerCloseHolds
<1> QED BY <1>1, <1>3, <1>6 DEF r

\* ... and of the server.
LEMMA ServerOff ==
    ASSUME NEW t, ServerOK(t), NEW p, NEW qp, NEW qs, EndsAgree(p, t, qp, qs)
    PROVE  LET r == [t EXCEPT !.out = <<>>] IN
           /\ ServerOK(r) /\ r.out = <<>> /\ EndsAgree(p, r, qp, qs)
           /\ r.phase = t.phase /\ r.life = t.life /\ r.got = t.got /\ r.seq = t.seq
           /\ r.attached = t.attached /\ r.released = t.released
<1> DEFINE r == [t EXCEPT !.out = <<>>]
<1>1. /\ r \in ServerRecs /\ r.phase = t.phase /\ r.life = t.life /\ r.sent = t.sent
      /\ r.promise = t.promise /\ r.asked = t.asked /\ r.pendingAcks = t.pendingAcks
      /\ r.got = t.got /\ r.out = <<>> /\ r.attached = t.attached /\ r.released = t.released
      /\ r.buf = t.buf /\ r.pendingEnd = t.pendingEnd /\ r.seq = t.seq /\ r.seqOf = t.seqOf
      /\ r.pageSeq = t.pageSeq /\ r.closeSeq = t.closeSeq
  <2>1. t \in ServerRecs /\ <<>> \in Seq(ToPageFrames)
    BY EmptySeq DEF ServerOK, ServerTyped
  <2> QED BY <2>1 DEF ServerRecs
<1> HIDE DEF r
<1>2. Pending(r) = Pending(t) /\ Silent(r) = Silent(t)
  BY <1>1 DEF Pending, Silent
<1>3. ServerOK(r)
  BY <1>1, <1>2 DEF ServerOK, ServerTyped, ServerBuffered
<1>5. \A i : Told(p, r, i) <=> Told(p, t, i)
  BY <1>1 DEF Told
<1>6. EndsAgree(p, r, qp, qs)
  BY <1>1, <1>2, <1>5 DEF EndsAgree, ServerIsTold, PageIsTold, PageCloseHolds, ServerCloseHolds
<1> QED BY <1>1, <1>3, <1>6 DEF r

\* A step of the page's end, which takes it to q and leaves qp to be read.
LEMMA PageStepIs ==
    ASSUME EndsHold, NEW q, NEW qp \in Seq(ToPageFrames), PageDoes(q), toPage' = qp,
           UNCHANGED <<server, wire, breaks, use>>, Len(qp) <= server.seq, PageOK(q),
           toServer \o q.out \in Seq(ToServerFrames), EndsAgree(q, server, qp, toServer \o q.out),
           page.life.fired => q.got = page.got,
           page.phase # "ended" /\ q.phase = "ended" /\ q.life.error = "none" =>
               page.asked \cap Pending(page) = {}
    PROVE  StepHolds
<1> DEFINE r == [q EXCEPT !.out = <<>>]
           qs == toServer \o q.out
<1>1. page' = r /\ toServer' = qs
  BY DEF PageDoes
<1>2. /\ PageOK(r) /\ r.out = <<>> /\ EndsAgree(r, server, qp, qs)
      /\ r.phase = q.phase /\ r.life = q.life /\ r.got = q.got
  BY PageOff
<1> HIDE DEF r, qs
<1>3. PageOK(page)'
  BY <1>1, <1>2, PageOKNext
<1>4. ServerOK(server)'
  BY ServerOKNext DEF EndsHold
<1>5. (toPage \in Seq(ToPageFrames) /\ toServer \in Seq(ToServerFrames))'
  <2>1. qs \in Seq(ToServerFrames)
    BY DEF qs
  <2> QED BY <2>1, <1>1, QueuesNext
<1>6. EndsAgree(page, server, toPage, toServer)'
  BY <1>1, <1>2
<1>7. EndsHold'
  BY <1>1, <1>2, <1>3, <1>4, <1>5, <1>6 DEF EndsHold
<1>8. ClosedHearsNothing
  BY <1>1, <1>2 DEF ClosedHearsNothing
<1>9. CleanEndFailsNoAck
  BY <1>1, <1>2 DEF CleanEndFailsNoAck
<1> QED BY <1>7, <1>8, <1>9 DEF StepHolds

\* A step of the server's end, which takes it to t and leaves qs to be read.
LEMMA ServerStepIs ==
    ASSUME EndsHold, NEW t, NEW qs \in Seq(ToServerFrames), ServerDoes(t), toServer' = qs,
           UNCHANGED <<page, use>>, (wire \in {"up", "down"} \/ wire = "over")', breaks' \in Nat,
           ServerOK(t), t.attached = (wire' = "up" /\ t.phase # "ended"), wire' = "over" => t.released,
           toPage \o t.out \in Seq(ToPageFrames), Len(toPage \o t.out) <= t.seq,
           EndsAgree(page, t, toPage \o t.out, qs),
           server.life.fired /\ (server.life.acked \/ ~server.life.requested) => t.got = server.got,
           server.phase # "ended" /\ t.phase = "ended" /\ t.life.error = "none" =>
               server.asked \cap Pending(server) = {}
    PROVE  StepHolds
<1> DEFINE r == [t EXCEPT !.out = <<>>]
           qp == toPage \o t.out
<1>1. server' = r /\ toPage' = qp
  BY DEF ServerDoes
<1>2. /\ ServerOK(r) /\ r.out = <<>> /\ EndsAgree(page, r, qp, qs)
      /\ r.phase = t.phase /\ r.life = t.life /\ r.got = t.got /\ r.seq = t.seq
      /\ r.attached = t.attached /\ r.released = t.released
  BY ServerOff
<1> HIDE DEF r, qp
<1>3. ServerOK(server)'
  BY <1>1, <1>2, ServerOKNext
<1>4. PageOK(page)'
  BY PageOKNext DEF EndsHold
<1>5. (toPage \in Seq(ToPageFrames) /\ toServer \in Seq(ToServerFrames))' /\ Len(qp) <= t.seq
  <2>1. qp \in Seq(ToPageFrames) /\ Len(qp) <= t.seq
    BY DEF qp
  <2> QED BY <2>1, <1>1, QueuesNext
<1>6. EndsAgree(page, server, toPage, toServer)'
  BY <1>1, <1>2
<1>7. EndsHold'
  BY <1>1, <1>2, <1>3, <1>4, <1>5, <1>6 DEF EndsHold
<1>8. ClosedHearsNothing
  BY <1>1, <1>2 DEF ClosedHearsNothing
<1>9. CleanEndFailsNoAck
  BY <1>1, <1>2 DEF CleanEndFailsNoAck
<1> QED BY <1>7, <1>8, <1>9 DEF StepHolds

-----------------------------------------------------------------------------
(* The page's steps *)

\* What fs says: no message and no CLOSE_ACK, and of a close only what q began.
Says(q, fs) ==
    /\ fs \in Seq(ToServerFrames) /\ ~Carries(fs, "MESSAGE") /\ Ordered(fs)
    /\ ~Carries(fs, "CLOSE_ACK") /\ (CarriesFinal(fs) => q.phase # "open")

\* An end may say nothing.
LEMMA SaysNone == \A q : Says(q, <<>>)
<1>1. <<>> \in Seq(ToServerFrames)
  OBVIOUS
<1> QED BY <1>1, NoFrame DEF Says

\* An end may send one frame that is neither a message nor a CLOSE_ACK.
LEMMA SaysOne ==
    ASSUME NEW q, NEW f \in ToServerFrames, f.t # "MESSAGE", f.t # "CLOSE_ACK",
           f.t \in Finals => q.phase # "open"
    PROVE  Says(q, <<f>>)
<1>1. <<f>> \in Seq(ToServerFrames)
  OBVIOUS
<1>2. /\ \A t : Carries(<<f>>, t) <=> f.t = t
      /\ CarriesFinal(<<f>>) <=> f.t \in Finals
      /\ Ordered(<<f>>)
  BY OneFrame
<1> DEFINE r == <<f>>
<1> HIDE DEF r
<1>3. r \in Seq(ToServerFrames) /\ (\A t : Carries(r, t) <=> f.t = t)
      /\ (CarriesFinal(r) <=> f.t \in Finals) /\ Ordered(r)
  BY <1>1, <1>2 DEF r
<1>4. Says(q, r)
  BY <1>3 DEF Says
<1> QED BY <1>4 DEF r

\* Between handlers, both ends are as their handlers find them.
LEMMA StartsAre ==
    ASSUME EndsHold
    PROVE  /\ PageStart(page) /\ ServerStart(server)
           /\ page \in PageRecs /\ server \in ServerRecs
           /\ page.got \in Seq(ServerIds) /\ page.sent \in Nat /\ server.got \in Seq(PageIds)
           /\ server.sent \in Nat /\ server.seq \in Nat /\ Len(toPage) \in Nat
           /\ page.answering \subseteq ServerIds /\ server.answering \subseteq PageIds
           /\ (page.phase = "ended") = page.life.ended /\ page.life.ended \in BOOLEAN
           /\ (server.phase = "ended") = server.life.ended /\ server.life.ended \in BOOLEAN
           /\ page.phase \in Phases /\ server.phase \in Phases
<1>1. page \in PageRecs /\ server \in ServerRecs
  BY DEF EndsHold, PageOK, PageTyped, ServerOK, ServerTyped
<1>2. Len(toPage) \in Nat
  BY DEF EndsHold
<1> QED BY <1>1, <1>2 DEF EndsHold, PageStart, ServerStart, PageOK, ServerOK, PageRecs, ServerRecs, Handshakes

\* A clean end has nothing in flight.
LEMMA PageCleans ==
    ASSUME EndsHold, NEW q, PageOK(q), PageClean(page, q)
    PROVE  page.phase # "ended" /\ q.phase = "ended" /\ q.life.error = "none" =>
               page.asked \cap Pending(page) = {}
<1>1. (q.phase = "ended") <=> q.life.ended
  BY DEF PageOK
<1>2. page.phase # "ended" <=> ~page.life.ended
  BY DEF EndsHold, PageOK
<1>3. page.life.fired /\ ~page.life.ended => page.asked \cap Pending(page) = {}
  BY DEF EndsHold, EndsAgree, PageCloseHolds
<1> QED BY <1>1, <1>2, <1>3 DEF PageClean

\* A step of the page in which no message is sent or heard, and which reads nothing.
LEMMA PageGoesStep ==
    ASSUME EndsHold, NEW q, NEW fs, PageOnly(q), PageGoes(page, q, fs, FALSE), PageClean(page, q),
           Says(q, fs)
    PROVE  StepHolds
<1>1. q.out = fs /\ PageOK(q) /\ q.got = page.got
  BY DEF PageGoes, PageQuiet
<1>2. EndsAgree(q, server, toPage, toServer \o fs)
  BY PageGoesAgrees DEF EndsHold, Says
<1>3. toServer \o q.out \in Seq(ToServerFrames)
  BY <1>1 DEF EndsHold, Says
<1>4. page.phase # "ended" /\ q.phase = "ended" /\ q.life.error = "none" =>
               page.asked \cap Pending(page) = {}
  BY <1>1, PageCleans
<1>5. /\ toPage \in Seq(ToPageFrames) /\ Len(toPage) <= server.seq
      /\ PageDoes(q) /\ toPage' = toPage /\ UNCHANGED <<server, wire, breaks, use>>
  BY DEF PageOnly, EndsHold
<1> QED BY <1>1, <1>2, <1>3, <1>4, <1>5, PageStepIs

\* The page sends a message.
LEMMA PageSendsStep ==
    ASSUME EndsHold, PageSends
    PROVE  StepHolds
<1> DEFINE q == PageSend(page)
           i == page.sent + 1
           f == Message(i, use.asks[i])
<1>1. page.phase = "open" /\ i \in PageIds /\ PageOnly(q)
  BY DEF PageSends
<1>2. PageStart(page) /\ page.sent \in Nat /\ server.got \in Seq(PageIds)
  BY StartsAre
<1>3. /\ PageOK(q) /\ q.phase = "open" /\ q.life = page.life /\ q.sent = page.sent + 1
      /\ q.got = page.got /\ q.out = <<f>>
  BY <1>1, <1>2, PageSendDoes
<1>4. f \in ToServerFrames /\ f.t = "MESSAGE" /\ f.id = page.sent + 1
  <2>1. use.asks[i] \in BOOLEAN
    BY <1>1, IdsFinite DEF EndsHold
  <2>2. f \in ToServerFrames
    BY <2>1, <1>1, FrameTypes
  <2> QED BY <2>2 DEF Message
<1> HIDE DEF q, f, i
<1>5. EndsAgree(q, server, toPage, toServer \o <<f>>)
  BY <1>1, <1>2, <1>3, <1>4, PageSendAgrees DEF EndsHold
<1>6. toServer \o q.out \in Seq(ToServerFrames)
  <2>1. <<f>> \in Seq(ToServerFrames)
    BY <1>4
  <2> QED BY <2>1, <1>3 DEF EndsHold
<1>7. /\ toPage \in Seq(ToPageFrames) /\ Len(toPage) <= server.seq
      /\ PageDoes(q) /\ toPage' = toPage /\ UNCHANGED <<server, wire, breaks, use>>
  BY <1>1 DEF PageOnly, EndsHold
<1> QED BY <1>3, <1>5, <1>6, <1>7, PageStepIs

\* The page closes the channel.
LEMMA PageClosesStep ==
    ASSUME EndsHold, PageCloses
    PROVE  StepHolds
<1>1. PICK t \in Timeouts : PageOnly(PageClose(page, t))
  BY DEF PageCloses
<1> DEFINE q == PageClose(page, t)
           f == Close(t)
<1>2. PageGoes(page, q, <<f>>, FALSE) /\ PageClean(page, q) /\ q.phase # "open"
  BY StartsAre, PageCloseDoes DEF PageCloses
<1>3. f \in ToServerFrames /\ f.t = "CLOSE"
  BY TimeoutsAreTimes, FrameTypes DEF Close
<1>4. PageOnly(q)
  BY <1>1
<1> HIDE DEF q, f
<1>5. Says(q, <<f>>)
  BY <1>2, <1>3, SaysOne
<1> QED BY <1>2, <1>4, <1>5, PageGoesStep

\* The page aborts the channel.
LEMMA PageAbortsStep ==
    ASSUME EndsHold, PageAborts
    PROVE  StepHolds
<1> DEFINE q == PageAbort(page)
           f == Ctrl("ABORT")
<1>1. ~page.life.ended /\ PageOnly(q)
  BY StartsAre DEF PageAborts
<1>2. PageGoes(page, q, <<f>>, FALSE) /\ PageClean(page, q) /\ q.phase # "open"
  BY <1>1, StartsAre, PageAbortDoes
<1>3. f \in ToServerFrames /\ f.t = "ABORT"
  BY FrameTypes DEF Ctrl
<1> HIDE DEF q, f
<1>5. Says(q, <<f>>)
  BY <1>2, <1>3, SaysOne
<1> QED BY <1>1, <1>2, <1>5, PageGoesStep

\* The page's listeners answer, or throw Abort.
LEMMA PageListenersStep ==
    ASSUME EndsHold, PageListeners
    PROVE  StepHolds
<1>1. PICK id \in page.answering :
          PageOnly(PageAnswers(page, id)) \/ PageOnly(PageListenerAborts(page, id))
  BY DEF PageListeners
<1>2. id \in ServerIds /\ PageStart(page)
  BY StartsAre
<1>3. CASE PageOnly(PageAnswers(page, id))
  <2> DEFINE q == PageAnswers(page, id)
             f == AckRes(id)
  <2>1. PICK fs \in {<<>>, <<f>>} : PageGoes(page, q, fs, FALSE) /\ PageClean(page, q)
    BY <1>2, PageAnswersDoes
  <2>2. f \in ToServerFrames /\ f.t = "ACK_RES"
    BY <1>2, FrameTypes DEF AckRes
  <2>3. PageOnly(q)
    BY <1>3
  <2> HIDE DEF q, f
  <2>4. Says(q, <<f>>)
    BY <2>2, SaysOne DEF Finals
  <2>5. Says(q, fs)
    BY <2>1, <2>4, SaysNone
  <2> QED BY <2>1, <2>3, <2>5, PageGoesStep
<1>4. CASE PageOnly(PageListenerAborts(page, id))
  <2> DEFINE q == PageListenerAborts(page, id)
             f == Ctrl("ABORT")
  <2>1. PICK fs \in {<<>>, <<f>>} :
          PageGoes(page, q, fs, FALSE) /\ PageClean(page, q) /\ (fs # <<>> => q.phase # "open")
    BY <1>2, PageListenerAbortsDoes
  <2>2. f \in ToServerFrames /\ f.t = "ABORT"
    BY FrameTypes DEF Ctrl
  <2>3. PageOnly(q)
    BY <1>4
  <2> HIDE DEF q, f
  <2>4. q.phase # "open" => Says(q, <<f>>)
    BY <2>2, SaysOne
  <2>5. Says(q, fs)
    BY <2>1, <2>4, SaysNone
  <2> QED BY <2>1, <2>3, <2>5, PageGoesStep
<1> QED BY <1>1, <1>3, <1>4

\* The run of the page's close, woken.
LEMMA PageRunsStep ==
    ASSUME EndsHold, PageRuns
    PROVE  StepHolds
<1> DEFINE q == PageRan([page EXCEPT !.life = Run(@, Inflight(page))])
<1>1. page.life.run = "due" /\ PageOnly(q)
  BY DEF PageRuns
<1>2. page.phase = "closing"
  <2>1. page.phase # "open" /\ page.phase # "ended" /\ page.phase \in Phases
    BY <1>1, StartsAre DEF EndsHold, PageOK, AtRest
  <2> QED BY <2>1 DEF Phases
<1>3. PageGoes(page, q, <<>>, FALSE) /\ PageClean(page, q)
  BY <1>1, <1>2, StartsAre, PageRunsDoes
<1> HIDE DEF q
<1>4. Says(q, <<>>)
  BY SaysNone
<1> QED BY <1>1, <1>3, <1>4, PageGoesStep

\* The close's timer, its callbacks: only the handshake goes on.
LEMMA PageWakesStep ==
    ASSUME EndsHold, NEW g, AtRest(g), Woken(page.life, g), PageOnly([page EXCEPT !.life = g])
    PROVE  StepHolds
<1> DEFINE q == [page EXCEPT !.life = g]
           r == [page EXCEPT !.life = g, !.answering = page.answering]
<1>1. q = r
  BY StartsAre DEF PageRecs
<1>2. PageGoes(page, r, <<>>, FALSE) /\ PageClean(page, r)
  BY StartsAre, PageWakes
<1> HIDE DEF q, r
<1>3. PageGoes(page, q, <<>>, FALSE) /\ PageClean(page, q)
  BY <1>1, <1>2
<1>4. Says(q, <<>>)
  BY SaysNone
<1>5. PageOnly(q)
  BY DEF q
<1> QED BY <1>3, <1>4, <1>5, PageGoesStep

\* The timer of the page's close fires, or its callbacks settle.
LEMMA PageTimersStep ==
    ASSUME EndsHold, PageTimer \/ PageOnCloseSettles
    PROVE  StepHolds
<1>1. AtRest(page.life)
  BY DEF EndsHold, PageOK
<1>2. CASE PageTimer
  <2> DEFINE g == TimerFired(page.life)
  <2>1. AtRest(g) /\ Woken(page.life, g)
    BY <1>1, TimerFiredRests
  <2>2. PageOnly([page EXCEPT !.life = g])
    BY <1>2 DEF PageTimer
  <2> HIDE DEF g
  <2> QED BY <2>1, <2>2, PageWakesStep
<1>3. CASE PageOnCloseSettles
  <2> DEFINE g == ListenersSettled(page.life)
  <2>1. AtRest(g) /\ Woken(page.life, g)
    BY <1>1, ListenersSettledRests
  <2>2. PageOnly([page EXCEPT !.life = g])
    BY <1>3 DEF PageOnCloseSettles
  <2> HIDE DEF g
  <2> QED BY <2>1, <2>2, PageWakesStep
<1> QED BY <1>2, <1>3

\* What the page reads next is a frame; the rest is a queue.
LEMMA PageQueue ==
    ASSUME EndsHold, toPage # <<>>
    PROVE  /\ Head(toPage) \in ToPageFrames /\ Tail(toPage) \in Seq(ToPageFrames)
           /\ Len(Tail(toPage)) <= server.seq
<1>1. Len(Tail(toPage)) = Len(toPage) - 1 /\ Len(toPage) \in Nat
  BY DEF EndsHold
<1>2. Len(Tail(toPage)) <= server.seq
  BY <1>1, StartsAre DEF EndsHold
<1> QED BY <1>2 DEF EndsHold

\* The page goes on without a message, having read a frame that is none.
LEMMA PageReadsGoes ==
    ASSUME EndsHold, toPage # <<>>, Head(toPage).t # "MESSAGE", NEW q, NEW fs \in Seq(ToServerFrames),
           NEW told \in BOOLEAN, PageGoes(page, q, fs, told), PageClean(page, q),
           PageDoes(q), toPage' = Tail(toPage), UNCHANGED <<server, wire, breaks, use>>,
           ~Carries(fs, "MESSAGE"), Ordered(fs), CarriesFinal(fs) => q.phase # "open",
           Carries(fs, "CLOSE_ACK") => told,
           told => Head(toPage).t = "CLOSE" /\ page.phase # "ended"
    PROVE  StepHolds
<1> DEFINE r == Tail(toPage)
<1>1. EndsAgree(page, server, r, toServer)
  BY PageDropAgrees DEF EndsHold
<1>2. q.out = fs /\ PageOK(q) /\ q.got = page.got
  BY DEF PageGoes, PageQuiet
<1>3. told => /\ ~Carries(r, "MESSAGE") /\ Silent(server)
              /\ \A i \in 1 .. server.sent : Told(page, server, i)
  <2>1. SUFFICES ASSUME told PROVE /\ ~Carries(r, "MESSAGE") /\ Silent(server)
                                   /\ \A i \in 1 .. server.sent : Told(page, server, i)
    OBVIOUS
  <2>2. Head(toPage).t \in Finals
    BY <2>1 DEF Finals
  <2>3. Ordered(toPage)
    BY DEF EndsHold, EndsAgree, PageIsTold
  <2>4. ~Carries(r, "MESSAGE") /\ CarriesFinal(toPage) /\ \A i : ~CarriesId(r, i)
    BY <2>2, <2>3, TailCarries DEF EndsHold
  <2>5. Silent(server)
    BY <2>4 DEF EndsHold, EndsAgree, PageCloseHolds
  <2>6. \A i : ~Holds(server.buf, i)
    BY <2>5 DEF Silent, Holds
  <2>7. \A i \in 1 .. server.sent : Told(page, server, i)
    BY <2>1, <2>4, <2>6, <1>1 DEF EndsAgree, PageIsTold
  <2> QED BY <2>4, <2>5, <2>7
<1>4. EndsAgree(q, server, r, toServer \o fs)
  BY <1>1, <1>3, PageGoesAgrees DEF EndsHold
<1>5. toServer \o q.out \in Seq(ToServerFrames)
  BY <1>2 DEF EndsHold
<1>6. page.phase # "ended" /\ q.phase = "ended" /\ q.life.error = "none" =>
               page.asked \cap Pending(page) = {}
  BY <1>2, PageCleans
<1>7. r \in Seq(ToPageFrames) /\ Len(r) <= server.seq /\ toPage' = r
  BY PageQueue
<1> HIDE DEF r
<1> QED BY <1>2, <1>4, <1>5, <1>6, <1>7, PageStepIs

\* The page reads a frame.
LEMMA PageReadsStep ==
    ASSUME EndsHold, PageReads
    PROVE  StepHolds
<1> DEFINE f == Head(toPage)
           q == PageTakes(page, f)
           r == Tail(toPage)
<1>1. /\ toPage # <<>> /\ toPage' = r /\ PageDoes(q) /\ UNCHANGED <<server, wire, breaks, use>>
  BY DEF PageReads
<1>2. f \in ToPageFrames /\ r \in Seq(ToPageFrames) /\ Len(r) <= server.seq
  BY <1>1, PageQueue
<1>3. PageReadsOf(page, q, f)
  BY <1>2, StartsAre, PageTakesDoes
<1>4. f.t = "MESSAGE" => f.id \in ServerIds
  BY <1>2, PageFrameIs
<1>5. Ordered(toPage) /\ toServer \in Seq(ToServerFrames) /\ toPage \in Seq(ToPageFrames)
      /\ EndsAgree(page, server, toPage, toServer) /\ page.out = <<>> /\ PageOK(page)
  BY DEF EndsHold, EndsAgree, PageIsTold
<1>6. /\ \A t : Carries(toPage, t) <=> f.t = t \/ Carries(r, t)
      /\ CarriesFinal(toPage) <=> f.t \in Finals \/ CarriesFinal(r)
  BY <1>1, <1>5, TailCarries
<1>7. toServer \o <<>> = toServer /\ toServer \o <<>> \in Seq(ToServerFrames)
  BY <1>5
<1> HIDE DEF q
<1>8. CASE page.life.ended /\ q = page
  <2>1. page.phase = "ended"
    BY <1>8, StartsAre
  <2>2. EndsAgree(page, server, r, toServer)
    BY <2>1, <1>1, <1>5, PageDropAgrees
  <2> HIDE DEF f, r
  <2>3. q.out = <<>>
    BY <1>5, <1>8
  <2>4. EndsAgree(q, server, r, toServer \o q.out) /\ toServer \o q.out \in Seq(ToServerFrames)
    BY <2>2, <2>3, <1>7, <1>8
  <2> QED BY <2>1, <2>4, <1>1, <1>2, <1>5, <1>8, PageStepIs
<1>9. CASE ~page.life.ended /\ f.t = "MESSAGE" /\ PageHears(page, q, f)
  <2>1. page.phase # "ended"
    BY <1>9, StartsAre
  <2>2. EndsAgree(q, server, r, toServer)
    <3>1. \A i : Holds(server.buf, i) => i \in 1 .. server.sent
      BY HeldWasSent DEF EndsHold
    <3> QED BY <3>1, <2>1, <1>1, <1>4, <1>5, <1>9, StartsAre, PageHearsAgrees
  <2> HIDE DEF f, r
  <2>3. q.out = <<>> /\ PageOK(q) /\ q.phase = page.phase
    BY <1>9 DEF PageHears
  <2>4. EndsAgree(q, server, r, toServer \o q.out) /\ toServer \o q.out \in Seq(ToServerFrames)
    BY <2>2, <2>3, <1>7
  <2>5. ~page.life.fired
    <3>1. Carries(toPage, "MESSAGE")
      BY <1>6, <1>9
    <3> QED BY <3>1, <1>5, <1>9 DEF EndsAgree, PageCloseHolds
  <2> QED BY <2>1, <2>3, <2>4, <2>5, <1>1, <1>2, PageStepIs
<1>10. CASE ~page.life.ended /\ f.t = "ACK_RES" /\ PageGoes(page, q, <<>>, FALSE) /\ PageClean(page, q)
  <2>1. Says(q, <<>>)
    BY SaysNone
  <2> QED BY <2>1, <1>1, <1>10, PageReadsGoes DEF Says
<1>11. CASE /\ ~page.life.ended /\ f.t = "CLOSE" /\ PageGoes(page, q, <<Ctrl("CLOSE_ACK")>>, TRUE)
            /\ PageClean(page, q) /\ q.phase # "open"
  <2> DEFINE fs == <<Ctrl("CLOSE_ACK")>>
  <2>1. fs \in Seq(ToServerFrames)
    BY FrameTypes
  <2>2. ~Carries(fs, "MESSAGE") /\ Ordered(fs)
    <3>1. Ctrl("CLOSE_ACK").t = "CLOSE_ACK"
      BY DEF Ctrl
    <3> QED BY <3>1, OneFrame
  <2>3. page.phase # "ended"
    BY <1>11, StartsAre
  <2>4. PageGoes(page, q, fs, TRUE)
    BY <1>11
  <2> HIDE DEF fs
  <2> QED BY <2>1, <2>2, <2>3, <2>4, <1>1, <1>11, PageReadsGoes
<1>12. CASE ~page.life.ended /\ f.t = "CLOSE_ACK" /\ PageIsAcked(page, q)
  <2>1. EndsAgree(q, server, r, toServer)
    BY <1>1, <1>5, <1>12, PageIsAckedAgrees
  <2> HIDE DEF f, r
  <2>2. q.out = <<>> /\ PageOK(q) /\ q.phase = page.phase /\ q.got = page.got
    BY <1>12 DEF PageIsAcked
  <2>3. EndsAgree(q, server, r, toServer \o q.out) /\ toServer \o q.out \in Seq(ToServerFrames)
    BY <2>1, <2>2, <1>7
  <2> QED BY <2>2, <2>3, <1>1, <1>2, PageStepIs
<1>13. CASE /\ ~page.life.ended /\ f.t \in {"ABORT", "ERROR"} /\ PageGoes(page, q, <<>>, FALSE)
            /\ (~page.life.acked => PageClean(page, q))
  <2>1. Says(q, <<>>)
    BY SaysNone
  <2>2. ~page.life.acked
    <3>1. Carries(toPage, "ABORT") \/ Carries(toPage, "ERROR")
      BY <1>6, <1>13
    <3> QED BY <3>1, <1>5 DEF EndsAgree, PageCloseHolds
  <2>3. f.t # "MESSAGE"
    BY <1>13
  <2> QED BY <2>1, <2>2, <2>3, <1>1, <1>13, PageReadsGoes DEF Says
<1> QED BY <1>3, <1>8, <1>9, <1>10, <1>11, <1>12, <1>13 DEF PageReadsOf

-----------------------------------------------------------------------------
(* The server's steps *)

\* A clean end has nothing in flight.
LEMMA ServerCleans ==
    ASSUME EndsHold, NEW t, ServerOK(t), ServerClean(server, t)
    PROVE  server.phase # "ended" /\ t.phase = "ended" /\ t.life.error = "none" =>
               server.asked \cap Pending(server) = {}
<1>1. (t.phase = "ended") <=> t.life.ended
  BY DEF ServerOK
<1>2. server.phase # "ended" <=> ~server.life.ended
  BY DEF EndsHold, ServerOK
<1>3. server.life.fired /\ ~server.life.ended => server.asked \cap Pending(server) = {}
  BY DEF EndsHold, EndsAgree, ServerCloseHolds
<1> QED BY <1>1, <1>2, <1>3 DEF ServerClean

\* What the server sends joins what the page has to read.
LEMMA ServerSays ==
    ASSUME EndsHold, NEW t, NEW fs, NEW told, ServerMoves(server, t, fs, told)
    PROVE  /\ t.out = fs /\ fs \in Seq(ToPageFrames) /\ ServerOK(t) /\ t.got = server.got
           /\ toPage \o fs \in Seq(ToPageFrames) /\ Len(toPage \o fs) <= t.seq
           /\ t.phase # "ended" => server.phase # "ended"
<1>1. t.out = fs /\ t.seq = server.seq + Len(fs) /\ ServerOK(t) /\ t.got = server.got
      /\ (server.life.ended => t.life.ended)
  BY DEF ServerMoves, ServerWords, ServerLife
<1>2. fs \in Seq(ToPageFrames)
  BY <1>1 DEF ServerOK, ServerTyped, ServerRecs
<1>3. toPage \o fs \in Seq(ToPageFrames) /\ Len(toPage \o fs) = Len(toPage) + Len(fs)
  BY <1>2 DEF EndsHold
<1>4. Len(fs) \in Nat /\ Len(toPage) \in Nat /\ server.seq \in Nat
  BY <1>2, StartsAre
<1>5. Len(toPage) <= server.seq
  BY DEF EndsHold
<1>6. Len(toPage) + Len(fs) <= server.seq + Len(fs)
  BY <1>4, <1>5
<1>7. t.phase # "ended" => server.phase # "ended"
  BY <1>1 DEF ServerOK, EndsHold
<1> QED BY <1>1, <1>2, <1>3, <1>6, <1>7

\* A step of the server in which it reads nothing.
LEMMA ServerMovesStep ==
    ASSUME EndsHold, NEW t, ServerOnly(t), ServerMoves(server, t, t.out, FALSE),
           ServerClean(server, t), Stays(server, t)
    PROVE  StepHolds
<1> DEFINE fs == t.out
<1>1. /\ fs \in Seq(ToPageFrames) /\ ServerOK(t) /\ t.got = server.got
      /\ toPage \o fs \in Seq(ToPageFrames) /\ Len(toPage \o fs) <= t.seq
      /\ t.phase # "ended" => server.phase # "ended"
  BY ServerSays
<1>2. EndsAgree(page, t, toPage \o fs, toServer)
  BY <1>1, ServerMovesAgrees DEF EndsHold
<1>3. server.phase # "ended" /\ t.phase = "ended" /\ t.life.error = "none" =>
               server.asked \cap Pending(server) = {}
  BY <1>1, ServerCleans
<1>4. t.attached = (wire = "up" /\ t.phase # "ended") /\ (wire = "over" => t.released)
  BY <1>1 DEF Stays, EndsHold
<1>5. /\ toServer \in Seq(ToServerFrames) /\ ServerDoes(t) /\ toServer' = toServer
      /\ UNCHANGED <<page, use>> /\ wire' = wire /\ breaks' = breaks
      /\ wire \in {"up", "down", "over"} /\ breaks \in Nat
  BY DEF ServerOnly, EndsHold
<1> QED BY <1>1, <1>2, <1>3, <1>4, <1>5, ServerStepIs

\* The server sends a message, to the page or to its buffer.
LEMMA ServerSendsStep ==
    ASSUME EndsHold, ServerSends
    PROVE  StepHolds
<1> DEFINE t == ServerSend(server)
<1>1. server.phase = "open" /\ server.sent + 1 \in ServerIds /\ ServerOnly(t)
  BY DEF ServerSends
<1>2. ServerMoves(server, t, t.out, FALSE) /\ ServerClean(server, t) /\ Stays(server, t)
  BY <1>1, StartsAre, ServerSendDoes
<1> HIDE DEF t
<1> QED BY <1>1, <1>2, ServerMovesStep

\* The server closes the channel.
LEMMA ServerClosesStep ==
    ASSUME EndsHold, ServerCloses
    PROVE  StepHolds
<1>1. PICK x \in Timeouts : ServerOnly(ServerClose(server, x))
  BY DEF ServerCloses
<1> DEFINE t == ServerClose(server, x)
<1>2. ServerMoves(server, t, t.out, FALSE) /\ ServerClean(server, t) /\ Stays(server, t)
  BY StartsAre, ServerCloseDoes DEF ServerCloses
<1>3. ServerOnly(t)
  BY <1>1
<1> HIDE DEF t
<1> QED BY <1>2, <1>3, ServerMovesStep

\* The server aborts the channel.
LEMMA ServerAbortsStep ==
    ASSUME EndsHold, ServerAborts
    PROVE  StepHolds
<1> DEFINE t == ServerAbort(server)
<1>1. server.phase = "open" /\ ServerOnly(t)
  BY DEF ServerAborts
<1>2. ServerMoves(server, t, t.out, FALSE) /\ ServerClean(server, t) /\ Stays(server, t)
  BY <1>1, StartsAre, ServerAbortDoes
<1> HIDE DEF t
<1> QED BY <1>1, <1>2, ServerMovesStep

\* The server's listeners answer, or throw Abort.
LEMMA ServerListenersStep ==
    ASSUME EndsHold, ServerListeners
    PROVE  StepHolds
<1>1. PICK id \in server.answering :
          ServerOnly(ServerAnswers(server, id)) \/ ServerOnly(ServerListenerAborts(server, id))
  BY DEF ServerListeners
<1>2. id \in PageIds /\ ServerStart(server)
  BY StartsAre
<1>3. CASE ServerOnly(ServerAnswers(server, id))
  <2> DEFINE t == ServerAnswers(server, id)
  <2>1. ServerMoves(server, t, t.out, FALSE) /\ ServerClean(server, t) /\ Stays(server, t)
    BY <1>2, ServerAnswersDoes
  <2>2. ServerOnly(t)
    BY <1>3
  <2> HIDE DEF t
  <2> QED BY <2>1, <2>2, ServerMovesStep
<1>4. CASE ServerOnly(ServerListenerAborts(server, id))
  <2> DEFINE t == ServerListenerAborts(server, id)
  <2>1. ServerMoves(server, t, t.out, FALSE) /\ ServerClean(server, t) /\ Stays(server, t)
    BY <1>2, ServerListenerAbortsDoes
  <2>2. ServerOnly(t)
    BY <1>4
  <2> HIDE DEF t
  <2> QED BY <2>1, <2>2, ServerMovesStep
<1> QED BY <1>1, <1>3, <1>4

\* The run of the server's close, woken.
LEMMA ServerRunsStep ==
    ASSUME EndsHold, ServerRuns
    PROVE  StepHolds
<1> DEFINE t == ServerRan([server EXCEPT !.life = Run(@, Inflight(server))])
<1>1. server.life.run = "due" /\ ServerOnly(t)
  BY DEF ServerRuns
<1>2. ServerMoves(server, t, t.out, FALSE) /\ ServerClean(server, t) /\ Stays(server, t)
  BY <1>1, StartsAre, ServerRunsDoes
<1> HIDE DEF t
<1> QED BY <1>1, <1>2, ServerMovesStep

\* A step of the server in which it neither reads nor sends.
LEMMA ServerStillStep ==
    ASSUME EndsHold, NEW t, ServerOnly(t), ServerMoves(server, t, <<>>, FALSE),
           ServerClean(server, t), Stays(server, t), t.out = <<>>
    PROVE  StepHolds
<1>1. ServerMoves(server, t, t.out, FALSE)
  OBVIOUS
<1> QED BY <1>1, ServerMovesStep

\* The timer of the server's close fires, or its callbacks settle.
LEMMA ServerTimersStep ==
    ASSUME EndsHold, ServerTimer \/ ServerOnCloseSettles
    PROVE  StepHolds
<1>1. AtRest(server.life) /\ ServerStart(server)
  BY StartsAre DEF EndsHold, ServerOK
<1>2. CASE ServerTimer
  <2> DEFINE g == TimerFired(server.life)
             t == [server EXCEPT !.life = g]
  <2>1. AtRest(g) /\ Woken(server.life, g)
    BY <1>1, TimerFiredRests
  <2>2. ServerOnly(t)
    BY <1>2 DEF ServerTimer
  <2> HIDE DEF g
  <2>3. ServerMoves(server, t, <<>>, FALSE) /\ ServerClean(server, t) /\ Stays(server, t) /\ t.out = <<>>
    BY <1>1, <2>1, ServerTimerDoes
  <2> HIDE DEF t
  <2> QED BY <2>2, <2>3, ServerStillStep
<1>3. CASE ServerOnCloseSettles
  <2> DEFINE g == ListenersSettled(server.life)
             t == [server EXCEPT !.life = g]
  <2>1. AtRest(g) /\ Woken(server.life, g)
    BY <1>1, ListenersSettledRests
  <2>2. ServerOnly(t)
    BY <1>3 DEF ServerOnCloseSettles
  <2> HIDE DEF g
  <2>3. ServerMoves(server, t, <<>>, FALSE) /\ ServerClean(server, t) /\ Stays(server, t) /\ t.out = <<>>
    BY <1>1, <2>1, ServerTimerDoes
  <2> HIDE DEF t
  <2> QED BY <2>2, <2>3, ServerStillStep
<1> QED BY <1>2, <1>3

\* The response that carries the channel is made.
LEMMA RegisterStep ==
    ASSUME EndsHold, Register
    PROVE  StepHolds
<1> DEFINE t == [server EXCEPT !.registered = TRUE]
<1>1. ServerOnly(t)
  BY DEF Register
<1>2. ServerMoves(server, t, <<>>, FALSE) /\ ServerClean(server, t) /\ Stays(server, t) /\ t.out = <<>>
  BY StartsAre, RegisterDoes
<1> HIDE DEF t
<1> QED BY <1>1, <1>2, ServerStillStep

\* The page stays away for too long.
LEMMA PageIsGoneStep ==
    ASSUME EndsHold, PageIsGone
    PROVE  StepHolds
<1> DEFINE t == Shutdown(server, "gone", TRUE)
<1>1. server.phase # "ended" /\ ServerOnly(t)
  BY DEF PageIsGone
<1>2. ServerMoves(server, t, t.out, FALSE) /\ ServerClean(server, t) /\ Stays(server, t)
  <2>1. "gone" \in Errors /\ "gone" # "none"
    BY DEF Errors
  <2> QED BY <2>1, <1>1, StartsAre, ServerGoneDoes
<1> HIDE DEF t
<1> QED BY <1>1, <1>2, ServerMovesStep

\* The page has no more than what was sent.
LEMMA PageHasIs ==
    ASSUME EndsHold
    PROVE  PageHas \in Nat /\ PageHas <= server.seq
<1>1. Len(toPage) \in Nat /\ server.seq \in Nat /\ Len(toPage) <= server.seq
  BY StartsAre DEF EndsHold
<1> QED BY <1>1 DEF PageHas

\* The server learns what the page has.
LEMMA PageAcknowledgesStep ==
    ASSUME EndsHold, PageAcknowledges
    PROVE  StepHolds
<1> DEFINE n == PageHas
           t == OnPageHas(server, n)
<1>1. n \in Nat /\ n <= server.seq
  BY PageHasIs
<1>2. ServerOnly(t)
  BY DEF PageAcknowledges
<1> HIDE DEF n
<1>3. SameButPage(server, t)
  BY <1>1, StartsAre, PageIsAhead
<1> HIDE DEF t
<1>4. ServerMoves(server, t, <<>>, FALSE) /\ ServerClean(server, t) /\ Stays(server, t) /\ t.out = <<>>
  BY <1>3 DEF SameButPage
<1> QED BY <1>2, <1>4, ServerStillStep

\* The server learns that the page closed the channel.
LEMMA PageReportsStep ==
    ASSUME EndsHold, PageReports
    PROVE  StepHolds
<1> DEFINE n == PageHas
           r == OnPageHas([server EXCEPT !.pageClosed = TRUE], n)
           t == IF r.phase = "ended" THEN Release(r) ELSE r
<1>1. n \in Nat /\ n <= server.seq
  BY PageHasIs
<1>2. ServerOnly(t)
  BY DEF PageReports
<1> HIDE DEF n
<1>3. ServerMoves(server, t, <<>>, FALSE) /\ ServerClean(server, t) /\ Stays(server, t) /\ t.out = <<>>
  BY <1>1, StartsAre, ServerReportsDoes
<1> HIDE DEF t
<1> QED BY <1>2, <1>3, ServerStillStep

\* What was kept for a page that stayed away is let go.
LEMMA EndedExpiresStep ==
    ASSUME EndsHold, EndedExpires
    PROVE  StepHolds
<1> DEFINE t == Release(server)
<1>1. server.phase = "ended" /\ ServerOnly(t)
  BY DEF EndedExpires
<1>2. ServerMoves(server, t, <<>>, FALSE) /\ ServerClean(server, t) /\ Stays(server, t) /\ t.out = <<>>
  BY <1>1, StartsAre, ServerReleasesDoes
<1> HIDE DEF t
<1> QED BY <1>1, <1>2, ServerStillStep

\* The server goes on without hearing a message, having read a frame that is none.
LEMMA ServerReadsMoves ==
    ASSUME EndsHold, wire = "up", toServer # <<>>, Head(toServer).t # "MESSAGE", NEW t,
           NEW told \in BOOLEAN, ServerMoves(server, t, t.out, told), ServerClean(server, t),
           Stays(server, t),
           ServerDoes(t), toServer' = Tail(toServer), UNCHANGED <<page, wire, breaks, use>>,
           told => Head(toServer).t = "CLOSE" /\ server.phase # "ended"
    PROVE  StepHolds
<1> DEFINE r == Tail(toServer)
           fs == t.out
<1>1. EndsAgree(page, server, toPage, r)
  BY ServerDropAgrees DEF EndsHold
<1>2. /\ fs \in Seq(ToPageFrames) /\ ServerOK(t) /\ t.got = server.got
      /\ toPage \o fs \in Seq(ToPageFrames) /\ Len(toPage \o fs) <= t.seq
      /\ t.phase # "ended" => server.phase # "ended"
  BY ServerSays
<1>3. told => /\ page.phase # "open" /\ server.phase # "ended" /\ ~Carries(r, "MESSAGE")
              /\ Len(server.got) = page.sent
  <2>1. SUFFICES ASSUME told
                 PROVE  /\ page.phase # "open" /\ server.phase # "ended" /\ ~Carries(r, "MESSAGE")
                        /\ Len(server.got) = page.sent
    OBVIOUS
  <2>2. Head(toServer).t \in Finals
    BY <2>1 DEF Finals
  <2>3. Ordered(toServer)
    BY DEF EndsHold, EndsAgree, ServerIsTold
  <2>4. ~Carries(r, "MESSAGE") /\ CarriesFinal(toServer) /\ \A i : ~CarriesId(r, i)
    BY <2>2, <2>3, TailCarries DEF EndsHold
  <2>5. page.phase # "open"
    BY <2>4 DEF EndsHold, EndsAgree, ServerCloseHolds
  <2>6. Len(server.got) + 1 .. page.sent = {} /\ Len(server.got) <= page.sent
    BY <2>1, <2>4, <1>1 DEF EndsAgree, ServerIsTold
  <2>7. Len(server.got) \in Nat /\ page.sent \in Nat
    BY StartsAre
  <2> QED BY <2>1, <2>4, <2>5, <2>6, <2>7
<1>4. EndsAgree(page, t, toPage \o fs, r)
  BY <1>1, <1>2, <1>3, ServerMovesAgrees DEF EndsHold
<1>5. server.phase # "ended" /\ t.phase = "ended" /\ t.life.error = "none" =>
               server.asked \cap Pending(server) = {}
  BY <1>2, ServerCleans
<1>6. t.attached = (wire = "up" /\ t.phase # "ended") /\ (wire = "over" => t.released)
  BY <1>2 DEF Stays, EndsHold
<1>7. r \in Seq(ToServerFrames) /\ breaks \in Nat
  BY DEF EndsHold
<1> HIDE DEF r
<1>8. toServer' = r
  BY DEF r
<1> QED BY <1>2, <1>4, <1>5, <1>6, <1>7, <1>8, ServerStepIs

\* The server reads a frame.
LEMMA ServerReadsStep ==
    ASSUME EndsHold, ServerReads
    PROVE  StepHolds
<1> DEFINE f == Head(toServer)
           t == ServerTakes(server, f)
           r == Tail(toServer)
<1>1. /\ wire = "up" /\ toServer # <<>> /\ toServer' = r /\ ServerDoes(t)
      /\ UNCHANGED <<page, wire, breaks, use>>
  BY DEF ServerReads
<1>2. f \in ToServerFrames /\ r \in Seq(ToServerFrames)
  BY <1>1 DEF EndsHold
<1>3. ServerReadsOf(server, t, f)
  <2>1. server.phase # "ended" => server.attached
    BY <1>1 DEF EndsHold
  <2> QED BY <2>1, <1>2, StartsAre, ServerTakesDoes
<1>4. f.t = "MESSAGE" => f.id \in PageIds
  BY <1>2, ServerFrameIs
<1>5. Ordered(toServer) /\ toServer \in Seq(ToServerFrames) /\ toPage \in Seq(ToPageFrames)
      /\ EndsAgree(page, server, toPage, toServer) /\ server.out = <<>> /\ ServerOK(server)
      /\ Len(toPage) <= server.seq /\ breaks \in Nat
  BY DEF EndsHold, EndsAgree, ServerIsTold
<1>6. /\ \A x : Carries(toServer, x) <=> f.t = x \/ Carries(r, x)
      /\ CarriesFinal(toServer) <=> f.t \in Finals \/ CarriesFinal(r)
  BY <1>1, <1>5, TailCarries
<1>7. toPage \o <<>> = toPage /\ toPage \o <<>> \in Seq(ToPageFrames)
  BY <1>5
<1>8. server.attached = (wire = "up" /\ server.phase # "ended")
  BY DEF EndsHold
<1> HIDE DEF t
<1>9. CASE server.phase = "ended" /\ t = server
  <2>1. EndsAgree(page, server, toPage, r)
    BY <1>1, <1>5, <1>9, ServerDropAgrees
  <2> HIDE DEF f, r
  <2>2. t.out = <<>>
    BY <1>5, <1>9
  <2>3. EndsAgree(page, t, toPage \o t.out, r) /\ toPage \o t.out \in Seq(ToPageFrames)
        /\ Len(toPage \o t.out) <= t.seq
    BY <2>1, <2>2, <1>5, <1>7, <1>9
  <2> QED BY <2>3, <1>1, <1>2, <1>5, <1>8, <1>9, ServerStepIs
<1>10. CASE server.phase # "ended" /\ f.t = "MESSAGE" /\ ServerHears(server, t, f)
  <2>1. EndsAgree(page, t, toPage, r)
    BY <1>1, <1>4, <1>5, <1>10, StartsAre, ServerHearsAgrees
  <2> HIDE DEF f, r
  <2>2. /\ t.out = <<>> /\ ServerOK(t) /\ t.phase = server.phase /\ t.seq = server.seq
        /\ t.attached = server.attached /\ t.released = server.released
    BY <1>10 DEF ServerHears
  <2>3. EndsAgree(page, t, toPage \o t.out, r) /\ toPage \o t.out \in Seq(ToPageFrames)
        /\ Len(toPage \o t.out) <= t.seq
    BY <2>1, <2>2, <1>5, <1>7
  <2>4. ~(server.life.fired /\ (server.life.acked \/ ~server.life.requested))
    <3>1. Carries(toServer, "MESSAGE")
      BY <1>6, <1>10
    <3>2. server.life.fired => server.life.run # "none"
      BY <1>5, OpenIs
    <3>3. ~server.life.ended
      BY <1>10, StartsAre
    <3> QED BY <3>1, <3>2, <3>3, <1>5 DEF EndsAgree, ServerCloseHolds
  <2> QED BY <2>2, <2>3, <2>4, <1>1, <1>2, <1>5, <1>8, ServerStepIs
<1>11. CASE /\ server.phase # "ended" /\ f.t \in {"ACK_RES", "ABORT"}
            /\ ServerMoves(server, t, t.out, FALSE) /\ ServerClean(server, t) /\ Stays(server, t)
  <2>1. f.t # "MESSAGE"
    BY <1>11
  <2> QED BY <2>1, <1>1, <1>11, ServerReadsMoves
<1>12. CASE /\ server.phase # "ended" /\ f.t = "CLOSE" /\ ServerMoves(server, t, t.out, TRUE)
            /\ ServerClean(server, t) /\ Stays(server, t)
  <2>1. f.t # "MESSAGE"
    BY <1>12
  <2> QED BY <2>1, <1>1, <1>12, ServerReadsMoves
<1>13. CASE server.phase # "ended" /\ f.t = "CLOSE_ACK" /\ ServerIsAcked(server, t)
  <2>1. EndsAgree(page, t, toPage, r)
    BY <1>1, <1>5, <1>13, ServerIsAckedAgrees
  <2> HIDE DEF f, r
  <2>2. /\ t.out = <<>> /\ ServerOK(t) /\ t.phase = server.phase /\ t.seq = server.seq
        /\ t.attached = server.attached /\ t.released = server.released /\ t.got = server.got
    BY <1>13 DEF ServerIsAcked, SameWords
  <2>3. EndsAgree(page, t, toPage \o t.out, r) /\ toPage \o t.out \in Seq(ToPageFrames)
        /\ Len(toPage \o t.out) <= t.seq
    BY <2>1, <2>2, <1>5, <1>7
  <2> QED BY <2>2, <2>3, <1>1, <1>2, <1>5, <1>8, ServerStepIs
<1> QED BY <1>3, <1>9, <1>10, <1>11, <1>12, <1>13 DEF ServerReadsOf

\* A wire carries the channel, and the server sends what it kept.
LEMMA AttachStep ==
    ASSUME EndsHold, Attach
    PROVE  StepHolds
<1> DEFINE n == PageHas
           t == AttachPeer(OnPageHas(server, n))
           fs == t.out
<1>1. /\ wire = "down" /\ ~server.released /\ wire' = "up" /\ ServerDoes(t)
      /\ UNCHANGED <<page, toServer, breaks, use>>
  BY DEF Attach
<1>2. n \in Nat /\ n <= server.seq
  BY PageHasIs
<1> HIDE DEF n
<1>3. ServerMoves(server, t, fs, FALSE) /\ ServerClean(server, t) /\ t.attached = (t.phase # "ended")
  <2>1. ~server.attached
    BY <1>1 DEF EndsHold
  <2> QED BY <2>1, <1>1, <1>2, StartsAre, AttachDoes
<1> HIDE DEF t
<1>4. /\ fs \in Seq(ToPageFrames) /\ ServerOK(t) /\ t.got = server.got
      /\ toPage \o fs \in Seq(ToPageFrames) /\ Len(toPage \o fs) <= t.seq
  BY <1>3, ServerSays
<1>5. EndsAgree(page, t, toPage \o fs, toServer)
  BY <1>3, <1>4, ServerMovesAgrees DEF EndsHold
<1>6. server.phase # "ended" /\ t.phase = "ended" /\ t.life.error = "none" =>
               server.asked \cap Pending(server) = {}
  BY <1>3, <1>4, ServerCleans
<1>7. toServer \in Seq(ToServerFrames) /\ breaks \in Nat
  BY DEF EndsHold
<1> QED BY <1>1, <1>3, <1>4, <1>5, <1>6, <1>7, ServerStepIs

\* AttachRefused: the page's end is over, and nothing is on its way.
LEMMA RefusedAgrees ==
    ASSUME NEW p, NEW s, NEW qp, NEW qs, EndsAgree(p, s, qp, qs), p.phase = "ended", s.phase = "ended"
    PROVE  EndsAgree(p, s, <<>>, <<>>)
<1> DEFINE e == <<>>
<1>1. (\A t : ~Carries(e, t)) /\ (\A i : ~CarriesId(e, i)) /\ ~CarriesFinal(e) /\ Ordered(e)
  BY NoFrame
<1> HIDE DEF e
<1>2. ServerIsTold(p, s, e) /\ PageIsTold(p, s, e)
  BY <1>1 DEF EndsAgree, ServerIsTold, PageIsTold
<1>3. PageCloseHolds(p, s, e) /\ ServerCloseHolds(p, s, e)
  BY <1>1 DEF EndsAgree, PageCloseHolds, ServerCloseHolds
<1> QED BY <1>2, <1>3 DEF EndsAgree, e

\* A page comes back for a channel that was let go: its end is over.
LEMMA AttachRefusedStep ==
    ASSUME EndsHold, AttachRefused
    PROVE  StepHolds
<1> DEFINE q == PageIsEnded(page, "lost")
<1>1. /\ server.released /\ page' = q /\ wire' = "over" /\ toPage' = <<>> /\ toServer' = <<>>
      /\ UNCHANGED <<server, breaks, use>>
  BY DEF AttachRefused
<1>2. PageGoes(page, q, <<>>, FALSE) /\ q.phase = "ended"
  <2>1. "lost" \in Errors /\ "lost" # "none"
    BY DEF Errors
  <2> QED BY <2>1, StartsAre, PageIsEndedDoes
<1> HIDE DEF q
<1>3. PageOK(q) /\ q.out = <<>> /\ q.got = page.got
  BY <1>2 DEF PageGoes, PageQuiet
<1>4. server.phase = "ended" /\ ~server.attached
  BY <1>1 DEF EndsHold, ServerOK
<1>5. EndsAgree(q, server, toPage, toServer \o <<>>)
  <2>1. Says(q, <<>>)
    BY SaysNone
  <2> QED BY <2>1, <1>2, PageGoesAgrees DEF EndsHold, Says
<1>6. EndsAgree(q, server, <<>>, <<>>)
  BY <1>2, <1>4, <1>5, RefusedAgrees
<1>7. PageOK(page)'
  BY <1>1, <1>3, PageOKNext
<1>8. ServerOK(server)'
  BY <1>1, ServerOKNext DEF EndsHold
<1>9. (toPage \in Seq(ToPageFrames) /\ toServer \in Seq(ToServerFrames))'
  <2>1. <<>> \in Seq(ToPageFrames) /\ <<>> \in Seq(ToServerFrames)
    OBVIOUS
  <2> QED BY <2>1, <1>1, QueuesNext
<1>10. EndsAgree(page, server, toPage, toServer)'
  BY <1>1, <1>6
<1>11. EndsHold'
  <2>1. Len(toPage') <= server.seq
    BY <1>1, StartsAre
  <2> QED BY <2>1, <1>1, <1>3, <1>4, <1>7, <1>8, <1>9, <1>10 DEF EndsHold
<1>12. ClosedHearsNothing /\ CleanEndFailsNoAck
  BY <1>1, <1>3 DEF ClosedHearsNothing, CleanEndFailsNoAck
<1> QED BY <1>11, <1>12 DEF StepHolds

\* _onPeerDisconnect: the server's end knows of no page.
LEMMA Detached ==
    ASSUME NEW s, ServerOK(s), s.out = <<>>, NEW p, NEW qp, NEW qs, EndsAgree(p, s, qp, qs)
    PROVE  LET t == [s EXCEPT !.attached = FALSE] IN
           /\ ServerOK(t) /\ t.out = <<>> /\ EndsAgree(p, t, qp, qs) /\ t.attached = FALSE
           /\ t.phase = s.phase /\ t.life = s.life /\ t.got = s.got /\ t.seq = s.seq
           /\ t.released = s.released
<1> DEFINE t == [s EXCEPT !.attached = FALSE]
<1>1. /\ t \in ServerRecs /\ t.phase = s.phase /\ t.life = s.life /\ t.sent = s.sent
      /\ t.promise = s.promise /\ t.asked = s.asked /\ t.pendingAcks = s.pendingAcks
      /\ t.got = s.got /\ t.out = s.out /\ t.attached = FALSE /\ t.released = s.released
      /\ t.buf = s.buf /\ t.pendingEnd = s.pendingEnd /\ t.seq = s.seq /\ t.seqOf = s.seqOf
      /\ t.pageSeq = s.pageSeq /\ t.closeSeq = s.closeSeq
  <2>1. s \in ServerRecs
    BY DEF ServerOK, ServerTyped
  <2> QED BY <2>1 DEF ServerRecs
<1> HIDE DEF t
<1>2. Pending(t) = Pending(s) /\ Silent(t) = Silent(s)
  BY <1>1 DEF Pending, Silent
<1>3. ServerOK(t)
  BY <1>1, <1>2 DEF ServerOK, ServerTyped, ServerBuffered
<1>4. \A i : Told(p, t, i) <=> Told(p, s, i)
  BY <1>1 DEF Told
<1>5. EndsAgree(p, t, qp, qs)
  BY <1>1, <1>2, <1>4 DEF EndsAgree, ServerIsTold, PageIsTold, PageCloseHolds, ServerCloseHolds
<1> QED BY <1>1, <1>3, <1>5 DEF t

\* The wire breaks.
LEMMA BreakStep ==
    ASSUME EndsHold, Break
    PROVE  StepHolds
<1> DEFINE t == [server EXCEPT !.attached = FALSE]
<1>1. /\ wire' = "down" /\ breaks' = breaks + 1 /\ server' = t
      /\ UNCHANGED <<page, toPage, toServer, use>>
  BY DEF Break
<1>2. /\ ServerOK(t) /\ t.out = <<>> /\ EndsAgree(page, t, toPage, toServer) /\ t.attached = FALSE
      /\ t.phase = server.phase /\ t.life = server.life /\ t.got = server.got /\ t.seq = server.seq
      /\ t.released = server.released
  BY Detached DEF EndsHold
<1> HIDE DEF t
<1>3. ServerOK(server)'
  BY <1>1, <1>2, ServerOKNext
<1>4. PageOK(page)'
  BY <1>1, PageOKNext DEF EndsHold
<1>5. (toPage \in Seq(ToPageFrames) /\ toServer \in Seq(ToServerFrames))'
  BY <1>1, QueuesNext DEF EndsHold
<1>6. EndsAgree(page, server, toPage, toServer)'
  BY <1>1, <1>2
<1>7. EndsHold'
  <2>1. (server.attached = (wire = "up" /\ server.phase # "ended"))'
    BY <1>1, <1>2
  <2>2. (breaks \in Nat /\ use \in Uses /\ page.out = <<>>)'
    BY <1>1 DEF EndsHold
  <2>3. (wire \in {"up", "down", "over"} /\ wire # "over" /\ Len(toPage) <= server.seq)'
    BY <1>1, <1>2 DEF EndsHold
  <2>4. server'.out = <<>>
    BY <1>1, <1>2
  <2> QED BY <2>1, <2>2, <2>3, <2>4, <1>3, <1>4, <1>5, <1>6 DEF EndsHold
<1>8. ClosedHearsNothing /\ CleanEndFailsNoAck
  BY <1>1, <1>2 DEF ClosedHearsNothing, CleanEndFailsNoAck
<1> QED BY <1>7, <1>8 DEF StepHolds

\* g is h but for the time that is left.
Later(h, g) ==
    /\ AtRest(g) /\ g.run = h.run /\ g.acked = h.acked /\ g.awaiting = h.awaiting
    /\ g.requested = h.requested /\ g.ended = h.ended /\ g.error = h.error /\ g.fired = h.fired

\* Time passes on both ends: nothing else changes.
LEMMA PageLater ==
    ASSUME NEW p, PageOK(p), p.out = <<>>, NEW g, Later(p.life, g), NEW s, NEW qp, NEW qs,
           EndsAgree(p, s, qp, qs)
    PROVE  LET q == [p EXCEPT !.life = g] IN
           /\ PageOK(q) /\ q.out = <<>> /\ EndsAgree(q, s, qp, qs)
           /\ q.phase = p.phase /\ q.life = g /\ q.got = p.got
<1> DEFINE q == [p EXCEPT !.life = g]
<1>1. /\ q \in PageRecs /\ q.phase = p.phase /\ q.life = g /\ q.sent = p.sent
      /\ q.promise = p.promise /\ q.asked = p.asked /\ q.pendingAcks = p.pendingAcks
      /\ q.got = p.got /\ q.out = p.out
  <2>1. p \in PageRecs /\ g \in Handshakes
    BY DEF PageOK, PageTyped, Later, AtRest
  <2> QED BY <2>1 DEF PageRecs
<1> HIDE DEF q
<1>2. Pending(q) = Pending(p)
  BY <1>1 DEF Pending
<1>3. PageOK(q)
  BY <1>1, <1>2 DEF PageOK, PageTyped, Later
<1>4. \A i : Heard(q, i) <=> Heard(p, i)
  BY <1>1 DEF Heard
<1>5. \A i : Told(q, s, i) <=> Told(p, s, i)
  BY <1>4 DEF Told
<1>6. EndsAgree(q, s, qp, qs)
  BY <1>1, <1>2, <1>4, <1>5
     DEF EndsAgree, ServerIsTold, PageIsTold, PageCloseHolds, ServerCloseHolds, Later
<1> QED BY <1>1, <1>3, <1>6 DEF q

\* ... on the server's end.
LEMMA ServerLater ==
    ASSUME NEW s, ServerOK(s), s.out = <<>>, NEW g, Later(s.life, g), NEW p, NEW qp, NEW qs,
           EndsAgree(p, s, qp, qs)
    PROVE  LET t == [s EXCEPT !.life = g] IN
           /\ ServerOK(t) /\ t.out = <<>> /\ EndsAgree(p, t, qp, qs) /\ t.attached = s.attached
           /\ t.phase = s.phase /\ t.life = g /\ t.got = s.got /\ t.seq = s.seq
           /\ t.released = s.released
<1> DEFINE t == [s EXCEPT !.life = g]
<1>1. /\ t \in ServerRecs /\ t.phase = s.phase /\ t.life = g /\ t.sent = s.sent
      /\ t.promise = s.promise /\ t.asked = s.asked /\ t.pendingAcks = s.pendingAcks
      /\ t.got = s.got /\ t.out = s.out /\ t.attached = s.attached /\ t.released = s.released
      /\ t.buf = s.buf /\ t.pendingEnd = s.pendingEnd /\ t.seq = s.seq /\ t.seqOf = s.seqOf
      /\ t.pageSeq = s.pageSeq /\ t.closeSeq = s.closeSeq
  <2>1. s \in ServerRecs /\ g \in Handshakes
    BY DEF ServerOK, ServerTyped, Later, AtRest
  <2> QED BY <2>1 DEF ServerRecs
<1> HIDE DEF t
<1>2. Pending(t) = Pending(s) /\ Silent(t) = Silent(s)
  BY <1>1 DEF Pending, Silent
<1>3. ServerOK(t)
  BY <1>1, <1>2 DEF ServerOK, ServerTyped, ServerBuffered, Later
<1>4. \A i : Told(p, t, i) <=> Told(p, s, i)
  BY <1>1 DEF Told
<1>5. EndsAgree(p, t, qp, qs)
  BY <1>1, <1>2, <1>4
     DEF EndsAgree, ServerIsTold, PageIsTold, PageCloseHolds, ServerCloseHolds, Later
<1> QED BY <1>1, <1>3, <1>5 DEF t

\* Time passes on both ends.
LEMMA TickStep ==
    ASSUME EndsHold, Tick
    PROVE  StepHolds
<1> DEFINE g == Elapse(page.life)
           h == Elapse(server.life)
           q == [page EXCEPT !.life = g]
           t == [server EXCEPT !.life = h]
<1>1. page' = q /\ server' = t /\ UNCHANGED <<wire, toPage, toServer, breaks, use>>
  BY DEF Tick
<1>2. Later(page.life, g) /\ Later(server.life, h)
  BY ElapseRests DEF EndsHold, PageOK, ServerOK, Later
<1> HIDE DEF g, h
<1>3. /\ PageOK(q) /\ q.out = <<>> /\ EndsAgree(q, server, toPage, toServer)
      /\ q.phase = page.phase /\ q.life = g /\ q.got = page.got
  BY <1>2, PageLater DEF EndsHold
<1> HIDE DEF q
<1>4. /\ ServerOK(t) /\ t.out = <<>> /\ EndsAgree(q, t, toPage, toServer)
      /\ t.attached = server.attached /\ t.phase = server.phase /\ t.life = h
      /\ t.got = server.got /\ t.seq = server.seq /\ t.released = server.released
  BY <1>2, <1>3, ServerLater, ZenonT(180) DEF EndsHold
<1> HIDE DEF t
<1>5. PageOK(page)' /\ ServerOK(server)'
  BY <1>1, <1>3, <1>4, PageOKNext, ServerOKNext
<1>6. (toPage \in Seq(ToPageFrames) /\ toServer \in Seq(ToServerFrames))'
  BY <1>1, QueuesNext DEF EndsHold
<1>7. EndsAgree(page, server, toPage, toServer)'
  BY <1>1, <1>4
<1>8. EndsHold'
  BY <1>1, <1>3, <1>4, <1>5, <1>6, <1>7 DEF EndsHold
<1>9. ClosedHearsNothing /\ CleanEndFailsNoAck
  BY <1>1, <1>3, <1>4 DEF ClosedHearsNothing, CleanEndFailsNoAck
<1> QED BY <1>8, <1>9 DEF StepHolds

\* Nothing happens.
LEMMA StillStep ==
    ASSUME EndsHold, UNCHANGED vars
    PROVE  StepHolds
<1>1. PageOK(page)' /\ ServerOK(server)'
  BY PageOKNext, ServerOKNext DEF EndsHold, vars
<1>2. (toPage \in Seq(ToPageFrames) /\ toServer \in Seq(ToServerFrames))'
  BY QueuesNext DEF EndsHold, vars
<1>3. EndsAgree(page, server, toPage, toServer)'
  BY DEF EndsHold, vars
<1>4. EndsHold'
  BY <1>1, <1>2, <1>3 DEF EndsHold, vars
<1>5. ClosedHearsNothing /\ CleanEndFailsNoAck
  BY DEF ClosedHearsNothing, CleanEndFailsNoAck, vars
<1> QED BY <1>4, <1>5 DEF StepHolds

\* Every step keeps what the ends agree on, and what their listeners and sends were told.
LEMMA EndsStep ==
    ASSUME EndsHold, [Next]_vars
    PROVE  StepHolds
<1>1. CASE UNCHANGED vars
  BY <1>1, StillStep
<1>2. CASE PageSends \/ PageCloses \/ PageAborts \/ PageReads \/ PageListeners
  BY <1>2, PageSendsStep, PageClosesStep, PageAbortsStep, PageReadsStep, PageListenersStep
<1>3. CASE PageRuns \/ PageTimer \/ PageOnCloseSettles
  BY <1>3, PageRunsStep, PageTimersStep
<1>4. CASE ServerSends \/ ServerCloses \/ ServerAborts \/ ServerReads \/ ServerListeners
  BY <1>4, ServerSendsStep, ServerClosesStep, ServerAbortsStep, ServerReadsStep, ServerListenersStep
<1>5. CASE ServerRuns \/ ServerTimer \/ ServerOnCloseSettles
  BY <1>5, ServerRunsStep, ServerTimersStep
<1>6. CASE Register \/ Attach \/ AttachRefused \/ Break \/ PageIsGone
  BY <1>6, RegisterStep, AttachStep, AttachRefusedStep, BreakStep, PageIsGoneStep
<1>7. CASE PageAcknowledges \/ PageReports \/ EndedExpires \/ Tick
  BY <1>7, PageAcknowledgesStep, PageReportsStep, EndedExpiresStep, TickStep
<1> QED BY <1>1, <1>2, <1>3, <1>4, <1>5, <1>6, <1>7 DEF Next

-----------------------------------------------------------------------------
(* The start *)

\* A close that has not begun is at rest.
LEMMA NewRests ==
    ASSUME NEW name
    PROVE  LET h == NewHandshake(name \in use.slow) IN
           /\ AtRest(h) /\ h.run = "none" /\ ~h.ended /\ ~h.fired /\ ~h.acked /\ ~h.requested
BY TimesAre DEF NewHandshake, AtRest, Handshakes, Runs, Errors

\* The page's end, before anything happened.
LEMMA PageStartsWell ==
    ASSUME use \in Uses
    PROVE  PageOK(NewPage)
<1> DEFINE h == NewHandshake("page" \in use.slow)
           p == NewPage
<1>1. /\ AtRest(h) /\ h.run = "none" /\ ~h.ended /\ ~h.fired /\ ~h.acked /\ ~h.requested
  BY NewRests
<1>2. p = [phase |-> "open", life |-> h, sent |-> 0,
           promise |-> [i \in PageIds |-> "none"], asked |-> {}, pendingAcks |-> {},
           answering |-> {}, got |-> <<>>, out |-> <<>>]
  BY DEF NewPage
<1> HIDE DEF h, p
<1>3. p \in PageRecs
  <2>1. [i \in PageIds |-> "none"] \in [PageIds -> States]
    BY DEF States
  <2>2. <<>> \in Seq(ServerIds) /\ <<>> \in Seq(ToServerFrames)
    BY EmptySeq
  <2> QED BY <2>1, <2>2, <1>1, <1>2 DEF PageRecs, Phases, AtRest
<1>4. p.life = h /\ p.phase = "open" /\ p.asked = {} /\ p.pendingAcks = {}
  BY <1>2
<1>5. PageOK(p)
  BY <1>1, <1>2, <1>3, <1>4 DEF PageOK, PageTyped
<1> QED BY <1>5 DEF p

\* The server's end, before anything happened.
LEMMA ServerStartsWell ==
    ASSUME use \in Uses
    PROVE  ServerOK(NewServer)
<1> DEFINE h == NewHandshake("server" \in use.slow)
           s == NewServer
           f == [i \in ServerIds |-> "none"]
           z == [i \in ServerIds |-> 0]
<1>1. /\ AtRest(h) /\ h.run = "none" /\ ~h.ended /\ ~h.fired /\ ~h.acked /\ ~h.requested
  BY NewRests
<1>2. s = [phase |-> "open", life |-> h, sent |-> 0, promise |-> f, asked |-> {}, pendingAcks |-> {},
           answering |-> {}, got |-> <<>>, out |-> <<>>,
           registered |-> FALSE, attached |-> FALSE, buf |-> EmptyBuffer, ackRes |-> <<>>,
           pendingEnd |-> NoPendingEnd, seq |-> 0, seqOf |-> z,
           pageSeq |-> 0, closeSeq |-> 0, pageClosed |-> FALSE, released |-> FALSE]
  BY DEF NewServer
<1>3. f \in [ServerIds -> States] /\ z \in [ServerIds -> Nat] /\ PendingOf(f) = {}
      /\ (\A i \in ServerIds : z[i] = 0)
  BY DEF States, PendingOf
<1>4. EmptyBuffer \in Buffers /\ Entries(EmptyBuffer) = {} /\ (\A k \in QueueKinds : EmptyBuffer.queue[k] = <<>>)
  BY EmptyBufferIs DEF EmptyBuffer
<1>5. NoPendingEnd \in EndsOwed /\ ~NoPendingEnd.closeAck /\ ~NoPendingEnd.error /\ ~NoPendingEnd.abort
      /\ ~NoPendingEnd.closeRequest
  BY DEF NoPendingEnd, EndsOwed
<1> HIDE DEF h, s, f, z
<1>6. s \in ServerRecs
  <2>1. <<>> \in Seq(PageIds) /\ <<>> \in Seq(ToPageFrames) /\ <<>> \in Seq(AckFrames)
    BY EmptySeq
  <2> QED BY <2>1, <1>1, <1>2, <1>3, <1>4, <1>5 DEF ServerRecs, Phases, AtRest
<1>7. /\ s.phase = "open" /\ s.life = h /\ s.sent = 0 /\ s.promise = f /\ s.asked = {}
      /\ s.pendingAcks = {} /\ s.attached = FALSE /\ s.buf = EmptyBuffer
      /\ s.pendingEnd = NoPendingEnd /\ s.seq = 0 /\ s.seqOf = z /\ s.pageSeq = 0
      /\ s.closeSeq = 0 /\ s.released = FALSE
  BY <1>2
<1>8. ServerTyped(s)
  <2>1. Len(use.sends) \in Nat
    BY IdsFinite
  <2>2. s.sent <= Len(use.sends)
    BY <2>1, <1>7
  <2>3. s.pageSeq <= s.seq /\ s.closeSeq <= s.seq /\ \A i \in ServerIds : s.seqOf[i] <= s.seq
    BY <1>3, <1>7
  <2> QED BY <2>2, <2>3, <1>5, <1>6, <1>7 DEF ServerTyped
<1>9. ServerBuffered(s)
  <2>1. \A k \in QueueKinds : Len(EmptyBuffer.queue[k]) = 0
    BY <1>4
  <2>2. "text" \in QueueKinds /\ "binary" \in QueueKinds
    BY DEF QueueKinds
  <2>3. BufferSorted(EmptyBuffer, 0)
    BY <2>1, <2>2 DEF BufferSorted, Sorted, SortedAcross
  <2>4. NoGap(EmptyBuffer, 0)
    BY <2>1 DEF NoGap
  <2>5. \A k \in QueueKinds : \A i \in 1 .. Len(EmptyBuffer.queue[k]) :
            Held(EmptyBuffer.queue[k][i], k, f, FALSE, {}, {})
    BY <2>1
  <2>6. Holding(EmptyBuffer, f, FALSE, {}, {}, 0)
    BY <2>3, <2>4, <2>5, <1>3, <1>4 DEF Holding
  <2>7. (s.phase = "ended") = FALSE
    BY <1>7
  <2> QED BY <2>6, <2>7, <1>7 DEF ServerBuffered
<1>10. ServerOK(s)
  BY <1>1, <1>5, <1>7, <1>8, <1>9 DEF ServerOK
<1> QED BY <1>10 DEF s

\* The invariant holds at the start.
LEMMA EndsBegin ==
    ASSUME Init
    PROVE  EndsHold
<1>1. /\ use \in Uses /\ page = NewPage /\ server = NewServer /\ wire = "down"
      /\ toPage = <<>> /\ toServer = <<>> /\ breaks = 0
  BY DEF Init
<1>2. PageOK(page) /\ ServerOK(server)
  BY <1>1, PageStartsWell, ServerStartsWell
<1>3. /\ page.phase = "open" /\ page.life = NewHandshake("page" \in use.slow)
      /\ page.sent = 0 /\ page.asked = {} /\ page.got = <<>> /\ page.out = <<>>
  BY <1>1 DEF NewPage
<1>4. /\ server.phase = "open" /\ server.life = NewHandshake("server" \in use.slow) /\ server.sent = 0
      /\ server.got = <<>> /\ server.out = <<>> /\ server.attached = FALSE
      /\ server.buf = EmptyBuffer /\ server.seq = 0 /\ server.asked = {}
  BY <1>1 DEF NewServer
<1>5. ~page.life.acked /\ ~page.life.fired /\ page.life.run = "none" /\ ~server.life.acked
      /\ ~server.life.fired /\ server.life.run = "none"
  BY <1>3, <1>4, NewRests
<1>6. \A i : ~Holds(server.buf, i)
  BY <1>4, EmptyBufferIs DEF Holds
<1>7. \A i : ~Heard(page, i)
  BY <1>3 DEF Heard
<1> DEFINE e == <<>>
<1>8. (\A t : ~Carries(e, t)) /\ (\A i : ~CarriesId(e, i)) /\ ~CarriesFinal(e) /\ Ordered(e)
  BY NoFrame
<1>9. Len(page.got) = 0 /\ Len(server.got) = 0
  BY <1>3, <1>4
<1>10. toPage = e /\ toServer = e
  BY <1>1
<1> HIDE DEF e
<1>11. ServerIsTold(page, server, e)
  BY <1>3, <1>8, <1>9 DEF ServerIsTold
<1>12. PageIsTold(page, server, e)
  BY <1>4, <1>6, <1>7, <1>8, <1>9 DEF PageIsTold
<1>13. PageCloseHolds(page, server, e) /\ ServerCloseHolds(page, server, e)
  BY <1>5, <1>8 DEF PageCloseHolds, ServerCloseHolds
<1>14. EndsAgree(page, server, toPage, toServer)
  BY <1>10, <1>11, <1>12, <1>13 DEF EndsAgree
<1>15. toPage \in Seq(ToPageFrames) /\ toServer \in Seq(ToServerFrames) /\ Len(toPage) <= server.seq
  <2>1. <<>> \in Seq(ToPageFrames) /\ <<>> \in Seq(ToServerFrames) /\ Len(<<>>) = 0
    BY EmptySeq
  <2> QED BY <2>1, <1>1, <1>4
<1>16. server.attached = (wire = "up" /\ server.phase # "ended")
  BY <1>1, <1>4
<1> QED BY <1>1, <1>2, <1>3, <1>4, <1>14, <1>15, <1>16 DEF EndsHold

-----------------------------------------------------------------------------
(* What the invariant says of the ends *)

\* The invariant says that a close keeps its deadline and leaves nothing waiting.
LEMMA EndsHoldClose ==
    ASSUME EndsHold
    PROVE  CloseHolds
<1>1. /\ PageOK(page) /\ ServerOK(server) /\ page.out = <<>> /\ server.out = <<>>
      /\ AtRest(page.life) /\ AtRest(server.life)
      /\ page \in PageRecs /\ server \in ServerRecs
  BY DEF EndsHold, PageOK, PageTyped, ServerOK, ServerTyped
<1>2. NoTime \in Nat /\ NoTime > 0
  BY TimesAre
<1>3. ASSUME NEW h, AtRest(h)
      PROVE  /\ h.run \in {"none", "due", "waiting", "done"}
             /\ h.left \in 0 .. NoTime /\ h.timer \in 0 .. NoTime
             /\ h.left = 0 => h.ended \/ h.run = "due" \/ h.timer = 0
  <2>1. h.run \in {"none", "due", "waiting", "done"} /\ h.left \in 0 .. NoTime /\ h.timer \in 0 .. NoTime
    BY <1>3 DEF AtRest, Handshakes, Runs, Times
  <2> QED BY <2>1, <1>2, <1>3 DEF AtRest
<1>4. DeadlineHolds
  BY <1>1, <1>3 DEF DeadlineHolds, Ends
<1>5. EndedAwaitsNothing
  <2>1. page.phase = "ended" => Pending(page) \cap page.asked = {}
    BY <1>1 DEF PageOK
  <2>2. /\ server.phase = "ended" => Pending(server) \cap server.asked = {}
        /\ server.released => Pending(server) = {}
    BY <1>1, EndedNone DEF ServerOK
  <2> QED BY <2>1, <2>2 DEF EndedAwaitsNothing, Ends
<1>6. TypeOK
  <2>1. \A e \in Ends : e.life.run \in {"none", "due", "waiting", "done"}
                        /\ e.life.left \in 0 .. NoTime /\ e.life.timer \in 0 .. NoTime
    BY <1>1, <1>3 DEF Ends
  <2>2. \A e \in Ends : /\ e.phase \in {"open", "closing", "ended"} /\ e.out = <<>>
                        /\ e.pendingAcks \subseteq e.asked /\ ((e.phase = "ended") = e.life.ended)
    <3>1. page.life.ended \in BOOLEAN /\ server.life.ended \in BOOLEAN
      BY <1>1 DEF AtRest, Handshakes
    <3>2. /\ page.phase \in {"open", "closing", "ended"} /\ page.out = <<>>
          /\ page.pendingAcks \subseteq page.asked /\ ((page.phase = "ended") = page.life.ended)
      BY <1>1, <3>1 DEF PageOK, PageTyped, PageRecs, Phases
    <3>3. /\ server.phase \in {"open", "closing", "ended"} /\ server.out = <<>>
          /\ server.pendingAcks \subseteq server.asked /\ ((server.phase = "ended") = server.life.ended)
      BY <1>1, <3>1 DEF ServerOK, ServerTyped, ServerRecs, Phases
    <3> QED BY <3>2, <3>3 DEF Ends
  <2>3. server.pageSeq \in 0 .. server.seq
    BY <1>1 DEF ServerOK, ServerTyped, ServerRecs
  <2>4. (server.attached => wire = "up" /\ server.phase # "ended") /\ wire \in {"up", "down", "over"}
    BY DEF EndsHold
  <2> QED BY <2>1, <2>2, <2>3, <2>4 DEF TypeOK
<1> QED BY <1>4, <1>5, <1>6 DEF CloseHolds

\* The invariant says that no message goes missing untold.
LEMMA EndsHoldTold ==
    ASSUME EndsHold
    PROVE  NothingGoesUntold
<1>1. /\ page.got \in Seq(ServerIds) /\ server.got \in Seq(PageIds) /\ page.sent \in Nat
      /\ server.sent \in Nat /\ ServerOK(server)
      /\ ServerIsTold(page, server, toServer) /\ PageIsTold(page, server, toPage)
      /\ PageCloseHolds(page, server, toPage) /\ ServerCloseHolds(page, server, toServer)
  BY StartsAre DEF EndsHold, EndsAgree
<1>2. \A i : i \in ToSet(page.got) <=> Heard(page, i)
  BY <1>1 DEF ToSet, Heard
<1>3. Len(server.got) \in Nat /\ DOMAIN server.got = 1 .. Len(server.got)
      /\ DOMAIN page.got = 1 .. Len(page.got)
      /\ \A i \in 1 .. Len(server.got) : server.got[i] = i
  BY <1>1 DEF ServerIsTold
<1>4. AckedCloseHasAll
  <2>1. ASSUME page.life.acked PROVE ToSet(server.got) = 1 .. page.sent
    <3>1. Len(server.got) = page.sent
      BY <1>1, <2>1 DEF PageCloseHolds
    <3> QED BY <3>1, <1>3 DEF ToSet
  <2>2. ASSUME server.life.acked, NEW i \in 1 .. server.sent
        PROVE  i \in ToSet(page.got) \/ server.promise[i] = "failed"
    BY <1>1, <1>2, <2>2 DEF ServerCloseHolds, Told
  <2> QED BY <2>1, <2>2 DEF AckedCloseHasAll
<1>5. GapsAreTold
  <2>1. \A i, j \in DOMAIN page.got : i < j => page.got[i] < page.got[j]
    BY <1>1, <1>3 DEF PageIsTold
  <2>2. ASSUME NEW i \in ServerIds, NEW j \in ToSet(page.got), i < j, i \notin ToSet(page.got)
        PROVE  server.promise[i] = "failed"
    <3>1. Heard(page, j) /\ ~Heard(page, i)
      BY <1>2, <2>2
    <3>2. j \in 1 .. server.sent
      BY <1>1, <3>1 DEF PageIsTold
    <3>3. i \in 1 .. Len(use.sends) /\ Len(use.sends) \in Nat
      BY IdsFinite DEF EndsHold
    <3>4. i \in 1 .. server.sent
      BY <1>1, <2>2, <3>2, <3>3
    <3> QED BY <1>1, <2>2, <3>1, <3>4 DEF PageIsTold, Told
  <2>3. server.got = [i \in 1 .. Len(server.got) |-> i]
    BY <1>1, <1>3
  <2> QED BY <2>1, <2>2, <2>3 DEF GapsAreTold
<1>6. BufferHasNoGap
  <2>1. SUFFICES ASSUME server.phase # "ended", NEW k \in QueueKinds, NEW x \in ToSet(server.buf.queue[k]),
                        NEW j \in x.id .. server.sent, use.sends[j].kind = k
                 PROVE  j \in {e.id : e \in ToSet(server.buf.queue[k])}
    BY DEF BufferHasNoGap
  <2>2. server.buf \in Buffers /\ NoGap(server.buf, server.sent)
    <3>1. Holding(server.buf, server.promise, server.phase = "ended", server.pendingAcks, server.asked, server.sent)
      BY <1>1 DEF ServerOK, ServerBuffered
    <3> QED BY <3>1, <2>1 DEF Holding
  <2>3. server.buf.queue[k] \in Seq(BufferEntries)
    BY <2>2 DEF Buffers
  <2> DEFINE q == server.buf.queue[k]
  <2>4. PICK i \in 1 .. Len(q) : q[i] = x
    BY <2>3 DEF ToSet
  <2>5. \E l \in 1 .. Len(q) : q[l].id = j
    BY <2>1, <2>2, <2>4 DEF NoGap
  <2>6. PICK l \in 1 .. Len(q) : q[l].id = j
    BY <2>5
  <2>7. q[l] \in ToSet(q)
    BY <2>3 DEF ToSet
  <2> QED BY <2>6, <2>7
<1> QED BY <1>4, <1>5, <1>6 DEF NothingGoesUntold

-----------------------------------------------------------------------------
(* The theorems *)

\* The ends hold what the invariant says of them, whatever use is made of the channel.
THEOREM EndsHolds == Spec => []EndsHold
<1>1. Init => EndsHold
  BY EndsBegin
<1>2. EndsHold /\ [Next]_vars => EndsHold'
  BY EndsStep DEF StepHolds
<1> QED BY <1>1, <1>2, PTL DEF Spec

\* A close ends at its deadline at the latest, and no send is left waiting behind it.
THEOREM CloseHeld == Spec => []CloseHolds
<1>1. EndsHold => CloseHolds
  BY EndsHoldClose
<1> QED BY <1>1, EndsHolds, PTL

\* An acknowledged close has all that was sent, and no message goes missing untold.
THEOREM NothingUntold == Spec => []NothingGoesUntold
<1>1. EndsHold => NothingGoesUntold
  BY EndsHoldTold
<1> QED BY <1>1, EndsHolds, PTL

\* An end that closed hears nothing more, and one that ends cleanly fails no ack request.
THEOREM EndsFinal == Spec => EndIsFinal
<1>1. EndsHold /\ [Next]_vars => [ClosedHearsNothing /\ CleanEndFailsNoAck]_vars
  BY EndsStep DEF StepHolds
<1> QED BY <1>1, EndsHolds, PTL DEF Spec, EndIsFinal
=============================================================================
