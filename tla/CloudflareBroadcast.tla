-------------------------- MODULE CloudflareBroadcast -------------------------
(***************************************************************************)
(* A broadcast key on Cloudflare (adapter/cloudflare/broadcast.ts): an     *)
(* isolate with the subscribers of some Durable Objects, whose presence it *)
(* records in KV; publishes of that isolate and of others; the key's       *)
(* authority, a Durable Object that numbers them one after the other; and  *)
(* the fan-out, from the authority to the coordinator of a location and    *)
(* from there to the Durable Objects present.                              *)
(*                                                                         *)
(* KV, storage and the RPC calls are Cloudflare's: KV is read as it was    *)
(* last written, a write may be refused, and writes of one record apply in *)
(* any order; a Durable Object that restarts keeps its storage and loses   *)
(* the calls it had in flight.  Text and binary go the same way.           *)
(***************************************************************************)
EXTENDS OrderedStubs, SequencesExt, FiniteSetsExt

CONSTANTS
    Isolates         \* what may happen, of which a behaviour follows one: a set of records with
                     \* the owner of each subscriber (owners), the publishes, each whether the
                     \* isolate's own (own) with its bytes, the bytes its buffer may hold (budget),
                     \* whether the interval that writes presences comes round (interval), and the
                     \* bounds on subscribes and unsubscribes (joins, leaves), on refused writes
                     \* (refusals), on stubs that break (breaks) and on restarts of the authority

ASSUME IsolatesAssumption ==
    \A i \in Isolates : /\ {i.budget, i.joins, i.leaves, i.refusals, i.breaks, i.restarts} \subseteq Nat
                        /\ i.publishes \in Seq([own : BOOLEAN, bytes : Nat])
                        /\ \A s \in DOMAIN i.owners : i.owners[s] # "coordinator"

VARIABLES
    cf,              \* which of Isolates
    isolate,         \* its subscribers and its MemberBucketState
    kv,              \* the owners with a presence
    writes,          \* the writes to KV on their way
    requests,        \* each publish
    authority,       \* the authority's state
    hops,            \* the calls of the authority to the coordinator, and of that to each owner
    ears,            \* the publishes each subscriber got, in order
    count            \* how much of the bounds is used

cloudflareVars == <<cf, isolate, kv, writes, requests, authority, hops, ears, count>>

Subscribers == DOMAIN cf.owners
Owners == {cf.owners[s] : s \in Subscribers}
CfPublishes == DOMAIN cf.publishes
Hops == {"coordinator"} \cup Owners

NoState == [exists |-> FALSE, setups |-> 0, owners |-> [o \in Owners |-> 0], refreshes |-> FALSE,
            queued |-> <<>>, flushing |-> FALSE]

CloudflareInit ==
    /\ cf \in Isolates
    /\ isolate = [subs |-> {}, member |-> NoState, run |-> 1, left |-> {}]
    /\ kv = {} /\ writes = {}
    \* wants: the owners that had subscribers in the isolate as it was published; quiet: with no
    \* flush under way; had: the owners whose presence was listed for it.
    /\ requests = [p \in CfPublishes |-> [at |-> "none", run |-> 0, direct |-> FALSE, seq |-> 0,
                                        number |-> "none", listed |-> FALSE,
                                        wants |-> {}, quiet |-> FALSE, had |-> {}]]
    /\ authority = [chain |-> <<>>, cache |-> 0, stored |-> 0, seen |-> 0]
    /\ hops = [h \in Hops |-> NoCalls]
    /\ ears = [s \in Subscribers |-> <<>>]
    /\ count = [joins |-> 0, leaves |-> 0, refusals |-> 0, breaks |-> 0, restarts |-> 0]

Counts(what) == count[what] < cf[what] /\ count' = [count EXCEPT ![what] = @ + 1]

-----------------------------------------------------------------------------
(* Presence: operators on the isolate's member state m                      *)

\* `n` tells the writes of one owner apart.
Write(op, owner, why, n) == [op |-> op, owner |-> owner, why |-> why, n |-> n]
Present(m) == {o \in Owners : m.owners[o] > 0}

\* Mutant: the state goes while a setup is in flight.
TearDownEarly(m, subs) == IF subs # {} \/ m.flushing THEN m ELSE NoState

\* teardownPresenceIfEmpty
TearDown(m, subs) == IF subs # {} \/ m.setups > 0 \/ m.flushing THEN m ELSE NoState

\* addSubscriber, ensurePresence: the first subscriber of an owner records its presence.
AddSubscriber(s) ==
    LET owner == cf.owners[s]
        first == isolate.member.owners[owner] = 0
    IN  /\ s \notin isolate.subs /\ Counts("joins")
        /\ isolate' = [isolate EXCEPT !.subs = @ \cup {s}, !.member.exists = TRUE,
                                      !.member.owners[owner] = @ + 1,
                                      !.member.setups = IF first THEN @ + 1 ELSE @]
        /\ writes' = IF first THEN writes \cup {Write("put", owner, "setup", count.joins)} ELSE writes
        /\ UNCHANGED <<cf, kv, requests, authority, hops, ears>>

\* releasePresence: the last one removes it.
RemoveSubscriber(s) ==
    LET owner == cf.owners[s]
        m     == [isolate.member EXCEPT !.owners[owner] = @ - 1]
        subs  == isolate.subs \ {s}
    IN  /\ s \in isolate.subs /\ Counts("leaves")
        /\ isolate' = [isolate EXCEPT !.subs = subs, !.member = TearDown(m, subs),
                                      !.left = IF m.owners[owner] = 0 THEN @ \cup {owner} ELSE @]
        /\ writes' = IF m.owners[owner] = 0
                     THEN writes \cup {Write("delete", owner, "release", count.leaves)}
                     ELSE writes
        /\ UNCHANGED <<cf, kv, requests, authority, hops, ears>>

\* A write reaches KV, or is refused, of which it only warns.
Applied(w, refused) ==
    IF refused THEN kv ELSE IF w.op = "put" THEN kv \cup {w.owner} ELSE kv \ {w.owner}

\* Its release may have deleted the presence before the put wrote it.
SetupRemoves(m, w) ==
    IF m.owners[w.owner] = 0 THEN {Write("delete", w.owner, "setup's", w.n)} ELSE {}

\* Mutant: the last setup sets no refresh.
SetupSetsNoRefresh(m, subs) ==
    LET done == [m EXCEPT !.setups = @ - 1]
    IN  IF done.setups > 0 THEN done
        ELSE IF done.queued # <<>> THEN [done EXCEPT !.flushing = TRUE] ELSE TearDown(done, subs)

\* initializePresence, past the put: the last setup to finish sets the refresh and flushes.
SetupDone(m, subs) ==
    LET done == [m EXCEPT !.setups = @ - 1]
    IN  IF done.setups > 0 THEN done
        ELSE IF done.queued # <<>> \/ done.flushing
        THEN [done EXCEPT !.refreshes = TRUE, !.flushing = TRUE]
        ELSE TearDown([done EXCEPT !.refreshes = TRUE], subs)

WriteEnds(w) ==
    /\ w \in writes
    /\ \/ count' = count /\ kv' = Applied(w, FALSE)
       \/ Counts("refusals") /\ kv' = Applied(w, TRUE)
    /\ IF w.why # "setup" THEN writes' = writes \ {w} /\ UNCHANGED isolate
       ELSE /\ writes' = (writes \ {w}) \cup SetupRemoves(isolate.member, w)
            /\ isolate' = [isolate EXCEPT !.member = SetupDone(@, isolate.subs)]
    /\ UNCHANGED <<cf, requests, authority, hops, ears>>

\* The interval writes every presence again.  Bound: the writes before have ended.
Refresh ==
    /\ cf.interval /\ isolate.member.refreshes /\ writes = {}
    /\ writes' = {Write("put", o, "refresh", 0) : o \in Present(isolate.member)}
    /\ UNCHANGED <<cf, isolate, kv, requests, authority, hops, ears, count>>

\* KV lets go of a presence not written for PRESENCE_TTL_SECONDS.
Expires(o) ==
    /\ o \in kv \ Present(isolate.member) /\ \A w \in writes : w.owner # o
    /\ kv' = kv \ {o}
    /\ UNCHANGED <<cf, isolate, writes, requests, authority, hops, ears, count>>

-----------------------------------------------------------------------------
(* Publishes of the isolate                                                 *)

\* A call to the authority: those of one run share a stub.
Called(r, run, direct) == [r EXCEPT !.at = "called", !.run = run, !.direct = direct]

BufferedBytes(queue) == FoldSet(LAMBDA i, sum : cf.publishes[queue[i]].bytes + sum, 0, DOMAIN queue)

\* admit, evict: the oldest go, or all where the new one is larger than the buffer.
Buffered(queue, p) ==
    LET grown   == Append(queue, p)
        Rest(n) == SubSeq(grown, n + 1, Len(grown))
    IN  Rest(Min({n \in 0 .. Len(grown) : BufferedBytes(Rest(n)) <= cf.budget}))

Rejected(rs, ps) == [p \in CfPublishes |-> IF p \in ps THEN [rs[p] EXCEPT !.at = "rejected"] ELSE rs[p]]

\* publish: while a presence is being written, or those that waited for one go, it waits.
MustBuffer(m) == m.exists /\ (m.setups > 0 \/ m.flushing)

Published(p) ==
    [requests EXCEPT ![p].at = "queued", ![p].wants = Present(isolate.member),
                     ![p].quiet = ~isolate.member.flushing]

\* It goes in the run of the publish before, or in a later one, whose stub getAuthorityStub opens anew.
IsolatePublishes(p) ==
    LET m    == isolate.member
        left == Buffered(m.queued, p)
        gone == (ToSet(m.queued) \cup {p}) \ ToSet(left)
    IN  /\ requests[p].at = "none" /\ cf.publishes[p].own
        /\ \A q \in CfPublishes : q < p => requests[q].at # "none"
        /\ IF MustBuffer(m) THEN /\ requests' = Rejected(Published(p), gone)
                               /\ isolate' = [isolate EXCEPT !.member.queued = left]
           ELSE \E run \in {isolate.run, isolate.run + 1} :
                   /\ isolate' = [isolate EXCEPT !.run = run]
                   /\ requests' = [Published(p) EXCEPT ![p] = Called(@, run, TRUE)]
        /\ UNCHANGED <<cf, kv, writes, authority, hops, ears, count>>

\* Another isolate's, without subscribers.
PublishElsewhere(p) ==
    /\ requests[p].at = "none" /\ ~cf.publishes[p].own
    /\ \A q \in CfPublishes : q < p => requests[q].at # "none"
    /\ requests' = [requests EXCEPT ![p] = Called(@, 0 - p, TRUE)]
    /\ UNCHANGED <<cf, isolate, kv, writes, authority, hops, ears, count>>

\* flush: one after the other, each once the one before was answered.
RunSending(rs) ==
    \E p \in CfPublishes : ~rs[p].direct /\ rs[p].at \notin {"none", "queued", "acked", "rejected"}

Flushes ==
    LET m == isolate.member
    IN  /\ m.flushing /\ ~RunSending(requests)
        /\ IF m.queued = <<>>
           THEN /\ isolate' = [isolate EXCEPT
                                  !.member = TearDown([@ EXCEPT !.flushing = FALSE], isolate.subs)]
                /\ UNCHANGED requests
           ELSE /\ isolate' = [isolate EXCEPT !.member.queued = Tail(@)]
                /\ requests' = [requests EXCEPT ![Head(m.queued)] = Called(@, 0 - Head(m.queued), FALSE)]
        /\ UNCHANGED <<cf, kv, writes, authority, hops, ears, count>>

-----------------------------------------------------------------------------
(* The authority (publishToSubscribers, not forwarded)                      *)

\* runInAuthorityChain
Chained(p) == authority.chain # <<>> /\ p = Head(authority.chain)

Arrives(p) ==
    /\ requests[p].at = "called"
    /\ \A q \in CfPublishes : q < p /\ requests[q].run = requests[p].run => requests[q].at # "called"
    /\ authority' = [authority EXCEPT !.chain = Append(@, p)]
    /\ requests' = [requests EXCEPT ![p].at = "chained"]
    /\ UNCHANGED <<cf, isolate, kv, writes, hops, ears, count>>

\* getNextKeySeq: the counter is read from storage unless cached,
ReadsSeq(p) ==
    /\ Chained(p) /\ requests[p].number = "none"
    /\ requests' = [requests EXCEPT ![p].number = "read",
                        ![p].seq = IF authority.cache > 0 THEN authority.cache ELSE authority.stored]
    /\ UNCHANGED <<cf, isolate, kv, writes, authority, hops, ears, count>>

\* cached as it is raised, and stored.
RaisesSeq(p) ==
    /\ requests[p].at = "chained" /\ requests[p].number = "read"
    /\ requests' = [requests EXCEPT ![p].number = "raised", ![p].seq = @ + 1]
    /\ authority' = [authority EXCEPT !.cache = requests[p].seq + 1]
    /\ UNCHANGED <<cf, isolate, kv, writes, hops, ears, count>>

StoresSeq(p) ==
    /\ requests[p].at = "chained" /\ requests[p].number = "raised"
    /\ requests' = [requests EXCEPT ![p].number = "stored"]
    /\ authority' = [authority EXCEPT !.stored = requests[p].seq]
    /\ UNCHANGED <<cf, isolate, kv, writes, hops, ears, count>>

\* listPresenceByBucket, meanwhile.
Lists(p) ==
    /\ Chained(p) /\ ~requests[p].listed
    /\ requests' = [requests EXCEPT ![p].listed = TRUE, ![p].had = kv]
    /\ UNCHANGED <<cf, isolate, kv, writes, authority, hops, ears, count>>

\* It leaves the chain as its task ends.
Unchained == Tail(authority.chain)

\* KV can't be read: the publish rejects, its seq unused.  Bound: once its seq was stored.
ListFails(p) ==
    /\ Chained(p) /\ ~requests[p].listed /\ requests[p].number = "stored" /\ Counts("refusals")
    /\ authority' = [authority EXCEPT !.chain = Unchained]
    /\ requests' = Rejected(requests, {p})
    /\ UNCHANGED <<cf, isolate, kv, writes, hops, ears>>

\* The next one runs as this one calls the coordinator.
FansOut(p) ==
    /\ requests[p].at = "chained" /\ requests[p].number = "stored" /\ requests[p].listed
    /\ authority' = [authority EXCEPT !.chain = Unchained]
    /\ requests' = [requests EXCEPT ![p].at = IF requests[p].had = {} THEN "acked" ELSE "fanned"]
    /\ hops' = IF requests[p].had = {} THEN hops ELSE [hops EXCEPT !["coordinator"] = Call(@, p)]
    /\ UNCHANGED <<cf, isolate, kv, writes, ears, count>>

\* The authority restarts: what it was doing rejects, what its calls had not handed over is lost.
Lost == {p \in CfPublishes : requests[p].at \in {"chained", "fanned"}}
AuthorityRestarts ==
    /\ Lost # {} /\ Counts("restarts")
    /\ authority' = [authority EXCEPT !.chain = <<>>, !.cache = 0]
    /\ requests' = Rejected(requests, Lost)
    /\ hops' = [hops EXCEPT !["coordinator"] = NoCalls]
    /\ UNCHANGED <<cf, isolate, kv, writes, ears>>

-----------------------------------------------------------------------------
(* The fan-out                                                              *)

\* A call settled: its publish is acknowledged, or rejected once any call for it was.
Answered(rs, p, ok) ==
    IF rs[p].at # "fanned" THEN rs ELSE [rs EXCEPT ![p].at = IF ok THEN "acked" ELSE "rejected"]

HopUnchanged == UNCHANGED <<cf, isolate, kv, writes, authority>>

\* The coordinator takes a call (forwarded) and calls the owners listed.
CoordinatorTakes ==
    \E i \in MayTake(hops["coordinator"]) :
        LET p == hops["coordinator"].calls[i].id
        IN  /\ hops' = [h \in Hops |->
                 IF h = "coordinator" THEN Take(hops[h], i)
                 ELSE IF h \in requests[p].had THEN Call(hops[h], p) ELSE hops[h]]
            /\ HopUnchanged /\ UNCHANGED <<requests, ears, count>>

\* deliverToLocal, deliverToOwned: to the subscribers there of the owner called.
OwnerTakes(o) ==
    \E i \in MayTake(hops[o]) :
        /\ hops' = [hops EXCEPT ![o] = Settle(Take(@, i), i, TRUE)]
        /\ ears' = [s \in Subscribers |->
                       IF s \in isolate.subs /\ cf.owners[s] = o THEN Append(ears[s], hops[o].calls[i].id)
                       ELSE ears[s]]
        /\ HopUnchanged /\ UNCHANGED <<requests, count>>

\* The coordinator answers once its calls settled.
ToOwners(p) == {c \in UNION {{<<o, i>> : i \in DOMAIN hops[o].calls} : o \in Owners} :
                   hops[c[1]].calls[c[2]].id = p}
CoordinatorAnswers ==
    \E i \in DOMAIN hops["coordinator"].calls :
        LET call == hops["coordinator"].calls[i]
        IN  /\ call.at = "taken" /\ ~hops["coordinator"].stubs[call.stub].broken
            /\ \A c \in ToOwners(call.id) : hops[c[1]].calls[c[2]].at = "done"
            /\ hops' = [hops EXCEPT !["coordinator"] = Settle(@, i, TRUE)]
            /\ requests' = Answered(requests, call.id, TRUE)
            /\ HopUnchanged /\ UNCHANGED <<ears, count>>

StubBreaks(h) ==
    /\ Counts("breaks")
    /\ \E n \in MayBreak(hops[h]) : hops' = [hops EXCEPT ![h] = Break(@, n)]
    /\ HopUnchanged /\ UNCHANGED <<requests, ears>>

\* A call rejects; an owner's fails the coordinator's too, at once.
CallRejects(h) ==
    \E i \in MayReject(hops[h]) :
        LET p     == hops[h].calls[i].id
            outer == {j \in DOMAIN hops["coordinator"].calls :
                         /\ hops["coordinator"].calls[j].id = p
                         /\ hops["coordinator"].calls[j].at = "taken"}
        IN  /\ hops' = [g \in Hops |->
                 IF g = h THEN Settle(hops[g], i, FALSE)
                 ELSE IF g = "coordinator" /\ outer # {} THEN Settle(hops[g], Max(outer), FALSE)
                 ELSE hops[g]]
            /\ requests' = Answered(requests, p, FALSE)
            /\ HopUnchanged /\ UNCHANGED <<ears, count>>

Resumes(h) ==
    /\ MayResume(hops[h]) # {} /\ hops' = [hops EXCEPT ![h] = ResumeCall(@)]
    /\ HopUnchanged /\ UNCHANGED <<requests, ears, count>>

-----------------------------------------------------------------------------
AuthorityStep(p) ==
    Arrives(p) \/ ReadsSeq(p) \/ RaisesSeq(p) \/ StoresSeq(p) \/ Lists(p) \/ FansOut(p)
HopStep(h) == CallRejects(h) \/ Resumes(h) \/ (h # "coordinator" /\ OwnerTakes(h))
PublishStep ==
    \/ Flushes \/ CoordinatorTakes \/ CoordinatorAnswers
    \/ \E p \in CfPublishes : AuthorityStep(p)
    \/ \E h \in Hops : HopStep(h)

CloudflareNext ==
    \/ \E s \in Subscribers : AddSubscriber(s) \/ RemoveSubscriber(s)
    \/ \E w \in writes : WriteEnds(w)
    \/ Refresh \/ AuthorityRestarts
    \/ \E o \in Owners : Expires(o)
    \/ \E p \in CfPublishes : IsolatePublishes(p) \/ PublishElsewhere(p) \/ ListFails(p)
    \/ \E h \in Hops : StubBreaks(h)
    \/ PublishStep

CloudflareSpec == CloudflareInit /\ [][CloudflareNext]_cloudflareVars

-----------------------------------------------------------------------------
(* Properties                                                               *)

\* A subscriber gets publishes in the order of their seqs, each once, and no two publishes have
\* the same seq: whichever calls fail, and whatever the authority forgot as it restarted
\* (docs/pages/channel/+Page.mdx:321).
SubscribersHearBySeq ==
    \A s \in Subscribers : \A i, j \in DOMAIN ears[s] :
        i < j => requests[ears[s][i]].seq < requests[ears[s][j]].seq

\* The isolate's publishes of one run are numbered in the order it made them (authorityStubsOfThisRun),
\* and one that waited for a presence before every later one.
RunsKeepOrder ==
    \A p, q \in CfPublishes :
        /\ p < q /\ cf.publishes[p].own /\ cf.publishes[q].own
        /\ ~requests[p].direct \/ requests[p].run = requests[q].run
        /\ requests[p].number = "stored" /\ requests[q].number = "stored"
        => requests[p].seq < requests[q].seq

\* A key's publishes are in one order: as heard, and of each run as made.
PublishOrderHolds == SubscribersHearBySeq /\ RunsKeepOrder

\* setupsInFlight: a publish waits for the presences being written, so that it reaches the owners
\* that had subscribers here as it was made.
Reaches(p) == requests[p].listed => requests[p].wants \ isolate.left \subseteq requests[p].had
OwnSubscribersHear == count.refusals = 0 => \A p \in CfPublishes : Reaches(p)

\* It does where no flush was under way as it was made.
OwnSubscribersHearQuietly ==
    count.refusals = 0 => \A p \in CfPublishes : requests[p].quiet => Reaches(p)

\* The state of a key goes with its last subscriber, setup and flush, and what waits is waited for.
StateIsUsed ==
    LET m == isolate.member
    IN  /\ m.exists => isolate.subs # {} \/ m.setups > 0 \/ m.flushing
        /\ m.queued # <<>> => m.setups > 0 \/ m.flushing
        /\ m.setups = Cardinality({w \in writes : w.why = "setup"})

\* The state a Durable Object keeps of a key: it outlives what uses it, and holds publishes back
\* for the presences being written.
KeyStateHolds == OwnSubscribersHearQuietly /\ StateIsUsed

\* An owner with subscribers comes to be present, whatever order its writes apply in.
Absent == \E o \in Owners : isolate.member.owners[o] > 0 /\ o \notin kv
PresenceFollows == Absent ~> ~Absent

\* A publish is answered.
Unanswered == \E p \in CfPublishes : requests[p].at \notin {"none", "acked", "rejected"}
PublishesAreAnswered == Unanswered ~> ~Unanswered

\* Presences and publishes settle, whatever failed before.
CloudflareSettles == PresenceFollows /\ PublishesAreAnswered

\* Writes, calls and the interval end or come round.
CloudflareFairness ==
    /\ WF_cloudflareVars(PublishStep)
    /\ WF_cloudflareVars(Refresh) /\ WF_cloudflareVars(\E w \in writes : WriteEnds(w))
CloudflareFairSpec == CloudflareSpec /\ CloudflareFairness
===============================================================================
