---------------------------- MODULE MCBroadcasts ------------------------------
(***************************************************************************)
(* Instances of the parts a broadcast is made of, for TLC: a behaviour is  *)
(* one of the adapter of one process, of a page's broadcast channel, of a  *)
(* Cloudflare key, or of a loop over messages, and leaves the others as    *)
(* they begin.                                                             *)
(***************************************************************************)
EXTENDS InMemoryBroadcast, PageBroadcast, CloudflareBroadcast, MessageLoop

VARIABLE part

\* The adapter: two listeners of one key, its drains and holds; of two keys and two kinds, whose
\* counters go with their last listener; a Worker; and a queue at its budget.
Text(key) == Place(key, "text")
Use == [listensTo |-> <<Text("k"), Text("k")>>, sizes |-> {1}, budget |-> 2, between |-> 2,
        worker |-> FALSE, publishes |-> 4, toggles |-> 2]
MCUses ==
    {Use,
     [Use EXCEPT !.listensTo = <<Text("k"), Text("j")>>, !.between = 9, !.toggles = 4, !.publishes = 3],
     [Use EXCEPT !.listensTo = <<Text("k"), Place("k", "binary")>>, !.between = 9, !.toggles = 3,
                 !.publishes = 3],
     [Use EXCEPT !.worker = TRUE, !.sizes = {1, 2}, !.toggles = 1],
     [Use EXCEPT !.between = 9, !.sizes = {1, 2}, !.publishes = 5, !.toggles = 1],
     [Use EXCEPT !.between = 3, !.sizes = {1, 2}, !.publishes = 5, !.toggles = 1]}

\* A page: subscriptions that change around a wire that breaks, with both kinds; with listeners of
\* the server and an abort; with more than the offline buffer holds; over three wires.
PublishOf(kind) == [kind |-> kind, bytes |-> 1]
APage == [messages |-> <<PublishOf("text"), PublishOf("binary"), PublishOf("text")>>,
          pageToggles |-> 3, serverToggles |-> 0, breaks |-> 1, aborts |-> 0]
MCPages ==
    {APage,
     [APage EXCEPT !.pageToggles = 2, !.serverToggles = 2, !.aborts = 1],
     [APage EXCEPT !.pageToggles = 1, !.messages = [i \in 1..3 |-> PublishOf("text")]],
     [APage EXCEPT !.pageToggles = 2, !.breaks = 2, !.messages = <<PublishOf("text")>>]}
MCBudgets == [k \in QueueKinds |-> 2]

\* Cloudflare: two owners around a flush; one owner that comes and goes with a write refused; an
\* authority that restarts and stubs that break; a buffer too small.
Own == [own |-> TRUE, bytes |-> 1]
Other == [own |-> FALSE, bytes |-> 1]
AnIsolate == [owners |-> <<"a">>, publishes |-> <<Own, Own>>, budget |-> 2, interval |-> FALSE,
              joins |-> 1, leaves |-> 0, refusals |-> 0, breaks |-> 0, restarts |-> 0]
MCIsolates ==
    {[AnIsolate EXCEPT !.owners = <<"a", "b">>, !.joins = 2, !.budget = 1],
     [AnIsolate EXCEPT !.owners = <<"a", "a">>, !.joins = 2, !.leaves = 2, !.refusals = 1,
                       !.publishes = <<Own>>, !.interval = TRUE],
     [AnIsolate EXCEPT !.publishes = <<Own, Other>>, !.breaks = 1, !.restarts = 1],
     [AnIsolate EXCEPT !.publishes = <<Other, Other, Other>>, !.breaks = 1],
     [AnIsolate EXCEPT !.publishes = <<Own, [Own EXCEPT !.bytes = 3]>>]}

\* A loop over a channel, and one over a broadcast that falls behind.
Arrival(type, size) == [type |-> type, size |-> size]
ALoop == [arrivals |-> <<Arrival("text", 1), Arrival("binary", 1), Arrival("text", 1), Arrival("text", 2)>>,
          budget |-> <<>>]
MCLoops == {ALoop, [ALoop EXCEPT !.budget = <<[t \in Types |-> 1]>>]}

Parts == {"adapter", "page", "cloudflare", "loop"}

\* The parts not run begin with any one of their plans.
Init ==
    /\ part \in Parts
    /\ AdapterInit /\ (part # "adapter" => use = CHOOSE u \in AdapterUses : TRUE)
    /\ BroadcastInit /\ (part # "page" => plan = CHOOSE p \in Pages : TRUE)
    /\ CloudflareInit /\ (part # "cloudflare" => cf = CHOOSE i \in Isolates : TRUE)
    /\ LoopInit /\ (part # "loop" => for = CHOOSE l \in Loops : TRUE)

Next ==
    /\ UNCHANGED part
    /\ \/ part = "adapter" /\ AdapterNext /\ UNCHANGED <<broadcastVars, cloudflareVars, loopVars>>
       \/ part = "page" /\ BroadcastNext /\ UNCHANGED <<adapterVars, cloudflareVars, loopVars>>
       \/ part = "cloudflare" /\ CloudflareNext /\ UNCHANGED <<adapterVars, broadcastVars, loopVars>>
       \/ part = "loop" /\ LoopNext /\ UNCHANGED <<adapterVars, broadcastVars, cloudflareVars>>

vars == <<part, adapterVars, broadcastVars, cloudflareVars, loopVars>>

\* The fairness of each part's FairSpec, in the behaviours that run it.
Fairness ==
    /\ WF_adapterVars(part = "adapter" /\ LoopStep)
    /\ WF_broadcastVars(part = "page" /\ WireStep)
    /\ WF_broadcastVars(part = "page" /\ ServerRegisters)
    /\ WF_cloudflareVars(part = "cloudflare" /\ PublishStep)
    /\ WF_cloudflareVars(part = "cloudflare" /\ Refresh)
    /\ WF_cloudflareVars(part = "cloudflare" /\ \E w \in writes : WriteEnds(w))
    /\ WF_loopVars(part = "loop" /\ (GoesOn \/ IsTold))
FairSpec == Init /\ [][Next]_vars /\ Fairness
===============================================================================
