----------------------------- MODULE PageBroadcast ----------------------------
(***************************************************************************)
(* A broadcast channel of a page and of its server                         *)
(* (client/ClientBroadcast.ts, server/ServerBroadcast.ts): the page's      *)
(* subscriptions, declared by RECONCILE and changed by SUB and UNSUB       *)
(* frames, which a dead wire loses; the server's subscription to the       *)
(* adapter; and what the adapter delivers, forwarded to a page that may be *)
(* away.                                                                   *)
(*                                                                         *)
(* A publish to the page is sequenced: of the sessions below, ChannelEnds  *)
(* and ReliableChannel say that it is replayed over a new wire.  A publish *)
(* of the page is an ack request, which ChannelEnds has.                   *)
(***************************************************************************)
EXTENDS OfflineBuffer

CONSTANTS
    Pages            \* what may happen, of which a behaviour follows one: a set of records with
                     \* the publishes, each with its kind and bytes (messages), and the bounds on
                     \* changes of the page's and of the server's subscriptions (pageToggles,
                     \* serverToggles), on wires that break (breaks) and on aborts (aborts)

ASSUME PagesAssumption ==
    \A p \in Pages : /\ {p.pageToggles, p.serverToggles, p.breaks, p.aborts} \subseteq Nat
                     /\ p.messages \in Seq([kind : QueueKinds, bytes : Nat])

VARIABLES
    plan,            \* which of Pages
    page, server,    \* the two ends
    wire,            \* "down", "joining" once the page's RECONCILE goes, "joined" once the server
                     \* read it, "dead" while the page doesn't know
    toServer, toPage,
    happened,        \* how much of the plan's bounds is used, and the publishes so far
    due              \* the publishes made while both ends had their kind subscribed, until the
                     \* page unsubscribes

broadcastVars == <<plan, page, server, wire, toServer, toPage, happened, due>>

NoKind == [k \in QueueKinds |-> FALSE]
SubFrame(kind, on) == [t |-> "SUB", kind |-> kind, on |-> on]
Reconcile(subs, lastSeq) == [t |-> "RECONCILE", subs |-> subs, lastSeq |-> lastSeq]
Reconciled(attached) == [t |-> "RECONCILED", attached |-> attached]
PublishFrame(id) == [t |-> "PUBLISH", id |-> id]
OnWire(f) == [t |-> "SEQ", frame |-> f.frame, seq |-> f.seq]

BroadcastInit ==
    /\ plan \in Pages
    /\ page = [subscribed |-> NoKind, open |-> FALSE, awaited |-> FALSE, held |-> <<>>,
               lastSeq |-> 0, ended |-> FALSE, heard |-> <<>>]
    /\ server = [registered |-> FALSE, attached |-> FALSE, ended |-> FALSE, awaited |-> <<>>,
                 peerSubscribed |-> NoKind, listens |-> NoKind, hears |-> NoKind,
                 replay |-> <<>>, buf |-> EmptyBuffer, owesEnd |-> FALSE]
    /\ wire = "down" /\ toServer = <<>> /\ toPage = <<>>
    /\ happened = [pageToggles |-> 0, serverToggles |-> 0, breaks |-> 0, aborts |-> 0, publishes |-> 0]
    /\ due = {}

Happens(what) ==
    /\ happened[what] < (IF what = "publishes" THEN Len(plan.messages) ELSE plan[what])
    /\ happened' = [happened EXCEPT ![what] = @ + 1]

Alive == wire \in {"joining", "joined"}
Written(to, frames) == IF Alive THEN to \o frames ELSE to

-----------------------------------------------------------------------------
(* The server's end: `sent` are the frames a step sends                     *)

\* Sequenced frames join the replay and go.
Sequenced(s, frames) ==
    [i \in DOMAIN frames |-> [frame |-> frames[i], seq |-> Len(s.replay) + i]]

\* unsubscribeUnusedBroadcasts
UnsubscribeUnused(s) ==
    [s EXCEPT !.hears = [k \in QueueKinds |-> @[k] /\ (s.peerSubscribed[k] \/ s.listens[k])]]

\* onPeerSubscription
PeerSubscription(s, kind, on) ==
    LET t == [s EXCEPT !.peerSubscribed[kind] = on]
    IN  IF on THEN [t EXCEPT !.hears[kind] = TRUE] ELSE UnsubscribeUnused(t)

\* shutdown
Ends(s) == [s EXCEPT !.ended = TRUE, !.attached = FALSE, !.hears = NoKind, !.listens = NoKind]

\* endWithError, or an abort: a page that is away gets the end as it attaches.
EndsWithError(s) ==
    IF s.attached THEN [server |-> Ends(s), sent |-> <<[t |-> "END"]>>]
    ELSE [server |-> Ends([s EXCEPT !.owesEnd = TRUE]), sent |-> <<>>]

\* Mutant: the buffer's drops go unsaid.
ForwardWithGaps(s, id) ==
    LET m == plan.messages[id]
    IN  IF s.attached THEN [server |-> s, sent |-> <<PublishFrame(id)>>]
        ELSE [server |-> [s EXCEPT !.buf = PushEntry(@, m.kind, id, FALSE, m.bytes)], sent |-> <<>>]

\* Mutant: a page that is away is forwarded nothing.
ForwardIfAttached(s, id) ==
    [server |-> s, sent |-> IF s.attached THEN <<PublishFrame(id)>> ELSE <<>>]

\* forwardPublish, closeIfDroppedOffline: a drop would leave the page a gap, so the channel ends.
Forward(s, id) ==
    LET m == plan.messages[id]
        b == PushEntry(s.buf, m.kind, id, FALSE, m.bytes)
    IN  IF s.attached THEN [server |-> s, sent |-> <<PublishFrame(id)>>]
        ELSE IF b.dropped = NoKind THEN [server |-> [s EXCEPT !.buf = b], sent |-> <<>>]
        ELSE EndsWithError([s EXCEPT !.buf = EmptyBuffer])

\* deliverBroadcastMessage, deliverBroadcastBinaryMessage
Delivered(s, id) ==
    IF s.peerSubscribed[plan.messages[id].kind] THEN Forward(s, id) ELSE [server |-> s, sent |-> <<>>]

\* _attachPeer, after the page's replay: what was held goes, then the subscriptions apply.
AttachPeer(s, subs) ==
    LET flushed == [i \in DOMAIN Flushed(s.buf) |-> PublishFrame(Flushed(s.buf)[i].id)]
        end     == IF s.owesEnd THEN <<[t |-> "END"]>> ELSE <<>>
        t       == [s EXCEPT !.buf = EmptyBuffer, !.owesEnd = FALSE, !.attached = ~s.ended]
    IN  [server |-> IF s.ended THEN t
                    ELSE PeerSubscription(PeerSubscription(t, "text", subs["text"]),
                                          "binary", subs["binary"]),
         sent   |-> flushed \o end]

\* A step of the server, which writes `first` and what `r` sends: to the wire it has, or to one
\* that is gone.
ServerDoes(r, first) ==
    \E frames \in {Sequenced(r.server, r.sent)} :
        /\ server' = [r.server EXCEPT !.replay = @ \o frames]
        /\ toPage' = IF wire' # "joined" THEN toPage
                      ELSE toPage \o first \o [i \in DOMAIN frames |-> OnWire(frames[i])]

-----------------------------------------------------------------------------
(* The server's steps                                                       *)

\* The response that carries the channel is made; the RECONCILE that awaited it attaches it.
ServerRegisters ==
    /\ ~server.registered /\ UNCHANGED wire
    /\ \E s \in {[server EXCEPT !.registered = TRUE, !.awaited = <<>>]} :
         ServerDoes(IF server.awaited = <<>> THEN [server |-> s, sent |-> <<>>]
                    ELSE AttachPeer(s, server.awaited[1].subs),
                    IF server.awaited = <<>> THEN <<>> ELSE <<[t |-> "ATTACH_RESULT"]>>)
    /\ UNCHANGED <<plan, page, toServer, happened, due>>

\* The RECONCILE of a wire: what the page lacks goes first.
TakesReconcile(f) ==
    LET lacks == [i \in 1 .. Len(server.replay) - f.lastSeq |-> OnWire(server.replay[f.lastSeq + i])]
    IN  IF server.registered THEN ServerDoes(AttachPeer(server, f.subs), <<Reconciled(TRUE)>> \o lacks)
        ELSE ServerDoes([server |-> [server EXCEPT !.awaited = <<f>>], sent |-> <<>>],
                        <<Reconciled(FALSE)>>)

ServerReads ==
    /\ Alive /\ toServer # <<>>
    /\ toServer' = Tail(toServer) /\ wire' = "joined"
    /\ \E f \in {Head(toServer)} :
         CASE f.t = "RECONCILE" -> TakesReconcile(f)
           [] f.t = "SUB" /\ server.ended -> UNCHANGED <<server, toPage>>
           [] OTHER -> ServerDoes([server |-> PeerSubscription(server, f.kind, f.on), sent |-> <<>>], <<>>)
    /\ UNCHANGED <<plan, page, happened, due>>

\* _onPeerDisconnect: the server notices a wire that died.
ServerNotices ==
    /\ wire # "joined" /\ (server.attached \/ server.awaited # <<>>)
    /\ server' = [server EXCEPT !.attached = FALSE, !.awaited = <<>>]
    /\ UNCHANGED <<plan, page, wire, toServer, toPage, happened, due>>

\* Its code subscribes or unsubscribes a listener; an ended channel is left alone.
ServerListens(kind) ==
    /\ ~server.ended /\ Happens("serverToggles")
    /\ server' = IF server.listens[kind] THEN UnsubscribeUnused([server EXCEPT !.listens[kind] = FALSE])
                 ELSE [server EXCEPT !.listens[kind] = TRUE, !.hears[kind] = TRUE]
    /\ UNCHANGED <<plan, page, wire, toServer, toPage, due>>

\* Its code aborts it, or a listener given a publish does.
ServerAborts ==
    /\ ~server.ended /\ Happens("aborts") /\ UNCHANGED wire
    /\ ServerDoes(EndsWithError(server), <<>>)
    /\ UNCHANGED <<plan, page, toServer, due>>

\* Anyone publishes to the key: the adapter delivers it to the channels subscribed.
AnyonePublishes ==
    LET id == happened.publishes + 1
        kind == plan.messages[id].kind
    IN  /\ Happens("publishes") /\ UNCHANGED wire
        /\ ServerDoes(IF server.hears[kind] THEN Delivered(server, id)
                      ELSE [server |-> server, sent |-> <<>>], <<>>)
        /\ due' = IF page.subscribed[kind] /\ server.peerSubscribed[kind] THEN due \cup {id} ELSE due
        /\ UNCHANGED <<plan, page, toServer>>

-----------------------------------------------------------------------------
(* The page's steps                                                         *)

\* setSubscribed, by the first listener or the last: SUB or UNSUB goes, or waits for the server.
PageSubscribes(kind) ==
    LET on == ~page.subscribed[kind]
        f  == SubFrame(kind, on)
    IN  /\ ~page.ended /\ Happens("pageToggles")
        /\ \E p \in {[page EXCEPT !.subscribed[kind] = on]} :
             IF page.open /\ ~page.awaited THEN page' = p /\ toServer' = Written(toServer, <<f>>)
             ELSE page' = [p EXCEPT !.held = Append(@, f)] /\ UNCHANGED toServer
        /\ due' = IF on THEN due ELSE {i \in due : plan.messages[i].kind # kind}
        /\ UNCHANGED <<plan, server, wire, toPage>>

\* dropSubscriptionFrames: what the RECONCILE declares supersedes them.
HeldAfterReconcile == <<>>

\* declareOpenEntries, ChannelAttach.state: the subscriptions as they are.
Declares == page.subscribed

PageReconciles ==
    /\ wire = "down" /\ ~page.ended
    /\ wire' = "joining"
    /\ toServer' = <<Reconcile(Declares, page.lastSeq)>> /\ toPage' = <<>>
    /\ page' = [page EXCEPT !.held = HeldAfterReconcile]
    /\ UNCHANGED <<plan, server, happened, due>>

\* What the gate holds goes once the server attached the channel.
PageReleases(p) == page' = [p EXCEPT !.held = <<>>] /\ toServer' = toServer \o p.held

\* A publish reaches the page's listeners once.
PageHears(f) ==
    LET isNew  == f.seq > page.lastSeq
        p      == [page EXCEPT !.lastSeq = f.seq]
    IN  /\ page' = IF ~isNew THEN page
                   ELSE IF f.frame.t = "END" THEN [p EXCEPT !.ended = TRUE]
                   ELSE IF page.subscribed[plan.messages[f.frame.id].kind]
                   THEN [p EXCEPT !.heard = Append(@, f.frame.id)]
                   ELSE p
        /\ UNCHANGED toServer

PageReads ==
    /\ Alive /\ ~page.ended /\ toPage # <<>>
    /\ toPage' = Tail(toPage)
    /\ \E f \in {Head(toPage)} :
         CASE f.t = "SEQ" -> PageHears(f)
           [] f.t = "RECONCILED" /\ ~f.attached ->
                page' = [page EXCEPT !.open = TRUE, !.awaited = TRUE] /\ UNCHANGED toServer
           [] OTHER -> PageReleases([page EXCEPT !.open = TRUE, !.awaited = FALSE])
    /\ UNCHANGED <<plan, server, wire, happened, due>>

\* A wire dies with what it carries; the ends notice later.
WireDies ==
    /\ Alive /\ Happens("breaks")
    /\ wire' = "dead" /\ toServer' = <<>> /\ toPage' = <<>>
    /\ UNCHANGED <<plan, page, server, due>>

PageNotices ==
    /\ wire = "dead"
    /\ wire' = "down" /\ page' = [page EXCEPT !.open = FALSE]
    /\ UNCHANGED <<plan, server, toServer, toPage, happened, due>>

-----------------------------------------------------------------------------
WireStep == ServerReads \/ ServerNotices \/ PageReads \/ PageReconciles \/ PageNotices

BroadcastNext ==
    \/ \E kind \in QueueKinds : PageSubscribes(kind) \/ ServerListens(kind)
    \/ ServerRegisters \/ ServerAborts \/ AnyonePublishes \/ WireDies
    \/ WireStep

BroadcastSpec == BroadcastInit /\ [][BroadcastNext]_broadcastVars

-----------------------------------------------------------------------------
(* Properties                                                               *)

\* The page hears publishes in the order they were made, each once, text and binary alike, and
\* misses none of those made while both ends had their kind subscribed, wherever it was meanwhile
\* (docs/pages/channel/+Page.mdx:323, "gets what it missed after reconnecting").
PageMissesNothing ==
    /\ \A i, j \in DOMAIN page.heard : i < j => page.heard[i] < page.heard[j]
    /\ \A i \in due, j \in ToSet(page.heard) : i < j => i \in ToSet(page.heard)

\* The channel hears its key from the adapter while its page or a listener of its own wants it,
\* and not after its end.
AdapterFollowsUse ==
    \A kind \in QueueKinds :
        server.hears[kind] = (~server.ended /\ (server.peerSubscribed[kind] \/ server.listens[kind]))

\* The page is served: it hears what it is due, from an adapter subscribed while it is wanted.
PageIsServed == PageMissesNothing /\ AdapterFollowsUse

\* Whatever frames are lost, the server comes to have the page's subscriptions.
ChannelOver == page.ended \/ server.ended
SubscriptionsAgree ==
    page.subscribed # server.peerSubscribed ~> page.subscribed = server.peerSubscribed \/ ChannelOver

\* A publish the page is due is heard, unless the channel ends, which the page hears of.
DuePublishesArrive ==
    ~(due \subseteq ToSet(page.heard)) ~> due \subseteq ToSet(page.heard) \/ page.ended
PageHearsOfTheEnd == server.ended ~> page.ended

\* Both ends come to agree: on the subscriptions, on what was heard, on the end.
PageSettles == SubscriptionsAgree /\ DuePublishesArrive /\ PageHearsOfTheEnd

\* Both ends read their wire, and the page gets itself a new one; the response is made.
BroadcastFairness == WF_broadcastVars(WireStep) /\ WF_broadcastVars(ServerRegisters)
BroadcastFairSpec == BroadcastSpec /\ BroadcastFairness
===============================================================================
