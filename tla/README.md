# Telefunc channels in TLA+

Telefunc lets a page call functions of its server and pass *channels* in both directions: bidirectional message
streams that survive the loss of the connection under them. This project models that wire protocol (the packages'
`wire-protocol/`), checks it with TLC and proves some of its parts with TLAPS. Paths below are relative to
`src/packages/telefunc/wire-protocol/channel/` unless they say otherwise.

## The system

A page has one *connection* per session URL. It carries every channel of the page over one *wire* at a time (a WebSocket,
or an SSE stream with POSTs beside it). Wires break; the next one carries on. Both ends of a channel number what they
send, keep it until the other end acknowledges it, and send it again after a reconnect.

| Component | State | Operations | Where |
| --- | --- | --- | --- |
| Replay buffer | seqs issued, pushed and acknowledged; a byte budget and queue per kind; a lowering that waits | nextSeq, push, acknowledge, setLimits, getAfter, dispose | `ReplayBuffer.ts` |
| Channel table | a record per channel: pending, open or closed; last seq received; awaited, undeclared, reported | add, open, unregister, release, serverHas | `client/ChannelTable.ts` |
| Send gate | frames held for a RECONCILED or an ATTACH_RESULT; frames waiting for headroom | send, drain, sendWaiting, settleQueue, release | `client/SendGate.ts` |
| Attach exchange | the session, the RECONCILE in flight, early ATTACH_RESULTs | buildReconcileFrame, applyReconciled, handleAttachResult, replayTo, loseChannel | `client/AttachExchange.ts` |
| Liveness | the heartbeat | buildPing, onPong | `client/Liveness.ts`, `client/Heartbeat.ts` |
| Wire lifecycle | fresh, open, reconnecting or closed; timers | register, onTransportOpen/Closed/Frame, dropWire, dispose | `client/WireLifecycle.ts`, `client/WsTransport.ts` |
| Client channel | open or ended; what it sent and received | send, abort, close; listeners | `client/ClientChannel.ts` |
| Server channel | phase, peer, two timers, offline buffer, pending end | attach, disconnect, sendData, abort, shutdown | `server/ServerChannel.ts` |
| Mux and sessions | sessions and their channels; which wire holds a session; per-wire receive chain | RECONCILE, registerChannel, PING, onWireClosed | `server/ChannelMux.ts`, `server/SessionRegistry.ts` |
| Awaited channels | frames held for a channel not registered yet; waits | attach, settle, expire | `server/AwaitedChannels.ts`, `server/RegistrationWaits.ts` |
| Ended channels | a release timer per ended channel | keep, release | `server/EndedChannels.ts` |
| Offline buffer | what a channel sent while no page was attached, in two budgets | push, flush, clear | `server/ServerChannelBuffer.ts` |
| Close handshake | CLOSE sent/received, acks in flight, deadline | close, peerCloseReceived, runUntilEnded | `ChannelLifecycle.ts` |
| SSE wire | outbox, the upload and its acknowledgement, batch POSTs | open, flush, acknowledge, fall back | `client/SseTransport.ts`, `server/sse.ts` |
| Upgrade | probe, stage, barrier, join | attempt, flip, releaseJoin, commit | `client/Upgrade.ts`, `server/UpgradeStages.ts` |
| Credit | limits, bytes in flight, waiters and their turn | decrement, onPeerByteWindow, releaseOne, passTurnOn | `../flowControl/SendCredit.ts`, `ReceiveCredit.ts` |
| Pieces, headroom | what is cut, gathered, announced, acknowledged and held back | send, receive, onAck | `../flowControl/pieces.ts`, `client/ClientHeadroom.ts`, `server/ServerHeadroom.ts` |
| Message loop | a queue of messages with its bytes, the body's message | next, receive, checkBehind, finish | `channelMessages.ts` |
| In-memory broadcast | per-key seqs, subscribers, publishes held for a turn | publish, subscribe, drainQueued | `../broadcast/broadcastAdapter.ts` |
| Broadcast channel | subscriptions of the page and of the server's listeners | subscribe, onPeerSubscription, forwardPublish | `client/ClientBroadcast.ts`, `server/ServerBroadcast.ts` |
| Cloudflare adapter | presences in KV, a publish buffer, an authority's seqs, lines of stubs | subscribe, publish, refresh, number, fan out | `../adapter/cloudflare/` |
| Redis adapter | listeners; SUBSCRIBEs pending and failed; publishes that wait | listen, listenBinary, send, sendBinary, settleSubscribe, onMessage | `src/packages/redis/src/index.ts` |

How they interact: a channel's send takes a seq from its replay buffer and goes through the gate to the wire, which stores
it in the buffer as it takes it. A new wire starts with a RECONCILE that names the channels and what the page received of
each; the server moves them to the wire, replays what the page lacks and answers with a RECONCILED that says what *it*
received; the page then replays in turn and lets its held sends go. A channel the server has not registered yet (its
request is still running) is *awaited*: its frames are held, and an ATTACH_RESULT follows once it registers or its wait
expires. PINGs name the channels the page closed, so the server can let them go; WINDOWs acknowledge.

Broadcasts of several servers go over Redis: one connection publishes, another subscribes. Nothing orders the two, so a
publish waits until Redis acknowledged every SUBSCRIBE sent before it, while listeners come, go and come back.

What is hard here: the page, the server and the request that registers a channel run concurrently; every handler may
meet a wire its peer has already lost, dropped or replaced; each end learns of a close on its own; replays, held frames,
frames waiting for headroom and new sends share one seq order; timers end channels on both sides; and what is kept for a
page that may come back must also go away.

`PROJECT.json` lists every component, those not modelled too, and the hazards with the line where each bites.

## Modules

| Module | Models | Extends |
| --- | --- | --- |
| `ReplayBuffer` | the replay buffer, one operator per method | |
| `ReplayedSends` | one buffer in use: sends, the gate, acknowledgements, resizes, a loss, a release | `ReplayBuffer` |
| `SessionWires` | the wires between page and server, one after another | `ReplayBuffer` |
| `PageSession` | the page: channel table, gate, attach exchange, liveness, wire lifecycle | `SessionWires` |
| `ServerSession` | the server: mux, sessions, channels, awaited and ended channels | `SessionWires` |
| `ChannelSession` | both composed, one action per handler; faults, properties, fairness | `PageSession`, `ServerSession` |
| `ReliableChannel` | abstract: what a channel promises its application | |
| `OfflineBuffer` | what a server channel sends while no page is attached, one operator per method | |
| `CloseHandshake` | the close of one end (`ChannelLifecycle.ts`), one operator per function | |
| `ChannelEnds` | both ends of a channel: messages, acks, answers, closes, aborts | `OfflineBuffer`, `CloseHandshake` |
| `MessageLoop` | a `for await` over a channel's messages | `Sums` |
| `CreditFlow` | the credit of one direction, with tasks that send and wait for their turn | |
| `FramePieces` | what a WebSocket's frames go through, at both its ends | |
| `UpgradeHandoff` | a page's move from SSE to a WebSocket | |
| `SseUploads` | what an SSE page uploads | |
| `InMemoryBroadcast` | the broadcast adapter of one process | `Sums` |
| `PageBroadcast` | a broadcast channel of a page and its server | `OfflineBuffer` |
| `OrderedStubs`, `CloudflareBroadcast` | a key of the Cloudflare adapter | |
| `RedisTransport` | the Redis adapter of a server, with its two connections | |
| `Sums` | the sum of a sequence, as a recursive function | |
| `SumsProofs`, `OfflineBufferProofs` | lemmas the proofs below share: induction over the naturals and over a sequence's sum; what the offline buffer's operators do | `Sums`; `OfflineBuffer` |
| `SendersProofs` | proofs about what bounds a sender | `ReplayedSends`, `CreditFlow` |
| `BroadcastsProofs` | proofs about how a broadcast is listened to | `InMemoryBroadcast`, `MessageLoop`, `PageBroadcast` |
| `TransportsProofs` | proofs about two transports: what keeps their order | `RedisTransport`, `SseUploads` |
| `ChannelEndsProofs`, `CloudflareBroadcastProofs`, `ReliableChannelProofs` | proofs about the module each is named for | that module |
| `MCReplayedSends`, `MCCreditFlow`, `MCFramePieces` | constants of the three for TLC | that module |
| `MCChannelSession`, `MCChannelEnds`, `MCCloudflareSetup` | constants for TLC | that module |
| `MCCredit`, `MCBroadcasts`, `MCTransports` | several independent modules in one run: a behaviour is one of one of them (`part`) and leaves the others as they begin | three or four modules |

`ChannelSession` is the composition everything rests on. The others take from it, or from `ReliableChannel`, what a session
gives: frames of a channel arrive once and in order, over wires that break, until an end lets go. So `ChannelEnds` and
`PageBroadcast` need no replay buffer of both ends, and `CreditFlow` no RECONCILE but what it repairs.

### How state and actions correspond to the code

**ReplayBuffer.** A buffer is a record with the class's fields. The per-kind queues with parallel arrays become one set of
entries; `FromOn` and `Trim` say what evicting the oldest entries of a kind while it is over budget leaves. `HasAfter` and
`FramesAfter` are the two outcomes of `getAfter`: the count it decides by, and the frames it returns.

**PageSession, ServerSession.** The page is one record `page`, the server one record `server`, and each handler is an operator
from record to record that collects what it sends (`p.out`, `s.out` per wire); the actions of `ChannelSession` put that on
the wires. So a handler is atomic, as JavaScript's are between awaits. Where the code does await, the model has a step:

- a RECONCILE's handler ends in `reply` and the RECONCILED goes in a later step (`ServerReplies`), with each `lastSeq` read
  as it goes out (`sendReconciled`);
- an awaited channel's *settle* runs at the end of its wire's receive chain (`ahead` counts the frames before it), so
  frames that arrive meanwhile join those held;
- the frames of a wire are handled in order; a PING skips them, as does the close.

| Action | Handler |
| --- | --- |
| `PageRegisters`, `RegisterTimer` | `WireLifecycle.register`, `onReconcileDue` |
| `WireOpens`, `ConnectFails`, `PageSeesClose`, `PageDropsWire`, `ReconnectTimer` | `onTransportOpen`, `onTransportClosed`, `ws.onclose`, `dropWire`, `enterReconnecting` |
| `PageReads` | `dispatchFrame` with each frame's handler |
| `PageSendsData`, `PageAborts`, `WireHeadroom`, `PageAcknowledges`, `PagePings` | `sendSequenced`, `abort`, `onTransportHeadroom`, `ReceiveCredit.acknowledge`, `buildPing` |
| `IdleTimer`, `PageLeaves` | `disposeOnceDrained`, `onPageHide` |
| `ServerRegisters` | `registerChannel`, with every wait it settles |
| `ServerReads`, `ServerReadsPing`, `ServerReplies`, `ServerSettles` | `handleFrame`, `answerPing`, `sendReconciled`, `dispatchHeld` |
| `ServerSeesClose`, `ServerSeesPageLeave` | `onWireClosed` transient, permanent |
| `ServerSendsData`, `ServerAborts`, `ServerAcknowledges` | `sendData`, `abort`, `ReceiveCredit.acknowledge` |
| `ChannelTimesOut`, `KeptTimesOut`, `AwaitTimesOut` | the `connectTtl`/`reconnectTimeout` timers, `EndedChannels`, `RegistrationWaits` |

Abstractions, all on the side of more behaviours unless noted:

- A message is its seq; every frame has one byte, so a budget counts frames.
- A session is named by the wire it was made on: a RECONCILE makes a session unless its wire has the one it names
  (`ChannelMux.ts:614`), and `ProtocolIsKept` checks that no wire is ever asked to make two.
- A WINDOW may go whenever something arrived since the last; credit decides when in the code. A held WINDOW is not queued.
- A PING goes only while some channel is closed (it would name none otherwise), one at a time; this bound leaves out beats
  that change nothing.
- `wires` is reliable and in order until an end closes. A close the page sends behind its frames (`PAGE_LEFT`) overtakes the
  frames waiting for their handlers only where a plan has timeouts (an idle page's comes long after them).
- A failed connection attempt reuses its wire number, so a plan's `wires = breaks + 1` bounds nothing else.
- `IdleTimer` needs a wire the server has not closed and no RECONCILE in flight: its delay is longer than the deadlines that
  would have dropped the wire.
- A plan with `lateReconciles = FALSE` leaves out that the server handles the RECONCILE of a dropped wire after the next
  wire's. That case is the run `late_reconcile`, where it breaks a promise; the other runs show what holds without it.

**ReliableChannel.** Per channel two ends, each `new`, `open` or `ended`. An end gets a prefix of what the other sent; it hears an
abort only after everything the other sent; it may fail only where `MayFail`; and it hears LOST only from an end that
ended. `ChannelSession` maps `page.app` and `server.chan` to it and checks `Promise!Spec` as a temporal property
(`ReliableChannels`): every step of the protocol, whatever it does to wires, sessions and replays, is a step of two reliable
ends or a stutter.

**OfflineBuffer, CloseHandshake, ChannelEnds.** An end has its handshake `life` (the fields of `ChannelLifecycle`), the promises of
what it sent, and the acks it owes and awaits. `run` is `runUntilEnded`: one pass of its loop is `Run`, and a microtask
between a wake and the pass is a step (`PageRuns`, `ServerRuns`). Time is `Tick`, which waits until what is due was done. The
server's end adds the offline buffer, what it owes a page not attached (`ackRes`, `pendingEnd`) and how much of its frames the
page has (`pageSeq`), which decide whether an ended channel is kept (`PageNeedsNothing`). `Flushed` merges the two queues as
`flush` does, by the order of the pushes; `Merged` counts the text among the first n.

**CreditFlow.** `sc` is `SendCredit`, `rc` `ReceiveCredit` with its estimator; grants travel modulo `Modulus`. A task sends, waits
or is done; `SettleTurns` is what a call of `SendCredit` does to the promises of waiters. When the estimator grows a window,
and when a probe is opened, are choices: rates are not modelled.

**FramePieces.** An end is a `PieceSender` and a `PieceReceiver`; the socket carries messages of frames. Rates and the time they
need are fields of a plan (what a rate lets go whole, and at least) or steps (`Drains`). A RECONCILED, which gives the page a least
rate (`Answered`), comes only after the server got a frame.

**MessageLoop.** `loop` is the generator's locals, `source` the channel under it. `GoesOn` is one run of the loop between awaits,
`Checks` the macrotask that compares what is held with the budget, `IsTold` `observeClose`.

**UpgradeHandoff, SseUploads.** Handlers are operators on the page's record as in `PageSession`; the continuation of an awaited
promise runs with what settles it. `hw` and `un` are the wires and the POSTs of each, and what is on its way on them. Credit,
heartbeats, `pagehide`, entries a RECONCILED leaves out and server refusals are not in them; neither is the order in which a batch
POST whose wire closes while it is read is answered. The code aborts a wire given up with the next RECONCILED or the next wire given
up, as `CloseAbandoned` does, and sooner where its open answers (`SseTransport.ts:298`) or its upload's race settles (`:319`) after it
was given up. The sooner aborts are no steps of their own: until the later one the requests of that wire may hang, be cut or be
read, which are the outcomes an abort has.

**InMemoryBroadcast.** `turn` is the synchronous run of the code: the delivery under way, the listener it called last, and what is
left of a drain; whatever that listener calls happens within the turn. `holdSoon`, `holding` and `timers` are the microtask and
the timers of `holdInMemory`.

**PageBroadcast.** The page's subscriptions go by RECONCILE and by SUB and UNSUB frames, which no replay has. The replay is the list of
what the server sent; a wire that joins carries what the page lacks of it. `due` are the publishes made while both ends had their
kind subscribed: those the page must hear.

**CloudflareBroadcast, OrderedStubs.** One key: an isolate's member state with its presences in KV, the buffer of publishes that wait
for one, the authority that numbers, stores and fans out, and lines of stubs (`OrderedStubs`). KV, storage and RPC are
Cloudflare's and marked external. `Hops` are the owners and the coordinator, so no owner is named that (assumed). Text and binary go the same way; which authority bucket a key has is left out. `ListFails`
stands once per publish for a list that fails.

**RedisTransport.** An `async` function goes on in a microtask once what it awaits settled, and other calls may come first; so a
publish is `Publish` up to its wait and `Resume` or `ResumeRejected` after it, and an answer read by `ReadReply` reaches
`SettleSubscribe` in a step of its own.

| State or action | Code |
| --- | --- |
| `listener` | `textCallbacks`, `binaryCallbacks`; a listener has the number of its SUBSCRIBE |
| `subscribing`, `failed`, `waiters` | `subscribing` (its `order`), `failedSubscribes`, `waiters` |
| `resuming`, `rejected` | publishes counted by `waiting` that left `waiters` |
| `Listen`, `Unlisten`, `Publish`, `SettleSubscribe` | `listen` and `listenBinary`, what they return, `send` and `sendBinary`, `settleSubscribe` |
| `Wake`, `Rejects` | `releaseWaiters`, the loop over a failed SUBSCRIBE's waiters; each as what it leaves, not as a loop |
| `RedisSubscribes`, `RedisPublishes` | Redis (external): serves each connection's commands in their order; may fail one |

A key's text and binary are two channels. A Redis Cluster, which serves keys on different nodes, is not modelled: order
between keys is claimed of one Redis. The seq of a message is its place in the log. Left out: how a frame encodes seq and
timestamp, the commands ioredis repeats by itself, and lost connections.

## Runs

| Run | Bounds | Shows |
| --- | --- | --- |
| `sending` | 2 channels, or 1 with up to 3 + 2 messages; 2 or 3 wires, 1 or 2 faults; aborts; 0 or 1 frames per step | `ExchangeHolds`, `QueuedInOrder`, `ReliableChannels` |
| `ending` | fair; 3 wires with 2 faults, or all timers with aborts of both ends, or replays of 0 bytes | `ChannelsAreHeld`, `NothingIsLost`, `SendsArrive`, `EndsSettle` |
| `channel_ends` | fair; 4 uses of up to 2 messages; deadlines 0 and 1; 1 break; listeners that never settle | `CloseHolds`, `NothingGoesUntold`, `EndIsFinal`, `EndsReachBoth` |
| `sends_and_credit` | replay: 3 seqs, 2 sizes, 3 kinds; credit: 2 tasks and a loose send, 6 plans, modulus 64; pieces: 11 plans of up to 4 frames each way | `ReplayIsExact`, `LimitsAreReached`, `QueuedFramesCanBePushed`, `EvictionIsLawful`; `CreditHolds`, `LimitsOnlyRise`, `TurnsAreKept`, `TurnsCome`; `PiecesHold`, `PiecesArrive` |
| `broadcasts` | adapter: 2 listeners, up to 5 publishes; page: 3 publishes, 2 or 3 toggles, 1 or 2 breaks; a Cloudflare key of 2 owners, up to 3 publishes, 1 failure of each kind; a loop of 4 messages | `OrderIsKept`, `QueueHolds`, `PublishesAreDelivered`; `PageIsServed`, `PageSettles`; `PublishOrderHolds`, `KeyStateHolds`, `CloudflareSettles`; `MessagesAreConsumed`, `LoopEnds` |
| `transports` | handoff: 2 + 2 sends or a channel that registers, a break or a second attempt; uploads: 2 sends, 1 cut or wire given up; Redis: 2 channels, 2 listeners, 2 publishes, 1 failure | `HandoffHolds`, `HandoffSettles`; `UploadsHold`, `UploadsSettle`; `CallOrderIsKept`, `NoneIsStranded`, `ListenersHear`, `PublishesSettle` |
| `replayed_sends_lowering` | violation | a second lowering trims unacknowledged frames |
| `late_reconcile` | violation | a late RECONCILE of a dropped wire ends the channel |
| `stale_session` | violation | a stale session's close starts the timer of an attached ended channel |
| `credit_turns` | violation | a sender that stops may leave another without its turn |
| `handoff_owed` | violation | a RECONCILE owed during a join is never sent |
| `cloudflare_setup` | violation | a publish overtakes the presence of its own isolate's subscriber |

Each property is a conjunction of named parts, commented where it is defined; `TypeOK`s are parts too, but for `ReplayedSends`
and `RedisTransport`, whose type correctness is proved.

Why these bounds. The faults of a session interact in pairs: a wire abandoned but still delivering, the wire that replaces it, and
the close of the first arriving late need two wires and one fault; two waits for one registration, or a session named two
wires ago, need three wires and two faults. Two messages in one direction distinguish order, duplication and gaps; the
third, with headrooms of 0 and 1, puts one frame in each of the gate's queues. Two channels with no messages (aborts are
frames) cover RECONCILEs that name one channel and not the other. Budgets are ample (never evict) or none (store
nothing), the two ends of what eviction does to a reconnect; the budgets between are `ReplayedSends`' subject. Limits of
three seqs and two sizes let one frame evict two and a lowering wait while another is issued. A queue that overflows needs one message
more than its budget, and both kinds; a credit that runs out, two messages more than its first window; a wrap of its counters, a base
just below the modulus. Two listeners of one key are one called before the other toggles; two keys, a counter that goes while
another's stays. A handoff's frames interleave on two wires with one send each way, and the second send shows a repetition or a gap. For
Redis, two listeners are one channel's that goes and comes back, or two channels' that wait at once, and two publishes are
what order needs. What is proved below holds for any number.

Deadlock is not checked: a closed page, a finished use, or the bound on messages and faults, ends a behaviour.

### Fairness

`ChannelSession!FairSpec` assumes weak fairness of two sets of steps. `Progress`: what the code or its network drives by itself, that is
timers that fire, wires that connect and deliver, handlers that run, an end that notices the other's close, and the request
that registers its channel. Such steps are finitely many in a behaviour (messages and faults are bounded, and each answer
uses up a question), so weak fairness of their union starves none. `Heartbeat`: PINGs and PONGs, which go on for ever. The
application (sends, aborts), faults and `PageLeaves` are never assumed to happen. TLC's evaluation of ENABLED is slow here,
so each assumption is written with its guard (`CanProgress`, `CanBeat`): `[]<>~CanProgress \/ []<><<Progress>>_vars`. `UpgradeHandoff`
and `FramePieces` do the same, one assumption per handler, wire direction or end.

The other modules assume that microtasks, macrotasks and timers that are due run, that what was handed to a wire that stays up is
read, that a page whose wire broke connects again, and that the request which registers a channel does. Beyond these: `ChannelEnds`
assumes nothing of listeners, which may never settle; `CreditFlow` assumes that listeners consume and that a sender with credit
sends until it stops, which is what its waiters wait for; `SseUploads` assumes that the open POSTs and the requests of the wire the
page is on get through, that the server hears of a wire that was aborted and that aborted requests end, and nothing of the upload and the
batch POST of a wire given up, which may hang until they are aborted (the open of one may not: the model reads opens in their order); `CloudflareBroadcast` that writes and calls end, well or not; `RedisTransport` that Redis serves each
connection's commands and its answers are read (ioredis fails a command that never gets one).

### What the violations show

1. `ReplayBuffer.setLimits` keeps the seq a waiting lowering waits for when it is lowered again
   (`this.lowered?.throughSeq ?? this.issuedSeq`), against the comment at `ReplayBuffer.ts:33`.
2. A RECONCILE of a dropped wire, handled after the next wire's, asks for frames acknowledged since, and the server ends the
   channel as lost.
3. The session of a wire whose RECONCILED was lost still holds its channels; the close of that wire starts the release timer
   of an ended channel whose page is attached elsewhere, against the comments of `EndedChannels`.
4. A turn given by a sender that then queues itself in an empty queue has no `passTurnOn`: if the sender whose turn it is stops,
   the other waits till the channel ends, with credit left (`SendCredit.ts:82`).
5. A channel that registers after the handoff's RECONCILED and before the old wire's FIN: `releaseJoin` never looks at the RECONCILE
   owed, and every send waits behind it (`WireLifecycle.ts:453`).
6. A publish made during a flush does not wait for a presence being written (`cloudflare/broadcast.ts:115`).

Observations that are no run of their own: `reported` survives a lost wire, so a closed record may go without the server having
heard of it; the server then keeps its ended channel until the wire closes or a new wire's RECONCILE leaves it out
(`EndedAreLetGo` still holds). A server close before the channel is registered runs its `onClose` while the page may still send, against
`ChannelLifecycle.ts:251`; `ClosedHearsNothing` leaves that case out. What waits in the in-memory adapter may pass `maxPendingBytes` by more
than one message where a message is larger than it, so `QueueIsBounded` is stated for smaller ones. A publish that drains the queue to make
room is queued behind what listeners publish meanwhile (`CalledBefore` says so). A PIECES_ACK that rides a message held back waits with
that message, its timer cleared (`pieces.ts:816`).

An abandoned upload's
RECONCILE goes again in a batch POST with the rest of what was unconfirmed (`SseTransport.ts:362`), so the server may answer it
twice; with three channels the second answer is taken as that of the RECONCILE sent since, whose channel, not being in it, is left
`awaited` for the rest of the wire (`AttachExchange.ts:173`). `UploadsSettle` is therefore run with two channels, where it holds; the
safety properties, `UploadsHold`, do not depend on it.

## Proofs

All theorems are of the module's specification, for every value of its constants; the named assumption of the module is all they
assume. Each rests on an inductive invariant whose initial condition, steps (a lemma per action) and consequence are proved
separately. TLC checks the property each entails on a small instance, in the run of its component.

| Theorem | Of | States |
| --- | --- | --- |
| `TypeCorrect`, `ReplayExact`, `QueuedFramesFit`, `LimitsReached`, `EvictionLawful` | `ReplayedSends` | types; `ReplayIsExact`; `QueuedFramesCanBePushed`; `LimitsAreReached`; `EvictionIsLawful` |
| `EndsHolds`, `CloseHeld`, `NothingUntold`, `EndsFinal` | `ChannelEnds` | the invariant; `CloseHolds`; `NothingGoesUntold`; `EndIsFinal` |
| `ExactDelivery`, `NoFailure` | `ReliableChannel` | what the abstract channel entails |
| `TurnsKept` | `CreditFlow` | `TurnsAreKept` |
| `MessagesConsumed` | `MessageLoop` | `MessagesAreConsumed` |
| `OrderKept`, `QueueKept` | `InMemoryBroadcast` | `OrderIsKept`; `QueueHolds` |
| `PageServed` | `PageBroadcast` | `PageIsServed` |
| `KeyHolds`, `PublishOrderKept` | `CloudflareBroadcast` | `KeyStateHolds`; `PublishOrderHolds` |
| `TypeCorrect`, `CallOrder`, `NoneStranded`, `AllHear` | `RedisTransport` | types; `CallOrderIsKept`; `NoneIsStranded`; `ListenersHear` |
| `UploadsKept` | `SseUploads` | `UploadsHold` |

**SendersProofs, of ReplayedSends.** The invariant `IInv` strengthens `TypeOK` with what the code keeps but never states: while the channel is
open the queue holds exactly the seqs issued and not pushed, in order, and otherwise nothing (`QueueInv`); one frame was pushed for a
seq, none past `pushed`, and `acked` never passes `issued` (`LogInv`); a lowering that waits is the last limits set and waits for a seq
still to be acknowledged, and with none waiting the budgets are the last limits (`LoweredInv`). The hard one is `ReplayExact`:
`getAfter` decides by counting, so the proof maps the frames of a run one to one to their seqs, which bounds their number by the
length of the run; where the count reaches it no seq is left out. `EvictionLawful`, of the steps, has an invariant of its own
(`Held`): what is stored fits the budgets in force, which never were below the history `lowest`, and what is gone outgrew that. Budgets
that only rise then evict nothing (`HigherEvictsNothing`). It rests on `Bytes`, a fold over a set: the function that folds is shown to exist and to be one,
and to take the entries in any order (`SumsExist`, `SumsAgree`, `BytesOfOneMore`), so that more entries have more bytes (`BytesGrow`).

**ReliableChannelProofs.** `ExactDelivery`: an end's messages are a gapless prefix of the other's, and all of them where it heard an
abort. `NoFailure`: where channels may not fail, only aborts end them. `IInv` adds that an end that aborted is ended: it sends nothing
more, so what the other end got before it heard the abort stays all of it. TLC checks that `ChannelSession` implements
`ReliableChannel`; these theorems say what that is worth.

**SumsProofs.** The library's induction theorems take an operator, which no installed prover can instantiate. They are avoided: a set of
naturals that holds 0 and, with each number, the next, holds all of them (`NatByStep`), because a number outside it would leave a
least one (`LeastNatural`, from the well-foundedness of the naturals). A fact proved by induction is stated as such a set. So
`SumOf` is what its recursive function computes (`SumIsPartial`), and grows by what is appended and shrinks by what is taken away:
what `queuedBytes` and `held` rest on.

**SendersProofs, of CreditFlow.** `TurnHeld` needs little: no type of the limits at all, since `SendCredit` never computes with them but to ask
whether there is room. What it does need is `Assumed`: until a first limit arrives, an attachment only lowers the assumed limit, so no
waiter finds credit that no call gave away. `TryWake`, `Decrement`, `PassTurnOn` and the limit handlers each keep `Good`, and return
no waiter that was not there; `TurnsSettle` carries that to the tasks.

**BroadcastsProofs, of MessageLoop.** `LoopInv` says where the loop is: the body got the first of what arrived since it started, the queue has the next,
and while the loop runs without an error there is nothing between the queue and what arrived (`Follows`); `Listens` says when it
listens, so that what it misses is no message of its. What is settled is then an interval less what is open, and each step moves its ends.

**BroadcastsProofs, of InMemoryBroadcast.** The order of delivery is not that of a queue alone: a listener's publishes wait behind what is queued, a
publish that needs room waits for the drain it starts, and listeners come and go in the middle of a delivery. `InOrder` says of the
queue, and of the message held behind it, that each may follow what was delivered and what is before it; `Latest` that the message under
delivery may follow all that were. `Counters` is why seqs ascend though a key's counter goes with its last subscriber:
`highestSeq`, which the next counter starts from, is past every seq given. `BoundHolds` and `TimersHold` give `QueueHolds`.

**CloudflareBroadcastProofs.** Two invariants, the second on top of the first. `KeyInv` is about a key's state: each owner's
subscribers are counted, and where no write was refused an owner with subscribers is in KV, has its setup's write under way, or was left
at some time (`PresenceIsKept`); a publish made while no flush was under way finds the owners it wants there once it goes
(`WantedArePresent`). The last needs to know where a publish is (`PlacesHold`): what waits is queued in the order it was made, and what
the authority chained is there once, its first alone listed or numbered. `OrderInv` has one part per stretch of a publish's way. `NumbersHold`: what
is stored is the last seq given, and while the first in the chain is between its reads and its store, a cache lost to a restart is read again
before another seq is given. `TurnsHold`: a publish that waits keeps all later ones waiting, and those of a run enter the chain in
order, so `RunsKeepOrder`. `HopsHold`: calls to the coordinator, and from it to an owner, are made in the order of their seqs; a line of
stubs keeps that order though stubs break, because a line that follows a failed one waits until its calls, and so those of every line before,
settled (`LinesHold`, whose lemmas `CallDoes`, `TakeDoes`, `SettleDoes` and `ResumeDoes` are `OrderedStubs`'); so a call still to be taken has
a higher seq than any taken before, which is `SubscribersHearBySeq`.

**ChannelEndsProofs.** The largest, in two halves. The first says what each handler makes of its end (`PageGoes`, `ServerMoves`: which
frames it sends, what it may still say, which promises it settles), so that the second need not look into handlers. The second is
`EndsAgree`, four facts about both ends and all that is on its way. `ServerIsTold`: the page's messages are heard in turn, and those
the server lacks are on their way while it is not ended. `PageIsTold`: the server's are heard in ascending order; each is heard, on its
way, in the offline buffer or was told lost, and what is on its way is before what is buffered; this is where a flush in the order of
the pushes matters (`MergeIsSorted`). `PageCloseHolds`, `ServerCloseHolds`: a CLOSE or CLOSE_ACK on its way is the last of its end's
messages, an end that heard one has all its peer sent or was told of, and an end whose `onClose` ran has nothing left to come. `CloseHolds`
alone needs none of it, but `EndIsFinal` and `AckedCloseHasAll` are false of an end on its own: they hold because of what its peer promised
not to send. A clean end fails
no ack request because its `onClose` ran only once none was in flight (`PageClean`, `ServerClean`), and none is tracked after: that an end
whose `onClose` ran has none pending is part of the two facts about closes. TLC checked `EndsAgree` on the states of `channel_ends` before it was proved.

**OfflineBufferProofs.** A push adds an entry behind its queue and evicts from the front only (`PushDoes`, `EvictDoes`), so the queues stay in the
order of their pushes (`BufferSorted`); `Merged`, a recursive function over two queues, has counts that are shown to exist
(`MergeCounts`), takes the first of what is left (`NextGoes`), and so holds both queues' entries in order (`MergeIsSorted`).

**BroadcastsProofs, of PageBroadcast.** A publish the page is due is in one place (`Somewhere`): heard; replayed beyond what the page read; in
the offline buffer, whose publishes are behind those replayed; or it came after all of these, to a server that ended. What a joined
wire carries is exactly what the page lacks of the replay, behind answers (`Lacks`), and a RECONCILE in flight asks for just that
(`WireInv`). So what the page reads next is the first of what it lacks. A flush moves publishes from the buffer to the replay: that it
keeps their order is `MergeIsSorted` again.

**TransportsProofs, of RedisTransport.** `CallOrder` needs that every publish in a queue was called (`OrderInv` adds `Called`), so a new one is behind
all. `NoneStranded` needs that a channel without a listener waits for no SUBSCRIBE (`WaitInv` adds `WaitsForListener`), so `listen`
never replaces one that publishes wait for. `AllHear` is the hard one: `HearInv` adds that SUBSCRIBEs are numbered as they were sent
(`Numbered`), that every UNSUBSCRIBE of a channel is in front of its listener's SUBSCRIBE (`SubscribedLast`), that answers on their way
are right about what Redis will have (`AnswersAreRight`) and so Redis has the channel of every acknowledged listener (`ActiveHas`), and
that a publish waiting, going on or sent will be heard or fail (`WaitersHear`, `SentAreHeard`). A removed listener's SUBSCRIBE may be
answered late; that its answer is told from the new one's is what keeps `ActiveHas`.

**TransportsProofs, of SseUploads.** No POST is ordered against another, so order can only come from what each holds. `UploadInv` says of
every wire the server may still take data of that its opening POST followed by what is left of its upload, and followed by what is left of its
batch, each goes on from the last seq the server took (`WireFollows`, of `Follows`): a frame in them is no new one, or the next after the last taken
or after one in front of it. So data read late, twice or of a wire given up leaves no gap, whichever is read first. `PageCovers` is the page's side,
and what makes a fallback safe: on the wire it is on, the POSTs it counts on, with what it has yet to write to them, reach the last seq
it handed over. A streaming upload that was never confirmed is covered again by `unconfirmed`, which the outbox starts from
where the upload fails. `PageAgrees` is about answers: a RECONCILED on its way is of the RECONCILE in flight until the page takes
it, and names only what the server holds, so what the page takes as open is held, and no channel of the page's RECONCILE is left out.
`UploadTypeOK` is part of `UploadsHold`; that nothing waits in `out` between steps is part of the invariant. Whether what is sent ever
arrives (`UploadsSettle`) is TLC's.

**Leaves and time.** A leaf that takes its prover long names it with a limit of its own (`SMTT`, `ZenonT`), so that the proofs do
not hang on how fast or how busy the machine is.

Only model-checked, out of the prover's reach: liveness under fairness (`SendsArrive`, `EndsSettle`, `EndsReachBoth`, `TurnsCome`,
`PiecesArrive`, `PublishesAreDelivered`, `PageSettles`, `CloudflareSettles`, `LoopEnds`, `HandoffSettles`, `UploadsSettle`,
`PublishesSettle`). Only model-checked so far: `ChannelsAreHeld`, `NothingIsLost`, `ExchangeHolds`, `QueuedInOrder` and the refinement
`ReliableChannels` of `ChannelSession`; `CreditHolds`, `LimitsOnlyRise`; `PiecesHold`;
`HandoffHolds`.

## Not modelled

Byte codecs and the widening of 32-bit seqs (the models carry seqs whole), configuration, request context, shield validation, the
TypeScript transformer, bundler plugins and server glue (pure functions over strings and host objects, or I/O), values carried by
channels (adapters over them), rate estimation (numeric, over wall-clock time). In modules: RECONCILEs handled out of their wires'
order but in `late_reconcile`; credit and heartbeats during a handoff; a flush refused midway, which ends the channel, in `PageBroadcast`; a
subscription made on an ended `ServerBroadcast`; the backlog limit that ends a wire.

## Plan

1. `CreditHolds` and `LimitsOnlyRise`, with limits modulo a power of two; `HandoffHolds`.
2. `QueuedInOrder` and the type correctness of `PageSession` and `ServerSession`; then `ExchangeHolds`, towards the refinement of
   `ReliableChannel`.
