---------------------------- MODULE RedisTransport --------------------------
(***************************************************************************)
(* A server's broadcasts over Redis (packages/redis/src/index.ts): one     *)
(* connection publishes, another subscribes, and a publish waits for the   *)
(* SUBSCRIBEs sent before it, so that this server's own listeners hear it. *)
(* An async function goes on in a microtask once what it awaits settled:   *)
(* a step of its own, between which anything else may be called.           *)
(*                                                                         *)
(* Redis is external: it serves a connection's commands in their order,    *)
(* and answers and messages reach the connection in theirs.                *)
(***************************************************************************)
EXTENDS Integers, Sequences, FiniteSets

CONSTANTS
    Channels,       \* a key's text and its binary channel are two channels
    MaxListens,     \* bound: the listeners added
    MaxPublishes,   \* bound: the publishes called here
    MaxFailures     \* bound: the commands that fail

ASSUME RedisTransportAssumption == {MaxListens, MaxPublishes, MaxFailures} \subseteq Nat

VARIABLES
    listener,       \* textCallbacks, binaryCallbacks: a channel's listener, named by its
                    \* SUBSCRIBE's number; 0 for none
    subscribing,    \* the number of the SUBSCRIBE a channel waits for; 0 for none
    subscribesSent,
    failed,         \* failedSubscribes: the channels
    waiters,        \* publishes that wait, oldest first
    resuming,       \* publishes whose wait is over and that go on next, in their order
    rejected,       \* publishes whose wait failed and that go on next to fail
    acks,           \* SUBSCRIBEs answered, whose settleSubscribe goes on next
    commands,       \* to Redis, on the subscriber's connection
    replies,        \* from Redis, on the subscriber's connection
    sending,        \* to Redis, on the publisher's connection
    subscribed,     \* Redis: the channels of the subscriber's connection
    log,            \* Redis: the publishes it served
    pubs,           \* the publishes called, with the listener their channel had then
    outcome,        \* what each came to: "none" (not called), "pending", "failed" or "sent"
    heard,          \* the publishes each listener heard
    failures

redis == <<commands, replies, sending, subscribed, log, failures>>
vars == <<listener, subscribing, subscribesSent, failed, waiters, resuming, rejected, acks, pubs,
          outcome, heard, redis>>

Listeners == 1 .. MaxListens
Publishes == 1 .. MaxPublishes

Init ==
    /\ listener = [ch \in Channels |-> 0] /\ subscribing = [ch \in Channels |-> 0]
    /\ subscribesSent = 0 /\ failed = {} /\ waiters = <<>> /\ resuming = <<>> /\ rejected = {}
    /\ acks = <<>> /\ commands = <<>> /\ replies = <<>> /\ sending = <<>>
    /\ subscribed = {} /\ log = <<>> /\ pubs = <<>>
    /\ outcome = [p \in Publishes |-> "none"]
    /\ heard = [l \in Listeners |-> <<>>] /\ failures = 0

Fail == failures < MaxFailures /\ failures' = failures + 1

-----------------------------------------------------------------------------
(* Waiting.  A Map keeps its entries in the order they were added, and      *)
(* `subscribe` numbers them in it, so the oldest SUBSCRIBE is the least.    *)

\* Every SUBSCRIBE sent before a publish that waits through `upTo` is acknowledged.
Cleared(upTo, sub) == \A ch \in Channels : sub[ch] # 0 => upTo < sub[ch]

\* releaseWaiters, of those through the place `last`: those in front go on while each is cleared.
Wake(ws, last, sub) ==
    \E n \in 0 .. last :
        /\ \A i \in 1 .. n : Cleared(ws[i].upTo, sub)
        /\ n < last => ~Cleared(ws[n + 1].upTo, sub)
        /\ waiters' = SubSeq(ws, n + 1, last)
        /\ resuming' = resuming \o SubSeq(ws, 1, n)

-----------------------------------------------------------------------------
(* Calls *)

\* listen, listenBinary
Listen(ch) ==
    /\ listener[ch] = 0 /\ subscribesSent < MaxListens
    /\ subscribesSent' = subscribesSent + 1
    /\ listener' = [listener EXCEPT ![ch] = subscribesSent']
    /\ subscribing' = [subscribing EXCEPT ![ch] = subscribesSent']
    /\ commands' = Append(commands, [t |-> "SUBSCRIBE", ch |-> ch, order |-> subscribesSent'])
    /\ UNCHANGED <<failed, waiters, resuming, rejected, acks, replies, sending, subscribed, log,
                   pubs, outcome, heard, failures>>

\* Mutant: what waits for the channel's SUBSCRIBE is not looked at.
UnlistenOnly(ch) ==
    /\ listener[ch] # 0
    /\ listener' = [listener EXCEPT ![ch] = 0]
    /\ subscribing' = [subscribing EXCEPT ![ch] = 0]
    /\ failed' = failed \ {ch}
    /\ commands' = Append(commands, [t |-> "UNSUBSCRIBE", ch |-> ch, order |-> 0])
    /\ UNCHANGED <<subscribesSent, waiters, resuming, rejected, acks, replies, sending,
                   subscribed, log, pubs, outcome, heard, failures>>

\* What listen returned: unsubscribe.
Unlisten(ch) ==
    /\ listener[ch] # 0
    /\ listener' = [listener EXCEPT ![ch] = 0]
    /\ subscribing' = [subscribing EXCEPT ![ch] = 0]
    /\ failed' = failed \ {ch}
    /\ Wake(waiters, Len(waiters), subscribing')
    /\ commands' = Append(commands, [t |-> "UNSUBSCRIBE", ch |-> ch, order |-> 0])
    /\ UNCHANGED <<subscribesSent, rejected, acks, replies, sending, subscribed, log, pubs,
                   outcome, heard, failures>>

\* Mutant: only a SUBSCRIBE not acknowledged makes a publish wait.
AwaitsSubscribe == \E ch \in Channels : subscribing[ch] # 0

\* Publishes keep their order: one waits while an earlier one does.
MustWait ==
    (\E ch \in Channels : subscribing[ch] # 0) \/ waiters # <<>> \/ resuming # <<>> \/ rejected # {}

\* send, sendBinary: publish, up to its wait.
Publish(ch) ==
    LET p == Len(pubs) + 1
    IN  /\ p <= MaxPublishes
        /\ pubs' = Append(pubs, [ch |-> ch, audience |-> listener[ch]])
        /\ outcome' = [outcome EXCEPT ![p] = IF failed # {} THEN "failed" ELSE "pending"]
        /\ IF failed = {} /\ MustWait
           THEN Wake(Append(waiters, [pub |-> p, upTo |-> subscribesSent]), Len(waiters) + 1,
                     subscribing)
           ELSE UNCHANGED <<waiters, resuming>>
        /\ sending' = IF failed = {} /\ ~MustWait THEN Append(sending, p) ELSE sending
        /\ UNCHANGED <<listener, subscribing, subscribesSent, failed, rejected, acks, commands,
                       replies, subscribed, log, heard, failures>>

-----------------------------------------------------------------------------
(* Microtasks and what the connections read *)

\* publish, after its wait.
Resume ==
    /\ resuming # <<>>
    /\ resuming' = Tail(resuming)
    /\ sending' = Append(sending, Head(resuming).pub)
    /\ UNCHANGED <<listener, subscribing, subscribesSent, failed, waiters, rejected, acks,
                   commands, replies, subscribed, log, pubs, outcome, heard, failures>>

ResumeRejected(p) ==
    /\ p \in rejected
    /\ rejected' = rejected \ {p}
    /\ outcome' = [outcome EXCEPT ![p] = "failed"]
    /\ UNCHANGED <<listener, subscribing, subscribesSent, failed, waiters, resuming, acks,
                   commands, replies, sending, subscribed, log, pubs, heard, failures>>

\* Mutant: the answer counts for whichever SUBSCRIBE the channel waits for.
AnyCurrent(ack) == subscribing[ack.ch] # 0

\* Its listener was not removed meanwhile, nor added again with a SUBSCRIBE of its own.
Current(ack) == subscribing[ack.ch] = ack.order

\* The publishes at the end of `waiters` sent after the SUBSCRIBE fail with it: those past `last`.
Rejects(order, last) ==
    /\ \A i \in last + 1 .. Len(waiters) : waiters[i].upTo >= order
    /\ last > 0 => waiters[last].upTo < order

\* settleSubscribe
SettleSubscribe ==
    LET ack == Head(acks)
    IN  /\ acks # <<>>
        /\ acks' = Tail(acks)
        /\ IF Current(ack)
           THEN /\ subscribing' = [subscribing EXCEPT ![ack.ch] = 0]
                /\ failed' = IF ack.ok THEN failed ELSE failed \cup {ack.ch}
                /\ \E last \in 0 .. Len(waiters) :
                     /\ IF ack.ok THEN last = Len(waiters) ELSE Rejects(ack.order, last)
                     /\ rejected' = rejected \cup {waiters[i].pub : i \in last + 1 .. Len(waiters)}
                     /\ Wake(waiters, last, subscribing')
           ELSE UNCHANGED <<subscribing, failed, waiters, resuming, rejected>>
        /\ UNCHANGED <<listener, subscribesSent, commands, replies, sending, subscribed, log,
                       pubs, outcome, heard, failures>>

\* The subscriber's connection reads an answer, or a message for onMessage.
ReadReply ==
    LET r == Head(replies)
        l == IF r.t = "message" THEN listener[r.ch] ELSE 0
    IN  /\ replies # <<>>
        /\ replies' = Tail(replies)
        /\ acks' = IF r.t = "message" THEN acks ELSE Append(acks, r)
        /\ heard' = IF l = 0 THEN heard ELSE [heard EXCEPT ![l] = Append(@, r.pub)]
        /\ UNCHANGED <<listener, subscribing, subscribesSent, failed, waiters, resuming, rejected,
                       commands, sending, subscribed, log, pubs, outcome, failures>>

-----------------------------------------------------------------------------
(* Redis *)

Answer(c, ok) == [t |-> "answer", ch |-> c.ch, order |-> c.order, ok |-> ok]

RedisSubscribes ==
    LET c == Head(commands)
    IN  /\ commands # <<>> /\ commands' = Tail(commands)
        /\ IF c.t = "UNSUBSCRIBE"
           THEN subscribed' = subscribed \ {c.ch} /\ UNCHANGED <<replies, failures>>
           ELSE \E ok \in BOOLEAN :
                  /\ IF ok THEN UNCHANGED failures ELSE Fail
                  /\ subscribed' = IF ok THEN subscribed \cup {c.ch} ELSE subscribed
                  /\ replies' = Append(replies, Answer(c, ok))
        /\ UNCHANGED <<listener, subscribing, subscribesSent, failed, waiters, resuming, rejected,
                       acks, sending, log, pubs, outcome, heard>>

\* The publish script: the key's next seq (the place in the log), and a message.
RedisPublishes ==
    LET p  == Head(sending)
        ch == pubs[p].ch
    IN  /\ sending # <<>> /\ sending' = Tail(sending)
        /\ \E ok \in BOOLEAN :
             /\ IF ok THEN UNCHANGED failures ELSE Fail
             /\ log' = IF ok THEN Append(log, p) ELSE log
             /\ replies' = IF ok /\ ch \in subscribed
                           THEN Append(replies, [t |-> "message", ch |-> ch, pub |-> p])
                           ELSE replies
             /\ outcome' = [outcome EXCEPT ![p] = IF ok THEN "sent" ELSE "failed"]
        /\ UNCHANGED <<listener, subscribing, subscribesSent, failed, waiters, resuming, rejected,
                       acks, commands, subscribed, pubs, heard>>

Next ==
    \/ \E ch \in Channels : Listen(ch) \/ Unlisten(ch) \/ Publish(ch)
    \/ \E p \in rejected : ResumeRejected(p)
    \/ Resume \/ SettleSubscribe \/ ReadReply \/ RedisSubscribes \/ RedisPublishes

Spec == Init /\ [][Next]_vars

\* Microtasks run, and Redis answers and is read.
FairSpec ==
    /\ Spec
    /\ WF_vars(Resume) /\ WF_vars(\E p \in rejected : ResumeRejected(p))
    /\ WF_vars(SettleSubscribe) /\ WF_vars(ReadReply)
    /\ WF_vars(RedisSubscribes) /\ WF_vars(RedisPublishes)

-----------------------------------------------------------------------------
(* Properties *)

Calls == [ch : Channels, audience : 0 .. MaxListens]
Waits == [pub : Publishes, upTo : 0 .. MaxListens]
Commands == [t : {"SUBSCRIBE"}, ch : Channels, order : Listeners]
            \cup [t : {"UNSUBSCRIBE"}, ch : Channels, order : {0}]
AnswersTo == [t : {"answer"}, ch : Channels, order : Listeners, ok : BOOLEAN]
Messages == [t : {"message"}, ch : Channels, pub : Publishes]

\* Every variable has its type: SUBSCRIBEs are numbered from one, what is queued on the
\* connections is one of their frames, and a publish called has an outcome (RedisTransport).
TypeOK ==
    /\ subscribesSent \in 0 .. MaxListens /\ failures \in 0 .. MaxFailures
    /\ listener \in [Channels -> 0 .. MaxListens] /\ subscribing \in [Channels -> 0 .. MaxListens]
    /\ failed \subseteq Channels /\ subscribed \subseteq Channels /\ rejected \subseteq Publishes
    /\ waiters \in Seq(Waits) /\ resuming \in Seq(Waits)
    /\ acks \in Seq(AnswersTo) /\ replies \in Seq(AnswersTo \cup Messages)
    /\ commands \in Seq(Commands) /\ sending \in Seq(Publishes) /\ log \in Seq(Publishes)
    /\ pubs \in Seq(Calls) /\ heard \in [Listeners -> Seq(Publishes)]
    /\ outcome \in [Publishes -> {"none", "pending", "failed", "sent"}]

\* redis/src/index.ts:176 "Publishes keep their order: one waits while an earlier one does":
\* what Redis served, what is on its way, what goes on and what waits are in the order of the
\* calls, whichever SUBSCRIBEs are pending, answered, failed or replaced.
Numbers(s) == {s[i] : i \in 1 .. Len(s)}
Pubs(ws) == {ws[i].pub : i \in 1 .. Len(ws)}

Served == Numbers(log)
Sending == Numbers(sending)
Going == Pubs(resuming)
Waiting == Pubs(waiters)

Before(S, T) == \A p \in S, q \in T : p < q
Increasing(s) == \A i, j \in 1 .. Len(s) : i < j => s[i] < s[j]
InOrder(ws) == \A i, j \in 1 .. Len(ws) : i < j => ws[i].pub < ws[j].pub

CallOrderIsKept ==
    /\ Before(Served, Sending \cup Going \cup Waiting)
    /\ Before(Sending, Going \cup Waiting)
    /\ Before(Going, Waiting)
    /\ Increasing(log) /\ Increasing(sending) /\ InOrder(resuming) /\ InOrder(waiters)

\* No publish is stranded: the oldest that waits waits for a SUBSCRIBE sent before it, whose
\* answer is still to come (releaseWaiters on every settle and every removed listener).
Subscribes(s, kind) ==
    {<<s[i].ch, s[i].order>> : i \in {j \in 1 .. Len(s) : s[j].t = kind}}

ToAnswer ==
    Subscribes(commands, "SUBSCRIBE") \cup Subscribes(replies, "answer")
        \cup Subscribes(acks, "answer")

NoneIsStranded ==
    /\ waiters # <<>> => ~Cleared(Head(waiters).upTo, subscribing)
    /\ \A ch \in Channels : subscribing[ch] # 0 => <<ch, subscribing[ch]>> \in ToAnswer

\* A listener hears every publish called while it was there, unless the publish fails or the
\* listener goes: Redis served it after the listener's SUBSCRIBE, whatever was removed, added
\* again or failed meanwhile (the wait of publish, settleSubscribe, onMessage).
Hears(n) == pubs[n].audience # 0 /\ listener[pubs[n].ch] = pubs[n].audience

ListenersHear ==
    \A n \in Served :
        Hears(n) =>
            \/ n \in Numbers(heard[pubs[n].audience])
            \/ \E r \in Numbers(replies) : r.t = "message" /\ r.pub = n

\* Every publish settles: a SUBSCRIBE that is late, fails or is replaced holds none back for good.
PublishesSettle ==
    (\E n \in Publishes : outcome[n] = "pending") ~> \A n \in Publishes : outcome[n] # "pending"
=============================================================================
