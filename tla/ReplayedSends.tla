---------------------------- MODULE ReplayedSends ---------------------------
(***************************************************************************)
(* One channel's replay buffer as the page uses it.  A frame gets its seq  *)
(* when the channel sends it and is stored when the wire takes it          *)
(* (client/SendGate.ts holds it meanwhile); the peer acknowledges what it  *)
(* has; each RECONCILED of a server with other settings resizes the buffer *)
(* (WireLifecycle.takeServerSettings); a reconnect the buffer can't serve  *)
(* loses the channel (AttachExchange.loseChannel).                         *)
(***************************************************************************)
EXTENDS ReplayBuffer, Sequences, Functions

CONSTANTS
    MaxSeq,      \* bound: the seqs one channel issues
    Sizes,       \* the byte sizes of frames
    Limits       \* the settings servers send: a budget for each data kind

ASSUME ReplayedSendsAssumption ==
    /\ MaxSeq \in Nat
    /\ Sizes \subseteq Nat \ {0}
    /\ Limits # {} /\ Limits \subseteq [DataKinds -> Nat]

VARIABLES
    rb,          \* the replay buffer
    queued,      \* frames with a seq that no wire took yet, in send order
    status,      \* "open", "lost" or "disposed"
    log,         \* history: every frame pushed
    limits,      \* history: the last limits set
    lowest,      \* history: the lowest budget of each kind that was in force
    mark         \* history: the seqs issued when the limits last changed

vars == <<rb, queued, status, log, limits, lowest, mark>>

Entry == [seq : Nat \ {0}, kind : Kinds, bytes : Sizes]

Lower(f, g) == [k \in DataKinds |-> IF g[k] < f[k] THEN g[k] ELSE f[k]]

Init ==
    /\ limits \in Limits
    /\ rb = NewBuffer(limits)
    /\ lowest = limits
    /\ queued = <<>> /\ status = "open" /\ log = {} /\ mark = 0

\* The channel sends a frame: it gets the next seq and waits for the wire.
Send(kind, bytes) ==
    /\ status = "open" /\ rb.issued < MaxSeq
    /\ rb' = NextSeq(rb)
    /\ queued' = Append(queued, [seq |-> rb.issued + 1, kind |-> kind, bytes |-> bytes])
    /\ UNCHANGED <<status, log, limits, lowest, mark>>

\* A wire takes the oldest frame that waits.
TakeNext ==
    /\ status = "open" /\ queued # <<>>
    /\ rb' = Push(rb, Head(queued))
    /\ log' = log \cup {Head(queued)}
    /\ queued' = Tail(queued)
    /\ UNCHANGED <<status, limits, lowest, mark>>

\* The peer acknowledges a seq a wire took: any it was sent, or, once the channel
\* was lost, the seq of the ERROR it got instead.
PeerAcknowledges(lastSeq) ==
    /\ status # "disposed"
    /\ lastSeq <= IF status = "lost" THEN rb.issued ELSE rb.pushed
    /\ rb' = Acknowledge(rb, lastSeq)
    /\ lowest' = Lower(lowest, rb'.budgets)
    /\ UNCHANGED <<queued, status, log, limits, mark>>

ChangeLimits(new) ==
    /\ status # "disposed"
    /\ rb' = SetLimits(rb, new)
    /\ limits' = new
    /\ lowest' = Lower(lowest, rb'.budgets)
    /\ mark' = IF new = limits THEN mark ELSE rb.issued
    /\ UNCHANGED <<queued, status, log>>

\* The server has frames through lastSeq and the next is gone: the frames that
\* wait are dropped and an ERROR takes a seq that is never stored.
LoseChannel(lastSeq) ==
    /\ status = "open"
    /\ lastSeq \in rb.acked .. rb.pushed
    /\ ~HasAfter(Acknowledge(rb, lastSeq), lastSeq, rb.issued)
    /\ rb' = NextSeq(Acknowledge(rb, lastSeq))
    /\ lowest' = Lower(lowest, rb'.budgets)
    /\ queued' = <<>>
    /\ status' = "lost"
    /\ UNCHANGED <<log, limits, mark>>

\* Mutant: a released record keeps the frames that wait.
DisposeKeepsQueue ==
    /\ status # "disposed"
    /\ rb' = Disposed(rb)
    /\ status' = "disposed" /\ log' = {} /\ mark' = 0
    /\ UNCHANGED <<queued, limits, lowest>>

\* The record is released.
Dispose ==
    /\ status # "disposed"
    /\ rb' = Disposed(rb)
    /\ queued' = <<>> /\ status' = "disposed" /\ log' = {} /\ mark' = 0
    /\ UNCHANGED <<limits, lowest>>

Next ==
    \/ \E kind \in Kinds, bytes \in Sizes : Send(kind, bytes)
    \/ TakeNext
    \/ \E lastSeq \in 1 .. MaxSeq + 1 : PeerAcknowledges(lastSeq)
    \/ \E new \in Limits : ChangeLimits(new)
    \/ \E lastSeq \in 0 .. MaxSeq : LoseChannel(lastSeq)
    \/ Dispose

Spec == Init /\ [][Next]_vars

-----------------------------------------------------------------------------
(* Properties *)

\* The variables have their types, and the buffer holds only frames it was given:
\* releasing a record empties it (ReplayBuffer.dispose).
TypeOK ==
    /\ rb \in [issued : Nat, pushed : Nat, acked : Nat, budgets : [DataKinds -> Nat],
               lowered : [through : Nat, budgets : [DataKinds -> Nat]],
               stored : SUBSET log]
    /\ queued \in Seq(Entry)
    /\ status \in {"open", "lost", "disposed"}
    /\ log \subseteq Entry
    /\ limits \in [DataKinds -> Nat] /\ lowest \in [DataKinds -> Nat]
    /\ mark \in Nat

\* What getAfter returns is the run of pushed frames it was asked for, whatever was
\* evicted, acknowledged or resized before: the count it decides by stands for
\* "none is missing" (ReplayBuffer.getAfter, and its comment on line 79).
ReplayIsExact ==
    \A after \in 0 .. rb.issued, through \in 0 .. rb.issued :
        HasAfter(rb, after, through) =>
            FramesAfter(rb, after, through) =
                {e \in log : after < e.seq /\ e.seq <= through}

\* A frame the peer has not acknowledged is gone only if it and the later frames of
\* its kind outgrew the lowest budget there was; a closing frame is never gone
\* (ReplayQueue.push, trim, acknowledge; queueBudgets' Infinity).
OnlyOutgrownFramesAreLost ==
    \A e \in log \ rb.stored : e.seq > rb.acked =>
        /\ e.kind \in DataKinds
        /\ Bytes(FromOn(log, e)) > lowest[e.kind]

\* Once the peer has every seq issued, the budgets in force are the last ones set:
\* no lowering is forgotten or overtaken by an older one (setLimits, acknowledge).
LimitsAreReached ==
    status # "disposed" /\ rb.acked = rb.issued => rb.budgets = limits

\* A frame still queued satisfies both asserts of `push` when its turn comes
\* (ReplayBuffer.ts:52-53), even after acknowledgements and resizes.
QueuedFramesCanBePushed ==
    \A i \in 1 .. Len(queued) :
        /\ queued[i].seq <= rb.issued
        /\ queued[i].seq >= rb.pushed + i

\* Only what outgrew its budget goes, and setting limits evicts no frame the peer has not
\* acknowledged: only a frame that is pushed, or the acknowledgement a lowering waits for, does
\* (setLimits, trim).
EvictionIsLawful ==
    [][/\ OnlyOutgrownFramesAreLost'
       /\ rb'.acked = rb.acked /\ rb'.pushed = rb.pushed /\ status' # "disposed"
            => Unacknowledged(rb.stored, rb.acked) \subseteq rb'.stored]_vars

\* ReplayBuffer.ts:33: "A lower budget waits till the peer acks every seq issued so
\* far, so no frame a reconnect needs is trimmed": the step that brings a lower
\* budget into force trims no unacknowledged frame issued before it was set.
LoweringTrimsNoNeededFrame ==
    [][(\E k \in DataKinds : rb'.budgets[k] < rb.budgets[k]) /\ limits' = limits
         => \A e \in rb.stored : rb'.acked < e.seq /\ e.seq <= mark => e \in rb'.stored]_vars
=============================================================================
