---------------------------- MODULE MCTransports -----------------------------
(***************************************************************************)
(* Instances of the transports, for TLC: a page's move from SSE to a       *)
(* WebSocket, what it uploads over SSE, and the publishes of servers       *)
(* through Redis.  A behaviour is one of one of them, and leaves the       *)
(* others as they begin.                                                   *)
(***************************************************************************)
EXTENDS UpgradeHandoff, SseUploads, RedisTransport

VARIABLE part

Plan(batch, registers, sends, breaks, attempts, timers, holds) ==
    [batch |-> batch, registers |-> registers, sends |-> sends, serverSends |-> sends,
     breaks |-> breaks, attempts |-> attempts, sse |-> 3 + breaks, timers |-> timers,
     holds |-> holds]

\* Both kinds of upload: a wire that breaks at any step around two sends each way; timers and a
\* second attempt around a channel that registers; a handoff that holds too much; no timer at all.
MCHandoffPlans ==
    UNION {{Plan(batch, "never", 2, 1, 1, {"join"}, 4),
            Plan(batch, "early", 1, 0, 2, {"join", "ttl", "drain", "deadline"}, 2),
            Plan(batch, "early", 1, 1, 1, {"join"}, 1)} : batch \in BOOLEAN}
    \cup {Plan(TRUE, "early", 1, 0, 1, {}, 4)}

\* A channel that registers whenever.
MCOwedPlans == {Plan(TRUE, "ever", 1, 0, 1, {}, 4)}

UploadPlan(sends, channels, cuts, drops, timers) ==
    [sends |-> sends, channels |-> channels, wires |-> 1 + cuts + drops, cuts |-> cuts,
     drops |-> drops, timers |-> timers]

\* An upload or a POST cut, a wire given up, an acknowledgement that comes late, around two sends or
\* a channel that registers.
MCUploadPlans ==
    {UploadPlan(2, 1, 1, 0, {"ack", "connectTtl"}), UploadPlan(2, 1, 0, 1, {"ack"}),
     UploadPlan(1, 2, 0, 0, {"ack"})}

TransportsInit ==
    /\ part \in {"handoff", "uploads", "redis"}
    /\ HandoffInit /\ (part # "handoff" => hplan = CHOOSE p \in HandoffPlans : TRUE)
    /\ UploadInit /\ (part # "uploads" => uplan = CHOOSE p \in UploadPlans : TRUE)
    /\ Init

TransportsNext ==
    /\ UNCHANGED part
    /\ \/ part = "handoff" /\ HandoffNext /\ UNCHANGED <<uvars, vars>>
       \/ part = "uploads" /\ UploadNext /\ UNCHANGED <<hvars, vars>>
       \/ part = "redis" /\ Next /\ UNCHANGED <<hvars, uvars>>

\* The fairness of each part, in the behaviours that run it; Redis's event loop and its server each
\* as one.
TransportsSpec ==
    /\ TransportsInit /\ [][TransportsNext]_<<part, vars, uvars, hvars>>
    /\ HandoffFairness
    /\ []<>(part # "handoff" \/ ~PageMayHear) \/ []<><<PageHears>>_hvars
    /\ []<>(part # "handoff" \/ ~ServerMayHear) \/ []<><<ServerHears>>_hvars
    /\ WF_uvars(part = "uploads" /\ PageGoesOn) /\ WF_uvars(part = "uploads" /\ NetworkGoesOn)
    /\ WF_vars(part = "redis" /\ (Resume \/ SettleSubscribe \/ \E p \in rejected : ResumeRejected(p)))
    /\ WF_vars(part = "redis" /\ (ReadReply \/ RedisSubscribes \/ RedisPublishes))
===============================================================================
