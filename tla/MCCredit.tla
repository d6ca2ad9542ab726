------------------------------ MODULE MCCredit -------------------------------
(***************************************************************************)
(* Instances, for TLC, of what bounds a sender: the replay buffer its      *)
(* frames wait in, the credit its peer grants, and what its wire takes.  A *)
(* behaviour is one of one of them, and leaves the others as they begin.   *)
(***************************************************************************)
EXTENDS MCReplayedSends, MCCreditFlow, MCFramePieces

VARIABLE part

\* The part not run begins with any one of its plans.
EitherInit ==
    /\ part \in {"replay", "credit", "pieces"}
    /\ Init /\ (part # "replay" => limits = CHOOSE l \in Limits : TRUE)
    /\ CreditInit /\ (part # "credit" => plan = CHOOSE p \in Plans : TRUE)
    /\ PiecesInit /\ (part # "pieces" => pplan = NothingSent)

EitherNext ==
    /\ UNCHANGED part
    /\ \/ part = "replay" /\ Next /\ UNCHANGED <<creditVars, pvars>>
       \/ part = "credit" /\ CreditNext /\ UNCHANGED <<vars, pvars>>
       \/ part = "pieces" /\ PiecesNext /\ UNCHANGED <<vars, creditVars>>

\* The fairness of FairCreditSpec and PiecesSpec, in the behaviours that run it.
EitherSpec ==
    /\ EitherInit /\ [][EitherNext]_<<part, vars, creditVars, pvars>>
    /\ WF_unconsumed(part = "credit" /\ Consumes)
    /\ WF_delivered(part = "credit" /\ Arrives)
    /\ WF_grants(part = "credit" /\ GrantArrives)
    /\ WF_sc(part = "credit" /\ TurnPasses)
    /\ WF_<<riding, grants>>(part = "credit" /\ Beats)
    /\ WF_wire(part = "credit" /\ Reattaches)
    /\ WF_left(part = "credit" /\ SomeoneSends)
    /\ \A x \in Ends :
        /\ []<>~(part = "pieces" /\ EndCanGoOn(x)) \/ []<><<EndGoesOn(x)>>_pvars
        /\ WF_pvars(part = "pieces" /\ Drains(x))
=============================================================================
