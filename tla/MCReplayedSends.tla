--------------------------- MODULE MCReplayedSends --------------------------
(* Small budgets and frame sizes for ReplayedSends: budgets one frame fills,   *)
(* budgets two frames fill, and a frame larger than a budget.                  *)
EXTENDS ReplayedSends

MCSizes == {1, 2}
MCLimits == {[text |-> 3, binary |-> 1], [text |-> 1, binary |-> 2]}
MCLowerings == {[text |-> t, binary |-> 1] : t \in 1 .. 3}
=============================================================================
