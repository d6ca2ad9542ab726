------------------------- MODULE MCChannelSession ---------------------------
(***************************************************************************)
(* Instances of ChannelSession for TLC.  A message takes one byte of a     *)
(* replay budget.                                                          *)
(***************************************************************************)
EXTENDS ChannelSession

CONSTANTS c1, c2

\* A replay that holds every message, and one that holds none.
Ample == [k \in DataKinds |-> 10]
None == [k \in DataKinds |-> 0]

Plan(channels) ==
    [channels |-> channels, pageMade |-> channels, wires |-> 2, breaks |-> 1,
     pageBudgets |-> Ample, serverBudgets |-> Ample, pageSends |-> 0, serverSends |-> 0,
     headrooms |-> {9}, timeouts |-> FALSE, aborts |-> {<<"page", c1>>}, lateReconciles |-> FALSE]

\* Two channels around RECONCILEs; one channel with messages of both ends; a wire that takes
\* no or one frame at a step; a channel a response carries, with messages of both ends over
\* one break, and of the server over two.
SendingPlans ==
    LET response == [Plan({c1}) EXCEPT !.pageMade = {}, !.aborts = {<<"server", c1>>},
                                       !.serverSends = 2]
    IN  {Plan({c1, c2}),
         [Plan({c1}) EXCEPT !.pageSends = 2, !.serverSends = 1],
         [Plan({c1}) EXCEPT !.pageSends = 3, !.headrooms = {0, 1}],
         [response EXCEPT !.pageSends = 1],
         [response EXCEPT !.wires = 3, !.breaks = 2]}

\* Three wires, two of which may await the channel at once; timeouts and aborts of both ends;
\* and replays that hold nothing.
EndingPlans ==
    LET timed == [Plan({c1}) EXCEPT !.timeouts = TRUE, !.aborts = {<<"page", c1>>, <<"server", c1>>}]
    IN  {[Plan({c1}) EXCEPT !.aborts = {}, !.wires = 3, !.breaks = 2,
                            !.pageSends = 1, !.serverSends = 1],
         timed,
         [timed EXCEPT !.aborts = {}, !.pageBudgets = None, !.serverBudgets = None,
                       !.pageSends = 1, !.serverSends = 1]}

LatePlans == {[Plan({c1}) EXCEPT !.aborts = {}, !.serverSends = 1, !.lateReconciles = TRUE]}
StalePlans == {[Plan({c1}) EXCEPT !.pageMade = {}, !.aborts = {<<"server", c1>>}]}
=============================================================================
