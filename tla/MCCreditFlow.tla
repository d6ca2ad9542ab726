---------------------------- MODULE MCCreditFlow ----------------------------
(* Constants of CreditFlow for TLC. *)
EXTENDS CreditFlow

Bounds(sends, loose, asks, probes, batches, breaks, stops) ==
    [sends |-> sends, loose |-> loose, asks |-> asks, probes |-> probes, batches |-> batches,
     breaks |-> breaks, stops |-> stops, ends |-> stops]

\* The server sends: over a small replay buffer; with a send not awaited; over a large buffer
\* past a wrap of its counters, with a window that grows; to a page that turns to batch POSTs
\* and back.  The page sends, and asks for acks: over a break, to a
\* server whose replay buffer is smaller than it assumed, and until it ends.
SomePlans ==
    {[pageSends |-> FALSE, window |-> 2, base |-> 0, bounds |-> Bounds(4, 0, 0, 0, 0, 0, 0)],
     [pageSends |-> FALSE, window |-> 6, base |-> 0, bounds |-> Bounds(3, 1, 0, 0, 0, 0, 0)],
     [pageSends |-> FALSE, window |-> 16, base |-> 56, bounds |-> Bounds(2, 0, 0, 1, 0, 1, 0)],
     [pageSends |-> FALSE, window |-> 16, base |-> 0, bounds |-> Bounds(2, 0, 0, 0, 1, 1, 0)],
     [pageSends |-> TRUE, window |-> 6, base |-> 0, bounds |-> Bounds(1, 0, 2, 0, 0, 1, 0)],
     [pageSends |-> TRUE, window |-> 16, base |-> 0, bounds |-> Bounds(2, 0, 1, 0, 0, 0, 1)]}

\* A sender that stops.
StoppingPlans ==
    {[pageSends |-> FALSE, window |-> 6, base |-> 0, bounds |-> Bounds(5, 0, 0, 0, 0, 0, 1)]}
=============================================================================
