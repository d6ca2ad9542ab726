---------------------------- MODULE MCCloudflareSetup --------------------------
(* An isolate with subscribers of two Durable Objects, for TLC. *)
EXTENDS CloudflareBroadcast

MCIsolates == {[owners |-> <<"a", "b">>, publishes |-> <<[own |-> TRUE, bytes |-> 1],
                                                         [own |-> TRUE, bytes |-> 1]>>,
                budget |-> 2, interval |-> FALSE, joins |-> 2, leaves |-> 0, refusals |-> 0,
                breaks |-> 0, restarts |-> 0]}
===============================================================================
