--------------------------------- MODULE Sums ---------------------------------
(***************************************************************************)
(* The sum of a sequence of numbers, as a recursive function.              *)
(***************************************************************************)
EXTENDS Integers, Sequences

SumOf(q) == LET sum[i \in 0 .. Len(q)] == IF i = 0 THEN 0 ELSE sum[i - 1] + q[i] IN sum[Len(q)]
===============================================================================
