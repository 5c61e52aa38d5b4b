---------------------------- MODULE MCNanoQueue ----------------------------
(* The guaranteed logger on small instances. *)
EXTENDS NanoQueue, TLC

Symm == Permutations(Producers)

\* Short and long lines in turn, one of them larger than a whole file.
LineSizes == [l \in Lines |-> IF l % 3 = 0 THEN 5 ELSE l % 3]

=============================================================================
