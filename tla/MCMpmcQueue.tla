---------------------------- MODULE MCMpmcQueue ----------------------------
(* The bounded MPMC queue on small instances. *)
EXTENDS MpmcQueue, TLC

\* Threads of one role and values are interchangeable.
Symm == Permutations(Producers) \cup Permutations(Consumers)
          \cup Permutations(Values)

=============================================================================
