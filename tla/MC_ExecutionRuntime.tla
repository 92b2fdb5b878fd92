------------------------- MODULE MC_ExecutionRuntime -------------------------
(* Instances of ExecutionRuntime for TLC. *)
EXTENDS ExecutionRuntime, TLC

\* The second step depends on the first.
Chain == [first |-> {}, second |-> {"first"}]

Symmetry == Permutations(Deliveries)

=============================================================================
