-------------------------- MODULE MC_ControlPlane --------------------------
(* Instances of ControlPlane for TLC. *)
EXTENDS ControlPlane, TLC

Symmetry ==
    Permutations(Nodes) \cup Permutations(Deliveries) \cup Permutations(Executions)

=============================================================================
