------------------------- MODULE MC_AutonomousLoop -------------------------
(* Instances of AutonomousLoop for TLC. *)
EXTENDS AutonomousLoop

\* Bound: what others do and what goes wrong in one behaviour, together.
TwoDisturbances == moves + failures + crashes <= 2

=============================================================================
