--------------------------- MODULE MC_RemoteHost ---------------------------
(* Instances of RemoteHost for TLC. *)
EXTENDS RemoteHost

\* Bound: what goes wrong in one behaviour, of the five kinds the budgets count.
ThreeFailures == crashes + lost + lapses + faults + torn <= 3

=============================================================================
