------------------------ MODULE MC_WorkerStations -------------------------
(* An instance of WorkerStations for TLC. *)
EXTENDS WorkerStations

\* Item i is a script and a picture drawn from it; item j is a script.  Each kind
\* has one slot.
Of == [s1 |-> "i", p1 |-> "i", s2 |-> "j"]
After == [s1 |-> {}, p1 |-> {"s1"}, s2 |-> {}]
Order == [s1 |-> 1, p1 |-> 2, s2 |-> 3]
For == [s1 |-> "script", p1 |-> "picture", s2 |-> "script"]
Attempts == [s1 |-> 1, p1 |-> 1, s2 |-> 1]

Station == [a |-> "script", c |-> "picture"]
Skills == [a |-> {"script"}, c |-> {"picture"}]
Size == [a |-> 1, c |-> 1]
Limit == [a |-> 0, c |-> 0]
Generations == [a |-> 2, c |-> 2]

=============================================================================
