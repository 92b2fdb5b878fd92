------------------------ MODULE MC_WorkflowWorkers ------------------------
(* Instances of WorkflowWorkers for TLC. *)
EXTENDS WorkflowWorkers

\* Item i is a script and a picture drawn from it; item j is a script.  Two slots
\* share the scripts, and one of them works through two at a time; nobody is bound
\* to the pictures yet.
Of == [s1 |-> "i", p1 |-> "i", s2 |-> "j"]
After == [s1 |-> {}, p1 |-> {"s1"}, s2 |-> {}]
Order == [s1 |-> 1, p1 |-> 2, s2 |-> 3]
For == [s1 |-> "script", p1 |-> "picture", s2 |-> "script"]
Attempts == [s1 |-> 2, p1 |-> 1, s2 |-> 1]

Station == [a |-> "script", b |-> "script"]
Skills == [a |-> {"script"}, b |-> {"script"}]
Size == [a |-> 2, b |-> 1]
Limit == [a |-> 0, b |-> 1]
Generations == [a |-> 2, b |-> 1]

=============================================================================
