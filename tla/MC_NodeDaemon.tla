--------------------------- MODULE MC_NodeDaemon ---------------------------
(* Instances of NodeDaemon for TLC. *)
EXTENDS NodeDaemon

\* Bound: of the faults of one behaviour, the appends to the event log that go wrong.
OneAppendGoesWrong == failed + torn <= 1

=============================================================================
