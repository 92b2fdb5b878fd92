------------------------ MODULE RemoteTaskLifecycle ------------------------
(***************************************************************************)
(* What the control plane and a Remote Host promise together about one     *)
(* remote task (docs/REMOTE_HOST_RUNTIME.md, "Remote-task lifecycle"): it  *)
(* is submitted once, executed by Codex at most once and only while it is  *)
(* open, and given one outcome that never changes; success is reported     *)
(* only for an execution that completed.  Leases, envelopes, retries,      *)
(* crashes and files are below this level.                                 *)
(***************************************************************************)
EXTENDS Naturals

CONSTANT Tasks

VARIABLES
    phase,       \* "unknown", "open" or "ended"
    executions,  \* Codex Turns started for the task
    codex,       \* "none", "running", "completed" or "failed"
    result       \* "none" or the reported outcome

vars == <<phase, executions, codex, result>>

Outcomes == {"succeeded", "failed", "blocked", "outcome_unknown"}

Init ==
    /\ phase = [t \in Tasks |-> "unknown"]
    /\ executions = [t \in Tasks |-> 0]
    /\ codex = [t \in Tasks |-> "none"]
    /\ result = [t \in Tasks |-> "none"]

Submit(t) ==
    /\ phase[t] = "unknown" /\ phase'[t] = "open"
    /\ executions'[t] = executions[t] /\ codex'[t] = codex[t] /\ result'[t] = result[t]

Execute(t) ==
    /\ phase[t] = "open" /\ phase'[t] = "open"
    /\ executions[t] = 0 /\ executions'[t] = 1
    /\ codex'[t] = "running"
    /\ result'[t] = result[t]

(* Codex may finish after the task was given an outcome. *)
Finish(t) ==
    /\ codex[t] = "running" /\ codex'[t] \in {"completed", "failed"}
    /\ phase'[t] = phase[t] /\ executions'[t] = executions[t] /\ result'[t] = result[t]

Report(t, o) ==
    /\ phase[t] = "open" /\ phase'[t] = "ended"
    /\ o = "succeeded" => codex[t] = "completed"
    /\ result'[t] = o
    /\ executions'[t] = executions[t] /\ codex'[t] = codex[t]

Stays(t) ==
    /\ phase'[t] = phase[t] /\ executions'[t] = executions[t]
    /\ codex'[t] = codex[t] /\ result'[t] = result[t]

(* Several tasks may move at once: a restart of the control plane makes    *)
(* true what its files say of each of them.                                *)
Next ==
    /\ phase' = [t \in Tasks |-> phase'[t]] /\ executions' = [t \in Tasks |-> executions'[t]]
    /\ codex' = [t \in Tasks |-> codex'[t]] /\ result' = [t \in Tasks |-> result'[t]]
    /\ \A t \in Tasks :
          Submit(t) \/ Execute(t) \/ Finish(t) \/ Stays(t) \/ \E o \in Outcomes : Report(t, o)

Spec == Init /\ [][Next]_vars

=============================================================================
