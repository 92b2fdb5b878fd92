-------------------------- MODULE ExecutionStatuses --------------------------
(***************************************************************************)
(* The state machines of execution-runtime/state-machine.ts: which status  *)
(* of a step and of a task may follow which.                               *)
(***************************************************************************)

Active == {"dispatching", "running", "waiting_report", "verifying"}

\* STEP_TRANSITIONS; "absent" is a step that is not in the definition yet.
StepMoves ==
    [absent |-> {},
     pending |-> {"waiting_dependency", "ready", "cancelled"},
     waiting_dependency |-> {"ready", "blocked", "cancelled"},
     ready |-> {"dispatching", "blocked", "waiting_human", "cancelled"},
     dispatching |-> {"running", "verifying", "waiting_human", "blocked", "outcome_unknown",
                      "failed", "cancelled"},
     running |-> {"waiting_report", "verifying", "fix_required", "waiting_human", "blocked",
                  "outcome_unknown", "failed", "cancelled"},
     waiting_report |-> {"running", "verifying", "fix_required", "waiting_human", "blocked",
                         "outcome_unknown", "failed", "cancelled"},
     verifying |-> {"completed", "fix_required", "waiting_human", "blocked",
                    "outcome_unknown", "failed", "cancelled"},
     fix_required |-> {"dispatching", "running", "verifying", "waiting_human", "blocked",
                       "failed", "cancelled"},
     waiting_human |-> {"ready", "dispatching", "running", "verifying", "fix_required",
                        "blocked", "failed", "cancelled"},
     blocked |-> {"ready", "dispatching", "running", "fix_required", "waiting_human",
                  "failed", "cancelled"},
     failed |-> {"ready", "cancelled"},
     completed |-> {},
     cancelled |-> {},
     outcome_unknown |-> {"waiting_human", "failed", "cancelled"}]

Statuses == DOMAIN StepMoves

\* TASK_TRANSITIONS, for the statuses somebody asks for.
TaskMoves ==
    [ready |-> {"running", "blocked", "cancelled"},
     running |-> {"blocked", "completed", "cancelled"},
     blocked |-> {"ready", "running", "cancelled"},
     completed |-> {},
     cancelled |-> {}]

TaskStatuses == DOMAIN TaskMoves

MayMove(from, to) == from = to \/ to \in StepMoves[from]

MayMoveTask(from, to) == from = to \/ to \in TaskMoves[from]

=============================================================================
