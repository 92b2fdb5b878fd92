-------------------------- MODULE ExecutionRuntime --------------------------
(***************************************************************************)
(* The execution runtime of the desktop: one task of execution-runtime/    *)
(* runtime.ts, its store and event ledger, and the reporter through which  *)
(* executors report on their assignments.                                  *)
(*                                                                         *)
(* Operations on a task are queued (mutate), so each is one step: it reads *)
(* the snapshot, appends one or more lines to the ledger and replaces the  *)
(* snapshot.  An I/O error or a crash on the way leaves a ledger that is   *)
(* ahead of the snapshot, or that ends in a cut line, which no reader      *)
(* accepts.  Creation and the reporter's checks are outside of the queue:  *)
(* a report is looked up in the ledger, checked against the snapshot and   *)
(* only then queued, and it may be delivered several times, concurrently.  *)
(*                                                                         *)
(* Abstractions.  An assignment id is the ledger's length at its creation. *)
(* A ticket is the assignment it was issued for; bindings, signatures and  *)
(* expiry are left out, and so are skills and executors, which only refuse *)
(* assignments.  Lines without effect on steps (archive, bindings, skill   *)
(* preflights) are one action.  The order in which one operation releases  *)
(* several dependents is not kept.  reconcileReadiness finds nothing to    *)
(* release in any state the other operations leave.  Deletion is left out. *)
(***************************************************************************)
EXTENDS ExecutionStatuses, Integers, FiniteSets

CONSTANTS
    Steps,            \* step ids, those of later additions included
    Initial,          \* the steps createTask is given
    DependsOn,        \* dependsOn of every step
    Delivering,       \* steps whose completion gate asks for a required output
    MaxParallelSteps, \* of the task
    MaxAttempts,      \* maxAttempts of every step
    Targets,          \* statuses that users and bridges ask for
    Reports,          \* report ids
    Kinds,            \* what is reported
    Deliveries,       \* requests to the reporter that may be open at a time
    None,
    MaxLines,         \* bound: lines of the ledger
    MaxFaults         \* bound: operations that fail on the way

ASSUME StepsAssumption ==
    /\ IsFiniteSet(Steps)
    /\ None \notin Steps \cup Reports
    /\ DependsOn \in [Steps -> SUBSET Steps]
    /\ \A s \in Initial : s \in Steps /\ DependsOn[s] \subseteq Initial
ASSUME KindsAssumption ==
    Kinds \subseteq {"running", "blocked", "waiting_human", "PROGRESS_UPDATED",
                     "ARTIFACT_PRODUCED", "COMPLETION_REQUESTED"}
ASSUME NumbersAssumption == {MaxParallelSteps, MaxAttempts, MaxLines, MaxFaults} \subseteq Nat

VARIABLES
    snapshot,  \* snapshot.json
    lines,     \* the number of lines in events.jsonl
    logged,    \* what these lines say
    reported,  \* the lines that carry the id of a report
    cut,       \* the ledger ends in a line that was not written to its end
    creation,  \* where createTask is
    sent,      \* what the executors reported under each id
    open,      \* requests the reporter is working on
    accepted,  \* history: reports that were answered `accepted'
    faults     \* operations that failed so far

ledger == <<lines, logged, reported, cut>>
vars == <<snapshot, ledger, creation, sent, open, accepted, faults>>

-----------------------------------------------------------------------------
(* Statuses *)

ASSUME TargetsAssumption == Targets \subseteq Statuses

\* Statuses that somebody brought about.
Effective == Statuses \ {"absent", "pending", "waiting_dependency", "ready"}

\* What a new report finds the reporter refuse.
Closed == {"verifying", "completed", "cancelled", "failed", "outcome_unknown"}

-----------------------------------------------------------------------------
(* Snapshots and lines *)

Step == [status: Statuses, attempt: Nat, assignment: Nat]

Snapshot == [task: TaskStatuses, steps: [Steps -> Step], seq: Nat]

Types == {"task", "step", "assignment", "progress", "artifact", "completion", "passed",
          "failed"}

\* An artifact's line has no statuses.  The status a step had before is kept of
\* the lines of reports only.
Line == [type: Types, step: Steps \cup {None}, assignment: Nat, to: Statuses \cup {None}]

ReportLine == [seq: Nat, line: Line, from: Statuses \cup {None}]

Report == [kind: Kinds, step: Steps, ticket: Nat]

NoReport == [kind |-> None, step |-> None, ticket |-> 0]

\* phase: "none", "unseen" (not in the ledger), "admitted" (checked).
Idle == [report |-> None, phase |-> "none"]

Current(s) == snapshot.steps[s]

Defined == {s \in Steps : Current(s).status # "absent"}

DependencyReady(s, steps) == \A d \in DependsOn[s] : steps[d].status = "completed"

HasCapacity == Cardinality({s \in Steps : Current(s).status \in Active}) < MaxParallelSteps

\* initialStepRuntime, for a step whose dependencies are completed or not.
NewStep(ready) ==
    [status |-> IF ready THEN "ready" ELSE "waiting_dependency", attempt |-> 0,
     assignment |-> 0]

Absent == [status |-> "absent", attempt |-> 0, assignment |-> 0]

NewSnapshot ==
    [task |-> "ready", seq |-> 0,
     steps |-> [s \in Steps |-> IF s \in Initial THEN NewStep(DependsOn[s] = {}) ELSE Absent]]

StepLine(type, s, to) ==
    [type |-> type, step |-> s, assignment |-> Current(s).assignment, to |-> to]

TaskLine == [type |-> "task", step |-> None, assignment |-> 0, to |-> None]

\* The status of the step a line is about, as far as the line says it.
From(l) == IF l.to = None THEN None ELSE Current(l.step).status

WithStatus(s, to) == [snapshot EXCEPT !.steps[s].status = to]

-----------------------------------------------------------------------------
(* The ledger and the snapshot *)

\* The lines of an operation; the first one carries the id of report r.
Written(r, l, rest) ==
    /\ lines' = lines + 1 + Cardinality(rest)
    /\ logged' = logged \cup {l} \cup rest
    /\ reported' =
         IF r = None THEN reported
         ELSE [reported EXCEPT ![r] = @ \cup {[seq |-> lines + 1, line |-> l, from |-> From(l)]}]

\* The operation fails behind some of its lines, or inside of one.
Broken(r, l, rest) ==
    /\ faults < MaxFaults
    /\ faults' = faults + 1
    /\ UNCHANGED snapshot
    /\ \/ UNCHANGED <<lines, logged, reported>> /\ cut' = TRUE
       \/ \E part \in SUBSET rest :
             Written(r, l, part) /\ cut' \in {FALSE, part # rest}

\* Mutant: the snapshot is replaced first, and a failure leaves it without its lines.
RecordSnapshotFirst(r, l, rest, next) ==
    /\ lines + 1 + Cardinality(rest) <= MaxLines
    /\ \/ Written(r, l, rest) /\ UNCHANGED <<cut, faults>>
       \/ faults < MaxFaults /\ faults' = faults + 1 /\ UNCHANGED ledger
    /\ snapshot' = [next EXCEPT !.seq = lines + 1 + Cardinality(rest)]

\* writeDurableJson replaces the file and may then fail to sync its directory: the
\* operation took effect and its caller is told of an error.
Record(r, l, rest, next) ==
    /\ lines + 1 + Cardinality(rest) <= MaxLines
    /\ \/ /\ Written(r, l, rest)
          /\ snapshot' = [next EXCEPT !.seq = lines']
          /\ faults' \in {faults} \cup (IF faults < MaxFaults THEN {faults + 1} ELSE {})
          /\ UNCHANGED cut
       \/ Broken(r, l, rest)

\* The id of the report is in the ledger: the line must be the same and is not
\* written again; the snapshot is.
Repeat(r, l, next) ==
    /\ \E x \in reported[r] :
          /\ x.line = l /\ x.from = From(l)
          /\ snapshot' = [next EXCEPT !.seq = IF @ < x.seq THEN x.seq ELSE @]
    /\ UNCHANGED <<ledger, faults>>

\* Mutant: the ledger is not searched for the id.
AppendAlways(r, l, rest, next) == Record(r, l, rest, next)

\* appendEvent for the first line of an operation, and all that follows it.
Append(r, l, rest, next) ==
    IF r # None /\ reported[r] # {} THEN Repeat(r, l, next) ELSE Record(r, l, rest, next)

\* The task can be read.
Readable == creation.pc # "no" /\ ~cut

-----------------------------------------------------------------------------
(* Operations of the runtime.  r is the report they are called for or None. *)

Init ==
    /\ snapshot = NewSnapshot
    /\ lines = 0
    /\ logged = {}
    /\ reported = [r \in Reports |-> {}]
    /\ cut = FALSE
    /\ creation = [pc |-> "no", seq |-> 0]
    /\ sent = [r \in Reports |-> NoReport]
    /\ open = [d \in Deliveries |-> Idle]
    /\ accepted = {}
    /\ faults = 0

\* createTask: the directory and a first snapshot; others see the task from now on.
CreateTask ==
    /\ creation.pc = "no"
    /\ creation' = [creation EXCEPT !.pc = "initialized"]
    /\ UNCHANGED <<snapshot, ledger, faults>>

\* createTask: the line `task.created', behind those of others.
RecordCreation ==
    /\ creation.pc = "initialized" /\ ~cut /\ lines < MaxLines
    /\ \/ /\ Written(None, TaskLine, {})
          /\ creation' = [pc |-> "recorded", seq |-> lines']
          /\ UNCHANGED <<cut, faults>>
       \/ Broken(None, TaskLine, {}) /\ creation' = [creation EXCEPT !.pc = "done"]
    /\ UNCHANGED snapshot

\* createTask: the snapshot as it was initialized, with the sequence of its line.
\* It is refused when steps were added in between.
FinishCreation ==
    /\ creation.pc = "recorded"
    /\ creation' = [creation EXCEPT !.pc = "done"]
    /\ snapshot' = IF Defined = Initial THEN [NewSnapshot EXCEPT !.seq = creation.seq]
                   ELSE snapshot
    /\ UNCHANGED <<ledger, faults>>

AddStep(s) ==
    /\ Current(s).status = "absent" /\ DependsOn[s] \subseteq Defined
    /\ snapshot.task \notin {"completed", "cancelled"}
    /\ LET ready == DependencyReady(s, snapshot.steps)
       IN  Append(None, StepLine("step", s, NewStep(ready).status), {},
                  [snapshot EXCEPT !.steps[s] = NewStep(ready)])

\* transitionTask, as the autonomous task loop calls it.
TransitionTask(to) ==
    /\ MayMoveTask(snapshot.task, to)
    /\ Append(None, TaskLine, {}, [snapshot EXCEPT !.task = to])

CreateAssignment(s) ==
    /\ Current(s).status \in {"ready", "fix_required"}
    /\ snapshot.task \notin {"completed", "cancelled"}
    /\ Current(s).attempt < MaxAttempts
    /\ DependencyReady(s, snapshot.steps)
    /\ HasCapacity
    /\ LET line == [StepLine("assignment", s, "dispatching") EXCEPT !.assignment = lines + 1]
       IN  Append(None, line, {},
                  [snapshot EXCEPT
                     !.task = IF @ = "ready" THEN "running" ELSE @,
                     !.steps[s] = [status |-> "dispatching", attempt |-> @.attempt + 1,
                                   assignment |-> lines + 1]])

\* Every step has ended and some were cancelled.
GivenUp(steps) ==
    /\ \A s \in Defined : steps[s].status \in {"completed", "cancelled"}
    /\ \E s \in Defined : steps[s].status = "cancelled"

\* What the step's end means for the task: the line for it, if any, and the status.
Ends(next) == next.task # "cancelled" /\ GivenUp(next.steps)

TransitionStep(s, to, r) ==
    /\ Current(s).status # "absent"
    /\ to \notin {"completed", "verifying"}
    /\ MayMove(Current(s).status, to)
    /\ to = "ready" => DependencyReady(s, snapshot.steps)
    /\ to \in Active /\ Current(s).status \notin Active
          => Current(s).assignment # 0 /\ HasCapacity
    /\ LET next == WithStatus(s, to)
       IN  IF Ends(next)
           THEN Append(r, StepLine("step", s, to), {TaskLine}, [next EXCEPT !.task = "cancelled"])
           ELSE Append(r, StepLine("step", s, to), {}, next)

RecordProgress(s, r) ==
    /\ Current(s).status \in {"dispatching", "running", "waiting_report", "fix_required"}
    /\ Append(r, StepLine("progress", s, "running"), {}, WithStatus(s, "running"))

RecordArtifact(s, r) ==
    /\ Current(s).status # "absent"
    /\ Append(r, StepLine("artifact", s, None), {}, snapshot)

RequestCompletion(s, r) ==
    /\ Current(s).assignment # 0
    /\ Current(s).status \in Active \/ HasCapacity
    /\ MayMove(Current(s).status, "verifying")
    /\ Append(r, StepLine("completion", s, "verifying"), {}, WithStatus(s, "verifying"))

\* Mutant: outputs are asked for in a review by a human only.
HasOutputsUnchecked(s) == TRUE

\* The required outputs were reported for the current assignment.
HasOutputs(s) ==
    s \in Delivering =>
        \E l \in logged : /\ l.type = "artifact" /\ l.step = s
                         /\ l.assignment = Current(s).assignment

\* Steps that wait for nothing any more.
Freed(steps) ==
    {s \in Steps : steps[s].status = "waiting_dependency" /\ DependencyReady(s, steps)}

\* The step is completed, its dependents are released and the task may end.  A
\* task that is neither running nor completed cannot: the call fails behind its
\* first line.
GatePassed(s) ==
    /\ Current(s).status = "verifying"
    /\ HasOutputs(s)
    /\ LET done == WithStatus(s, "completed").steps
           freed == Freed(done)
           next == [snapshot EXCEPT !.steps =
                      [x \in Steps |-> IF x \in freed THEN [done[x] EXCEPT !.status = "ready"]
                                       ELSE done[x]]]
           passed == StepLine("passed", s, "completed")
           released == {StepLine("step", x, "ready") : x \in freed}
           all == \A x \in Defined : done[x].status = "completed"
       IN  \/ all /\ MayMoveTask(snapshot.task, "completed")
              /\ Append(None, passed, {TaskLine}, [next EXCEPT !.task = "completed"])
           \/ /\ all /\ ~MayMoveTask(snapshot.task, "completed")
              /\ lines < MaxLines
              /\ \/ Written(None, passed, {}) /\ UNCHANGED <<snapshot, cut, faults>>
                 \/ Broken(None, passed, {})
           \/ ~all /\ GivenUp(done)
              /\ Append(None, passed, {TaskLine}, [next EXCEPT !.task = "cancelled"])
           \/ ~all /\ ~GivenUp(done) /\ Append(None, passed, released, next)

GateFailed(s) ==
    /\ Current(s).status = "verifying"
    /\ Append(None, StepLine("failed", s, "fix_required"), {}, WithStatus(s, "fix_required"))

\* setTaskArchived, bindSession, updateSessionBindingState, recordSkillPreflight.
Note == Append(None, TaskLine, {}, snapshot)

-----------------------------------------------------------------------------
(* The reporter *)

\* A ticket is issued and a report is made under it.
Send(r, s, k) ==
    /\ Readable /\ sent[r] = NoReport
    /\ Current(s).assignment # 0 /\ Current(s).status \notin Closed
    /\ sent' = [sent EXCEPT ![r] = [kind |-> k, step |-> s, ticket |-> Current(s).assignment]]
    /\ UNCHANGED <<open, accepted>>

\* The ticket's assignment is the one its step works on.
InScope(r) == Current(sent[r].step).assignment = sent[r].ticket

\* report: the ledger is read.  An id that is there is answered once the
\* snapshot is not behind it.
Deliver(d, r) ==
    /\ Readable /\ sent[r] # NoReport /\ open[d] = Idle
    /\ \/ /\ reported[r] = {}
          /\ open' = [open EXCEPT ![d] = [report |-> r, phase |-> "unseen"]]
          /\ UNCHANGED accepted
       \/ /\ reported[r] # {} /\ InScope(r)
          /\ \A x \in reported[r] : x.seq <= snapshot.seq
          /\ accepted' = accepted \cup {r}
          /\ UNCHANGED open
    /\ UNCHANGED sent

\* report: scope and status are checked.
Admit(d) ==
    /\ Readable /\ open[d].phase = "unseen"
    /\ InScope(open[d].report)
    /\ Current(sent[open[d].report].step).status \notin Closed
    /\ open' = [open EXCEPT ![d].phase = "admitted"]
    /\ UNCHANGED <<sent, accepted>>

\* The operation the report stands for.  SESSION_STARTED, BLOCKED and WAITING_HUMAN
\* are named by the status they ask for.
Reported(r, s, k) ==
    \/ k \in {"running", "blocked", "waiting_human"} /\ TransitionStep(s, k, r)
    \/ k = "PROGRESS_UPDATED" /\ RecordProgress(s, r)
    \/ k = "ARTIFACT_PRODUCED" /\ RecordArtifact(s, r)
    \/ k = "COMPLETION_REQUESTED" /\ RequestCompletion(s, r)

\* report: the operation, queued behind those of others, and the answer.  It may be
\* lost: an executor repeats whatever it likes.
Land(d) ==
    LET r == open[d].report
    IN  /\ Readable /\ open[d].phase = "admitted"
        /\ Reported(r, sent[r].step, sent[r].kind)
        /\ accepted' = IF faults' = faults THEN accepted \cup {r} ELSE accepted
        /\ open' = [open EXCEPT ![d] = Idle]
        /\ UNCHANGED sent

\* A check or the operation refused the report, or the connection broke.
Drop(d) ==
    /\ open[d] # Idle
    /\ open' = [open EXCEPT ![d] = Idle]
    /\ UNCHANGED <<sent, accepted>>

\* The process ends between two operations and is started again.
Crash ==
    /\ open' = [d \in Deliveries |-> Idle]
    /\ creation' = IF creation.pc = "no" THEN creation ELSE [creation EXCEPT !.pc = "done"]
    /\ UNCHANGED <<snapshot, ledger, sent, accepted, faults>>

-----------------------------------------------------------------------------
Creating == CreateTask \/ RecordCreation \/ FinishCreation

\* What users, bridges and the autonomous loop call.
Operating ==
    /\ Readable
    /\ \/ \E s \in Steps :
             \/ AddStep(s)
             \/ CreateAssignment(s)
             \/ \E to \in Targets : TransitionStep(s, to, None)
             \/ RecordProgress(s, None)
             \/ RequestCompletion(s, None)
             \/ GatePassed(s)
             \/ GateFailed(s)
       \/ \E to \in {"blocked", "ready"} : TransitionTask(to)
       \/ Note

Requesting ==
    \/ \E r \in Reports, s \in Steps, k \in Kinds : Send(r, s, k)
    \/ \E d \in Deliveries : (\E r \in Reports : Deliver(d, r)) \/ Admit(d) \/ Drop(d)

Next ==
    \/ Creating /\ UNCHANGED <<sent, open, accepted>>
    \/ Operating /\ UNCHANGED <<creation, sent, open, accepted>>
    \/ Requesting /\ UNCHANGED <<snapshot, ledger, creation, faults>>
    \/ (\E d \in Deliveries : Land(d)) /\ UNCHANGED creation
    \/ Crash

Spec == Init /\ [][Next]_vars

-----------------------------------------------------------------------------
(* Properties *)

TypeOK ==
    /\ snapshot \in Snapshot
    /\ lines \in Nat
    /\ logged \subseteq Line
    /\ reported \in [Reports -> SUBSET ReportLine]
    /\ cut \in BOOLEAN
    /\ creation \in [pc: {"no", "initialized", "recorded", "done"}, seq: Nat]
    /\ sent \in [Reports -> Report \cup {NoReport}]
    /\ open \in [Deliveries -> [report: Reports \cup {None}, phase: {"none", "unseen", "admitted"}]]
    /\ accepted \subseteq Reports
    /\ faults \in Nat

(* Nothing is in effect that the ledger does not say: an executor's status *)
(* has its line, for the same assignment, and the snapshot never counts    *)
(* lines the ledger does not have, whatever fails between the two writes   *)
(* (appendEvent before writeSnapshot, the corruption check of reconcile).  *)
EffectsAreLogged ==
    /\ snapshot.seq <= lines
    /\ \A s \in Steps :
          Current(s).status \in Effective =>
             \E l \in logged : /\ l.step = s /\ l.to = Current(s).status
                              /\ l.assignment = Current(s).assignment

(* Only the completion gate completes a step: a completed one was passed   *)
(* under its current assignment, which asked for it, had its required      *)
(* outputs, and began when all dependencies were completed, however late   *)
(* reports land, and behind every failure (gatePassed, requestCompletion). *)
OnlyGateCompletes ==
    /\ \A s \in Steps : Current(s).status = "completed" =>
        /\ {"completion", "passed"} \cup (IF s \in Delivering THEN {"artifact"} ELSE {}) \subseteq
              {l.type : l \in {l \in logged : l.step = s /\ l.assignment = Current(s).assignment}}
        /\ \A d \in DependsOn[s] : Current(d).status = "completed"
    /\ snapshot.task = "completed" => \A s \in Defined : Current(s).status = "completed"

(* A report has at most one line, however often it is delivered, and what  *)
(* was answered as accepted has one (appendEvent, report).                 *)
ReportsLandOnce ==
    \A r \in Reports :
        /\ \A x, y \in reported[r] : x = y
        /\ r \in accepted => reported[r] # {}
        /\ \A x \in reported[r] : x.line \in logged /\ x.seq <= lines

=============================================================================
