---------------------------- MODULE AutonomousLoop ----------------------------
(***************************************************************************)
(* The autonomous task loop of worker-runtime/v2/autonomous-task-loop.ts   *)
(* over the claims of lifecycle-runtime.ts: one project with a root goal   *)
(* and the repairs that interrupt it.                                      *)
(*                                                                         *)
(* One pass of the loop at a time ingests candidates and then tends every  *)
(* task: it launches a Web GPT session for a ready step, claims the step   *)
(* for it and wakes it up, and readies the root goal again once a repair   *)
(* is completed.  Every await is a place where others come in between: the *)
(* sessions that users open, which claim and complete through the same     *)
(* queue of a task, the gate, and humans.  The dispatch row, the receipt   *)
(* and the stored answers survive a crash, the pass and the calls do not.  *)
(*                                                                         *)
(* Abstractions.  A task has one step, which goes to Web GPT, and an       *)
(* exclusive claim.  Only the first attempt of a step is dispatched (a     *)
(* step with an assignment is skipped), so a task has one dispatch row,    *)
(* and it keeps at most one session, which has the task's name here.  The  *)
(* attention budget is not used up.  Shared memory, work logs, artifacts   *)
(* and archived tasks are left out.  A session makes one call at a time,   *)
(* and one the loop launched claims through the loop only.                 *)
(***************************************************************************)
EXTENDS ExecutionStatuses, Integers, FiniteSets

CONSTANTS
    Root,         \* the root goal
    Repairs,      \* the tasks of INTERRUPT candidates against it
    Strangers,    \* sessions the loop did not launch
    None,
    MaxAttempts,  \* maxAttempts of every step
    MaxMoves,     \* bound: claims of strangers, and what humans and executors do to a step
    MaxFaults     \* bound: restarts, and gpt.create and gpt.sendWakeup that fail

ASSUME NamesAssumption ==
    /\ Root \notin Repairs
    /\ Strangers \cap (Repairs \cup {Root}) = {}
    /\ None \notin Repairs \cup Strangers \cup {Root}
ASSUME LoopBoundsAssumption == {MaxAttempts, MaxMoves, MaxFaults} \subseteq Nat

VARIABLES
    task,      \* the execution tasks
    row,       \* autonomous_task_dispatch
    receipt,   \* autonomous_parent_resume
    session,   \* agent_lifecycle_sessions and their active claims
    answer,    \* the stored answer to the loop's claim of every task
    call,      \* the call at the head of a task's queue in the lifecycle runtime
    loop,      \* where the pass of the loop is
    launches,  \* history: sessions launched for a task
    resumes,   \* history: times a repair readied the step of the root goal
    cut,       \* history: crashes of a repair's resumption between transitions and receipt
    returned,  \* history: tasks whose step was readied again
    moves, failures, crashes

queue == <<session, answer, call>>
durable == <<row, receipt>>
history == <<launches, resumes, cut, returned>>
faults == <<failures, crashes>>
vars == <<task, durable, queue, loop, history, moves, faults>>

-----------------------------------------------------------------------------
Tasks == Repairs \cup {Root}

Sessions == Tasks \cup Strangers

\* attempt: 0 is a step without an assignment.  linked: the parentStepId of a repair.
Task == [status: TaskStatuses \cup {"absent"}, step: Statuses, attempt: 0..MaxAttempts,
         linked: BOOLEAN]

NewTask(status, linked) == [status |-> status, step |-> status, attempt |-> 0, linked |-> linked]

\* kept: the row has a session id.
Row == [state: {"none", "RESERVED", "SESSION_CREATED", "CLAIMED", "WAKEUP_SENT", "ABORTED"},
        kept: BOOLEAN]

\* A claim is the attempt it was made for, 0 without a step.  bound: the session has the
\* step's id, which is of no use to it without a claim.
NoClaim == -1

Session == [task: Tasks \cup {None}, bound: BOOLEAN, claim: NoClaim..MaxAttempts]

NoCall == [session |-> None, at |-> "none", step |-> FALSE]

\* step: the claim found a step to assign, or the completing session has one.
Call == [session: Sessions, at: {"look", "assign", "progress", "record", "before", "request", "release"},
         step: BOOLEAN]

\* Where the pass can be.  todo: tasks it has still to tend.
Loop == [at: {"between", "blockStep", "blockTask", "launch", "create", "refuse", "claim",
              "claiming", "claimed", "refused", "handBack", "wake", "resume", "readyStep",
              "readyTask", "resumed"},
         task: Tasks \cup {None}, todo: SUBSET Tasks]

Between(todo) == [at |-> "between", task |-> None, todo |-> todo]

Resting == Between({})

Exists(t) == task[t].status # "absent"

Ended == {"completed"}

Claimants(t) == {s \in Sessions : session[s].task = t /\ session[s].claim # NoClaim}

-----------------------------------------------------------------------------
(* The execution runtime, as far as the loop and the sessions use it *)

\* transitionStep and transitionTask refuse what the state machine does not allow.
MoveStep(t, to) ==
    task' = IF MayMove(task[t].step, to) THEN [task EXCEPT ![t].step = to] ELSE task

MoveTask(t, to) ==
    task' = IF MayMoveTask(task[t].status, to) THEN [task EXCEPT ![t].status = to] ELSE task

Assignable(t) ==
    /\ task[t].step \in {"ready", "fix_required"}
    /\ task[t].status \notin Ended
    /\ task[t].attempt < MaxAttempts

-----------------------------------------------------------------------------
Init ==
    /\ task = [t \in Tasks |-> NewTask(IF t = Root THEN "ready" ELSE "absent", FALSE)]
    /\ row = [t \in Tasks |-> [state |-> "none", kept |-> FALSE]]
    /\ receipt = [c \in Repairs |-> "none"]
    /\ session = [s \in Sessions |-> [task |-> None, bound |-> FALSE, claim |-> NoClaim]]
    /\ answer = [t \in Tasks |-> "none"]
    /\ call = [t \in Tasks |-> NoCall]
    /\ loop = Resting
    /\ launches = [t \in Tasks |-> 0]
    /\ resumes = [c \in Repairs |-> 0]
    /\ cut = [c \in Repairs |-> 0]
    /\ returned = {}
    /\ moves = 0
    /\ failures = 0
    /\ crashes = 0

Goto(at) == loop' = [loop EXCEPT !.at = at]

At(at, t) == loop.at = at /\ loop.task = t

-----------------------------------------------------------------------------
(* Calls of the lifecycle runtime.  One call of a task at a time (mutate);  *)
(* getTask, createAssignment, recordProgress and requestCompletion are its  *)
(* awaits.                                                                  *)

Free(t) == call[t] = NoCall

CallAt(t, at) == call[t].at = at

\* The call is over.  A claim's answer is stored under its idempotency key, an error is
\* not, and the loop hears of the one it waits for.
Answered(t, a) ==
    /\ call' = [call EXCEPT ![t] = NoCall]
    /\ IF call[t].session = t
       THEN /\ answer' = IF a = "error" THEN answer ELSE [answer EXCEPT ![t] = a]
            /\ Goto(IF a = "CLAIMED" THEN "claimed" ELSE "refused")
       ELSE UNCHANGED <<answer, loop>>

\* taskClaim of a session that users opened, with the session.start before it.
StrangerClaims(s, t) ==
    /\ Exists(t) /\ Free(t) /\ session[s].task \in {None, t}
    /\ session[s].claim = NoClaim
    /\ moves < MaxMoves
    /\ moves' = moves + 1
    /\ session' = [session EXCEPT ![s].task = t]
    /\ call' = [call EXCEPT ![t] = [session |-> s, at |-> "look", step |-> FALSE]]
    /\ UNCHANGED <<task, durable, answer, loop, history, faults>>

\* Mutant: somebody else's exclusive claim is not looked for.
NeverLocked(s, t) == FALSE

Locked(s, t) == Claimants(t) \ {s} # {}

\* taskClaim: the snapshot and the claims.
ClaimLooks(t) ==
    LET s == call[t].session
    IN  /\ CallAt(t, "look")
        /\ \/ task[t].status \in Ended /\ Answered(t, "error")
           \/ /\ task[t].status \notin Ended /\ session[s].claim # NoClaim
              /\ Answered(t, "CLAIMED")
           \/ /\ task[t].status \notin Ended /\ session[s].claim = NoClaim
              /\ Locked(s, t)
              /\ Answered(t, "LOCKED")
           \/ /\ task[t].status \notin Ended /\ session[s].claim = NoClaim
              /\ ~Locked(s, t)
              /\ LET found == task[t].step \in {"ready", "fix_required"}
                 IN  call' = [call EXCEPT ![t].at = IF found THEN "assign" ELSE "record",
                                         ![t].step = found]
              /\ UNCHANGED <<answer, loop>>
        /\ UNCHANGED <<task, durable, session, history, moves, faults>>

ClaimAssigns(t) ==
    /\ CallAt(t, "assign")
    /\ \/ /\ Assignable(t)
          /\ task' = [task EXCEPT ![t].step = "dispatching", ![t].attempt = @ + 1,
                                  ![t].status = IF @ = "ready" THEN "running" ELSE @]
          /\ call' = [call EXCEPT ![t].at = "progress"]
          /\ UNCHANGED <<answer, loop>>
       \/ ~Assignable(t) /\ Answered(t, "error") /\ UNCHANGED task
    /\ UNCHANGED <<durable, session, history, moves, faults>>

\* bindSession and recordProgress.
ClaimProgresses(t) ==
    /\ CallAt(t, "progress")
    /\ \/ /\ task[t].step \in {"dispatching", "running", "waiting_report", "fix_required"}
          /\ task' = [task EXCEPT ![t].step = "running"]
          /\ call' = [call EXCEPT ![t].at = "record"]
          /\ UNCHANGED <<answer, loop>>
       \/ /\ task[t].step \notin {"dispatching", "running", "waiting_report", "fix_required"}
          /\ Answered(t, "error")
          /\ UNCHANGED task
    /\ UNCHANGED <<durable, session, history, moves, faults>>

\* createClaim, updateSessionBinding and the answer.
ClaimRecords(t) ==
    /\ CallAt(t, "record")
    /\ session' = [session EXCEPT
                     ![call[t].session].claim = IF call[t].step THEN task[t].attempt ELSE 0,
                     ![call[t].session].bound = call[t].step]
    /\ Answered(t, IF call[t].step THEN "CLAIMED" ELSE "WAITING")
    /\ UNCHANGED <<task, durable, history, moves, faults>>

Claiming(t) == ClaimLooks(t) \/ ClaimAssigns(t) \/ ClaimProgresses(t) \/ ClaimRecords(t)

\* taskComplete of a session that has claimed, and that was woken up if the loop launched it.
Complete(s) ==
    LET t == session[s].task
    IN  /\ t # None
        /\ Free(t) /\ session[s].claim # NoClaim
        /\ s \in Tasks => row[s].state = "WAKEUP_SENT"
        /\ call' = [call EXCEPT ![t] = [session |-> s, at |-> "before", step |-> session[s].bound]]
        /\ UNCHANGED <<task, durable, session, answer, loop, history, moves, faults>>

\* taskComplete: the snapshot decides whether completion is requested.
CompleteLooks(t) ==
    /\ CallAt(t, "before")
    /\ call' = [call EXCEPT ![t].at =
                  IF /\ call[t].step
                     /\ task[t].step \in {"dispatching", "running", "waiting_report", "fix_required"}
                  THEN "request" ELSE "release"]
    /\ UNCHANGED <<task, durable, session, answer, loop, history, moves, faults>>

CompleteRequests(t) ==
    /\ CallAt(t, "request")
    /\ \/ /\ MayMove(task[t].step, "verifying")
          /\ task' = [task EXCEPT ![t].step = "verifying"]
          /\ call' = [call EXCEPT ![t].at = "release"]
       \/ /\ ~MayMove(task[t].step, "verifying")
          /\ call' = [call EXCEPT ![t] = NoCall]
          /\ UNCHANGED task
    /\ UNCHANGED <<durable, session, answer, loop, history, moves, faults>>

CompleteReleases(t) ==
    /\ CallAt(t, "release")
    /\ session' = [session EXCEPT ![call[t].session].claim = NoClaim,
                                 ![call[t].session].bound = FALSE]
    /\ call' = [call EXCEPT ![t] = NoCall]
    /\ UNCHANGED <<task, durable, answer, loop, history, moves, faults>>

Serve(t) == Claiming(t) \/ CompleteLooks(t) \/ CompleteRequests(t) \/ CompleteReleases(t)

-----------------------------------------------------------------------------
(* The pass: candidates *)

\* Statuses of a step that a repair is linked to.
Interruptible == {"running", "dispatching", "waiting_report", "verifying", "fix_required", "ready",
                  "blocked", "waiting_human"}

\* ingest: the repair's task.  What the root goal was like is read before it.
Ingest(c) ==
    /\ loop = Resting /\ ~Exists(c)
    /\ LET linked == task[Root].step \in Interruptible
       IN  /\ task' = [task EXCEPT ![c] = NewTask("ready", linked)]
           /\ loop' = IF ~linked THEN Resting
                      ELSE [at |-> IF task[Root].step = "blocked" THEN "blockTask" ELSE "blockStep",
                            task |-> c, todo |-> {}]
    /\ UNCHANGED <<durable, queue, history, moves, faults>>

\* ingest: an error ends it, the pass goes on.
BlockStep(c) ==
    /\ At("blockStep", c)
    /\ MoveStep(Root, "blocked")
    /\ loop' = IF task'[Root].step = "blocked" THEN [loop EXCEPT !.at = "blockTask"] ELSE Resting
    /\ UNCHANGED <<durable, queue, history, moves, faults>>

BlockTask(c) ==
    /\ At("blockTask", c)
    /\ MoveTask(Root, "blocked")
    /\ loop' = Resting
    /\ UNCHANGED <<durable, queue, history, moves, faults>>

-----------------------------------------------------------------------------
(* The pass: tending a task *)

BeginPass ==
    /\ loop = Resting
    /\ loop' = Between({t \in Tasks : Exists(t)})
    /\ UNCHANGED <<task, durable, queue, history, moves, faults>>

\* What the pass does after it has tended the task.
Tended(t) == IF t \in Repairs THEN Goto("resume") ELSE loop' = Between(loop.todo)

\* Mutant: only claims are taken up again.
PendingClaims(t) ==
    IF row[t].kept /\ task[t].attempt = 1 /\ row[t].state = "SESSION_CREATED" THEN {"claim"}
    ELSE {}

\* resumeWakeup: what is left to do for the first attempt.
Pending(t) ==
    IF row[t].kept /\ task[t].attempt = 1
    THEN {at \in {"claim", "wake"} :
            row[t].state = IF at = "claim" THEN "SESSION_CREATED" ELSE "CLAIMED"}
    ELSE {}

\* reconcileTask.  Only a step that is ready is dispatchable.
Tend(t) ==
    /\ loop.at = "between" /\ t \in loop.todo
    /\ \E at \in IF Pending(t) # {} THEN Pending(t)
                 ELSE IF task[t].status \notin Ended /\ task[t].step = "ready" THEN {"launch"}
                 ELSE {"resume"} :
          loop' = IF at = "resume" /\ t \notin Repairs THEN Between(loop.todo \ {t})
                  ELSE [at |-> at, task |-> t, todo |-> loop.todo \ {t}]
    /\ UNCHANGED <<task, durable, queue, history, moves, faults>>

\* Mutant: a reservation without a session is used again.
OutcomeKnown(t) == FALSE

OutcomeUnknown(t) == row[t].state = "RESERVED" /\ ~row[t].kept

SetRow(t, state) == row' = [row EXCEPT ![t].state = state]

\* launchGpt: the dispatch row.
LaunchGpt(t) ==
    /\ At("launch", t)
    /\ \/ /\ task[t].attempt > 0 \/ row[t].state = "WAKEUP_SENT"
          /\ Tended(t)
          /\ UNCHANGED row
       \/ /\ task[t].attempt = 0 /\ OutcomeUnknown(t)
          /\ SetRow(t, "ABORTED")
          /\ Goto("refuse")
       \/ /\ task[t].attempt = 0 /\ ~OutcomeUnknown(t) /\ row[t].state # "WAKEUP_SENT"
          /\ row' = IF row[t].state = "none" THEN [row EXCEPT ![t].state = "RESERVED"] ELSE row
          /\ Goto(IF row[t].kept THEN "claim" ELSE "create")
    /\ UNCHANGED <<task, receipt, queue, history, moves, faults>>

\* launchGpt: gpt.create.  One that fails may have created the session.
Create(t) ==
    /\ At("create", t)
    /\ \/ /\ launches' = [launches EXCEPT ![t] = @ + 1]
          /\ row' = [row EXCEPT ![t] = [state |-> "SESSION_CREATED", kept |-> TRUE]]
          /\ Goto("claim")
          /\ UNCHANGED failures
       \/ /\ failures + crashes < MaxFaults
          /\ failures' = failures + 1
          /\ launches' \in {launches, [launches EXCEPT ![t] = @ + 1]}
          /\ SetRow(t, "ABORTED")
          /\ Goto("refuse")
    /\ UNCHANGED <<task, receipt, queue, resumes, cut, returned, moves, crashes>>

\* launchGpt: the step is given to a human, whoever works on it now.
Refuse(t) ==
    /\ At("refuse", t)
    /\ MoveStep(t, "waiting_human")
    /\ Tended(t)
    /\ UNCHANGED <<durable, queue, history, moves, faults>>

\* resumeClaim: session.start and task.claim.  A stored answer is given again.
ResumeClaim(t) ==
    /\ At("claim", t) /\ Free(t)
    /\ session' = [session EXCEPT ![t].task = t]
    /\ IF answer[t] # "none"
       THEN Goto(IF answer[t] = "CLAIMED" THEN "claimed" ELSE "refused") /\ UNCHANGED call
       ELSE /\ call' = [call EXCEPT ![t] = [session |-> t, at |-> "look", step |-> FALSE]]
            /\ Goto("claiming")
    /\ UNCHANGED <<task, durable, answer, history, moves, faults>>

\* resumeClaim: the answer.
Claimed(t) ==
    /\ \/ At("claimed", t) /\ SetRow(t, "CLAIMED") /\ Goto("wake")
       \/ At("refused", t) /\ SetRow(t, "ABORTED") /\ Goto("handBack")
    /\ UNCHANGED <<task, receipt, queue, history, moves, faults>>

HandBack(t) ==
    /\ At("handBack", t)
    /\ IF task[t].step = "ready" THEN MoveStep(t, "waiting_human") ELSE UNCHANGED task
    /\ Tended(t)
    /\ UNCHANGED <<durable, queue, history, moves, faults>>

\* sendWakeup: what fails leaves the row as it is, and may have arrived.
SendWakeup(t) ==
    /\ At("wake", t)
    /\ \/ SetRow(t, "WAKEUP_SENT") /\ UNCHANGED failures
       \/ failures + crashes < MaxFaults /\ failures' = failures + 1 /\ UNCHANGED row
    /\ Tended(t)
    /\ UNCHANGED <<task, receipt, queue, history, moves, crashes>>

-----------------------------------------------------------------------------
(* The pass: reconcileParentResume *)

SetReceipt(c, state) == receipt' = [receipt EXCEPT ![c] = state]

Done == loop' = Between(loop.todo)

Resumable(c) == receipt[c] # "RESUMED"

Resume(t) ==
    /\ At("resume", t)
    /\ IF t \in Repairs /\ task[t].status = "completed" /\ Resumable(t)
       THEN IF task[Root].status \in Ended
            THEN SetReceipt(t, "WAITING_HUMAN") /\ Done
            ELSE /\ receipt' = [receipt EXCEPT ![t] = IF @ = "none" THEN "PENDING" ELSE @]
                 /\ Goto(IF /\ task[t].linked
                            /\ task[Root].step \in {"blocked", "waiting_human", "failed"}
                         THEN "readyStep" ELSE "readyTask")
       ELSE Done /\ UNCHANGED receipt
    /\ UNCHANGED <<task, row, queue, history, moves, faults>>

\* An error ends it until the next pass.
ReadyStep(t) ==
    /\ At("readyStep", t)
    /\ MoveStep(Root, "ready")
    /\ IF MayMove(task[Root].step, "ready")
       THEN /\ Goto("readyTask")
            /\ resumes' = [resumes EXCEPT ![t] = @ + 1]
            /\ returned' = returned \cup {Root}
       ELSE Done /\ UNCHANGED <<resumes, returned>>
    /\ UNCHANGED <<durable, queue, launches, cut, moves, faults>>

ReadyTask(t) ==
    /\ At("readyTask", t)
    /\ IF task[Root].status = "blocked" THEN MoveTask(Root, "ready") ELSE UNCHANGED task
    /\ Goto("resumed")
    /\ UNCHANGED <<durable, queue, history, moves, faults>>

Resumed(t) ==
    /\ At("resumed", t)
    /\ SetReceipt(t, "RESUMED")
    /\ Done
    /\ UNCHANGED <<task, row, queue, history, moves, faults>>

Launching(t) ==
    \/ LaunchGpt(t) \/ Create(t) \/ Refuse(t)
    \/ ResumeClaim(t) \/ Claimed(t) \/ HandBack(t) \/ SendWakeup(t)

Resuming(t) == Resume(t) \/ ReadyStep(t) \/ ReadyTask(t) \/ Resumed(t)

Pass ==
    \/ BeginPass
    \/ \E t \in Tasks : Tend(t) \/ Launching(t)
    \/ \E c \in Repairs : Ingest(c) \/ BlockStep(c) \/ BlockTask(c)
    \/ \E t \in Tasks : Resuming(t)

-----------------------------------------------------------------------------
(* Others *)

\* gatePassed and gateFailed.  A task that is not running cannot be completed.
Gate(t) ==
    /\ task[t].step = "verifying"
    /\ \/ /\ task[t].status = "running"
          /\ task' = [task EXCEPT ![t].step = "completed", ![t].status = "completed"]
       \/ task' = [task EXCEPT ![t].step = "fix_required"]
    /\ UNCHANGED <<durable, queue, loop, history, moves, faults>>

\* A human readies a step again, or its executor cannot go on.
MoveByOthers(t, to) ==
    /\ Exists(t) /\ moves < MaxMoves
    /\ \/ to = "ready" /\ task[t].step \in {"waiting_human", "blocked"}
       \/ to \in {"waiting_human", "blocked"} /\ task[t].step = "running"
    /\ moves' = moves + 1
    /\ task' = [task EXCEPT ![t].step = to]
    /\ returned' = IF to = "ready" THEN returned \cup {t} ELSE returned
    /\ UNCHANGED <<durable, queue, loop, launches, resumes, cut, faults>>

\* Behind the transitions of the parent, before the receipt says RESUMED.
BeforeReceipt(c) == At("readyTask", c) \/ At("resumed", c)

\* The process ends and is started again.  A session may just have been launched, without
\* its row, or a claim written, without the session's step and the answer.
Crash ==
    /\ failures + crashes < MaxFaults
    /\ crashes' = crashes + 1
    /\ loop' = Resting
    /\ call' = [t \in Tasks |-> NoCall]
    /\ \/ UNCHANGED session
       \/ \E t \in Tasks :
             /\ CallAt(t, "record")
             /\ session' = [session EXCEPT
                              ![call[t].session].claim = IF call[t].step THEN task[t].attempt ELSE 0]
    /\ launches' \in {launches} \cup
                    {[launches EXCEPT ![t] = @ + 1] : t \in {t \in Tasks : At("create", t)}}
    /\ cut' = [c \in Repairs |-> IF BeforeReceipt(c) THEN cut[c] + 1 ELSE cut[c]]
    /\ UNCHANGED <<task, durable, answer, resumes, returned, moves, failures>>

Next ==
    \/ Pass
    \/ \E t \in Tasks : Serve(t) \/ Gate(t)
    \/ \E s \in Strangers, t \in Tasks : StrangerClaims(s, t)
    \/ \E s \in Sessions : Complete(s)
    \/ \E t \in Tasks, to \in {"ready", "waiting_human", "blocked"} : MoveByOthers(t, to)
    \/ Crash

Spec == Init /\ [][Next]_vars

\* The timer ticks, and what is queued is run.
FairSpec == Spec /\ WF_vars(Pass) /\ \A t \in Tasks : WF_vars(Serve(t))

-----------------------------------------------------------------------------
(* Properties *)

TypeOK ==
    /\ task \in [Tasks -> Task]
    /\ row \in [Tasks -> Row]
    /\ receipt \in [Repairs -> {"none", "PENDING", "RESUMED", "WAITING_HUMAN"}]
    /\ session \in [Sessions -> Session]
    /\ answer \in [Tasks -> {"none", "CLAIMED", "WAITING", "LOCKED"}]
    /\ call \in [Tasks -> Call \cup {NoCall}]
    /\ loop \in Loop
    /\ launches \in [Tasks -> Nat]
    /\ resumes \in [Repairs -> Nat]
    /\ cut \in [Repairs -> Nat]
    /\ returned \subseteq Tasks
    /\ {moves, failures, crashes} \subseteq Nat

(* A task that is claimed exclusively has one claim at a time, a claim of  *)
(* a step is for its newest assignment, and without a crash in its claim a *)
(* session is only woken up for a step it has claimed (taskClaim,          *)
(* resumeClaim).                                                           *)
ClaimsAreExclusive ==
    /\ \A t \in Tasks : Cardinality(Claimants(t)) <= 1
    /\ \A t \in Tasks : \A s \in Claimants(t) : session[s].claim \in {0, task[t].attempt}
    /\ \A t \in Tasks :
          row[t].state = "CLAIMED" /\ crashes = 0 => session[t].bound /\ session[t].claim > 0

(* A session is launched once for a task: a second launch takes two faults *)
(* or somebody who readied the step (launchGpt).  A completed repair       *)
(* readies the step of its parent once, and once more for every crash      *)
(* between that transition and the receipt, which says RESUMED last        *)
(* (reconcileParentResume, autonomous-task-loop.ts:745-760).  Without such *)
(* a crash this is what docs/AUTONOMOUS_TASK_RUNTIME_V1_3.md promises: at  *)
(* line 121 "The receipt makes resume idempotent across repeated           *)
(* reconciliation and restart", at line 183 "completed repair -> Parent    *)
(* Resume exactly once".  With one the code does not keep the promise.     *)
NothingIsRepeated ==
    /\ \A t \in Tasks : launches[t] > 1 => failures + crashes >= 2 \/ t \in returned
    /\ \A c \in Repairs : resumes[c] <= 1 + cut[c]

\* Nothing is left for the loop to do for the task.
Settled(t) ==
    /\ Exists(t) /\ task[t].step = "ready" => task[t].attempt > 0
    /\ row[t].state = "CLAIMED" => task[t].attempt > 1
    /\ t \in Repairs /\ task[t].status = "completed" => receipt[t] \in {"RESUMED", "WAITING_HUMAN"}

(* No task is forgotten, across failures and restarts: again and again     *)
(* every ready step that was never assigned has been dispatched or given   *)
(* to a human, every session that claimed the first attempt has been woken *)
(* up, and every completed repair has come to a decision about its parent  *)
(* (reconcileTask, resumeWakeup, reconcileParentResume).                   *)
LoopFinishes == []<>(\A t \in Tasks : Settled(t))

=============================================================================
