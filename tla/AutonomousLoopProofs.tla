------------------------- MODULE AutonomousLoopProofs -------------------------
(***************************************************************************)
(* Type correctness of AutonomousLoop, the exclusiveness of its claims,    *)
(* and that launches and resumptions are not repeated without a cause.     *)
(***************************************************************************)
EXTENDS AutonomousLoop, FiniteSetTheorems, TLAPS

\* A call that is making a claim, and one that has found nobody in its way.
Early == {"look", "assign", "progress", "record"}
Granting == {"assign", "progress", "record"}

\* A task has one claimant, and none while a claim is granted: the queue lets nobody
\* else in between the look and the record.
ClaimInv ==
    /\ \A t \in Tasks : \A s, r \in Claimants(t) : s = r
    /\ \A t \in Tasks : \A s \in Claimants(t) : session[s].claim \in {0, task[t].attempt}
    /\ \A t \in Tasks : call[t] # NoCall => session[call[t].session].task = t
    /\ \A t \in Tasks : call[t].at \in Granting => Claimants(t) = {}
    /\ \A t \in Tasks : call[t].at \in {"progress", "record"} /\ call[t].step => task[t].attempt > 0
    /\ \A t \in Tasks : session[t].task \in {None, t}
    /\ \A s \in Sessions : session[s].task = None => session[s].claim = NoClaim
    /\ \A t \in Tasks : ~Exists(t) => task[t].step = "absent" /\ task[t].attempt = 0

\* Where the loop is about to write to the row of a task.
Rowing == {"create", "claim", "claiming", "claimed", "refused"}

\* What the loop knows of its own sessions, as long as nothing crashed.
WakeInv ==
    /\ \A t \in Tasks : At("claimed", t) => answer[t] = "CLAIMED"
    /\ \A t \in Tasks : loop.task = t /\ loop.at \in Rowing => row[t].state # "WAKEUP_SENT"
    /\ \A t \in Tasks : call[t].session = t /\ call[t].at \in Early =>
          At("claiming", t) /\ answer[t] = "none"
    /\ \A t \in Tasks : call[t].session = t /\ call[t].at \notin Early =>
          row[t].state = "WAKEUP_SENT"
    /\ \A t \in Tasks : row[t].state = "CLAIMED" => answer[t] = "CLAIMED"
    /\ crashes = 0 => \A t \in Tasks :
          /\ answer[t] = "none" => session[t].claim = NoClaim
          /\ answer[t] = "CLAIMED" /\ row[t].state # "WAKEUP_SENT" =>
                session[t].bound /\ session[t].claim > 0

IInv == TypeOK /\ ClaimInv /\ WakeInv

-----------------------------------------------------------------------------
(* Types *)

LEMMA StatusesAre ==
    /\ Statuses = {"absent", "pending", "waiting_dependency", "ready", "dispatching", "running",
                   "waiting_report", "verifying", "fix_required", "waiting_human", "blocked",
                   "failed", "completed", "cancelled", "outcome_unknown"}
    /\ TaskStatuses = {"ready", "running", "blocked", "completed", "cancelled"}
BY DEF Statuses, StepMoves, TaskStatuses, TaskMoves

\* A status moves to one there is, and that of a task that is not there does not move.
LEMMA MovedStep ==
    ASSUME TypeOK, NEW t \in Tasks, NEW to \in Statuses, MoveStep(t, to)
    PROVE  /\ task' \in [Tasks -> Task]
           /\ \A u \in Tasks : task'[u].attempt = task[u].attempt /\ task'[u].status = task[u].status
           /\ \A u \in Tasks : task[u].step = "absent" /\ to # "absent" => task'[u].step = "absent"
<1>1. MayMove("absent", to) => to = "absent"
  BY DEF MayMove, StepMoves
<1>2. QED
  BY <1>1 DEF TypeOK, MoveStep, Task

LEMMA MovedTask ==
    ASSUME TypeOK, NEW t \in Tasks, NEW to \in TaskStatuses, MoveTask(t, to)
    PROVE  /\ task' \in [Tasks -> Task]
           /\ \A u \in Tasks : task'[u].attempt = task[u].attempt /\ task'[u].step = task[u].step
           /\ \A u \in Tasks : task'[u].status \in {task[u].status, to}
BY DEF TypeOK, MoveTask, Task

LEMMA TypeInit == Init => TypeOK
<1> SUFFICES ASSUME Init PROVE TypeOK
  OBVIOUS
<1> USE DEF Init, Tasks
<1>1. task \in [Tasks -> Task]
  BY StatusesAre, LoopBoundsAssumption DEF NewTask, Task
<1>2. session \in [Sessions -> Session]
  BY LoopBoundsAssumption DEF Session, Sessions, NoClaim
<1>3. loop \in Loop
  BY DEF Resting, Between, Loop
<1>4. row \in [Tasks -> Row] /\ call \in [Tasks -> Call \cup {NoCall}]
  BY DEF Row
<1>5. /\ receipt \in [Repairs -> {"none", "PENDING", "RESUMED", "WAITING_HUMAN"}]
      /\ answer \in [Tasks -> {"none", "CLAIMED", "WAITING", "LOCKED"}]
      /\ launches \in [Tasks -> Nat] /\ {resumes, cut} \subseteq [Repairs -> Nat]
      /\ returned \subseteq Tasks /\ {moves, failures, crashes} \subseteq Nat
  OBVIOUS
<1>6. QED
  BY <1>1, <1>2, <1>3, <1>4, <1>5 DEF TypeOK

LEMMA StepGoes ==
    ASSUME TypeOK, NEW t \in Tasks, NEW to \in Statuses
    PROVE  [task EXCEPT ![t].step = to] \in [Tasks -> Task]
<1>1. task \in [Tasks -> Task] /\ task[t] \in Task
  BY DEF TypeOK
<1>2. [task[t] EXCEPT !.step = to] \in Task
  BY <1>1 DEF Task
<1> QED BY <1>1, <1>2

\* The end of a call stores an answer and tells the loop.
LEMMA AnsweredType ==
    ASSUME TypeOK, NEW t \in Tasks, NEW a \in {"error", "CLAIMED", "WAITING", "LOCKED"},
           Answered(t, a)
    PROVE  /\ call' \in [Tasks -> Call \cup {NoCall}]
           /\ answer' \in [Tasks -> {"none", "CLAIMED", "WAITING", "LOCKED"}]
           /\ loop' \in Loop
BY DEF TypeOK, Answered, Goto, Loop

LEMMA DoneType ==
    ASSUME TypeOK, NEW t \in Tasks, Done \/ Tended(t)
    PROVE  loop' \in Loop
BY DEF TypeOK, Done, Tended, Goto, Between, Loop

LEMMA TypeServe ==
    ASSUME TypeOK, NEW t \in Tasks, Serve(t)
    PROVE  TypeOK'
<1> USE DEF CallAt, durable, history, faults
<1>1. CASE ClaimLooks(t)
  <2>1. \/ Answered(t, "error") \/ Answered(t, "CLAIMED") \/ Answered(t, "LOCKED")
        \/ /\ call' \in [Tasks -> Call \cup {NoCall}]
           /\ UNCHANGED <<answer, loop>>
    BY <1>1 DEF ClaimLooks, TypeOK, Call, NoCall
  <2>2. /\ call' \in [Tasks -> Call \cup {NoCall}]
        /\ answer' \in [Tasks -> {"none", "CLAIMED", "WAITING", "LOCKED"}]
        /\ loop' \in Loop
    BY <2>1, AnsweredType DEF TypeOK
  <2>3. UNCHANGED <<task, row, receipt, session, launches, resumes, cut, returned, moves, failures, crashes>>
    BY <1>1 DEF ClaimLooks
  <2>4. QED
    BY <2>2, <2>3 DEF TypeOK
<1>2. CASE ClaimAssigns(t)
  <2>1. /\ call' \in [Tasks -> Call \cup {NoCall}]
        /\ answer' \in [Tasks -> {"none", "CLAIMED", "WAITING", "LOCKED"}]
        /\ loop' \in Loop
    BY <1>2, AnsweredType DEF ClaimAssigns, TypeOK, Call, NoCall
  <2>2. task' \in [Tasks -> Task]
    BY <1>2, StatusesAre, LoopBoundsAssumption DEF ClaimAssigns, Assignable, TypeOK, Task
  <2>3. UNCHANGED <<row, receipt, session, launches, resumes, cut, returned, moves, failures, crashes>>
    BY <1>2 DEF ClaimAssigns
  <2>4. QED
    BY <2>1, <2>2, <2>3 DEF TypeOK
<1>3. CASE ClaimProgresses(t)
  <2>1. /\ call' \in [Tasks -> Call \cup {NoCall}]
        /\ answer' \in [Tasks -> {"none", "CLAIMED", "WAITING", "LOCKED"}]
        /\ loop' \in Loop
    BY <1>3, AnsweredType DEF ClaimProgresses, TypeOK, Call, NoCall
  <2>2. task' = task \/ task' = [task EXCEPT ![t].step = "running"]
    BY <1>3 DEF ClaimProgresses
  <2>2a. task' \in [Tasks -> Task]
    <3>1. "running" \in Statuses
      BY StatusesAre
    <3> QED BY <2>2, <3>1, StepGoes DEF TypeOK
  <2>3. UNCHANGED <<row, receipt, session, launches, resumes, cut, returned, moves, failures, crashes>>
    BY <1>3 DEF ClaimProgresses
  <2>4. QED
    BY <2>1, <2>2a, <2>3 DEF TypeOK
<1>4. CASE ClaimRecords(t)
  <2>1. /\ call' \in [Tasks -> Call \cup {NoCall}]
        /\ answer' \in [Tasks -> {"none", "CLAIMED", "WAITING", "LOCKED"}]
        /\ loop' \in Loop
    BY <1>4, AnsweredType DEF ClaimRecords
  <2>2. call[t].session \in Sessions /\ call[t].step \in BOOLEAN
    BY <1>4 DEF ClaimRecords, TypeOK, Call, NoCall
  <2>3. task[t].attempt \in NoClaim..MaxAttempts /\ 0 \in NoClaim..MaxAttempts
    BY LoopBoundsAssumption DEF TypeOK, Task, NoClaim
  <2>4. session' \in [Sessions -> Session]
    BY <1>4, <2>2, <2>3 DEF ClaimRecords, TypeOK, Session
  <2>5. UNCHANGED <<task, row, receipt, launches, resumes, cut, returned, moves, failures, crashes>>
    BY <1>4 DEF ClaimRecords
  <2>6. QED
    BY <2>1, <2>4, <2>5 DEF TypeOK
<1>5. CASE CompleteLooks(t)
  <2>1. call' \in [Tasks -> Call \cup {NoCall}]
    BY <1>5 DEF CompleteLooks, TypeOK, Call, NoCall
  <2>2. QED
    BY <1>5, <2>1 DEF CompleteLooks, TypeOK
<1>6. CASE CompleteRequests(t)
  <2>1. call' \in [Tasks -> Call \cup {NoCall}]
    BY <1>6 DEF CompleteRequests, TypeOK, Call, NoCall
  <2>2. task' \in [Tasks -> Task]
    <3>1. "verifying" \in Statuses
      BY StatusesAre
    <3>2. task' = task \/ task' = [task EXCEPT ![t].step = "verifying"]
      BY <1>6 DEF CompleteRequests
    <3> QED BY <3>1, <3>2, StepGoes DEF TypeOK
  <2>3. QED
    BY <1>6, <2>1, <2>2 DEF CompleteRequests, TypeOK
<1>7. CASE CompleteReleases(t)
  <2>1. call[t].session \in Sessions
    BY <1>7 DEF CompleteReleases, TypeOK, Call, NoCall
  <2>2. NoClaim \in NoClaim..MaxAttempts
    BY LoopBoundsAssumption DEF NoClaim
  <2>3. session' \in [Sessions -> Session]
    <3>1. session[call[t].session] \in Session /\ session \in [Sessions -> Session]
      BY <2>1 DEF TypeOK
    <3>2. [session[call[t].session] EXCEPT !.claim = NoClaim, !.bound = FALSE] \in Session
      BY <2>2, <3>1 DEF Session
    <3>3. session' = [session EXCEPT ![call[t].session] =
                        [session[call[t].session] EXCEPT !.claim = NoClaim, !.bound = FALSE]]
      BY <1>7, <2>1, <3>1 DEF CompleteReleases
    <3> QED BY <2>1, <3>1, <3>2, <3>3
  <2>4. call' \in [Tasks -> Call \cup {NoCall}]
    BY <1>7 DEF CompleteReleases, TypeOK
  <2>5. QED
    BY <1>7, <2>3, <2>4 DEF CompleteReleases, TypeOK
<1>8. QED
  BY <1>1, <1>2, <1>3, <1>4, <1>5, <1>6, <1>7 DEF Serve, Claiming

LEMMA TypeLaunching ==
    ASSUME TypeOK, NEW t \in Tasks, Launching(t)
    PROVE  TypeOK'
<1> USE DEF At, durable, queue, history, faults
<1>1. CASE LaunchGpt(t)
  <2>1. row' \in [Tasks -> Row]
    <3>1. row' = row \/ \E state \in {"ABORTED", "RESERVED"} : row' = [row EXCEPT ![t].state = state]
      BY <1>1 DEF LaunchGpt, SetRow
    <3>2. row[t] \in Row /\ row \in [Tasks -> Row]
      BY DEF TypeOK
    <3>3. \A state \in {"ABORTED", "RESERVED"} : [row[t] EXCEPT !.state = state] \in Row
      BY <3>2 DEF Row
    <3> QED BY <3>1, <3>2, <3>3
  <2>2. loop' \in Loop
    BY <1>1, DoneType DEF LaunchGpt, Goto, TypeOK, Loop
  <2>3. QED
    BY <1>1, <2>1, <2>2 DEF LaunchGpt, TypeOK
<1>2. CASE Create(t)
  <2>1a. loop' \in Loop
    BY <1>2 DEF Create, Goto, TypeOK, Loop
  <2>1b. row' \in [Tasks -> Row]
    <3>1. \/ row' = [row EXCEPT ![t] = [state |-> "SESSION_CREATED", kept |-> TRUE]]
          \/ row' = [row EXCEPT ![t].state = "ABORTED"]
      BY <1>2 DEF Create, SetRow
    <3>2. [state |-> "SESSION_CREATED", kept |-> TRUE] \in Row
      BY DEF Row
    <3>3. [row[t] EXCEPT !.state = "ABORTED"] \in Row
      BY DEF TypeOK, Row
    <3>4. QED
      BY <3>1, <3>2, <3>3 DEF TypeOK
  <2>1. row' \in [Tasks -> Row] /\ loop' \in Loop
    BY <2>1a, <2>1b
  <2>2. launches' \in [Tasks -> Nat] /\ failures' \in Nat
    BY <1>2 DEF Create, TypeOK
  <2>3. QED
    BY <1>2, <2>1, <2>2 DEF Create, TypeOK
<1>3. CASE Refuse(t)
  <2>1. loop' \in Loop
    BY <1>3, DoneType DEF Refuse
  <2>2. task' \in [Tasks -> Task]
    BY <1>3, MovedStep, StatusesAre DEF Refuse
  <2>3. QED
    BY <1>3, <2>1, <2>2 DEF Refuse, TypeOK
<1>4. CASE ResumeClaim(t)
  <2>1. session' \in [Sessions -> Session]
    BY <1>4 DEF ResumeClaim, TypeOK, Session, Sessions
  <2>2. call' \in [Tasks -> Call \cup {NoCall}]
    <3>1. [session |-> t, at |-> "look", step |-> FALSE] \in Call
      BY DEF Call, Sessions
    <3>2. QED
      BY <1>4, <3>1 DEF ResumeClaim, TypeOK
  <2>3. loop' \in Loop
    BY <1>4 DEF ResumeClaim, Goto, TypeOK, Loop
  <2>4. QED
    BY <1>4, <2>1, <2>2, <2>3 DEF ResumeClaim, TypeOK
<1>5. CASE Claimed(t)
  <2>1a. loop' \in Loop
    BY <1>5 DEF Claimed, Goto, TypeOK, Loop
  <2>1b. row' \in [Tasks -> Row]
    <3>1. row[t] \in Row /\ row \in [Tasks -> Row]
      BY DEF TypeOK
    <3>2. \A state \in {"CLAIMED", "ABORTED"} : [row[t] EXCEPT !.state = state] \in Row
      BY <3>1 DEF Row
    <3>3. PICK state \in {"CLAIMED", "ABORTED"} : row' = [row EXCEPT ![t].state = state]
      BY <1>5 DEF Claimed, SetRow
    <3> QED BY <3>1, <3>2, <3>3
  <2>1. row' \in [Tasks -> Row] /\ loop' \in Loop
    BY <2>1a, <2>1b
  <2>2. QED
    BY <1>5, <2>1 DEF Claimed, TypeOK
<1>6. CASE HandBack(t)
  <2>1. loop' \in Loop
    BY <1>6, DoneType DEF HandBack
  <2>2. task' \in [Tasks -> Task]
    BY <1>6, MovedStep, StatusesAre DEF HandBack, TypeOK
  <2>3. QED
    BY <1>6, <2>1, <2>2 DEF HandBack, TypeOK
<1>7. CASE SendWakeup(t)
  <2>1. loop' \in Loop
    BY <1>7, DoneType DEF SendWakeup
  <2>2. row' \in [Tasks -> Row] /\ failures' \in Nat
    BY <1>7 DEF SendWakeup, SetRow, TypeOK, Row
  <2>3. QED
    BY <1>7, <2>1, <2>2 DEF SendWakeup, TypeOK
<1>8. QED
  BY <1>1, <1>2, <1>3, <1>4, <1>5, <1>6, <1>7 DEF Launching

LEMMA TypeResuming ==
    ASSUME TypeOK, NEW t \in Tasks, Resuming(t)
    PROVE  TypeOK'
<1> USE DEF At, durable, queue, history, faults
<1>1. CASE Resume(t)
  <2>1. receipt' \in [Repairs -> {"none", "PENDING", "RESUMED", "WAITING_HUMAN"}]
    BY <1>1 DEF Resume, SetReceipt, TypeOK
  <2>2. loop' \in Loop
    BY <1>1, DoneType DEF Resume, Goto, TypeOK, Loop
  <2>3. QED
    BY <1>1, <2>1, <2>2 DEF Resume, TypeOK
<1>2. CASE ReadyStep(t)
  <2>1. task' \in [Tasks -> Task]
    BY <1>2, MovedStep, StatusesAre DEF ReadyStep, Tasks
  <2>2. loop' \in Loop
    BY <1>2, DoneType DEF ReadyStep, Goto, TypeOK, Loop
  <2>3. resumes' \in [Repairs -> Nat] /\ returned' \subseteq Tasks
    BY <1>2 DEF ReadyStep, TypeOK, Tasks
  <2>4. QED
    BY <1>2, <2>1, <2>2, <2>3 DEF ReadyStep, TypeOK
<1>3. CASE ReadyTask(t)
  <2>1. task' \in [Tasks -> Task]
    BY <1>3, MovedTask, StatusesAre DEF ReadyTask, TypeOK, Tasks
  <2>2. loop' \in Loop
    BY <1>3 DEF ReadyTask, Goto, TypeOK, Loop
  <2>3. QED
    BY <1>3, <2>1, <2>2 DEF ReadyTask, TypeOK
<1>4. CASE Resumed(t)
  <2>1. receipt' \in [Repairs -> {"none", "PENDING", "RESUMED", "WAITING_HUMAN"}]
    BY <1>4 DEF Resumed, SetReceipt, TypeOK
  <2>2. loop' \in Loop
    BY <1>4, DoneType DEF Resumed
  <2>3. QED
    BY <1>4, <2>1, <2>2 DEF Resumed, TypeOK
<1>5. QED
  BY <1>1, <1>2, <1>3, <1>4 DEF Resuming

LEMMA TypeOthers ==
    ASSUME TypeOK,
           \/ \E t \in Tasks : Gate(t)
           \/ \E s \in Strangers, t \in Tasks : StrangerClaims(s, t)
           \/ \E s \in Sessions : Complete(s)
           \/ \E t \in Tasks, to \in {"ready", "waiting_human", "blocked"} : MoveByOthers(t, to)
           \/ Crash
    PROVE  TypeOK'
<1> USE DEF durable, queue, history, faults
<1>1. ASSUME NEW t \in Tasks, Gate(t) PROVE TypeOK'
  <2>1. task' \in [Tasks -> Task]
    <3>1. \/ task' = [task EXCEPT ![t].step = "completed", ![t].status = "completed"]
          \/ task' = [task EXCEPT ![t].step = "fix_required"]
      BY <1>1 DEF Gate
    <3>2. CASE task' = [task EXCEPT ![t].step = "completed", ![t].status = "completed"]
      <4>1. task[t] \in Task /\ task \in [Tasks -> Task]
        BY DEF TypeOK
      <4>2. [task[t] EXCEPT !.step = "completed", !.status = "completed"] \in Task
        BY <4>1, StatusesAre DEF Task
      <4>3. task' = [task EXCEPT ![t] = [task[t] EXCEPT !.step = "completed", !.status = "completed"]]
        BY <3>2, <4>1
      <4> QED BY <4>1, <4>2, <4>3
    <3>3. CASE task' = [task EXCEPT ![t].step = "fix_required"]
      BY <3>3, StepGoes, StatusesAre
    <3>4. QED
      BY <3>1, <3>2, <3>3
  <2>2. QED
    BY <1>1, <2>1 DEF Gate, TypeOK
<1>2. ASSUME NEW s \in Strangers, NEW t \in Tasks, StrangerClaims(s, t) PROVE TypeOK'
  <2>1. [session |-> s, at |-> "look", step |-> FALSE] \in Call
    BY DEF Call, Sessions
  <2>2. call' \in [Tasks -> Call \cup {NoCall}]
    BY <1>2, <2>1 DEF StrangerClaims, TypeOK
  <2>3. session' \in [Sessions -> Session]
    BY <1>2 DEF StrangerClaims, TypeOK, Session, Sessions
  <2>4. QED
    BY <1>2, <2>2, <2>3 DEF StrangerClaims, TypeOK
<1>3. ASSUME NEW s \in Sessions, Complete(s) PROVE TypeOK'
  <2>1. session[s].task \in Tasks /\ session[s].bound \in BOOLEAN
    BY <1>3 DEF Complete, TypeOK, Session
  <2>2. [session |-> s, at |-> "before", step |-> session[s].bound] \in Call
    BY <2>1 DEF Call
  <2>3. call' \in [Tasks -> Call \cup {NoCall}]
    BY <1>3, <2>1, <2>2 DEF Complete, TypeOK
  <2>4. QED
    BY <1>3, <2>3 DEF Complete, TypeOK
<1>4. ASSUME NEW t \in Tasks, NEW to \in {"ready", "waiting_human", "blocked"}, MoveByOthers(t, to)
      PROVE  TypeOK'
  <2>1. task' \in [Tasks -> Task]
    <3>1. task' = [task EXCEPT ![t].step = to] /\ to \in Statuses
      BY <1>4, StatusesAre DEF MoveByOthers
    <3> QED BY <3>1, StepGoes
  <2>2. returned' \subseteq Tasks /\ moves' \in Nat
    BY <1>4 DEF MoveByOthers, TypeOK
  <2>3. QED
    BY <1>4, <2>1, <2>2 DEF MoveByOthers, TypeOK
<1>5. CASE Crash
  <2>1. loop' \in Loop
    BY <1>5 DEF Crash, Resting, Between, Loop
  <2>2. session' \in [Sessions -> Session]
    <3>1. SUFFICES ASSUME NEW t \in Tasks, CallAt(t, "record"),
                          session' = [session EXCEPT ![call[t].session].claim =
                                        IF call[t].step THEN task[t].attempt ELSE 0]
                   PROVE  session' \in [Sessions -> Session]
      BY <1>5 DEF Crash, TypeOK
    <3>2. call[t].session \in Sessions /\ call[t].step \in BOOLEAN
      BY <3>1 DEF CallAt, TypeOK, Call, NoCall
    <3>3. task[t].attempt \in NoClaim..MaxAttempts /\ 0 \in NoClaim..MaxAttempts
      BY LoopBoundsAssumption DEF TypeOK, Task, NoClaim
    <3>4. QED
      BY <3>1, <3>2, <3>3 DEF TypeOK, Session
  <2>3. launches' \in [Tasks -> Nat]
    BY <1>5 DEF Crash, TypeOK
  <2>4. crashes' \in Nat /\ call' \in [Tasks -> Call \cup {NoCall}]
    BY <1>5 DEF Crash, TypeOK
  <2>5. cut' \in [Repairs -> Nat]
    BY <1>5 DEF Crash, TypeOK
  <2>6. QED
    BY <1>5, <2>1, <2>2, <2>3, <2>4, <2>5 DEF Crash, TypeOK
<1>6. QED
  BY <1>1, <1>2, <1>3, <1>4, <1>5

LEMMA TypePass ==
    ASSUME TypeOK,
           \/ BeginPass
           \/ \E t \in Tasks : Tend(t)
           \/ \E c \in Repairs : Ingest(c) \/ BlockStep(c) \/ BlockTask(c)
    PROVE  TypeOK'
<1> USE DEF durable, queue, history, faults, Resting, Between
<1>1. CASE BeginPass
  <2>1. loop' \in Loop
    BY <1>1 DEF BeginPass, Loop
  <2>2. QED
    BY <1>1, <2>1 DEF BeginPass, TypeOK
<1>2. ASSUME NEW t \in Tasks, Tend(t) PROVE TypeOK'
  <2>1. PICK at \in {"claim", "wake", "launch", "resume"} :
          loop' = IF at = "resume" /\ t \notin Repairs THEN Between(loop.todo \ {t})
                  ELSE [at |-> at, task |-> t, todo |-> loop.todo \ {t}]
    BY <1>2 DEF Tend, Pending
  <2>2. loop' \in Loop
    BY <2>1 DEF TypeOK, Loop
  <2>3. QED
    BY <1>2, <2>2 DEF Tend, TypeOK
<1>3. ASSUME NEW c \in Repairs, Ingest(c) PROVE TypeOK'
  <2>1. task' \in [Tasks -> Task]
    <3>1. NewTask("ready", task[Root].step \in Interruptible) \in Task
      BY StatusesAre, LoopBoundsAssumption DEF NewTask, Task
    <3>2. QED
      BY <1>3, <3>1 DEF Ingest, TypeOK
  <2>2. loop' \in Loop
    BY <1>3 DEF Ingest, Loop, Tasks
  <2>3. QED
    BY <1>3, <2>1, <2>2 DEF Ingest, TypeOK
<1>4. ASSUME NEW c \in Repairs, BlockStep(c) PROVE TypeOK'
  <2>1. task' \in [Tasks -> Task]
    BY <1>4, MovedStep, StatusesAre DEF BlockStep, Tasks
  <2>2. loop' \in Loop
    BY <1>4 DEF BlockStep, TypeOK, Loop
  <2>3. QED
    BY <1>4, <2>1, <2>2 DEF BlockStep, TypeOK
<1>5. ASSUME NEW c \in Repairs, BlockTask(c) PROVE TypeOK'
  <2>1. task' \in [Tasks -> Task]
    BY <1>5, MovedTask, StatusesAre DEF BlockTask, Tasks
  <2>2. loop' \in Loop
    BY <1>5 DEF BlockTask, Loop
  <2>3. QED
    BY <1>5, <2>1, <2>2 DEF BlockTask, TypeOK
<1>6. QED
  BY <1>1, <1>2, <1>3, <1>4, <1>5

LEMMA TypeNext ==
    ASSUME TypeOK, [Next]_vars
    PROVE  TypeOK'
<1>1. CASE Next
  BY <1>1, TypeServe, TypeLaunching, TypeResuming, TypeOthers, TypePass DEF Next, Pass
<1>2. CASE UNCHANGED vars
  BY <1>2 DEF vars, durable, queue, history, faults, TypeOK
<1>3. QED
  BY <1>1, <1>2

(* Every variable stays in its type, for any repairs, strangers and bounds. *)
THEOREM TypeCorrect == Spec => []TypeOK
BY TypeInit, TypeNext, PTL DEF Spec

-----------------------------------------------------------------------------
(* Claims *)

\* What a step does to the tasks when it assigns nothing.
Kept == \A u \in Tasks :
    /\ task'[u].attempt = task[u].attempt
    /\ task'[u].status = "absent" => task[u].status = "absent" /\ task'[u].step = task[u].step

LEMMA ClaimInit == Init => ClaimInv
BY NamesAssumption DEF Init, ClaimInv, Claimants, NoCall, NoClaim, Granting, Exists, NewTask, Tasks, Sessions

LEMMA ClaimFrame ==
    ASSUME ClaimInv, Kept, session' = session, call' = call
    PROVE  ClaimInv'
BY DEF ClaimInv, Kept, Claimants, Exists

\* Moves of a step and of a task keep what the claims depend on.
LEMMA MoveKeeps ==
    ASSUME TypeOK, ClaimInv, NEW t \in Tasks,
           \/ MoveStep(t, "ready") \/ MoveStep(t, "blocked") \/ MoveStep(t, "waiting_human")
           \/ MoveTask(t, "ready") \/ MoveTask(t, "blocked")
    PROVE  Kept
<1>1. ASSUME NEW to \in {"ready", "blocked", "waiting_human"}, MoveStep(t, to) PROVE Kept
  BY <1>1, MovedStep, StatusesAre DEF ClaimInv, Kept, Exists
<1>2. ASSUME NEW to \in {"ready", "blocked"}, MoveTask(t, to) PROVE Kept
  BY <1>2, MovedTask, StatusesAre DEF Kept
<1>3. QED
  BY <1>1, <1>2

LEMMA ClaimKeptByPass ==
    ASSUME TypeOK, ClaimInv,
           \/ BeginPass \/ \E t \in Tasks : Tend(t)
           \/ \E c \in Repairs : Ingest(c) \/ BlockStep(c) \/ BlockTask(c)
           \/ \E t \in Tasks : Resuming(t)
    PROVE  ClaimInv'
<1> USE DEF queue
<1>1. CASE BeginPass \/ \E t \in Tasks : Tend(t) \/ Resume(t) \/ Resumed(t)
  BY <1>1, ClaimFrame DEF BeginPass, Tend, Resume, Resumed, Kept
<1>2. ASSUME NEW c \in Repairs, Ingest(c) PROVE ClaimInv'
  <2>1. Kept
    BY <1>2 DEF Ingest, NewTask, Kept, ClaimInv, TypeOK, Task
  <2>2. QED
    BY <1>2, <2>1, ClaimFrame DEF Ingest
<1>3. ASSUME NEW c \in Repairs, BlockStep(c) \/ BlockTask(c) PROVE ClaimInv'
  BY <1>3, MoveKeeps, ClaimFrame DEF BlockStep, BlockTask, Tasks
<1>4. ASSUME NEW t \in Tasks, ReadyStep(t) \/ ReadyTask(t) PROVE ClaimInv'
  <2>1. Kept
    BY <1>4, MoveKeeps DEF ReadyStep, ReadyTask, Tasks, Kept
  <2>2. QED
    BY <1>4, <2>1, ClaimFrame DEF ReadyStep, ReadyTask
<1>5. QED
  BY <1>1, <1>2, <1>3, <1>4 DEF Resuming

LEMMA ClaimKeptByLaunching ==
    ASSUME TypeOK, ClaimInv, NEW t \in Tasks, Launching(t)
    PROVE  ClaimInv'
<1> USE DEF queue
<1>1. CASE LaunchGpt(t) \/ Create(t) \/ Claimed(t) \/ SendWakeup(t)
  BY <1>1, ClaimFrame DEF LaunchGpt, Create, Claimed, SendWakeup, Kept
<1>2. CASE Refuse(t) \/ HandBack(t)
  <2>1. Kept
    BY <1>2, MoveKeeps DEF Refuse, HandBack, Kept
  <2>2. QED
    BY <1>2, <2>1, ClaimFrame DEF Refuse, HandBack
<1>3. CASE ResumeClaim(t)
  <2>1. task' = task /\ session' = [session EXCEPT ![t].task = t] /\ t \in Sessions
    BY <1>3 DEF ResumeClaim, Sessions
  <2>2. \A u \in Tasks : Claimants(u)' = Claimants(u)
    BY <2>1, NamesAssumption DEF Claimants, ClaimInv, TypeOK, Session, Tasks
  <2>3. \A s \in Sessions : session'[s].claim = session[s].claim
    BY <2>1 DEF TypeOK, Session
  <2>4. \A u \in Tasks : call'[u] # NoCall => session'[call'[u].session].task = u
    <3>1. SUFFICES ASSUME NEW u \in Tasks, call'[u] # NoCall
                   PROVE  session'[call'[u].session].task = u
      OBVIOUS
    <3>2. CASE call'[u] = call[u]
      <4>1. session[call[u].session].task = u /\ call[u].session \in Sessions
        BY <3>1, <3>2 DEF ClaimInv, TypeOK, Call
      <4>2. session[t].task \in {None, t} /\ u # None
        BY NamesAssumption DEF ClaimInv, Tasks
      <4>3. QED
        BY <2>1, <3>2, <4>1, <4>2 DEF TypeOK, Session
    <3>3. CASE call'[u] # call[u]
      <4>1. u = t /\ call'[t].session = t
        BY <1>3, <3>3 DEF ResumeClaim, TypeOK
      <4>2. QED
        BY <2>1, <4>1 DEF TypeOK, Session
    <3>4. QED
      BY <3>2, <3>3
  <2>5. \A u \in Tasks : call'[u] = call[u] \/ call'[u].at = "look"
    BY <1>3 DEF ResumeClaim, TypeOK
  <2>6. \A u \in Tasks : session'[u].task \in {None, u}
    BY <2>1 DEF ClaimInv, TypeOK, Session, Sessions
  <2>7. \A s \in Sessions : session'[s].task = None => session[s].task = None
    BY <2>1, NamesAssumption DEF TypeOK, Session, Tasks
  <2>8. QED
    BY <2>1, <2>2, <2>3, <2>4, <2>5, <2>6, <2>7 DEF ClaimInv, Granting, Exists, Claimants
<1>4. QED
  BY <1>1, <1>2, <1>3 DEF Launching

\* The end of a call leaves nobody behind that could be in the way.
LEMMA ClaimEnded ==
    ASSUME TypeOK, ClaimInv, NEW t \in Tasks, call' = [call EXCEPT ![t] = NoCall],
           Kept, session' = session
    PROVE  ClaimInv'
<1>1. \A u \in Tasks : call'[u] = NoCall \/ call'[u] = call[u]
  BY DEF TypeOK
<1>2. NoCall.at = "none"
  BY DEF NoCall
<1>3. \A u \in Tasks : Claimants(u)' = Claimants(u)
  BY DEF Claimants
<1>4. QED
  BY <1>1, <1>2, <1>3 DEF ClaimInv, Kept, Exists, Granting

LEMMA ClaimKeptByServe ==
    ASSUME TypeOK, ClaimInv, NEW t \in Tasks, Serve(t)
    PROVE  ClaimInv'
<1> USE DEF CallAt
<1>0. call[t] # NoCall /\ call[t] \in Call /\ call[t].session \in Sessions
      /\ session[call[t].session].task = t
  BY DEF Serve, Claiming, ClaimLooks, ClaimAssigns, ClaimProgresses, ClaimRecords, CompleteLooks,
         CompleteRequests, CompleteReleases, TypeOK, ClaimInv, Call, NoCall
<1>1. CASE ClaimLooks(t)
  <2>1. Kept /\ session' = session
    BY <1>1 DEF ClaimLooks, Kept
  <2>2. CASE call' = [call EXCEPT ![t] = NoCall]
    BY <2>1, <2>2, ClaimEnded
  <2>3. CASE call' # [call EXCEPT ![t] = NoCall]
    <3>1. session[call[t].session].claim = NoClaim /\ ~Locked(call[t].session, t)
      BY <1>1, <2>3 DEF ClaimLooks, Answered
    <3>2. Claimants(t) = {}
      BY <3>1 DEF Locked, Claimants
    <3>3. \A u \in Tasks : u # t => call'[u] = call[u]
      BY <1>1, <2>3 DEF ClaimLooks, Answered, TypeOK
    <3>4. /\ call'[t].session = call[t].session
          /\ \/ call'[t].at = "assign"
             \/ call'[t].at = "record" /\ ~call'[t].step
      <4> DEFINE found == task[t].step \in {"ready", "fix_required"}
                 k == [call EXCEPT ![t].at = IF found THEN "assign" ELSE "record"]
      <4>1. call' = [k EXCEPT ![t].step = found]
        BY <1>1, <2>3 DEF ClaimLooks, Answered
      <4>2. k \in [Tasks -> Call \cup {NoCall}]
        BY <1>0 DEF TypeOK, Call
      <4>3. k[t] \in Call /\ k[t].at = (IF found THEN "assign" ELSE "record")
            /\ k[t].session = call[t].session
        BY <1>0 DEF TypeOK, Call
      <4> HIDE DEF k
      <4>4. call'[t] = [k[t] EXCEPT !.step = found]
        BY <4>1, <4>2
      <4>5. call'[t].session = call[t].session /\ call'[t].at = k[t].at
        BY <4>3, <4>4 DEF Call
      <4>6. CASE found
        <5>1. k[t].at = "assign"
          BY <4>3, <4>6
        <5>2. QED
          BY <4>5, <5>1
      <4>7. CASE ~found
        <5>1. k[t].at = "record"
          BY <4>3, <4>7
        <5>2. ~call'[t].step
          BY <4>3, <4>4, <4>7 DEF Call
        <5>3. QED
          BY <4>5, <5>1, <5>2
      <4>8. QED
        BY <4>6, <4>7
    <3>5. QED
      BY <1>0, <2>1, <3>2, <3>3, <3>4 DEF ClaimInv, Kept, Claimants, Exists, Granting
  <2>4. QED
    BY <2>2, <2>3
<1>2. CASE ClaimAssigns(t)
  <2>1. session' = session /\ Claimants(t) = {}
    BY <1>2 DEF ClaimAssigns, ClaimInv, Granting
  <2>2. CASE call' = [call EXCEPT ![t] = NoCall] /\ task' = task
    BY <2>1, <2>2, ClaimEnded DEF Kept
  <2>3. CASE Assignable(t) /\ call' = [call EXCEPT ![t].at = "progress"]
    <3>1. /\ task'[t].attempt = task[t].attempt + 1 /\ task[t].attempt \in Nat
          /\ \A u \in Tasks : u # t => task'[u] = task[u]
      BY <1>2, <1>0, <2>3 DEF ClaimAssigns, Answered, Call, TypeOK, Task
    <3>2. task'[t].status # "absent"
      BY <1>2, <2>3 DEF ClaimAssigns, ClaimInv, Assignable, Exists, TypeOK, Task
    <3>3. /\ call'[t].session = call[t].session /\ call'[t].at = "progress"
          /\ \A u \in Tasks : u # t => call'[u] = call[u]
      BY <1>0, <2>3 DEF TypeOK, Call
    <3>4. QED
      BY <1>0, <2>1, <3>1, <3>2, <3>3 DEF ClaimInv, Claimants, Exists, Granting
  <2>4. QED
    BY <1>2, <2>2, <2>3 DEF ClaimAssigns, Answered
<1>3. CASE ClaimProgresses(t)
  <2>1. session' = session /\ Claimants(t) = {}
    BY <1>3 DEF ClaimProgresses, ClaimInv, Granting
  <2>2. CASE call' = [call EXCEPT ![t] = NoCall] /\ task' = task
    BY <2>1, <2>2, ClaimEnded DEF Kept
  <2>3. CASE /\ call' = [call EXCEPT ![t].at = "record"]
             /\ task[t].step # "absent"
             /\ task' = [task EXCEPT ![t].step = "running"]
    <3>1. Kept
      BY <2>3 DEF Kept, ClaimInv, Exists, TypeOK, Task
    <3>2. /\ call'[t].session = call[t].session /\ call'[t].at = "record"
          /\ call'[t].step = call[t].step
          /\ \A u \in Tasks : u # t => call'[u] = call[u]
      BY <1>0, <2>3 DEF TypeOK, Call
    <3>3. call[t].step => task[t].attempt > 0
      BY <1>3 DEF ClaimProgresses, ClaimInv
    <3>4. QED
      BY <1>0, <2>1, <3>1, <3>2, <3>3 DEF ClaimInv, Kept, Claimants, Exists, Granting
  <2>4. QED
    BY <1>3, <2>2, <2>3 DEF ClaimProgresses, Answered
<1>4. CASE ClaimRecords(t)
  <2> DEFINE s == call[t].session
  <2>1. task' = task /\ call' = [call EXCEPT ![t] = NoCall] /\ Claimants(t) = {}
    BY <1>4 DEF ClaimRecords, Answered, ClaimInv, Granting
  <2>2. session'[s].claim \in {0, task[t].attempt} /\ session'[s].task = session[s].task
    BY <1>0, <1>4 DEF ClaimRecords, TypeOK, Session
  <2>3. \A r \in Sessions : r # s => session'[r] = session[r]
    BY <1>0, <1>4 DEF ClaimRecords, TypeOK
  <2>4. /\ Claimants(t)' \subseteq {s}
        /\ \A u \in Tasks : u # t => Claimants(u)' = Claimants(u)
    BY <1>0, <2>1, <2>2, <2>3 DEF Claimants
  <2>5. \A u \in Tasks : call'[u].at \in Granting => u # t /\ call[u].at \in Granting
    BY <2>1 DEF TypeOK, NoCall, Granting
  <2>6. \A u \in Tasks : call'[u] # NoCall => u # t /\ call'[u] = call[u]
    BY <2>1 DEF TypeOK
  <2>7. \A u \in Tasks : \A r \in Claimants(u)' : session'[r].claim \in {0, task'[u].attempt}
    <3>1. SUFFICES ASSUME NEW u \in Tasks, NEW r \in Claimants(u)'
                   PROVE  session'[r].claim \in {0, task[u].attempt}
      BY <2>1
    <3>2. CASE u = t
      BY <2>2, <2>4, <3>1, <3>2
    <3>3. CASE u # t
      <4>1. r \in Claimants(u) /\ r # s
        BY <1>0, <2>4, <3>1, <3>3 DEF Claimants
      <4>2. QED
        BY <2>3, <4>1 DEF ClaimInv, Claimants
    <3>4. QED
      BY <3>2, <3>3
  <2>8. \A u \in Tasks : call'[u] # NoCall => session'[call'[u].session].task = u
    BY <2>2, <2>3, <2>6 DEF ClaimInv, TypeOK, Call
  <2>9. /\ \A u \in Tasks : session'[u].task \in {None, u}
        /\ \A r \in Sessions : session'[r].task = None => session'[r].claim = NoClaim
    BY <1>0, <2>2, <2>3, NamesAssumption DEF ClaimInv, Sessions, Tasks
  <2>10. \A u \in Tasks : call'[u].at \in {"progress", "record"} /\ call'[u].step =>
            task'[u].attempt > 0
    BY <2>1, <2>5, <2>6 DEF ClaimInv, NoCall, TypeOK
  <2>11. QED
    BY <2>1, <2>4, <2>5, <2>7, <2>8, <2>9, <2>10 DEF ClaimInv, Exists
<1>5. CASE CompleteLooks(t)
  <2>1. task' = task /\ session' = session
    BY <1>5 DEF CompleteLooks
  <2>2. /\ call'[t].session = call[t].session /\ call'[t].at \in {"request", "release"}
        /\ \A u \in Tasks : u # t => call'[u] = call[u]
    BY <1>0, <1>5 DEF CompleteLooks, TypeOK, Call
  <2>3. QED
    BY <1>0, <2>1, <2>2 DEF ClaimInv, Claimants, Exists, Granting
<1>6. CASE CompleteRequests(t)
  <2>1. session' = session /\ Kept
    <3>1. CASE task' = task
      BY <1>6, <3>1 DEF CompleteRequests, Kept
    <3>2. CASE MayMove(task[t].step, "verifying") /\ task' = [task EXCEPT ![t].step = "verifying"]
      <4>1. task[t].status # "absent"
        BY <3>2 DEF MayMove, StepMoves, ClaimInv, Exists
      <4>2. \A u \in Tasks : task'[u].attempt = task[u].attempt /\ task'[u].status = task[u].status
        BY <3>2 DEF TypeOK, Task
      <4>3. \A u \in Tasks : u # t => task'[u] = task[u]
        BY <3>2 DEF TypeOK
      <4>4. QED
        BY <1>6, <4>1, <4>2, <4>3 DEF CompleteRequests, Kept
    <3>3. QED
      BY <1>6, <3>1, <3>2 DEF CompleteRequests
  <2>2. CASE call' = [call EXCEPT ![t] = NoCall]
    BY <2>1, <2>2, ClaimEnded
  <2>3. CASE call' = [call EXCEPT ![t].at = "release"]
    <3>1. /\ call'[t].session = call[t].session /\ call'[t].at = "release"
          /\ \A u \in Tasks : u # t => call'[u] = call[u]
      BY <1>0, <2>3 DEF TypeOK, Call
    <3>2. QED
      BY <1>0, <2>1, <3>1 DEF ClaimInv, Kept, Claimants, Exists, Granting
  <2>4. QED
    BY <1>6, <2>2, <2>3 DEF CompleteRequests
<1>7. CASE CompleteReleases(t)
  <2> DEFINE s == call[t].session
  <2>1. task' = task /\ call' = [call EXCEPT ![t] = NoCall]
    BY <1>7 DEF CompleteReleases
  <2>2. session'[s].claim = NoClaim /\ session'[s].task = session[s].task
    BY <1>0, <1>7 DEF CompleteReleases, TypeOK, Session
  <2>3. \A r \in Sessions : r # s => session'[r] = session[r]
    BY <1>0, <1>7 DEF CompleteReleases, TypeOK
  <2>4. \A u \in Tasks : \A r \in Claimants(u)' : r # s /\ r \in Claimants(u)
    BY <2>2, <2>3 DEF Claimants
  <2>5. \A u \in Tasks : call'[u] = NoCall \/ call'[u] = call[u]
    BY <2>1 DEF TypeOK
  <2>6. \A r \in Sessions : session'[r].task = session[r].task
    BY <2>2, <2>3
  <2>7. \A u \in Tasks : call'[u] # NoCall => session'[call'[u].session].task = u
    BY <2>5, <2>6 DEF ClaimInv, TypeOK, Call
  <2>8. \A u \in Tasks : call'[u].at \in Early => call'[u] = call[u]
    BY <2>5 DEF NoCall, Early
  <2>9. \A u \in Tasks : \A r \in Claimants(u)' : session'[r].claim \in {0, task'[u].attempt}
    BY <2>1, <2>3, <2>4 DEF ClaimInv, Claimants
  <2>10. /\ \A u \in Tasks : session'[u].task \in {None, u}
         /\ \A r \in Sessions : session'[r].task = None => session'[r].claim = NoClaim
    BY <2>2, <2>3, <2>6 DEF ClaimInv, Sessions
  <2>11. \A u \in Tasks : call'[u].at \in Granting => Claimants(u)' = {}
    BY <2>4, <2>8 DEF ClaimInv, Granting, Early
  <2>12. QED
    BY <2>1, <2>4, <2>7, <2>8, <2>9, <2>10, <2>11 DEF ClaimInv, Exists, Early
<1>8. QED
  BY <1>1, <1>2, <1>3, <1>4, <1>5, <1>6, <1>7 DEF Serve, Claiming

LEMMA ClaimKeptByOthers ==
    ASSUME TypeOK, ClaimInv,
           \/ \E t \in Tasks : Gate(t)
           \/ \E s \in Strangers, t \in Tasks : StrangerClaims(s, t)
           \/ \E s \in Sessions : Complete(s)
           \/ \E t \in Tasks, to \in {"ready", "waiting_human", "blocked"} : MoveByOthers(t, to)
           \/ Crash
    PROVE  ClaimInv'
<1> USE DEF queue
<1>1. ASSUME NEW t \in Tasks, Gate(t) PROVE ClaimInv'
  <2>1. \A u \in Tasks : u # t => task'[u] = task[u]
    BY <1>1 DEF Gate, TypeOK
  <2>2. task'[t].attempt = task[t].attempt
    <3>1. CASE task' = [task EXCEPT ![t].step = "completed", ![t].status = "completed"]
      BY <3>1 DEF TypeOK, Task
    <3>2. CASE task' = [task EXCEPT ![t].step = "fix_required"]
      BY <3>2 DEF TypeOK, Task
    <3>3. QED
      BY <1>1, <3>1, <3>2 DEF Gate
  <2>3. task[t].status # "absent" /\ task'[t].status # "absent"
    BY <1>1 DEF Gate, ClaimInv, Exists, TypeOK, Task
  <2>4. QED
    BY <1>1, <2>1, <2>2, <2>3, ClaimFrame DEF Gate, Kept
<1>2. ASSUME NEW s \in Strangers, NEW t \in Tasks, StrangerClaims(s, t) PROVE ClaimInv'
  <2>1. /\ task' = task /\ s \in Sessions /\ s \notin Tasks
        /\ session' = [session EXCEPT ![s].task = t]
        /\ session[s].claim = NoClaim /\ session[s].task \in {None, t}
    BY <1>2, NamesAssumption DEF StrangerClaims, Sessions, Tasks
  <2>2. /\ \A r \in Sessions : session'[r].claim = session[r].claim
        /\ \A r \in Sessions : r # s => session'[r] = session[r]
        /\ session'[s].task = t
    BY <2>1 DEF TypeOK, Session
  <2>3. \A u \in Tasks : Claimants(u)' = Claimants(u)
    BY <2>1, <2>2 DEF Claimants
  <2>4. /\ call'[t].session = s /\ call'[t].at = "look"
        /\ \A u \in Tasks : u # t => call'[u] = call[u]
    BY <1>2 DEF StrangerClaims, TypeOK
  <2>5. \A u \in Tasks : call'[u] # NoCall => session'[call'[u].session].task = u
    <3>1. SUFFICES ASSUME NEW u \in Tasks, u # t, call[u] # NoCall
                   PROVE  session'[call[u].session].task = u
      BY <2>2, <2>4
    <3>2. session[call[u].session].task = u /\ call[u].session \in Sessions /\ u # None
      BY <3>1, NamesAssumption DEF ClaimInv, TypeOK, Call, Tasks
    <3>3. QED
      BY <2>1, <2>2, <3>1, <3>2
  <2>6. /\ \A u \in Tasks : session'[u].task \in {None, u}
        /\ \A r \in Sessions : session'[r].task = None => session'[r].claim = NoClaim
    BY <2>1, <2>2 DEF ClaimInv, Sessions
  <2>7. QED
    BY <2>1, <2>2, <2>3, <2>4, <2>5, <2>6 DEF ClaimInv, Exists, Granting, Claimants
<1>3. ASSUME NEW s \in Sessions, Complete(s) PROVE ClaimInv'
  <2>1. task' = task /\ session' = session /\ session[s].task \in Tasks
    BY <1>3 DEF Complete, TypeOK, Session
  <2>2. /\ call'[session[s].task].session = s /\ call'[session[s].task].at = "before"
        /\ \A u \in Tasks : u # session[s].task => call'[u] = call[u]
    BY <1>3, <2>1 DEF Complete, TypeOK
  <2>3. QED
    BY <2>1, <2>2 DEF ClaimInv, Claimants, Exists, Granting
<1>4. ASSUME NEW t \in Tasks, NEW to \in {"ready", "waiting_human", "blocked"}, MoveByOthers(t, to)
      PROVE  ClaimInv'
  <2>1. Kept
    BY <1>4 DEF MoveByOthers, Kept, Exists, TypeOK, Task
  <2>2. QED
    BY <1>4, <2>1, ClaimFrame DEF MoveByOthers
<1>5. CASE Crash
  <2>1. task' = task /\ \A u \in Tasks : call'[u] = NoCall
    BY <1>5 DEF Crash
  <2>a. \A u \in Tasks : call'[u].at = "none"
    BY <2>1 DEF NoCall
  <2>2. CASE session' = session
    <3>1. Kept /\ \A u \in Tasks : Claimants(u)' = Claimants(u)
      BY <2>1, <2>2 DEF Kept, Claimants
    <3>2. QED
      BY <2>1, <2>2, <2>a, <3>1 DEF ClaimInv, Exists, Granting
  <2>3. ASSUME NEW t \in Tasks, CallAt(t, "record"),
               session' = [session EXCEPT ![call[t].session].claim =
                             IF call[t].step THEN task[t].attempt ELSE 0]
        PROVE  ClaimInv'
    <3> DEFINE s == call[t].session
    <3>1. s \in Sessions /\ session[s].task = t /\ t # None
      BY <2>3, NamesAssumption DEF CallAt, TypeOK, ClaimInv, Call, NoCall, Tasks
    <3>2. session'[s].claim \in {0, task[t].attempt} /\ session'[s].task = t
      BY <2>3, <3>1 DEF TypeOK, Session
    <3>3. \A r \in Sessions : r # s => session'[r] = session[r]
      BY <2>3, <3>1 DEF TypeOK
    <3>4. /\ Claimants(t)' \subseteq {s}
          /\ \A u \in Tasks : u # t => Claimants(u)' = Claimants(u) /\ s \notin Claimants(u)
      BY <2>3, <3>1, <3>2, <3>3 DEF CallAt, Claimants, ClaimInv, Granting
    <3>5. \A u \in Tasks : \A r \in Claimants(u)' : session'[r].claim \in {0, task'[u].attempt}
      <4>1. SUFFICES ASSUME NEW u \in Tasks, NEW r \in Claimants(u)'
                     PROVE  session'[r].claim \in {0, task[u].attempt}
        BY <2>1
      <4>2. CASE u = t
        BY <3>2, <3>4, <4>1, <4>2
      <4>3. CASE u # t
        BY <3>3, <3>4, <4>1, <4>3 DEF ClaimInv, Claimants
      <4>4. QED
        BY <4>2, <4>3
    <3>6. /\ \A u \in Tasks : session'[u].task \in {None, u}
          /\ \A r \in Sessions : session'[r].task = None => session'[r].claim = NoClaim
      BY <3>1, <3>2, <3>3 DEF ClaimInv, Sessions
    <3>7. \A u \in Tasks : \A r, q \in Claimants(u)' : r = q
      BY <3>4 DEF ClaimInv
    <3>8. QED
      BY <2>1, <2>a, <3>5, <3>6, <3>7 DEF ClaimInv, Exists, Granting
  <2>4. QED
    BY <1>5, <2>2, <2>3 DEF Crash
<1>6. QED
  BY <1>1, <1>2, <1>3, <1>4, <1>5

LEMMA ClaimNext ==
    ASSUME TypeOK, ClaimInv, [Next]_vars
    PROVE  ClaimInv'
<1>1. CASE Next
  BY <1>1, ClaimKeptByPass, ClaimKeptByLaunching, ClaimKeptByServe, ClaimKeptByOthers DEF Next, Pass
<1>2. CASE UNCHANGED vars
  BY <1>2, ClaimFrame DEF vars, queue, Kept
<1>3. QED
  BY <1>1, <1>2

-----------------------------------------------------------------------------
(* Wake-ups *)

LEMMA WakeInit == Init => WakeInv
BY NamesAssumption
   DEF Init, WakeInv, At, Resting, Between, NoCall, Early, NoClaim, Tasks, Sessions

\* The loop goes on, and the rows and the queue stay.
LEMMA WakeFrame ==
    ASSUME WakeInv, row' = row, session' = session, answer' = answer, call' = call,
           crashes' = crashes,
           loop' = loop \/ (loop.at # "claiming" /\ loop'.at \notin Rowing)
    PROVE  WakeInv'
BY DEF WakeInv, At, Rowing

\* The loop writes to a row that says no wake-up was sent.
LEMMA RowFrame ==
    ASSUME WakeInv, NEW t \in Tasks, session' = session, answer' = answer, call' = call,
           crashes' = crashes,
           \A u \in Tasks : u # t => row'[u] = row[u],
           row[t].state # "WAKEUP_SENT", row'[t].state # "WAKEUP_SENT",
           row'[t].state = "CLAIMED" => answer[t] = "CLAIMED",
           loop.at # "claiming", loop'.at \notin {"claiming", "claimed"},
           loop'.at \in Rowing => loop'.task = t
    PROVE  WakeInv'
BY DEF WakeInv, At, Rowing

LEMMA WakeKeptByPass ==
    ASSUME TypeOK, ClaimInv, WakeInv,
           \/ BeginPass \/ \E t \in Tasks : Tend(t)
           \/ \E c \in Repairs : Ingest(c) \/ BlockStep(c) \/ BlockTask(c)
           \/ \E t \in Tasks : Resuming(t)
    PROVE  WakeInv'
<1> USE DEF queue, durable, faults
<1>1. CASE BeginPass \/ \E c \in Repairs : Ingest(c) \/ BlockStep(c) \/ BlockTask(c)
  <2>1. loop.at # "claiming" /\ loop'.at \notin Rowing
    <3>1. CASE BeginPass
      BY <3>1 DEF BeginPass, Resting, Between, Rowing
    <3>2. ASSUME NEW c \in Repairs, Ingest(c) PROVE loop.at # "claiming" /\ loop'.at \notin Rowing
      <4>1. loop.at = "between"
        BY <3>2 DEF Ingest, Resting, Between
      <4>2. loop'.at \in {"between", "blockTask", "blockStep"}
        BY <3>2 DEF Ingest, Resting, Between
      <4>3. QED
        BY <4>1, <4>2 DEF Rowing
    <3>3. ASSUME NEW c \in Repairs, BlockStep(c) \/ BlockTask(c)
          PROVE  loop.at # "claiming" /\ loop'.at \notin Rowing
      BY <3>3 DEF BlockStep, BlockTask, At, Resting, Between, Rowing, TypeOK, Loop
    <3>4. QED
      BY <1>1, <3>1, <3>2, <3>3
  <2>2. UNCHANGED <<row, session, answer, call, crashes>>
    BY <1>1 DEF BeginPass, Ingest, BlockStep, BlockTask
  <2>3. QED
    BY <2>1, <2>2, WakeFrame
<1>2. ASSUME NEW t \in Tasks, Resuming(t) PROVE WakeInv'
  <2>1. loop.at # "claiming" /\ loop'.at \notin Rowing
    BY <1>2 DEF Resuming, Resume, ReadyStep, ReadyTask, Resumed, Done, Goto, At, Between, Rowing,
                TypeOK, Loop
  <2>2. UNCHANGED <<row, session, answer, call, crashes>>
    BY <1>2 DEF Resuming, Resume, ReadyStep, ReadyTask, Resumed
  <2>3. QED
    BY <2>1, <2>2, WakeFrame
<1>3. ASSUME NEW t \in Tasks, Tend(t) PROVE WakeInv'
  <2>1. UNCHANGED <<row, session, answer, call, crashes>> /\ loop.at = "between"
    BY <1>3 DEF Tend
  <2>2. \/ loop'.at \notin Rowing
        \/ loop'.at = "claim" /\ loop'.task = t /\ row[t].state = "SESSION_CREATED"
    BY <1>3 DEF Tend, Pending, Between, Rowing
  <2>3. QED
    BY <2>1, <2>2, RowFrame, WakeFrame DEF WakeInv, Rowing
<1>4. QED
  BY <1>1, <1>2, <1>3

LEMMA WakeKeptByLaunching ==
    ASSUME TypeOK, ClaimInv, WakeInv, NEW t \in Tasks, Launching(t)
    PROVE  WakeInv'
<1> USE DEF queue, durable, history, faults
<1>1. CASE LaunchGpt(t)
  <2>1. UNCHANGED <<session, answer, call, crashes>> /\ loop.at = "launch" /\ loop.task = t
    BY <1>1 DEF LaunchGpt, At
  <2>2. CASE row' = row /\ Tended(t)
    <3>1. loop'.at \notin Rowing
      BY <2>1, <2>2 DEF Tended, Goto, Between, Rowing, TypeOK, Loop
    <3>2. QED
      BY <2>1, <2>2, <3>1, WakeFrame
  <2>3. CASE SetRow(t, "ABORTED") /\ Goto("refuse") /\ OutcomeUnknown(t)
    <3>1. row'[t].state = "ABORTED" /\ \A u \in Tasks : u # t => row'[u] = row[u]
      BY <2>3 DEF SetRow, TypeOK, Row
    <3>2. loop'.at = "refuse"
      BY <2>3 DEF Goto, TypeOK, Loop
    <3>3. QED
      BY <2>1, <2>3, <3>1, <3>2, RowFrame DEF OutcomeUnknown, Rowing
  <2>4. CASE /\ row[t].state # "WAKEUP_SENT"
             /\ row' = IF row[t].state = "none" THEN [row EXCEPT ![t].state = "RESERVED"] ELSE row
             /\ Goto(IF row[t].kept THEN "claim" ELSE "create")
    <3>1. /\ row'[t].state \in {"RESERVED", row[t].state}
          /\ \A u \in Tasks : u # t => row'[u] = row[u]
      BY <2>4 DEF TypeOK, Row
    <3>2. loop'.at \in {"claim", "create"} /\ loop'.task = t
      BY <2>1, <2>4 DEF Goto, TypeOK, Loop
    <3>3. row'[t].state = "CLAIMED" => answer[t] = "CLAIMED"
      BY <3>1 DEF WakeInv
    <3>4. QED
      BY <2>1, <2>4, <3>1, <3>2, <3>3, RowFrame
  <2>5. QED
    BY <1>1, <2>2, <2>3, <2>4 DEF LaunchGpt
<1>2. CASE Create(t)
  <2>1. /\ UNCHANGED <<session, answer, call, crashes>> /\ loop.at = "create" /\ loop.task = t
        /\ row[t].state # "WAKEUP_SENT"
    BY <1>2 DEF Create, At, WakeInv, Rowing
  <2>2. /\ row'[t].state \in {"SESSION_CREATED", "ABORTED"}
        /\ \A u \in Tasks : u # t => row'[u] = row[u]
    BY <1>2 DEF Create, SetRow, TypeOK, Row
  <2>3. loop'.at \in {"claim", "refuse"} /\ loop'.task = t
    BY <1>2, <2>1 DEF Create, Goto, TypeOK, Loop
  <2>4. QED
    BY <2>1, <2>2, <2>3, RowFrame
<1>3. CASE Refuse(t) \/ HandBack(t)
  <2>1. UNCHANGED <<row, session, answer, call, crashes>> /\ loop.at # "claiming"
    BY <1>3 DEF Refuse, HandBack, At
  <2>2. loop'.at \notin Rowing
    BY <1>3 DEF Refuse, HandBack, Tended, Goto, Between, Rowing, TypeOK, Loop
  <2>3. QED
    BY <2>1, <2>2, WakeFrame
<1>4. CASE Claimed(t)
  <2>1. /\ UNCHANGED <<session, answer, call, crashes>> /\ loop.at \in {"claimed", "refused"}
        /\ loop.task = t /\ row[t].state # "WAKEUP_SENT"
    BY <1>4 DEF Claimed, At, WakeInv, Rowing
  <2>2. /\ loop.at = "claimed" => row'[t].state = "CLAIMED"
        /\ loop.at = "refused" => row'[t].state = "ABORTED"
        /\ \A u \in Tasks : u # t => row'[u] = row[u]
    BY <1>4 DEF Claimed, SetRow, At, TypeOK, Row
  <2>3. loop'.at \in {"wake", "handBack"}
    BY <1>4 DEF Claimed, Goto, TypeOK, Loop
  <2>4. row'[t].state = "CLAIMED" => answer[t] = "CLAIMED"
    BY <2>1, <2>2 DEF WakeInv, At
  <2>5. row'[t].state # "WAKEUP_SENT"
    BY <2>1, <2>2
  <2>6. QED
    BY <2>1, <2>2, <2>3, <2>4, <2>5, RowFrame DEF Rowing
<1>5. CASE SendWakeup(t)
  <2>1. UNCHANGED <<session, answer, call, crashes>> /\ loop.at = "wake"
    BY <1>5 DEF SendWakeup, At
  <2>2. loop'.at \notin Rowing
    BY <1>5 DEF SendWakeup, Tended, Goto, Between, Rowing, TypeOK, Loop
  <2>3. CASE row' = row
    BY <2>1, <2>2, <2>3, WakeFrame
  <2>4. CASE SetRow(t, "WAKEUP_SENT")
    <3>1. row'[t].state = "WAKEUP_SENT" /\ \A u \in Tasks : u # t => row'[u] = row[u]
      BY <2>4 DEF SetRow, TypeOK, Row
    <3>2. QED
      BY <2>1, <2>2, <3>1 DEF WakeInv, At, Rowing
  <2>5. QED
    BY <1>5, <2>3, <2>4 DEF SendWakeup
<1>6. CASE ResumeClaim(t)
  <2>1. UNCHANGED <<row, answer, crashes>> /\ loop.at = "claim" /\ loop.task = t
    BY <1>6 DEF ResumeClaim, At
  <2>2. \A u \in Tasks : session'[u].claim = session[u].claim /\ session'[u].bound = session[u].bound
    BY <1>6 DEF ResumeClaim, TypeOK, Session, Sessions
  <2>3. /\ loop'.task = t
        /\ loop'.at \in {"claimed", "refused", "claiming"}
        /\ loop'.at = "claimed" => answer[t] = "CLAIMED"
        /\ loop'.at # "claiming" => call' = call
        /\ loop'.at = "claiming" => answer[t] = "none"
    BY <1>6, <2>1 DEF ResumeClaim, Goto, TypeOK, Loop
  <2>4. \/ call' = call
        \/ /\ loop'.at = "claiming"
           /\ \A u \in Tasks : IF u = t THEN call'[u].at = "look" ELSE call'[u] = call[u]
    BY <1>6, <2>1 DEF ResumeClaim, Goto, TypeOK, Loop
  <2>5. QED
    BY <2>1, <2>2, <2>3, <2>4 DEF WakeInv, At, Rowing, Early
<1>7. QED
  BY <1>1, <1>2, <1>3, <1>4, <1>5, <1>6 DEF Launching

\* A call of a session the loop did not launch.
LEMMA WakeKeptForStrangers ==
    ASSUME TypeOK, WakeInv, NEW t \in Tasks, NEW s \in Sessions \ Tasks,
           \A r \in Sessions : r # s => session'[r] = session[r],
           \A u \in Tasks : u # t => call'[u] = call[u],
           call'[t].session \in {s, None},
           UNCHANGED <<row, answer, loop, crashes>>
    PROVE  WakeInv'
BY NamesAssumption DEF WakeInv, At, Tasks, Sessions

LEMMA WakeKeptByServe ==
    ASSUME TypeOK, ClaimInv, WakeInv, NEW t \in Tasks, Serve(t)
    PROVE  WakeInv'
<1> USE DEF CallAt, durable, faults
<1> DEFINE s == call[t].session
<1>0. /\ call[t] # NoCall /\ call[t] \in Call /\ s \in Sessions /\ session[s].task = t
      /\ s \in Tasks => s = t
  <2>1. call[t] # NoCall
    <3>1. CASE Claiming(t)
      <4>1. call[t].at \in {"look", "assign", "progress", "record"}
        BY <3>1 DEF Claiming, ClaimLooks, ClaimAssigns, ClaimProgresses, ClaimRecords
      <4> QED BY <4>1 DEF NoCall
    <3>2. CASE CompleteLooks(t) \/ CompleteRequests(t) \/ CompleteReleases(t)
      <4>1. call[t].at \in {"before", "request", "release"}
        BY <3>2 DEF CompleteLooks, CompleteRequests, CompleteReleases
      <4> QED BY <4>1 DEF NoCall
    <3> QED BY <3>1, <3>2 DEF Serve
  <2>2. QED
    BY <2>1, NamesAssumption DEF TypeOK, ClaimInv, Call, Tasks
<1>1. UNCHANGED <<row, crashes>>
  BY DEF Serve, Claiming, ClaimLooks, ClaimAssigns, ClaimProgresses, ClaimRecords, CompleteLooks,
         CompleteRequests, CompleteReleases
<1>2. \A u \in Tasks : u # t => call'[u] = call[u]
  BY DEF Serve, Claiming, ClaimLooks, ClaimAssigns, ClaimProgresses, ClaimRecords, CompleteLooks,
         CompleteRequests, CompleteReleases, Answered, TypeOK
<1>3. \A r \in Sessions : r # s => session'[r] = session[r]
  BY DEF Serve, Claiming, ClaimLooks, ClaimAssigns, ClaimProgresses, ClaimRecords, CompleteLooks,
         CompleteRequests, CompleteReleases, TypeOK
<1>4. call'[t] = NoCall \/ call'[t].session = s
  BY <1>0 DEF Serve, Claiming, ClaimLooks, ClaimAssigns, ClaimProgresses, ClaimRecords, CompleteLooks,
              CompleteRequests, CompleteReleases, Answered, TypeOK, Call
<1>5. CASE s \notin Tasks
  <2>1. UNCHANGED <<answer, loop>>
    BY <1>5 DEF Serve, Claiming, ClaimLooks, ClaimAssigns, ClaimProgresses, ClaimRecords,
                CompleteLooks, CompleteRequests, CompleteReleases, Answered
  <2>2. call'[t].session \in {s, None}
    BY <1>4 DEF NoCall
  <2>3. QED
    BY <1>0, <1>1, <1>2, <1>3, <1>5, <2>1, <2>2, WakeKeptForStrangers
<1>6. CASE s = t /\ call[t].at \notin Early
  <2>1. row[t].state = "WAKEUP_SENT"
    BY <1>6 DEF WakeInv
  <2>2. UNCHANGED <<answer, loop>>
    BY <1>6 DEF Serve, Claiming, ClaimLooks, ClaimAssigns, ClaimProgresses, ClaimRecords,
                CompleteLooks, CompleteRequests, CompleteReleases, Early
  <2>3. call'[t] = NoCall \/ (call'[t].session = t /\ call'[t].at \notin Early)
    <3>1. CompleteLooks(t) \/ CompleteRequests(t) \/ CompleteReleases(t)
      BY <1>6 DEF Serve, Claiming, ClaimLooks, ClaimAssigns, ClaimProgresses, ClaimRecords, Early
    <3>2. CASE call'[t] = NoCall
      BY <3>2 DEF NoCall, Early
    <3>3. CASE call'[t] # NoCall
      <4>1. call'[t].at \in {"request", "release"}
        BY <1>0, <3>1, <3>3 DEF CompleteLooks, CompleteRequests, CompleteReleases, TypeOK, Call
      <4>2. QED
        BY <1>4, <1>6, <3>3, <4>1 DEF Early
    <3>4. QED
      BY <3>2, <3>3
  <2>4. session'[t].claim = session[t].claim \/ session'[t].claim = NoClaim
    BY <1>0, <1>6 DEF Serve, Claiming, ClaimLooks, ClaimAssigns, ClaimProgresses, ClaimRecords,
                      CompleteLooks, CompleteRequests, CompleteReleases, Early, TypeOK, Session
  <2>5. t # None
    BY NamesAssumption DEF Tasks
  <2>6. QED
    BY <1>1, <1>2, <1>3, <1>6, <2>1, <2>2, <2>3, <2>4, <2>5 DEF WakeInv, At, NoCall, Sessions
<1>7. CASE s = t /\ call[t].at \in Early
  <2>1. At("claiming", t) /\ answer[t] = "none" /\ row[t].state # "WAKEUP_SENT"
    BY <1>7 DEF WakeInv, At, Rowing
  <2>2. row[t].state # "CLAIMED"
    BY <2>1 DEF WakeInv
  <2>3. \A u \in Tasks : u # t /\ call[u].session = u => call[u].at \notin Early
    BY <2>1 DEF WakeInv, At
  <2>4. CASE /\ UNCHANGED <<answer, loop>> /\ session' = session /\ call'[t].at \in Early
    BY <1>1, <1>2, <1>7, <2>1, <2>4 DEF WakeInv, At
  <2>5. ASSUME NEW a \in {"error", "CLAIMED", "WAITING", "LOCKED"}, Answered(t, a),
               crashes = 0 /\ a \in {"error"} => session' = session,
               crashes = 0 /\ a = "CLAIMED" => session'[t].bound /\ session'[t].claim > 0
        PROVE  WakeInv'
    <3>1. /\ \A u \in Tasks : u # t => answer'[u] = answer[u]
          /\ answer'[t] = IF a = "error" THEN "none" ELSE a
      BY <1>7, <2>1, <2>5 DEF Answered, TypeOK
    <3>2. /\ loop'.task = t
          /\ loop'.at = IF a = "CLAIMED" THEN "claimed" ELSE "refused"
      BY <1>7, <2>1, <2>5 DEF Answered, Goto, At, TypeOK, Loop
    <3>3. call'[t].session # t
      BY <2>5, NamesAssumption DEF Answered, NoCall, TypeOK, Tasks
    <3>4. \A u \in Tasks : u # t => session'[u] = session[u]
      BY <1>3, <1>7 DEF Sessions
    <3>5. \A u \in Tasks : call'[u].session = u => u # t /\ call'[u] = call[u]
      BY <1>2, <3>3
    <3>6. \A u \in Tasks : row'[u].state = "CLAIMED" => answer'[u] = "CLAIMED"
      BY <1>1, <2>2, <3>1 DEF WakeInv
    <3>7. ASSUME crashes' = 0, NEW u \in Tasks
          PROVE  /\ answer'[u] = "none" => session'[u].claim = NoClaim
                 /\ answer'[u] = "CLAIMED" /\ row'[u].state # "WAKEUP_SENT" =>
                       session'[u].bound /\ session'[u].claim > 0
      <4>1. CASE u = t
        BY <1>1, <2>1, <2>5, <3>1, <3>7, <4>1 DEF WakeInv
      <4>2. CASE u # t
        BY <1>1, <3>1, <3>4, <3>7, <4>2 DEF WakeInv
      <4>3. QED
        BY <4>1, <4>2
    <3>8. QED
      BY <1>1, <2>1, <2>3, <3>1, <3>2, <3>5, <3>6, <3>7 DEF WakeInv, At
  <2>6. CASE ClaimLooks(t)
    <3> DEFINE found == task[t].step \in {"ready", "fix_required"}
    <3>1. session' = session /\ (crashes = 0 => session[t].claim = NoClaim)
      BY <2>1, <2>6 DEF ClaimLooks, WakeInv
    <3>2. \/ Answered(t, "error") \/ Answered(t, "LOCKED")
          \/ Answered(t, "CLAIMED") /\ session[t].claim # NoClaim
          \/ /\ UNCHANGED <<answer, loop>>
             /\ call' = [call EXCEPT ![t].at = IF found THEN "assign" ELSE "record",
                                     ![t].step = found]
      BY <1>7, <2>6 DEF ClaimLooks
    <3>3. CASE \/ Answered(t, "error") \/ Answered(t, "LOCKED")
               \/ Answered(t, "CLAIMED") /\ session[t].claim # NoClaim
      BY <2>5, <3>1, <3>3
    <3>4. CASE /\ UNCHANGED <<answer, loop>>
               /\ call' = [call EXCEPT ![t].at = IF found THEN "assign" ELSE "record",
                                       ![t].step = found]
      <4> DEFINE at == IF found THEN "assign" ELSE "record"
                 k == [call EXCEPT ![t].at = at]
      <4>1. k \in [Tasks -> Call \cup {NoCall}] /\ k[t].at = at
        BY <1>0 DEF TypeOK, Call
      <4>2. call' = [k EXCEPT ![t].step = found] /\ at \in Early
        BY <3>4 DEF Early
      <4> HIDE DEF k, at
      <4>3. call'[t].at = at
        BY <4>1, <4>2 DEF Call, NoCall
      <4>4. QED
        BY <2>4, <3>1, <3>4, <4>2, <4>3
    <3>5. QED
      BY <3>2, <3>3, <3>4
  <2>7. CASE ClaimAssigns(t) \/ ClaimProgresses(t)
    <3>1. session' = session
      BY <2>7 DEF ClaimAssigns, ClaimProgresses
    <3>2. CASE Answered(t, "error")
      BY <2>5, <3>1, <3>2
    <3>3. ASSUME NEW at \in Early, UNCHANGED <<answer, loop>>, call' = [call EXCEPT ![t].at = at]
          PROVE  WakeInv'
      <4>1. call'[t].at = at
        BY <1>0, <3>3 DEF TypeOK, Call
      <4>2. QED
        BY <2>4, <3>1, <3>3, <4>1
    <3>4. QED
      BY <2>7, <3>2, <3>3 DEF ClaimAssigns, ClaimProgresses, Early
  <2>8. CASE ClaimRecords(t)
    <3>1. /\ session'[t].bound = call[t].step
          /\ session'[t].claim = IF call[t].step THEN task[t].attempt ELSE 0
      BY <1>0, <1>7, <2>8 DEF ClaimRecords, TypeOK, Session
    <3>2. call[t].step => task[t].attempt > 0
      BY <2>8 DEF ClaimRecords, ClaimInv
    <3>3. Answered(t, IF call[t].step THEN "CLAIMED" ELSE "WAITING")
      BY <2>8 DEF ClaimRecords
    <3>4. CASE call[t].step
      <4>1. session'[t].bound /\ session'[t].claim > 0
        BY <3>1, <3>2, <3>4
      <4>2. Answered(t, "CLAIMED")
        BY <3>3, <3>4
      <4>3. QED
        BY <2>5, <4>1, <4>2
    <3>5. CASE ~call[t].step
      BY <2>5, <3>3, <3>5
    <3>6. QED
      BY <3>4, <3>5
  <2>9. ~(CompleteLooks(t) \/ CompleteRequests(t) \/ CompleteReleases(t))
    BY <1>7 DEF CompleteLooks, CompleteRequests, CompleteReleases, Early
  <2>10. QED
    BY <2>6, <2>7, <2>8, <2>9 DEF Serve, Claiming
<1>8. QED
  BY <1>0, <1>5, <1>6, <1>7

LEMMA WakeKeptByOthers ==
    ASSUME TypeOK, ClaimInv, WakeInv,
           \/ \E t \in Tasks : Gate(t)
           \/ \E s \in Strangers, t \in Tasks : StrangerClaims(s, t)
           \/ \E s \in Sessions : Complete(s)
           \/ \E t \in Tasks, to \in {"ready", "waiting_human", "blocked"} : MoveByOthers(t, to)
           \/ Crash
    PROVE  WakeInv'
<1> USE DEF queue, durable, faults
<1>1. ASSUME \/ \E t \in Tasks : Gate(t)
             \/ \E t \in Tasks, to \in {"ready", "waiting_human", "blocked"} : MoveByOthers(t, to)
      PROVE  WakeInv'
  BY <1>1, WakeFrame DEF Gate, MoveByOthers
<1>2. ASSUME NEW s \in Strangers, NEW t \in Tasks, StrangerClaims(s, t) PROVE WakeInv'
  <2>1. s \in Sessions \ Tasks
    BY NamesAssumption DEF Sessions, Tasks
  <2>2. UNCHANGED <<row, answer, loop, crashes>>
    BY <1>2 DEF StrangerClaims
  <2>3. /\ \A r \in Sessions : r # s => session'[r] = session[r]
        /\ \A u \in Tasks : u # t => call'[u] = call[u]
        /\ call'[t].session = s
    BY <1>2 DEF StrangerClaims, TypeOK
  <2>4. QED
    BY <2>1, <2>2, <2>3, WakeKeptForStrangers
<1>3. ASSUME NEW s \in Sessions, Complete(s) PROVE WakeInv'
  <2> DEFINE t == session[s].task
  <2>1. /\ UNCHANGED <<row, session, answer, loop, crashes>>
        /\ t \in Tasks /\ (s \in Tasks => s = t /\ row[s].state = "WAKEUP_SENT")
    BY <1>3 DEF Complete, TypeOK, Session, ClaimInv
  <2>2. /\ \A u \in Tasks : u # t => call'[u] = call[u]
        /\ call'[t].session = s /\ call'[t].at = "before"
    BY <1>3, <2>1 DEF Complete, TypeOK
  <2> HIDE DEF t
  <2>3. QED
    BY <2>1, <2>2 DEF WakeInv, At, Early
<1>4. CASE Crash
  <2>1. UNCHANGED <<row, answer>> /\ loop'.at = "between" /\ crashes' # 0
    BY <1>4 DEF Crash, Resting, Between, TypeOK
  <2>2. \A u \in Tasks : call'[u].session = None /\ u # None
    BY <1>4, NamesAssumption DEF Crash, NoCall, Tasks
  <2>3. QED
    BY <2>1, <2>2 DEF WakeInv, At, Rowing
<1>5. QED
  BY <1>1, <1>2, <1>3, <1>4

LEMMA WakeNext ==
    ASSUME TypeOK, ClaimInv, WakeInv, [Next]_vars
    PROVE  WakeInv'
<1>1. CASE Next
  BY <1>1, WakeKeptByPass, WakeKeptByLaunching, WakeKeptByServe, WakeKeptByOthers DEF Next, Pass
<1>2. CASE UNCHANGED vars
  BY <1>2, WakeFrame DEF vars, queue, durable, faults
<1>3. QED
  BY <1>1, <1>2

(* The inductive invariant: types, what the queue of a task guarantees of  *)
(* its claims, and what the loop knows of the sessions it launched.        *)
THEOREM Inductive == Spec => []IInv
<1>1. Init => IInv
  BY TypeInit, ClaimInit, WakeInit DEF IInv
<1>2. IInv /\ [Next]_vars => IInv'
  BY TypeNext, ClaimNext, WakeNext DEF IInv
<1>3. QED
  BY <1>1, <1>2, PTL DEF Spec

(* A task that is claimed exclusively has one claim at a time, whichever   *)
(* sessions claim and complete it and whenever the process is restarted;   *)
(* a claim of a step is for its newest assignment; and without a restart a *)
(* session is woken up only for a step it has claimed.                     *)
THEOREM Exclusive == Spec => []ClaimsAreExclusive
<1>1. IInv => ClaimsAreExclusive
  <2> SUFFICES ASSUME IInv PROVE ClaimsAreExclusive
    OBVIOUS
  <2>1. ASSUME NEW t \in Tasks PROVE Cardinality(Claimants(t)) <= 1
    <3>1. CASE Claimants(t) = {}
      BY <3>1, FS_EmptySet
    <3>2. CASE Claimants(t) # {}
      <4>1. PICK s : s \in Claimants(t)
        BY <3>2
      <4>2. Claimants(t) = {s}
        BY <2>1, <4>1 DEF IInv, ClaimInv
      <4>3. Cardinality({s}) = 1
        BY FS_Singleton, Zenon
      <4>4. QED
        BY <4>2, <4>3
    <3>3. QED
      BY <3>1, <3>2
  <2>2. ASSUME NEW t \in Tasks, row[t].state = "CLAIMED", crashes = 0
        PROVE  session[t].bound /\ session[t].claim > 0
    BY <2>2 DEF IInv, WakeInv
  <2>3. QED
    BY <2>1, <2>2 DEF IInv, ClaimInv, ClaimsAreExclusive
<1>2. QED
  BY <1>1, Inductive, PTL

-----------------------------------------------------------------------------
(* Launches and resumptions *)

Troubles == failures + crashes

\* Where the loop has a session for the task.
Sessioned == {"claim", "claiming", "claimed", "refused", "handBack", "wake"}

\* What a row says of its session, and that nothing is known of a task that is not there.
RowInv ==
    /\ Exists(Root)
    /\ \A t \in Tasks : ~Exists(t) =>
          /\ launches[t] = 0 /\ row[t].state = "none"
          /\ loop.task # t /\ t \notin loop.todo
    /\ \A t \in Tasks : row[t].state \in {"none", "RESERVED"} => ~row[t].kept
    /\ \A t \in Tasks : row[t].state \in {"SESSION_CREATED", "CLAIMED", "WAKEUP_SENT"} => row[t].kept
    /\ \A t \in Tasks : At("create", t) => ~row[t].kept
    /\ \A t \in Tasks : loop.task = t /\ loop.at \in Sessioned => row[t].kept

\* A task whose step nobody readied again, with one fault at most: before its session is
\* created none was, and after a fault that may have left one the loop does not create
\* another.
LaunchedOnce(t) ==
    /\ launches[t] <= 1
    /\ row[t].state = "none" => launches[t] = 0
    /\ At("create", t) => row[t].state = "RESERVED" /\ launches[t] = 0
    /\ row[t].state = "RESERVED" /\ ~At("create", t) => Troubles >= 1
    /\ row[t].state = "ABORTED" /\ ~row[t].kept =>
          /\ Troubles >= 1
          /\ At("refuse", t) \/ task[t].step # "ready" \/ task[t].attempt > 0
          /\ At("launch", t) => task[t].attempt > 0

LaunchInv == \A t \in Tasks : t \in returned \/ Troubles >= 2 \/ LaunchedOnce(t)

\* The step of the root goal may have been readied by c, and the receipt will say so.
Readied(c) == receipt[c] = "RESUMED" \/ At("readyTask", c) \/ At("resumed", c)

ResumeInv ==
    /\ loop.at \in {"readyStep", "readyTask", "resumed"} => loop.task \in Repairs
    /\ \A c \in Repairs : At("readyStep", c) \/ At("readyTask", c) => receipt[c] # "RESUMED"
    /\ \A c \in Repairs : resumes[c] <= (IF Readied(c) THEN cut[c] + 1 ELSE cut[c])

RInv == IInv /\ RowInv /\ LaunchInv /\ ResumeInv

LEMMA RepeatInit ==
    ASSUME Init
    PROVE  RowInv /\ LaunchInv /\ ResumeInv
BY NamesAssumption
   DEF Init, RowInv, LaunchInv, LaunchedOnce, ResumeInv, Readied, At, Resting, Between, Exists,
       NewTask, Tasks, Sessioned

\* What every step but the creation of a task does to the tasks.
Advance ==
    /\ \A u \in Tasks :
          /\ task'[u].status = "absent" <=> task[u].status = "absent"
          /\ task[u].attempt > 0 => task'[u].attempt > 0
          /\ task'[u].step = "ready" => task[u].step = "ready" \/ u \in returned'
    /\ returned \subseteq returned'

\* The loop hears of the end of its call, or does not go on.
Hears ==
    \/ loop' = loop
    \/ /\ loop.at = "claiming" /\ loop'.at \in {"claimed", "refused"}
       /\ loop'.task = loop.task /\ loop'.todo = loop.todo

LEMMA AnsweredHears ==
    ASSUME TypeOK, NEW t \in Tasks, NEW a \in {"error", "CLAIMED", "WAITING", "LOCKED"},
           WakeInv, call[t].at \in Early, Answered(t, a)
    PROVE  Hears
<1>1. CASE call[t].session = t
  BY <1>1 DEF Answered, Goto, Hears, WakeInv, At, TypeOK, Loop
<1>2. CASE call[t].session # t
  BY <1>2 DEF Answered, Hears
<1>3. QED
  BY <1>1, <1>2

\* Steps of others, which leave the tables of the loop alone.
LEMMA RepeatFrame ==
    ASSUME TypeOK, RowInv, LaunchInv, ResumeInv, Advance, Hears,
           UNCHANGED <<row, receipt, launches, resumes, cut, failures, crashes>>
    PROVE  RowInv' /\ LaunchInv' /\ ResumeInv'
<1>1. RowInv'
  BY DEF RowInv, Advance, Hears, Exists, At, Sessioned, Tasks
<1>2. ASSUME NEW t \in Tasks, t \notin returned', ~(Troubles' >= 2) PROVE LaunchedOnce(t)'
  <2>1. LaunchedOnce(t)
    BY <1>2 DEF LaunchInv, Advance, Troubles
  <2>2. QED
    BY <1>2, <2>1 DEF LaunchedOnce, Advance, Hears, At, Troubles
<1>3. ResumeInv'
  BY DEF ResumeInv, Readied, Hears, At
<1>4. QED
  BY <1>1, <1>2, <1>3 DEF LaunchInv

LEMMA AdvanceByServe ==
    ASSUME TypeOK, ClaimInv, WakeInv, NEW t \in Tasks, Serve(t)
    PROVE  Advance /\ Hears /\ UNCHANGED <<row, receipt, launches, resumes, cut, failures, crashes>>
<1> USE DEF durable, history, faults, CallAt
<1>1. UNCHANGED <<row, receipt, launches, resumes, cut, returned, failures, crashes>>
  BY DEF Serve, Claiming, ClaimLooks, ClaimAssigns, ClaimProgresses, ClaimRecords, CompleteLooks,
         CompleteRequests, CompleteReleases
<1>2. CASE Claiming(t)
  <2>1. call[t].at \in Early
    BY <1>2 DEF Claiming, ClaimLooks, ClaimAssigns, ClaimProgresses, ClaimRecords, Early
  <2>2. Hears
    <3>1. \/ loop' = loop
          \/ \E a \in {"error", "CLAIMED", "WAITING", "LOCKED"} : Answered(t, a)
      BY <1>2 DEF Claiming, ClaimLooks, ClaimAssigns, ClaimProgresses, ClaimRecords
    <3>2. QED
      BY <2>1, <3>1, AnsweredHears DEF Hears
  <2>3. Advance
    <3>1. CASE ClaimLooks(t) \/ ClaimRecords(t)
      BY <1>1, <3>1 DEF ClaimLooks, ClaimRecords, Advance
    <3>2. CASE ClaimAssigns(t) /\ task' # task
      <4>1. /\ \A u \in Tasks : u # t => task'[u] = task[u]
            /\ task'[t].attempt = task[t].attempt + 1 /\ task'[t].step = "dispatching"
            /\ task'[t].status = IF task[t].status = "ready" THEN "running" ELSE task[t].status
            /\ task[t].attempt \in Nat
        BY <3>2 DEF ClaimAssigns, TypeOK, Task
      <4>2. QED
        BY <1>1, <4>1 DEF Advance
    <3>3. CASE ClaimProgresses(t) /\ task' # task
      BY <1>1, <3>3 DEF ClaimProgresses, Advance, TypeOK, Task
    <3>4. QED
      BY <1>1, <1>2, <3>1, <3>2, <3>3 DEF Claiming, Advance
  <2>4. QED
    BY <1>1, <2>2, <2>3
<1>3. CASE CompleteLooks(t) \/ CompleteRequests(t) \/ CompleteReleases(t)
  <2>1. loop' = loop
    BY <1>3 DEF CompleteLooks, CompleteRequests, CompleteReleases
  <2>2. task' = task \/ task' = [task EXCEPT ![t].step = "verifying"]
    BY <1>3 DEF CompleteLooks, CompleteRequests, CompleteReleases
  <2>3. Advance
    BY <1>1, <2>2 DEF Advance, TypeOK, Task
  <2>4. QED
    BY <1>1, <2>1, <2>3 DEF Hears
<1>4. QED
  BY <1>2, <1>3 DEF Serve

LEMMA RepeatKeptByOthers ==
    ASSUME TypeOK, ClaimInv, RowInv, LaunchInv, ResumeInv,
           \/ \E t \in Tasks : Gate(t)
           \/ \E s \in Strangers, t \in Tasks : StrangerClaims(s, t)
           \/ \E s \in Sessions : Complete(s)
           \/ \E t \in Tasks, to \in {"ready", "waiting_human", "blocked"} : MoveByOthers(t, to)
    PROVE  RowInv' /\ LaunchInv' /\ ResumeInv'
<1> USE DEF durable, queue, history, faults
<1>1. loop' = loop /\ UNCHANGED <<row, receipt, launches, resumes, cut, failures, crashes>>
  BY DEF Gate, StrangerClaims, Complete, MoveByOthers
<1>2. Advance
  <2>1. ASSUME NEW t \in Tasks, Gate(t) PROVE Advance
    <3>1. returned' = returned
      BY <2>1 DEF Gate
    <3>2. CASE task' = [task EXCEPT ![t].step = "fix_required"]
      BY <3>1, <3>2 DEF Advance, TypeOK, Task
    <3>3. CASE task' = [task EXCEPT ![t].step = "completed", ![t].status = "completed"] /\ task[t].status = "running"
      <4> DEFINE k == [task EXCEPT ![t].step = "completed"]
      <4>1. /\ task' = [k EXCEPT ![t].status = "completed"]
            /\ \A u \in Tasks : u # t => k[u] = task[u]
            /\ k[t] = [task[t] EXCEPT !.step = "completed"] /\ k \in [Tasks -> Task]
        BY <3>3, StatusesAre DEF TypeOK, Task
      <4> HIDE DEF k
      <4>2. /\ \A u \in Tasks : u # t => task'[u] = task[u]
            /\ task'[t].step = "completed" /\ task'[t].attempt = task[t].attempt
            /\ task'[t].status = "completed"
        BY <4>1 DEF TypeOK, Task
      <4>3. QED
        BY <3>1, <3>3, <4>2 DEF Advance
    <3>4. QED
      BY <2>1, <3>2, <3>3 DEF Gate
  <2>2. ASSUME NEW t \in Tasks, NEW to \in {"ready", "waiting_human", "blocked"}, MoveByOthers(t, to)
        PROVE  Advance
    BY <2>2 DEF MoveByOthers, Advance, TypeOK, Task
  <2>3. CASE (\E s \in Strangers, t \in Tasks : StrangerClaims(s, t)) \/ \E s \in Sessions : Complete(s)
    BY <2>3 DEF StrangerClaims, Complete, Advance
  <2>4. QED
    BY <2>1, <2>2, <2>3
<1>3. QED
  BY <1>1, <1>2, RepeatFrame DEF Hears

LEMMA RepeatKeptByCrash ==
    ASSUME TypeOK, RowInv, LaunchInv, ResumeInv, Crash
    PROVE  RowInv' /\ LaunchInv' /\ ResumeInv'
<1> USE DEF durable, Resting, Between, At
<1>1. /\ UNCHANGED <<task, row, receipt, resumes, returned, failures>>
      /\ loop'.at = "between" /\ loop'.task = None /\ loop'.todo = {}
      /\ crashes' = crashes + 1 /\ Troubles' = Troubles + 1 /\ {failures, crashes} \subseteq Nat
      /\ None \notin Tasks
  BY NamesAssumption DEF Crash, Troubles, Tasks, TypeOK
<1>2. \A t \in Tasks : \/ launches'[t] = launches[t]
                        \/ /\ At("create", t)
                           /\ launches'[t] = launches[t] + 1
  BY DEF Crash, TypeOK
<1>3. RowInv'
  BY <1>1, <1>2 DEF RowInv, Exists, Sessioned
<1>4. ASSUME NEW t \in Tasks, t \notin returned', ~(Troubles' >= 2) PROVE LaunchedOnce(t)'
  <2>1. LaunchedOnce(t) /\ Troubles = 0 /\ launches[t] \in Nat /\ Troubles' = 1
    BY <1>1, <1>4 DEF LaunchInv, Troubles, TypeOK
  <2>2. row[t].state # "ABORTED" \/ row[t].kept
    BY <2>1 DEF LaunchedOnce
  <2>3. QED
    BY <1>1, <1>2, <2>1, <2>2 DEF LaunchedOnce
<1>5. ResumeInv'
  <2> DEFINE before(c) == loop.at \in {"readyTask", "resumed"} /\ loop.task = c
  <2>1. ASSUME NEW c \in Repairs
        PROVE  /\ {resumes[c], cut[c]} \subseteq Nat
               /\ cut'[c] = IF before(c) THEN cut[c] + 1 ELSE cut[c]
               /\ Readied(c) <=> receipt[c] = "RESUMED" \/ before(c)
               /\ Readied(c)' <=> receipt[c] = "RESUMED"
    BY <1>1, <2>1 DEF Crash, BeforeReceipt, Readied, TypeOK
  <2> HIDE DEF before
  <2>2. ASSUME NEW c \in Repairs
        PROVE  resumes'[c] <= (IF Readied(c)' THEN cut'[c] + 1 ELSE cut'[c])
    <3>1. resumes'[c] = resumes[c] /\ resumes[c] <= (IF Readied(c) THEN cut[c] + 1 ELSE cut[c])
      BY <1>1 DEF ResumeInv
    <3>2. QED
      BY <2>1, <3>1
  <2>3. QED
    BY <1>1, <2>2 DEF ResumeInv
<1>6. QED
  BY <1>3, <1>4, <1>5 DEF LaunchInv

\* Moves of a step and of a task, by the loop.
LEMMA MoveAdvances ==
    ASSUME TypeOK, ClaimInv, NEW t \in Tasks, returned \subseteq returned',
           \/ MoveStep(t, "blocked") \/ MoveStep(t, "waiting_human")
           \/ MoveStep(t, "ready") /\ (MayMove(task[t].step, "ready") => t \in returned')
           \/ Exists(t) /\ (MoveTask(t, "ready") \/ MoveTask(t, "blocked"))
    PROVE  Advance
<1>1. ASSUME NEW to \in {"ready", "blocked", "waiting_human"}, MoveStep(t, to),
             to = "ready" => (MayMove(task[t].step, "ready") => t \in returned')
      PROVE  Advance
  <2>1. CASE ~MayMove(task[t].step, to)
    BY <1>1, <2>1 DEF MoveStep, Advance
  <2>2. CASE MayMove(task[t].step, to)
    BY <1>1, <2>2 DEF MoveStep, Advance, TypeOK, Task
  <2>3. QED
    BY <2>1, <2>2
<1>2. ASSUME NEW to \in {"ready", "blocked"}, Exists(t), MoveTask(t, to) PROVE Advance
  <2>1. \A u \in Tasks : task'[u].attempt = task[u].attempt /\ task'[u].step = task[u].step
    BY <1>2, MovedTask, StatusesAre
  <2>3. \A u \in Tasks : task'[u].status = "absent" <=> task[u].status = "absent"
    BY <1>2 DEF MoveTask, TypeOK, Task, Exists
  <2>4. QED
    BY <2>1, <2>3 DEF Advance
<1>3. QED
  BY <1>1, <1>2

Readying == {"readyStep", "readyTask", "resumed"}

\* Steps of the loop that have to do with no resumption.
LEMMA ResumeFrame ==
    ASSUME ResumeInv, UNCHANGED <<receipt, resumes, cut>>,
           loop.at \notin Readying, loop'.at \notin Readying
    PROVE  ResumeInv'
BY DEF ResumeInv, Readied, Readying, At

\* Steps of the loop that launch nothing.
LEMMA LaunchFrame ==
    ASSUME TypeOK, RowInv, LaunchInv, Advance, UNCHANGED <<row, launches, failures, crashes>>,
           loop.at \notin {"create", "refuse"}, loop'.at # "create",
           loop'.at = "launch" => task'[loop'.task].step = "ready",
           \A t \in Tasks : loop'.task = t \/ t \in loop'.todo => Exists(t),
           loop'.task \in Tasks /\ loop'.at \in Sessioned => row[loop'.task].kept
    PROVE  RowInv' /\ LaunchInv'
<1>1. RowInv'
  BY DEF RowInv, Advance, Exists, At, Tasks
<1>2. ASSUME NEW t \in Tasks, t \notin returned', ~(Troubles' >= 2) PROVE LaunchedOnce(t)'
  <2>1. LaunchedOnce(t)
    BY <1>2 DEF LaunchInv, Advance, Troubles
  <2>2. QED
    BY <1>2, <2>1 DEF LaunchedOnce, Advance, At, Troubles
<1>3. QED
  BY <1>1, <1>2 DEF LaunchInv

LEMMA RepeatKeptByPass ==
    ASSUME TypeOK, ClaimInv, RowInv, LaunchInv, ResumeInv,
           \/ BeginPass \/ \E t \in Tasks : Tend(t)
           \/ \E c \in Repairs : BlockStep(c) \/ BlockTask(c)
    PROVE  RowInv' /\ LaunchInv' /\ ResumeInv'
<1> USE DEF queue, durable, faults, history, Resting, Between
<1>0. UNCHANGED <<row, receipt, launches, resumes, cut, returned, failures, crashes>> /\ None \notin Tasks
  BY NamesAssumption DEF BeginPass, Tend, BlockStep, BlockTask, Tasks
<1>1. CASE BeginPass
  <2>1. Advance
    BY <1>1 DEF BeginPass, Advance
  <2>2. /\ loop.at = "between" /\ loop'.at = "between" /\ loop'.task = None
        /\ \A t \in loop'.todo : Exists(t)
    BY <1>1 DEF BeginPass
  <2>3. QED
    BY <1>0, <2>1, <2>2, ResumeFrame, LaunchFrame DEF Readying, Sessioned
<1>2. ASSUME NEW t \in Tasks, Tend(t) PROVE RowInv' /\ LaunchInv' /\ ResumeInv'
  <2>1. task' = task /\ Advance /\ loop.at = "between" /\ t \in loop.todo
    BY <1>2 DEF Tend, Advance
  <2>2. /\ loop'.todo = loop.todo \ {t}
        /\ \/ loop'.at \in {"claim", "wake"} /\ loop'.task = t /\ row[t].kept
           \/ loop'.at = "launch" /\ loop'.task = t /\ task[t].step = "ready"
           \/ loop'.at \in {"resume", "between"} /\ loop'.task \in {t, None}
    BY <1>2 DEF Tend, Pending
  <2>3. \A u \in Tasks : loop'.task = u \/ u \in loop'.todo => Exists(u)
    BY <1>0, <2>1, <2>2 DEF RowInv
  <2>4. QED
    BY <1>0, <2>1, <2>2, <2>3, ResumeFrame, LaunchFrame DEF Readying, Sessioned
<1>3. ASSUME NEW c \in Repairs, BlockStep(c) \/ BlockTask(c) PROVE RowInv' /\ LaunchInv' /\ ResumeInv'
  <2>1. Advance
    BY <1>0, <1>3, MoveAdvances DEF BlockStep, BlockTask, Tasks, RowInv
  <2>2. /\ loop.at \in {"blockStep", "blockTask"} /\ loop'.at \in {"blockTask", "between"}
        /\ loop'.task \in {loop.task, None} /\ loop'.todo \subseteq loop.todo
    BY <1>3 DEF BlockStep, BlockTask, At, TypeOK, Loop
  <2>3. QED
    BY <1>0, <2>1, <2>2, ResumeFrame, LaunchFrame DEF Readying, Sessioned, RowInv
<1>4. QED
  BY <1>1, <1>2, <1>3

LEMMA RepeatKeptByIngest ==
    ASSUME TypeOK, RowInv, LaunchInv, ResumeInv, NEW c \in Repairs, Ingest(c)
    PROVE  RowInv' /\ LaunchInv' /\ ResumeInv'
<1> USE DEF queue, durable, faults, history, Resting, Between, At
<1>1. /\ UNCHANGED <<row, receipt, launches, resumes, cut, returned, failures, crashes>>
      /\ loop.at = "between" /\ loop'.at \in {"between", "blockStep", "blockTask"}
      /\ loop'.task \in {c, None} /\ loop'.todo = {} /\ None \notin Tasks
      /\ c \in Tasks /\ ~Exists(c) /\ c # Root
  BY NamesAssumption DEF Ingest, Tasks
<1>2. /\ \A t \in Tasks : t # c => task'[t] = task[t]
      /\ Exists(c)'
  BY <1>1 DEF Ingest, NewTask, TypeOK, Exists
<1>3. RowInv'
  BY <1>1, <1>2 DEF RowInv, Exists, Sessioned, Tasks
<1>4. ASSUME NEW t \in Tasks, t \notin returned', ~(Troubles' >= 2) PROVE LaunchedOnce(t)'
  <2>1. LaunchedOnce(t) /\ Troubles' = Troubles
    BY <1>1, <1>4 DEF LaunchInv, Troubles
  <2>2. CASE t = c
    BY <1>1, <2>2 DEF RowInv, LaunchedOnce
  <2>3. CASE t # c
    BY <1>1, <1>2, <2>1, <2>3 DEF LaunchedOnce
  <2>4. QED
    BY <2>2, <2>3
<1>5. QED
  BY <1>1, <1>3, <1>4, ResumeFrame DEF LaunchInv, Readying

LEMMA RepeatKeptByResuming ==
    ASSUME TypeOK, ClaimInv, RowInv, LaunchInv, ResumeInv, NEW t \in Tasks, Resuming(t)
    PROVE  RowInv' /\ LaunchInv' /\ ResumeInv'
<1> USE DEF queue, durable, faults, history, Between, At
<1>0. /\ UNCHANGED <<row, launches, failures, crashes>> /\ None \notin Tasks
      /\ loop.at \in {"resume", "readyStep", "readyTask", "resumed"} /\ loop.task = t
      /\ loop'.at \in {"between", "readyStep", "readyTask", "resumed"}
      /\ loop'.task \in {loop.task, None} /\ loop'.todo = loop.todo
  BY NamesAssumption
     DEF Resuming, Resume, ReadyStep, ReadyTask, Resumed, SetReceipt, Done, Goto, Tasks, TypeOK, Loop
<1>1. Advance
  <2>1. CASE Resume(t) \/ Resumed(t)
    BY <2>1 DEF Resume, Resumed, Advance
  <2>2. CASE ReadyStep(t)
    <3>1. returned \subseteq returned' /\ (MayMove(task[Root].step, "ready") => Root \in returned')
      BY <2>2 DEF ReadyStep
    <3>2. QED
      BY <2>2, <3>1, MoveAdvances DEF ReadyStep, Tasks
  <2>3. CASE ReadyTask(t)
    <3>1. CASE task' = task
      BY <2>3, <3>1 DEF ReadyTask, Advance
    <3>2. CASE MoveTask(Root, "ready")
      BY <2>3, <3>2, MoveAdvances DEF ReadyTask, Tasks, RowInv
    <3>3. QED
      BY <2>3, <3>1, <3>2 DEF ReadyTask
  <2>4. QED
    BY <2>1, <2>2, <2>3 DEF Resuming
<1>2. RowInv' /\ LaunchInv'
  BY <1>0, <1>1, LaunchFrame DEF RowInv, Sessioned
<1>3. ResumeInv'
  <2> USE DEF ResumeInv, Readied, Done, Goto
  <2>0. \A c \in Repairs : resumes[c] \in Nat /\ cut[c] \in Nat
    BY DEF TypeOK
  <2>1. CASE Resume(t)
    <3>1. CASE ~(t \in Repairs /\ receipt[t] # "RESUMED")
      BY <2>1, <3>1 DEF Resume, Resumable, TypeOK
    <3>2. CASE t \in Repairs /\ receipt[t] # "RESUMED"
      <4>1. /\ receipt'[t] # "RESUMED" /\ \A c \in Repairs : c # t => receipt'[c] = receipt[c]
            /\ resumes' = resumes /\ cut' = cut
        BY <2>1, <3>2 DEF Resume, SetReceipt, TypeOK
      <4>2. loop'.at \in {"readyStep", "readyTask", "between"} /\ loop'.task \in {t, None} /\ loop.at = "resume"
        BY <2>1 DEF Resume, TypeOK, Loop
      <4>3. loop'.at # "between" => loop'.task = t
        BY <2>1 DEF Resume, TypeOK, Loop
      <4>4. ~Readied(t) /\ \A c \in Repairs : c # t => (Readied(c)' <=> Readied(c))
        BY <1>0, <3>2, <4>1, <4>2 DEF Tasks
      <4>5. ASSUME NEW c \in Repairs PROVE resumes'[c] <= (IF Readied(c)' THEN cut'[c] + 1 ELSE cut'[c])
        <5>1. resumes[c] <= (IF Readied(c) THEN cut[c] + 1 ELSE cut[c]) /\ cut[c] \in Nat
          BY DEF TypeOK
        <5>2. CASE c = t
          BY <2>0, <4>1, <4>4, <5>1, <5>2
        <5>3. CASE c # t
          BY <2>0, <4>1, <4>4, <5>1, <5>3
        <5>4. QED
          BY <5>2, <5>3
      <4>6. \A c \in Repairs : At("readyStep", c)' \/ At("readyTask", c)' => receipt'[c] # "RESUMED"
        BY <1>0, <4>1, <4>2, <4>3 DEF Tasks
      <4>7. loop'.at \in {"readyStep", "readyTask", "resumed"} => loop'.task \in Repairs
        BY <3>2, <4>2, <4>3
      <4>8. QED
        <5> HIDE DEF Readied
        <5> QED BY <4>5, <4>6, <4>7
    <3>3. QED
      BY <3>1, <3>2
  <2>2. CASE ReadyStep(t)
    <3>1. t \in Repairs /\ receipt[t] # "RESUMED" /\ receipt' = receipt /\ cut' = cut
      BY <2>2 DEF ReadyStep
    <3>2. CASE MayMove(task[Root].step, "ready")
      BY <1>0, <2>0, <2>2, <3>1, <3>2 DEF ReadyStep, TypeOK, Loop
    <3>3. CASE ~MayMove(task[Root].step, "ready")
      BY <1>0, <2>0, <2>2, <3>1, <3>3 DEF ReadyStep, TypeOK, Loop
    <3>4. QED
      BY <3>2, <3>3
  <2>3. CASE ReadyTask(t)
    <3>1. /\ UNCHANGED <<receipt, resumes, cut>> /\ loop.at = "readyTask"
          /\ loop' = [loop EXCEPT !.at = "resumed"]
      BY <2>3 DEF ReadyTask
    <3>2. loop'.at = "resumed" /\ loop'.task = loop.task
      BY <3>1 DEF TypeOK, Loop
    <3>3. QED
      BY <3>1, <3>2
  <2>4. CASE Resumed(t)
    <3>1. /\ UNCHANGED <<resumes, cut>> /\ loop.at = "resumed" /\ loop'.at = "between"
          /\ receipt'[t] = "RESUMED" /\ \A c \in Repairs : c # t => receipt'[c] = receipt[c]
      BY <1>0, <2>4 DEF Resumed, SetReceipt, TypeOK
    <3>2. QED
      BY <1>0, <2>0, <3>1
  <2>5. QED
    BY <2>1, <2>2, <2>3, <2>4 DEF Resuming
<1>4. QED
  BY <1>2, <1>3

\* Where the loop goes when it has tended a task.
LEMMA TendedGoes ==
    ASSUME TypeOK, RowInv, NEW t \in Tasks, loop.task = t, Tended(t)
    PROVE  /\ loop'.at \in {"resume", "between"} /\ loop'.task \in {t, None}
           /\ loop'.todo = loop.todo
           /\ \A u \in Tasks : loop'.task = u \/ u \in loop'.todo => Exists(u)
<1>1. /\ loop'.at \in {"resume", "between"} /\ loop'.task \in {t, None}
      /\ loop'.todo = loop.todo
  BY DEF Tended, Goto, Between, TypeOK, Loop
<1>2. None \notin Tasks
  BY NamesAssumption DEF Tasks
<1>3. QED
  BY <1>1, <1>2 DEF RowInv

LEMMA RepeatKeptByLaunching ==
    ASSUME TypeOK, ClaimInv, RowInv, LaunchInv, ResumeInv, NEW t \in Tasks, Launching(t)
    PROVE  RowInv' /\ LaunchInv' /\ ResumeInv'
<1> USE DEF queue, durable, faults, history, At
<1>0. /\ loop.task = t /\ Exists(t) /\ None \notin Tasks
      /\ loop.at \in {"launch", "create", "refuse", "claim", "claimed", "refused", "handBack", "wake"}
      /\ UNCHANGED <<receipt, resumes, cut, returned, crashes>> /\ row[t] \in Row
      /\ \A u \in Tasks : loop.task = u \/ u \in loop.todo => Exists(u)
  BY NamesAssumption
     DEF Launching, LaunchGpt, Create, Refuse, ResumeClaim, Claimed, HandBack, SendWakeup, RowInv, Tasks, TypeOK
<1>1. ASSUME loop'.at \notin Readying PROVE ResumeInv'
  BY <1>0, <1>1, ResumeFrame DEF Readying
<1>2. ASSUME RowInv', \A u \in Tasks : u \notin returned' /\ ~(Troubles' >= 2) => LaunchedOnce(u)',
             loop'.at \notin Readying
      PROVE  RowInv' /\ LaunchInv' /\ ResumeInv'
  BY <1>1, <1>2 DEF LaunchInv
<1>3. \A u \in Tasks : u \notin returned /\ ~(Troubles >= 2) => LaunchedOnce(u)
  BY DEF LaunchInv
<1>4. CASE LaunchGpt(t)
  <2>1. task' = task /\ launches' = launches /\ Troubles' = Troubles /\ loop.at = "launch" /\ Advance
    BY <1>4, <1>0 DEF LaunchGpt, Troubles, Advance
  <2>2. CASE Tended(t) /\ row' = row
    BY <1>0, <1>4, <2>1, <2>2, TendedGoes, LaunchFrame, ResumeFrame DEF LaunchGpt, Sessioned, Readying
  <2>3. CASE task[t].attempt = 0 /\ OutcomeUnknown(t) /\ SetRow(t, "ABORTED") /\ Goto("refuse")
    <3>1. /\ loop'.at = "refuse" /\ loop'.task = t /\ loop'.todo = loop.todo
          /\ row[t].state = "RESERVED" /\ ~row[t].kept
          /\ row'[t].state = "ABORTED" /\ ~row'[t].kept
          /\ \A u \in Tasks : u # t => row'[u] = row[u]
      BY <1>0, <2>3 DEF OutcomeUnknown, SetRow, Goto, TypeOK, Loop, Row
    <3>2. RowInv'
      BY <1>0, <2>1, <3>1 DEF RowInv, Exists, Sessioned
    <3>3. \A u \in Tasks : u \notin returned' /\ ~(Troubles' >= 2) => LaunchedOnce(u)'
      BY <1>0, <1>3, <2>1, <3>1 DEF LaunchedOnce
    <3>4. QED
      BY <1>2, <3>1, <3>2, <3>3 DEF Readying
  <2>4. CASE /\ task[t].attempt = 0 /\ ~OutcomeUnknown(t) /\ row[t].state # "WAKEUP_SENT"
             /\ row' = IF row[t].state = "none" THEN [row EXCEPT ![t].state = "RESERVED"] ELSE row
             /\ Goto(IF row[t].kept THEN "claim" ELSE "create")
    <3>1. /\ loop'.at = (IF row[t].kept THEN "claim" ELSE "create")
          /\ loop'.task = t /\ loop'.todo = loop.todo
      BY <1>0, <2>4 DEF Goto, TypeOK, Loop
    <3>2. /\ row'[t].kept = row[t].kept
          /\ row'[t].state = (IF row[t].state = "none" THEN "RESERVED" ELSE row[t].state)
          /\ \A u \in Tasks : u # t => row'[u] = row[u]
      BY <1>0, <2>4 DEF TypeOK, Row
    <3>3. RowInv'
      BY <1>0, <2>1, <3>1, <3>2 DEF RowInv, Exists, Sessioned
    <3>4. ASSUME NEW u \in Tasks, u \notin returned', ~(Troubles' >= 2) PROVE LaunchedOnce(u)'
      <4>1. LaunchedOnce(u)
        BY <1>0, <1>3, <2>1, <3>4
      <4>2. CASE u # t
        BY <1>0, <2>1, <3>1, <3>2, <4>1, <4>2 DEF LaunchedOnce
      <4>3. CASE u = t /\ row[t].kept
        <5>1. row[t].state \notin {"none", "RESERVED"} /\ row' = row
          BY <4>3, <2>4 DEF RowInv
        <5>2. QED
          BY <1>0, <2>1, <3>1, <4>1, <4>3, <5>1 DEF LaunchedOnce
      <4>4. CASE u = t /\ ~row[t].kept
        <5>1. row[t].state \in {"none", "RESERVED", "ABORTED"}
          BY <1>0, <4>4 DEF RowInv, Row
        <5>2. row[t].state = "none" /\ launches[t] = 0
          BY <2>1, <2>4, <4>1, <4>4, <5>1, <1>0 DEF LaunchedOnce, OutcomeUnknown
        <5>3. QED
          BY <1>0, <2>1, <3>1, <3>2, <4>4, <5>2 DEF LaunchedOnce
      <4>5. QED
        BY <4>2, <4>3, <4>4
    <3>5. QED
      BY <1>2, <3>1, <3>3, <3>4 DEF Readying
  <2>5. QED
    BY <1>4, <2>2, <2>3, <2>4 DEF LaunchGpt
<1>5. CASE Create(t)
  <2>1. /\ task' = task /\ loop.at = "create" /\ ~row[t].kept /\ loop'.task = t /\ loop'.todo = loop.todo
        /\ \A u \in Tasks : u # t => row'[u] = row[u] /\ launches'[u] = launches[u]
        /\ {failures, crashes, failures', crashes', launches[t]} \subseteq Nat
        /\ launches'[t] \in {launches[t], launches[t] + 1}
    BY <1>5, <1>0 DEF Create, Goto, SetRow, RowInv, TypeOK, Loop
  <2>2. \/ /\ row'[t].state = "SESSION_CREATED" /\ row'[t].kept /\ loop'.at = "claim"
           /\ Troubles' = Troubles
        \/ /\ row'[t].state = "ABORTED" /\ ~row'[t].kept /\ loop'.at = "refuse"
           /\ Troubles' = Troubles + 1
    BY <1>5, <1>0, <2>1 DEF Create, Goto, SetRow, Troubles, TypeOK, Loop, Row
  <2>3. RowInv'
    BY <1>0, <2>1, <2>2 DEF RowInv, Exists, Sessioned
  <2>4. ASSUME NEW u \in Tasks, u \notin returned', ~(Troubles' >= 2) PROVE LaunchedOnce(u)'
    <3>1. LaunchedOnce(u) /\ Troubles \in Nat
      BY <1>0, <1>3, <2>1, <2>2, <2>4 DEF Troubles
    <3>2. CASE u # t
      BY <1>0, <2>1, <2>2, <3>1, <3>2 DEF LaunchedOnce
    <3>3. CASE u = t
      <4>1. launches[t] = 0
        BY <1>0, <2>1, <3>1, <3>3 DEF LaunchedOnce
      <4>2. QED
        BY <1>0, <2>1, <2>2, <3>1, <3>3, <4>1 DEF LaunchedOnce
    <3>4. QED
      BY <3>2, <3>3
  <2>5. QED
    BY <1>2, <2>2, <2>3, <2>4 DEF Readying
<1>6. CASE Refuse(t)
  <2>1. /\ UNCHANGED <<row, launches, failures>> /\ Troubles' = Troubles /\ loop.at = "refuse"
    BY <1>6, <1>0 DEF Refuse, Troubles
  <2>2. Advance
    BY <1>6, <1>0, MoveAdvances DEF Refuse
  <2>3. task'[t].step # "ready"
    <3>1. task[t].step = "ready" => MayMove(task[t].step, "waiting_human")
      BY DEF MayMove, StepMoves
    <3>2. QED
      BY <1>6, <3>1 DEF Refuse, MoveStep, TypeOK, Task
  <2>4. /\ loop'.at \in {"resume", "between"} /\ loop'.task \in {t, None} /\ loop'.todo = loop.todo
    BY <1>6, <1>0, TendedGoes DEF Refuse
  <2>5. RowInv'
    BY <1>0, <2>1, <2>2, <2>4 DEF RowInv, Exists, Sessioned, Advance, Tasks
  <2>6. ASSUME NEW u \in Tasks, u \notin returned', ~(Troubles' >= 2) PROVE LaunchedOnce(u)'
    <3>1. LaunchedOnce(u)
      BY <1>0, <1>3, <2>1, <2>6
    <3>2. QED
      BY <1>0, <2>1, <2>2, <2>3, <2>4, <2>6, <3>1 DEF LaunchedOnce, Advance
  <2>7. QED
    BY <1>2, <2>4, <2>5, <2>6 DEF Readying
<1>7. CASE ResumeClaim(t)
  <2>1. /\ UNCHANGED <<task, row, launches, failures>> /\ loop.at = "claim" /\ Advance
        /\ loop'.at \in {"claiming", "claimed", "refused"} /\ loop'.task = t /\ loop'.todo = loop.todo
    BY <1>7, <1>0 DEF ResumeClaim, Goto, Advance, TypeOK, Loop
  <2>2. row[t].kept
    BY <1>0, <2>1 DEF RowInv, Sessioned
  <2>3. RowInv' /\ LaunchInv'
    BY <1>0, <2>1, <2>2, LaunchFrame
  <2>4. QED
    BY <1>1, <2>1, <2>3 DEF Readying
<1>8. CASE Claimed(t) \/ SendWakeup(t)
  <2>1. /\ task' = task /\ launches' = launches /\ row[t].kept
        /\ loop.at \in {"claimed", "refused", "wake"} /\ Advance
    BY <1>8, <1>0 DEF Claimed, SendWakeup, RowInv, Sessioned, Advance
  <2>2. /\ row'[t].kept /\ \A u \in Tasks : u # t => row'[u] = row[u]
        /\ row'[t] = row[t] \/ row'[t].state \in {"CLAIMED", "ABORTED", "WAKEUP_SENT"}
    BY <1>8, <2>1 DEF Claimed, SendWakeup, SetRow, TypeOK, Row
  <2>3. /\ loop'.at \in {"wake", "handBack", "resume", "between"}
        /\ loop'.task \in {t, None} /\ loop'.todo = loop.todo
    BY <1>8, <1>0, TendedGoes DEF Claimed, SendWakeup, Goto, TypeOK, Loop
  <2>4. Troubles' >= Troubles /\ {Troubles, Troubles'} \subseteq Nat
    BY <1>8, <1>0 DEF Claimed, SendWakeup, Troubles, TypeOK
  <2>5. RowInv'
    BY <1>0, <2>1, <2>2, <2>3 DEF RowInv, Exists, Sessioned
  <2>6. ASSUME NEW u \in Tasks, u \notin returned', ~(Troubles' >= 2) PROVE LaunchedOnce(u)'
    <3>1. LaunchedOnce(u)
      BY <1>0, <1>3, <2>4, <2>6
    <3>2. CASE u # t
      BY <1>0, <2>1, <2>2, <2>3, <2>4, <3>1, <3>2 DEF LaunchedOnce
    <3>3. CASE u = t
      <4>1. row'[t].state \notin {"none", "RESERVED"} \/ row'[t] = row[t]
        BY <2>2
      <4>2. row[t].state \notin {"none", "RESERVED"}
        BY <2>1 DEF RowInv
      <4>3. QED
        BY <1>0, <2>1, <2>2, <2>3, <2>4, <3>1, <3>3, <4>1, <4>2 DEF LaunchedOnce
    <3>4. QED
      BY <3>2, <3>3
  <2>7. QED
    BY <1>2, <2>3, <2>5, <2>6 DEF Readying
<1>9. CASE HandBack(t)
  <2>1. UNCHANGED <<row, launches, failures>> /\ loop.at = "handBack"
    BY <1>9, <1>0 DEF HandBack
  <2>2. Advance
    <3>1. CASE task' = task
      BY <1>0, <3>1 DEF Advance
    <3>2. CASE MoveStep(t, "waiting_human")
      BY <1>0, <3>2, MoveAdvances
    <3>3. QED
      BY <1>9, <3>1, <3>2 DEF HandBack
  <2>3. /\ loop'.at \in {"resume", "between"} /\ loop'.task \in {t, None} /\ loop'.todo = loop.todo
        /\ \A u \in Tasks : loop'.task = u \/ u \in loop'.todo => Exists(u)
    BY <1>9, <1>0, TendedGoes DEF HandBack
  <2>4. RowInv' /\ LaunchInv'
    BY <1>0, <2>1, <2>2, <2>3, LaunchFrame DEF Sessioned
  <2>5. QED
    BY <1>1, <2>3, <2>4 DEF Readying
<1>10. QED
  BY <1>4, <1>5, <1>6, <1>7, <1>8, <1>9 DEF Launching

LEMMA RepeatNext ==
    ASSUME IInv, RowInv, LaunchInv, ResumeInv, [Next]_vars
    PROVE  RowInv' /\ LaunchInv' /\ ResumeInv'
<1> USE DEF IInv
<1>1. ASSUME NEW t \in Tasks, Serve(t) PROVE RowInv' /\ LaunchInv' /\ ResumeInv'
  BY <1>1, AdvanceByServe, RepeatFrame
<1>2. CASE UNCHANGED vars
  <2>1. Advance /\ Hears /\ UNCHANGED <<row, receipt, launches, resumes, cut, failures, crashes>>
    BY <1>2 DEF vars, durable, history, faults, Advance, Hears
  <2>2. QED
    BY <2>1, RepeatFrame
<1>3. QED
  BY <1>1, <1>2, RepeatKeptByOthers, RepeatKeptByCrash, RepeatKeptByPass, RepeatKeptByIngest,
     RepeatKeptByResuming, RepeatKeptByLaunching DEF Next, Pass

(* A session is launched a second time for a task only after two faults or *)
(* when somebody has readied its step again (launchGpt), and a completed   *)
(* repair readies the step of its parent once, and once more for every     *)
(* crash that comes between this and the receipt (reconcileParentResume):  *)
(* whatever sessions, gates and humans do meanwhile, and wherever a        *)
(* failure or a restart cuts a pass.                                       *)
THEOREM NoRepetition == Spec => []NothingIsRepeated
<1>1. Init => RInv
  BY TypeInit, ClaimInit, WakeInit, RepeatInit DEF IInv, RInv
<1>2. RInv /\ [Next]_vars => RInv'
  <2>1. IInv /\ [Next]_vars => IInv'
    BY TypeNext, ClaimNext, WakeNext DEF IInv
  <2>2. QED
    BY <2>1, RepeatNext DEF RInv
<1>3. RInv => NothingIsRepeated
  <2> SUFFICES ASSUME RInv PROVE NothingIsRepeated
    OBVIOUS
  <2>1. \A t \in Tasks : launches[t] > 1 => failures + crashes >= 2 \/ t \in returned
    BY DEF RInv, LaunchInv, LaunchedOnce, Troubles, IInv, TypeOK
  <2>2. \A c \in Repairs : resumes[c] <= 1 + cut[c]
    BY DEF RInv, ResumeInv, IInv, TypeOK
  <2>3. QED
    BY <2>1, <2>2 DEF NothingIsRepeated
<1>4. QED
  BY <1>1, <1>2, <1>3, PTL DEF Spec

=============================================================================
