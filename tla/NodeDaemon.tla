----------------------------- MODULE NodeDaemon -----------------------------
(***************************************************************************)
(* The node daemon of apps/node: the persistent scheduler of               *)
(* crates/zero3-scheduler/src/persistent.rs and the job executions over    *)
(* the job manager of module JobManager.                                   *)
(*                                                                         *)
(* The scheduler loop, the HTTP handlers and one task per job run          *)
(* concurrently on the same job manager and the same SQLite table.  A pass *)
(* of the loop reads the due rows, and then, row by row, creates a job and *)
(* advances the row.  Creation and advance are separate durable writes.    *)
(* The jobs of a pass are spawned when the whole pass has succeeded.  A    *)
(* restart replays the event log, spawns the queued jobs and fails the     *)
(* running ones before anything else is served.                            *)
(*                                                                         *)
(* Abstractions.  A tick of the clock is the period of every recurring     *)
(* schedule, a row is due when its occurrence is not later than the clock. *)
(* SQLite statements are atomic and durable; a failed one changes nothing. *)
(* Approvals, payloads and the providers that do the work are left out.    *)
(***************************************************************************)
EXTENDS JobManager, FiniteSets

CONSTANTS
    Schedules,    \* ids of schedules; each is created at most once
    Recurring,    \* the schedules that are not `once'
    NoOccurrence,
    Managed,      \* schedules that users disable, enable and delete
    MaxTime,      \* bound: ticks of the clock
    MaxFaults     \* bound: crashes and failed writes of every kind together

ASSUME SchedulesAssumption == Recurring \cup Managed \subseteq Schedules
ASSUME DaemonBoundsAssumption == {MaxTime, MaxFaults} \subseteq Nat

VARIABLES
    now,        \* the clock
    rows,       \* the table `schedules'
    pass,       \* the locals of dispatch_due
    tasks,      \* execute_job: "none", "spawned" or "executing" for every job
    recovered,  \* running jobs that reconcile_recovered_jobs has still to fail
    of,         \* the schedule_id and scheduled_for in a job's payload
    ran,        \* history: how often a job's work was begun
    off,        \* history: schedules disabled or deleted outside of a pass over them
    crashes,    \* crashes between two writes so far
    dbFailed    \* failed SQLite statements so far

process == <<tasks, pass, recovered>>
budgets == <<crashes, dbFailed>>
daemonVars == <<now, rows, process, of, ran, off, budgets>>

-----------------------------------------------------------------------------
(* Rows and occurrences *)

Times == 0..(MaxTime + 1)

NoTime == -1

\* `first' is not a column: it remembers with which occurrence the row began.
Row == [exists: BOOLEAN, next: Times \cup {NoTime}, enabled: BOOLEAN, first: Times \cup {NoTime}]

NoRow == [exists |-> FALSE, next |-> NoTime, enabled |-> FALSE, first |-> NoTime]

Occurrence == [schedule: Schedules, at: Times]

\* The payload of a submitted job carries neither a schedule nor an occurrence.
ASSUME OccurrenceAssumption == NoOccurrence \notin Occurrence

\* Mutant: the enabled flag is not part of the query.
DueWhateverFlag ==
    {o \in Occurrence : rows[o.schedule].exists /\ rows[o.schedule].next = o.at /\ o.at <= now}

Due ==
    {o \in Occurrence :
        rows[o.schedule].exists /\ rows[o.schedule].enabled
            /\ rows[o.schedule].next = o.at /\ o.at <= now}

\* Mutant: the occurrence itself counts as the next one.
AfterDispatchSame(row, o) ==
    IF o.schedule \in Recurring
    THEN [row EXCEPT !.next = o.at, !.enabled = TRUE]
    ELSE [row EXCEPT !.next = NoTime, !.enabled = FALSE]

\* ScheduleSpec::next_after and the UPDATE of advance_after_dispatch.
AfterDispatch(row, o) ==
    IF o.schedule \in Recurring
    THEN [row EXCEPT !.next = o.at + 1, !.enabled = TRUE]
    ELSE [row EXCEPT !.next = NoTime, !.enabled = FALSE]

\* `job' was created for its occurrence and the row is not advanced yet.
Pass == [due: SUBSET Occurrence, job: Jobs \cup {NoJob}, created: SUBSET Jobs]

Idle == [due |-> {}, job |-> NoJob, created |-> {}]

-----------------------------------------------------------------------------
(* The process *)

Serving == up /\ recovered = {}

\* What the process holds becomes t, p and r, or is lost with it.
Lives(t, p, r) ==
    /\ tasks' = IF up' THEN t ELSE [j \in Jobs |-> "none"]
    /\ pass' = IF up' THEN p ELSE Idle
    /\ recovered' = IF up' THEN r ELSE {}

\* The call on j was answered with success.
Moved(j) == jobs'[j] # jobs[j]

SomeUnused == \E j \in Jobs : Unused(j)

\* The bound on jobs is met at the head of a pass and by Submit, never inside a pass.
Left == Cardinality({j \in Jobs : Unused(j)})

Fresh == CHOOSE j \in Jobs : Unused(j)

DaemonInit ==
    /\ Init
    /\ now = 0
    /\ rows = [s \in Schedules |-> NoRow]
    /\ pass = Idle
    /\ tasks = [j \in Jobs |-> "none"]
    /\ recovered = {}
    /\ of = [j \in Jobs |-> NoOccurrence]
    /\ ran = [j \in Jobs |-> 0]
    /\ off = {}
    /\ crashes = 0
    /\ dbFailed = 0

Tick == now < MaxTime /\ now' = now + 1 /\ UNCHANGED <<vars, rows, process, of, ran, off, budgets>>

-----------------------------------------------------------------------------
(* HTTP handlers *)

\* submit_agent, submit_browser, submit_computer
Submit ==
    /\ Serving /\ SomeUnused /\ Left > Cardinality(pass.due)
    /\ Create(Fresh)
    /\ Lives(IF Moved(Fresh) THEN [tasks EXCEPT ![Fresh] = "spawned"] ELSE tasks, pass, recovered)
    /\ of' = [of EXCEPT ![Fresh] = NoOccurrence]
    /\ UNCHANGED <<now, rows, ran, off, budgets>>

WriteRow(s, row) ==
    rows' = [rows EXCEPT ![s] = row] /\ UNCHANGED <<vars, now, process, of, ran, budgets>>

CreateSchedule(s, at) ==
    /\ Serving /\ rows[s] = NoRow
    /\ WriteRow(s, [exists |-> TRUE, next |-> at, enabled |-> TRUE, first |-> at])
    /\ UNCHANGED off

InPass(s) ==
    \/ \E o \in pass.due : o.schedule = s
    \/ pass.job # NoJob /\ of[pass.job].schedule = s

SetEnabled(s, on) ==
    /\ Serving /\ rows[s].exists /\ rows[s].enabled # on
    /\ WriteRow(s, [rows[s] EXCEPT !.enabled = on])
    /\ off' = IF on \/ InPass(s) THEN off \ {s} ELSE off \cup {s}

DeleteSchedule(s) ==
    /\ Serving /\ rows[s].exists
    /\ WriteRow(s, [rows[s] EXCEPT !.exists = FALSE])
    /\ off' = IF InPass(s) THEN off \ {s} ELSE off \cup {s}

-----------------------------------------------------------------------------
(* scheduler_loop and dispatch_due *)

ReadDue ==
    /\ Serving /\ pass = Idle /\ Due # {} /\ Left >= Cardinality(Due)
    /\ pass' = [Idle EXCEPT !.due = Due]
    /\ UNCHANGED <<vars, now, rows, tasks, recovered, of, ran, off, budgets>>

\* Mutant: the row is advanced before the job is created.
EnqueueAfterAdvance(o) ==
    /\ up /\ o \in pass.due /\ pass.job = NoJob /\ SomeUnused
    /\ \A p \in pass.due : o.at <= p.at
    /\ Create(Fresh)
    /\ of' = [of EXCEPT ![Fresh] = o]
    /\ rows' = [rows EXCEPT ![o.schedule] = AfterDispatch(@, o)]
    /\ Lives(tasks, IF Moved(Fresh) THEN [pass EXCEPT !.due = @ \ {o}, !.job = Fresh] ELSE Idle,
             recovered)
    /\ UNCHANGED <<now, ran, off, budgets>>

\* The next row of the pass, in the order of next_run_at.  An error ends the
\* pass, and the ids of the jobs it has created are dropped.
Enqueue(o) ==
    /\ up /\ o \in pass.due /\ pass.job = NoJob /\ SomeUnused
    /\ \A p \in pass.due : o.at <= p.at
    /\ Create(Fresh)
    /\ of' = [of EXCEPT ![Fresh] = o]
    /\ Lives(tasks, IF Moved(Fresh) THEN [pass EXCEPT !.due = @ \ {o}, !.job = Fresh] ELSE Idle,
             recovered)
    /\ UNCHANGED <<now, rows, ran, off, budgets>>

\* advance_after_dispatch; the row may have been changed or deleted meanwhile.
Advance ==
    /\ up /\ pass.job # NoJob
    /\ LET o == of[pass.job] IN
       \/ /\ rows' = [rows EXCEPT ![o.schedule] = IF @.exists THEN AfterDispatch(@, o) ELSE @]
          /\ pass' = [pass EXCEPT !.job = NoJob, !.created = @ \cup {pass.job}]
          /\ UNCHANGED dbFailed
       \/ /\ dbFailed' = dbFailed + 1
          /\ pass' = Idle
          /\ UNCHANGED rows
    /\ UNCHANGED <<vars, now, tasks, recovered, of, ran, off, crashes>>

\* Mutant: jobs of a schedule wait until they are polled for.
SpawnNothing ==
    /\ up /\ pass.due = {} /\ pass.job = NoJob /\ pass.created # {}
    /\ pass' = Idle
    /\ UNCHANGED <<vars, now, rows, tasks, recovered, of, ran, off, budgets>>

SpawnCreated ==
    /\ up /\ pass.due = {} /\ pass.job = NoJob /\ pass.created # {}
    /\ tasks' = [j \in Jobs |-> IF j \in pass.created THEN "spawned" ELSE tasks[j]]
    /\ pass' = Idle
    /\ UNCHANGED <<vars, now, rows, recovered, of, ran, off, budgets>>

-----------------------------------------------------------------------------
(* execute_job.  Its status check always succeeds: a task is spawned for a  *)
(* queued job, and only the task itself moves that job on.                  *)

\* Mutant: an error of start() is only logged.
BeginRegardless(j) ==
    /\ tasks[j] = "spawned" /\ Start(j)
    /\ ran' = [ran EXCEPT ![j] = @ + 1]
    /\ Lives([tasks EXCEPT ![j] = "executing"], pass, recovered)
    /\ UNCHANGED <<now, rows, of, off, budgets>>

Begin(j) ==
    /\ tasks[j] = "spawned" /\ Start(j)
    /\ ran' = IF Moved(j) THEN [ran EXCEPT ![j] = @ + 1] ELSE ran
    /\ Lives([tasks EXCEPT ![j] = IF Moved(j) THEN "executing" ELSE "none"], pass, recovered)
    /\ UNCHANGED <<now, rows, of, off, budgets>>

\* The error of complete() or fail() is dropped.
End(j) ==
    /\ tasks[j] = "executing" /\ (Complete(j) \/ Fail(j))
    /\ Lives([tasks EXCEPT ![j] = "none"], pass, recovered)
    /\ UNCHANGED <<now, rows, of, ran, off, budgets>>

-----------------------------------------------------------------------------
(* Crash, build_state and reconcile_recovered_jobs *)

Die ==
    /\ crashes' = crashes + 1
    /\ Crash
    /\ Lives(tasks, pass, recovered)
    /\ UNCHANGED <<now, rows, of, ran, off, dbFailed>>

\* Mutant: jobs that were queued wait for their schedule.
RestartOnlyFailing ==
    /\ Recover("RecoverCrashTail")
    /\ Lives(tasks, pass, {j \in Jobs : jobs'[j] = "running"})
    /\ UNCHANGED <<now, rows, of, ran, off, budgets>>

Restart ==
    /\ Recover("RecoverCrashTail")
    /\ Lives([j \in Jobs |-> IF jobs'[j] = "queued" THEN "spawned" ELSE "none"],
             pass, {j \in Jobs : jobs'[j] = "running"})
    /\ UNCHANGED <<now, rows, of, ran, off, budgets>>

Reconcile(j) ==
    /\ j \in recovered /\ Fail(j)
    /\ Lives(tasks, pass, recovered \ {j})
    /\ UNCHANGED <<now, rows, of, ran, off, budgets>>

-----------------------------------------------------------------------------

Scheduler == ReadDue \/ (\E o \in pass.due : Enqueue(o)) \/ Advance \/ SpawnCreated

Execution(j) == Begin(j) \/ End(j)

Faults == failed + torn + crashes + dbFailed

Step ==
    \/ Tick
    \/ Submit
    \/ \E s \in Schedules : \E at \in 0..MaxTime : CreateSchedule(s, at)
    \/ \E s \in Managed : DeleteSchedule(s) \/ \E on \in BOOLEAN : SetEnabled(s, on)
    \/ Scheduler
    \/ \E j \in Jobs : Execution(j)
    \/ Die
    \/ Restart
    \/ \E j \in Jobs : Reconcile(j)

DaemonNext == Step /\ Faults' <= MaxFaults

DaemonSpec == DaemonInit /\ [][DaemonNext]_<<vars, daemonVars>>

\* The loop and every spawned task are polled again and again, the daemon is
\* started again after a crash.  Nobody has to call and nothing has to fail.
FairDaemon ==
    /\ DaemonSpec
    /\ WF_<<vars, daemonVars>>(Scheduler)
    /\ \A j \in Jobs : WF_<<vars, daemonVars>>(Execution(j) \/ Reconcile(j))
    /\ WF_<<vars, daemonVars>>(Restart)

-----------------------------------------------------------------------------
(* Properties *)

DaemonTypeOK ==
    /\ TypeOK
    /\ now \in 0..MaxTime
    /\ rows \in [Schedules -> Row]
    /\ pass \in Pass
    /\ tasks \in [Jobs -> {"none", "spawned", "executing"}]
    /\ recovered \subseteq Jobs
    /\ of \in [Jobs -> Occurrence \cup {NoOccurrence}]
    /\ ran \in [Jobs -> Nat]
    /\ off \subseteq Schedules
    /\ {crashes, dbFailed} \subseteq Nat /\ Faults <= MaxFaults

(* The work of a job is begun at most once, whatever fails and whenever    *)
(* the daemon dies: it is begun only behind a durable JobStarted, and a    *)
(* restart fails the job it finds running (execute_job,                    *)
(* reconcile_recovered_jobs).                                              *)
BegunAtMostOnce == \A j \in Jobs : ran[j] <= 1

Recorded(o) == {j \in Jobs : of[j] = o /\ Replayed.jobs[j] # "absent"}

\* Occurrences the row has left behind.
Passed(s) ==
    {o \in Occurrence :
        /\ o.schedule = s
        /\ rows[s].first # NoTime /\ rows[s].first <= o.at
        /\ IF rows[s].next = NoTime THEN o.at = rows[s].first ELSE o.at < rows[s].next}

(* At least once: an occurrence that a row has left behind has a job in    *)
(* the log, whenever the daemon dies or a write fails (dispatch_due        *)
(* creates first and advances afterwards).                                 *)
PassedIsRecorded ==
    Readable("RecoverCrashTail") =>
        \A s \in Schedules : \A o \in Passed(s) : Recorded(o) # {}

(* Not much more than once: every further job of an occurrence costs a     *)
(* crash or a failed write; none comes from passes, flags and deletions    *)
(* (the pair schedule_id, scheduled_for is the key to sort them out).      *)
ExtraJobsCostFaults ==
    \A o \in Occurrence :
        Cardinality(Recorded(o)) <= 1 + Faults

(* While no write has failed, every open job is in somebody's hands, also  *)
(* after restarts: a queued one has a task or is held by the pass, a       *)
(* running one is executed or about to be failed.                          *)
OpenJobsAreTended ==
    up /\ failed = 0 /\ dbFailed = 0 =>
        \A j \in Jobs :
            /\ jobs[j] = "queued" => tasks[j] = "spawned" \/ j \in pass.created \cup {pass.job}
            /\ jobs[j] = "running" => tasks[j] = "executing" \/ j \in recovered

(* A schedule that was disabled or deleted while no pass had read it stays *)
(* so until it is enabled, whatever the scheduler loop does.               *)
OffStaysOff == \A s \in off : ~(rows[s].exists /\ rows[s].enabled)

(* As long as no write is interrupted every accepted job ends, across      *)
(* crashes and restarts: an ended job is never opened again, so it is      *)
(* enough that again and again none is open.                               *)
AcceptedJobsEnd ==
    []<>(failed + torn + dbFailed > 0 \/ \A j \in Jobs : jobs[j] \in Terminal \cup {"absent"})

=============================================================================
