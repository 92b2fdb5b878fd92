---------------------------- MODULE GroupSession ----------------------------
(***************************************************************************)
(* One session of a development group on the desktop: its durable record,  *)
(* the calls that change it, and the executor runtime of ExecutorFailover  *)
(* underneath.                                                             *)
(*                                                                         *)
(* Every operation of the user interface makes a DevelopmentSessionRunner  *)
(* of its own from the record on disk, changes its copy and saves it.  A   *)
(* launch (startWave, retrySession) starts the executor, hands its runner  *)
(* to the supervisor and lets the prompt stream; the settled outcome is    *)
(* delivered and the executor is closed.  Meanwhile a view of the group    *)
(* may find the record in an active status without a supervised prompt and *)
(* declare its outcome unknown, and the user may cancel, answer a          *)
(* permission request or resolve an unknown outcome.  A save is a rename:  *)
(* atomic, but later than the read it is based on.                         *)
(*                                                                         *)
(* Abstractions.  Dependencies and waves are met.  Materialising and       *)
(* verifying a delivery succeeds or fails.  Integration follows delivery   *)
(* and is not part of this module.                                         *)
(***************************************************************************)
EXTENDS ExecutorFailover

CONSTANTS
    MaxSessionAttempts,
    MaxCrashes,         \* bound
    MaxOperations       \* bound: cancellations, answers and resolutions

ASSUME GroupBoundsAssumption == {MaxSessionAttempts, MaxCrashes, MaxOperations} \subseteq Nat

VARIABLES
    disk,       \* the session's record
    delivery,   \* whether its delivery is durable
    job,        \* per launch: its place and the record that its runner holds
    active,     \* the launch in #active of the supervisor
    op,         \* the user's operation under way
    view,       \* the view of the group under way
    crashes, operations,
    disputed,   \* history: a view or a resolution met a launch under way
    stranded,   \* history: a crash left a lease that no start adopts
    succeeded   \* history: the attempts whose turn completed successfully

recordVars == <<disk, delivery>>
historyVars == <<disputed, stranded, succeeded>>
boundVars == <<crashes, operations>>
sessionVars == <<recordVars, job, active, op, view, boundVars, historyVars>>
groupVars == <<failoverVars, sessionVars>>

-----------------------------------------------------------------------------
(* The record *)

Statuses ==
    {"ready", "starting", "running", "waiting_input", "delivering", "delivered", "blocked",
     "outcome_unknown", "failed", "cancelled"}

\* SESSION_TRANSITIONS, without the statuses this module never reaches.
Successors ==
    [s \in Statuses |->
        CASE s = "ready" -> {"starting", "cancelled"}
          [] s = "starting" -> {"running", "blocked", "outcome_unknown", "failed", "cancelled"}
          [] s = "running" -> {"waiting_input", "delivering", "blocked", "outcome_unknown",
                               "failed", "cancelled"}
          [] s = "waiting_input" -> {"running", "blocked", "outcome_unknown", "failed",
                                     "cancelled"}
          [] s = "delivering" -> {"delivered", "blocked", "outcome_unknown", "failed", "cancelled"}
          [] s = "delivered" -> {"blocked"}
          [] s = "blocked" -> {"ready", "running", "delivering", "cancelled", "failed"}
          [] s = "outcome_unknown" -> {"cancelled", "failed"}
          [] s = "failed" -> {"ready"}
          [] s = "cancelled" -> {}]

Valid(from, to) == from = to \/ to \in Successors[from]

Record == [status: Statuses, attempt: 0..MaxSessionAttempts]

InExecution == {"starting", "running", "waiting_input"}

Retryable == {"failed", "blocked"}

JobPlaces ==
    {"none", "loaded", "readying", "beginning", "starting", "failing", "entering"}
        \cup {"prompting", "applying", "settling", "unknowing", "storing", "accepting",
              "blocking", "closing"}

Job == [at: JobPlaces, rec: Record, read: Record]

NoJob == [at |-> "none", rec |-> [status |-> "ready", attempt |-> 0],
          read |-> [status |-> "ready", attempt |-> 0]]

Operation == [kind: {"none", "cancel", "permit", "resolve"}, at: {"saving", "closing"},
              read: Record, to: Statuses]

NoOperation == [kind |-> "none", at |-> "saving", read |-> NoJob.rec, to |-> "ready"]

TypeSession ==
    /\ TypeFailover
    /\ disk \in Record
    /\ delivery \in BOOLEAN
    /\ job \in [Callers -> Job]
    /\ active \in Callers \cup {None}
    /\ op \in Operation
    /\ view \in Record \cup {None}
    /\ crashes \in 0..MaxCrashes /\ operations \in 0..MaxOperations
    /\ {disputed, stranded} \subseteq BOOLEAN
    /\ succeeded \subseteq 1..MaxSessionAttempts

JobAt(l, place) == job[l].at = place

LaunchUnderWay == \E l \in Callers : ~JobAt(l, "none")

JobGoes(l, place) == job' = [job EXCEPT ![l].at = place]

\* The runner's copy gets a status, and a save of it is started.
Sets(l, status, place) == job' = [job EXCEPT ![l].rec.status = status, ![l].at = place]

\* The save that the launch waits for reaches the disk.
Saves(l, place) == disk' = job[l].rec /\ JobGoes(l, place)

Ends(l) == job' = [job EXCEPT ![l] = NoJob]

EndsActive(l) ==
    /\ Ends(l)
    /\ active' = IF active = l THEN None ELSE active

SessionInit ==
    /\ FailoverInit
    /\ disk = [status |-> "ready", attempt |-> 0]
    /\ delivery = FALSE
    /\ job = [l \in Callers |-> NoJob]
    /\ active = None
    /\ op = NoOperation
    /\ view = None
    /\ crashes = 0 /\ operations = 0
    /\ disputed = FALSE /\ stranded = FALSE
    /\ succeeded = {}

-----------------------------------------------------------------------------
(* A launch, up to the supervisor *)

\* startWave takes a ready session, retrySession a failed or blocked one that
\* no supervised prompt still serves.
MayLaunch ==
    \/ disk.status = "ready" /\ disk.attempt < MaxSessionAttempts
    \/ disk.status \in Retryable /\ disk.attempt < MaxSessionAttempts /\ active = None

Launch(l) ==
    /\ JobAt(l, "none")
    /\ At(l, "idle")
    /\ MayLaunch
    /\ job' = [job EXCEPT ![l] = [at |-> IF disk.status = "ready" THEN "loaded" ELSE "readying",
                                  rec |-> [disk EXCEPT !.status = "ready"], read |-> NoJob.read]]
    /\ disputed' = (disputed \/ op.kind = "resolve" \/ view # None)
    /\ UNCHANGED <<failoverVars, recordVars, active, op, view, boundVars, stranded, succeeded>>

\* prepareRetry's save.
Readied(l) ==
    /\ JobAt(l, "readying")
    /\ Saves(l, "loaded")
    /\ UNCHANGED <<failoverVars, delivery, active, op, view, boundVars, historyVars>>

\* runner.start(): the attempt is counted before the executor is asked.
Begin(l) ==
    /\ JobAt(l, "loaded")
    /\ job' = [job EXCEPT ![l].rec = [status |-> "starting", attempt |-> @.attempt + 1],
                          ![l].at = "beginning"]
    /\ UNCHANGED <<failoverVars, recordVars, active, op, view, boundVars, historyVars>>

Begun(l) ==
    /\ JobAt(l, "beginning")
    /\ Saves(l, "starting")
    /\ Start(l)
    /\ UNCHANGED <<delivery, active, op, view, boundVars, historyVars>>

ExecutorStarted(l) ==
    /\ JobAt(l, "starting")
    /\ Started(l)
    /\ UNCHANGED <<recordVars, job, active, op, view, boundVars, disputed, stranded, succeeded>>

ExecutorBinding(l) ==
    /\ JobAt(l, "starting")
    /\ StartFails(l) \/ Binds(l)
    /\ UNCHANGED sessionVars

Refused(l) ==
    /\ JobAt(l, "starting") /\ At(l, "refused")
    /\ Sets(l, "failed", "failing")
    /\ UNCHANGED <<failoverVars, recordVars, active, op, view, boundVars, historyVars>>

\* The save of the failure; start() throws and the launch is over.
StartFailed(l) ==
    /\ JobAt(l, "failing")
    /\ disk' = job[l].rec
    /\ Ends(l)
    /\ flow' = [flow EXCEPT ![l] = AtRest]
    /\ UNCHANGED <<lease, manager, live, bound, binding>>
    /\ UNCHANGED <<delivery, active, op, view, boundVars, historyVars>>

Enter(l) ==
    /\ JobAt(l, "starting") /\ At(l, "ready")
    /\ Sets(l, "running", "entering")
    /\ UNCHANGED <<failoverVars, recordVars, active, op, view, boundVars, historyVars>>

\* The save of `running', and supervisor.launch, which refuses a second prompt.
Entered(l) ==
    /\ JobAt(l, "entering")
    /\ disk' = job[l].rec
    /\ IF active = None
       THEN /\ active' = l
            /\ JobGoes(l, "prompting")
            /\ Prompt(l)
       ELSE /\ Ends(l)
            /\ flow' = [flow EXCEPT ![l] = AtRest]
            /\ UNCHANGED <<active, lease, manager, live, bound, binding>>
    /\ UNCHANGED <<delivery, op, view, boundVars, historyVars>>

-----------------------------------------------------------------------------
(* The prompt *)

\* applyExecutorEvent: an event that comes after the end of the session changes nothing.
EndedStatuses == Retryable \cup {"outcome_unknown", "cancelled"}

\* Mutant: ... or is applied all the same.
OnEventAlways(l, status) == Sets(l, status, "applying")

OnEvent(l, status) ==
    Sets(l, IF job[l].rec.status \in EndedStatuses THEN job[l].rec.status ELSE status, "applying")

\* What a failure that the failover runtime passes on does to the session.
FailedStatus(code) ==
    CASE code \in {"context", "denied"} -> "blocked"
      [] code = "lost" -> "outcome_unknown"
      [] OTHER -> "failed"

Applies(l) ==
    /\ JobAt(l, "applying")
    /\ Saves(l, IF At(l, "returned") THEN "settling" ELSE "prompting")
    /\ UNCHANGED <<failoverVars, delivery, active, op, view, boundVars, historyVars>>

\* A message, or the notice of a retry or of a switch.
Message(l) ==
    /\ JobAt(l, "prompting")
    /\ \/ Hears(l) /\ UNCHANGED failoverVars
       \/ \E code \in Codes : FailureRetried(l, code)
       \/ Granted(l)
    /\ OnEvent(l, "running")
    /\ UNCHANGED <<recordVars, active, op, view, boundVars, historyVars>>

PermissionRequested(l) ==
    /\ JobAt(l, "prompting")
    /\ Hears(l)
    /\ OnEvent(l, "waiting_input")
    /\ UNCHANGED <<failoverVars, recordVars, active, op, view, boundVars, historyVars>>

Fails(l) ==
    /\ JobAt(l, "prompting")
    /\ \E code \in Codes : FailurePassedOn(l, code) /\ OnEvent(l, FailedStatus(code))
    /\ UNCHANGED <<recordVars, active, op, view, boundVars, historyVars>>

Switches(l) ==
    /\ JobAt(l, "prompting")
    /\ (\E code \in Codes : FailureSwitches(l, code)) \/ Switching(l)
    /\ UNCHANGED sessionVars

Completes(l) ==
    /\ JobAt(l, "prompting")
    /\ \/ /\ Completed(l, TRUE)
          /\ OnEvent(l, "delivering")
          /\ succeeded' = IF job[l].rec.status \in EndedStatuses THEN succeeded
                          ELSE succeeded \cup {job[l].rec.attempt}
       \/ /\ Completed(l, FALSE)
          /\ \E s \in {"failed", "cancelled"} : OnEvent(l, s)
          /\ UNCHANGED succeeded
    /\ UNCHANGED <<recordVars, active, op, view, boundVars, disputed, stranded>>

PromptBreaks(l) ==
    /\ JobAt(l, "prompting")
    /\ Breaks(l)
    /\ UNCHANGED sessionVars

\* The prompt threw: the outcome is unknown, unless the session had ended before.
Threw(l) ==
    /\ JobAt(l, "prompting") /\ At(l, "threw")
    /\ IF job[l].rec.status \in EndedStatuses
       THEN JobGoes(l, "settling")
       ELSE Sets(l, "outcome_unknown", "unknowing")
    /\ UNCHANGED <<failoverVars, recordVars, active, op, view, boundVars, historyVars>>

\* The save of outcome_unknown; the executor stays bound until a resolution.
BecameUnknown(l) ==
    /\ JobAt(l, "unknowing")
    /\ disk' = job[l].rec
    /\ EndsActive(l)
    /\ flow' = [flow EXCEPT ![l] = AtRest]
    /\ UNCHANGED <<lease, manager, live, bound, binding>>
    /\ UNCHANGED <<delivery, op, view, boundVars, historyVars>>

-----------------------------------------------------------------------------
(* The settled prompt *)

MayRelease(status) == status \notin InExecution \cup {"outcome_unknown"}

\* afterSettled reads the record that the delivery is accepted for, or is
\* skipped; then the executor is closed, or kept when the outcome is unknown.
Settles(l) ==
    /\ JobAt(l, "settling")
    /\ \/ /\ job[l].rec.status = "delivering"
          /\ \/ /\ disk.status = "delivering"
                /\ job' = [job EXCEPT ![l].at = "storing", ![l].read = disk]
             \/ /\ Valid(disk.status, "blocked")
                /\ job' = [job EXCEPT ![l].at = "blocking", ![l].read = disk]
             \/ /\ disk.status # "delivering" /\ ~Valid(disk.status, "blocked")
                /\ job' = [job EXCEPT ![l] = [NoJob EXCEPT !.at = "closing"]]
          /\ UNCHANGED active
       \/ /\ job[l].rec.status # "delivering" /\ MayRelease(job[l].rec.status)
          /\ job' = [job EXCEPT ![l] = [NoJob EXCEPT !.at = "closing"]]
          /\ UNCHANGED active
       \/ /\ ~MayRelease(job[l].rec.status)
          /\ EndsActive(l)
    /\ IF job'[l].at = "closing" THEN CloseAt(l)
       ELSE IF job'[l].at = "none" THEN flow' = [flow EXCEPT ![l] = AtRest]
       ELSE UNCHANGED flow
    /\ UNCHANGED <<lease, manager, live, bound, binding>>
    /\ UNCHANGED <<recordVars, op, view, boundVars, historyVars>>

\* acceptDevelopmentDelivery writes the delivery first ...
Stored(l) ==
    /\ JobAt(l, "storing")
    /\ delivery' = TRUE
    /\ JobGoes(l, "accepting")
    /\ UNCHANGED <<failoverVars, disk, active, op, view, boundVars, historyVars>>

\* ... and then the record; or the session is blocked.
SettledSaved(l) ==
    /\ job[l].at \in {"accepting", "blocking"}
    /\ disk' = [job[l].read EXCEPT !.status = IF JobAt(l, "accepting") THEN "delivered"
                                                                        ELSE "blocked"]
    /\ job' = [job EXCEPT ![l] = [NoJob EXCEPT !.at = "closing"]]
    /\ CloseAt(l)
    /\ UNCHANGED <<lease, manager, live, bound, binding>>
    /\ UNCHANGED <<delivery, active, op, view, boundVars, historyVars>>

Releasing(l) ==
    /\ JobAt(l, "closing") /\ ~At(l, "idle")
    /\ Releases(l)
    /\ UNCHANGED sessionVars

LaunchReleased(l) ==
    /\ JobAt(l, "closing") /\ At(l, "idle")
    /\ EndsActive(l)
    /\ UNCHANGED <<failoverVars, recordVars, op, view, boundVars, historyVars>>

-----------------------------------------------------------------------------
(* Views and operations *)

\* Mutant: a view leaves sessions that were starting alone.
ViewIgnoresStarting ==
    /\ view = None
    /\ \/ active = None /\ disk.status \in InExecution \ {"starting"}
       \/ disk.status = "delivering" /\ delivery
    /\ view' = disk
    /\ UNCHANGED <<failoverVars, recordVars, job, active, op, boundVars, historyVars>>

\* reconcileInterruptedExecutorRuntime and reconcileAcceptedDelivery read ...
View ==
    /\ view = None
    /\ \/ active = None /\ disk.status \in InExecution
       \/ disk.status = "delivering" /\ delivery
    /\ view' = disk
    /\ UNCHANGED <<failoverVars, recordVars, job, active, op, boundVars, historyVars>>

\* ... and write what follows for the record that was read.
ViewWrites ==
    /\ view # None
    /\ disk' = [view EXCEPT !.status = IF view.status = "delivering" THEN "delivered"
                                                                      ELSE "outcome_unknown"]
    /\ view' = None
    /\ disputed' = (disputed \/ LaunchUnderWay)
    /\ UNCHANGED <<failoverVars, delivery, job, active, op, boundVars, stranded, succeeded>>

Begins(kind, to) ==
    /\ op.kind = "none"
    /\ At(Outside, "idle")
    /\ operations < MaxOperations
    /\ operations' = operations + 1
    /\ op' = [kind |-> kind, at |-> "saving", read |-> disk, to |-> to]
    /\ UNCHANGED <<failoverVars, recordVars, job, active, view, crashes, historyVars>>

\* runner.cancel() and runner.respondPermission() ask the executor first.
Cancel ==
    /\ disk.status # "cancelled"
    /\ manager # None
    /\ Begins("cancel", "cancelled")

RespondPermission ==
    /\ disk.status = "waiting_input"
    /\ \E l \in Callers : flow[l].at \in {"streaming", "resuming"} /\ flow[l].sess = manager
    /\ Begins("permit", "running")

ResolveOutcomeUnknown ==
    /\ disk.status = "outcome_unknown"
    /\ \E to \in {"failed", "cancelled"} : Begins("resolve", to)

\* The operation saves the record it read, with the new status where that is valid.
OperationSaves ==
    /\ op.kind # "none" /\ op.at = "saving"
    /\ disk' = IF Valid(op.read.status, op.to) THEN [op.read EXCEPT !.status = op.to] ELSE disk
    /\ IF op.kind = "resolve"
       THEN op' = [NoOperation EXCEPT !.kind = "resolve", !.at = "closing"] /\ Close(Outside)
       ELSE op' = NoOperation /\ UNCHANGED failoverVars
    /\ disputed' = (disputed \/ (op.kind = "resolve" /\ LaunchUnderWay))
    /\ UNCHANGED <<delivery, job, active, view, boundVars, stranded, succeeded>>

ResolutionReleases ==
    /\ op.at = "closing"
    /\ IF At(Outside, "idle")
       THEN op' = NoOperation /\ UNCHANGED failoverVars
       ELSE Releases(Outside) /\ UNCHANGED op
    /\ UNCHANGED <<recordVars, job, active, view, boundVars, historyVars>>

DesktopCrash ==
    /\ crashes < MaxCrashes
    /\ crashes' = crashes + 1
    /\ ExecutorsDie
    /\ job' = [l \in Callers |-> NoJob]
    /\ active' = None
    /\ op' = NoOperation
    /\ view' = None
    /\ stranded' = (stranded \/ (lease # None /\ ~Adoptable(lease)))
    /\ UNCHANGED <<recordVars, operations, disputed, succeeded>>

-----------------------------------------------------------------------------
(* Specification *)

Launching(l) ==
    Launch(l) \/ Readied(l) \/ Begin(l) \/ Begun(l) \/ ExecutorStarted(l) \/ ExecutorBinding(l)
        \/ Refused(l) \/ StartFailed(l) \/ Enter(l) \/ Entered(l)

Prompting(l) ==
    Message(l) \/ PermissionRequested(l) \/ Fails(l) \/ Switches(l) \/ Completes(l)
        \/ PromptBreaks(l) \/ Threw(l) \/ BecameUnknown(l) \/ Applies(l)

Settling(l) == Settles(l) \/ Stored(l) \/ SettledSaved(l) \/ Releasing(l) \/ LaunchReleased(l)

Operating ==
    Cancel \/ RespondPermission \/ ResolveOutcomeUnknown \/ OperationSaves \/ ResolutionReleases

SessionNext ==
    \/ \E l \in Callers : Launching(l) \/ Prompting(l) \/ Settling(l)
    \/ View \/ ViewWrites
    \/ Operating
    \/ DesktopCrash

SessionSpec == SessionInit /\ [][SessionNext]_groupVars

\* Somebody looks at the group again (every operation on it does), and what a
\* view has read is written.
FairSession == SessionSpec /\ WF_groupVars(View) /\ WF_groupVars(ViewWrites)

-----------------------------------------------------------------------------
(* Properties *)

\* The state constraint of GroupSession_races: a behaviour is followed up to its
\* first view or resolution that met a launch under way: the view may declare the
\* outcome unknown, and the launch saves `running' over it.
Undisputed == ~disputed

\* A turn is heard only while its executor holds the writer lease of its
\* generation, unless a view or a resolution met the launch.
StreamsAsWriter ==
    \A l \in Callers :
        Hears(l) /\ ~disputed =>
            /\ lease # None /\ lease.active
            /\ <<lease.ex, lease.gen>> = <<flow[l].sess.ex, flow[l].sess.gen>>
            /\ <<lease.ex, lease.gen>> = <<MyBinding(l).ctl.cur, MyBinding(l).ctl.gen>>

\* The execution never has two executor sessions at once, through retries,
\* switches, unknown outcomes and crashes (#bindings of the executor manager,
\* the release before the supervisor forgets the prompt, the quarantine), unless
\* a view or a resolution met the launch.
OneExecutor == disputed \/ Cardinality(live) <= 1

\* What is delivered, or about to be, was completed in that attempt.
DeliveredWasCompleted ==
    disk.status \in {"delivering", "delivered"} => disk.attempt \in succeeded

\* Nothing is left in the way of a session that may be launched: its worktree
\* is free, or its lease is one that the next start adopts.
Launchable ==
    /\ disk.status \in {"ready"} \cup Retryable
    /\ ~LaunchUnderWay
    /\ op.kind = "none"

NotLockedOut ==
    Launchable /\ ~disputed /\ ~stranded => lease = None \/ Adoptable(lease)

\* A record that shows an execution that nobody runs any more, after a crash or
\* a refused launch, does not go on showing it (reconcileInterruptedExecutorRuntime).
FakeRunning == disk.status \in InExecution /\ ~LaunchUnderWay

FakeRunningEnds == FakeRunning ~> ~FakeRunning

=============================================================================
