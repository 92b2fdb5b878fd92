----------------------------- MODULE JobManager -----------------------------
(***************************************************************************)
(* The job manager of crates/zero3-scheduler over the append-only event    *)
(* store of crates/zero3-store.                                            *)
(*                                                                         *)
(* A status change appends one JSON line to the log and then changes the   *)
(* record in memory; both happen under the lock of the job map, except     *)
(* that `progress' releases the lock between its check and its append.  A  *)
(* restart replays the log and refuses one that does not parse or in which *)
(* a job makes an illegal move.                                            *)
(*                                                                         *)
(* An append may be interrupted anywhere: by an I/O error, which the       *)
(* caller is told of and the process survives, or by a crash.  The line is *)
(* then absent, complete, cut inside its JSON, cut inside a multi-byte     *)
(* character, or complete but for its newline.  The store never truncates, *)
(* so the next line is glued to what was left.                             *)
(*                                                                         *)
(* Abstractions.  `log' is what the newline-terminated lines replay to,    *)
(* not the lines: replay is a left fold over a file that only grows.  A    *)
(* job is its status; payloads, outputs, reasons and time stamps are left  *)
(* out.  While the process is down `jobs' holds the statuses it last       *)
(* showed, so that a step of Recover compares them with the recovered ones.*)
(***************************************************************************)
EXTENDS Integers

CONSTANTS
    Jobs,        \* uuids of jobs; each is drawn once
    NoJob,
    Reporting,   \* jobs whose worker calls progress()
    MaxFailed,   \* bound: appends that end in an I/O error
    MaxTorn      \* bound: crashes inside an append

ASSUME JobsAssumption == NoJob \notin Jobs /\ Reporting \subseteq Jobs
ASSUME BoundsAssumption == MaxFailed \in Nat /\ MaxTorn \in Nat

VARIABLES
    up,       \* a JobManager is running
    jobs,     \* JobManager.jobs: the status of every job, "absent" when unknown
    checked,  \* jobs whose progress() has passed its check and not yet appended
    log,      \* what the terminated lines of the file replay to
    tail,     \* the unterminated rest of the file
    failed,   \* appends that ended in an I/O error so far
    torn      \* crashes inside an append so far

vars == <<up, jobs, checked, log, tail, failed, torn>>

-----------------------------------------------------------------------------
(* Events and their replay *)

Terminal == {"succeeded", "failed", "cancelled"}

Statuses == {"absent", "queued", "running"} \cup Terminal

\* apply_event_strict: from which statuses an event is legal, and where it leads.
AllowedFrom ==
    [JobQueued    |-> {"absent"},
     JobStarted   |-> {"queued"},
     JobProgress  |-> {"running"},
     JobCompleted |-> {"running"},
     JobFailed    |-> {"running"},
     JobCancelled |-> {"queued", "running"}]

LeadsTo ==
    [JobQueued    |-> "queued",
     JobStarted   |-> "running",
     JobProgress  |-> "running",
     JobCompleted |-> "succeeded",
     JobFailed    |-> "failed",
     JobCancelled |-> "cancelled"]

Kinds == {"JobQueued", "JobStarted", "JobProgress",
          "JobCompleted", "JobFailed", "JobCancelled"}

\* Events with free text, which need not be ASCII: payload, message, output, reason.
Texted == {"JobQueued", "JobProgress", "JobCompleted", "JobFailed"}

Event == [kind: Kinds, job: Jobs]

NoTail    == [kind |-> "none", job |-> NoJob]
Cut       == [kind |-> "cut", job |-> NoJob]        \* ends inside the JSON
SplitChar == [kind |-> "split_char", job |-> NoJob] \* ends inside a character

\* `illegal' are the jobs with an event their status forbids; `corrupt' says
\* that a terminated line does not parse.
Log == [jobs: [Jobs -> Statuses], illegal: SUBSET Jobs, corrupt: BOOLEAN]

Applied(l, e) ==
    IF l.jobs[e.job] \in AllowedFrom[e.kind]
    THEN [l EXCEPT !.jobs[e.job] = LeadsTo[e.kind]]
    ELSE [l EXCEPT !.illegal = @ \cup {e.job}]

\* A last line without its newline is an event as soon as it parses.
Replayed == IF tail.kind \in Kinds THEN Applied(log, tail) ELSE log

-----------------------------------------------------------------------------
(* EventStore::append *)

Terminated(e) ==
    IF tail = NoTail THEN Applied(log, e) ELSE [log EXCEPT !.corrupt = TRUE]

\* What an interrupted append of e can leave at the end of the file.
Rest(e) ==
    LET pieces == {Cut} \cup (IF e.kind \in Texted THEN {SplitChar} ELSE {})
    IN  IF tail = NoTail THEN pieces \cup {e}
        ELSE IF tail = SplitChar THEN {SplitChar} ELSE pieces

Appended(e) == log' = Terminated(e) /\ tail' = NoTail

Interrupted(e) ==
    \/ UNCHANGED <<log, tail>>
    \/ Appended(e)    \* sync_data failed, or the process died before it returned
    \/ UNCHANGED log /\ tail' \in Rest(e)

Down == up' = FALSE /\ checked' = {}

\* Mutant: the record in memory is changed first and not put back.
LoggedMemoryFirst(e, after) ==
    /\ jobs' = after
    /\ UNCHANGED checked
    /\ \/ Appended(e) /\ UNCHANGED <<up, failed, torn>>
       \/ /\ failed < MaxFailed
          /\ failed' = failed + 1
          /\ Interrupted(e)
          /\ UNCHANGED <<up, torn>>

\* A call that appends e and, once that has succeeded, shows `after' in memory.
Logged(e, after) ==
    \/ /\ Appended(e)
       /\ jobs' = after
       /\ UNCHANGED <<up, failed, torn>>
       /\ checked' = IF e.kind = "JobProgress" THEN checked \ {e.job} ELSE checked
    \/ /\ failed < MaxFailed
       /\ failed' = failed + 1
       /\ Interrupted(e)
       /\ UNCHANGED <<up, jobs, torn>>
       /\ checked' = IF e.kind = "JobProgress" THEN checked \ {e.job} ELSE checked
    \/ /\ torn < MaxTorn
       /\ torn' = torn + 1
       /\ Interrupted(e)
       /\ Down
       /\ UNCHANGED <<jobs, failed>>

-----------------------------------------------------------------------------
(* JobManager *)

Init ==
    /\ up = TRUE
    /\ jobs = [j \in Jobs |-> "absent"]
    /\ checked = {}
    /\ log = [jobs |-> jobs, illegal |-> {}, corrupt |-> FALSE]
    /\ tail = NoTail
    /\ failed = 0
    /\ torn = 0

\* A uuid that was drawn for an append that failed is never drawn again.
Unused(j) ==
    jobs[j] = "absent" /\ log.jobs[j] = "absent" /\ j \notin log.illegal /\ tail.job # j

Call(kind, j) ==
    Logged([kind |-> kind, job |-> j], [jobs EXCEPT ![j] = LeadsTo[kind]])

Create(j) == up /\ Unused(j) /\ Call("JobQueued", j)

Start(j) == up /\ jobs[j] = "queued" /\ Call("JobStarted", j)

Complete(j) == up /\ jobs[j] = "running" /\ Call("JobCompleted", j)

Fail(j) == up /\ jobs[j] = "running" /\ Call("JobFailed", j)

Cancel(j) == up /\ jobs[j] \in {"queued", "running"} /\ Call("JobCancelled", j)

\* progress() looks at the status under the lock and releases it ...
ProgressCheck(j) ==
    /\ up
    /\ jobs[j] = "running"
    /\ checked' = checked \cup {j}
    /\ UNCHANGED <<up, jobs, log, tail, failed, torn>>

\* ... and appends its event later, whatever the status is by then.
ProgressAppend(j) ==
    up /\ j \in checked /\ Logged([kind |-> "JobProgress", job |-> j], jobs)

Crash == up /\ Down /\ UNCHANGED <<jobs, log, tail, failed, torn>>

\* read_to_string refuses a split character in both modes; only the tolerant
\* mode drops an unterminated line that does not parse.
Readable(mode) ==
    /\ ~log.corrupt
    /\ tail # SplitChar
    /\ tail = Cut => mode = "RecoverCrashTail"

Recover(mode) ==
    /\ ~up
    /\ Readable(mode)
    /\ Replayed.illegal = {}
    /\ up' = TRUE
    /\ jobs' = Replayed.jobs
    /\ UNCHANGED <<checked, log, tail, failed, torn>>

Next ==
    \/ \E j \in Jobs :
        \/ Create(j)
        \/ Start(j)
        \/ Complete(j)
        \/ Fail(j)
        \/ Cancel(j)
    \/ \E j \in Reporting : ProgressCheck(j) \/ ProgressAppend(j)
    \/ Crash
    \/ \E mode \in {"Strict", "RecoverCrashTail"} : Recover(mode)

Spec == Init /\ [][Next]_vars

-----------------------------------------------------------------------------
(* Properties *)

TypeOK ==
    /\ up \in BOOLEAN
    /\ jobs \in [Jobs -> Statuses]
    /\ checked \subseteq Reporting
    /\ log \in Log
    /\ tail \in Event \cup {NoTail, Cut, SplitChar}
    /\ failed \in 0..MaxFailed
    /\ torn \in 0..MaxTorn

Interruptions == failed + torn

\* The order in which a job may be seen: b is a or comes after it.
Reaches(a, b) ==
    \/ a = b
    \/ a = "absent"
    \/ a = "queued" /\ b \in {"running"} \cup Terminal
    \/ a = "running" /\ b \in Terminal

(* What a reader once saw of a job is never taken back: its status only    *)
(* moves forward, a final one stays, in one process and across restarts,   *)
(* also when one append was interrupted (durable-first appends under the   *)
(* lock, and replay in append order).                                      *)
StatusOnlyAdvances ==
    [][Interruptions' <= 1 => \A j \in Jobs : Reaches(jobs[j], jobs'[j])]_vars

(* As long as no append was interrupted, a manager rebuilt from the log is *)
(* the manager that wrote it: every live transition is replayed to the     *)
(* status it had in memory (create/start/complete/fail/cancel against      *)
(* apply_event_strict).                                                    *)
MemoryIsReplay == Interruptions = 0 => Replayed.jobs = jobs

(* As long as no append was interrupted, a job that reports no progress    *)
(* has a history the strict replay accepts, and every line parses: the     *)
(* status check and the append of a transition are one step of the lock.   *)
TransitionsAreLegal ==
    Interruptions = 0 => log.illegal \subseteq Reporting /\ Readable("Strict")

=============================================================================
