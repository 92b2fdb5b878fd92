-------------------------- MODULE NodeDaemonProofs --------------------------
(***************************************************************************)
(* Theorems about JobManager, for every set of jobs and any number of      *)
(* failed and torn appends, and then about NodeDaemon, which uses it, for  *)
(* every set of jobs and schedules and any number of crashes and failed    *)
(* writes.  What is stated of Spec, the manager's specification, holds of  *)
(* the daemon by DaemonUsesManager.                                        *)
(***************************************************************************)
EXTENDS NodeDaemon, FiniteSetTheorems, TLAPS

-----------------------------------------------------------------------------
(* Replay and append *)

LEMMA AppliedType ==
    ASSUME NEW l \in Log, NEW e \in Event
    PROVE  Applied(l, e) \in Log
<1>1. LeadsTo[e.kind] \in Statuses
  BY DEF Event, Kinds, LeadsTo, Statuses, Terminal
<1>2. e.job \in Jobs
  BY DEF Event
<1>3. [l EXCEPT !.jobs[e.job] = LeadsTo[e.kind]] \in Log
  BY <1>1, <1>2 DEF Log
<1>4. [l EXCEPT !.illegal = @ \cup {e.job}] \in Log
  BY <1>2 DEF Log
<1>5. QED BY <1>3, <1>4 DEF Applied

LEMMA TerminatedType ==
    ASSUME log \in Log, NEW e \in Event
    PROVE  Terminated(e) \in Log
<1>1. [log EXCEPT !.corrupt = TRUE] \in Log
  BY DEF Log
<1>2. QED BY <1>1, AppliedType DEF Terminated

(* Whatever the outcome of an append, the file stays a file. *)
LEMMA AppendType ==
    ASSUME TypeOK, NEW e \in Event, Appended(e) \/ Interrupted(e)
    PROVE  log' \in Log /\ tail' \in Event \cup {NoTail, Cut, SplitChar}
<1>1. Terminated(e) \in Log
  BY TerminatedType DEF TypeOK
<1>2. Rest(e) \subseteq Event \cup {NoTail, Cut, SplitChar}
  BY DEF Rest
<1>3. QED BY <1>1, <1>2 DEF Appended, Interrupted, TypeOK

LEMMA LoggedType ==
    ASSUME TypeOK, NEW e \in Event, NEW after \in [Jobs -> Statuses], Logged(e, after)
    PROVE  TypeOK'
<1>1. log' \in Log /\ tail' \in Event \cup {NoTail, Cut, SplitChar}
  BY AppendType DEF Logged
<1>2. up' \in BOOLEAN /\ jobs' \in [Jobs -> Statuses] /\ checked' \subseteq Reporting
  BY DEF Logged, Down, TypeOK
<1>3. failed' \in 0..MaxFailed /\ torn' \in 0..MaxTorn
  BY BoundsAssumption DEF Logged, TypeOK
<1>4. QED BY <1>1, <1>2, <1>3 DEF TypeOK

LEMMA ReplayedType == TypeOK => Replayed \in Log
<1> SUFFICES ASSUME TypeOK PROVE Replayed \in Log
  OBVIOUS
<1>1. CASE tail.kind \in Kinds
  <2>1. tail \in Event
    BY <1>1 DEF TypeOK, NoTail, Cut, SplitChar, Kinds
  <2>2. QED BY <1>1, <2>1, AppliedType DEF Replayed, TypeOK
<1>2. CASE tail.kind \notin Kinds
  BY <1>2 DEF Replayed, TypeOK
<1>3. QED BY <1>1, <1>2

-----------------------------------------------------------------------------
(* Type correctness *)

LEMMA TypeInit == Init => TypeOK
<1> SUFFICES ASSUME Init PROVE TypeOK
  OBVIOUS
<1>1. jobs \in [Jobs -> Statuses]
  BY DEF Init, Statuses
<1>2. log \in Log
  BY <1>1 DEF Init, Log
<1>3. QED BY <1>1, <1>2, BoundsAssumption DEF Init, TypeOK

LEMMA CallType ==
    ASSUME TypeOK, NEW kind \in Kinds, NEW j \in Jobs, Call(kind, j)
    PROVE  TypeOK'
<1>1. LeadsTo[kind] \in Statuses
  BY DEF Kinds, LeadsTo, Statuses, Terminal
<1>2. [jobs EXCEPT ![j] = LeadsTo[kind]] \in [Jobs -> Statuses]
  BY <1>1 DEF TypeOK
<1>3. [kind |-> kind, job |-> j] \in Event
  BY DEF Event
<1>4. QED BY <1>2, <1>3, LoggedType DEF Call

LEMMA TypeNext == TypeOK /\ [Next]_vars => TypeOK'
<1> SUFFICES ASSUME TypeOK, [Next]_vars PROVE TypeOK'
  OBVIOUS
<1>1. ASSUME NEW j \in Jobs,
             Create(j) \/ Start(j) \/ Complete(j) \/ Fail(j) \/ Cancel(j)
      PROVE  TypeOK'
  BY <1>1, CallType DEF Create, Start, Complete, Fail, Cancel, Kinds
<1>2. ASSUME NEW j \in Reporting, ProgressCheck(j) PROVE TypeOK'
  BY <1>2 DEF ProgressCheck, TypeOK
<1>3. ASSUME NEW j \in Reporting, ProgressAppend(j) PROVE TypeOK'
  <2>1. [kind |-> "JobProgress", job |-> j] \in Event
    BY JobsAssumption DEF Event, Kinds
  <2>2. QED BY <1>3, <2>1, LoggedType DEF ProgressAppend, TypeOK
<1>4. CASE Crash
  BY <1>4 DEF Crash, Down, TypeOK
<1>5. ASSUME NEW mode, Recover(mode) PROVE TypeOK'
  <2>1. Replayed.jobs \in [Jobs -> Statuses]
    BY ReplayedType DEF Log
  <2>2. QED BY <1>5, <2>1 DEF Recover, TypeOK
<1>6. CASE UNCHANGED vars
  BY <1>6 DEF vars, TypeOK
<1>7. QED BY <1>1, <1>2, <1>3, <1>4, <1>5, <1>6 DEF Next

(* Every variable of the job manager and of its log stays in its type. *)
THEOREM TypeCorrect == Spec => []TypeOK
  BY TypeInit, TypeNext, PTL DEF Spec

-----------------------------------------------------------------------------
(* The inductive invariant.  Before the first interruption memory and log  *)
(* agree and the file is intact.  After one, the log may be ahead of       *)
(* memory by the interrupted event, whether its line is terminated or      *)
(* still in the tail; a second event glued to the tail makes the file      *)
(* unreadable, so nothing is claimed of it.                                *)

Sound == ~log.corrupt /\ Replayed.illegal = {}

AgreeInv ==
    Interruptions = 0 =>
        /\ tail = NoTail
        /\ ~log.corrupt
        /\ log.illegal \subseteq Reporting
        /\ log.jobs = jobs

AheadInv ==
    Interruptions <= 1 /\ Sound =>
        \A j \in Jobs : Reaches(jobs[j], Replayed.jobs[j])

IInv == TypeOK /\ AgreeInv /\ AheadInv

-----------------------------------------------------------------------------
(* What one event does to a replay, and to the order of statuses. *)

LEMMA NoTailIsNoEvent == NoTail.kind \notin Kinds /\ Cut.kind \notin Kinds /\ SplitChar.kind \notin Kinds
  BY DEF NoTail, Cut, SplitChar, Kinds

LEMMA AppliedLegal ==
    ASSUME NEW l \in Log, NEW e \in Event, l.jobs[e.job] \in AllowedFrom[e.kind]
    PROVE  /\ Applied(l, e).jobs = [l.jobs EXCEPT ![e.job] = LeadsTo[e.kind]]
           /\ Applied(l, e).illegal = l.illegal
           /\ Applied(l, e).corrupt = l.corrupt
  BY DEF Applied, Log

LEMMA AppliedIllegal ==
    ASSUME NEW l \in Log, NEW e \in Event, l.jobs[e.job] \notin AllowedFrom[e.kind]
    PROVE  /\ Applied(l, e).jobs = l.jobs
           /\ Applied(l, e).illegal = l.illegal \cup {e.job}
           /\ Applied(l, e).corrupt = l.corrupt
  BY DEF Applied, Log

LEMMA ReachesOn ==
    ASSUME NEW a \in Statuses, NEW b \in Statuses, NEW k \in Kinds,
           Reaches(a, b), b \in AllowedFrom[k]
    PROVE  Reaches(a, LeadsTo[k])
  BY DEF Reaches, Statuses, Terminal, Kinds, AllowedFrom, LeadsTo

(* An event that is accepted moves its job forward and no other job. *)
LEMMA AppliedReaches ==
    ASSUME NEW l \in Log, NEW e \in Event, NEW f \in [Jobs -> Statuses],
           \A j \in Jobs : Reaches(f[j], l.jobs[j])
    PROVE  \A j \in Jobs : Reaches(f[j], Applied(l, e).jobs[j])
<1> SUFFICES ASSUME NEW j \in Jobs PROVE Reaches(f[j], Applied(l, e).jobs[j])
  OBVIOUS
<1>1. CASE l.jobs[e.job] \in AllowedFrom[e.kind]
  <2>1. f[j] \in Statuses /\ l.jobs[j] \in Statuses /\ e.kind \in Kinds /\ e.job \in Jobs
    BY DEF Log, Event
  <2>2. CASE j = e.job
    <3>1. Applied(l, e).jobs[j] = LeadsTo[e.kind]
      BY <1>1, <2>1, <2>2, AppliedLegal DEF Log
    <3>2. QED BY <1>1, <2>1, <2>2, <3>1, ReachesOn
  <2>3. CASE j # e.job
    <3>1. Applied(l, e).jobs[j] = l.jobs[j]
      BY <1>1, <2>1, <2>3, AppliedLegal DEF Log
    <3>2. QED BY <3>1
  <2>4. QED BY <2>2, <2>3
<1>2. CASE l.jobs[e.job] \notin AllowedFrom[e.kind]
  BY <1>2, AppliedIllegal
<1>3. QED BY <1>1, <1>2

(* The same with the job moving in memory too. *)
LEMMA AppliedReachesBoth ==
    ASSUME NEW l \in Log, NEW e \in Event, NEW f \in [Jobs -> Statuses],
           \A j \in Jobs : Reaches(f[j], l.jobs[j]),
           Applied(l, e).illegal = {}
    PROVE  \A j \in Jobs :
               Reaches([f EXCEPT ![e.job] = LeadsTo[e.kind]][j], Applied(l, e).jobs[j])
<1>1. l.jobs[e.job] \in AllowedFrom[e.kind]
  BY AppliedIllegal
<1>2. e.job \in Jobs
  BY DEF Event
<1>3. Applied(l, e).jobs = [l.jobs EXCEPT ![e.job] = LeadsTo[e.kind]]
  BY <1>1, AppliedLegal
<1>4. QED BY <1>2, <1>3 DEF Reaches, Log
-----------------------------------------------------------------------------
(* Every append keeps the invariant. *)

\* What a call logs: the move memory is about to make, or a progress message.
LiveStep(e, after) ==
    \/ /\ e.kind # "JobProgress"
       /\ jobs[e.job] \in AllowedFrom[e.kind]
       /\ after = [jobs EXCEPT ![e.job] = LeadsTo[e.kind]]
    \/ /\ e.kind = "JobProgress"
       /\ e.job \in Reporting
       /\ after = jobs

\* A call that succeeded, and one that was interrupted.
Succeeded(e, after) == Appended(e) /\ jobs' = after /\ UNCHANGED <<failed, torn>>

Broken(e) == Interrupted(e) /\ jobs' = jobs /\ Interruptions' = Interruptions + 1

LEMMA LoggedCases ==
    ASSUME TypeOK, NEW e \in Event, NEW after, Logged(e, after)
    PROVE  Succeeded(e, after) \/ Broken(e)
  BY BoundsAssumption DEF Logged, Succeeded, Broken, Interruptions, TypeOK

LEMMA SucceededAgree ==
    ASSUME IInv, NEW e \in Event, NEW after, LiveStep(e, after), Succeeded(e, after)
    PROVE  AgreeInv'
<1> SUFFICES ASSUME Interruptions' = 0
             PROVE  tail' = NoTail /\ ~log'.corrupt /\ log'.illegal \subseteq Reporting
                    /\ log'.jobs = jobs'
  BY DEF AgreeInv
<1>1. /\ log \in Log
      /\ tail = NoTail /\ ~log.corrupt
      /\ log.illegal \subseteq Reporting
      /\ log.jobs = jobs
  BY DEF IInv, TypeOK, AgreeInv, Succeeded, Interruptions
<1>2. tail' = NoTail /\ log' = Applied(log, e) /\ jobs' = after
  BY <1>1 DEF Succeeded, Appended, Terminated
<1>3. CASE log.jobs[e.job] \in AllowedFrom[e.kind]
  <2>1. /\ log'.jobs = [log.jobs EXCEPT ![e.job] = LeadsTo[e.kind]]
        /\ log'.illegal = log.illegal /\ log'.corrupt = log.corrupt
    BY <1>1, <1>2, <1>3, AppliedLegal
  <2>2. log'.jobs = after
    <3>1. CASE e.kind = "JobProgress"
      <4>1. jobs[e.job] = "running" /\ LeadsTo[e.kind] = "running"
        BY <1>1, <1>3, <3>1 DEF AllowedFrom, LeadsTo
      <4>2. QED BY <1>1, <2>1, <3>1, <4>1 DEF LiveStep, Log
    <3>2. CASE e.kind # "JobProgress"
      BY <1>1, <2>1, <3>2 DEF LiveStep
    <3>3. QED BY <3>1, <3>2
  <2>3. QED BY <1>1, <1>2, <2>1, <2>2
<1>4. CASE log.jobs[e.job] \notin AllowedFrom[e.kind]
  <2>1. e.job \in Reporting /\ after = jobs
    BY <1>1, <1>4 DEF LiveStep
  <2>2. QED BY <1>1, <1>2, <1>4, <2>1, AppliedIllegal
<1>5. QED BY <1>3, <1>4

LEMMA SucceededAhead ==
    ASSUME IInv, NEW e \in Event, NEW after, LiveStep(e, after), Succeeded(e, after)
    PROVE  AheadInv'
<1> SUFFICES ASSUME Interruptions' <= 1, Sound', NEW j \in Jobs
             PROVE  Reaches(jobs'[j], Replayed'.jobs[j])
  BY DEF AheadInv
<1>1. tail' = NoTail /\ log' = Terminated(e) /\ jobs' = after
  BY DEF Succeeded, Appended
<1>2. Replayed' = log' /\ log'.illegal = {} /\ ~log'.corrupt
  BY <1>1, NoTailIsNoEvent DEF Replayed, Sound
<1>3. log \in Log /\ jobs \in [Jobs -> Statuses]
  BY DEF IInv, TypeOK
<1>4. tail = NoTail
  BY <1>1, <1>2, <1>3 DEF Terminated, Log
<1>5. log' = Applied(log, e)
  BY <1>1, <1>4 DEF Terminated
<1>6. log.illegal = {} /\ ~log.corrupt
  BY <1>2, <1>3, <1>5, AppliedLegal, AppliedIllegal
<1>7. Sound /\ Replayed = log
  BY <1>4, <1>6, NoTailIsNoEvent DEF Sound, Replayed
<1>8. Interruptions <= 1
  BY DEF Succeeded, Interruptions
<1>9. \A k \in Jobs : Reaches(jobs[k], log.jobs[k])
  BY <1>7, <1>8 DEF IInv, AheadInv
<1>10. CASE e.kind = "JobProgress"
  BY <1>1, <1>2, <1>3, <1>5, <1>9, <1>10, AppliedReaches DEF LiveStep
<1>11. CASE e.kind # "JobProgress"
  BY <1>1, <1>2, <1>3, <1>5, <1>9, <1>11, AppliedReachesBoth DEF LiveStep
<1>12. QED BY <1>10, <1>11

LEMMA BrokenInv ==
    ASSUME IInv, NEW e \in Event, Broken(e)
    PROVE  AgreeInv' /\ AheadInv'
<1>1. Interruptions \in Nat /\ Interruptions' = Interruptions + 1
  BY BoundsAssumption DEF Broken, IInv, TypeOK, Interruptions
<1>2. AgreeInv'
  BY <1>1 DEF AgreeInv
<1>3. SUFFICES ASSUME Interruptions = 0, Sound'
               PROVE  \A j \in Jobs : Reaches(jobs[j], Replayed'.jobs[j])
  BY <1>1, <1>2 DEF AheadInv, Broken
<1>4. /\ log \in Log /\ jobs \in [Jobs -> Statuses]
      /\ tail = NoTail
      /\ \A j \in Jobs : Reaches(jobs[j], log.jobs[j])
  BY <1>3 DEF IInv, TypeOK, AgreeInv, Reaches
<1>5. Replayed' = log \/ Replayed' = Applied(log, e)
  <2>1. CASE UNCHANGED <<log, tail>>
    BY <1>4, <2>1, NoTailIsNoEvent DEF Replayed
  <2>2. CASE Appended(e)
    BY <1>4, <2>2, NoTailIsNoEvent DEF Appended, Terminated, Replayed
  <2>3. CASE UNCHANGED log /\ tail' \in Rest(e)
    <3>1. tail' \in {Cut, SplitChar, e}
      BY <1>4, <2>3 DEF Rest
    <3>2. QED BY <2>3, <3>1, NoTailIsNoEvent DEF Replayed, Event
  <2>4. QED BY <2>1, <2>2, <2>3 DEF Broken, Interrupted
<1>6. QED BY <1>4, <1>5, AppliedReaches

-----------------------------------------------------------------------------
(* Every step keeps the invariant and moves statuses forward. *)

LEMMA LoggedInv ==
    ASSUME IInv, NEW e \in Event, NEW after \in [Jobs -> Statuses],
           LiveStep(e, after), Logged(e, after)
    PROVE  IInv'
<1>1. TypeOK'
  BY LoggedType DEF IInv
<1>2. Succeeded(e, after) \/ Broken(e)
  BY LoggedCases DEF IInv
<1>3. QED BY <1>1, <1>2, SucceededAgree, SucceededAhead, BrokenInv DEF IInv

(* The guard of each call in memory is the rule of its event in replay. *)
LEMMA CallIsLive ==
    ASSUME TypeOK, NEW j \in Jobs,
           Create(j) \/ Start(j) \/ Complete(j) \/ Fail(j) \/ Cancel(j)
    PROVE  \E e \in Event, after \in [Jobs -> Statuses] :
               /\ e.job = j /\ e.kind # "JobProgress"
               /\ LiveStep(e, after)
               /\ Logged(e, after)
<1> DEFINE after(kind) == [jobs EXCEPT ![j] = LeadsTo[kind]]
<1>1. PICK kind \in Kinds \ {"JobProgress"} :
          jobs[j] \in AllowedFrom[kind] /\ Call(kind, j)
  BY DEF Create, Unused, Start, Complete, Fail, Cancel, AllowedFrom, Kinds
<1>2. [kind |-> kind, job |-> j] \in Event
  BY DEF Event
<1>3. LeadsTo[kind] \in Statuses
  BY DEF Kinds, LeadsTo, Statuses, Terminal
<1>4. after(kind) \in [Jobs -> Statuses]
  BY <1>3 DEF TypeOK
<1>5. LiveStep([kind |-> kind, job |-> j], after(kind))
  BY <1>1 DEF LiveStep
<1>6. QED BY <1>1, <1>2, <1>4, <1>5 DEF Call

LEMMA ProgressIsLive ==
    ASSUME TypeOK, NEW j \in Reporting, ProgressAppend(j)
    PROVE  \E e \in Event : LiveStep(e, jobs) /\ Logged(e, jobs)
<1>1. [kind |-> "JobProgress", job |-> j] \in Event
  BY JobsAssumption DEF Event, Kinds
<1>2. QED BY <1>1 DEF ProgressAppend, LiveStep

LEMMA InvInit == Init => IInv
<1> SUFFICES ASSUME Init PROVE IInv
  OBVIOUS
<1>1. TypeOK
  BY TypeInit
<1>2. Replayed = log /\ log.jobs = jobs
  BY NoTailIsNoEvent DEF Init, Replayed
<1>3. QED BY <1>1, <1>2 DEF Init, IInv, AgreeInv, AheadInv, Reaches

LEMMA InvNext == IInv /\ [Next]_vars => IInv'
<1> SUFFICES ASSUME IInv, [Next]_vars PROVE IInv'
  OBVIOUS
<1>t. TypeOK /\ TypeOK'
  BY TypeNext DEF IInv
<1>1. ASSUME NEW j \in Jobs,
             Create(j) \/ Start(j) \/ Complete(j) \/ Fail(j) \/ Cancel(j)
      PROVE  IInv'
  BY <1>1, <1>t, CallIsLive, LoggedInv
<1>2. ASSUME NEW j \in Reporting, ProgressAppend(j) PROVE IInv'
  BY <1>2, <1>t, ProgressIsLive, LoggedInv DEF TypeOK
<1>3. CASE UNCHANGED <<jobs, log, tail, failed, torn>>
  BY <1>3, <1>t DEF IInv, AgreeInv, AheadInv, Interruptions, Sound, Replayed
<1>4. ASSUME NEW mode, Recover(mode) PROVE IInv'
  <2>1. jobs' = Replayed.jobs /\ UNCHANGED <<log, tail, failed, torn>>
    BY <1>4 DEF Recover
  <2>2. AgreeInv'
    <3>1. Interruptions = 0 => Replayed = log
      BY NoTailIsNoEvent DEF IInv, AgreeInv, Replayed
    <3>2. QED BY <2>1, <3>1 DEF IInv, AgreeInv, Interruptions
  <2>3. AheadInv'
    BY <2>1 DEF AheadInv, Reaches, Replayed
  <2>4. QED BY <1>t, <2>2, <2>3 DEF IInv
<1>5. QED
  BY <1>1, <1>2, <1>3, <1>4 DEF Next, vars, ProgressCheck, Crash

(* Memory and log agree until an append is interrupted; after the first    *)
(* interruption the log is never behind memory.                            *)
THEOREM JobInductive == Spec => []IInv
  BY InvInit, InvNext, PTL DEF Spec

(* Without an interrupted append, the manager rebuilt from the log is the  *)
(* manager that wrote it.                                                  *)
THEOREM ReplayRebuildsMemory == Spec => []MemoryIsReplay
<1>1. IInv => MemoryIsReplay
  BY NoTailIsNoEvent DEF IInv, AgreeInv, MemoryIsReplay, Replayed
<1>2. QED BY <1>1, JobInductive, PTL

(* Without an interrupted append, only a job that reports progress can get *)
(* a history the strict replay refuses.                                    *)
THEOREM TransitionsReplay == Spec => []TransitionsAreLegal
<1>1. IInv => TransitionsAreLegal
  BY DEF IInv, AgreeInv, TransitionsAreLegal, Readable, NoTail, SplitChar, Cut
<1>2. QED BY <1>1, JobInductive, PTL

LEMMA StatusStep ==
    IInv /\ [Next]_vars =>
        [Interruptions' <= 1 => \A j \in Jobs : Reaches(jobs[j], jobs'[j])]_vars
<1> SUFFICES ASSUME IInv, [Next]_vars, Interruptions' <= 1, NEW j \in Jobs
             PROVE  Reaches(jobs[j], jobs'[j])
  OBVIOUS
<1>t. TypeOK
  BY DEF IInv
<1>1. ASSUME NEW i \in Jobs,
             Create(i) \/ Start(i) \/ Complete(i) \/ Fail(i) \/ Cancel(i)
      PROVE  Reaches(jobs[j], jobs'[j])
  <2>1. PICK e \in Event, after \in [Jobs -> Statuses] :
            e.job = i /\ e.kind # "JobProgress" /\ LiveStep(e, after) /\ Logged(e, after)
    BY <1>1, <1>t, CallIsLive
  <2>2. jobs' = jobs \/ jobs' = [jobs EXCEPT ![i] = LeadsTo[e.kind]]
    BY <2>1 DEF LiveStep, Logged
  <2>3. Reaches(jobs[i], LeadsTo[e.kind])
    <3>1. jobs[i] \in AllowedFrom[e.kind] /\ e.kind \in Kinds
      BY <2>1 DEF LiveStep, Event
    <3>2. jobs[i] \in Statuses /\ Reaches(jobs[i], jobs[i])
      BY <1>t DEF TypeOK, Reaches
    <3>3. QED BY <3>1, <3>2, ReachesOn
  <2>4. QED BY <1>t, <2>2, <2>3 DEF TypeOK, Reaches
<1>2. ASSUME NEW mode, Recover(mode) PROVE Reaches(jobs[j], jobs'[j])
  BY <1>2 DEF Recover, Readable, IInv, AheadInv, Sound, Interruptions, Replayed, Applied
<1>3. CASE UNCHANGED jobs
  BY <1>3 DEF Reaches
<1>4. QED
  BY <1>1, <1>2, <1>3
  DEF Next, vars, ProgressCheck, ProgressAppend, Logged, Crash

(* A status that was shown is never taken back, in one process or across   *)
(* restarts, as long as at most one append was interrupted.                *)
THEOREM StatusesAdvance == Spec => StatusOnlyAdvances
  BY StatusStep, JobInductive, PTL DEF Spec, StatusOnlyAdvances

-----------------------------------------------------------------------------
(* The daemon *)

allVars == <<vars, daemonVars>>

LEMMA FreshIsJob == ASSUME SomeUnused PROVE Fresh \in Jobs
BY DEF SomeUnused, Fresh

-----------------------------------------------------------------------------
(* The daemon uses the job manager as its specification allows. *)

LEMMA StepIsJobStep == [DaemonNext]_allVars => [Next]_vars
<1> SUFFICES ASSUME [DaemonNext]_allVars PROVE [Next]_vars
  OBVIOUS
<1>1. CASE Submit
  BY <1>1, FreshIsJob DEF Submit, Next
<1>2. ASSUME NEW s \in Schedules, NEW at, CreateSchedule(s, at) PROVE UNCHANGED vars
  BY <1>2 DEF CreateSchedule, WriteRow
<1>3. ASSUME NEW s \in Managed, NEW on, SetEnabled(s, on) \/ DeleteSchedule(s)
      PROVE  UNCHANGED vars
  BY <1>3 DEF SetEnabled, DeleteSchedule, WriteRow
<1>4. ASSUME NEW o, Enqueue(o) PROVE [Next]_vars
  BY <1>4, FreshIsJob DEF Enqueue, Next
<1>5. CASE Tick \/ ReadDue \/ Advance \/ SpawnCreated
  BY <1>5 DEF Tick, ReadDue, Advance, SpawnCreated
<1>6. ASSUME NEW j \in Jobs, Begin(j) \/ End(j) \/ Reconcile(j) PROVE [Next]_vars
  BY <1>6 DEF Begin, End, Reconcile, Next
<1>7. CASE Die
  BY <1>7 DEF Die, Next
<1>8. CASE Restart
  BY <1>8 DEF Restart, Next
<1>9. CASE UNCHANGED allVars
  BY <1>9 DEF allVars
<1>10. QED BY <1>1, <1>2, <1>3, <1>4, <1>5, <1>6, <1>7, <1>8, <1>9
           DEF DaemonNext, Step, Scheduler, Execution

(* The daemon implements the specification of the job manager, so what is  *)
(* proved of the manager holds in the daemon.                              *)
THEOREM DaemonUsesManager == DaemonSpec => Spec
<1>1. DaemonInit => Init
  BY DEF DaemonInit
<1>2. QED BY <1>1, StepIsJobStep, PTL DEF DaemonSpec, Spec, allVars

-----------------------------------------------------------------------------
(* Work is begun at most once *)

Past == {"running"} \cup Terminal

\* A job whose work was begun is past its start in memory and in the log, or
\* the log cannot be replayed any more.
BegunInv ==
    \A j \in Jobs :
        /\ ran[j] \in {0, 1}
        /\ ran[j] = 1 => jobs[j] \in Past /\ (log.corrupt \/ log.jobs[j] \in Past)

\* A job the manager knows was recorded, unless what is left of an interrupted
\* append makes the next one spoil the log.
KnownInv ==
    \/ log.corrupt
    \/ tail # NoTail
    \/ \A j \in Jobs : jobs[j] # "absent" => log.jobs[j] # "absent"

DInv == TypeOK /\ ran \in [Jobs -> Nat] /\ BegunInv /\ KnownInv

LEMMA AppliedKeepsPast ==
    ASSUME NEW l \in Log, NEW e \in Event, NEW j \in Jobs, l.jobs[j] \in Past
    PROVE  Applied(l, e).jobs[j] \in Past
<1>1. CASE l.jobs[e.job] \in AllowedFrom[e.kind]
  <2>1. Applied(l, e).jobs = [l.jobs EXCEPT ![e.job] = LeadsTo[e.kind]]
    BY <1>1, AppliedLegal
  <2>2. CASE e.job = j
    <3>1. e.kind \in Kinds \ {"JobQueued"}
      BY <1>1, <2>2 DEF Event, Kinds, AllowedFrom, Past, Terminal
    <3>2. LeadsTo[e.kind] \in Past
      BY <3>1 DEF Kinds, LeadsTo, Past, Terminal
    <3>3. QED BY <2>1, <2>2, <3>2 DEF Log
  <2>3. QED BY <2>1, <2>2 DEF Log, Event
<1>2. CASE l.jobs[e.job] \notin AllowedFrom[e.kind]
  BY <1>2, AppliedIllegal
<1>3. QED BY <1>1, <1>2

(* An append, whatever becomes of it, leaves the past in the log alone. *)
LEMMA LoggedKeepsPast ==
    ASSUME TypeOK, NEW e \in Event, NEW after, Logged(e, after),
           NEW j \in Jobs, log.corrupt \/ log.jobs[j] \in Past
    PROVE  log'.corrupt \/ log'.jobs[j] \in Past
<1>1. CASE Appended(e)
  <2>1. CASE tail = NoTail
    <3>1. log' = Applied(log, e)
      BY <1>1, <2>1 DEF Appended, Terminated
    <3>2. Applied(log, e).corrupt = log.corrupt
      BY DEF Applied, TypeOK, Log
    <3>3. QED BY <3>1, <3>2, AppliedKeepsPast DEF TypeOK
  <2>2. CASE tail # NoTail
    BY <1>1, <2>2 DEF Appended, Terminated, TypeOK, Log
  <2>3. QED BY <2>1, <2>2
<1>2. CASE UNCHANGED log
  BY <1>2
<1>3. QED BY <1>1, <1>2 DEF Logged, Interrupted

LEMMA ReplayKeepsPast ==
    ASSUME TypeOK, NEW j \in Jobs, log.jobs[j] \in Past
    PROVE  Replayed.jobs[j] \in Past
<1>1. CASE tail.kind \in Kinds
  <2>1. tail \in Event
    BY <1>1, NoTailIsNoEvent DEF TypeOK
  <2>2. QED BY <1>1, <2>1, AppliedKeepsPast DEF Replayed, TypeOK
<1>2. CASE tail.kind \notin Kinds
  BY <1>2 DEF Replayed
<1>3. QED BY <1>1, <1>2

(* A call other than the start of a job that is not past its start.        *)
LEMMA CallKeepsPast ==
    ASSUME DInv, NEW kind \in Kinds, NEW i \in Jobs, Call(kind, i),
           kind = "JobQueued" => jobs[i] = "absent",
           UNCHANGED ran
    PROVE  BegunInv'
<1> DEFINE e == [kind |-> kind, job |-> i]
           after == [jobs EXCEPT ![i] = LeadsTo[kind]]
<1>1. e \in Event /\ Logged(e, after)
  BY DEF Event, Call
<1> SUFFICES ASSUME NEW j \in Jobs, ran[j] = 1
             PROVE  jobs'[j] \in Past /\ (log'.corrupt \/ log'.jobs[j] \in Past)
  BY DEF DInv, BegunInv
<1>2. jobs[j] \in Past /\ (log.corrupt \/ log.jobs[j] \in Past)
  BY DEF DInv, BegunInv
<1>3. log'.corrupt \/ log'.jobs[j] \in Past
  BY <1>1, <1>2, LoggedKeepsPast DEF DInv
<1>4. jobs' \in {jobs, after}
  BY <1>1 DEF Logged
<1>5. after[j] \in Past
  <2>1. CASE i = j
    <3>1. kind # "JobQueued"
      BY <1>2, <2>1 DEF Past, Terminal
    <3>2. LeadsTo[kind] \in Past
      BY <3>1 DEF Kinds, LeadsTo, Past, Terminal
    <3>3. QED BY <2>1, <3>2 DEF DInv, TypeOK
  <2>2. QED BY <1>2, <2>1 DEF DInv, TypeOK
<1>6. QED BY <1>2, <1>3, <1>4, <1>5

LEMMA BeginKeepsPast ==
    ASSUME DInv, NEW i \in Jobs, Begin(i)
    PROVE  BegunInv' /\ ran' \in [Jobs -> Nat]
<1> DEFINE e == [kind |-> "JobStarted", job |-> i]
           after == [jobs EXCEPT ![i] = "running"]
<1>1. e \in Event /\ Logged(e, after) /\ jobs[i] = "queued"
  BY DEF Begin, Start, Call, Event, Kinds, LeadsTo
<1>2. ran[i] = 0
  BY <1>1 DEF DInv, BegunInv, Past, Terminal
<1>3. ASSUME NEW j \in Jobs, j # i, ran[j] = 1
      PROVE  jobs'[j] \in Past /\ (log'.corrupt \/ log'.jobs[j] \in Past)
  <2>1. jobs[j] \in Past /\ (log.corrupt \/ log.jobs[j] \in Past)
    BY <1>3 DEF DInv, BegunInv
  <2>2. jobs'[j] = jobs[j]
    BY <1>1, <1>3 DEF Logged, DInv, TypeOK
  <2>3. QED BY <1>1, <2>1, <2>2, LoggedKeepsPast DEF DInv
<1>4. CASE ~Moved(i)
  BY <1>2, <1>3, <1>4 DEF Begin, BegunInv, DInv
<1>5. CASE Moved(i)
  <2>1. Appended(e) /\ jobs' = after
    BY <1>1, <1>5 DEF Logged, Moved
  <2>2. jobs'[i] \in Past
    BY <2>1 DEF Past, DInv, TypeOK
  <2>3. log'.corrupt \/ log'.jobs[i] \in Past
    <3>1. CASE tail # NoTail
      BY <2>1, <3>1 DEF Appended, Terminated, DInv, TypeOK, Log
    <3>2. CASE tail = NoTail /\ log.jobs[i] \in {"queued"}
      <4>1. log' = Applied(log, e)
        BY <2>1, <3>2 DEF Appended, Terminated
      <4>2. log'.jobs = [log.jobs EXCEPT ![i] = "running"]
        BY <3>2, <4>1 DEF Applied, AllowedFrom, LeadsTo, DInv, TypeOK, Log
      <4>3. QED BY <4>2 DEF Past, DInv, TypeOK, Log
    <3>3. CASE tail = NoTail /\ log.jobs[i] # "queued"
      <4>1. log.corrupt \/ log.jobs[i] \in Past
        BY <1>1, <3>3 DEF DInv, KnownInv, TypeOK, Log, Statuses, Past
      <4>2. QED BY <1>1, <4>1, LoggedKeepsPast DEF DInv
    <3>4. QED BY <3>1, <3>2, <3>3
  <2>4. ran' = [ran EXCEPT ![i] = 1]
    BY <1>2, <1>5 DEF Begin, DInv
  <2>5. QED BY <1>3, <2>2, <2>3, <2>4 DEF BegunInv, DInv
<1>6. QED BY <1>4, <1>5

(* No call makes the log forget a job, and a job becomes known with a line. *)
LEMMA CallKnown ==
    ASSUME TypeOK, KnownInv, NEW kind \in Kinds, NEW i \in Jobs, Call(kind, i),
           jobs[i] \in AllowedFrom[kind]
    PROVE  KnownInv'
<1> DEFINE e == [kind |-> kind, job |-> i]
           after == [jobs EXCEPT ![i] = LeadsTo[kind]]
<1>1. e \in Event /\ Logged(e, after)
  BY DEF Event, Call
<1>2. NoTail \notin Rest(e)
  BY <1>1, NoTailIsNoEvent DEF Rest, Event, NoTail, Cut, SplitChar
<1>3. log.corrupt => log'.corrupt
  BY <1>1 DEF Logged, Interrupted, Appended, Terminated, Applied, TypeOK, Log
<1>4. tail # NoTail => tail' # NoTail \/ log'.corrupt
  BY <1>1, <1>2 DEF Logged, Interrupted, Appended, Terminated, TypeOK, Log
<1>5. CASE tail = NoTail /\ ~log.corrupt
  <2>1. ASSUME Appended(e) PROVE KnownInv'
    <3> SUFFICES ASSUME NEW j \in Jobs, jobs'[j] # "absent" PROVE log'.jobs[j] # "absent"
      BY DEF KnownInv
    <3>1. log' = Applied(log, e)
      BY <1>5, <2>1 DEF Appended, Terminated
    <3>2. jobs[j] # "absent" => log.jobs[j] # "absent"
      BY <1>5 DEF KnownInv
    <3>3. LeadsTo[kind] # "absent"
      BY DEF LeadsTo, Kinds
    <3>4. CASE j # i
      BY <1>1, <3>1, <3>2, <3>4 DEF Logged, Applied, TypeOK, Log
    <3>5. CASE j = i
      <4>1. log.jobs[i] \in AllowedFrom[kind] \/ log.jobs[i] # "absent"
        BY <1>5 DEF KnownInv
      <4>2. log \in Log /\ i \in Jobs /\ e.job = i /\ e.kind = kind
        BY <1>1 DEF TypeOK
      <4>3. Applied(log, e).jobs[i] # "absent"
        <5> HIDE DEF e
        <5>1. CASE log.jobs[i] \in AllowedFrom[kind]
          <6>1. log.jobs[e.job] \in AllowedFrom[e.kind]
            BY <4>2, <5>1
          <6>2. Applied(log, e).jobs = [log.jobs EXCEPT ![i] = LeadsTo[kind]]
            BY <1>1, <4>2, <6>1, AppliedLegal
          <6>3. i \in DOMAIN log.jobs
            BY <4>2 DEF Log
          <6> QED BY ONLY <3>3, <6>2, <6>3
        <5>2. CASE log.jobs[i] \notin AllowedFrom[kind]
          BY <1>1, <4>1, <4>2, <5>2, AppliedIllegal
        <5> QED BY <5>1, <5>2
      <4>4. QED BY <3>1, <3>5, <4>3
    <3>6. QED BY <3>4, <3>5
  <2>2. ASSUME UNCHANGED <<log, tail>>, jobs' = jobs PROVE KnownInv'
    BY <1>5, <2>2 DEF KnownInv
  <2>3. ASSUME tail' \in Rest(e) PROVE KnownInv'
    BY <1>2, <2>3 DEF KnownInv
  <2>4. QED BY <1>1, <2>1, <2>2, <2>3 DEF Logged, Interrupted
<1>6. QED BY <1>3, <1>4, <1>5 DEF KnownInv

LEMMA CallDInv ==
    ASSUME DInv, NEW kind \in Kinds, NEW i \in Jobs, Call(kind, i),
           jobs[i] \in AllowedFrom[kind], UNCHANGED ran
    PROVE  DInv'
<1>1. TypeOK'
  BY CallType DEF DInv
<1>2. kind = "JobQueued" => jobs[i] = "absent"
  BY DEF AllowedFrom
<1>3. QED BY <1>1, <1>2, CallKeepsPast, CallKnown DEF DInv

LEMMA CallsAreLegal ==
    ASSUME NEW i \in Jobs,
           Create(i) \/ Start(i) \/ Complete(i) \/ Fail(i)
    PROVE  \E kind \in Kinds : Call(kind, i) /\ jobs[i] \in AllowedFrom[kind]
BY DEF Create, Unused, Start, Complete, Fail, Kinds, AllowedFrom

LEMMA DInvInit == DaemonInit => DInv
<1> SUFFICES ASSUME DaemonInit PROVE DInv
  OBVIOUS
<1>1. TypeOK
  BY TypeInit DEF DaemonInit
<1>2. ran \in [Jobs -> Nat] /\ BegunInv
  BY DEF DaemonInit, BegunInv
<1>3. KnownInv
  BY DEF DaemonInit, Init, KnownInv
<1>4. QED BY <1>1, <1>2, <1>3 DEF DInv

LEMMA DInvNext == DInv /\ [DaemonNext]_allVars => DInv'
<1> SUFFICES ASSUME DInv, [DaemonNext]_allVars PROVE DInv'
  OBVIOUS
<1>t. TypeOK'
  BY StepIsJobStep, TypeNext DEF DInv
<1>1. CASE Submit
  BY <1>1, FreshIsJob, CallsAreLegal, CallDInv DEF Submit
<1>2. ASSUME NEW o, Enqueue(o) PROVE DInv'
  BY <1>2, FreshIsJob, CallsAreLegal, CallDInv DEF Enqueue
<1>3. ASSUME NEW j \in Jobs, Begin(j) PROVE DInv'
  <2>1. KnownInv'
    BY <1>3, CallsAreLegal, CallKnown DEF Begin, DInv
  <2>2. QED BY <1>t, <1>3, <2>1, BeginKeepsPast DEF DInv
<1>4. ASSUME NEW j \in Jobs, End(j) \/ Reconcile(j) PROVE DInv'
  BY <1>4, CallsAreLegal, CallDInv DEF End, Reconcile
<1>5. CASE Restart
  <2>1. ~log.corrupt /\ jobs' = Replayed.jobs /\ UNCHANGED <<log, tail, ran>>
    BY <1>5 DEF Restart, Recover, Readable
  <2>2. BegunInv'
    BY <2>1, ReplayKeepsPast DEF DInv, BegunInv
  <2>3. KnownInv'
    BY <2>1, NoTailIsNoEvent DEF KnownInv, Replayed
  <2>4. QED BY <1>t, <2>1, <2>2, <2>3 DEF DInv
<1>6. ASSUME UNCHANGED <<jobs, log, tail, ran>> PROVE DInv'
  BY <1>t, <1>6 DEF DInv, BegunInv, KnownInv
<1>7. QED
  BY <1>1, <1>2, <1>3, <1>4, <1>5, <1>6
  DEF DaemonNext, Step, Scheduler, Execution, Tick, CreateSchedule, SetEnabled, DeleteSchedule,
      WriteRow, ReadDue, Advance, SpawnCreated, Die, Crash, allVars, vars, daemonVars

(* The work of a job is begun at most once, however often the daemon dies  *)
(* and however its writes fail.                                            *)
THEOREM BegunOnce == DaemonSpec => []BegunAtMostOnce
<1>1. DInv => BegunAtMostOnce
  <2> SUFFICES ASSUME DInv, NEW j \in Jobs PROVE ran[j] <= 1
    BY DEF BegunAtMostOnce
  <2>1. ran[j] = 0 \/ ran[j] = 1
    BY DEF DInv, BegunInv
  <2>2. QED BY <2>1
<1>2. DInv /\ [DaemonNext]_<<vars, daemonVars>> => DInv'
  BY DInvNext DEF allVars
<1>3. QED BY <1>1, <1>2, DInvInit, PTL DEF DaemonSpec

-----------------------------------------------------------------------------
(* Rows, passes and hands *)

Named(s) == rows[s].first # NoTime

Held(o) == pass.job # NoJob /\ of[pass.job] = o

\* An occurrence that the pass works on, so that its row has not moved on.
Taken(o) == rows[o.schedule].next = o.at /\ o.at <= now

\* Who has a job in hand: the pass, its own task or reconcile_recovered_jobs.
HandsInv ==
    /\ ~up => pass = Idle
    /\ \A j \in Jobs :
          j \in pass.created \/ j = pass.job => jobs[j] = "queued" /\ tasks[j] = "none"
    /\ \A j \in Jobs : tasks[j] = "spawned" => jobs[j] = "queued"
    /\ \A j \in Jobs : tasks[j] = "executing" => jobs[j] = "running"
    /\ \A j \in recovered : jobs[j] = "running" /\ tasks[j] = "none"

\* A row begins with its first occurrence and only moves forward from it.
RowInv ==
    \A s \in Schedules :
        /\ rows[s].exists => Named(s)
        /\ ~Named(s) => rows[s] = NoRow
        /\ s \in Recurring /\ Named(s) => rows[s].first <= rows[s].next
        /\ s \notin Recurring => rows[s].next \in {NoTime, rows[s].first}

\* What the pass works on is still the next occurrence of its row, at most one for
\* each row.
PassInv ==
    /\ \A o \in pass.due : Taken(o)
    /\ pass.job # NoJob => of[pass.job] \in Occurrence \ pass.due /\ Taken(of[pass.job])

\* The scheduler has nothing in hand with which it could turn a row on again.
OffInv == \A s \in off : Named(s) /\ ~(rows[s].exists /\ rows[s].enabled) /\ ~InPass(s)

LEMMA IdleIsPass == Idle \in Pass /\ Idle.job = NoJob /\ Idle.due = {} /\ Idle.created = {}
BY DEF Idle, Pass

(* A call on a job that succeeds moves it, and one that does not is an     *)
(* interruption that changes no status.                                    *)
LEMMA CallEffect ==
    ASSUME TypeOK, NEW kind \in Kinds \ {"JobProgress"}, NEW i \in Jobs, Call(kind, i),
           jobs[i] \in AllowedFrom[kind]
    PROVE  /\ Moved(i) =>
                 /\ Appended([kind |-> kind, job |-> i])
                 /\ jobs' = [jobs EXCEPT ![i] = LeadsTo[kind]]
                 /\ UNCHANGED <<up, failed, torn>>
           /\ ~Moved(i) =>
                 /\ jobs' = jobs
                 /\ failed' + torn' = failed + torn + 1
                 /\ (up' = up /\ failed' > 0) \/ up' = FALSE
<1>1. LeadsTo[kind] # jobs[i]
  BY DEF Kinds, AllowedFrom, LeadsTo
<1>2. [jobs EXCEPT ![i] = LeadsTo[kind]][i] # jobs[i]
  BY <1>1 DEF TypeOK
<1>3. failed \in Nat /\ torn \in Nat
  BY BoundsAssumption DEF TypeOK
<1>4. QED BY <1>2, <1>3 DEF Call, Logged, Moved, Down

LEMMA CreateEffect ==
    ASSUME TypeOK, NEW i \in Jobs, Create(i)
    PROVE  /\ up /\ jobs[i] = "absent" /\ log.jobs[i] = "absent" /\ tail.job # i
           /\ Moved(i) =>
                 /\ Appended([kind |-> "JobQueued", job |-> i])
                 /\ jobs' = [jobs EXCEPT ![i] = "queued"]
                 /\ UNCHANGED <<up, failed, torn>>
           /\ ~Moved(i) =>
                 /\ jobs' = jobs
                 /\ failed' + torn' = failed + torn + 1
                 /\ (up' = up /\ failed' > 0) \/ up' = FALSE
<1>1. Call("JobQueued", i) /\ jobs[i] = "absent"
  BY DEF Create, Unused
<1>2. "JobQueued" \in Kinds \ {"JobProgress"} /\ AllowedFrom["JobQueued"] = {"absent"}
      /\ LeadsTo["JobQueued"] = "queued"
  BY DEF Kinds, AllowedFrom, LeadsTo
<1>3. QED BY <1>1, <1>2, CallEffect DEF Create, Unused

LEMMA StartEffect ==
    ASSUME TypeOK, NEW i \in Jobs, Start(i)
    PROVE  /\ up /\ jobs[i] = "queued"
           /\ Moved(i) => jobs' = [jobs EXCEPT ![i] = "running"] /\ UNCHANGED <<up, failed, torn>>
           /\ ~Moved(i) =>
                 /\ jobs' = jobs
                 /\ failed' + torn' = failed + torn + 1
                 /\ (up' = up /\ failed' > 0) \/ up' = FALSE
<1>1. Call("JobStarted", i) /\ jobs[i] = "queued"
  BY DEF Start
<1>2. "JobStarted" \in Kinds \ {"JobProgress"} /\ AllowedFrom["JobStarted"] = {"queued"}
      /\ LeadsTo["JobStarted"] = "running"
  BY DEF Kinds, AllowedFrom, LeadsTo
<1>3. QED BY <1>1, <1>2, CallEffect DEF Start

LEMMA EndEffect ==
    ASSUME TypeOK, NEW i \in Jobs, Complete(i) \/ Fail(i)
    PROVE  /\ up /\ jobs[i] = "running"
           /\ Moved(i) =>
                 /\ \E s \in Terminal : jobs' = [jobs EXCEPT ![i] = s]
                 /\ UNCHANGED <<up, failed, torn>>
           /\ ~Moved(i) =>
                 /\ jobs' = jobs
                 /\ failed' + torn' = failed + torn + 1
                 /\ (up' = up /\ failed' > 0) \/ up' = FALSE
<1>1. up /\ jobs[i] = "running"
  BY DEF Complete, Fail
<1>2. PICK kind \in {"JobCompleted", "JobFailed"} : Call(kind, i)
  BY DEF Complete, Fail
<1>3. kind \in Kinds \ {"JobProgress"} /\ AllowedFrom[kind] = {"running"} /\ LeadsTo[kind] \in Terminal
  BY DEF Kinds, AllowedFrom, LeadsTo, Terminal
<1>4. jobs[i] \in AllowedFrom[kind]
  BY <1>1, <1>3
<1>5. QED BY <1>1, <1>2, <1>3, <1>4, CallEffect

-----------------------------------------------------------------------------
(* Every open job is in one pair of hands *)

LEMMA HandsLost ==
    ASSUME ~up', NEW t, NEW p, NEW r, Lives(t, p, r)
    PROVE  HandsInv'
BY JobsAssumption, IdleIsPass DEF Lives, HandsInv

LEMMA HandsStill ==
    ASSUME DaemonTypeOK, HandsInv, jobs' = jobs, up' = up, NEW p \in {pass, Idle},
           Lives(tasks, p, recovered)
    PROVE  HandsInv'
<1>1. CASE ~up'
  BY <1>1, HandsLost
<1>2. CASE up'
  <2>1. tasks' = tasks /\ pass' = p /\ recovered' = recovered
    BY <1>2 DEF Lives
  <2>2. QED BY <1>2, <2>1, JobsAssumption, IdleIsPass DEF HandsInv
<1>3. QED BY <1>1, <1>2

LEMMA HandsSubmit == ASSUME DaemonTypeOK, HandsInv, Submit PROVE HandsInv'
<1> DEFINE i == Fresh
<1>1. i \in Jobs /\ TypeOK
  BY FreshIsJob DEF Submit, DaemonTypeOK
<1> HIDE DEF i
<1>2. Create(i) /\ Lives(IF Moved(i) THEN [tasks EXCEPT ![i] = "spawned"] ELSE tasks, pass, recovered)
  BY DEF Submit, i
<1>3. up /\ jobs[i] = "absent"
  BY <1>1, <1>2, CreateEffect
<1>4. CASE Moved(i)
  <2>1. jobs' = [jobs EXCEPT ![i] = "queued"] /\ up' = up
    BY <1>1, <1>2, <1>4, CreateEffect
  <2>2. tasks' = [tasks EXCEPT ![i] = "spawned"] /\ pass' = pass /\ recovered' = recovered
    BY <1>2, <1>3, <1>4, <2>1 DEF Lives
  <2>3. i \notin pass.created /\ i # pass.job /\ i \notin recovered
    BY <1>1, <1>3 DEF HandsInv
  <2>4. recovered \subseteq Jobs /\ tasks \in [Jobs -> {"none", "spawned", "executing"}]
        /\ jobs \in [Jobs -> Statuses]
    BY DEF DaemonTypeOK, TypeOK
  <2>5. QED BY <1>1, <1>3, <2>1, <2>2, <2>3, <2>4 DEF HandsInv
<1>5. CASE ~Moved(i) /\ up' = up
  <2>1. jobs' = jobs
    BY <1>1, <1>2, <1>5, CreateEffect
  <2>2. Lives(tasks, pass, recovered)
    BY <1>2, <1>5
  <2>3. QED BY <1>5, <2>1, <2>2, HandsStill
<1>6. CASE up' = FALSE
  BY <1>2, <1>6, HandsLost
<1>7. QED BY <1>1, <1>2, <1>4, <1>5, <1>6, CreateEffect

LEMMA HandsEnqueue == ASSUME DaemonTypeOK, HandsInv, NEW o, Enqueue(o) PROVE HandsInv'
<1> DEFINE i == Fresh
<1>1. i \in Jobs /\ TypeOK
  BY FreshIsJob DEF Enqueue, DaemonTypeOK
<1> HIDE DEF i
<1>2. Create(i) /\ Lives(tasks, IF Moved(i) THEN [pass EXCEPT !.due = @ \ {o}, !.job = i] ELSE Idle,
                         recovered)
  BY DEF Enqueue, i
<1>3. up /\ jobs[i] = "absent"
  BY <1>1, <1>2, CreateEffect
<1>4. CASE Moved(i)
  <2>1. jobs' = [jobs EXCEPT ![i] = "queued"] /\ up' = up
    BY <1>1, <1>2, <1>4, CreateEffect
  <2>2. tasks' = tasks /\ recovered' = recovered /\ pass' = [pass EXCEPT !.due = @ \ {o}, !.job = i]
    BY <1>2, <1>3, <1>4, <2>1 DEF Lives
  <2>3. pass'.created = pass.created /\ pass'.job = i
    BY <2>2 DEF DaemonTypeOK, Pass
  <2>4. recovered \subseteq Jobs /\ tasks \in [Jobs -> {"none", "spawned", "executing"}]
        /\ jobs \in [Jobs -> Statuses]
    BY DEF DaemonTypeOK, TypeOK
  <2>5. i \notin recovered /\ tasks[i] = "none"
    BY <1>1, <1>3, <2>4 DEF HandsInv
  <2>6. QED BY <1>1, <1>3, <2>1, <2>2, <2>3, <2>4, <2>5 DEF HandsInv
<1>5. CASE ~Moved(i) /\ up' = up
  <2>1. jobs' = jobs
    BY <1>1, <1>2, <1>5, CreateEffect
  <2>2. Lives(tasks, Idle, recovered)
    BY <1>2, <1>5
  <2>3. QED BY <1>5, <2>1, <2>2, HandsStill
<1>6. CASE up' = FALSE
  BY <1>2, <1>6, HandsLost
<1>7. QED BY <1>1, <1>2, <1>4, <1>5, <1>6, CreateEffect

LEMMA HandsBegin == ASSUME DaemonTypeOK, HandsInv, NEW i \in Jobs, Begin(i) PROVE HandsInv'
<1>1. TypeOK
  BY DEF DaemonTypeOK
<1>2. /\ Start(i) /\ tasks[i] = "spawned"
      /\ Lives([tasks EXCEPT ![i] = IF Moved(i) THEN "executing" ELSE "none"], pass, recovered)
  BY DEF Begin
<1>3. up /\ jobs[i] = "queued"
  BY <1>1, <1>2, StartEffect
<1>4. recovered \subseteq Jobs /\ tasks \in [Jobs -> {"none", "spawned", "executing"}]
      /\ jobs \in [Jobs -> Statuses]
  BY DEF DaemonTypeOK, TypeOK
<1>5. CASE Moved(i)
  <2>1. jobs' = [jobs EXCEPT ![i] = "running"] /\ up' = up
    BY <1>1, <1>2, <1>5, StartEffect
  <2>2. tasks' = [tasks EXCEPT ![i] = "executing"] /\ pass' = pass /\ recovered' = recovered
    BY <1>2, <1>3, <1>5, <2>1 DEF Lives
  <2>3. QED BY <1>2, <1>3, <1>4, <2>1, <2>2 DEF HandsInv
<1>6. CASE ~Moved(i) /\ up' = up
  <2>1. jobs' = jobs
    BY <1>1, <1>2, <1>6, StartEffect
  <2>2. tasks' = [tasks EXCEPT ![i] = "none"] /\ pass' = pass /\ recovered' = recovered
    BY <1>2, <1>3, <1>6 DEF Lives
  <2>3. QED BY <1>2, <1>3, <1>4, <1>6, <2>1, <2>2 DEF HandsInv
<1>7. CASE up' = FALSE
  BY <1>2, <1>7, HandsLost
<1>8. QED BY <1>1, <1>2, <1>5, <1>6, <1>7, StartEffect

LEMMA HandsEnd == ASSUME DaemonTypeOK, HandsInv, NEW i \in Jobs, End(i) PROVE HandsInv'
<1>1. TypeOK
  BY DEF DaemonTypeOK
<1>2. /\ Complete(i) \/ Fail(i)
      /\ tasks[i] = "executing"
      /\ Lives([tasks EXCEPT ![i] = "none"], pass, recovered)
  BY DEF End
<1>3. up /\ jobs[i] = "running"
  BY <1>1, <1>2, EndEffect
<1>4. recovered \subseteq Jobs /\ tasks \in [Jobs -> {"none", "spawned", "executing"}]
      /\ jobs \in [Jobs -> Statuses]
  BY DEF DaemonTypeOK, TypeOK
<1>5. CASE up' = up
  <2>1. \A j \in Jobs : j # i => jobs'[j] = jobs[j]
    BY <1>1, <1>2, <1>4, EndEffect
  <2>2. tasks' = [tasks EXCEPT ![i] = "none"] /\ pass' = pass /\ recovered' = recovered
    BY <1>2, <1>3, <1>5 DEF Lives
  <2>3. i \notin recovered /\ i \notin pass.created /\ i # pass.job
    BY <1>2 DEF HandsInv
  <2>4. QED BY <1>2, <1>3, <1>4, <1>5, <2>1, <2>2, <2>3 DEF HandsInv
<1>6. CASE up' = FALSE
  BY <1>2, <1>6, HandsLost
<1>7. QED BY <1>1, <1>2, <1>5, <1>6, EndEffect

LEMMA HandsReconcile == ASSUME DaemonTypeOK, HandsInv, NEW i \in Jobs, Reconcile(i) PROVE HandsInv'
<1>1. TypeOK
  BY DEF DaemonTypeOK
<1>2. Fail(i) /\ i \in recovered /\ Lives(tasks, pass, recovered \ {i})
  BY DEF Reconcile
<1>3. up /\ jobs[i] = "running" /\ tasks[i] = "none"
  BY <1>1, <1>2, EndEffect DEF HandsInv
<1>4. recovered \subseteq Jobs /\ tasks \in [Jobs -> {"none", "spawned", "executing"}]
      /\ jobs \in [Jobs -> Statuses]
  BY DEF DaemonTypeOK, TypeOK
<1>5. CASE up' = up
  <2>1. \A j \in Jobs : j # i => jobs'[j] = jobs[j]
    BY <1>1, <1>2, <1>4, EndEffect
  <2>2. tasks' = tasks /\ pass' = pass /\ recovered' = recovered \ {i}
    BY <1>2, <1>3, <1>5 DEF Lives
  <2>3. i \notin pass.created /\ i # pass.job
    BY <1>3 DEF HandsInv
  <2>4. QED BY <1>3, <1>4, <1>5, <2>1, <2>2, <2>3 DEF HandsInv
<1>6. CASE up' = FALSE
  BY <1>2, <1>6, HandsLost
<1>7. QED BY <1>1, <1>2, <1>5, <1>6, EndEffect

LEMMA HandsNext ==
    ASSUME DaemonTypeOK, HandsInv, [DaemonNext]_allVars
    PROVE  HandsInv'
<1>1. ASSUME UNCHANGED <<up, jobs, tasks, pass, recovered>> PROVE HandsInv'
  BY <1>1 DEF HandsInv
<1>2. CASE ReadDue
  <2>1. pass'.created = {} /\ pass'.job = NoJob
    BY <1>2 DEF ReadDue, Idle
  <2>2. UNCHANGED <<up, jobs, tasks, recovered>> /\ up
    BY <1>2 DEF ReadDue, vars, Serving
  <2>3. QED BY <2>1, <2>2, JobsAssumption DEF HandsInv
<1>3. CASE Advance
  <2>1. UNCHANGED <<up, jobs, tasks, recovered>> /\ up /\ pass.job \in Jobs
    BY <1>3 DEF Advance, vars, DaemonTypeOK, Pass
  <2>2. CASE pass' = [pass EXCEPT !.job = NoJob, !.created = @ \cup {pass.job}]
    <3>1. pass'.job = NoJob /\ pass'.created = pass.created \cup {pass.job}
      BY <2>2 DEF DaemonTypeOK, Pass
    <3>2. QED BY <2>1, <3>1, JobsAssumption DEF HandsInv
  <2>3. CASE pass' = Idle
    BY <2>1, <2>3, IdleIsPass, JobsAssumption DEF HandsInv
  <2>4. QED BY <1>3, <2>2, <2>3 DEF Advance
<1>4. CASE SpawnCreated
  <2>1. UNCHANGED <<up, jobs, recovered>> /\ pass' = Idle
    BY <1>4 DEF SpawnCreated, vars
  <2>2. tasks' = [j \in Jobs |-> IF j \in pass.created THEN "spawned" ELSE tasks[j]]
    BY <1>4 DEF SpawnCreated
  <2>3. recovered \subseteq Jobs
    BY DEF DaemonTypeOK
  <2>4. QED BY <2>1, <2>2, <2>3, IdleIsPass, JobsAssumption DEF HandsInv
<1>5. CASE Die
  BY <1>5, HandsLost DEF Die, Crash, Down
<1>6. CASE Restart
  <2>1. up' /\ ~up
    BY <1>6 DEF Restart, Recover
  <2>2. /\ tasks' = [j \in Jobs |-> IF jobs'[j] = "queued" THEN "spawned" ELSE "none"]
        /\ recovered' = {j \in Jobs : jobs'[j] = "running"}
        /\ pass' = Idle
    BY <1>6, <2>1 DEF Restart, Lives, HandsInv
  <2>3. QED BY <2>1, <2>2, IdleIsPass, JobsAssumption DEF HandsInv
<1>7. QED
  BY <1>1, <1>2, <1>3, <1>4, <1>5, <1>6,
     HandsSubmit, HandsEnqueue, HandsBegin, HandsEnd, HandsReconcile
  DEF DaemonNext, Step, Scheduler, Execution, Tick, CreateSchedule, SetEnabled, DeleteSchedule,
      WriteRow, process, allVars, vars, daemonVars

LEMMA TendedSame ==
    ASSUME OpenJobsAreTended, up' => up, UNCHANGED <<jobs, tasks, pass, recovered, failed, dbFailed>>
    PROVE  OpenJobsAreTended'
BY DEF OpenJobsAreTended

(* What a call owes: nothing while the process is down or once a write has *)
(* failed, and otherwise the call was answered with success.               *)
LEMMA TendedWhenMoved ==
    ASSUME TypeOK, NEW i \in Jobs,
           ~Moved(i) => (up' = up /\ failed' > 0) \/ up' = FALSE,
           Moved(i) => OpenJobsAreTended'
    PROVE  OpenJobsAreTended'
BY BoundsAssumption DEF OpenJobsAreTended, TypeOK

LEMMA TendedNext ==
    ASSUME DaemonTypeOK, HandsInv, OpenJobsAreTended, [DaemonNext]_allVars
    PROVE  OpenJobsAreTended'
<1>t. /\ TypeOK /\ jobs \in [Jobs -> Statuses]
      /\ tasks \in [Jobs -> {"none", "spawned", "executing"}] /\ recovered \subseteq Jobs
  BY DEF DaemonTypeOK, TypeOK
<1>1. CASE Submit
  <2> DEFINE i == Fresh
  <2>1. i \in Jobs
    BY <1>1, FreshIsJob DEF Submit
  <2> HIDE DEF i
  <2>2. Create(i) /\ UNCHANGED dbFailed
        /\ Lives(IF Moved(i) THEN [tasks EXCEPT ![i] = "spawned"] ELSE tasks, pass, recovered)
    BY <1>1 DEF Submit, budgets, i
  <2>3. ASSUME Moved(i) PROVE OpenJobsAreTended'
    <3>1. jobs' = [jobs EXCEPT ![i] = "queued"] /\ up /\ UNCHANGED <<up, failed>>
      BY <1>t, <2>1, <2>2, <2>3, CreateEffect
    <3>2. tasks' = [tasks EXCEPT ![i] = "spawned"] /\ pass' = pass /\ recovered' = recovered
      BY <2>2, <2>3, <3>1 DEF Lives
    <3>3. QED BY <1>t, <2>1, <2>2, <3>1, <3>2 DEF OpenJobsAreTended
  <2>4. QED BY <1>t, <2>1, <2>2, <2>3, CreateEffect, TendedWhenMoved
<1>2. ASSUME NEW o, Enqueue(o) PROVE OpenJobsAreTended'
  <2> DEFINE i == Fresh
  <2>1. i \in Jobs
    BY <1>2, FreshIsJob DEF Enqueue
  <2> HIDE DEF i
  <2>2. /\ Create(i) /\ UNCHANGED dbFailed /\ pass.job = NoJob
        /\ Lives(tasks, IF Moved(i) THEN [pass EXCEPT !.due = @ \ {o}, !.job = i] ELSE Idle,
                 recovered)
    BY <1>2 DEF Enqueue, budgets, i
  <2>3. ASSUME Moved(i) PROVE OpenJobsAreTended'
    <3>1. jobs' = [jobs EXCEPT ![i] = "queued"] /\ up /\ UNCHANGED <<up, failed>>
      BY <1>t, <2>1, <2>2, <2>3, CreateEffect
    <3>2. tasks' = tasks /\ recovered' = recovered /\ pass'.created = pass.created /\ pass'.job = i
      BY <2>2, <2>3, <3>1 DEF Lives, DaemonTypeOK, Pass
    <3>3. QED BY <1>t, <2>1, <2>2, <3>1, <3>2, JobsAssumption DEF OpenJobsAreTended
  <2>4. QED BY <1>t, <2>1, <2>2, <2>3, CreateEffect, TendedWhenMoved
<1>3. ASSUME NEW i \in Jobs, Begin(i) PROVE OpenJobsAreTended'
  <2>1. /\ Start(i) /\ UNCHANGED dbFailed
        /\ Lives([tasks EXCEPT ![i] = IF Moved(i) THEN "executing" ELSE "none"], pass, recovered)
    BY <1>3 DEF Begin, budgets
  <2>2. ASSUME Moved(i) PROVE OpenJobsAreTended'
    <3>1. jobs' = [jobs EXCEPT ![i] = "running"] /\ up /\ UNCHANGED <<up, failed>>
      BY <1>t, <2>1, <2>2, StartEffect
    <3>2. tasks' = [tasks EXCEPT ![i] = "executing"] /\ pass' = pass /\ recovered' = recovered
      BY <2>1, <2>2, <3>1 DEF Lives
    <3>3. QED BY <1>t, <2>1, <3>1, <3>2 DEF OpenJobsAreTended
  <2>3. QED BY <1>t, <2>1, <2>2, StartEffect, TendedWhenMoved
<1>4. ASSUME NEW i \in Jobs, End(i) PROVE OpenJobsAreTended'
  <2>1. /\ Complete(i) \/ Fail(i)
        /\ UNCHANGED dbFailed
        /\ Lives([tasks EXCEPT ![i] = "none"], pass, recovered)
    BY <1>4 DEF End, budgets
  <2>2. ASSUME Moved(i) PROVE OpenJobsAreTended'
    <3>1. /\ \E s \in Terminal : jobs' = [jobs EXCEPT ![i] = s]
          /\ up /\ UNCHANGED <<up, failed>>
      BY <1>t, <2>1, <2>2, EndEffect
    <3>2. tasks' = [tasks EXCEPT ![i] = "none"] /\ pass' = pass /\ recovered' = recovered
      BY <2>1, <3>1 DEF Lives
    <3>3. jobs'[i] \notin {"queued", "running"} /\ \A j \in Jobs : j # i => jobs'[j] = jobs[j]
      BY <1>t, <3>1 DEF Terminal
    <3>4. \A j \in Jobs : j # i => tasks'[j] = tasks[j]
      BY <1>t, <3>2
    <3>5. QED BY <2>1, <3>1, <3>2, <3>3, <3>4 DEF OpenJobsAreTended
  <2>3. QED BY <1>t, <2>1, <2>2, EndEffect, TendedWhenMoved
<1>5. ASSUME NEW i \in Jobs, Reconcile(i) PROVE OpenJobsAreTended'
  <2>1. Fail(i) /\ UNCHANGED dbFailed /\ Lives(tasks, pass, recovered \ {i})
    BY <1>5 DEF Reconcile, budgets
  <2>2. ASSUME Moved(i) PROVE OpenJobsAreTended'
    <3>1. /\ \E s \in Terminal : jobs' = [jobs EXCEPT ![i] = s]
          /\ up /\ UNCHANGED <<up, failed>>
      BY <1>t, <2>1, <2>2, EndEffect
    <3>2. tasks' = tasks /\ pass' = pass /\ recovered' = recovered \ {i}
      BY <2>1, <3>1 DEF Lives
    <3>3. jobs'[i] \notin {"queued", "running"} /\ \A j \in Jobs : j # i => jobs'[j] = jobs[j]
      BY <1>t, <3>1 DEF Terminal
    <3>4. QED BY <2>1, <3>1, <3>2, <3>3 DEF OpenJobsAreTended
  <2>3. QED BY <1>t, <2>1, <2>2, EndEffect, TendedWhenMoved
<1>6. CASE Restart
  <2>1. /\ tasks' = [j \in Jobs |-> IF jobs'[j] = "queued" THEN "spawned" ELSE "none"]
        /\ recovered' = {j \in Jobs : jobs'[j] = "running"}
    BY <1>6 DEF Restart, Lives, Recover
  <2>2. QED BY <2>1 DEF OpenJobsAreTended
<1>7. CASE Die
  BY <1>7 DEF Die, Crash, Down, OpenJobsAreTended
<1>8. CASE ReadDue
  <2>1. pass = Idle /\ pass'.created = pass.created /\ pass'.job = pass.job
    BY <1>8 DEF ReadDue, Idle
  <2>2. QED BY <1>8, <2>1 DEF ReadDue, vars, budgets, OpenJobsAreTended
<1>9. CASE Advance
  <2>1. CASE dbFailed' = dbFailed + 1
    BY <2>1 DEF OpenJobsAreTended, DaemonTypeOK
  <2>2. CASE pass' = [pass EXCEPT !.job = NoJob, !.created = @ \cup {pass.job}] /\ UNCHANGED dbFailed
    <3>1. pass'.job = NoJob /\ pass'.created = pass.created \cup {pass.job}
      BY <2>2 DEF DaemonTypeOK, Pass
    <3>2. UNCHANGED <<up, jobs, tasks, recovered, failed, dbFailed>>
      BY <1>9, <2>2 DEF Advance, vars
    <3>3. QED BY <3>1, <3>2 DEF OpenJobsAreTended
  <2>3. QED BY <1>9, <2>1, <2>2 DEF Advance
<1>10. CASE SpawnCreated
  <2>1. /\ UNCHANGED <<up, jobs, recovered, failed, dbFailed>>
        /\ tasks' = [j \in Jobs |-> IF j \in pass.created THEN "spawned" ELSE tasks[j]]
        /\ pass.job = NoJob
    BY <1>10 DEF SpawnCreated, vars, budgets
  <2>2. \A j \in pass.created : jobs[j] = "queued"
    BY DEF HandsInv, DaemonTypeOK, Pass
  <2>3. QED BY <1>t, <2>1, <2>2, JobsAssumption DEF OpenJobsAreTended
<1>11. QED
  BY <1>1, <1>2, <1>3, <1>4, <1>5, <1>6, <1>7, <1>8, <1>9, <1>10, TendedSame
  DEF DaemonNext, Step, Scheduler, Execution, Tick, CreateSchedule, SetEnabled, DeleteSchedule,
      WriteRow, process, allVars, vars, daemonVars, budgets

-----------------------------------------------------------------------------
(* Rows and the pass over them *)

PlanInv == RowInv /\ PassInv /\ OffInv

LEMMA TimeFacts == NoTime \notin Times /\ Times \subseteq Int /\ NoTime \in Int
BY DaemonBoundsAssumption DEF Times, NoTime

LEMMA PassFacts ==
    ASSUME DaemonTypeOK
    PROVE  /\ pass.due \subseteq Occurrence /\ pass.created \subseteq Jobs
           /\ pass.job # NoJob => pass.job \in Jobs
BY DEF DaemonTypeOK, Pass

LEMMA RowFacts ==
    ASSUME DaemonTypeOK, NEW s \in Schedules
    PROVE  /\ rows[s] \in Row
           /\ rows[s].next \in Times \cup {NoTime} /\ rows[s].first \in Times \cup {NoTime}
           /\ rows[s].exists \in BOOLEAN /\ rows[s].enabled \in BOOLEAN
BY DEF DaemonTypeOK, Row

\* The job of the pass is not the one that is drawn next.
LEMMA FreshIsFree ==
    ASSUME DaemonTypeOK, HandsInv, Create(Fresh), SomeUnused
    PROVE  Fresh \in Jobs /\ Fresh # pass.job
<1>1. Fresh \in Jobs /\ jobs[Fresh] = "absent"
  BY FreshIsJob DEF Create, Unused
<1>2. QED BY <1>1 DEF HandsInv

\* A row is in the pass once at the most.
LEMMA OneForEachRow ==
    ASSUME DaemonTypeOK, PassInv, pass.job # NoJob, NEW o \in pass.due
    PROVE  o.schedule # of[pass.job].schedule
<1>1. o \in Occurrence /\ Taken(o) /\ of[pass.job] \in Occurrence \ pass.due /\ Taken(of[pass.job])
  BY PassFacts DEF PassInv
<1>2. ASSUME o.schedule = of[pass.job].schedule PROVE o = of[pass.job]
  BY <1>1, <1>2 DEF Taken, Occurrence
<1>3. QED BY <1>1, <1>2

LEMMA PlanKept ==
    ASSUME DaemonTypeOK, PlanInv, UNCHANGED <<rows, now, off>>, pass' = pass \/ pass' = Idle,
           pass.job # NoJob => of'[pass.job] = of[pass.job]
    PROVE  PlanInv'
<1>1. RowInv'
  BY DEF PlanInv, RowInv, Named
<1>2. CASE pass' = Idle
  BY <1>1, <1>2, IdleIsPass DEF PlanInv, PassInv, OffInv, InPass, Named
<1>3. CASE pass' = pass
  <2>1. PassInv'
    BY <1>3 DEF PlanInv, PassInv, Taken
  <2>2. OffInv'
    BY <1>3 DEF PlanInv, OffInv, InPass, Named
  <2>3. QED BY <1>1, <2>1, <2>2 DEF PlanInv
<1>4. QED BY <1>2, <1>3

LEMMA PlanTick == ASSUME DaemonTypeOK, PlanInv, Tick PROVE PlanInv'
<1>1. now' = now + 1 /\ UNCHANGED <<rows, pass, of, off>>
  BY DEF Tick, process
<1>2. RowInv' /\ OffInv'
  BY <1>1 DEF PlanInv, RowInv, OffInv, InPass, Named
<1>3. \A o \in Occurrence : Taken(o) => Taken(o)'
  <2> SUFFICES ASSUME NEW o \in Occurrence, Taken(o) PROVE Taken(o)'
    OBVIOUS
  <2>1. o.at \in Int
    BY TimeFacts DEF Occurrence
  <2>2. now \in Int
    BY DEF DaemonTypeOK
  <2>3. QED BY <1>1, <2>1, <2>2 DEF Taken
<1>4. PassInv'
  BY <1>1, <1>3, PassFacts DEF PlanInv, PassInv
<1>5. QED BY <1>2, <1>4 DEF PlanInv

\* A row that is written by a handler keeps its next occurrence, or was not there.
LEMMA WrittenPass ==
    ASSUME DaemonTypeOK, PassInv, NEW s \in Schedules, NEW row, WriteRow(s, row),
           row.next = rows[s].next \/ rows[s] = NoRow
    PROVE  PassInv'
<1>1. UNCHANGED <<now, pass, of>> /\ rows' = [rows EXCEPT ![s] = row]
  BY DEF WriteRow, process
<1>2. ASSUME NEW o \in Occurrence, Taken(o) PROVE Taken(o)'
  <2>1. o.schedule \in Schedules /\ o.at \in Times
    BY DEF Occurrence
  <2>2. o.schedule = s => rows[s] # NoRow
    BY <1>2, <2>1, TimeFacts DEF Taken, NoRow
  <2>3. QED BY <1>1, <1>2, <2>1, <2>2 DEF Taken, DaemonTypeOK
<1>3. QED BY <1>1, <1>2, PassFacts DEF PassInv

LEMMA PlanCreate ==
    ASSUME DaemonTypeOK, PlanInv, NEW s \in Schedules, NEW at \in 0..MaxTime, CreateSchedule(s, at)
    PROVE  PlanInv'
<1> DEFINE row == [exists |-> TRUE, next |-> at, enabled |-> TRUE, first |-> at]
<1>1. /\ WriteRow(s, row) /\ rows[s] = NoRow /\ UNCHANGED <<pass, of, off>>
      /\ rows' = [rows EXCEPT ![s] = row]
  BY DEF CreateSchedule, WriteRow, process
<1>2. at \in Int /\ at # NoTime /\ ~Named(s)
  BY <1>1, DaemonBoundsAssumption DEF NoTime, NoRow, Named
<1>3. RowInv'
  BY <1>1, <1>2 DEF PlanInv, RowInv, Named, DaemonTypeOK
<1>4. OffInv'
  BY <1>1, <1>2 DEF PlanInv, OffInv, InPass, Named, DaemonTypeOK
<1>5. QED BY <1>1, <1>3, <1>4, WrittenPass DEF PlanInv

LEMMA PlanFlags ==
    ASSUME DaemonTypeOK, PlanInv, NEW s \in Schedules,
           DeleteSchedule(s) \/ \E on \in BOOLEAN : SetEnabled(s, on)
    PROVE  PlanInv'
<1> DEFINE Wrote(row) ==
             /\ WriteRow(s, row) /\ rows[s].exists
             /\ off' = off \ {s} \/ off' = off \cup {s}
             /\ s \in off' => ~(row.exists /\ row.enabled) /\ ~InPass(s)
           Marked == {[rows[s] EXCEPT !.exists = FALSE], [rows[s] EXCEPT !.enabled = TRUE],
                      [rows[s] EXCEPT !.enabled = FALSE]}
<1>1. PICK row \in Marked : Wrote(row)
  <2>1. rows[s] \in Row
    BY RowFacts
  <2>2. DeleteSchedule(s) => Wrote([rows[s] EXCEPT !.exists = FALSE])
    BY <2>1 DEF DeleteSchedule, Row
  <2>3. SetEnabled(s, TRUE) => Wrote([rows[s] EXCEPT !.enabled = TRUE])
    BY <2>1 DEF SetEnabled, Row
  <2>4. SetEnabled(s, FALSE) => Wrote([rows[s] EXCEPT !.enabled = FALSE])
    BY <2>1 DEF SetEnabled, Row
  <2>5. QED BY <2>2, <2>3, <2>4
<1>2. /\ UNCHANGED <<pass, of>>
      /\ rows' = [rows EXCEPT ![s] = row]
  BY <1>1 DEF WriteRow, process
<1>3. rows[s] \in Row /\ row.next = rows[s].next /\ row.first = rows[s].first
      /\ (row.exists => rows[s].exists)
  BY <1>1, RowFacts DEF Row
<1>4. Named(s) /\ row \in Row
  BY <1>1, <1>3, RowFacts DEF PlanInv, RowInv, Row
<1>5. RowInv'
  BY <1>1, <1>2, <1>3, <1>4 DEF PlanInv, RowInv, Named, DaemonTypeOK
<1>6. OffInv'
  BY <1>1, <1>2, <1>3, <1>4 DEF PlanInv, OffInv, InPass, Named, DaemonTypeOK
<1>7. QED BY <1>1, <1>3, <1>5, <1>6, WrittenPass DEF PlanInv

LEMMA DueFacts ==
    /\ Due \subseteq Occurrence
    /\ \A o \in Due : Taken(o) /\ rows[o.schedule].exists /\ rows[o.schedule].enabled
BY DEF Due, Taken

LEMMA PlanRead == ASSUME DaemonTypeOK, PlanInv, ReadDue PROVE PlanInv'
<1>1. UNCHANGED <<rows, now, off, of>> /\ pass'.due = Due /\ pass'.job = NoJob
  BY DEF ReadDue, Idle
<1>2. RowInv'
  BY <1>1 DEF PlanInv, RowInv, Named
<1>3. \A o \in Due : Taken(o)'
  BY <1>1, DueFacts DEF Taken
<1>4. PassInv'
  BY <1>1, <1>3 DEF PassInv
<1>5. OffInv'
  <2>1. \A s \in off : Named(s) /\ ~(rows[s].exists /\ rows[s].enabled)
    BY DEF PlanInv, OffInv
  <2>2. \A s \in off : ~InPass(s)'
    BY <1>1, <2>1, DueFacts DEF InPass
  <2>3. QED BY <1>1, <2>1, <2>2 DEF OffInv, Named
<1>6. QED BY <1>2, <1>4, <1>5 DEF PlanInv

\* The next row of a pass either becomes the one with a job, or ends the pass.
LEMMA EnqueuePass ==
    ASSUME DaemonTypeOK, HandsInv, NEW o \in pass.due, Enqueue(o)
    PROVE  /\ UNCHANGED <<rows, now, off, ran, crashes, dbFailed>>
           /\ Fresh \in Jobs /\ Create(Fresh) /\ pass.job = NoJob /\ up
           /\ of' = [of EXCEPT ![Fresh] = o] /\ of'[Fresh] = o
           /\ Moved(Fresh) =>
                 pass'.due = pass.due \ {o} /\ pass'.job = Fresh /\ pass'.created = pass.created
           /\ ~Moved(Fresh) => pass' = Idle
<1>1. Fresh \in Jobs /\ Create(Fresh) /\ up /\ pass.job = NoJob
  BY FreshIsJob DEF Enqueue
<1>2. Moved(Fresh) => up' = up
  BY <1>1, CreateEffect DEF DaemonTypeOK
<1>3. pass' = IF up' THEN IF Moved(Fresh) THEN [pass EXCEPT !.due = @ \ {o}, !.job = Fresh] ELSE Idle
              ELSE Idle
  BY DEF Enqueue, Lives
<1>4. Moved(Fresh) =>
          pass'.due = pass.due \ {o} /\ pass'.job = Fresh /\ pass'.created = pass.created
  BY <1>1, <1>2, <1>3 DEF DaemonTypeOK, Pass
<1>5. ~Moved(Fresh) => pass' = Idle
  BY <1>3
<1>6. of' = [of EXCEPT ![Fresh] = o] /\ of'[Fresh] = o
  BY <1>1 DEF Enqueue, DaemonTypeOK
<1>7. QED BY <1>1, <1>4, <1>5, <1>6 DEF Enqueue, budgets

LEMMA PlanEnqueue ==
    ASSUME DaemonTypeOK, HandsInv, PlanInv, NEW o \in pass.due, Enqueue(o)
    PROVE  PlanInv'
<1>1. CASE ~Moved(Fresh)
  BY <1>1, EnqueuePass, PlanKept
<1>2. CASE Moved(Fresh)
  <2>1. /\ UNCHANGED <<rows, now, off>> /\ Fresh \in Jobs /\ of'[Fresh] = o
        /\ pass'.due = pass.due \ {o} /\ pass'.job = Fresh
    BY <1>2, EnqueuePass
  <2>2. o \in Occurrence /\ Taken(o)
    BY PassFacts DEF PlanInv, PassInv
  <2>3. RowInv'
    BY <2>1 DEF PlanInv, RowInv, Named
  <2>4. PassInv'
    BY <2>1, <2>2 DEF PlanInv, PassInv, Taken
  <2>5. \A s : InPass(s)' => InPass(s)
    BY <2>1 DEF InPass
  <2>6. OffInv'
    BY <2>1, <2>5 DEF PlanInv, OffInv, Named
  <2>7. QED BY <2>3, <2>4, <2>6 DEF PlanInv
<1>3. QED BY <1>1, <1>2

\* What advance_after_dispatch makes of the row of an occurrence.
LEMMA Advanced ==
    ASSUME DaemonTypeOK, PlanInv, pass.job # NoJob, rows[of[pass.job].schedule].exists
    PROVE  LET o == of[pass.job]
               row == AfterDispatch(rows[o.schedule], o)
           IN  /\ row \in Row
               /\ row.exists /\ row.first = rows[o.schedule].first
               /\ o.schedule \in Recurring => row.next = o.at + 1
               /\ o.schedule \notin Recurring => row.next = NoTime
<1> DEFINE o == of[pass.job]
           old == rows[o.schedule]
<1>1. o \in Occurrence /\ Taken(o)
  BY DEF PlanInv, PassInv
<1> HIDE DEF o
<1>2. o.schedule \in Schedules /\ o.at \in Times /\ o.at <= now /\ now \in 0..MaxTime
  BY <1>1 DEF Occurrence, Taken, DaemonTypeOK
<1>3. o.at + 1 \in Times
  BY <1>2, DaemonBoundsAssumption DEF Times
<1>4. old \in Row /\ old.exists
  BY <1>2, RowFacts DEF o
<1>5. CASE o.schedule \in Recurring
  <2>1. AfterDispatch(old, o) = [old EXCEPT !.next = o.at + 1, !.enabled = TRUE]
    BY <1>5 DEF AfterDispatch
  <2>2. QED BY <1>3, <1>4, <1>5, <2>1 DEF Row, o
<1>6. CASE o.schedule \notin Recurring
  <2>1. AfterDispatch(old, o) = [old EXCEPT !.next = NoTime, !.enabled = FALSE]
    BY <1>6 DEF AfterDispatch
  <2>2. QED BY <1>4, <1>6, <2>1 DEF Row, o
<1>7. QED BY <1>5, <1>6

LEMMA PlanAdvance == ASSUME DaemonTypeOK, PlanInv, Advance PROVE PlanInv'
<1> DEFINE o == of[pass.job]
           row == AfterDispatch(rows[o.schedule], o)
<1>1. /\ UNCHANGED <<now, off, of>> /\ pass.job # NoJob
      /\ \/ /\ rows' = [rows EXCEPT ![o.schedule] = IF @.exists THEN row ELSE @]
            /\ pass' = [pass EXCEPT !.job = NoJob, !.created = @ \cup {pass.job}]
         \/ UNCHANGED rows /\ pass' = Idle
  BY DEF Advance
<1>2. CASE UNCHANGED rows /\ pass' = Idle
  BY <1>1, <1>2, PlanKept
<1>3. CASE /\ rows' = [rows EXCEPT ![o.schedule] = IF @.exists THEN row ELSE @]
           /\ pass' = [pass EXCEPT !.job = NoJob, !.created = @ \cup {pass.job}]
  <2>1. o \in Occurrence /\ Taken(o) /\ o.schedule \in Schedules /\ o.at \in Int
    BY <1>1, TimeFacts DEF PlanInv, PassInv, Occurrence
  <2>2. pass'.job = NoJob /\ pass'.due = pass.due
    BY <1>3 DEF DaemonTypeOK, Pass
  <2>3. \A s \in Schedules : s # o.schedule => rows'[s] = rows[s]
    BY <1>3 DEF DaemonTypeOK
  <2>4. rows'[o.schedule] = IF rows[o.schedule].exists THEN row ELSE rows[o.schedule]
    BY <1>3, <2>1 DEF DaemonTypeOK
  <2> HIDE DEF o
  <2>5. RowInv'
    <3>1. ASSUME NEW s \in Schedules, s = o.schedule, rows[s].exists
          PROVE  /\ Named(s)' /\ (s \in Recurring => rows'[s].first <= rows'[s].next)
                 /\ s \notin Recurring => rows'[s].next = NoTime
      <4>1. Named(s) /\ (s \in Recurring => rows[s].first <= o.at)
        BY <2>1, <3>1 DEF PlanInv, RowInv, Taken
      <4>2. /\ rows'[s].first = rows[s].first
            /\ s \in Recurring => rows'[s].next = o.at + 1
            /\ s \notin Recurring => rows'[s].next = NoTime
        BY <1>1, <2>4, <3>1, Advanced DEF o
      <4>3. rows[s].first \in Int
        BY RowFacts, TimeFacts
      <4>4. QED BY <2>1, <4>1, <4>2, <4>3 DEF Named
    <3>2. ASSUME NEW s \in Schedules, s = o.schedule => ~rows[s].exists
          PROVE  rows'[s] = rows[s]
      BY <2>3, <2>4, <3>2
    <3>3. QED BY <3>1, <3>2 DEF PlanInv, RowInv, Named
  <2>6. PassInv'
    <3>1. ASSUME NEW p \in pass.due PROVE Taken(p)'
      <4>1. p.schedule # o.schedule /\ p.schedule \in Schedules /\ Taken(p)
        BY <1>1, OneForEachRow, PassFacts DEF PlanInv, PassInv, Occurrence, o
      <4>2. QED BY <1>1, <2>3, <4>1 DEF Taken
    <3>2. QED BY <2>2, <3>1 DEF PassInv
  <2>7. OffInv'
    <3>1. InPass(o.schedule)
      BY <1>1 DEF InPass, o
    <3>2. \A s \in off : s # o.schedule /\ s \in Schedules
      BY <3>1 DEF PlanInv, OffInv, DaemonTypeOK
    <3>3. \A s : InPass(s)' => InPass(s)
      BY <2>2 DEF InPass
    <3>4. QED BY <1>1, <2>3, <3>2, <3>3 DEF PlanInv, OffInv, Named
  <2>8. QED BY <2>5, <2>6, <2>7 DEF PlanInv
<1>4. QED BY <1>1, <1>2, <1>3

LEMMA PlanNext ==
    ASSUME DaemonTypeOK, HandsInv, PlanInv, [DaemonNext]_allVars
    PROVE  PlanInv'
<1>1. CASE Submit
  <2>1. Fresh \in Jobs /\ Fresh # pass.job /\ of' = [of EXCEPT ![Fresh] = NoOccurrence]
    BY <1>1, FreshIsFree DEF Submit
  <2>2. of'[pass.job] = of[pass.job] \/ pass.job = NoJob
    BY <2>1, PassFacts DEF DaemonTypeOK
  <2>3. UNCHANGED <<rows, now, off>> /\ (pass' = pass \/ pass' = Idle)
    BY <1>1 DEF Submit, Lives
  <2>4. QED BY <2>2, <2>3, PlanKept
<1>2. CASE SpawnCreated \/ Die \/ Restart \/ UNCHANGED allVars
  BY <1>2, PlanKept DEF SpawnCreated, Die, Restart, Lives, allVars, daemonVars, process
<1>3. ASSUME NEW j \in Jobs, Begin(j) \/ End(j) \/ Reconcile(j) PROVE PlanInv'
  BY <1>3, PlanKept DEF Begin, End, Reconcile, Lives
<1>4. QED
  BY <1>1, <1>2, <1>3, PlanTick, PlanCreate, PlanFlags, PlanRead, PlanEnqueue, PlanAdvance,
     SchedulesAssumption
  DEF DaemonNext, Step, Scheduler, Execution

-----------------------------------------------------------------------------
(* Types *)

LEMMA LivesType ==
    ASSUME NEW t \in [Jobs -> {"none", "spawned", "executing"}], NEW p \in Pass,
           NEW r \in SUBSET Jobs, Lives(t, p, r)
    PROVE  /\ tasks' \in [Jobs -> {"none", "spawned", "executing"}]
           /\ pass' \in Pass /\ recovered' \subseteq Jobs
BY IdleIsPass DEF Lives

LEMMA DaemonTypeNext ==
    ASSUME DaemonTypeOK, PlanInv, [DaemonNext]_allVars
    PROVE  DaemonTypeOK'
<1> DEFINE Process == /\ tasks \in [Jobs -> {"none", "spawned", "executing"}]
                      /\ pass \in Pass /\ recovered \subseteq Jobs
           Rows == now \in 0..MaxTime /\ rows \in [Schedules -> Row] /\ off \subseteq Schedules
           History == /\ of \in [Jobs -> Occurrence \cup {NoOccurrence}] /\ ran \in [Jobs -> Nat]
                      /\ {crashes, dbFailed} \subseteq Nat
<1>t. Process /\ Rows /\ History /\ TypeOK
  BY DEF DaemonTypeOK
<1>u. TypeOK'
  BY <1>t, StepIsJobStep, TypeNext
<1>f. Faults' <= MaxFaults
  BY DEF DaemonNext, DaemonTypeOK, Faults, allVars, vars, daemonVars, budgets
<1> SUFFICES Process' /\ Rows' /\ History'
  BY <1>u, <1>f DEF DaemonTypeOK
<1>1. CASE Tick
  <2>1. now' \in 0..MaxTime
    BY <1>1, DaemonBoundsAssumption DEF Tick, DaemonTypeOK
  <2>2. QED BY <1>1, <1>t, <2>1 DEF Tick, process, budgets
<1>2. CASE Submit
  <2>1. Fresh \in Jobs /\ UNCHANGED <<now, rows, ran, off, budgets>>
        /\ of' = [of EXCEPT ![Fresh] = NoOccurrence]
        /\ Lives(IF Moved(Fresh) THEN [tasks EXCEPT ![Fresh] = "spawned"] ELSE tasks, pass, recovered)
    BY <1>2, FreshIsJob DEF Submit
  <2>2. Process'
    BY <1>t, <2>1, LivesType
  <2>3. QED BY <1>t, <2>1, <2>2 DEF budgets
<1>3. ASSUME NEW s \in Schedules, NEW row \in Row, WriteRow(s, row), off' \subseteq Schedules
      PROVE  Process' /\ Rows' /\ History'
  BY <1>3, <1>t DEF WriteRow, process, budgets
<1>4. ASSUME NEW s \in Schedules, NEW at \in 0..MaxTime, CreateSchedule(s, at)
      PROVE  Process' /\ Rows' /\ History'
  <2>1. [exists |-> TRUE, next |-> at, enabled |-> TRUE, first |-> at] \in Row
    BY DaemonBoundsAssumption DEF Row, Times
  <2>2. QED BY <1>3, <1>4, <1>t, <2>1 DEF CreateSchedule
<1>5. ASSUME NEW s \in Managed, DeleteSchedule(s) \/ \E on \in BOOLEAN : SetEnabled(s, on)
      PROVE  Process' /\ Rows' /\ History'
  <2>1. s \in Schedules /\ rows[s] \in Row
    BY <1>t, SchedulesAssumption
  <2>2. [rows[s] EXCEPT !.exists = FALSE] \in Row
        /\ \A on \in BOOLEAN : [rows[s] EXCEPT !.enabled = on] \in Row
    BY <2>1 DEF Row
  <2>3. off' \subseteq Schedules
    BY <1>5, <1>t, <2>1 DEF DeleteSchedule, SetEnabled
  <2>4. QED BY <1>3, <1>5, <2>1, <2>2, <2>3 DEF DeleteSchedule, SetEnabled
<1>6. CASE ReadDue
  <2>1. pass' \in Pass
    BY <1>6, DueFacts DEF ReadDue, Pass, Idle
  <2>2. QED BY <1>6, <1>t, <2>1 DEF ReadDue, budgets
<1>7. ASSUME NEW o \in pass.due, Enqueue(o) PROVE Process' /\ Rows' /\ History'
  <2>1. Fresh \in Jobs /\ UNCHANGED <<now, rows, ran, off, budgets>>
        /\ of' = [of EXCEPT ![Fresh] = o]
        /\ Lives(tasks, IF Moved(Fresh) THEN [pass EXCEPT !.due = @ \ {o}, !.job = Fresh] ELSE Idle,
                 recovered)
    BY <1>7, FreshIsJob DEF Enqueue
  <2>2. o \in Occurrence
    BY <1>7, PassFacts
  <2>3. [pass EXCEPT !.due = @ \ {o}, !.job = Fresh] \in Pass
    BY <1>t, <2>1 DEF Pass
  <2>4. Process'
    BY <1>t, <2>1, <2>3, IdleIsPass, LivesType
  <2>5. QED BY <1>t, <2>1, <2>2, <2>4 DEF budgets
<1>8. CASE Advance
  <2>1. UNCHANGED <<now, tasks, recovered, of, ran, off, crashes>> /\ pass.job # NoJob
    BY <1>8 DEF Advance
  <2>2. pass' \in Pass
    <3>1. pass.job \in Jobs
      BY <1>t, <2>1 DEF Pass
    <3>2. [pass EXCEPT !.job = NoJob, !.created = @ \cup {pass.job}] \in Pass
      BY <1>t, <3>1 DEF Pass
    <3>3. QED BY <1>8, <3>2, IdleIsPass DEF Advance
  <2>3. dbFailed' \in Nat
    BY <1>8, <1>t DEF Advance
  <2>4. rows' \in [Schedules -> Row]
    <3> DEFINE o == of[pass.job]
    <3>1. o.schedule \in Schedules
      BY <2>1 DEF PlanInv, PassInv, Occurrence
    <3>2. rows[o.schedule].exists => AfterDispatch(rows[o.schedule], o) \in Row
      BY <2>1, Advanced
    <3>3. UNCHANGED rows \/ rows' = [rows EXCEPT ![o.schedule] =
                                       IF @.exists THEN AfterDispatch(@, o) ELSE @]
      BY <1>8 DEF Advance
    <3> HIDE DEF o
    <3>4. QED BY <1>t, <3>1, <3>2, <3>3
  <2>5. QED BY <1>t, <2>1, <2>2, <2>3, <2>4
<1>9. CASE SpawnCreated
  BY <1>9, <1>t, IdleIsPass DEF SpawnCreated, budgets
<1>10. ASSUME NEW j \in Jobs, Begin(j) PROVE Process' /\ Rows' /\ History'
  <2>1. Lives([tasks EXCEPT ![j] = IF Moved(j) THEN "executing" ELSE "none"], pass, recovered)
    BY <1>10 DEF Begin
  <2>2. [tasks EXCEPT ![j] = IF Moved(j) THEN "executing" ELSE "none"]
          \in [Jobs -> {"none", "spawned", "executing"}]
    BY <1>t
  <2>3. ran' \in [Jobs -> Nat]
    BY <1>10, <1>t DEF Begin
  <2>4. QED BY <1>10, <1>t, <2>1, <2>2, <2>3, LivesType DEF Begin, budgets
<1>11. ASSUME NEW j \in Jobs, End(j) PROVE Process' /\ Rows' /\ History'
  <2>1. [tasks EXCEPT ![j] = "none"] \in [Jobs -> {"none", "spawned", "executing"}]
    BY <1>t
  <2>2. QED BY <1>11, <1>t, <2>1, LivesType DEF End, budgets
<1>12. ASSUME NEW j \in Jobs, Reconcile(j) PROVE Process' /\ Rows' /\ History'
  BY <1>12, <1>t, LivesType DEF Reconcile, budgets
<1>13. CASE Die
  <2>1. crashes' \in Nat
    BY <1>13, <1>t DEF Die
  <2>2. QED BY <1>13, <1>t, <2>1, LivesType DEF Die
<1>14. CASE Restart
  <2>1. [j \in Jobs |-> IF jobs'[j] = "queued" THEN "spawned" ELSE "none"]
          \in [Jobs -> {"none", "spawned", "executing"}]
    OBVIOUS
  <2>2. QED BY <1>14, <1>t, <2>1, LivesType DEF Restart, budgets
<1>15. CASE UNCHANGED allVars
  BY <1>15, <1>t DEF allVars, daemonVars, process, budgets
<1>16. QED
  BY <1>1, <1>2, <1>4, <1>5, <1>6, <1>7, <1>8, <1>9, <1>10, <1>11, <1>12, <1>13, <1>14, <1>15
  DEF DaemonNext, Step, Scheduler, Execution

DaemonInv == DaemonTypeOK /\ HandsInv /\ PlanInv

LEMMA DaemonInvInit == DaemonInit => DaemonInv /\ OpenJobsAreTended
<1> SUFFICES ASSUME DaemonInit PROVE DaemonInv /\ OpenJobsAreTended
  OBVIOUS
<1>1. TypeOK /\ Init
  BY TypeInit DEF DaemonInit
<1>2. NoRow \in Row
  BY DEF NoRow, Row
<1>3. Faults <= MaxFaults
  BY DaemonBoundsAssumption DEF DaemonInit, Init, Faults
<1>4. DaemonTypeOK
  BY <1>1, <1>2, <1>3, IdleIsPass, DaemonBoundsAssumption DEF DaemonInit, DaemonTypeOK
<1>5. HandsInv
  BY <1>1, IdleIsPass, JobsAssumption DEF DaemonInit, HandsInv
<1>6. PlanInv
  BY IdleIsPass, TimeFacts DEF DaemonInit, PlanInv, RowInv, PassInv, OffInv, Named, NoRow
<1>7. OpenJobsAreTended
  BY <1>1 DEF DaemonInit, Init, OpenJobsAreTended
<1>8. QED BY <1>4, <1>5, <1>6, <1>7 DEF DaemonInv

LEMMA DaemonInvNext == DaemonInv /\ [DaemonNext]_allVars => DaemonInv'
BY DaemonTypeNext, HandsNext, PlanNext DEF DaemonInv

(* Rows, passes, tasks and jobs keep their types, whatever fails. *)
THEOREM DaemonTypeCorrect == DaemonSpec => []DaemonTypeOK
<1>1. DaemonInv /\ [DaemonNext]_<<vars, daemonVars>> => DaemonInv'
  BY DaemonInvNext DEF allVars
<1>2. DaemonInv => DaemonTypeOK
  BY DEF DaemonInv
<1>3. QED BY <1>1, <1>2, DaemonInvInit, PTL DEF DaemonSpec

(* What is disabled or deleted outside of a pass stays off: nothing the    *)
(* scheduler has in hand belongs to such a row, and advance_after_dispatch *)
(* writes no other.                                                        *)
THEOREM OffIsKept == DaemonSpec => []OffStaysOff
<1>1. DaemonInv /\ [DaemonNext]_<<vars, daemonVars>> => DaemonInv'
  BY DaemonInvNext DEF allVars
<1>2. DaemonInv => OffStaysOff
  BY DEF DaemonInv, PlanInv, OffInv, OffStaysOff
<1>3. QED BY <1>1, <1>2, DaemonInvInit, PTL DEF DaemonSpec

(* No accepted job is left alone by an execution, a pass or a restart as   *)
(* long as every write succeeds, however often the daemon dies.            *)
THEOREM OpenJobsTended == DaemonSpec => []OpenJobsAreTended
<1>1. DaemonInv /\ OpenJobsAreTended /\ [DaemonNext]_<<vars, daemonVars>>
        => DaemonInv' /\ OpenJobsAreTended'
  BY DaemonInvNext, TendedNext DEF allVars, DaemonInv
<1>2. QED BY <1>1, DaemonInvInit, PTL DEF DaemonSpec

-----------------------------------------------------------------------------
(* What the log keeps of an occurrence *)

InLog(o) == \E j \in Jobs : of[j] = o /\ log.jobs[j] # "absent"

\* The job of the pass is in the log before its row moves on.
RecordInv ==
    \/ log.corrupt
    \/ /\ \A s \in Schedules : \A o \in Passed(s) : InLog(o)
       /\ pass.job # NoJob => log.jobs[pass.job] # "absent"

LEMMA LeadsSomewhere == \A k \in Kinds : LeadsTo[k] # "absent"
BY DEF Kinds, LeadsTo

(* An event makes no job unknown, and only JobQueued makes one known. *)
LEMMA AppliedKnown ==
    ASSUME NEW l \in Log, NEW e \in Event, NEW j \in Jobs
    PROVE  /\ l.jobs[j] # "absent" => Applied(l, e).jobs[j] # "absent"
           /\ Applied(l, e).jobs[j] # "absent" =>
                 l.jobs[j] # "absent" \/ (e.kind = "JobQueued" /\ e.job = j)
<1>1. CASE l.jobs[e.job] \in AllowedFrom[e.kind]
  <2>1. Applied(l, e).jobs = [l.jobs EXCEPT ![e.job] = LeadsTo[e.kind]]
    BY <1>1, AppliedLegal
  <2>2. e.kind \in Kinds /\ e.job \in Jobs /\ l.jobs \in [Jobs -> Statuses]
    BY DEF Event, Log
  <2>3. LeadsTo[e.kind] # "absent"
    BY <2>2, LeadsSomewhere
  <2>4. e.kind = "JobQueued" \/ l.jobs[e.job] # "absent"
    BY <1>1, <2>2 DEF Kinds, AllowedFrom
  <2>5. QED BY <2>1, <2>2, <2>3, <2>4
<1>2. CASE l.jobs[e.job] \notin AllowedFrom[e.kind]
  BY <1>2, AppliedIllegal
<1>3. QED BY <1>1, <1>2

LEMMA TailIsEvent == TypeOK /\ tail.kind \in Kinds => tail \in Event
BY NoTailIsNoEvent DEF TypeOK

LEMMA LoggedKnown ==
    ASSUME TypeOK, NEW e \in Event, NEW after, Logged(e, after)
    PROVE  /\ log.corrupt => log'.corrupt
           /\ \A j \in Jobs : log.jobs[j] # "absent" => log'.jobs[j] # "absent"
<1>1. CASE Appended(e) /\ tail = NoTail
  <2>1. log' = Applied(log, e) /\ log \in Log
    BY <1>1 DEF Appended, Terminated, TypeOK
  <2>2. log'.corrupt = log.corrupt
    BY <2>1 DEF Applied, Log
  <2>3. QED BY <2>1, <2>2, AppliedKnown
<1>2. CASE Appended(e) /\ tail # NoTail
  BY <1>2 DEF Appended, Terminated, TypeOK, Log
<1>3. CASE UNCHANGED log
  BY <1>3
<1>4. QED BY <1>1, <1>2, <1>3 DEF Logged, Interrupted

(* A replay of the file knows a job that the one before did not know only  *)
(* when the line of its creation was written in between.                   *)
LEMMA LoggedReplay ==
    ASSUME TypeOK, NEW e \in Event, NEW after, Logged(e, after), NEW j \in Jobs,
           Replayed'.jobs[j] # "absent"
    PROVE  Replayed.jobs[j] # "absent" \/ (e.kind = "JobQueued" /\ e.job = j)
<1>1. log \in Log /\ (log.jobs[j] # "absent" => Replayed.jobs[j] # "absent")
  BY TailIsEvent, AppliedKnown DEF Replayed, TypeOK
<1>2. CASE Appended(e)
  <2>1. Replayed' = log'
    BY <1>2, NoTailIsNoEvent DEF Appended, Replayed
  <2>2. CASE tail = NoTail
    BY <1>1, <1>2, <2>1, <2>2, AppliedKnown DEF Appended, Terminated
  <2>3. CASE tail # NoTail
    <3>1. log'.jobs = log.jobs
      BY <1>1, <1>2, <2>3 DEF Appended, Terminated, Log
    <3>2. QED BY <1>1, <2>1, <3>1
  <2>4. QED BY <2>2, <2>3
<1>3. CASE UNCHANGED <<log, tail>>
  BY <1>3 DEF Replayed
<1>4. CASE UNCHANGED log /\ tail' \in Rest(e)
  <2>1. tail' = Cut \/ tail' = SplitChar \/ tail' = e
    BY <1>4 DEF Rest
  <2>2. CASE tail' = e
    <3>1. e.kind \in Kinds
      BY DEF Event
    <3>2. Replayed' = Applied(log, e)
      BY <1>4, <2>2, <3>1 DEF Replayed
    <3>3. QED BY <1>1, <3>2, AppliedKnown
  <2>3. CASE tail' = Cut \/ tail' = SplitChar
    <3>1. Replayed' = log
      BY <1>4, <2>3, NoTailIsNoEvent DEF Replayed
    <3>2. QED BY <1>1, <3>1
  <2>4. QED BY <2>1, <2>2, <2>3
<1>5. QED BY <1>2, <1>3, <1>4 DEF Logged, Interrupted

LEMMA CallIsLogged ==
    ASSUME NEW j \in Jobs, Create(j) \/ Start(j) \/ Complete(j) \/ Fail(j)
    PROVE  \E e \in Event : \E after :
              /\ Logged(e, after) /\ e.job = j
              /\ e.kind = "JobQueued" => Create(j)
<1> DEFINE ev(k) == [kind |-> k, job |-> j]
<1>1. \A k \in Kinds : ev(k) \in Event /\ ev(k).job = j /\ ev(k).kind = k
  BY DEF Event
<1>2. {"JobQueued", "JobStarted", "JobCompleted", "JobFailed"} \subseteq Kinds
  BY DEF Kinds
<1>3. Create(j) => Logged(ev("JobQueued"), [jobs EXCEPT ![j] = LeadsTo["JobQueued"]])
  BY DEF Create, Call
<1>4. Start(j) => Logged(ev("JobStarted"), [jobs EXCEPT ![j] = LeadsTo["JobStarted"]])
  BY DEF Start, Call
<1>5. Complete(j) => Logged(ev("JobCompleted"), [jobs EXCEPT ![j] = LeadsTo["JobCompleted"]])
  BY DEF Complete, Call
<1>6. Fail(j) => Logged(ev("JobFailed"), [jobs EXCEPT ![j] = LeadsTo["JobFailed"]])
  BY DEF Fail, Call
<1> HIDE DEF ev
<1>7. QED BY <1>1, <1>2, <1>3, <1>4, <1>5, <1>6

\* A job that is drawn is in no record of any occurrence.
LEMMA UnusedUnknown ==
    ASSUME TypeOK, NEW j \in Jobs, Unused(j)
    PROVE  log.jobs[j] = "absent" /\ Replayed.jobs[j] = "absent"
<1>1. log.jobs[j] = "absent" /\ tail.job # j /\ log \in Log
  BY DEF Unused, TypeOK
<1>2. QED BY <1>1, TailIsEvent, AppliedKnown DEF Replayed

(* A step of the daemon forgets nothing that is in the log, and a job in   *)
(* the log keeps its occurrence.                                           *)
LEMMA StepKnown ==
    ASSUME DaemonTypeOK, [DaemonNext]_allVars
    PROVE  /\ log.corrupt => log'.corrupt
           /\ \A j \in Jobs :
                 log.jobs[j] # "absent" => log'.jobs[j] # "absent" /\ of'[j] = of[j]
<1>t. TypeOK /\ of \in [Jobs -> Occurrence \cup {NoOccurrence}]
  BY DEF DaemonTypeOK
<1>1. ASSUME NEW i \in Jobs, Create(i) \/ Start(i) \/ Complete(i) \/ Fail(i)
      PROVE  /\ log.corrupt => log'.corrupt
             /\ \A j \in Jobs : log.jobs[j] # "absent" => log'.jobs[j] # "absent"
  BY <1>t, <1>1, CallIsLogged, LoggedKnown
<1>2. ASSUME Submit \/ \E o \in pass.due : Enqueue(o)
      PROVE  /\ Fresh \in Jobs /\ Create(Fresh)
             /\ \A j \in Jobs : log.jobs[j] # "absent" => of'[j] = of[j]
  <2>1. Fresh \in Jobs /\ Create(Fresh) /\ \E o : of' = [of EXCEPT ![Fresh] = o]
    BY <1>2, FreshIsJob DEF Submit, Enqueue
  <2>2. log.jobs[Fresh] = "absent"
    BY <2>1 DEF Create, Unused
  <2>3. QED BY <1>t, <2>1, <2>2
<1>3. ASSUME NEW i \in Jobs, Begin(i) \/ End(i) \/ Reconcile(i)
      PROVE  (Start(i) \/ Complete(i) \/ Fail(i)) /\ UNCHANGED of
  BY <1>3 DEF Begin, End, Reconcile
<1>4. CASE UNCHANGED <<log, of>>
  BY <1>4
<1>5. QED
  BY <1>1, <1>2, <1>3, <1>4
  DEF DaemonNext, Step, Scheduler, Execution, Tick, CreateSchedule, SetEnabled, DeleteSchedule,
      WriteRow, ReadDue, Advance, SpawnCreated, Die, Crash, Restart, Recover, allVars, vars, daemonVars

\* The step of a row that passes an occurrence has its job in hand.
LEMMA PassedNext ==
    ASSUME DaemonTypeOK, PlanInv, [DaemonNext]_allVars,
           NEW s \in Schedules, NEW o \in Passed(s)'
    PROVE  o \in Passed(s) \/ (pass.job # NoJob /\ of[pass.job] = o /\ UNCHANGED <<log, of>>)
<1>o. o \in Occurrence /\ o.schedule = s /\ o.at \in Int
  BY TimeFacts DEF Passed, Occurrence
<1>1. ASSUME rows'[s].first = rows[s].first, rows'[s].next = rows[s].next PROVE o \in Passed(s)
  BY <1>1 DEF Passed
<1>2. ASSUME NEW r \in Schedules, NEW at \in 0..MaxTime, CreateSchedule(r, at)
      PROVE  o \in Passed(s)
  <2>1. rows' = [rows EXCEPT ![r] = [exists |-> TRUE, next |-> at, enabled |-> TRUE, first |-> at]]
    BY <1>2 DEF CreateSchedule, WriteRow
  <2>2. CASE r = s
    <3>1. rows'[s].next = at /\ rows'[s].first = at
      BY <2>1, <2>2 DEF DaemonTypeOK
    <3>2. at # NoTime /\ at \in Int
      BY DaemonBoundsAssumption DEF NoTime
    <3>3. at <= o.at /\ o.at < at
      BY <3>1, <3>2 DEF Passed
    <3>4. QED BY <1>o, <3>2, <3>3
  <2>3. CASE r # s
    <3>1. rows'[s] = rows[s]
      BY <2>1, <2>3 DEF DaemonTypeOK
    <3>2. QED BY <1>1, <3>1
  <2>4. QED BY <2>2, <2>3
<1>3. ASSUME NEW r \in Managed, DeleteSchedule(r) \/ \E on \in BOOLEAN : SetEnabled(r, on)
      PROVE  o \in Passed(s)
  <2>1. rows[s] \in Row /\ r \in Schedules
    BY RowFacts, SchedulesAssumption
  <2>2. \/ rows' = [rows EXCEPT ![r] = [rows[r] EXCEPT !.exists = FALSE]]
        \/ \E on \in BOOLEAN : rows' = [rows EXCEPT ![r] = [rows[r] EXCEPT !.enabled = on]]
    BY <1>3 DEF DeleteSchedule, SetEnabled, WriteRow
  <2>3. rows'[s].first = rows[s].first /\ rows'[s].next = rows[s].next
    BY <2>1, <2>2 DEF DaemonTypeOK, Row
  <2>4. QED BY <1>1, <2>3
<1>4. CASE Advance
  <2> DEFINE p == of[pass.job]
  <2>1. /\ pass.job # NoJob /\ UNCHANGED <<log, of>>
        /\ UNCHANGED rows \/ rows' = [rows EXCEPT ![p.schedule] =
                                        IF @.exists THEN AfterDispatch(@, p) ELSE @]
    BY <1>4 DEF Advance, vars
  <2>2. p \in Occurrence /\ Taken(p) /\ p.schedule \in Schedules /\ p.at \in Times
    BY <2>1 DEF PlanInv, PassInv, Occurrence
  <2>3. p.schedule = s /\ rows[s].exists =>
            /\ AfterDispatch(rows[s], p).first = rows[s].first
            /\ s \in Recurring => AfterDispatch(rows[s], p).next = p.at + 1
            /\ s \notin Recurring => AfterDispatch(rows[s], p).next = NoTime
    BY <2>1, Advanced
  <2> HIDE DEF p
  <2>4. CASE p.schedule # s \/ ~rows[s].exists \/ UNCHANGED rows
    <3>1. rows'[s] = rows[s]
      BY <2>1, <2>2, <2>4 DEF DaemonTypeOK
    <3>2. QED BY <1>1, <3>1
  <2>5. CASE p.schedule = s /\ rows[s].exists /\ ~UNCHANGED rows
    <3>1. rows'[s] = AfterDispatch(rows[s], p)
      BY <2>1, <2>2, <2>5 DEF DaemonTypeOK
    <3>2. rows[s].next = p.at /\ Named(s)
      BY <2>2, <2>5 DEF Taken, PlanInv, RowInv
    <3>3. p.at \in Int /\ p.at # NoTime /\ p.at + 1 # NoTime
      BY <2>2, TimeFacts, DaemonBoundsAssumption DEF Times, NoTime
    <3>4. CASE s \in Recurring
      <4>1. rows[s].first <= o.at /\ o.at < p.at + 1
        BY <2>3, <2>5, <3>1, <3>3, <3>4 DEF Passed
      <4>2. o.at < p.at => o \in Passed(s)
        BY <1>o, <3>2, <3>3, <4>1 DEF Passed, Named
      <4>3. o.at = p.at => o = p
        BY <1>o, <2>2, <2>5 DEF Occurrence
      <4>4. QED BY <1>o, <2>1, <3>3, <4>1, <4>2, <4>3 DEF p
    <3>5. CASE s \notin Recurring
      <4>1. o.at = rows[s].first
        BY <2>3, <2>5, <3>1, <3>5 DEF Passed
      <4>2. rows[s].first = p.at
        BY <3>2, <3>3, <3>5 DEF PlanInv, RowInv
      <4>3. o = p
        BY <1>o, <2>2, <2>5, <4>1, <4>2 DEF Occurrence
      <4>4. QED BY <2>1, <4>3 DEF p
    <3>6. QED BY <3>4, <3>5
  <2>6. QED BY <2>4, <2>5
<1>5. CASE UNCHANGED rows
  BY <1>1, <1>5
<1>6. QED
  BY <1>2, <1>3, <1>4, <1>5
  DEF DaemonNext, Step, Scheduler, Execution, Tick, Submit, ReadDue, Enqueue, SpawnCreated,
      Begin, End, Reconcile, Die, Restart, allVars, daemonVars

\* A pass has a job in hand only when its line was written.
LEMMA HeldRecorded ==
    ASSUME DaemonInv, [DaemonNext]_allVars, pass'.job # NoJob,
           ~log'.corrupt, pass.job # NoJob => log.jobs[pass.job] # "absent"
    PROVE  log'.jobs[pass'.job] # "absent"
<1>t. DaemonTypeOK /\ HandsInv /\ TypeOK
  BY DEF DaemonInv, DaemonTypeOK
<1>1. CASE pass'.job = pass.job
  BY <1>t, <1>1, StepKnown, PassFacts
<1>2. ASSUME NEW o \in pass.due, Enqueue(o) PROVE log'.jobs[pass'.job] # "absent"
  <2> DEFINE i == Fresh
             e == [kind |-> "JobQueued", job |-> i]
  <2>1. i \in Jobs /\ Create(i) /\ (~Moved(i) => pass' = Idle) /\ (Moved(i) => pass'.job = i)
    BY <1>t, <1>2, EnqueuePass
  <2> HIDE DEF i
  <2>2. Moved(i) /\ pass'.job = i
    BY <2>1, IdleIsPass
  <2>3. Appended(e) /\ log.jobs[i] = "absent" /\ log \in Log /\ e \in Event
    BY <1>t, <2>1, <2>2, CreateEffect DEF TypeOK, Event, Kinds
  <2>4. log' = Applied(log, e)
    BY <2>3, <1>t DEF Appended, Terminated, TypeOK, Log
  <2>5. log.jobs[e.job] \in AllowedFrom[e.kind] /\ LeadsTo[e.kind] = "queued"
    BY <2>3 DEF AllowedFrom, LeadsTo
  <2>6. log'.jobs = [log.jobs EXCEPT ![i] = "queued"]
    BY <2>3, <2>4, <2>5, AppliedLegal
  <2>7. QED BY <2>1, <2>2, <2>3, <2>6 DEF Log
<1>3. CASE pass'.job = NoJob
  BY <1>3
<1>4. (\E o \in pass.due : Enqueue(o)) \/ pass'.job = pass.job \/ pass'.job = NoJob
  <2>1. ASSUME Advance PROVE pass'.job = NoJob
    BY <1>t, <2>1, IdleIsPass DEF Advance, DaemonTypeOK, Pass
  <2>2. ASSUME NEW t, NEW r, Lives(t, pass, r) PROVE pass' = pass \/ pass' = Idle
    BY <2>2 DEF Lives
  <2>3. ASSUME Submit \/ Die \/ Restart \/ \E j \in Jobs : Execution(j) \/ Reconcile(j)
        PROVE  pass' = pass \/ pass' = Idle
    BY <2>2, <2>3 DEF Submit, Die, Restart, Execution, Begin, End, Reconcile
  <2>4. ASSUME \/ Tick \/ UNCHANGED allVars
               \/ \E s \in Schedules : \E at \in 0..MaxTime : CreateSchedule(s, at)
               \/ \E s \in Managed : DeleteSchedule(s) \/ \E on \in BOOLEAN : SetEnabled(s, on)
        PROVE  pass' = pass
    BY <2>4 DEF Tick, CreateSchedule, SetEnabled, DeleteSchedule, WriteRow, process, allVars,
                daemonVars
  <2>5. ASSUME ReadDue \/ SpawnCreated PROVE pass'.job = NoJob
    BY <2>5, IdleIsPass DEF ReadDue, SpawnCreated, Idle
  <2>6. QED BY <2>1, <2>3, <2>4, <2>5, IdleIsPass DEF DaemonNext, Step, Scheduler
<1>5. QED BY <1>1, <1>2, <1>3, <1>4

LEMMA RecordNext == DaemonInv /\ RecordInv /\ [DaemonNext]_allVars => RecordInv'
<1> SUFFICES ASSUME DaemonInv, RecordInv, [DaemonNext]_allVars, ~log'.corrupt PROVE RecordInv'
  BY DEF RecordInv
<1>t. DaemonTypeOK /\ PlanInv
  BY DEF DaemonInv
<1>1. \A j \in Jobs : log.jobs[j] # "absent" => log'.jobs[j] # "absent" /\ of'[j] = of[j]
  BY <1>t, StepKnown
<1>2. /\ \A s \in Schedules : \A o \in Passed(s) : InLog(o)
      /\ pass.job # NoJob => log.jobs[pass.job] # "absent"
  BY <1>t, StepKnown DEF RecordInv
<1>3. ASSUME NEW s \in Schedules, NEW o \in Passed(s)' PROVE InLog(o)'
  <2>1. o \in Passed(s) \/ (pass.job # NoJob /\ of[pass.job] = o /\ UNCHANGED <<log, of>>)
    BY <1>t, PassedNext
  <2>2. CASE o \in Passed(s)
    <3>1. PICK j \in Jobs : of[j] = o /\ log.jobs[j] # "absent"
      BY <1>2, <2>2 DEF InLog
    <3>2. QED BY <1>1, <3>1 DEF InLog
  <2>3. CASE pass.job # NoJob /\ of[pass.job] = o /\ UNCHANGED <<log, of>>
    BY <1>t, <1>2, <2>3, PassFacts DEF InLog
  <2>4. QED BY <2>1, <2>2, <2>3
<1>4. pass'.job # NoJob => log'.jobs[pass'.job] # "absent"
  BY <1>2, HeldRecorded
<1>5. QED BY <1>3, <1>4 DEF RecordInv

(* An occurrence that a row has left behind has a job in the log, so it is *)
(* not lost, whenever the daemon dies and whatever write fails.            *)
THEOREM PassedRecorded == DaemonSpec => []PassedIsRecorded
<1>1. DaemonInit => DaemonInv /\ RecordInv
  <2>1. ASSUME DaemonInit PROVE RecordInv
    <3>1. \A s \in Schedules : rows[s].first = NoTime
      BY <2>1 DEF DaemonInit, NoRow
    <3>2. pass.job = NoJob
      BY <2>1, IdleIsPass DEF DaemonInit
    <3>3. QED BY <3>1, <3>2 DEF RecordInv, Passed
  <2>2. QED BY <2>1, DaemonInvInit
<1>2. DaemonInv /\ RecordInv /\ [DaemonNext]_<<vars, daemonVars>> => DaemonInv' /\ RecordInv'
  BY DaemonInvNext, RecordNext DEF allVars
<1>3. DaemonInv /\ RecordInv => PassedIsRecorded
  <2> SUFFICES ASSUME DaemonInv, RecordInv, Readable("RecoverCrashTail"),
                      NEW s \in Schedules, NEW o \in Passed(s)
               PROVE  Recorded(o) # {}
    BY DEF PassedIsRecorded
  <2>1. PICK j \in Jobs : of[j] = o /\ log.jobs[j] # "absent"
    BY DEF RecordInv, Readable, InLog
  <2>2. Replayed.jobs[j] # "absent"
    BY <2>1, TailIsEvent, AppliedKnown DEF Replayed, DaemonInv, DaemonTypeOK, TypeOK
  <2>3. QED BY <2>1, <2>2 DEF Recorded
<1>4. QED BY <1>1, <1>2, <1>3, PTL DEF DaemonSpec

-----------------------------------------------------------------------------
(* What a further job of an occurrence costs *)

\* A pass may still create a job for the occurrence.
StillDue(o) ==
    \/ o \in pass.due
    \/ /\ ~Held(o)
       /\ \/ rows[o.schedule] = NoRow
          \/ /\ rows[o.schedule].exists
             /\ rows[o.schedule].next # NoTime
             /\ rows[o.schedule].next <= o.at

\* The first job of an occurrence is free, and every other one was paid for before
\* its occurrence was due again.
Balanced(o) ==
    /\ IsFiniteSet(Recorded(o))
    /\ Cardinality(Recorded(o)) <= Faults + 1
    /\ StillDue(o) => Cardinality(Recorded(o)) <= Faults

CostInv == \A o \in Occurrence : Balanced(o)

LEMMA FaultsType == DaemonTypeOK => Faults \in Nat
<1> SUFFICES ASSUME DaemonTypeOK PROVE Faults \in Nat
  OBVIOUS
<1>1. failed \in Nat /\ torn \in Nat
  BY BoundsAssumption DEF DaemonTypeOK, TypeOK
<1>2. crashes \in Nat /\ dbFailed \in Nat
  BY DEF DaemonTypeOK
<1>3. QED BY <1>1, <1>2 DEF Faults

LEMMA OneMore ==
    ASSUME NEW S, NEW T, NEW x, IsFiniteSet(S), T \subseteq S \cup {x}
    PROVE  /\ IsFiniteSet(T) /\ Cardinality(T) \in Nat /\ Cardinality(S) \in Nat
           /\ Cardinality(T) <= Cardinality(S) + 1
<1>1. /\ IsFiniteSet(S \cup {x}) /\ Cardinality(S) \in Nat
      /\ Cardinality(S \cup {x}) = Cardinality(S) \/ Cardinality(S \cup {x}) = Cardinality(S) + 1
  BY FS_AddElement, FS_CardinalityType
<1>2. IsFiniteSet(T) /\ Cardinality(T) <= Cardinality(S \cup {x}) /\ Cardinality(T) \in Nat
  BY <1>1, FS_Subset, FS_CardinalityType
<1>3. QED BY <1>1, <1>2

(* The accounts of an occurrence, for a step that records no job of it and *)
(* for one that may record one.                                            *)
LEMMA NothingNew ==
    ASSUME DaemonTypeOK, NEW o, Balanced(o), Recorded(o)' \subseteq Recorded(o),
           \/ Faults' = Faults + 1
           \/ Faults' = Faults /\ (StillDue(o)' => StillDue(o))
    PROVE  Balanced(o)'
<1>1. IsFiniteSet(Recorded(o)') /\ Cardinality(Recorded(o)') <= Cardinality(Recorded(o))
      /\ Cardinality(Recorded(o)) \in Nat /\ Cardinality(Recorded(o)') \in Nat
  BY FS_Subset, FS_CardinalityType DEF Balanced
<1>2. Faults \in Nat
  BY FaultsType
<1>3. QED BY <1>1, <1>2 DEF Balanced

LEMMA OneNew ==
    ASSUME DaemonTypeOK, NEW o, Balanced(o), StillDue(o), NEW x,
           Recorded(o)' \subseteq Recorded(o) \cup {x},
           Faults' = Faults + 1 \/ (Faults' = Faults /\ ~StillDue(o)')
    PROVE  Balanced(o)'
<1>1. IsFiniteSet(Recorded(o)') /\ Cardinality(Recorded(o)') <= Cardinality(Recorded(o)) + 1
      /\ Cardinality(Recorded(o)) \in Nat /\ Cardinality(Recorded(o)') \in Nat
  BY OneMore DEF Balanced
<1>2. Faults \in Nat
  BY FaultsType
<1>3. QED BY <1>1, <1>2 DEF Balanced

LEMMA OneFault ==
    ASSUME failed \in Nat, torn \in Nat, failed' \in Nat, torn' \in Nat,
           crashes \in Nat, dbFailed \in Nat, UNCHANGED <<crashes, dbFailed>>,
           failed' + torn' = failed + torn + 1
    PROVE  Faults' = Faults + 1
<1> DEFINE f == failed'
           t == torn'
<1>1. f \in Nat /\ t \in Nat /\ f + t = failed + torn + 1
  OBVIOUS
<1>2. Faults' = f + t + crashes + dbFailed
  BY DEF Faults
<1> HIDE DEF f, t
<1>3. f + t + crashes + dbFailed = failed + torn + crashes + dbFailed + 1
  BY <1>1
<1>4. QED BY <1>2, <1>3 DEF Faults

\* Whether a call is answered or not shows in the number of faults.
LEMMA CallFaults ==
    ASSUME DaemonTypeOK, NEW i \in Jobs,
           Create(i) \/ Start(i) \/ Complete(i) \/ Fail(i), UNCHANGED budgets
    PROVE  /\ Moved(i) => Faults' = Faults /\ up'
           /\ ~Moved(i) => Faults' = Faults + 1
<1>1. TypeOK
  BY DEF DaemonTypeOK
<1>2. /\ up
      /\ Moved(i) => UNCHANGED <<up, failed, torn>>
      /\ ~Moved(i) => failed' + torn' = failed + torn + 1
  BY <1>1, CreateEffect, StartEffect, EndEffect
<1>3. failed \in Nat /\ torn \in Nat /\ failed' \in Nat /\ torn' \in Nat
      /\ crashes \in Nat /\ dbFailed \in Nat
  <2>1. TypeOK'
    BY <1>1, TypeNext DEF Next
  <2>2. QED BY <1>1, <2>1, BoundsAssumption DEF DaemonTypeOK, TypeOK
<1>4. UNCHANGED <<crashes, dbFailed>>
  BY DEF budgets
<1>5. ASSUME Moved(i) PROVE Faults' = Faults /\ up'
  BY <1>2, <1>4, <1>5 DEF Faults
<1>6. ASSUME ~Moved(i) PROVE Faults' = Faults + 1
  BY <1>2, <1>3, <1>4, <1>6, OneFault
<1>7. QED BY <1>5, <1>6

LEMMA CallRecords ==
    ASSUME DaemonTypeOK, NEW i \in Jobs, Create(i) \/ Start(i) \/ Complete(i) \/ Fail(i),
           NEW j \in Jobs, Replayed'.jobs[j] # "absent", Replayed.jobs[j] = "absent"
    PROVE  j = i /\ Create(i)
BY CallIsLogged, LoggedReplay DEF DaemonTypeOK

\* A call that creates nothing.
LEMMA OldRecords ==
    ASSUME DaemonTypeOK, NEW i \in Jobs, Start(i) \/ Complete(i) \/ Fail(i), UNCHANGED of, NEW o
    PROVE  Recorded(o)' \subseteq Recorded(o)
<1>1. ~Create(i)
  BY DEF Create, Unused, Start, Complete, Fail
<1>2. QED BY <1>1, CallRecords DEF Recorded

\* A job that is created for p is recorded for no other occurrence.
LEMMA NewRecords ==
    ASSUME DaemonTypeOK, NEW i \in Jobs, Create(i), NEW p, of' = [of EXCEPT ![i] = p], NEW o
    PROVE  /\ Recorded(o)' \subseteq Recorded(o) \cup {i}
           /\ o # p => Recorded(o)' \subseteq Recorded(o)
<1>1. Replayed.jobs[i] = "absent"
  BY UnusedUnknown DEF Create, DaemonTypeOK
<1>2. of'[i] = p /\ \A j \in Jobs : j # i => of'[j] = of[j]
  BY DEF DaemonTypeOK
<1>3. QED BY <1>1, <1>2, CallRecords DEF Recorded

LEMMA CostSubmit == ASSUME DaemonInv, CostInv, Submit PROVE CostInv'
<1>t. DaemonTypeOK /\ HandsInv /\ PlanInv
  BY DEF DaemonInv
<1>1. /\ Fresh \in Jobs /\ Create(Fresh) /\ Fresh # pass.job
      /\ UNCHANGED <<now, rows, ran, off, budgets>> /\ of' = [of EXCEPT ![Fresh] = NoOccurrence]
      /\ pass' = IF up' THEN pass ELSE Idle
  BY <1>t, FreshIsFree DEF Submit, Lives
<1> SUFFICES ASSUME NEW o \in Occurrence PROVE Balanced(o)'
  BY DEF CostInv
<1>2. Recorded(o)' \subseteq Recorded(o)
  BY <1>1, <1>t, NewRecords, OccurrenceAssumption
<1>3. up' => (StillDue(o)' => StillDue(o))
  <2>1. pass.job # NoJob => of'[pass.job] = of[pass.job]
    BY <1>1, <1>t, PassFacts DEF DaemonTypeOK
  <2>2. QED BY <1>1, <2>1 DEF StillDue, Held
<1>4. Faults' = Faults + 1 \/ (Faults' = Faults /\ up')
  BY <1>1, <1>t, CallFaults
<1>5. QED BY <1>t, <1>2, <1>3, <1>4, NothingNew DEF CostInv

LEMMA CostEnqueue == ASSUME DaemonInv, CostInv, NEW p \in pass.due, Enqueue(p) PROVE CostInv'
<1>t. DaemonTypeOK /\ HandsInv /\ PlanInv
  BY DEF DaemonInv
<1>1. /\ Fresh \in Jobs /\ Create(Fresh) /\ pass.job = NoJob
      /\ UNCHANGED <<rows, budgets>> /\ of' = [of EXCEPT ![Fresh] = p] /\ of'[Fresh] = p
      /\ Moved(Fresh) => pass'.due = pass.due \ {p} /\ pass'.job = Fresh
  BY <1>t, EnqueuePass DEF budgets
<1>2. Faults' = Faults + 1 \/ (Faults' = Faults /\ Moved(Fresh))
  BY <1>1, <1>t, CallFaults
<1> SUFFICES ASSUME NEW o \in Occurrence PROVE Balanced(o)'
  BY DEF CostInv
<1>3. CASE o = p
  <2>1. Moved(Fresh) => ~StillDue(o)'
    BY <1>1, <1>3, JobsAssumption DEF StillDue, Held
  <2>2. StillDue(o)
    BY <1>3 DEF StillDue
  <2>3. QED BY <1>t, <1>1, <1>2, <2>1, <2>2, NewRecords, OneNew DEF CostInv
<1>4. CASE o # p
  <2>1. Moved(Fresh) => (StillDue(o)' => StillDue(o))
    BY <1>1, <1>4 DEF StillDue, Held
  <2>2. QED BY <1>t, <1>1, <1>2, <1>4, <2>1, NewRecords, NothingNew DEF CostInv
<1>5. QED BY <1>3, <1>4

LEMMA CostAdvance == ASSUME DaemonInv, CostInv, Advance PROVE CostInv'
<1>t. DaemonTypeOK /\ HandsInv /\ PlanInv
  BY DEF DaemonInv
<1> DEFINE p == of[pass.job]
<1>1. UNCHANGED <<vars, of, crashes>> /\ pass.job # NoJob
  BY DEF Advance
<1> SUFFICES ASSUME NEW o \in Occurrence PROVE Balanced(o)'
  BY DEF CostInv
<1>2. Recorded(o)' = Recorded(o)
  BY <1>1 DEF Recorded, Replayed, vars
<1>3. CASE dbFailed' = dbFailed + 1
  <2>1. Faults' = Faults + 1
    BY <1>1, <1>3, <1>t, BoundsAssumption DEF Faults, vars, DaemonTypeOK, TypeOK
  <2>2. QED BY <1>t, <1>2, <2>1, NothingNew DEF CostInv
<1>4. CASE /\ rows' = [rows EXCEPT ![p.schedule] = IF @.exists THEN AfterDispatch(@, p) ELSE @]
           /\ pass' = [pass EXCEPT !.job = NoJob, !.created = @ \cup {pass.job}]
           /\ UNCHANGED dbFailed
  <2>1. Faults' = Faults
    BY <1>1, <1>4 DEF Faults, vars
  <2>2. pass'.due = pass.due /\ pass'.job = NoJob
    BY <1>4, <1>t DEF DaemonTypeOK, Pass
  <2>3. p \in Occurrence \ pass.due /\ Taken(p) /\ p.schedule \in Schedules /\ p.at \in Times
    BY <1>1, <1>t DEF PlanInv, PassInv, Occurrence
  <2>4. rows[p.schedule].exists =>
            LET row == AfterDispatch(rows[p.schedule], p) IN
            /\ row.exists
            /\ p.schedule \in Recurring => row.next = p.at + 1
            /\ p.schedule \notin Recurring => row.next = NoTime
    BY <1>1, <1>t, Advanced
  <2> HIDE DEF p
  <2>5. rows' = [rows EXCEPT ![p.schedule] =
                   IF rows[p.schedule].exists THEN AfterDispatch(rows[p.schedule], p)
                   ELSE rows[p.schedule]]
    BY <1>4
  <2>6. o.schedule \in Schedules /\ o.at \in Int /\ p.at \in Int /\ p.at # NoTime
    BY <2>3, TimeFacts DEF Occurrence
  <2>7. StillDue(o)' => StillDue(o)
    <3> SUFFICES ASSUME StillDue(o)', o \notin pass.due PROVE StillDue(o)
      BY DEF StillDue
    <3>1. \/ rows'[o.schedule] = NoRow
          \/ /\ rows'[o.schedule].exists
             /\ rows'[o.schedule].next # NoTime
             /\ rows'[o.schedule].next <= o.at
      BY <2>2 DEF StillDue
    <3>2. CASE o.schedule # p.schedule
      <4>1. rows'[o.schedule] = rows[o.schedule] /\ ~Held(o)
        BY <1>t, <2>5, <2>6, <3>2 DEF DaemonTypeOK, Held, p
      <4>2. QED BY <3>1, <4>1 DEF StillDue
    <3>3. CASE o.schedule = p.schedule /\ ~rows[p.schedule].exists
      <4>1. rows'[o.schedule] = rows[o.schedule] /\ rows[o.schedule].next = p.at
        BY <1>t, <2>3, <2>5, <3>3 DEF DaemonTypeOK, Taken
      <4>2. QED BY <2>6, <3>1, <3>3, <4>1 DEF NoRow
    <3>4. CASE o.schedule = p.schedule /\ rows[p.schedule].exists
      <4>1. rows'[o.schedule] = AfterDispatch(rows[p.schedule], p)
        BY <1>t, <2>3, <2>5, <3>4 DEF DaemonTypeOK
      <4>2. p.at + 1 <= o.at
        BY <2>4, <3>1, <3>4, <4>1 DEF NoRow
      <4>3. o # p /\ p.at <= o.at /\ rows[o.schedule].next = p.at
        BY <2>3, <2>6, <3>4, <4>2 DEF Taken
      <4>4. QED BY <2>6, <3>4, <4>3 DEF StillDue, Held, p
    <3>5. QED BY <3>2, <3>3, <3>4
  <2>8. QED BY <1>t, <1>2, <2>1, <2>7, NothingNew DEF CostInv
<1>5. QED BY <1>3, <1>4 DEF Advance

LEMMA CostQuiet ==
    ASSUME DaemonTypeOK, CostInv, UNCHANGED <<log, tail, of>>,
           \/ Faults' = Faults + 1
           \/ Faults' = Faults /\ \A o \in Occurrence : StillDue(o)' => StillDue(o)
    PROVE  CostInv'
<1> SUFFICES ASSUME NEW o \in Occurrence PROVE Balanced(o)'
  BY DEF CostInv
<1>1. Recorded(o)' = Recorded(o)
  BY DEF Recorded, Replayed
<1>2. QED BY <1>1, NothingNew DEF CostInv

LEMMA CostNext == DaemonInv /\ CostInv /\ [DaemonNext]_allVars => CostInv'
<1> SUFFICES ASSUME DaemonInv, CostInv, [DaemonNext]_allVars PROVE CostInv'
  OBVIOUS
<1>t. DaemonTypeOK /\ HandsInv /\ PlanInv
  BY DEF DaemonInv
<1>1. ASSUME NEW i \in Jobs, Begin(i) \/ End(i) \/ Reconcile(i) PROVE CostInv'
  <2>1. /\ Start(i) \/ Complete(i) \/ Fail(i)
        /\ UNCHANGED <<rows, of, budgets>>
        /\ pass' = IF up' THEN pass ELSE Idle
    BY <1>1 DEF Begin, End, Reconcile, Lives
  <2> SUFFICES ASSUME NEW o \in Occurrence PROVE Balanced(o)'
    BY DEF CostInv
  <2>2. Recorded(o)' \subseteq Recorded(o)
    BY <1>t, <2>1, OldRecords
  <2>3. up' => (StillDue(o)' => StillDue(o))
    BY <2>1 DEF StillDue, Held
  <2>4. Faults' = Faults + 1 \/ (Faults' = Faults /\ up')
    BY <1>t, <2>1, CallFaults
  <2>5. QED BY <1>t, <2>2, <2>3, <2>4, NothingNew DEF CostInv
<1>2. ASSUME UNCHANGED <<rows, pass, of>> PROVE \A o : StillDue(o)' => StillDue(o)
  BY <1>2 DEF StillDue, Held
<1>3. CASE Tick \/ UNCHANGED allVars
  <2>1. UNCHANGED <<rows, pass, of, log, tail>> /\ Faults' = Faults
    BY <1>3 DEF Tick, vars, process, budgets, allVars, daemonVars, Faults
  <2>2. QED BY <1>t, <1>2, <2>1, CostQuiet
<1>4. ASSUME NEW s \in Schedules, NEW row, WriteRow(s, row),
             \/ rows[s] = NoRow
             \/ row.exists => rows[s].exists /\ row.next = rows[s].next
             , row # NoRow
      PROVE  CostInv'
  <2>1. UNCHANGED <<pass, of, log, tail>> /\ Faults' = Faults /\ rows' = [rows EXCEPT ![s] = row]
    BY <1>4 DEF WriteRow, vars, process, budgets, Faults
  <2>2. ASSUME NEW o \in Occurrence, StillDue(o)' PROVE StillDue(o)
    <3>1. o.schedule \in Schedules
      BY DEF Occurrence
    <3>2. o.schedule # s => rows'[o.schedule] = rows[o.schedule]
      BY <1>t, <2>1, <3>1 DEF DaemonTypeOK
    <3>3. o.schedule = s => rows'[o.schedule] = row
      BY <1>t, <2>1, <3>1 DEF DaemonTypeOK
    <3>4. QED BY <1>4, <2>1, <2>2, <3>2, <3>3 DEF StillDue, Held
  <2>3. QED BY <1>t, <2>1, <2>2, CostQuiet
<1>5. ASSUME NEW s \in Schedules, NEW at \in 0..MaxTime, CreateSchedule(s, at) PROVE CostInv'
  <2> DEFINE row == [exists |-> TRUE, next |-> at, enabled |-> TRUE, first |-> at]
  <2>1. WriteRow(s, row) /\ rows[s] = NoRow
    BY <1>5 DEF CreateSchedule
  <2>2. row # NoRow
    BY DEF NoRow
  <2>3. QED BY <1>4, <2>1, <2>2
<1>6. ASSUME NEW s \in Managed, DeleteSchedule(s) \/ \E on \in BOOLEAN : SetEnabled(s, on)
      PROVE  CostInv'
  <2>1. s \in Schedules /\ rows[s] \in Row /\ rows[s].exists
    BY <1>6, RowFacts, <1>t, SchedulesAssumption DEF DeleteSchedule, SetEnabled
  <2>2. rows[s].first # NoTime
    BY <1>t, <2>1 DEF PlanInv, RowInv, Named
  <2>3. ASSUME NEW row, row = [rows[s] EXCEPT !.exists = FALSE]
                         \/ \E on \in BOOLEAN : row = [rows[s] EXCEPT !.enabled = on]
        PROVE  row # NoRow /\ row.next = rows[s].next
    BY <2>1, <2>2, <2>3 DEF Row, NoRow
  <2>4. PICK row : /\ WriteRow(s, row)
                   /\ \/ row = [rows[s] EXCEPT !.exists = FALSE]
                      \/ \E on \in BOOLEAN : row = [rows[s] EXCEPT !.enabled = on]
    BY <1>6 DEF DeleteSchedule, SetEnabled
  <2>5. QED BY <1>4, <2>1, <2>3, <2>4
<1>7. CASE ReadDue
  <2>1. UNCHANGED <<rows, of, log, tail>> /\ Faults' = Faults /\ pass = Idle
        /\ pass'.due = Due /\ pass'.job = NoJob
    BY <1>7 DEF ReadDue, vars, budgets, Faults, Idle
  <2>2. ASSUME NEW o \in Occurrence, StillDue(o)' PROVE StillDue(o)
    <3>1. o \in Due => rows[o.schedule].exists /\ rows[o.schedule].next = o.at
      BY DueFacts DEF Taken
    <3>2. o.at # NoTime /\ o.at \in Int
      BY TimeFacts DEF Occurrence
    <3>3. ~Held(o)
      BY <2>1, IdleIsPass DEF Held
    <3>4. QED BY <2>1, <2>2, <3>1, <3>2, <3>3 DEF StillDue
  <2>3. QED BY <1>t, <2>1, <2>2, CostQuiet
<1>8. CASE SpawnCreated
  <2>1. UNCHANGED <<rows, of, log, tail>> /\ Faults' = Faults
        /\ pass.job = NoJob /\ pass.due = {} /\ pass'.due = {} /\ pass'.job = NoJob
    BY <1>8, IdleIsPass DEF SpawnCreated, vars, budgets, Faults
  <2>2. \A o : StillDue(o)' => StillDue(o)
    BY <2>1 DEF StillDue, Held
  <2>3. QED BY <1>t, <2>1, <2>2, CostQuiet
<1>9. CASE Die
  <2>1. UNCHANGED <<of, log, tail, failed, torn, dbFailed>> /\ crashes' = crashes + 1
    BY <1>9 DEF Die, Crash
  <2>2. Faults' = Faults + 1
    BY <2>1, <1>t, BoundsAssumption DEF Faults, DaemonTypeOK, TypeOK
  <2>3. QED BY <1>t, <2>1, <2>2, CostQuiet
<1>10. CASE Restart
  <2>1. UNCHANGED <<rows, of, log, tail, failed, torn, budgets>> /\ ~up /\ up'
    BY <1>10 DEF Restart, Recover
  <2>2. pass' = pass /\ Faults' = Faults
    BY <1>10, <2>1 DEF Restart, Lives, Faults, budgets
  <2>3. QED BY <1>t, <1>2, <2>1, <2>2, CostQuiet
<1>11. QED
  BY <1>1, <1>3, <1>5, <1>6, <1>7, <1>8, <1>9, <1>10, CostSubmit, CostEnqueue, CostAdvance
  DEF DaemonNext, Step, Scheduler, Execution

(* Every job of an occurrence after the first one costs a crash or a       *)
(* failed write.                                                           *)
THEOREM ExtraJobsCost == DaemonSpec => []ExtraJobsCostFaults
<1>1. DaemonInit => DaemonInv /\ CostInv
  <2>1. ASSUME DaemonInit, NEW o \in Occurrence PROVE Balanced(o)
    <3>1. Recorded(o) = {}
      <4>1. Replayed = log /\ log.jobs = [j \in Jobs |-> "absent"]
        BY <2>1, NoTailIsNoEvent DEF DaemonInit, Init, Replayed
      <4>2. QED BY <4>1 DEF Recorded
    <3>2. Faults \in Nat
      BY <2>1, DaemonInvInit, FaultsType DEF DaemonInv
    <3>3. QED BY <3>1, <3>2, FS_EmptySet DEF Balanced
  <2>2. QED BY <2>1, DaemonInvInit DEF CostInv
<1>2. DaemonInv /\ CostInv /\ [DaemonNext]_<<vars, daemonVars>> => DaemonInv' /\ CostInv'
  BY DaemonInvNext, CostNext DEF allVars
<1>3. DaemonInv /\ CostInv => ExtraJobsCostFaults
  <2> SUFFICES ASSUME DaemonInv, CostInv, NEW o \in Occurrence
               PROVE  Cardinality(Recorded(o)) <= 1 + Faults
    BY DEF ExtraJobsCostFaults
  <2>1. Cardinality(Recorded(o)) \in Nat /\ Cardinality(Recorded(o)) <= Faults + 1 /\ Faults \in Nat
    BY FS_CardinalityType, FaultsType DEF CostInv, Balanced, DaemonInv
  <2>2. QED BY <2>1
<1>4. QED BY <1>1, <1>2, <1>3, PTL DEF DaemonSpec

=============================================================================
