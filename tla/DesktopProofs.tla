---------------------------- MODULE DesktopProofs ----------------------------
(***************************************************************************)
(* Theorems about two parts of the desktop that share nothing:             *)
(*                                                                         *)
(* GroupSession, for any launches, attempts, crashes and operations.  What *)
(* is delivered was completed, also when launches overlap.  Who runs the   *)
(* executor and who writes is proved for launches that do not overlap, and *)
(* up to the first view or resolution that meets one under way.            *)
(*                                                                         *)
(* MemorySync, for any processes, events, entities, slots and limits, and  *)
(* any number of troubles.                                                 *)
(***************************************************************************)
EXTENDS GroupSession, MemorySync, FiniteSetTheorems, TLAPS

(***************************************************************************)
(* GroupSession                                                            *)
(***************************************************************************)

(* The record: what is delivered was completed *)

\* A copy of the record shows a delivery only for an attempt that completed.
Earned(r) == r.status \in {"delivering", "delivered"} => r.attempt \in succeeded

TypeRecord ==
    /\ disk \in Record
    /\ delivery \in BOOLEAN
    /\ job \in [Callers -> Job]
    /\ active \in Callers \cup {None}
    /\ op \in Operation
    /\ view \in Record \cup {None}
    /\ crashes \in 0..MaxCrashes /\ operations \in 0..MaxOperations
    /\ {disputed, stranded} \subseteq BOOLEAN
    /\ succeeded \subseteq 1..MaxSessionAttempts

JobEarned(l) ==
    /\ job[l].at \in {"loaded", "readying"} => job[l].rec.attempt < MaxSessionAttempts
    /\ job[l].at \notin {"none", "loaded", "readying", "closing"} => job[l].rec.attempt >= 1
    /\ Earned(job[l].rec) /\ Earned(job[l].read)
    /\ job[l].at \in {"storing", "accepting"} => job[l].read.status = "delivering"

RecordInv ==
    /\ TypeRecord
    /\ Earned(disk) /\ Earned(op.read) /\ (view # None => Earned(view))
    /\ \A l \in Callers : JobEarned(l)
    /\ op.to \notin {"delivering", "delivered"}

LEMMA BoundsAreNat == MaxSessionAttempts \in Nat /\ MaxCrashes \in Nat /\ MaxOperations \in Nat
BY GroupBoundsAssumption

\* What every step of a launch leaves alone, or changes in its own job only.
LEMMA LaunchKeepsRecord ==
    ASSUME RecordInv, NEW l \in Callers, NEW j \in Job,
           job' = [job EXCEPT ![l] = j],
           disk' \in Record, delivery' \in BOOLEAN, active' \in Callers \cup {None},
           disputed' \in BOOLEAN, 
           UNCHANGED <<op, view, crashes, operations, stranded>>,
           succeeded \subseteq succeeded', succeeded' \subseteq 1..MaxSessionAttempts,
           Earned(disk)',
           JobEarned(l)'
    PROVE  RecordInv'
<1>1. TypeRecord'
  BY DEF RecordInv, TypeRecord
<1>2. \A m \in Callers : JobEarned(m)'
  <2> TAKE m \in Callers
  <2>1. CASE m = l
    BY <2>1
  <2>2. CASE m # l
    <3>1. job'[m] = job[m]
      BY <2>2 DEF RecordInv, TypeRecord
    <3>2. QED BY <3>1 DEF RecordInv, JobEarned, Earned
  <2>3. QED BY <2>1, <2>2
<1>3. QED BY <1>1, <1>2 DEF RecordInv, Earned

LEMMA NoJobTyped ==
    /\ NoJob.rec \in Record
    /\ NoJob \in Job /\ [NoJob EXCEPT !.at = "closing"] \in Job
    /\ NoJob.at = "none" /\ NoJob.rec = [status |-> "ready", attempt |-> 0]
    /\ NoJob.read = NoJob.rec
    /\ \A l \in Callers : job[l] \in {NoJob, [NoJob EXCEPT !.at = "closing"]} => JobEarned(l)
BY BoundsAreNat DEF NoJob, Job, JobPlaces, Record, Statuses, JobEarned, Earned

LEMMA RecordParts ==
    ASSUME RecordInv, NEW l \in Callers
    PROVE  /\ job \in [Callers -> Job] /\ job[l] \in Job /\ JobEarned(l)
           /\ job[l].rec \in Record /\ job[l].read \in Record
           /\ Earned(job[l].rec) /\ Earned(job[l].read)
           /\ disk \in Record /\ Earned(disk) /\ delivery \in BOOLEAN
           /\ active \in Callers \cup {None}
           /\ disputed \in BOOLEAN /\ succeeded \subseteq 1..MaxSessionAttempts
<1>1. job \in [Callers -> Job] /\ disk \in Record /\ delivery \in BOOLEAN
      /\ active \in Callers \cup {None}
      /\ disputed \in BOOLEAN /\ succeeded \subseteq 1..MaxSessionAttempts
  BY DEF RecordInv, TypeRecord
<1>2. JobEarned(l) /\ Earned(disk)
  BY DEF RecordInv
<1>3. job[l] \in Job
  BY <1>1
<1>4. job[l].rec \in Record /\ job[l].read \in Record
  BY <1>3 DEF Job
<1>5. Earned(job[l].rec) /\ Earned(job[l].read)
  BY <1>2 DEF JobEarned
<1> QED BY <1>1, <1>2, <1>3, <1>4, <1>5

\* The job of a launch that goes on to a place, and with another status.
AtPlace(j, place) == [j EXCEPT !.at = place]

WithStatus(j, s, place) == [j EXCEPT !.rec.status = s, !.at = place]

LEMMA JobAtPlace ==
    ASSUME NEW j \in Job, NEW place \in JobPlaces
    PROVE  /\ AtPlace(j, place) \in Job
           /\ AtPlace(j, place).at = place
           /\ AtPlace(j, place).rec = j.rec
           /\ AtPlace(j, place).read = j.read
BY DEF AtPlace, Job

LEMMA JobWithStatus ==
    ASSUME NEW j \in Job, NEW s \in Statuses, NEW place \in JobPlaces
    PROVE  /\ WithStatus(j, s, place) \in Job
           /\ WithStatus(j, s, place).at = place
           /\ WithStatus(j, s, place).rec.status = s
           /\ WithStatus(j, s, place).rec.attempt = j.rec.attempt
           /\ WithStatus(j, s, place).read = j.read
<1> DEFINE r == [j.rec EXCEPT !.status = s]
<1>1. r \in Record /\ r.status = s /\ r.attempt = j.rec.attempt
  BY DEF Job, Record
<1>2. WithStatus(j, s, place) = [j EXCEPT !.rec = r, !.at = place]
  BY DEF WithStatus
<1> HIDE DEF r
<1> QED BY <1>1, <1>2 DEF Job

LEMMA GoesTheJob ==
    ASSUME RecordInv, NEW l \in Callers, NEW place, JobGoes(l, place)
    PROVE  job' = [job EXCEPT ![l] = AtPlace(job[l], place)]
BY RecordParts DEF JobGoes, AtPlace

LEMMA SetsTheJob ==
    ASSUME RecordInv, NEW l \in Callers, NEW s, NEW place, Sets(l, s, place)
    PROVE  job' = [job EXCEPT ![l] = WithStatus(job[l], s, place)]
BY RecordParts DEF Sets, WithStatus

\* A launch that goes on in an attempt under way, and claims no delivery it did
\* not claim before.
LEMMA AttemptGoesOn ==
    ASSUME RecordInv, NEW l \in Callers, NEW j \in Job,
           job' = [job EXCEPT ![l] = j],
           job[l].at \notin {"none", "loaded", "readying", "closing"},
           j.at \notin {"loaded", "readying", "storing", "accepting"},
           j.read = job[l].read, j.rec.attempt = job[l].rec.attempt,
           j.rec.status \in {"delivering", "delivered"} => j.rec.status = job[l].rec.status,
           succeeded' = succeeded
    PROVE  JobEarned(l)'
<1>1. job'[l] = j
  BY RecordParts
<1>2. job[l].rec.attempt >= 1 /\ Earned(job[l].rec) /\ Earned(job[l].read)
  BY RecordParts DEF JobEarned
<1>3. Earned(job[l].rec)' /\ Earned(job[l].read)'
  BY ONLY <1>1, <1>2, j.read = job[l].read, j.rec.attempt = job[l].rec.attempt,
          j.rec.status \in {"delivering", "delivered"} => j.rec.status = job[l].rec.status,
          succeeded' = succeeded
     DEF Earned
<1> QED BY <1>1, <1>2, <1>3 DEF JobEarned

LEMMA LaunchIsOver ==
    ASSUME RecordInv, NEW l \in Callers,
           NEW j \in {NoJob, [NoJob EXCEPT !.at = "closing"]}, job' = [job EXCEPT ![l] = j]
    PROVE  j \in Job /\ JobEarned(l)'
<1>1. job'[l] = j /\ job' \in [Callers -> Job]
  BY RecordParts, NoJobTyped
<1>2. j.rec = NoJob.rec /\ j.read = NoJob.rec /\ j.at \in {"none", "closing"}
  BY NoJobTyped DEF NoJob
<1>3. Earned(job[l].rec)' /\ Earned(job[l].read)'
  BY <1>1, <1>2, NoJobTyped DEF Earned
<1> QED BY <1>1, <1>2, <1>3, NoJobTyped DEF JobEarned

\* A step of a launch that saves no more than the record of that launch.
LEMMA LaunchStep ==
    ASSUME RecordInv, NEW l \in Callers, NEW j \in Job,
           job' = [job EXCEPT ![l] = j], JobEarned(l)',
           disk' \in {disk, job[l].rec}, delivery' \in BOOLEAN, active' \in Callers \cup {None},
           UNCHANGED <<op, view, boundVars, historyVars>>
    PROVE  RecordInv'
<1>1. disk' \in Record /\ Earned(disk)
  BY RecordParts
<1>2. succeeded' = succeeded /\ disputed' = disputed /\ stranded' = stranded
      /\ crashes' = crashes /\ operations' = operations /\ op' = op /\ view' = view
  BY DEF historyVars, boundVars
<1>3. Earned(disk)'
  BY <1>2, RecordParts DEF Earned
<1> QED BY <1>1, <1>2, <1>3, RecordParts, LaunchKeepsRecord

LEMMA SessionAtRest ==
    ASSUME RecordInv, UNCHANGED sessionVars
    PROVE  RecordInv'
<1>1. UNCHANGED <<disk, delivery, job, active, op, view, crashes, operations, disputed,
                  stranded, succeeded>>
  BY DEF sessionVars, recordVars, boundVars, historyVars
<1>2. TypeRecord'
  BY <1>1 DEF RecordInv, TypeRecord
<1>3. \A l \in Callers : JobEarned(l)'
  BY <1>1 DEF RecordInv, JobEarned, Earned
<1> QED BY <1>1, <1>2, <1>3 DEF RecordInv, Earned

LEMMA LaunchingKeepsRecord ==
    ASSUME RecordInv, NEW l \in Callers, Launching(l)
    PROVE  RecordInv'
<1>0. /\ job \in [Callers -> Job] /\ job[l] \in Job /\ JobEarned(l)
      /\ job[l].rec \in Record /\ job[l].read \in Record /\ disk \in Record
      /\ active \in Callers \cup {None} /\ delivery \in BOOLEAN
      /\ disputed \in BOOLEAN /\ succeeded \subseteq 1..MaxSessionAttempts
      /\ Earned(job[l].rec) /\ Earned(job[l].read) /\ Earned(disk)
  BY RecordParts
<1>p. {"loaded", "readying", "beginning", "starting", "entering", "failing", "prompting"}
          \subseteq JobPlaces
      /\ {"ready", "starting", "failed", "running"} \subseteq Statuses
  BY DEF JobPlaces, Statuses
<1>1. CASE Launch(l)
  <2> DEFINE j == [at |-> IF disk.status = "ready" THEN "loaded" ELSE "readying",
                   rec |-> [disk EXCEPT !.status = "ready"], read |-> NoJob.read]
  <2>1. j \in Job
    BY <1>0, <1>p, NoJobTyped DEF Job, Record
  <2>2. job' = [job EXCEPT ![l] = j]
    BY <1>1, Zenon DEF Launch
  <2>3. disk.attempt < MaxSessionAttempts
    BY <1>1 DEF Launch, MayLaunch
  <2>4. job'[l] = j
    BY <1>0, <2>2
  <2>5. /\ j.at \in {"loaded", "readying"} /\ j.read = NoJob.rec
        /\ j.rec.status = "ready" /\ j.rec.attempt = disk.attempt
    BY <1>0, NoJobTyped DEF Record
  <2>6. JobEarned(l)'
    <3> HIDE DEF j
    <3>1. NoJob.rec.status = "ready"
      BY NoJobTyped
    <3> QED BY <2>3, <2>4, <2>5, <3>1 DEF JobEarned, Earned
  <2>7. /\ disputed' = (disputed \/ op.kind = "resolve" \/ view # None)
        /\ UNCHANGED <<disk, delivery, active, op, view, crashes, operations, stranded, succeeded>>
    BY <1>1 DEF Launch, recordVars, boundVars
  <2>8. disputed' \in BOOLEAN
    BY <1>0, <2>7
  <2>9. Earned(disk)'
    BY <1>0, <2>7 DEF Earned
  <2> HIDE DEF j
  <2> QED BY <1>0, <2>1, <2>2, <2>6, <2>7, <2>8, <2>9, LaunchKeepsRecord
<1>2. CASE Readied(l) \/ Begun(l)
  <2>1. PICK place \in {"loaded", "starting"} :
          /\ job' = [job EXCEPT ![l] = AtPlace(job[l], place)]
          /\ place = "loaded" => job[l].at = "readying"
          /\ place = "starting" => job[l].at = "beginning"
    BY <1>2, GoesTheJob DEF Readied, Begun, Saves, JobAt
  <2>2. /\ disk' = job[l].rec
        /\ UNCHANGED <<delivery, active, op, view, boundVars, historyVars>>
    BY <1>2 DEF Readied, Begun, Saves
  <2> DEFINE j == AtPlace(job[l], place)
  <2>p. place \in JobPlaces
    BY <1>p
  <2> HIDE DEF j
  <2>3. j \in Job /\ j.at = place /\ j.rec = job[l].rec /\ j.read = job[l].read
    BY <1>0, <2>p, JobAtPlace DEF j
  <2>4. job' = [job EXCEPT ![l] = j] /\ job'[l] = j
    BY <1>0, <2>1 DEF j
  <2>5. JobEarned(l)'
    <3>1. succeeded' = succeeded
      BY <2>2 DEF historyVars
    <3>2. Earned(job[l].rec)' /\ Earned(job[l].read)'
      BY <1>0, <2>3, <2>4, <3>1 DEF Earned
    <3>3. place = "loaded" => job[l].rec.attempt < MaxSessionAttempts
      BY <1>0, <2>1 DEF JobEarned
    <3>4. place = "starting" => job[l].rec.attempt >= 1
      BY <1>0, <2>1 DEF JobEarned
    <3> QED BY <2>1, <2>3, <2>4, <3>2, <3>3, <3>4 DEF JobEarned
  <2> QED BY <1>0, <2>2, <2>3, <2>4, <2>5, LaunchStep
<1>3. CASE Begin(l)
  <2> DEFINE j == [job[l] EXCEPT !.rec = [status |-> "starting", attempt |-> job[l].rec.attempt + 1],
                                 !.at = "beginning"]
  <2>1. job' = [job EXCEPT ![l] = j]
    BY <1>0, <1>3 DEF Begin
  <2>2. job[l].rec.attempt \in Nat /\ job[l].rec.attempt < MaxSessionAttempts
    BY <1>0, <1>3, BoundsAreNat DEF Begin, JobAt, JobEarned, Record
  <2>3. [status |-> "starting", attempt |-> job[l].rec.attempt + 1] \in Record
    BY <1>p, <2>2, BoundsAreNat DEF Record
  <2>4. /\ j \in Job /\ j.at = "beginning" /\ j.rec.status = "starting"
        /\ j.rec.attempt = job[l].rec.attempt + 1 /\ j.read = job[l].read
    BY <1>0, <1>p, <2>3 DEF Job
  <2> HIDE DEF j
  <2>5. job'[l] = j
    BY <1>0, <2>1
  <2>6. UNCHANGED <<recordVars, active, op, view, boundVars, historyVars>>
    BY <1>3 DEF Begin
  <2>7. Earned(job[l].rec)' /\ Earned(job[l].read)'
    BY <1>0, <2>4, <2>5, <2>6 DEF Earned, historyVars
  <2>8. JobEarned(l)'
    BY ONLY <2>2, <2>4, <2>5, <2>7 DEF JobEarned
  <2> QED BY <1>0, <2>1, <2>4, <2>6, <2>8, LaunchStep DEF recordVars
<1>4. CASE ExecutorStarted(l) \/ ExecutorBinding(l)
  <2>1. UNCHANGED sessionVars
    BY <1>4 DEF ExecutorStarted, ExecutorBinding, sessionVars, recordVars, historyVars
  <2> QED BY <2>1, SessionAtRest
<1>5. CASE Refused(l) \/ Enter(l)
  <2>1. PICK s \in {"failed", "running"}, place \in {"failing", "entering"} : Sets(l, s, place)
    BY <1>5 DEF Refused, Enter
  <2>2. /\ JobAt(l, "starting")
        /\ UNCHANGED <<recordVars, active, op, view, boundVars, historyVars>>
    BY <1>5 DEF Refused, Enter
  <2> DEFINE j == WithStatus(job[l], s, place)
  <2>p. s \in Statuses /\ place \in JobPlaces
    BY <1>p
  <2>3. /\ j \in Job /\ j.at = place /\ j.rec.status = s
        /\ j.rec.attempt = job[l].rec.attempt /\ j.read = job[l].read
    BY <1>0, <2>p, JobWithStatus
  <2>4. job' = [job EXCEPT ![l] = j]
    BY <2>1, SetsTheJob
  <2> HIDE DEF j
  <2>5. JobEarned(l)'
    BY <2>2, <2>3, <2>4, AttemptGoesOn DEF JobAt, historyVars
  <2> QED BY <1>0, <2>2, <2>3, <2>4, <2>5, LaunchStep DEF recordVars
<1>6. CASE StartFailed(l) \/ Entered(l)
  <2>1. /\ disk' = job[l].rec /\ active' \in {active, l}
        /\ UNCHANGED <<delivery, op, view, boundVars, historyVars>>
    BY <1>6 DEF StartFailed, Entered
  <2>2. CASE Ends(l)
    <3>1. job' = [job EXCEPT ![l] = NoJob]
      BY <2>2 DEF Ends
    <3> QED BY <1>0, <2>1, <3>1, LaunchIsOver, LaunchStep
  <2>3. CASE JobGoes(l, "prompting") /\ JobAt(l, "entering")
    <3> DEFINE j == AtPlace(job[l], "prompting")
    <3>1. j \in Job /\ j.at = "prompting" /\ j.rec = job[l].rec /\ j.read = job[l].read
      BY <1>0, <1>p, JobAtPlace
    <3>2. job' = [job EXCEPT ![l] = j]
      BY <2>3, GoesTheJob
    <3> HIDE DEF j
    <3>3. JobEarned(l)'
      BY <2>1, <2>3, <3>1, <3>2, AttemptGoesOn DEF JobAt, historyVars
    <3> QED BY <1>0, <2>1, <3>1, <3>2, <3>3, LaunchStep
  <2> QED BY <1>6, <2>2, <2>3 DEF StartFailed, Entered
<1> QED BY <1>1, <1>2, <1>3, <1>4, <1>5, <1>6 DEF Launching

\* An event of the prompt, for every status that it may report.
LEMMA EventKeepsRecord ==
    ASSUME RecordInv, NEW l \in Callers, JobAt(l, "prompting"),
           NEW s \in Statuses \ {"delivered"}, OnEvent(l, s),
           UNCHANGED <<disk, delivery, active, op, view, boundVars, disputed, stranded>>,
           succeeded' = IF s # "delivering" \/ job[l].rec.status \in EndedStatuses THEN succeeded
                        ELSE succeeded \cup {job[l].rec.attempt}
    PROVE  RecordInv'
<1> DEFINE t == IF job[l].rec.status \in EndedStatuses THEN job[l].rec.status ELSE s
           j == WithStatus(job[l], t, "applying")
<1>1. /\ job[l] \in Job /\ job[l].rec \in Record
      /\ Earned(job[l].rec) /\ Earned(job[l].read) /\ Earned(disk) /\ disk \in Record
      /\ delivery \in BOOLEAN /\ active \in Callers \cup {None} /\ disputed \in BOOLEAN
      /\ succeeded \subseteq 1..MaxSessionAttempts
  BY RecordParts
<1>2. job[l].rec.status \in Statuses /\ job[l].rec.attempt \in 0..MaxSessionAttempts
  BY <1>1 DEF Record
<1>3. t \in Statuses /\ "applying" \in JobPlaces
  BY <1>2 DEF JobPlaces
<1>4. job' = [job EXCEPT ![l] = j]
  BY SetsTheJob DEF OnEvent
<1>5. t = "delivering" => s = "delivering" /\ job[l].rec.status \notin EndedStatuses
  BY DEF EndedStatuses, Retryable
<1>6. t # "delivered"
  BY DEF EndedStatuses, Retryable
<1> HIDE DEF t
<1>7. /\ j \in Job /\ j.at = "applying" /\ j.rec.status = t
      /\ j.rec.attempt = job[l].rec.attempt /\ j.read = job[l].read
  BY <1>1, <1>3, JobWithStatus
<1> HIDE DEF j
<1>8. job'[l] = j
  BY <1>4, RecordParts
<1>9. job[l].rec.attempt >= 1
  BY RecordParts DEF JobAt, JobEarned
<1>10. succeeded \subseteq succeeded' /\ succeeded' \subseteq 1..MaxSessionAttempts
  <2>1. job[l].rec.attempt \in 1..MaxSessionAttempts
    BY <1>2, <1>9, BoundsAreNat
  <2> QED BY <1>1, <2>1
<1>11. Earned(job[l].rec)'
  BY <1>5, <1>6, <1>7, <1>8 DEF Earned
<1>12. Earned(job[l].read)' /\ Earned(disk)'
  BY <1>1, <1>7, <1>8, <1>10 DEF Earned
<1>13. JobEarned(l)'
  BY <1>7, <1>8, <1>9, <1>11, <1>12 DEF JobEarned
<1>14. UNCHANGED <<disk, delivery, active, op, view, crashes, operations, disputed, stranded>>
  BY DEF boundVars
<1> QED BY <1>1, <1>4, <1>7, <1>10, <1>12, <1>13, <1>14, LaunchKeepsRecord

LEMMA PromptingKeepsRecord ==
    ASSUME RecordInv, NEW l \in Callers, Prompting(l)
    PROVE  RecordInv'
<1>0. /\ job[l] \in Job /\ job[l].rec \in Record /\ disk \in Record
      /\ delivery \in BOOLEAN /\ active \in Callers \cup {None}
  BY RecordParts
<1>p. "settling" \in JobPlaces /\ "prompting" \in JobPlaces /\ "unknowing" \in JobPlaces
      /\ "outcome_unknown" \in Statuses
  BY DEF JobPlaces, Statuses
<1>1. CASE Message(l) \/ PermissionRequested(l)
  <2>1. PICK s \in {"running", "waiting_input"} : OnEvent(l, s)
    BY <1>1 DEF Message, PermissionRequested
  <2>2. /\ JobAt(l, "prompting")
        /\ UNCHANGED <<recordVars, active, op, view, boundVars, historyVars>>
    BY <1>1 DEF Message, PermissionRequested
  <2>3. s \in Statuses \ {"delivered"} /\ s # "delivering"
    BY DEF Statuses
  <2> QED BY <2>1, <2>2, <2>3, EventKeepsRecord DEF recordVars, historyVars
<1>2. CASE Fails(l)
  <2>1. PICK code \in Codes : OnEvent(l, FailedStatus(code))
    BY <1>2 DEF Fails
  <2>2. /\ JobAt(l, "prompting")
        /\ UNCHANGED <<recordVars, active, op, view, boundVars, historyVars>>
    BY <1>2 DEF Fails
  <2>3. FailedStatus(code) \in Statuses \ {"delivered"} /\ FailedStatus(code) # "delivering"
    BY DEF FailedStatus, Statuses
  <2> QED BY <2>1, <2>2, <2>3, EventKeepsRecord DEF recordVars, historyVars
<1>3. CASE Completes(l)
  <2>0. /\ JobAt(l, "prompting")
        /\ UNCHANGED <<recordVars, active, op, view, boundVars, disputed, stranded>>
    BY <1>3 DEF Completes
  <2>1. CASE /\ OnEvent(l, "delivering")
             /\ succeeded' = IF job[l].rec.status \in EndedStatuses THEN succeeded
                             ELSE succeeded \cup {job[l].rec.attempt}
    <3>1. "delivering" \in Statuses \ {"delivered"}
      BY DEF Statuses
    <3> QED BY <2>0, <2>1, <3>1, EventKeepsRecord DEF recordVars
  <2>2. CASE (\E s \in {"failed", "cancelled"} : OnEvent(l, s)) /\ UNCHANGED succeeded
    <3>1. PICK s \in {"failed", "cancelled"} : OnEvent(l, s)
      BY <2>2
    <3>2. s \in Statuses \ {"delivered"} /\ s # "delivering"
      BY DEF Statuses
    <3> QED BY <2>0, <2>2, <3>1, <3>2, EventKeepsRecord DEF recordVars
  <2> QED BY <1>3, <2>1, <2>2 DEF Completes
<1>4. CASE Switches(l) \/ PromptBreaks(l)
  <2>1. UNCHANGED sessionVars
    BY <1>4 DEF Switches, PromptBreaks
  <2> QED BY <2>1, SessionAtRest
<1>5. CASE Threw(l)
  <2>0. /\ JobAt(l, "prompting")
        /\ UNCHANGED <<recordVars, active, op, view, boundVars, historyVars>>
    BY <1>5 DEF Threw
  <2>1. CASE JobGoes(l, "settling")
    <3> DEFINE j == AtPlace(job[l], "settling")
    <3>1. j \in Job /\ j.at = "settling" /\ j.rec = job[l].rec /\ j.read = job[l].read
      BY <1>0, <1>p, JobAtPlace
    <3>2. job' = [job EXCEPT ![l] = j]
      BY <2>1, GoesTheJob
    <3> HIDE DEF j
    <3>3. JobEarned(l)'
      BY <2>0, <3>1, <3>2, AttemptGoesOn DEF JobAt, historyVars
    <3> QED BY <1>0, <2>0, <3>1, <3>2, <3>3, LaunchStep DEF recordVars
  <2>2. CASE Sets(l, "outcome_unknown", "unknowing")
    <3> DEFINE j == WithStatus(job[l], "outcome_unknown", "unknowing")
    <3>1. /\ j \in Job /\ j.at = "unknowing" /\ j.rec.status = "outcome_unknown"
          /\ j.rec.attempt = job[l].rec.attempt /\ j.read = job[l].read
      BY <1>0, <1>p, JobWithStatus
    <3>2. job' = [job EXCEPT ![l] = j]
      BY <2>2, SetsTheJob
    <3> HIDE DEF j
    <3>3. JobEarned(l)'
      BY <2>0, <3>1, <3>2, AttemptGoesOn DEF JobAt, historyVars
    <3> QED BY <1>0, <2>0, <3>1, <3>2, <3>3, LaunchStep DEF recordVars
  <2> QED BY <1>5, <2>1, <2>2 DEF Threw
<1>6. CASE BecameUnknown(l)
  <2>1. /\ disk' = job[l].rec /\ job' = [job EXCEPT ![l] = NoJob] /\ active' \in {active, None}
        /\ UNCHANGED <<delivery, op, view, boundVars, historyVars>>
    BY <1>6 DEF BecameUnknown, EndsActive, Ends
  <2> QED BY <1>0, <2>1, LaunchIsOver, LaunchStep
<1>7. CASE Applies(l)
  <2>1. PICK place \in {"settling", "prompting"} : JobGoes(l, place)
    BY <1>7 DEF Applies, Saves
  <2>2. /\ JobAt(l, "applying") /\ disk' = job[l].rec
        /\ UNCHANGED <<delivery, active, op, view, boundVars, historyVars>>
    BY <1>7 DEF Applies, Saves
  <2> DEFINE j == AtPlace(job[l], place)
  <2>p. place \in JobPlaces
    BY <1>p
  <2>3. j \in Job /\ j.at = place /\ j.rec = job[l].rec /\ j.read = job[l].read
    BY <1>0, <2>p, JobAtPlace
  <2>4. job' = [job EXCEPT ![l] = j]
    BY <2>1, GoesTheJob
  <2> HIDE DEF j
  <2>5. JobEarned(l)'
    BY <2>2, <2>3, <2>4, AttemptGoesOn DEF JobAt, historyVars
  <2> QED BY <1>0, <2>2, <2>3, <2>4, <2>5, LaunchStep
<1> QED BY <1>1, <1>2, <1>3, <1>4, <1>5, <1>6, <1>7 DEF Prompting

LEMMA SettlingKeepsRecord ==
    ASSUME RecordInv, NEW l \in Callers, Settling(l)
    PROVE  RecordInv'
<1>0. /\ job[l] \in Job /\ job[l].rec \in Record /\ job[l].read \in Record /\ JobEarned(l)
      /\ disk \in Record /\ Earned(disk) /\ delivery \in BOOLEAN
      /\ Earned(job[l].rec) /\ Earned(job[l].read)
      /\ active \in Callers \cup {None} /\ disputed \in BOOLEAN
      /\ succeeded \subseteq 1..MaxSessionAttempts
  BY RecordParts
<1>1. CASE Settles(l)
  <2>0. /\ JobAt(l, "settling")
        /\ UNCHANGED <<disk, delivery, op, view, boundVars, historyVars>>
    BY <1>1 DEF Settles, recordVars
  <2>a. active' \in {active, None}
    BY <1>1 DEF Settles, EndsActive
  <2>1. CASE \E j \in {NoJob, [NoJob EXCEPT !.at = "closing"]} : job' = [job EXCEPT ![l] = j]
    <3>1. PICK j \in {NoJob, [NoJob EXCEPT !.at = "closing"]} : job' = [job EXCEPT ![l] = j]
      BY <2>1
    <3>2. j \in Job /\ JobEarned(l)'
      BY <3>1, LaunchIsOver
    <3> QED BY <1>0, <2>0, <2>a, <3>1, <3>2, LaunchStep
  <2>2. CASE \E place \in {"storing", "blocking"} :
               /\ job' = [job EXCEPT ![l].at = place, ![l].read = disk]
               /\ place = "storing" => disk.status = "delivering"
    <3>1. PICK place \in {"storing", "blocking"} :
            /\ job' = [job EXCEPT ![l].at = place, ![l].read = disk]
            /\ place = "storing" => disk.status = "delivering"
      BY <2>2
    <3> DEFINE j == [job[l] EXCEPT !.at = place, !.read = disk]
    <3>2. job' = [job EXCEPT ![l] = j]
      BY <3>1, RecordParts
    <3>3. j \in Job /\ j.at = place /\ j.rec = job[l].rec /\ j.read = disk
      <4>1. place \in JobPlaces
        BY DEF JobPlaces
      <4> QED BY <1>0, <4>1 DEF Job
    <3> HIDE DEF j
    <3>4. job'[l] = j
      BY <3>2, RecordParts
    <3>5. job[l].rec.attempt >= 1
      BY <1>0, <2>0 DEF JobAt, JobEarned
    <3>6. Earned(job[l].rec)' /\ Earned(job[l].read)'
      BY <1>0, <2>0, <3>3, <3>4 DEF Earned, historyVars
    <3>7. JobEarned(l)'
      BY <3>1, <3>3, <3>4, <3>5, <3>6 DEF JobEarned
    <3> QED BY <1>0, <2>0, <2>a, <3>2, <3>3, <3>7, LaunchStep
  <2> QED BY <1>1, <2>1, <2>2, Zenon DEF Settles, EndsActive, Ends
<1>2. CASE Stored(l)
  <2> DEFINE j == AtPlace(job[l], "accepting")
  <2>0. /\ JobAt(l, "storing") /\ delivery' = TRUE
        /\ UNCHANGED <<disk, active, op, view, boundVars, historyVars>>
    BY <1>2 DEF Stored
  <2>1. j \in Job /\ j.at = "accepting" /\ j.rec = job[l].rec /\ j.read = job[l].read
    <3>1. "accepting" \in JobPlaces
      BY DEF JobPlaces
    <3> QED BY <1>0, <3>1, JobAtPlace
  <2>2. job' = [job EXCEPT ![l] = j]
    BY <1>2, GoesTheJob DEF Stored
  <2> HIDE DEF j
  <2>3. job'[l] = j
    BY <2>2, RecordParts
  <2>4. job[l].rec.attempt >= 1 /\ job[l].read.status = "delivering"
    BY <1>0, <2>0 DEF JobAt, JobEarned
  <2>5. Earned(job[l].rec)' /\ Earned(job[l].read)'
    BY <1>0, <2>0, <2>1, <2>3 DEF Earned, historyVars
  <2>6. JobEarned(l)'
    BY <2>1, <2>3, <2>4, <2>5 DEF JobEarned
  <2> QED BY <1>0, <2>0, <2>1, <2>2, <2>6, LaunchStep
<1>3. CASE SettledSaved(l)
  <2> DEFINE s == IF JobAt(l, "accepting") THEN "delivered" ELSE "blocked"
             j == [NoJob EXCEPT !.at = "closing"]
  <2>1. /\ disk' = [job[l].read EXCEPT !.status = s]
        /\ job' = [job EXCEPT ![l] = j]
        /\ UNCHANGED <<delivery, active, op, view, boundVars, historyVars>>
    BY <1>3 DEF SettledSaved
  <2>2. j \in Job /\ JobEarned(l)'
    BY <2>1, LaunchIsOver
  <2>3. s \in Statuses
    BY DEF Statuses
  <2>4. s = "delivered" => job[l].read.attempt \in succeeded
    BY <1>0 DEF JobAt, JobEarned, Earned
  <2>5. s # "delivering"
    OBVIOUS
  <2> HIDE DEF s, j
  <2>6. disk' \in Record /\ disk'.status = s /\ disk'.attempt = job[l].read.attempt
    BY <1>0, <2>1, <2>3 DEF Record
  <2>7. UNCHANGED <<op, view, crashes, operations, stranded, disputed, succeeded>>
    BY <2>1 DEF boundVars, historyVars
  <2>8. Earned(disk)'
    BY <2>4, <2>5, <2>6, <2>7 DEF Earned
  <2> QED BY <1>0, <2>1, <2>2, <2>6, <2>7, <2>8, LaunchKeepsRecord
<1>4. CASE Releasing(l)
  BY <1>4, SessionAtRest DEF Releasing
<1>5. CASE LaunchReleased(l)
  <2>1. /\ job' = [job EXCEPT ![l] = NoJob] /\ active' \in {active, None}
        /\ UNCHANGED <<disk, delivery, op, view, boundVars, historyVars>>
    BY <1>5 DEF LaunchReleased, EndsActive, Ends, recordVars
  <2> QED BY <1>0, <2>1, LaunchIsOver, LaunchStep
<1> QED BY <1>1, <1>2, <1>3, <1>4, <1>5 DEF Settling

LEMMA NoOperationTyped ==
    /\ NoOperation \in Operation
    /\ [NoOperation EXCEPT !.kind = "resolve", !.at = "closing"] \in Operation
    /\ NoOperation.read = NoJob.rec /\ NoOperation.to = "ready"
BY NoJobTyped DEF NoOperation, Operation, Statuses

LEMMA OthersKeepRecord ==
    ASSUME RecordInv, View \/ ViewWrites \/ Operating \/ DesktopCrash
    PROVE  RecordInv'
<1> USE DEF RecordInv, TypeRecord, Record, Statuses, Earned, recordVars, historyVars,
            boundVars
<1>j. ASSUME UNCHANGED <<job, succeeded>> PROVE \A l \in Callers : JobEarned(l)'
  BY <1>j DEF JobEarned
<1>1. CASE View
  BY <1>1, <1>j DEF View
<1>2. CASE ViewWrites
  BY <1>2, <1>j DEF ViewWrites
<1>3. CASE Cancel \/ RespondPermission \/ ResolveOutcomeUnknown
  <2>1. PICK kind \in {"cancel", "permit", "resolve"}, to \in {"cancelled", "running", "failed"} :
           Begins(kind, to)
    BY <1>3 DEF Cancel, RespondPermission, ResolveOutcomeUnknown
  <2>2. op' \in Operation /\ op'.read = disk /\ op'.to = to
    BY <2>1 DEF Begins, Operation
  <2>3. operations' \in 0..MaxOperations
    BY <2>1, BoundsAreNat DEF Begins
  <2> QED BY <2>1, <2>2, <2>3, <1>j DEF Begins
<1>4. CASE OperationSaves
  <2>1. op.read \in Record /\ op.to \in Statuses
    BY DEF Operation
  <2>2. op' \in {NoOperation, [NoOperation EXCEPT !.kind = "resolve", !.at = "closing"]}
    BY <1>4 DEF OperationSaves
  <2>3. op' \in Operation /\ op'.read = NoJob.rec /\ op'.to = "ready"
    BY <2>2, NoOperationTyped DEF Operation
  <2>4. disk' \in Record /\ Earned(disk)'
    BY <1>4, <2>1 DEF OperationSaves
  <2>5. disputed' \in BOOLEAN
    BY <1>4 DEF OperationSaves
  <2> QED BY <1>4, <2>3, <2>4, <2>5, <1>j, NoJobTyped DEF OperationSaves
<1>5. CASE ResolutionReleases
  <2>1. op' \in {NoOperation, op}
    BY <1>5 DEF ResolutionReleases
  <2>2. op' \in Operation /\ Earned(op.read)' /\ op'.to \notin {"delivering", "delivered"}
    BY <1>5, <2>1, NoOperationTyped, NoJobTyped DEF ResolutionReleases
  <2> QED BY <1>5, <2>2, <1>j DEF ResolutionReleases
<1>6. CASE DesktopCrash
  <2>1. \A l \in Callers : JobEarned(l)'
    BY <1>6, NoJobTyped DEF DesktopCrash, JobEarned
  <2>2. job' \in [Callers -> Job] /\ crashes' \in 0..MaxCrashes /\ stranded' \in BOOLEAN
    BY <1>6, NoJobTyped, BoundsAreNat DEF DesktopCrash
  <2> QED BY <1>6, NoOperationTyped, <2>1, <2>2, NoJobTyped DEF DesktopCrash
<1> QED BY <1>1, <1>2, <1>3, <1>4, <1>5, <1>6 DEF Operating

LEMMA InitialRecord == SessionInit => RecordInv
<1> SUFFICES ASSUME SessionInit PROVE RecordInv
  OBVIOUS
<1>1. disk = NoJob.rec /\ op = NoOperation /\ \A l \in Callers : job[l] = NoJob
  BY NoJobTyped DEF SessionInit
<1>2. TypeRecord
  <2>1. disk \in Record /\ op \in Operation
    BY <1>1, NoJobTyped, NoOperationTyped
  <2>2. job \in [Callers -> Job]
    BY NoJobTyped DEF SessionInit
  <2>3. crashes \in 0..MaxCrashes /\ operations \in 0..MaxOperations
    BY BoundsAreNat DEF SessionInit
  <2> QED BY <2>1, <2>2, <2>3 DEF SessionInit, TypeRecord
<1>3. \A r : r = NoJob.rec => Earned(r)
  BY NoJobTyped DEF Earned
<1>4. \A l \in Callers : JobEarned(l)
  BY <1>1, NoJobTyped
<1> QED BY <1>1, <1>2, <1>3, <1>4, NoOperationTyped DEF SessionInit, RecordInv

LEMMA RecordPreserved == RecordInv /\ [SessionNext]_groupVars => RecordInv'
<1> SUFFICES ASSUME RecordInv, [SessionNext]_groupVars PROVE RecordInv'
  OBVIOUS
<1>1. CASE UNCHANGED groupVars
  BY <1>1 DEF groupVars, sessionVars, recordVars, historyVars, boundVars, RecordInv, TypeRecord,
              Earned, JobEarned
<1>2. CASE SessionNext
  BY <1>2, LaunchingKeepsRecord, PromptingKeepsRecord, SettlingKeepsRecord, OthersKeepRecord
     DEF SessionNext
<1> QED BY <1>1, <1>2

\* Whatever overlaps, and whatever views and operations write over: a record says
\* `delivering' or `delivered' only for an attempt whose turn completed.
THEOREM DeliveryIsEarned == SessionSpec => []DeliveredWasCompleted
<1>1. RecordInv => DeliveredWasCompleted
  BY DEF RecordInv, Earned, DeliveredWasCompleted
<1> QED BY InitialRecord, RecordPreserved, <1>1, PTL DEF SessionSpec

-----------------------------------------------------------------------------
(* The operators of the failover controller and of the lease *)

LEMMA FailoverBoundsAreNat ==
    MaxRetries \in Nat /\ Threshold \in Nat /\ MaxGeneration \in Nat
BY FailoverBoundsAssumption

LEMMA ControllerIsNew == NewController(Primary, 1) \in Controller
                          /\ NewController(Primary, 1).cur = Primary
                          /\ NewController(Primary, 1).gen = 1
BY FailoverBoundsAreNat DEF NewController, Controller, Executors, Generations

\* ctl2 is ctl with other counts: it is at the same executor and generation.
Recounted(ctl2, ctl) == ctl2 \in Controller /\ ctl2.cur = ctl.cur /\ ctl2.gen = ctl.gen

LEMMA CountedKeepsTerm ==
    ASSUME NEW ctl \in Controller
    PROVE  Recounted(Counted(ctl), ctl) /\ Counted(ctl).retries = ctl.retries
<1> DEFINE f == IF ctl.failures[ctl.cur] < Threshold THEN ctl.failures[ctl.cur] + 1 ELSE Threshold
           g == [ctl.failures EXCEPT ![ctl.cur] = f]
           t == IF f >= Threshold THEN ctl.tripped \cup {ctl.cur} ELSE ctl.tripped
<1>1. ctl.cur \in Executors /\ ctl.failures \in [Executors -> 0..Threshold]
  BY DEF Controller
<1>2. f \in 0..Threshold
  <2>1. ctl.failures[ctl.cur] \in 0..Threshold
    BY <1>1
  <2> QED BY <2>1, FailoverBoundsAreNat
<1>3. g \in [Executors -> 0..Threshold] /\ t \in SUBSET Executors
  BY <1>1, <1>2 DEF Controller
<1>4. Counted(ctl) = [[ctl EXCEPT !.failures = g] EXCEPT !.tripped = t]
  BY DEF Counted, Controller
<1> HIDE DEF g, t
<1> QED BY <1>3, <1>4 DEF Recounted, Controller

LEMMA OnFailureKeepsTerm ==
    ASSUME NEW ctl \in Controller, NEW source, NEW code, NEW d \in OnFailure(ctl, source, code)
    PROVE  Recounted(d.ctl, ctl)
<1> DEFINE c == Counted(ctl)
<1>0. ctl.cur \in Executors /\ c \in Controller /\ c.cur = ctl.cur /\ c.gen = ctl.gen
        /\ c.retries = ctl.retries
  BY CountedKeepsTerm DEF Recounted, Controller
<1> HIDE DEF c
<1>1. ASSUME d \in Nothing(ctl) \/ d \in Nothing(c) PROVE Recounted(d.ctl, ctl)
  BY <1>0, <1>1 DEF Nothing, Recounted
<1>2. ASSUME d \in Handoff(ctl) PROVE Recounted(d.ctl, ctl)
  <2>1. d.ctl = [c EXCEPT !.pending = TRUE]
    BY <1>2 DEF Handoff, c
  <2> QED BY <1>0, <2>1 DEF Recounted, Controller
<1>3. ASSUME MayRetry(ctl), d \in RetryTurn(ctl) PROVE Recounted(d.ctl, ctl)
  <2> DEFINE r == [c.retries EXCEPT ![ctl.cur] = @ + 1]
  <2>1. ctl.retries[ctl.cur] \in 0..MaxRetries /\ ctl.retries[ctl.cur] < MaxRetries
    BY <1>0, <1>3 DEF Controller, MayRetry
  <2>2. r \in [Executors -> 0..MaxRetries]
    <3>1. ctl.retries[ctl.cur] + 1 \in 0..MaxRetries
      BY <2>1, FailoverBoundsAreNat
    <3> QED BY <1>0, <3>1 DEF Controller
  <2>3. d.ctl = [c EXCEPT !.retries = r]
    BY <1>0, <1>3 DEF RetryTurn, c, Controller
  <2> HIDE DEF r
  <2> QED BY <1>0, <2>2, <2>3 DEF Recounted, Controller
<1>4. ASSUME d \in PlanSwitch(ctl) PROVE Recounted(d.ctl, ctl)
  <2> DEFINE rested == [c EXCEPT !.resting = @ \cup {ctl.cur}]
  <2>1. Recounted(rested, ctl)
    BY <1>0 DEF Recounted, Controller
  <2>2. d.ctl \in {rested, [rested EXCEPT !.pending = TRUE]}
    BY <1>4 DEF PlanSwitch, c
  <2> HIDE DEF rested
  <2> QED BY <2>1, <2>2 DEF Recounted, Controller
<1> QED BY <1>1, <1>2, <1>3, <1>4 DEF OnFailure, c

LEMMA SuccessKeepsTerm ==
    ASSUME NEW ctl \in Controller, NEW e \in Executors
    PROVE  Recounted(RecordSuccess(ctl, e), ctl)
<1>1. [ctl.retries EXCEPT ![e] = 0] \in [Executors -> 0..MaxRetries]
        /\ [ctl.failures EXCEPT ![e] = 0] \in [Executors -> 0..Threshold]
        /\ ctl.tripped \ {e} \in SUBSET Executors
  BY FailoverBoundsAreNat DEF Controller
<1> QED BY <1>1 DEF RecordSuccess, Recounted, Controller

LEMMA AbortKeepsTerm ==
    ASSUME NEW ctl \in Controller
    PROVE  Recounted(Abort(ctl), ctl)
BY DEF Abort, Recounted, Controller

LEMMA OtherIsOther == \A e \in Executors : Other(e) \in Executors /\ Other(e) # e
BY CandidatesAssumption DEF Other, Executors

LEMMA CommitMovesOn ==
    ASSUME NEW ctl \in Controller, ctl.gen < MaxGeneration
    PROVE  LET new == CommitVerifiedSwitch(ctl)
           IN  /\ new \in Controller
               /\ new.cur = Other(ctl.cur) /\ new.gen = ctl.gen + 1
<1> DEFINE moved == [ctl EXCEPT !.cur = Other(ctl.cur), !.gen = @ + 1, !.pending = FALSE]
<1>1. Other(ctl.cur) \in Executors
  BY OtherIsOther DEF Controller
<1>2. ctl.gen + 1 \in Generations
  BY FailoverBoundsAreNat DEF Controller, Generations
<1>3. moved \in Controller /\ moved.cur = Other(ctl.cur) /\ moved.gen = ctl.gen + 1
  BY <1>1, <1>2 DEF Controller
<1>4. CommitVerifiedSwitch(ctl) = RecordSuccess(moved, Other(ctl.cur))
  BY DEF CommitVerifiedSwitch
<1> HIDE DEF moved
<1> QED BY <1>1, <1>3, <1>4, SuccessKeepsTerm DEF Recounted

\* The values of a function on a finite set are at most as many as its arguments.
LEMMA FiniteImage ==
    ASSUME NEW S, IsFiniteSet(S), NEW f, DOMAIN f = S, f = [x \in S |-> f[x]]
    PROVE  LET T == {f[x] : x \in S}
           IN  IsFiniteSet(T) /\ Cardinality(T) <= Cardinality(S)
<1> DEFINE T == {f[x] : x \in S}
<1>1. f \in Surjection(S, T)
  BY DEF Surjection
<1> QED BY <1>1, FS_Surjection

\* There are more nonces than leases on disk and in the memory of the calls.
LEMMA FreshIsNonce == Fresh \in Nonces
<1> DEFINE held == [p \in Flows |-> flow[p].held.nonce]
           kept == [c \in Callers |-> binding[c].lease.nonce]
           H == {held[p] : p \in Flows}
           K == {kept[c] : c \in Callers}
           V == {lease.nonce} \cup H
           U == V \cup K
<1>1. IsFiniteSet(Callers) /\ IsFiniteSet(Flows)
        /\ Cardinality(Callers) \in Nat /\ Cardinality(Flows) \in Nat
        /\ Cardinality(Callers) <= Cardinality(Flows)
  BY CallersAssumption, FS_Singleton, FS_Union, FS_Subset, FS_CardinalityType DEF Flows
<1>2. IsFiniteSet(H) /\ Cardinality(H) <= Cardinality(Flows) /\ Cardinality(H) \in Nat
  <2> HIDE DEF held
  <2>1. DOMAIN held = Flows /\ held = [p \in Flows |-> held[p]]
    BY DEF held
  <2> QED BY <1>1, <2>1, FiniteImage, FS_CardinalityType
<1>3. IsFiniteSet(K) /\ Cardinality(K) <= Cardinality(Callers) /\ Cardinality(K) \in Nat
  <2> HIDE DEF kept
  <2>1. DOMAIN kept = Callers /\ kept = [c \in Callers |-> kept[c]]
    BY DEF kept
  <2> QED BY <1>1, <2>1, FiniteImage, FS_CardinalityType
<1>4. IsFiniteSet(U) /\ Cardinality(U) <= 2 * Cardinality(Flows) + 1 /\ Cardinality(U) \in Nat
  <2> HIDE DEF H, K
  <2>1. IsFiniteSet({lease.nonce}) /\ Cardinality({lease.nonce}) = 1
    BY FS_Singleton
  <2>2. IsFiniteSet(V) /\ Cardinality(V) <= 1 + Cardinality(H) /\ Cardinality(V) \in Nat
    <3>1. IsFiniteSet({lease.nonce} \cap H) /\ Cardinality({lease.nonce} \cap H) \in Nat
      BY <1>2, FS_Intersection, FS_CardinalityType
    <3>2. /\ IsFiniteSet(V)
          /\ Cardinality(V) = Cardinality({lease.nonce}) + Cardinality(H)
                                - Cardinality({lease.nonce} \cap H)
      BY <1>2, <2>1, FS_Union
    <3> QED BY <1>2, <2>1, <3>1, <3>2, FS_CardinalityType
  <2> HIDE DEF V
  <2>3. IsFiniteSet(V \cap K) /\ Cardinality(V \cap K) \in Nat
    BY <1>3, <2>2, FS_Intersection, FS_CardinalityType
  <2>4. /\ IsFiniteSet(V \cup K)
        /\ Cardinality(V \cup K) = Cardinality(V) + Cardinality(K) - Cardinality(V \cap K)
    BY <1>3, <2>2, FS_Union
  <2> QED BY <1>1, <1>2, <1>3, <2>2, <2>3, <2>4, FS_CardinalityType
<1>5. IsFiniteSet(Nonces) /\ Cardinality(Nonces) = 2 * Cardinality(Flows) + 2
  <2> DEFINE most == 2 * Cardinality(Flows) + 2
  <2>1. most \in Nat /\ most >= 1 /\ Nonces = 1..most
    BY <1>1 DEF Nonces
  <2> HIDE DEF most
  <2>2. IsFiniteSet(1..most) /\ Cardinality(1..most) = most
    BY <2>1, FS_Interval
  <2> QED BY <2>1, <2>2 DEF most
<1>6. PICK n \in Nonces : n \notin U
  <2> HIDE DEF U
  <2>1. SUFFICES ASSUME Nonces \subseteq U PROVE FALSE
    OBVIOUS
  <2>2. Cardinality(Nonces) <= Cardinality(U)
    BY <1>4, <2>1, FS_Subset
  <2> QED BY <1>1, <1>4, <1>5, <2>2
<1>7. \A l \in Remembered : l = None \/ l.nonce # n
  BY <1>6 DEF Remembered
<1> QED BY <1>6, <1>7 DEF Fresh

-----------------------------------------------------------------------------
(* One call at work: what each of its places says of the executor, the lease *)
(* and the binding                                                           *)

Vacant == manager = None /\ bound = None

\* A lease that the next start can take or adopt, or that a crash left behind.
FreeLease == lease = None \/ Adoptable(lease) \/ stranded

\* l is a lease, or s a session, of the executor and generation that ctl is at.
TermOf(l, ctl) == l.ex = ctl.cur /\ l.gen = ctl.gen

SameTerm(l, s) == l.ex = s.ex /\ l.gen = s.gen

\* The binding of p is in #bindings, its lease is the file, and the executor of
\* that lease is the one that runs.
InForce(p) ==
    /\ bound = p /\ p \in Callers /\ binding[p] # None
    /\ manager # None /\ lease # None
    /\ binding[p].lease = lease /\ lease.active
    /\ SameTerm(lease, manager) /\ TermOf(lease, binding[p].ctl)

\* The lease of p is marked for the handoff that p is in.
Marked(p) ==
    /\ bound = p /\ p \in Callers /\ flow[p].obj = p /\ binding[p] # None
    /\ lease # None /\ lease = flow[p].held /\ ~lease.active
    /\ TermOf(lease, binding[p].ctl) /\ lease.gen < MaxGeneration

FlowOk(p) ==
    /\ flow[p].at \in {"starting", "refused"} => Vacant
    /\ flow[p].at \in {"binding", "acquiring", "undoing"} =>
          manager # None /\ manager.ex = Primary /\ manager.gen = 1 /\ bound = None
              /\ p \in Callers
    /\ flow[p].at \in {"undoing", "streaming", "replacing", "closing"} =>
          manager # None /\ flow[p].sess = manager
    /\ flow[p].at \in {"ready", "streaming", "resuming", "handing", "marking"} => InForce(p)
    /\ flow[p].at \in {"streaming", "resuming", "handing", "marking"} => flow[p].obj = p
    /\ flow[p].at \in {"handing", "marking"} => lease.gen < MaxGeneration
    /\ flow[p].at = "marking" => flow[p].held = [lease EXCEPT !.active = FALSE]
    /\ flow[p].at \in {"verifying", "replacing"} =>
          Marked(p) /\ manager # None /\ SameTerm(lease, manager)
    /\ flow[p].at = "restarting" =>
          Marked(p) /\ manager = None /\ flow[p].sess # None /\ SameTerm(lease, flow[p].sess)
    /\ flow[p].at \in {"accepting", "granting"} =>
          Marked(p) /\ manager # None /\ manager.ex = Other(lease.ex)
              /\ manager.gen = lease.gen + 1
    /\ flow[p].at \in {"closing", "releasing"} => flow[p].obj = bound
    /\ flow[p].at \in {"releasing", "unlinking"} => manager = None
    /\ flow[p].at = "unlinking" => lease # None

\* The executor that the manager knows is the only one that runs.
OneSession == live = IF manager = None THEN {} ELSE {manager}

FlowInv ==
    /\ TypeFailover
    /\ OneSession
    /\ bound = None => FreeLease
    /\ \A p \in Flows : FlowOk(p)

Alone(p) == \A q \in Flows : q # p => flow[q].at = "idle"

LEMMA OneCallSteps ==
    ASSUME FlowInv, NEW p \in Flows, Alone(p), NEW f \in Local,
           flow' = [flow EXCEPT ![p] = f],
           lease' \in Lease \cup {None}, manager' \in Session \cup {None},
           bound' \in Callers \cup {None}, binding' \in [Callers -> Binding \cup {None}],
           OneSession', bound' = None => FreeLease', FlowOk(p)'
    PROVE  FlowInv' /\ Alone(p)'
<1>0. flow \in [Flows -> Local]
  BY DEF FlowInv, TypeFailover
<1>1. live' \subseteq Session
  BY DEF OneSession
<1>2. TypeFailover'
  BY <1>0, <1>1 DEF TypeFailover
<1>3. \A q \in Flows : q # p => flow'[q].at = "idle"
  BY <1>0 DEF Alone
<1>4. \A q \in Flows : FlowOk(q)'
  <2> TAKE q \in Flows
  <2>1. CASE q = p
    BY <2>1
  <2>2. CASE q # p
    BY <1>3, <2>2 DEF FlowOk
  <2> QED BY <2>1, <2>2
<1> QED BY <1>2, <1>3, <1>4 DEF FlowInv, Alone

\* The types that the steps of p rest on.
LEMMA FlowTypes ==
    ASSUME FlowInv, NEW p \in Flows
    PROVE  /\ flow \in [Flows -> Local] /\ flow[p] \in Local
           /\ lease \in Lease \cup {None} /\ manager \in Session \cup {None}
           /\ bound \in Callers \cup {None} /\ binding \in [Callers -> Binding \cup {None}]
           /\ lease # None => lease \in Lease
           /\ manager # None => manager \in Session
           /\ FlowOk(p)
BY DEF FlowInv, TypeFailover

LEMMA AtRestIsLocal == AtRest \in Local /\ AtRest.at = "idle"
BY DEF AtRest, Local, Places

LEMMA StartSteps ==
    ASSUME FlowInv, NEW p \in Callers, Alone(p), UNCHANGED stranded,
           (Start(p) /\ Vacant) \/ Started(p) \/ StartFails(p)
    PROVE  FlowInv' /\ Alone(p)'
<1>0. p \in Flows
  BY DEF Flows
<1>1. /\ flow \in [Flows -> Local] /\ flow[p] \in Local
      /\ lease \in Lease \cup {None} /\ manager \in Session \cup {None}
      /\ bound \in Callers \cup {None} /\ binding \in [Callers -> Binding \cup {None}]
      /\ FlowOk(p)
  BY <1>0, FlowTypes
<1>2. CASE (Start(p) /\ Vacant) \/ StartFails(p)
  <2>1. PICK place \in {"starting", "refused"} :
           flow' = [flow EXCEPT ![p] = [flow[p] EXCEPT !.at = place]]
    BY <1>2 DEF Start, StartFails, Goes
  <2>2. [flow[p] EXCEPT !.at = place] \in Local
    BY <1>1 DEF Local, Places
  <2>3. Vacant' /\ UNCHANGED <<lease, manager, live, bound, binding>>
    BY <1>1, <1>2 DEF Start, StartFails, Vacant, FlowOk, At
  <2>4. FlowOk(p)'
    BY <1>0, <1>1, <2>1, <2>3 DEF FlowOk, Local
  <2>5. OneSession' /\ (bound' = None => FreeLease')
    BY <2>3 DEF FlowInv, OneSession, FreeLease, Adoptable
  <2> QED BY <1>0, <1>1, <2>1, <2>2, <2>3, <2>4, <2>5, OneCallSteps
<1>3. CASE Started(p)
  <2> DEFINE s == [ex |-> Primary, gen |-> 1, by |-> p]
  <2>1. flow' = [flow EXCEPT ![p] = [flow[p] EXCEPT !.at = "binding"]]
    BY <1>3 DEF Started, Goes
  <2>2. [flow[p] EXCEPT !.at = "binding"] \in Local
    BY <1>1 DEF Local, Places
  <2>3. s \in Session /\ s # None
    BY NoneAssumption, FailoverBoundsAreNat DEF Session, Executors, Generations
  <2>4. Vacant
    BY <1>1, <1>3 DEF Started, FlowOk, At
  <2>5. manager' = s /\ live' = {s} /\ UNCHANGED <<lease, bound, binding>>
    BY <1>3, <2>4 DEF Started, FlowInv, OneSession, Vacant
  <2>6. FlowOk(p)'
    BY <1>0, <1>1, <2>1, <2>3, <2>4, <2>5 DEF FlowOk, Local, Vacant
  <2>7. OneSession' /\ (bound' = None => FreeLease')
    BY <2>3, <2>5 DEF FlowInv, OneSession, FreeLease, Adoptable
  <2> QED BY <1>0, <1>1, <2>1, <2>2, <2>3, <2>5, <2>6, <2>7, OneCallSteps
<1> QED BY <1>2, <1>3

LEMMA BindSteps ==
    ASSUME FlowInv, NEW p \in Callers, Alone(p), UNCHANGED stranded, Binds(p)
    PROVE  FlowInv' /\ Alone(p)'
<1>0. p \in Flows
  BY DEF Flows
<1>1. /\ flow \in [Flows -> Local] /\ flow[p] \in Local
      /\ lease \in Lease \cup {None} /\ manager \in Session \cup {None}
      /\ bound \in Callers \cup {None} /\ binding \in [Callers -> Binding \cup {None}]
      /\ lease # None => lease \in Lease
      /\ FlowOk(p)
  BY <1>0, FlowTypes
<1>2. /\ flow[p].at \in {"binding", "acquiring", "undoing"}
      /\ manager # None /\ manager.ex = Primary /\ manager.gen = 1 /\ bound = None
  BY <1>1 DEF Binds, BindReads, Acquire, Undo, At, FlowOk
<1>3. OneSession /\ FreeLease
  BY <1>2 DEF FlowInv
<1>4. ASSUME NEW l \in Lease, l.ex = Primary, l.gen = 1, l.active, Bind(p, l), lease' = l,
             UNCHANGED <<manager, live>>
      PROVE  FlowInv' /\ Alone(p)'
  <2> DEFINE f == [flow[p] EXCEPT !.at = "ready", !.held = None]
             b == [lease |-> l, ctl |-> NewController(Primary, 1)]
  <2>1. flow' = [flow EXCEPT ![p] = f] /\ bound' = p
    BY <1>4 DEF Bind
  <2>2. f \in Local
    BY <1>1 DEF Local, Places
  <2>3. b \in Binding /\ b # None /\ l # None
    BY <1>4, ControllerIsNew, NoneAssumption DEF Binding
  <2>4. binding' = [binding EXCEPT ![p] = b]
    BY <1>4 DEF Bind
  <2>5. binding' \in [Callers -> Binding \cup {None}] /\ binding'[p] = b
    BY <1>1, <2>3, <2>4
  <2>6. flow'[p].at = "ready"
    BY <1>0, <1>1, <2>1 DEF Local
  <2>7. InForce(p)'
    BY <1>2, <1>4, <2>1, <2>3, <2>5, ControllerIsNew DEF InForce, SameTerm, TermOf
  <2>8. FlowOk(p)'
    BY <2>6, <2>7 DEF FlowOk
  <2>9. OneSession' /\ bound' # None
    BY <1>3, <1>4, <2>1, CallersAssumption DEF OneSession
  <2> HIDE DEF f, b
  <2> QED BY <1>0, <1>1, <1>4, <2>1, <2>2, <2>5, <2>8, <2>9, OneCallSteps
<1>5. ASSUME flow' = [flow EXCEPT ![p].at = "undoing", ![p].sess = manager],
             UNCHANGED <<lease, manager, live, bound, binding>>
      PROVE  FlowInv' /\ Alone(p)'
  <2> DEFINE f == [flow[p] EXCEPT !.at = "undoing", !.sess = manager]
  <2>1. flow' = [flow EXCEPT ![p] = f] /\ f \in Local
    BY <1>1, <1>5 DEF Local, Places
  <2>2. FlowOk(p)'
    BY <1>0, <1>1, <1>2, <1>5, <2>1 DEF FlowOk, Local
  <2>3. OneSession' /\ FreeLease'
    BY <1>3, <1>5 DEF OneSession, FreeLease, Adoptable
  <2> HIDE DEF f
  <2> QED BY <1>0, <1>1, <1>5, <2>1, <2>2, <2>3, OneCallSteps
<1>6. CASE BindReads(p)
  <2>1. CASE Adoptable(lease) /\ Bind(p, lease)
    BY <1>1, <1>4, <1>6, <2>1 DEF BindReads, Adoptable
  <2>2. CASE Goes(p, "acquiring") /\ UNCHANGED <<bound, binding>>
    <3>1. flow' = [flow EXCEPT ![p] = [flow[p] EXCEPT !.at = "acquiring"]]
      BY <2>2 DEF Goes
    <3>2. [flow[p] EXCEPT !.at = "acquiring"] \in Local
      BY <1>1 DEF Local, Places
    <3>3. UNCHANGED <<lease, manager, live, bound, binding>>
      BY <1>6, <2>2 DEF BindReads
    <3>4. FlowOk(p)'
      BY <1>0, <1>1, <1>2, <3>1, <3>3 DEF FlowOk, Local
    <3>5. OneSession' /\ FreeLease'
      BY <1>3, <3>3 DEF OneSession, FreeLease, Adoptable
    <3> QED BY <1>0, <1>1, <3>1, <3>2, <3>3, <3>4, <3>5, OneCallSteps
  <2>3. CASE flow' = [flow EXCEPT ![p].at = "undoing", ![p].sess = manager]
               /\ UNCHANGED <<bound, binding>>
    BY <1>5, <1>6, <2>3 DEF BindReads
  <2> QED BY <1>6, <2>1, <2>2, <2>3 DEF BindReads
<1>7. CASE Acquire(p)
  <2>1. CASE lease = None
    <3> DEFINE l == [ex |-> Primary, gen |-> 1, nonce |-> Fresh, active |-> TRUE]
    <3>1. l \in Lease
      BY FreshIsNonce, FailoverBoundsAreNat DEF Lease, Executors, Generations
    <3>2. lease' = l /\ Bind(p, l) /\ UNCHANGED <<manager, live>>
      BY <1>7, <2>1 DEF Acquire
    <3>3. l.ex = Primary /\ l.gen = 1 /\ l.active
      OBVIOUS
    <3> HIDE DEF l
    <3> QED BY <1>4, <3>1, <3>2, <3>3
  <2>2. CASE lease # None
    BY <1>5, <1>7, <2>2 DEF Acquire
  <2> QED BY <2>1, <2>2
<1>8. CASE Undo(p)
  <2> DEFINE f == [flow[p] EXCEPT !.at = "refused", !.sess = None]
  <2>1. flow' = [flow EXCEPT ![p] = f] /\ f \in Local
    BY <1>1, <1>8 DEF Undo, Local, Places
  <2>2. flow[p].sess = manager
    BY <1>1, <1>8 DEF Undo, At, FlowOk
  <2>3. live' = {} /\ manager' = None /\ UNCHANGED <<lease, bound, binding>>
    BY <1>2, <1>3, <1>8, <2>2 DEF Undo, OneSession
  <2>4. FlowOk(p)'
    BY <1>0, <1>1, <1>2, <2>1, <2>3 DEF FlowOk, Local, Vacant
  <2>5. OneSession' /\ FreeLease'
    BY <1>3, <2>3 DEF OneSession, FreeLease, Adoptable
  <2> HIDE DEF f
  <2> QED BY <1>0, <1>1, <2>1, <2>3, <2>4, <2>5, OneCallSteps
<1> QED BY <1>6, <1>7, <1>8 DEF Binds

\* A step that changes nothing but the place and the locals of p.
LEMMA PlaceSteps ==
    ASSUME FlowInv, NEW p \in Flows, Alone(p), NEW f \in Local,
           flow' = [flow EXCEPT ![p] = f], FlowOk(p)',
           UNCHANGED <<lease, manager, live, bound, binding, stranded>>
    PROVE  FlowInv' /\ Alone(p)'
<1>1. /\ lease \in Lease \cup {None} /\ manager \in Session \cup {None}
      /\ bound \in Callers \cup {None} /\ binding \in [Callers -> Binding \cup {None}]
  BY FlowTypes
<1>2. OneSession' /\ (bound' = None => FreeLease')
  BY DEF FlowInv, OneSession, FreeLease, Adoptable
<1> QED BY <1>1, <1>2, OneCallSteps

\* A throw, and a return, leave the call where nothing more is claimed.
LEMMA EndingSteps ==
    ASSUME FlowInv, NEW p \in Flows, Alone(p), NEW place \in {"threw", "returned"}, Goes(p, place),
           UNCHANGED <<lease, manager, live, bound, binding, stranded>>
    PROVE  FlowInv' /\ Alone(p)'
<1> DEFINE f == [flow[p] EXCEPT !.at = place]
<1>1. flow \in [Flows -> Local] /\ flow[p] \in Local
  BY FlowTypes
<1>2. flow' = [flow EXCEPT ![p] = f] /\ f \in Local
  BY <1>1 DEF Goes, Local, Places
<1>3. FlowOk(p)'
  BY <1>1, <1>2 DEF FlowOk, Local
<1> HIDE DEF f
<1> QED BY <1>2, <1>3, PlaceSteps

LEMMA ControllerSteps ==
    ASSUME FlowInv, NEW p \in Callers, flow[p].obj = p, binding[p] # None,
           NEW c, Recounted(c, binding[p].ctl), SetController(p, c)
    PROVE  /\ binding' \in [Callers -> Binding \cup {None}]
           /\ binding'[p] # None /\ binding'[p].lease = binding[p].lease
           /\ binding'[p].ctl = c
<1>1. binding \in [Callers -> Binding \cup {None}] /\ p \in Flows
  BY FlowTypes DEF FlowInv, TypeFailover, Flows
<1>2. binding[p] \in Binding
  BY <1>1
<1> DEFINE b == [binding[p] EXCEPT !.ctl = c]
<1>3. b \in Binding /\ b.lease = binding[p].lease /\ b.ctl = c
  BY <1>2 DEF Binding, Recounted
<1>4. binding' = [binding EXCEPT ![p] = b]
  BY <1>1, <1>2 DEF SetController, Binding
<1> HIDE DEF b
<1> QED BY <1>1, <1>3, <1>4, NoneAssumption

\* What a failure, or the end of a turn, does to the counts keeps the binding in force.
LEMMA InForceKept ==
    ASSUME FlowInv, NEW p \in Callers, flow[p].obj = p, InForce(p),
           NEW c, Recounted(c, binding[p].ctl), SetController(p, c),
           UNCHANGED <<lease, manager, live, bound>>
    PROVE  InForce(p)' /\ binding' \in [Callers -> Binding \cup {None}]
<1>1. binding[p] # None
  BY DEF InForce
<1> QED BY <1>1, ControllerSteps DEF InForce, SameTerm, TermOf, Recounted

LEMMA StreamTypes ==
    ASSUME FlowInv, NEW p \in Callers,
           flow[p].at \in {"streaming", "resuming", "handing", "marking"}
    PROVE  /\ p \in Flows /\ flow \in [Flows -> Local] /\ flow[p] \in Local
           /\ InForce(p) /\ flow[p].obj = p
           /\ lease \in Lease /\ manager \in Session
           /\ binding[p] \in Binding /\ binding[p].ctl \in Controller
           /\ MyBinding(p) = binding[p]
<1>1. p \in Flows
  BY DEF Flows
<1>2. FlowOk(p)
  BY <1>1, FlowTypes
<1>3. InForce(p) /\ flow[p].obj = p
  BY <1>2 DEF FlowOk
<1>4. binding[p] \in Binding
  BY <1>1, <1>3, FlowTypes DEF InForce
<1> QED BY <1>1, <1>3, <1>4, FlowTypes DEF InForce, Binding, MyBinding

\* The steps of the stream: what it reports, and what the wrapper makes of it.
LEMMA StreamSteps ==
    ASSUME FlowInv, NEW p \in Callers, Alone(p), UNCHANGED stranded, NEW code, NEW ok \in BOOLEAN,
           \/ FailurePassedOn(p, code) \/ FailureRetried(p, code) \/ FailureSwitches(p, code)
           \/ Completed(p, ok)
    PROVE  FlowInv' /\ Alone(p)'
<1>0. flow[p].at = "streaming"
  BY DEF FailurePassedOn, FailureRetried, FailureSwitches, Completed, Hears, At
<1>1. /\ p \in Flows /\ flow \in [Flows -> Local] /\ flow[p] \in Local
      /\ InForce(p) /\ flow[p].obj = p
      /\ lease \in Lease /\ manager \in Session
      /\ binding[p] \in Binding /\ binding[p].ctl \in Controller
      /\ MyBinding(p) = binding[p] /\ FlowOk(p) /\ flow[p].sess = manager
  <2>1. p \in Flows
    BY DEF Flows
  <2> QED BY <1>0, <2>1, StreamTypes, FlowTypes DEF FlowOk
<1>2. UNCHANGED <<lease, manager, live, bound>>
  BY DEF FailurePassedOn, FailureRetried, FailureSwitches, Completed
<1>3. PICK c : Recounted(c, binding[p].ctl) /\ SetController(p, c)
  <2>1. CASE \E d \in Decisions(p, code) : SetController(p, d.ctl)
    BY <1>1, <2>1, OnFailureKeepsTerm DEF Decisions
  <2>2. CASE Completed(p, ok)
    <3>1. binding[p].ctl.cur \in Executors
      BY <1>1 DEF Controller
    <3>2. Recounted(binding[p].ctl, binding[p].ctl)
      BY <1>1 DEF Recounted
    <3> QED BY <1>1, <2>2, <3>1, <3>2, SuccessKeepsTerm DEF Completed
  <2> QED BY <2>1, <2>2 DEF FailurePassedOn, FailureRetried, FailureSwitches
<1>4. InForce(p)' /\ binding' \in [Callers -> Binding \cup {None}]
  BY <1>1, <1>2, <1>3, InForceKept
<1>5. OneSession' /\ bound' # None
  <2>1. bound' = p
    BY <1>4 DEF InForce
  <2> QED BY <1>2, <2>1, CallersAssumption DEF FlowInv, OneSession
<1>6. PICK place \in {"streaming", "resuming", "handing", "threw", "returned"} :
        /\ flow' = [flow EXCEPT ![p] = [flow[p] EXCEPT !.at = place]]
        /\ place = "handing" => lease.gen < MaxGeneration
  <2>1. CASE FailurePassedOn(p, code)
    <3>1. flow' = [flow EXCEPT ![p] = [flow[p] EXCEPT !.at = "streaming"]]
      BY <1>0, <1>1, <2>1 DEF FailurePassedOn, Local
    <3> QED BY <3>1
  <2>2. CASE FailureRetried(p, code) \/ Completed(p, ok)
    BY <2>2 DEF FailureRetried, Completed, Goes
  <2>3. CASE FailureSwitches(p, code)
    <3>1. lease.gen < MaxGeneration
      BY <1>1, <2>3 DEF FailureSwitches, InForce, TermOf
    <3> QED BY <2>3, <3>1 DEF FailureSwitches, Goes
  <2> QED BY <2>1, <2>2, <2>3
<1>7. [flow[p] EXCEPT !.at = place] \in Local
  BY <1>1 DEF Local, Places
<1>8. FlowOk(p)'
  <2>1. flow'[p].at = place /\ flow'[p].obj = p /\ flow'[p].sess = manager
    BY <1>1, <1>6 DEF Local
  <2> QED BY <1>1, <1>2, <1>4, <1>6, <2>1 DEF FlowOk, InForce
<1> QED BY <1>1, <1>2, <1>4, <1>5, <1>6, <1>7, <1>8, OneCallSteps, FlowTypes

LEMMA TurnSteps ==
    ASSUME FlowInv, NEW p \in Callers, Alone(p), UNCHANGED stranded,
           Prompt(p) \/ Resumes(p) \/ HandoffReads(p)
    PROVE  FlowInv' /\ Alone(p)'
<1>0. p \in Flows
  BY DEF Flows
<1>1. /\ flow \in [Flows -> Local] /\ flow[p] \in Local /\ FlowOk(p)
      /\ lease \in Lease \cup {None} /\ manager \in Session \cup {None}
  BY <1>0, FlowTypes
<1>2. InForce(p) /\ UNCHANGED <<lease, manager, live, bound, binding>>
  BY <1>1 DEF Prompt, Resumes, HandoffReads, At, FlowOk
<1>3. bound = p /\ bound # None /\ manager # None /\ lease # None
  BY <1>2, CallersAssumption DEF InForce
<1>4. InForce(p)'
  BY <1>2 DEF InForce, SameTerm, TermOf
<1>5. CASE Prompt(p) \/ Resumes(p)
  <2> DEFINE f == [flow[p] EXCEPT !.at = "streaming", !.obj = p, !.sess = manager]
  <2>1. flow' = [flow EXCEPT ![p] = f]
    <3>1. CASE Prompt(p)
      BY <1>3, <3>1 DEF Prompt
    <3>2. CASE Resumes(p)
      <4>1. flow[p].obj = p
        BY <1>1, <3>2 DEF Resumes, At, FlowOk
      <4>2. flow' = [flow EXCEPT ![p] = [flow[p] EXCEPT !.at = "streaming", !.sess = manager]]
        BY <1>3, <3>2 DEF Resumes
      <4>3. [flow[p] EXCEPT !.at = "streaming", !.sess = manager] = f
        BY <1>1, <4>1 DEF Local
      <4> QED BY <4>2, <4>3
    <3> QED BY <1>5, <3>1, <3>2
  <2>2. f \in Local
    BY <1>1 DEF Local, Places
  <2>3. flow'[p].at = "streaming" /\ flow'[p].obj = p /\ flow'[p].sess = manager
    BY <1>0, <1>1, <2>1 DEF Local
  <2>4. FlowOk(p)'
    BY <1>2, <1>3, <1>4, <2>3 DEF FlowOk
  <2> HIDE DEF f
  <2> QED BY <1>0, <1>2, <2>1, <2>2, <2>4, PlaceSteps
<1>6. CASE HandoffReads(p)
  <2>1. CASE Goes(p, "threw")
    BY <1>0, <1>2, <2>1, EndingSteps
  <2>2. CASE flow' = [flow EXCEPT ![p].at = "marking", ![p].held = [lease EXCEPT !.active = FALSE]]
    <3> DEFINE h == [lease EXCEPT !.active = FALSE]
               f == [flow[p] EXCEPT !.at = "marking", !.held = h]
    <3>1. h \in Lease
      BY <1>1, <1>3 DEF Lease
    <3>2. flow' = [flow EXCEPT ![p] = f]
      BY <2>2
    <3>3. f \in Local
      BY <1>1, <3>1 DEF Local, Places
    <3>4. flow'[p].at = "marking" /\ flow'[p].obj = flow[p].obj /\ flow'[p].held = h
      BY <1>0, <1>1, <3>2 DEF Local
    <3>5. flow[p].obj = p /\ lease.gen < MaxGeneration
      BY <1>1, <1>6 DEF HandoffReads, At, FlowOk
    <3>6. FlowOk(p)'
      BY <1>2, <1>4, <3>4, <3>5 DEF FlowOk
    <3> HIDE DEF h, f
    <3> QED BY <1>0, <1>2, <3>2, <3>3, <3>6, PlaceSteps
  <2> QED BY <1>6, <2>1, <2>2 DEF HandoffReads, Throws
<1> QED BY <1>5, <1>6

\* The steps of a handoff after its lease is read.
LEMMA MarkedTypes ==
    ASSUME FlowInv, NEW p \in Callers,
           flow[p].at \in {"verifying", "replacing", "restarting", "accepting", "granting"}
    PROVE  /\ p \in Flows /\ flow \in [Flows -> Local] /\ flow[p] \in Local
           /\ Marked(p) /\ bound # None
           /\ lease \in Lease /\ flow[p].held = lease
           /\ binding[p] \in Binding /\ binding[p].ctl \in Controller
           /\ MyBinding(p) = binding[p]
<1>1. p \in Flows
  BY DEF Flows
<1>2. Marked(p)
  BY <1>1, FlowTypes DEF FlowOk
<1>3. lease \in Lease /\ flow[p].held = lease /\ binding[p] \in Binding /\ flow[p].obj = p
  BY <1>1, <1>2, FlowTypes DEF Marked
<1>4. bound # None
  BY <1>2, CallersAssumption DEF Marked
<1> QED BY <1>1, <1>2, <1>3, <1>4, FlowTypes DEF Binding, MyBinding

LEMMA HandoffMarksSteps ==
    ASSUME FlowInv, NEW p \in Callers, Alone(p), UNCHANGED stranded, HandoffMarks(p)
    PROVE  FlowInv' /\ Alone(p)'
<1> DEFINE f == [flow[p] EXCEPT !.at = "verifying"]
<1>1. /\ p \in Flows /\ flow \in [Flows -> Local] /\ flow[p] \in Local
      /\ InForce(p) /\ flow[p].obj = p /\ lease \in Lease /\ FlowOk(p)
  <2>1. p \in Flows
    BY DEF Flows
  <2> QED BY <2>1, StreamTypes, FlowTypes DEF HandoffMarks, At
<1>2. flow[p].held = [lease EXCEPT !.active = FALSE] /\ lease.gen < MaxGeneration
  BY <1>1 DEF HandoffMarks, At, FlowOk
<1>3. /\ lease' = flow[p].held /\ lease' \in Lease /\ lease' # None /\ ~lease'.active
      /\ lease'.ex = lease.ex /\ lease'.gen = lease.gen
  BY <1>1, <1>2, NoneAssumption DEF HandoffMarks, Lease
<1>4. UNCHANGED <<manager, live, bound, binding>> /\ flow' = [flow EXCEPT ![p] = f]
  BY DEF HandoffMarks, Goes
<1>5. f \in Local
  BY <1>1 DEF Local, Places
<1>6. flow'[p].at = "verifying" /\ flow'[p].obj = p /\ flow'[p].held = flow[p].held
  BY <1>1, <1>4 DEF Local
<1>7. Marked(p)' /\ (manager # None)' /\ SameTerm(lease, manager)'
  BY <1>1, <1>2, <1>3, <1>4, <1>6 DEF Marked, InForce, SameTerm, TermOf
<1>8. FlowOk(p)'
  BY <1>6, <1>7 DEF FlowOk
<1>9. OneSession' /\ bound' # None
  BY <1>1, <1>4, CallersAssumption DEF FlowInv, OneSession, InForce
<1> HIDE DEF f
<1> QED BY <1>1, <1>3, <1>4, <1>5, <1>8, <1>9, OneCallSteps, FlowTypes

LEMMA VerifySteps ==
    ASSUME FlowInv, NEW p \in Callers, Alone(p), UNCHANGED stranded,
           Verified(p) \/ Rejected(p) \/ RestartFails(p) \/ AcceptReads(p)
    PROVE  FlowInv' /\ Alone(p)'
<1>1. /\ p \in Flows /\ flow \in [Flows -> Local] /\ flow[p] \in Local
      /\ Marked(p) /\ bound # None /\ lease \in Lease
      /\ binding[p] \in Binding /\ binding[p].ctl \in Controller
      /\ MyBinding(p) = binding[p] /\ FlowOk(p)
  <2>1. p \in Flows
    BY DEF Flows
  <2> QED BY <2>1, MarkedTypes, FlowTypes DEF Verified, Rejected, RestartFails, AcceptReads, At
<1>2. CASE Verified(p)
  <2> DEFINE f == [flow[p] EXCEPT !.at = "replacing", !.sess = manager]
  <2>1. manager # None /\ manager \in Session /\ SameTerm(lease, manager)
    BY <1>1, <1>2, FlowTypes DEF Verified, At, FlowOk
  <2>2. flow' = [flow EXCEPT ![p] = f] /\ UNCHANGED <<lease, manager, live, bound, binding>>
    BY <1>2, <2>1 DEF Verified
  <2>3. f \in Local
    BY <1>1, <2>1 DEF Local, Places
  <2>4. flow'[p].at = "replacing" /\ flow'[p].obj = flow[p].obj
          /\ flow'[p].held = flow[p].held /\ flow'[p].sess = manager
    BY <1>1, <2>2 DEF Local
  <2>5. Marked(p)' /\ SameTerm(lease, manager)'
    BY <1>1, <2>1, <2>2, <2>4 DEF Marked, SameTerm, TermOf
  <2>6. FlowOk(p)'
    BY <2>1, <2>2, <2>4, <2>5 DEF FlowOk
  <2> HIDE DEF f
  <2> QED BY <1>1, <2>2, <2>3, <2>6, PlaceSteps
<1>3. CASE Rejected(p)
  <2> DEFINE f == [flow[p] EXCEPT !.at = "threw"]
  <2>1. flow' = [flow EXCEPT ![p] = f] /\ UNCHANGED <<lease, manager, live, bound>>
    BY <1>3 DEF Rejected, Throws, Goes
  <2>2. binding' \in [Callers -> Binding \cup {None}]
    BY <1>1, <1>3, AbortKeepsTerm, ControllerSteps DEF Rejected, Marked
  <2>3. f \in Local /\ flow'[p].at = "threw"
    BY <1>1, <2>1 DEF Local, Places
  <2>4. FlowOk(p)'
    BY <2>3 DEF FlowOk
  <2>5. OneSession' /\ bound' # None
    BY <1>1, <2>1 DEF FlowInv, OneSession
  <2> HIDE DEF f
  <2> QED BY <1>1, <2>1, <2>2, <2>3, <2>4, <2>5, OneCallSteps, FlowTypes
<1>4. CASE RestartFails(p)
  BY <1>1, <1>4, EndingSteps DEF RestartFails, Throws
<1>5. CASE AcceptReads(p)
  <2>1. CASE Goes(p, "threw")
    BY <1>1, <1>5, <2>1, EndingSteps DEF AcceptReads
  <2>2. CASE Goes(p, "granting")
    <3> DEFINE f == [flow[p] EXCEPT !.at = "granting"]
    <3>1. manager # None /\ manager.ex = Other(lease.ex) /\ manager.gen = lease.gen + 1
      BY <1>1, <1>5 DEF AcceptReads, At, FlowOk
    <3>2. flow' = [flow EXCEPT ![p] = f] /\ UNCHANGED <<lease, manager, live, bound, binding>>
      BY <1>5, <2>2 DEF AcceptReads, Goes
    <3>3. f \in Local
      BY <1>1 DEF Local, Places
    <3>4. flow'[p].at = "granting" /\ flow'[p].obj = flow[p].obj /\ flow'[p].held = flow[p].held
      BY <1>1, <3>2 DEF Local
    <3>5. Marked(p)'
      BY <1>1, <3>2, <3>4 DEF Marked, TermOf
    <3>6. FlowOk(p)'
      BY <3>1, <3>2, <3>4, <3>5 DEF FlowOk, Other
    <3> HIDE DEF f
    <3> QED BY <1>1, <3>2, <3>3, <3>6, PlaceSteps
  <2> QED BY <1>5, <2>1, <2>2 DEF AcceptReads
<1> QED BY <1>2, <1>3, <1>4, <1>5

\* The old session ends before the new one is asked for.
LEMMA ReplaceSteps ==
    ASSUME FlowInv, NEW p \in Callers, Alone(p), UNCHANGED stranded, Replaced(p) \/ Restarted(p)
    PROVE  FlowInv' /\ Alone(p)'
<1>1. /\ p \in Flows /\ flow \in [Flows -> Local] /\ flow[p] \in Local
      /\ Marked(p) /\ bound # None /\ lease \in Lease
      /\ binding[p] \in Binding /\ binding[p].ctl \in Controller
      /\ MyBinding(p) = binding[p] /\ FlowOk(p)
  <2>1. p \in Flows
    BY DEF Flows
  <2> QED BY <2>1, MarkedTypes, FlowTypes DEF Replaced, Restarted, At
<1>2. CASE Replaced(p)
  <2>1. /\ manager # None /\ manager \in Session /\ SameTerm(lease, manager)
        /\ flow[p].sess = manager
    BY <1>1, <1>2, FlowTypes DEF Replaced, At, FlowOk
  <2>2. live' = {} /\ manager' = None /\ UNCHANGED <<lease, bound, binding>>
    BY <1>2, <2>1 DEF Replaced, FlowInv, OneSession
  <2>3. PICK place \in {"restarting", "threw"} :
           flow' = [flow EXCEPT ![p] = [flow[p] EXCEPT !.at = place]]
    BY <1>2 DEF Replaced, Throws, Goes
  <2>4. [flow[p] EXCEPT !.at = place] \in Local
    BY <1>1 DEF Local, Places
  <2>5. flow'[p].at = place /\ flow'[p].obj = flow[p].obj
          /\ flow'[p].held = flow[p].held /\ flow'[p].sess = manager
    BY <1>1, <2>1, <2>3 DEF Local
  <2>6. Marked(p)' /\ SameTerm(lease', manager)
    BY <1>1, <2>1, <2>2, <2>5 DEF Marked, SameTerm, TermOf
  <2>7. FlowOk(p)'
    BY <2>1, <2>2, <2>5, <2>6 DEF FlowOk, SameTerm
  <2>8. OneSession' /\ bound' # None
    BY <1>1, <2>2 DEF OneSession
  <2> QED BY <1>1, <2>2, <2>3, <2>4, <2>7, <2>8, OneCallSteps, FlowTypes
<1>3. CASE Restarted(p)
  <2> DEFINE f == [flow[p] EXCEPT !.at = "accepting"]
             s == [ex |-> Other(binding[p].ctl.cur), gen |-> flow[p].sess.gen + 1, by |-> p]
  <2>1. manager = None /\ flow[p].sess # None /\ SameTerm(lease, flow[p].sess)
    BY <1>1, <1>3 DEF Restarted, At, FlowOk
  <2>2. s.ex = Other(lease.ex) /\ s.gen = lease.gen + 1
    BY <1>1, <2>1 DEF Marked, TermOf, SameTerm
  <2>3. s \in Session /\ s # None
    <3>1. Other(binding[p].ctl.cur) \in Executors
      BY <1>1, OtherIsOther DEF Controller
    <3>2. flow[p].sess.gen + 1 \in Generations
      BY <1>1, <2>1, FailoverBoundsAreNat DEF Marked, SameTerm, Lease, Generations
    <3> QED BY <3>1, <3>2, NoneAssumption DEF Session
  <2>4. /\ live' = {s} /\ manager' = s /\ UNCHANGED <<lease, bound, binding>>
        /\ flow' = [flow EXCEPT ![p] = f]
    BY <1>1, <1>3, <2>1 DEF Restarted, Goes, FlowInv, OneSession
  <2>5. f \in Local
    BY <1>1 DEF Local, Places
  <2>6. flow'[p].at = "accepting" /\ flow'[p].obj = flow[p].obj /\ flow'[p].held = flow[p].held
    BY <1>1, <2>4 DEF Local
  <2>7. Marked(p)'
    BY <1>1, <2>4, <2>6 DEF Marked, TermOf
  <2> HIDE DEF f, s
  <2>8. FlowOk(p)'
    BY <2>2, <2>3, <2>4, <2>6, <2>7 DEF FlowOk, Other
  <2>9. OneSession' /\ bound' # None
    BY <1>1, <2>3, <2>4 DEF OneSession
  <2> QED BY <1>1, <2>3, <2>4, <2>5, <2>8, <2>9, OneCallSteps, FlowTypes
<1> QED BY <1>2, <1>3

LEMMA GrantedSteps ==
    ASSUME FlowInv, NEW p \in Callers, Alone(p), UNCHANGED stranded, Granted(p)
    PROVE  FlowInv' /\ Alone(p)'
<1> DEFINE f == [flow[p] EXCEPT !.at = "resuming", !.held = None]
           l == [ex |-> Other(lease.ex), gen |-> lease.gen + 1, nonce |-> Fresh, active |-> TRUE]
           c == CommitVerifiedSwitch(binding[p].ctl)
           b == [lease |-> l, ctl |-> c]
<1>1. /\ p \in Flows /\ flow \in [Flows -> Local] /\ flow[p] \in Local
      /\ Marked(p) /\ bound # None /\ lease \in Lease /\ flow[p].held = lease
      /\ binding[p] \in Binding /\ binding[p].ctl \in Controller /\ flow[p].obj = p
      /\ MyBinding(p) = binding[p] /\ FlowOk(p)
  <2>1. p \in Flows
    BY DEF Flows
  <2> QED BY <2>1, MarkedTypes, FlowTypes DEF Granted, At, Marked
<1>2. manager # None /\ manager.ex = Other(lease.ex) /\ manager.gen = lease.gen + 1
  BY <1>1 DEF Granted, At, FlowOk
<1>3. lease.ex = binding[p].ctl.cur /\ lease.gen = binding[p].ctl.gen /\ lease.gen < MaxGeneration
        /\ bound = p
  BY <1>1 DEF Marked, TermOf
<1>4. l \in Lease /\ l # None
  <2>1. Other(lease.ex) \in Executors
    BY <1>1, OtherIsOther DEF Lease
  <2>2. lease.gen + 1 \in Generations
    BY <1>1, <1>3, FailoverBoundsAreNat DEF Lease, Generations
  <2>3. l \in Lease
    BY <2>1, <2>2, FreshIsNonce DEF Lease
  <2> HIDE DEF l
  <2> QED BY <2>3, NoneAssumption
<1>5. c \in Controller /\ c.cur = Other(lease.ex) /\ c.gen = lease.gen + 1
  BY <1>1, <1>3, CommitMovesOn
<1>6. b \in Binding /\ b # None /\ b.lease = l /\ b.ctl = c
  <2> HIDE DEF l, c
  <2>1. b \in Binding /\ b.lease = l /\ b.ctl = c
    BY <1>4, <1>5 DEF Binding
  <2> HIDE DEF b
  <2> QED BY <2>1, NoneAssumption
<1>7. /\ lease' = l /\ binding' = [binding EXCEPT ![p] = b]
      /\ flow' = [flow EXCEPT ![p] = f] /\ UNCHANGED <<manager, live, bound>>
  BY <1>1 DEF Granted
<1>8. f \in Local /\ flow'[p].at = "resuming" /\ flow'[p].obj = p
  BY <1>1, <1>7 DEF Local, Places
<1>9. l.ex = Other(lease.ex) /\ l.gen = lease.gen + 1 /\ l.active
  OBVIOUS
<1> HIDE DEF f, l, c, b
<1>10. binding' \in [Callers -> Binding \cup {None}] /\ binding'[p] = b
  BY <1>1, <1>6, <1>7, FlowTypes
<1>11. InForce(p)'
  BY <1>2, <1>3, <1>4, <1>5, <1>6, <1>7, <1>9, <1>10 DEF InForce, SameTerm, TermOf
<1>12. FlowOk(p)'
  BY <1>8, <1>11 DEF FlowOk
<1>13. OneSession' /\ bound' # None
  BY <1>1, <1>7 DEF FlowInv, OneSession
<1> QED BY <1>1, <1>4, <1>7, <1>8, <1>10, <1>12, <1>13, OneCallSteps, FlowTypes

\* close(): nothing is left when it is over.
LEMMA CloseAtSteps ==
    ASSUME FlowInv, NEW p \in Flows, Alone(p), CloseAt(p),
           UNCHANGED <<lease, manager, live, bound, binding, stranded>>
    PROVE  FlowInv' /\ Alone(p)' /\ flow'[p].at \in {"closing", "releasing"}
<1> DEFINE f == [at |-> IF manager = None THEN "releasing" ELSE "closing",
                 obj |-> bound, sess |-> manager, held |-> None]
<1>1. /\ flow \in [Flows -> Local] /\ manager \in Session \cup {None}
      /\ bound \in Callers \cup {None}
  BY FlowTypes
<1>2. flow' = [flow EXCEPT ![p] = f]
  BY DEF CloseAt
<1>3. f \in Local
  BY <1>1 DEF Local, Places
<1>4. flow'[p] = f
  BY <1>1, <1>2
<1>5. FlowOk(p)'
  BY <1>4 DEF FlowOk
<1>6. f.at \in {"closing", "releasing"}
  OBVIOUS
<1> HIDE DEF f
<1> QED BY <1>2, <1>3, <1>4, <1>5, <1>6, PlaceSteps

LEMMA RestSteps ==
    ASSUME FlowInv, NEW p \in Flows, Alone(p), flow' = [flow EXCEPT ![p] = AtRest],
           UNCHANGED <<lease, manager, live, bound, binding, stranded>>
    PROVE  FlowInv' /\ Alone(p)' /\ flow'[p].at = "idle"
<1>1. flow \in [Flows -> Local]
  BY FlowTypes
<1>2. flow'[p].at = "idle"
  BY <1>1, AtRestIsLocal
<1>3. FlowOk(p)'
  BY <1>2 DEF FlowOk
<1> QED BY <1>2, <1>3, AtRestIsLocal, PlaceSteps

LEMMA UnbindsSteps ==
    ASSUME FlowInv, NEW p \in Flows, Alone(p), Unbinds(p, None), manager = None,
           lease' \in {lease, None}, bound = None \/ lease = None \/ lease' = None,
           UNCHANGED <<manager, live, stranded>>
    PROVE  FlowInv' /\ Alone(p)' /\ flow'[p].at = "idle" /\ Vacant'
<1>1. /\ flow \in [Flows -> Local] /\ lease \in Lease \cup {None}
      /\ binding \in [Callers -> Binding \cup {None}]
  BY FlowTypes
<1>2. flow' = [flow EXCEPT ![p] = AtRest] /\ bound' = None
  BY DEF Unbinds
<1>3. binding' \in [Callers -> Binding \cup {None}]
  BY <1>1 DEF Unbinds
<1>4. flow'[p].at = "idle"
  BY <1>1, <1>2, AtRestIsLocal
<1>5. FlowOk(p)'
  BY <1>4 DEF FlowOk
<1>6. FreeLease' /\ OneSession'
  BY DEF FlowInv, FreeLease, Adoptable, OneSession
<1>7. FlowInv' /\ Alone(p)'
  BY <1>1, <1>2, <1>3, <1>5, <1>6, AtRestIsLocal, OneCallSteps
<1> QED BY <1>2, <1>4, <1>7 DEF Vacant

LEMMA ReleasesSteps ==
    ASSUME FlowInv, NEW p \in Flows, Alone(p), UNCHANGED stranded, Releases(p)
    PROVE  /\ FlowInv' /\ Alone(p)'
           /\ \/ flow'[p].at \in {"releasing", "unlinking"}
              \/ flow'[p].at = "idle" /\ Vacant'
<1>1. /\ flow \in [Flows -> Local] /\ flow[p] \in Local /\ FlowOk(p)
      /\ lease \in Lease \cup {None} /\ bound \in Callers \cup {None}
      /\ binding \in [Callers -> Binding \cup {None}]
  BY FlowTypes
<1>2. CASE Closed(p)
  <2> DEFINE f == [flow[p] EXCEPT !.at = "releasing"]
  <2>1. manager # None /\ flow[p].sess = manager /\ flow[p].obj = bound
    BY <1>1, <1>2 DEF Closed, At, FlowOk
  <2>2. /\ live' = {} /\ manager' = None /\ UNCHANGED <<lease, bound, binding>>
        /\ flow' = [flow EXCEPT ![p] = f]
    BY <1>2, <2>1 DEF Closed, Goes, FlowInv, OneSession
  <2>3. f \in Local /\ flow'[p].at = "releasing" /\ flow'[p].obj = bound
    BY <1>1, <2>1, <2>2 DEF Local, Places
  <2>4. FlowOk(p)'
    BY <2>2, <2>3 DEF FlowOk
  <2>5. OneSession' /\ (bound' = None => FreeLease')
    BY <2>2 DEF FlowInv, OneSession, FreeLease, Adoptable
  <2> HIDE DEF f
  <2> QED BY <1>1, <2>2, <2>3, <2>4, <2>5, OneCallSteps
<1>3. CASE ReleaseReads(p)
  <2>1. manager = None /\ flow[p].obj = bound /\ UNCHANGED <<lease, manager, live>>
    BY <1>1, <1>3 DEF ReleaseReads, At, FlowOk
  <2>2. CASE flow[p].obj = None \/ lease = None
    BY <1>3, <2>1, <2>2, UnbindsSteps DEF ReleaseReads
  <2>3. CASE ~(flow[p].obj = None \/ lease = None)
    <3> DEFINE f == [flow[p] EXCEPT !.at = "unlinking", !.held = lease]
    <3>1. flow' = [flow EXCEPT ![p] = f] /\ UNCHANGED <<lease, manager, live, bound, binding>>
      BY <1>3, <2>1, <2>3 DEF ReleaseReads
    <3>2. f \in Local /\ flow'[p].at = "unlinking"
      BY <1>1, <3>1 DEF Local, Places
    <3>3. FlowOk(p)'
      BY <2>1, <2>3, <3>1, <3>2 DEF FlowOk
    <3> HIDE DEF f
    <3> QED BY <3>1, <3>2, <3>3, PlaceSteps
  <2> QED BY <2>2, <2>3
<1>4. CASE Unlinked(p)
  <2>1. manager = None /\ lease # None
    BY <1>1, <1>4 DEF Unlinked, At, FlowOk
  <2>2. Unbinds(p, None) /\ lease' = None /\ UNCHANGED <<manager, live>>
    BY <1>4, <2>1 DEF Unlinked
  <2> QED BY <2>1, <2>2, UnbindsSteps
<1> QED BY <1>2, <1>3, <1>4 DEF Releases

LEMMA SwitchingSteps ==
    ASSUME FlowInv, NEW p \in Callers, Alone(p), UNCHANGED stranded, Switching(p) \/ Breaks(p)
    PROVE  FlowInv' /\ Alone(p)'
<1>1. p \in Flows
  BY DEF Flows
<1>2. CASE Breaks(p)
  BY <1>1, <1>2, EndingSteps DEF Breaks, Throws
<1>3. CASE Switching(p)
  BY <1>3, TurnSteps, HandoffMarksSteps, VerifySteps, ReplaceSteps DEF Switching
<1> QED BY <1>2, <1>3

-----------------------------------------------------------------------------
(* One launch at a time: who uses the executor, and when nobody does         *)

\* The hypothesis of the theorems below: launches of the session do not overlap.
OneLaunch == \A l, m \in Callers : ~JobAt(l, "none") /\ ~JobAt(m, "none") => l = m

Startable == disk.status \in {"ready"} \cup Retryable

Supervised ==
    {"prompting", "applying", "settling", "unknowing", "storing", "accepting", "blocking",
     "closing"}

\* The places of the call underneath that go with a place of the launch.
FlowPlaces(place) ==
    CASE place \in {"none", "loaded", "readying", "beginning"} -> {"idle"}
      [] place = "starting" -> {"starting", "binding", "acquiring", "undoing", "refused", "ready"}
      [] place = "failing" -> {"refused"}
      [] place = "entering" -> {"ready"}
      [] place = "prompting" -> {"streaming", "handing", "marking", "verifying", "replacing",
                                 "restarting", "accepting", "granting", "resuming", "threw"}
      [] place = "applying" -> {"streaming", "resuming", "returned"}
      [] place \in {"settling", "storing", "accepting", "blocking"} -> {"returned", "threw"}
      [] place = "unknowing" -> {"threw"}
      [] place = "closing" -> {"closing", "releasing", "unlinking", "idle"}

JobOk(l) ==
    /\ flow[l].at \in FlowPlaces(job[l].at)
    /\ job[l].at \in {"readying", "loaded", "beginning"} => Vacant
    /\ job[l].at = "closing" /\ flow[l].at = "idle" => Vacant
    /\ job[l].at \in {"prompting", "settling"} /\ Startable => job[l].rec.status \in Retryable
    /\ job[l].at \in {"prompting", "applying", "settling"} => job[l].rec.status # "ready"
    /\ job[l].at = "entering" => job[l].rec.status = "running"
    /\ job[l].at = "unknowing" => job[l].rec.status = "outcome_unknown"

OperationOk ==
    /\ op.at = "saving" => flow[Outside].at = "idle"
    /\ op.at = "closing" =>
          /\ op.kind = "resolve" /\ ~LaunchUnderWay
          /\ flow[Outside].at \in FlowPlaces("closing")
          /\ flow[Outside].at = "idle" => Vacant
    /\ op.kind \in {"cancel", "permit"} => op.to \in {"cancelled", "running"}

\* A session that may be launched again has nothing left of the launch before:
\* an unreleased executor keeps its record from being startable.
Quarantine == ~LaunchUnderWay /\ op.at = "saving" /\ Startable => Vacant

SupervisorOk == active # None => active \in Callers /\ job[active].at \in Supervised

ExecInv ==
    /\ RecordInv
    /\ ~disputed =>
          /\ FlowInv
          /\ \A l \in Callers : JobOk(l)
          /\ OperationOk
          /\ Quarantine
          /\ SupervisorOk

LEMMA JobTypes ==
    ASSUME ExecInv, NEW l \in Callers
    PROVE  job \in [Callers -> Job] /\ job[l] \in Job /\ job[l].rec \in Record
             /\ disk \in Record /\ op.at \in {"saving", "closing"}
             /\ op.kind \in {"none", "cancel", "permit", "resolve"}
BY DEF ExecInv, RecordInv, TypeRecord, Job, Operation

LEMMA LaunchFacts ==
    ASSUME ExecInv, ~disputed, OneLaunch, NEW l \in Callers, ~JobAt(l, "none")
    PROVE  /\ l \in Flows /\ FlowInv /\ Alone(l) /\ JobOk(l)
           /\ op.at = "saving"
           /\ active # None => active = l /\ job[l].at \in Supervised
<1>1. LaunchUnderWay
  BY DEF LaunchUnderWay
<1>2. op.at = "saving" /\ flow[Outside].at = "idle"
  BY <1>1, JobTypes DEF ExecInv, OperationOk
<1>3. \A m \in Callers : m # l => job[m].at = "none" /\ flow[m].at = "idle"
  BY DEF OneLaunch, JobAt, ExecInv, JobOk, FlowPlaces
<1>4. Alone(l)
  BY <1>2, <1>3 DEF Alone, Flows
<1>5. active # None => active = l /\ job[l].at \in Supervised
  BY <1>3 DEF ExecInv, SupervisorOk, Supervised
<1> QED BY <1>2, <1>4, <1>5 DEF ExecInv, Flows

\* A step of the launch l: the others are not under way.
LEMMA OneLaunchSteps ==
    ASSUME ExecInv, ~disputed, OneLaunch, NEW l \in Callers, ~JobAt(l, "none"), NEW j \in Job,
           job' = [job EXCEPT ![l] = j], RecordInv', UNCHANGED op,
           FlowInv', Alone(l)', JobOk(l)',
           active' # None => active' = l /\ j.at \in Supervised,
           j.at = "none" /\ Startable' => Vacant'
    PROVE  ExecInv'
<1>1. job \in [Callers -> Job] /\ op.at = "saving"
  BY JobTypes, LaunchFacts
<1>2. job'[l] = j /\ \A m \in Callers : m # l => job'[m].at = "none"
  BY <1>1 DEF OneLaunch, JobAt
<1>3. \A m \in Callers : m # l => flow'[m].at = "idle"
  BY DEF Alone, Flows
<1>4. flow'[Outside].at = "idle"
  BY CallersAssumption DEF Alone, Flows
<1>5. \A m \in Callers : JobOk(m)'
  <2> TAKE m \in Callers
  <2>1. CASE m = l
    BY <2>1
  <2>2. CASE m # l
    BY <1>2, <1>3, <2>2 DEF JobOk, FlowPlaces
  <2> QED BY <2>1, <2>2
<1>6. OperationOk'
  BY <1>1, <1>4 DEF OperationOk, ExecInv
<1>7. Quarantine'
  BY <1>1, <1>2 DEF Quarantine, LaunchUnderWay, JobAt
<1>8. SupervisorOk'
  BY <1>2 DEF SupervisorOk
<1> QED BY <1>5, <1>6, <1>7, <1>8 DEF ExecInv

LEMMA NoJobPlaces ==
    /\ NoJob \in Job /\ [NoJob EXCEPT !.at = "closing"] \in Job
    /\ NoJob.at = "none" /\ [NoJob EXCEPT !.at = "closing"].at = "closing"
BY NoJobTyped DEF NoJob

LEMMA FlowUnchanged ==
    ASSUME FlowInv, UNCHANGED <<lease, manager, live, bound, binding, flow, stranded>>
    PROVE  FlowInv'
<1>1. TypeFailover'
  BY DEF FlowInv, TypeFailover
<1>2. OneSession' /\ (bound' = None => FreeLease')
  BY DEF FlowInv, OneSession, FreeLease, Adoptable
<1>3. \A p \in Flows : FlowOk(p)'
  <2> TAKE p \in Flows
  <2>1. FlowOk(p)
    BY DEF FlowInv
  <2>2. (InForce(p) => InForce(p)') /\ (Marked(p) => Marked(p)') /\ (Vacant => Vacant')
    BY DEF InForce, Marked, Vacant, SameTerm, TermOf
  <2> QED BY <2>1, <2>2 DEF FlowOk, SameTerm, Other
<1> QED BY <1>1, <1>2, <1>3 DEF FlowInv

LEMMA LaunchKeepsExec ==
    ASSUME ExecInv, ~disputed, ~disputed', OneLaunch, OneLaunch', RecordInv', NEW l \in Callers,
           Launch(l)
    PROVE  ExecInv'
<1>1. job[l].at = "none" /\ op.kind # "resolve" /\ Startable
  BY DEF Launch, JobAt, MayLaunch, Startable
<1>2. UNCHANGED <<lease, manager, live, bound, binding, flow, disk, active, op, stranded>>
  BY DEF Launch, failoverVars, recordVars
<1> DEFINE j == [at |-> IF disk.status = "ready" THEN "loaded" ELSE "readying",
                 rec |-> [disk EXCEPT !.status = "ready"], read |-> NoJob.read]
<1>3. job' = [job EXCEPT ![l] = j] /\ j.at \in {"loaded", "readying"}
  BY DEF Launch
<1> HIDE DEF j
<1>4. job \in [Callers -> Job] /\ op.at = "saving"
  BY <1>1, JobTypes DEF ExecInv, OperationOk
<1>5. job'[l] = j /\ \A m \in Callers : m # l => job'[m] = job[m]
  BY <1>3, <1>4
<1>6. \A m \in Callers : m # l => job[m].at = "none"
  BY <1>3, <1>5 DEF OneLaunch, JobAt
<1>7. Vacant /\ ~LaunchUnderWay
  BY <1>1, <1>4, <1>6 DEF ExecInv, Quarantine, LaunchUnderWay, JobAt
<1>8. FlowInv'
  BY <1>2, FlowUnchanged DEF ExecInv
<1>9. \A m \in Callers : JobOk(m)'
  <2> TAKE m \in Callers
  <2>1. JobOk(m) /\ flow'[m].at = "idle"
    BY <1>1, <1>2, <1>6 DEF ExecInv, JobOk, FlowPlaces
  <2>2. CASE m = l
    BY <1>2, <1>3, <1>5, <1>7, <2>1, <2>2 DEF JobOk, FlowPlaces, Vacant
  <2>3. CASE m # l
    BY <1>5, <1>6, <2>1, <2>3 DEF JobOk, FlowPlaces
  <2> QED BY <2>2, <2>3
<1>10. OperationOk'
  BY <1>2, <1>4 DEF ExecInv, OperationOk
<1>11. Quarantine'
  BY <1>3, <1>5 DEF Quarantine, LaunchUnderWay, JobAt
<1>12. SupervisorOk'
  BY <1>1, <1>2, <1>5, <1>6 DEF ExecInv, SupervisorOk, Supervised
<1> QED BY <1>8, <1>9, <1>10, <1>11, <1>12 DEF ExecInv

LEMMA LaunchingKeepsExec ==
    ASSUME ExecInv, ~disputed, OneLaunch, RecordInv', NEW l \in Callers,
           \/ Readied(l) \/ Begin(l) \/ Begun(l) \/ ExecutorStarted(l) \/ ExecutorBinding(l)
           \/ Refused(l) \/ StartFailed(l) \/ Enter(l) \/ Entered(l)
    PROVE  ExecInv'
<1>1. ~JobAt(l, "none") /\ UNCHANGED <<op, stranded>>
  BY DEF Readied, Begin, Begun, ExecutorStarted, ExecutorBinding, Refused, StartFailed, Enter,
         Entered, JobAt, sessionVars, historyVars
<1>2. /\ l \in Flows /\ FlowInv /\ Alone(l) /\ JobOk(l) /\ FlowOk(l)
      /\ active # None => active = l /\ job[l].at \in Supervised
  BY <1>1, LaunchFacts DEF FlowInv
<1>3. /\ job \in [Callers -> Job] /\ job[l] \in Job /\ job[l].rec \in Record
      /\ flow \in [Flows -> Local] /\ flow[l] \in Local
  BY <1>2, JobTypes, FlowTypes
<1>4. CASE Readied(l) \/ Begin(l)
  <2>1. PICK place \in {"loaded", "beginning"} : \E r \in Record :
           job' = [job EXCEPT ![l] = [job[l] EXCEPT !.rec = r, !.at = place]]
    <3>1. CASE Readied(l)
      <4>1. job' = [job EXCEPT ![l] = [job[l] EXCEPT !.at = "loaded"]]
        BY <3>1 DEF Readied, Saves, JobGoes
      <4>2. [job[l] EXCEPT !.at = "loaded"] = [job[l] EXCEPT !.rec = job[l].rec, !.at = "loaded"]
        BY <1>3 DEF Job
      <4> QED BY <1>3, <4>1, <4>2
    <3>2. CASE Begin(l)
      <4> DEFINE r == [status |-> "starting", attempt |-> job[l].rec.attempt + 1]
      <4>1. job' = [job EXCEPT ![l] = [job[l] EXCEPT !.rec = r, !.at = "beginning"]]
        BY <3>2 DEF Begin
      <4>2. job'[l].rec = r /\ job'[l] \in Job
        BY <1>3, <4>1 DEF RecordInv, TypeRecord, Job
      <4>3. r \in Record
        BY <4>2 DEF Job
      <4> QED BY <4>1, <4>3
    <3> QED BY <1>4, <3>1, <3>2
  <2>2. PICK r \in Record :
           job' = [job EXCEPT ![l] = [job[l] EXCEPT !.rec = r, !.at = place]]
    BY <2>1
  <2> DEFINE j == [job[l] EXCEPT !.rec = r, !.at = place]
  <2>3. job'[l] = j /\ j \in Job /\ j.at = place
    BY <1>3, <2>2 DEF RecordInv, TypeRecord, Job
  <2>4. UNCHANGED <<lease, manager, live, bound, binding, flow, active>>
    BY <1>4 DEF Readied, Begin, failoverVars
  <2>5. FlowInv' /\ Alone(l)'
    BY <1>1, <1>2, <2>4, FlowUnchanged DEF Alone
  <2>6. Vacant /\ flow[l].at = "idle" /\ active = None
    BY <1>2, <1>4 DEF Readied, Begin, JobAt, JobOk, FlowPlaces, Supervised
  <2> HIDE DEF j
  <2>7. JobOk(l)'
    BY <2>3, <2>4, <2>6 DEF JobOk, FlowPlaces, Vacant
  <2> QED BY <1>1, <2>2, <2>3, <2>4, <2>5, <2>6, <2>7, OneLaunchSteps DEF j
<1>5. CASE Begun(l)
  <2> DEFINE j == [job[l] EXCEPT !.at = "starting"]
  <2>1. job' = [job EXCEPT ![l] = j] /\ UNCHANGED active
    BY <1>5 DEF Begun, Saves, JobGoes
  <2>2. job'[l] = j /\ j \in Job /\ j.at = "starting"
    BY <1>3, <2>1 DEF Job, JobPlaces
  <2>3. Vacant /\ active = None
    BY <1>2, <1>5 DEF Begun, JobAt, JobOk, FlowPlaces, Supervised
  <2>4. FlowInv' /\ Alone(l)'
    BY <1>1, <1>2, <1>5, <2>3, StartSteps DEF Begun
  <2>5. flow'[l].at \in {"starting", "refused"}
    BY <1>2, <1>3, <1>5 DEF Begun, Start, Goes, Local
  <2> HIDE DEF j
  <2>6. JobOk(l)'
    BY <2>2, <2>5 DEF JobOk, FlowPlaces
  <2> QED BY <1>1, <2>1, <2>2, <2>3, <2>4, <2>6, OneLaunchSteps
<1>6. CASE ExecutorStarted(l) \/ ExecutorBinding(l)
  <2>1. job[l].at = "starting" /\ job' = [job EXCEPT ![l] = job[l]] /\ UNCHANGED <<job, active>>
    BY <1>3, <1>6 DEF ExecutorStarted, ExecutorBinding, JobAt, sessionVars
  <2>2. FlowInv' /\ Alone(l)'
    BY <1>1, <1>2, <1>6, StartSteps, BindSteps DEF ExecutorStarted, ExecutorBinding
  <2>3. flow'[l].at \in {"binding", "acquiring", "undoing", "refused", "ready"}
    BY <1>2, <1>3, <1>6
       DEF ExecutorStarted, ExecutorBinding, Started, StartFails, Binds, BindReads, Acquire, Undo,
           Bind, Goes, Local
  <2>4. JobOk(l)' /\ active = None
    BY <1>2, <2>1, <2>3 DEF JobOk, FlowPlaces, Supervised
  <2> QED BY <1>1, <1>3, <2>1, <2>2, <2>4, OneLaunchSteps
<1>7. CASE Refused(l) \/ Enter(l)
  <2>1. PICK place \in {"failing", "entering"}, s \in {"failed", "running"} :
           /\ job' = [job EXCEPT ![l] = [job[l] EXCEPT !.rec.status = s, !.at = place]]
           /\ flow[l].at = IF place = "failing" THEN "refused" ELSE "ready"
           /\ place = "entering" => s = "running"
    BY <1>7 DEF Refused, Enter, Sets, At
  <2> DEFINE j == [job[l] EXCEPT !.rec.status = s, !.at = place]
  <2>2. job'[l] = j /\ j \in Job /\ j.at = place /\ j.rec.status = s
    BY <1>3, <2>1 DEF Job, JobPlaces, Record, Statuses
  <2>3. UNCHANGED <<lease, manager, live, bound, binding, flow, active>>
    BY <1>7 DEF Refused, Enter, failoverVars
  <2>4. FlowInv' /\ Alone(l)'
    BY <1>1, <1>2, <2>3, FlowUnchanged DEF Alone
  <2>5. active = None
    BY <1>2, <1>7 DEF Refused, Enter, JobAt, Supervised
  <2> HIDE DEF j
  <2>6. JobOk(l)'
    BY <2>1, <2>2, <2>3 DEF JobOk, FlowPlaces
  <2> QED BY <1>1, <2>1, <2>2, <2>3, <2>4, <2>5, <2>6, OneLaunchSteps DEF j
<1>8. CASE StartFailed(l)
  <2>1. /\ job' = [job EXCEPT ![l] = NoJob] /\ flow' = [flow EXCEPT ![l] = AtRest]
        /\ UNCHANGED <<lease, manager, live, bound, binding, active>>
    BY <1>8 DEF StartFailed, Ends
  <2>2. Vacant' /\ active = None
    BY <1>2, <1>8, <2>1 DEF StartFailed, JobAt, JobOk, FlowPlaces, FlowOk, Vacant, Supervised
  <2>3. FlowInv' /\ Alone(l)' /\ flow'[l].at = "idle"
    BY <1>1, <1>2, <2>1, RestSteps
  <2>4. JobOk(l)'
    BY <1>3, <2>1, <2>3, NoJobPlaces DEF JobOk, FlowPlaces
  <2> QED BY <1>1, <2>1, <2>2, <2>3, <2>4, NoJobPlaces, OneLaunchSteps
<1>9. CASE Entered(l)
  <2> DEFINE j == [job[l] EXCEPT !.at = "prompting"]
  <2>1. active = None
    BY <1>2, <1>9 DEF Entered, JobAt, Supervised
  <2>2. active' = l /\ job' = [job EXCEPT ![l] = j] /\ Prompt(l) /\ disk' = job[l].rec
    BY <1>9, <2>1 DEF Entered, JobGoes
  <2>3. job'[l] = j /\ j \in Job /\ j.at = "prompting" /\ j.rec = job[l].rec
    BY <1>3, <2>2 DEF Job, JobPlaces
  <2>4. FlowInv' /\ Alone(l)'
    BY <1>1, <1>2, <2>2, TurnSteps
  <2>5. flow'[l].at \in {"streaming", "threw"}
    BY <1>2, <1>3, <2>2 DEF Prompt, Local
  <2>6. job[l].rec.status = "running"
    BY <1>2, <1>9 DEF Entered, JobAt, JobOk
  <2> HIDE DEF j
  <2>7. JobOk(l)'
    BY <2>2, <2>3, <2>5, <2>6 DEF JobOk, FlowPlaces, Startable, Retryable
  <2>8. j.at \in Supervised
    BY <2>3 DEF Supervised
  <2> QED BY <1>1, <2>2, <2>3, <2>4, <2>7, <2>8, OneLaunchSteps
<1> QED BY <1>4, <1>5, <1>6, <1>7, <1>8, <1>9

LEMMA EventKeepsExec ==
    ASSUME ExecInv, ~disputed, OneLaunch, RecordInv', NEW l \in Callers, JobAt(l, "prompting"),
           NEW s \in Statuses \ {"ready"}, OnEvent(l, s), UNCHANGED <<active, op, stranded>>,
           FlowInv', Alone(l)', flow'[l].at \in {"streaming", "resuming", "returned"}
    PROVE  ExecInv'
<1>1. ~JobAt(l, "none") /\ job[l].at = "prompting"
  BY DEF JobAt
<1>2. JobOk(l) /\ (active # None => active = l)
  BY <1>1, LaunchFacts
<1>3. job \in [Callers -> Job] /\ job[l] \in Job /\ job[l].rec \in Record
  BY JobTypes
<1>4. PICK t \in {s, job[l].rec.status} :
        job' = [job EXCEPT ![l] = [job[l] EXCEPT !.rec.status = t, !.at = "applying"]]
  BY DEF OnEvent, Sets
<1> DEFINE j == [job[l] EXCEPT !.rec.status = t, !.at = "applying"]
<1>5. job'[l] = j /\ j \in Job /\ j.at = "applying" /\ j.rec.status = t
  BY <1>3, <1>4 DEF Job, JobPlaces, Record
<1>6. t # "ready"
  BY <1>1, <1>2 DEF JobOk
<1> HIDE DEF j
<1>7. JobOk(l)'
  BY <1>5, <1>6 DEF JobOk, FlowPlaces
<1>8. j.at \in Supervised /\ j.at # "none"
  BY <1>5 DEF Supervised
<1> QED BY <1>1, <1>2, <1>4, <1>5, <1>7, <1>8, OneLaunchSteps DEF j

LEMMA PromptingKeepsExec ==
    ASSUME ExecInv, ~disputed, OneLaunch, RecordInv', NEW l \in Callers, Prompting(l)
    PROVE  ExecInv'
<1>1. ~JobAt(l, "none") /\ UNCHANGED <<op, stranded>>
  BY DEF Prompting, Message, PermissionRequested, Fails, Switches, Completes, PromptBreaks, Threw,
         BecameUnknown, Applies, JobAt, sessionVars, historyVars
<1>2. /\ l \in Flows /\ FlowInv /\ Alone(l) /\ JobOk(l) /\ FlowOk(l)
      /\ active # None => active = l /\ job[l].at \in Supervised
  BY <1>1, LaunchFacts DEF FlowInv
<1>3. /\ job \in [Callers -> Job] /\ job[l] \in Job /\ job[l].rec \in Record
      /\ flow \in [Flows -> Local] /\ flow[l] \in Local
  BY <1>2, JobTypes, FlowTypes
<1>4. CASE Message(l) \/ PermissionRequested(l)
  <2>1. PICK s \in {"running", "waiting_input"} : OnEvent(l, s)
    BY <1>4 DEF Message, PermissionRequested
  <2>2. JobAt(l, "prompting") /\ UNCHANGED active
    BY <1>4 DEF Message, PermissionRequested
  <2>3. CASE Hears(l) /\ UNCHANGED failoverVars
    <3>1. FlowInv' /\ Alone(l)'
      BY <1>1, <1>2, <2>3, FlowUnchanged DEF Alone, failoverVars
    <3>2. flow'[l].at = "streaming"
      BY <2>3 DEF Hears, At, failoverVars
    <3> QED BY <1>1, <2>1, <2>2, <3>1, <3>2, EventKeepsExec DEF Statuses
  <2>4. CASE \E code \in Codes : FailureRetried(l, code)
    <3>1. FlowInv' /\ Alone(l)'
      BY <1>1, <1>2, <2>4, StreamSteps
    <3>2. flow'[l].at = "resuming"
      BY <1>2, <1>3, <2>4 DEF FailureRetried, Goes, Local
    <3> QED BY <1>1, <2>1, <2>2, <3>1, <3>2, EventKeepsExec DEF Statuses
  <2>5. CASE Granted(l)
    <3>1. FlowInv' /\ Alone(l)'
      BY <1>1, <1>2, <2>5, GrantedSteps
    <3>2. flow'[l].at = "resuming"
      BY <1>2, <1>3, <2>5 DEF Granted, Local
    <3> QED BY <1>1, <2>1, <2>2, <3>1, <3>2, EventKeepsExec DEF Statuses
  <2> QED BY <1>4, <2>3, <2>4, <2>5 DEF Message, PermissionRequested
<1>5. CASE Fails(l)
  <2>1. PICK code \in Codes : FailurePassedOn(l, code) /\ OnEvent(l, FailedStatus(code))
    BY <1>5 DEF Fails
  <2>2. FailedStatus(code) \in Statuses \ {"ready"}
    BY DEF FailedStatus, Statuses
  <2>3. FlowInv' /\ Alone(l)'
    BY <1>1, <1>2, <2>1, StreamSteps
  <2>4. flow'[l].at = "streaming" /\ JobAt(l, "prompting") /\ UNCHANGED active
    BY <1>5, <2>1 DEF Fails, FailurePassedOn, Hears, At
  <2> QED BY <1>1, <2>1, <2>2, <2>3, <2>4, EventKeepsExec
<1>6. CASE Completes(l)
  <2>1. PICK ok \in BOOLEAN, s \in {"delivering", "failed", "cancelled"} :
           Completed(l, ok) /\ OnEvent(l, s)
    BY <1>6 DEF Completes
  <2>2. FlowInv' /\ Alone(l)'
    BY <1>1, <1>2, <2>1, StreamSteps
  <2>3. flow'[l].at = "returned" /\ JobAt(l, "prompting") /\ UNCHANGED active
    BY <1>2, <1>3, <1>6, <2>1 DEF Completes, Completed, Goes, Local
  <2> QED BY <1>1, <2>1, <2>2, <2>3, EventKeepsExec DEF Statuses
<1>7. CASE Switches(l) \/ PromptBreaks(l)
  <2>1. /\ job[l].at = "prompting" /\ job' = [job EXCEPT ![l] = job[l]]
        /\ UNCHANGED <<job, active, disk>>
    BY <1>3, <1>7 DEF Switches, PromptBreaks, JobAt, sessionVars, recordVars
  <2>2. FlowInv' /\ Alone(l)'
    BY <1>1, <1>2, <1>7, StreamSteps, SwitchingSteps DEF Switches, PromptBreaks
  <2>3. flow'[l].at \in FlowPlaces("prompting")
    <3>1. CASE PromptBreaks(l)
      BY <1>2, <1>3, <3>1 DEF PromptBreaks, Breaks, Throws, Goes, Local, FlowPlaces
    <3>2. CASE \E code \in Codes : FailureSwitches(l, code)
      BY <1>2, <1>3, <3>2 DEF FailureSwitches, Goes, Local, FlowPlaces
    <3>3. CASE Switching(l)
      <4>1. flow'[l].at \in {"streaming", "marking", "verifying", "replacing", "restarting",
                              "accepting", "granting", "threw"}
        BY <1>2, <1>3, <3>3
           DEF Switching, HandoffReads, HandoffMarks, Verified, Rejected, Replaced, Restarted,
               RestartFails, AcceptReads, Resumes, Throws, Goes, Local
      <4> QED BY <4>1 DEF FlowPlaces
    <3> QED BY <1>7, <3>1, <3>2, <3>3 DEF Switches
  <2>4. JobOk(l)'
    BY <1>2, <2>1, <2>3 DEF JobOk, Startable
  <2> QED BY <1>1, <1>2, <1>3, <2>1, <2>2, <2>4, OneLaunchSteps
<1>8. CASE Threw(l)
  <2>1. /\ job[l].at = "prompting" /\ flow[l].at = "threw"
        /\ UNCHANGED <<lease, manager, live, bound, binding, flow, active, disk>>
    BY <1>8 DEF Threw, JobAt, At, failoverVars, recordVars
  <2>2. FlowInv' /\ Alone(l)'
    BY <1>1, <1>2, <2>1, FlowUnchanged DEF Alone
  <2>3. CASE JobGoes(l, "settling")
    <3> DEFINE j == [job[l] EXCEPT !.at = "settling"]
    <3>1. job' = [job EXCEPT ![l] = j]
      BY <2>3 DEF JobGoes
    <3>2. job'[l] = j /\ j \in Job /\ j.at = "settling" /\ j.rec = job[l].rec
      BY <1>3, <3>1 DEF Job, JobPlaces
    <3> HIDE DEF j
    <3>3. JobOk(l)'
      BY <1>2, <2>1, <3>2 DEF JobOk, FlowPlaces, Startable
    <3>4. j.at \in Supervised /\ j.at # "none"
      BY <3>2 DEF Supervised
    <3> QED BY <1>1, <1>2, <2>1, <2>2, <3>1, <3>2, <3>3, <3>4, OneLaunchSteps
  <2>4. CASE Sets(l, "outcome_unknown", "unknowing")
    <3> DEFINE j == [job[l] EXCEPT !.rec.status = "outcome_unknown", !.at = "unknowing"]
    <3>1. job' = [job EXCEPT ![l] = j]
      BY <2>4 DEF Sets
    <3>2. job'[l] = j /\ j \in Job /\ j.at = "unknowing" /\ j.rec.status = "outcome_unknown"
      BY <1>3, <3>1 DEF Job, JobPlaces, Record, Statuses
    <3> HIDE DEF j
    <3>3. JobOk(l)'
      BY <2>1, <3>2 DEF JobOk, FlowPlaces
    <3>4. j.at \in Supervised /\ j.at # "none"
      BY <3>2 DEF Supervised
    <3> QED BY <1>1, <1>2, <2>1, <2>2, <3>1, <3>2, <3>3, <3>4, OneLaunchSteps
  <2> QED BY <1>8, <2>3, <2>4 DEF Threw
<1>9. CASE BecameUnknown(l)
  <2>1. /\ job' = [job EXCEPT ![l] = NoJob] /\ flow' = [flow EXCEPT ![l] = AtRest]
        /\ UNCHANGED <<lease, manager, live, bound, binding>>
        /\ disk' = job[l].rec /\ active' = None
    BY <1>2, <1>9 DEF BecameUnknown, EndsActive, Ends
  <2>2. ~Startable'
    BY <1>2, <1>9, <2>1 DEF BecameUnknown, JobAt, JobOk, Startable, Retryable
  <2>3. FlowInv' /\ Alone(l)' /\ flow'[l].at = "idle"
    BY <1>1, <1>2, <2>1, RestSteps
  <2>4. JobOk(l)'
    BY <1>3, <2>1, <2>3, NoJobPlaces DEF JobOk, FlowPlaces
  <2> QED BY <1>1, <2>1, <2>2, <2>3, <2>4, NoJobPlaces, OneLaunchSteps
<1>10. CASE Applies(l)
  <2>1. /\ job[l].at = "applying" /\ disk' = job[l].rec
        /\ UNCHANGED <<lease, manager, live, bound, binding, flow, active>>
    BY <1>10 DEF Applies, Saves, JobAt, failoverVars
  <2>2. FlowInv' /\ Alone(l)'
    BY <1>1, <1>2, <2>1, FlowUnchanged DEF Alone
  <2>3. PICK place \in {"settling", "prompting"} :
          /\ job' = [job EXCEPT ![l] = [job[l] EXCEPT !.at = place]]
          /\ place = "settling" <=> flow[l].at = "returned"
    BY <1>10 DEF Applies, Saves, JobGoes, At
  <2> DEFINE j == [job[l] EXCEPT !.at = place]
  <2>4. job'[l] = j /\ j \in Job /\ j.at = place /\ j.rec = job[l].rec
    BY <1>3, <2>3 DEF Job, JobPlaces
  <2> HIDE DEF j
  <2>5. job[l].rec.status # "ready" /\ flow[l].at \in {"streaming", "resuming", "returned"}
    BY <1>2, <2>1 DEF JobOk, FlowPlaces
  <2>6. JobOk(l)'
    BY <2>1, <2>3, <2>4, <2>5 DEF JobOk, FlowPlaces, Startable
  <2>7. j.at \in Supervised /\ j.at # "none"
    BY <2>4 DEF Supervised
  <2> QED BY <1>1, <1>2, <2>1, <2>2, <2>3, <2>4, <2>6, <2>7, OneLaunchSteps DEF j
<1> QED BY <1>4, <1>5, <1>6, <1>7, <1>8, <1>9, <1>10 DEF Prompting

LEMMA SettlingKeepsExec ==
    ASSUME ExecInv, ~disputed, OneLaunch, RecordInv', NEW l \in Callers, Settling(l)
    PROVE  ExecInv'
<1>1. ~JobAt(l, "none") /\ UNCHANGED <<op, stranded>>
  BY DEF Settling, Settles, Stored, SettledSaved, Releasing, LaunchReleased, JobAt, sessionVars,
         historyVars
<1>2. /\ l \in Flows /\ FlowInv /\ Alone(l) /\ JobOk(l) /\ FlowOk(l)
      /\ active # None => active = l /\ job[l].at \in Supervised
  BY <1>1, LaunchFacts DEF FlowInv
<1>3. /\ job \in [Callers -> Job] /\ job[l] \in Job /\ job[l].rec \in Record /\ disk \in Record
      /\ flow \in [Flows -> Local] /\ flow[l] \in Local
  BY <1>2, JobTypes, FlowTypes
<1> DEFINE j == [NoJob EXCEPT !.at = "closing"]
<1>4. ASSUME job' = [job EXCEPT ![l] = j], CloseAt(l), UNCHANGED active,
             UNCHANGED <<lease, manager, live, bound, binding>>
      PROVE  ExecInv'
  <2>1. j \in Job /\ j.at = "closing" /\ job'[l] = j
    BY <1>3, <1>4, NoJobPlaces
  <2> HIDE DEF j
  <2>2. FlowInv' /\ Alone(l)' /\ flow'[l].at \in {"closing", "releasing"}
    BY <1>1, <1>2, <1>4, CloseAtSteps
  <2>3. JobOk(l)'
    BY <2>1, <2>2 DEF JobOk, FlowPlaces
  <2> QED BY <1>1, <1>2, <1>4, <2>1, <2>2, <2>3, OneLaunchSteps DEF Supervised
<1>5. CASE Settles(l)
  <2>1. job[l].at = "settling" /\ UNCHANGED <<lease, manager, live, bound, binding, disk>>
    BY <1>5 DEF Settles, JobAt, recordVars
  <2>2. CASE /\ \/ job' = [job EXCEPT ![l].at = "storing", ![l].read = disk]
                \/ job' = [job EXCEPT ![l].at = "blocking", ![l].read = disk]
             /\ UNCHANGED active
    <3>1. PICK place \in {"storing", "blocking"} :
             job' = [job EXCEPT ![l] = [job[l] EXCEPT !.at = place, !.read = disk]]
      BY <2>2
    <3> DEFINE k == [job[l] EXCEPT !.at = place, !.read = disk]
    <3>2. job'[l] = k /\ k \in Job /\ k.at = place
      BY <1>3, <3>1 DEF Job, JobPlaces
    <3> HIDE DEF k
    <3>3. UNCHANGED flow
      BY <1>5, <3>2 DEF Settles
    <3>4. FlowInv' /\ Alone(l)'
      BY <1>1, <1>2, <2>1, <3>3, FlowUnchanged DEF Alone
    <3>5. JobOk(l)'
      BY <1>2, <2>1, <3>2, <3>3 DEF JobOk, FlowPlaces
    <3>6. k.at \in Supervised /\ k.at # "none"
      BY <3>2 DEF Supervised
    <3> QED BY <1>1, <1>2, <2>2, <3>1, <3>2, <3>4, <3>5, <3>6, OneLaunchSteps DEF k
  <2>3. CASE job' = [job EXCEPT ![l] = j] /\ UNCHANGED active
    <3>1. job'[l].at = "closing"
      BY <1>3, <2>3, NoJobPlaces
    <3> QED BY <1>4, <1>5, <2>1, <2>3, <3>1 DEF Settles
  <2>4. CASE ~MayRelease(job[l].rec.status) /\ EndsActive(l)
    <3>1. job' = [job EXCEPT ![l] = NoJob] /\ active' = None
      BY <1>2, <2>4 DEF EndsActive, Ends
    <3>2. job'[l].at = "none" /\ job'[l] = NoJob
      BY <1>3, <3>1, NoJobPlaces
    <3>3. flow' = [flow EXCEPT ![l] = AtRest]
      BY <1>5, <3>2 DEF Settles
    <3>4. FlowInv' /\ Alone(l)' /\ flow'[l].at = "idle"
      BY <1>1, <1>2, <2>1, <3>3, RestSteps
    <3>5. ~Startable /\ ~Startable'
      BY <1>2, <2>1, <2>4 DEF JobOk, MayRelease, InExecution, Startable, Retryable
    <3>6. JobOk(l)'
      BY <3>2, <3>4 DEF JobOk, FlowPlaces
    <3> QED BY <1>1, <3>1, <3>4, <3>5, <3>6, NoJobPlaces, OneLaunchSteps
  <2> QED BY <1>5, <2>2, <2>3, <2>4 DEF Settles
<1>6. CASE Stored(l)
  <2> DEFINE k == [job[l] EXCEPT !.at = "accepting"]
  <2>1. /\ job[l].at = "storing" /\ job' = [job EXCEPT ![l] = k]
        /\ UNCHANGED <<lease, manager, live, bound, binding, flow, active>>
    BY <1>6 DEF Stored, JobAt, JobGoes, failoverVars
  <2>2. job'[l] = k /\ k \in Job /\ k.at = "accepting"
    BY <1>3, <2>1 DEF Job, JobPlaces
  <2> HIDE DEF k
  <2>3. FlowInv' /\ Alone(l)'
    BY <1>1, <1>2, <2>1, FlowUnchanged DEF Alone
  <2>4. JobOk(l)'
    BY <1>2, <2>1, <2>2 DEF JobOk, FlowPlaces
  <2>5. k.at \in Supervised /\ k.at # "none"
    BY <2>2 DEF Supervised
  <2> QED BY <1>1, <1>2, <2>1, <2>2, <2>3, <2>4, <2>5, OneLaunchSteps
<1>7. CASE SettledSaved(l)
  BY <1>4, <1>7 DEF SettledSaved
<1>8. CASE Releasing(l)
  <2>1. /\ job[l].at = "closing" /\ job' = [job EXCEPT ![l] = job[l]]
        /\ UNCHANGED <<job, active>> /\ Releases(l)
    BY <1>3, <1>8 DEF Releasing, JobAt, sessionVars
  <2>2. /\ FlowInv' /\ Alone(l)'
        /\ \/ flow'[l].at \in {"releasing", "unlinking"}
           \/ flow'[l].at = "idle" /\ Vacant'
    BY <1>1, <1>2, <2>1, ReleasesSteps
  <2>3. JobOk(l)'
    BY <2>1, <2>2 DEF JobOk, FlowPlaces
  <2> QED BY <1>1, <1>2, <1>3, <2>1, <2>2, <2>3, OneLaunchSteps
<1>9. CASE LaunchReleased(l)
  <2>1. /\ job' = [job EXCEPT ![l] = NoJob] /\ active' = None
        /\ UNCHANGED <<lease, manager, live, bound, binding, flow>> /\ flow[l].at = "idle"
    BY <1>2, <1>9 DEF LaunchReleased, EndsActive, Ends, At, failoverVars
  <2>2. FlowInv' /\ Alone(l)'
    BY <1>1, <1>2, <2>1, FlowUnchanged DEF Alone
  <2>3. Vacant'
    BY <1>2, <1>9, <2>1 DEF LaunchReleased, JobAt, At, JobOk, Vacant
  <2>4. JobOk(l)'
    BY <1>3, <2>1, NoJobPlaces DEF JobOk, FlowPlaces
  <2> QED BY <1>1, <2>1, <2>2, <2>3, <2>4, NoJobPlaces, OneLaunchSteps
<1> QED BY <1>5, <1>6, <1>7, <1>8, <1>9 DEF Settling

LEMMA OthersKeepExec ==
    ASSUME ExecInv, ~disputed, ~disputed', OneLaunch, RecordInv',
           View \/ ViewWrites \/ Operating
    PROVE  ExecInv'
<1>1. /\ FlowInv /\ (\A l \in Callers : JobOk(l)) /\ OperationOk /\ Quarantine /\ SupervisorOk
      /\ op \in Operation /\ op.at \in {"saving", "closing"}
  BY DEF ExecInv, RecordInv, TypeRecord, Operation
<1>2. UNCHANGED <<job, active, stranded>>
  BY DEF View, ViewWrites, Operating, Cancel, RespondPermission, ResolveOutcomeUnknown, Begins,
         OperationSaves, ResolutionReleases, historyVars
<1>3. SupervisorOk' /\ (LaunchUnderWay' <=> LaunchUnderWay)
  BY <1>1, <1>2 DEF SupervisorOk, LaunchUnderWay, JobAt
<1>4. ASSUME UNCHANGED failoverVars, UNCHANGED disk \/ ~Startable'
      PROVE  FlowInv' /\ (\A l \in Callers : JobOk(l)')
               /\ (~LaunchUnderWay /\ op.at = "saving" /\ Startable' => Vacant')
  <2>1. FlowInv'
    BY <1>1, <1>2, <1>4, FlowUnchanged DEF failoverVars
  <2>2. \A l \in Callers : JobOk(l)'
    BY <1>1, <1>2, <1>4 DEF failoverVars, JobOk, Vacant, Startable
  <2>3. ~LaunchUnderWay /\ op.at = "saving" /\ Startable' => Vacant'
    BY <1>1, <1>4 DEF Quarantine, failoverVars, Vacant, Startable
  <2> QED BY <2>1, <2>2, <2>3
<1>5. ASSUME ~LaunchUnderWay PROVE Alone(Outside) /\ Outside \in Flows
  BY <1>1, <1>5 DEF Alone, Flows, LaunchUnderWay, JobAt, JobOk, FlowPlaces
<1>6. ASSUME ~LaunchUnderWay, Alone(Outside)' PROVE \A l \in Callers : JobOk(l)'
  <2> TAKE l \in Callers
  <2>1. job'[l].at = "none" /\ flow'[l].at = "idle"
    BY <1>2, <1>6, CallersAssumption DEF Alone, Flows, LaunchUnderWay, JobAt
  <2> QED BY <2>1 DEF JobOk, FlowPlaces
<1>7. CASE View
  <2>1. UNCHANGED failoverVars /\ UNCHANGED <<disk, op>>
    BY <1>7 DEF View, recordVars
  <2>2. OperationOk'
    BY <1>1, <1>3, <2>1 DEF OperationOk, failoverVars, Vacant
  <2>3. Quarantine'
    BY <1>3, <1>4, <2>1 DEF Quarantine
  <2> QED BY <1>3, <1>4, <2>1, <2>2, <2>3 DEF ExecInv
<1>8. CASE ViewWrites
  <2>1. UNCHANGED failoverVars /\ UNCHANGED op
    BY <1>8 DEF ViewWrites
  <2>2. view \in Record
    BY <1>8 DEF ViewWrites, ExecInv, RecordInv, TypeRecord
  <2>3. ~Startable'
    BY <1>8, <2>2 DEF ViewWrites, Record, Startable, Retryable
  <2>4. OperationOk'
    BY <1>1, <1>3, <2>1 DEF OperationOk, failoverVars, Vacant
  <2>5. Quarantine'
    BY <2>3 DEF Quarantine
  <2> QED BY <1>3, <1>4, <2>1, <2>3, <2>4, <2>5 DEF ExecInv
<1>9. CASE Cancel \/ RespondPermission \/ ResolveOutcomeUnknown
  <2>1. PICK kind \in {"cancel", "permit", "resolve"}, to \in {"cancelled", "running", "failed"} :
           /\ Begins(kind, to)
           /\ kind # "resolve" => to \in {"cancelled", "running"}
    BY <1>9 DEF Cancel, RespondPermission, ResolveOutcomeUnknown
  <2>2. UNCHANGED failoverVars /\ UNCHANGED disk
    BY <2>1 DEF Begins, recordVars
  <2>3. op.at = "saving" /\ op'.at = "saving" /\ op'.kind = kind /\ op'.to = to
    BY <1>1, <2>1 DEF Begins, OperationOk
  <2>4. OperationOk'
    BY <1>1, <2>1, <2>2, <2>3 DEF OperationOk, failoverVars
  <2>5. Quarantine'
    BY <1>3, <1>4, <2>2, <2>3 DEF Quarantine
  <2> QED BY <1>3, <1>4, <2>2, <2>4, <2>5 DEF ExecInv
<1>10. CASE OperationSaves /\ op.kind # "resolve"
  <2>1. UNCHANGED failoverVars /\ op' = NoOperation /\ op.at = "saving"
    BY <1>10 DEF OperationSaves
  <2>2. op.kind \in {"cancel", "permit"} /\ op.to \in {"cancelled", "running"} /\ op.read \in Record
    BY <1>1, <1>10 DEF OperationSaves, Operation, OperationOk
  <2>3. UNCHANGED disk \/ ~Startable'
    BY <1>10, <2>2 DEF OperationSaves, Record, Startable, Retryable
  <2>4. op'.at = "saving" /\ op'.kind = "none"
    BY <2>1 DEF NoOperation
  <2>5. OperationOk'
    BY <1>1, <2>1, <2>4 DEF OperationOk, failoverVars
  <2>6. Quarantine'
    BY <1>3, <1>4, <2>1, <2>3 DEF Quarantine
  <2> QED BY <1>3, <1>4, <2>1, <2>3, <2>5, <2>6 DEF ExecInv
<1>11. CASE OperationSaves /\ op.kind = "resolve"
  <2>1. /\ op' = [NoOperation EXCEPT !.kind = "resolve", !.at = "closing"] /\ Close(Outside)
        /\ ~LaunchUnderWay
    BY <1>11 DEF OperationSaves
  <2>2. op'.at = "closing" /\ op'.kind = "resolve"
    BY <2>1 DEF NoOperation
  <2>3. FlowInv' /\ Alone(Outside)' /\ flow'[Outside].at \in {"closing", "releasing"}
    BY <1>1, <1>2, <1>5, <2>1, CloseAtSteps DEF Close
  <2>4. OperationOk'
    BY <1>3, <2>1, <2>2, <2>3 DEF OperationOk, FlowPlaces
  <2>5. Quarantine'
    BY <2>2 DEF Quarantine
  <2> QED BY <1>3, <1>6, <2>1, <2>3, <2>4, <2>5 DEF ExecInv
<1>12. CASE ResolutionReleases
  <2>1. ~LaunchUnderWay /\ op.at = "closing" /\ op.kind = "resolve"
    BY <1>1, <1>12 DEF ResolutionReleases, OperationOk
  <2>2. CASE At(Outside, "idle")
    <3>1. op' = NoOperation /\ UNCHANGED failoverVars /\ UNCHANGED disk
      BY <1>12, <2>2 DEF ResolutionReleases, recordVars
    <3>2. Vacant'
      BY <1>1, <2>1, <2>2, <3>1 DEF OperationOk, At, Vacant, failoverVars
    <3>3. op'.at = "saving" /\ op'.kind = "none"
      BY <3>1 DEF NoOperation
    <3>4. OperationOk'
      BY <2>2, <3>1, <3>3 DEF OperationOk, At, failoverVars
    <3> QED BY <1>3, <1>4, <3>1, <3>2, <3>4 DEF ExecInv, Quarantine
  <2>3. CASE ~At(Outside, "idle")
    <3>1. Releases(Outside) /\ UNCHANGED op
      BY <1>12, <2>3 DEF ResolutionReleases
    <3>2. /\ FlowInv' /\ Alone(Outside)'
          /\ \/ flow'[Outside].at \in {"releasing", "unlinking"}
             \/ flow'[Outside].at = "idle" /\ Vacant'
      BY <1>1, <1>2, <1>5, <2>1, <3>1, ReleasesSteps
    <3>3. OperationOk'
      BY <1>3, <2>1, <3>1, <3>2 DEF OperationOk, FlowPlaces
    <3>4. Quarantine'
      BY <2>1, <3>1 DEF Quarantine
    <3> QED BY <1>3, <1>6, <2>1, <3>2, <3>3, <3>4 DEF ExecInv
  <2> QED BY <2>2, <2>3
<1> QED BY <1>7, <1>8, <1>9, <1>10, <1>11, <1>12 DEF Operating

LEMMA CrashKeepsExec ==
    ASSUME ExecInv, ~disputed, RecordInv', DesktopCrash
    PROVE  ExecInv'
<1>1. /\ UNCHANGED lease /\ manager' = None /\ live' = {} /\ bound' = None
      /\ binding' = [c \in Callers |-> None] /\ flow' = [p \in Flows |-> AtRest]
      /\ job' = [l \in Callers |-> NoJob] /\ active' = None /\ op' = NoOperation
  BY DEF DesktopCrash, ExecutorsDie
<1>2. \A p \in Flows : flow'[p].at = "idle"
  BY <1>1, AtRestIsLocal
<1>3. \A l \in Callers : job'[l].at = "none" /\ l \in Flows
  BY <1>1, NoJobPlaces DEF Flows
<1>4. TypeFailover'
  BY <1>1, AtRestIsLocal DEF ExecInv, FlowInv, TypeFailover
<1>5. FreeLease'
  BY <1>1 DEF DesktopCrash, FreeLease, Adoptable
<1>6. FlowInv' /\ Vacant'
  BY <1>1, <1>2, <1>4, <1>5 DEF FlowInv, OneSession, FlowOk, Vacant
<1>7. \A l \in Callers : JobOk(l)'
  BY <1>2, <1>3 DEF JobOk, FlowPlaces
<1>8. OperationOk' /\ Quarantine' /\ SupervisorOk'
  BY <1>1, <1>2, <1>6 DEF OperationOk, NoOperation, Quarantine, SupervisorOk, Flows
<1> QED BY <1>6, <1>7, <1>8 DEF ExecInv

LEMMA InitialExec == SessionInit => ExecInv
<1> SUFFICES ASSUME SessionInit PROVE ExecInv
  OBVIOUS
<1>1. /\ lease = None /\ manager = None /\ live = {} /\ bound = None
      /\ binding = [c \in Callers |-> None] /\ flow = [p \in Flows |-> AtRest]
      /\ job = [l \in Callers |-> NoJob] /\ active = None /\ op = NoOperation
  BY DEF SessionInit, FailoverInit
<1>2. \A p \in Flows : flow[p].at = "idle"
  BY <1>1, AtRestIsLocal
<1>3. \A l \in Callers : job[l].at = "none" /\ l \in Flows
  BY <1>1, NoJobPlaces DEF Flows
<1>4. FlowInv /\ Vacant
  <2>1. TypeFailover
    BY <1>1, AtRestIsLocal DEF TypeFailover
  <2> QED BY <1>1, <1>2, <2>1 DEF FlowInv, OneSession, FreeLease, FlowOk, Vacant
<1>5. \A l \in Callers : JobOk(l)
  BY <1>2, <1>3 DEF JobOk, FlowPlaces
<1>6. OperationOk /\ Quarantine /\ SupervisorOk
  BY <1>1, <1>2, <1>4 DEF OperationOk, NoOperation, Quarantine, SupervisorOk, Flows
<1> QED BY <1>4, <1>5, <1>6, InitialRecord DEF ExecInv

LEMMA DisputeStays ==
    ASSUME disputed, [SessionNext]_groupVars
    PROVE  disputed'
<1>1. CASE UNCHANGED groupVars
  BY <1>1 DEF groupVars, sessionVars, historyVars
<1>2. ASSUME NEW l \in Callers, Launching(l) PROVE disputed'
  BY <1>2 DEF Launching, Launch, Readied, Begin, Begun, ExecutorStarted, ExecutorBinding, Refused,
              StartFailed, Enter, Entered, sessionVars, historyVars
<1>3. ASSUME NEW l \in Callers, Prompting(l) PROVE disputed'
  BY <1>3 DEF Prompting, Message, PermissionRequested, Fails, Switches, Completes, PromptBreaks,
              Threw, BecameUnknown, Applies, sessionVars, historyVars
<1>4. ASSUME NEW l \in Callers, Settling(l) PROVE disputed'
  BY <1>4 DEF Settling, Settles, Stored, SettledSaved, Releasing, LaunchReleased, sessionVars,
              historyVars
<1>5. ASSUME View \/ ViewWrites \/ Operating \/ DesktopCrash PROVE disputed'
  BY <1>5 DEF View, ViewWrites, Operating, Cancel, RespondPermission, ResolveOutcomeUnknown, Begins,
              OperationSaves, ResolutionReleases, DesktopCrash, historyVars
<1> QED BY <1>1, <1>2, <1>3, <1>4, <1>5 DEF SessionNext

LEMMA ExecPreserved == ExecInv /\ OneLaunch /\ OneLaunch' /\ [SessionNext]_groupVars => ExecInv'
<1> SUFFICES ASSUME ExecInv, OneLaunch, OneLaunch', [SessionNext]_groupVars PROVE ExecInv'
  OBVIOUS
<1>1. RecordInv'
  BY RecordPreserved DEF ExecInv
<1>2. CASE disputed'
  BY <1>1, <1>2 DEF ExecInv
<1>3. CASE ~disputed' /\ disputed
  BY <1>3, DisputeStays
<1>4. CASE ~disputed' /\ ~disputed /\ SessionNext
  <2>1. ASSUME NEW l \in Callers, Launching(l) \/ Prompting(l) \/ Settling(l) PROVE ExecInv'
    BY <1>1, <1>4, <2>1, LaunchKeepsExec, LaunchingKeepsExec, PromptingKeepsExec,
       SettlingKeepsExec DEF Launching
  <2> QED BY <1>1, <1>4, <2>1, OthersKeepExec, CrashKeepsExec DEF SessionNext
<1>5. CASE UNCHANGED groupVars
  <2>1. UNCHANGED <<lease, manager, live, bound, binding, flow, disk, job, active, op, stranded,
                    disputed>>
    BY <1>5 DEF groupVars, failoverVars, sessionVars, recordVars, historyVars
  <2>2. ASSUME FlowInv PROVE FlowInv'
    BY <2>1, <2>2, FlowUnchanged
  <2> QED BY <1>1, <2>1, <2>2
         DEF ExecInv, JobOk, OperationOk, Quarantine, SupervisorOk, LaunchUnderWay, JobAt,
             Startable, Vacant
<1> QED BY <1>2, <1>3, <1>4, <1>5

\* As long as the launches of the session do not overlap:
OneAtATime == SessionSpec /\ []OneLaunch

LEMMA ExecAlways == OneAtATime => []ExecInv
BY InitialExec, ExecPreserved, PTL DEF OneAtATime, SessionSpec

\* The executor sessions of the execution are never two, through starts, retries,
\* switches, unknown outcomes, resolutions and crashes: the old one is closed before
\* the new one starts, and nothing is launched over what was not released.
THEOREM OneExecutorRuns == OneAtATime => []OneExecutor
<1>1. ExecInv => OneExecutor
  <2> SUFFICES ASSUME ExecInv, ~disputed PROVE Cardinality(live) <= 1
    BY DEF OneExecutor
  <2>1. live = {} \/ live = {manager}
    BY DEF ExecInv, FlowInv, OneSession
  <2>2. Cardinality({}) = 0 /\ Cardinality({manager}) = 1
    BY FS_EmptySet, FS_Singleton
  <2> QED BY <2>1, <2>2
<1> QED BY <1>1, ExecAlways, PTL

\* Whoever streams is the writer: the lease in the worktree is active, and is of the
\* executor and the generation that stream and that the controller is at.
THEOREM StreamsHoldTheLease == OneAtATime => []StreamsAsWriter
<1>1. ExecInv => StreamsAsWriter
  <2> SUFFICES ASSUME ExecInv, ~disputed, NEW l \in Callers, Hears(l)
               PROVE  /\ lease # None /\ lease.active
                      /\ <<lease.ex, lease.gen>> = <<flow[l].sess.ex, flow[l].sess.gen>>
                      /\ <<lease.ex, lease.gen>> = <<MyBinding(l).ctl.cur, MyBinding(l).ctl.gen>>
    BY DEF StreamsAsWriter
  <2>1. FlowOk(l) /\ flow[l].at = "streaming"
    BY DEF ExecInv, FlowInv, Flows, Hears, At
  <2>2. InForce(l) /\ flow[l].sess = manager /\ flow[l].obj = l
    BY <2>1 DEF FlowOk
  <2> QED BY <2>2 DEF InForce, SameTerm, TermOf, MyBinding
<1> QED BY <1>1, ExecAlways, PTL

\* The worktree of a session that may be launched is free, or its lease is one that
\* the next start adopts, unless a crash hit a switch.
THEOREM NobodyIsLockedOut == OneAtATime => []NotLockedOut
<1>1. ExecInv => NotLockedOut
  <2> SUFFICES ASSUME ExecInv, Launchable, ~disputed, ~stranded
               PROVE  lease = None \/ Adoptable(lease)
    BY DEF NotLockedOut
  <2>1. op.at = "saving"
    BY DEF ExecInv, OperationOk, RecordInv, TypeRecord, Operation, Launchable
  <2>2. Vacant
    BY <2>1 DEF ExecInv, Quarantine, Launchable, Startable
  <2> QED BY <2>2 DEF ExecInv, FlowInv, Vacant, FreeLease
<1> QED BY <1>1, ExecAlways, PTL

\* Type correctness, until a view or a resolution meets a launch under way.
THEOREM SessionTypes == OneAtATime => [](~disputed => TypeSession)
<1>1. ExecInv => (~disputed => TypeSession)
  BY DEF ExecInv, FlowInv, RecordInv, TypeRecord, TypeSession
<1> QED BY <1>1, ExecAlways, PTL

(***************************************************************************)
(* MemorySync                                                              *)
(***************************************************************************)

-----------------------------------------------------------------------------
(* Type correctness *)

TInv == TypeOK /\ IsFiniteSet(log)

LEMMA VersionIsNat ==
    ASSUME IsFiniteSet(log), NEW e
    PROVE  Version(e) \in Nat /\ 0..Version(e) \subseteq Nat
<1>1. IsFiniteSet({r \in log : about[r.event] = about[e]})
  BY FS_Subset
<1>2. QED BY <1>1, FS_CardinalityType DEF Version

LEMMA RowsAreTyped ==
    ASSUME row \in [Events -> Row], NEW p \in Processes
    PROVE  /\ Reset(p) \in [Events -> Row]
           /\ \A e \in Events : Released(row[e]) \in Row
BY DEF Row, Reset, Released, States

LEMMA AnsweredIsTyped ==
    ASSUME TypeOK, NEW s \in Slots, NEW e \in Events, NEW v \in Verdicts, NEW n \in Nat,
           Answered(s, e, v, n)
    PROVE  posts' \in [Slots -> Post]
<1>1. [event |-> e, verdict |-> v, seq |-> n] \in Result
  BY DEF Result
<1>2. posts[s] \in Post
  BY DEF TypeOK
<1>3. QED BY <1>1, <1>2 DEF Answered, TypeOK, Post

LEMMA TypePreserved == TInv /\ [Next]_vars => TInv'
<1> SUFFICES ASSUME TInv, [Next]_vars PROVE TInv'
  OBVIOUS
<1> USE DEF TInv
<1>1. ASSUME NEW p \in Processes, NEW e \in Events, Enqueue(p, e) PROVE TInv'
  <2>1. 1 + Cardinality({f \in Events : row[f].state # "none"}) \in Nat
    <3> DEFINE published == {f \in Events : row[f].state # "none"}
    <3>1. IsFiniteSet(published)
      BY EventsAssumption, FS_Subset
    <3>2. Cardinality(published) \in Nat
      BY <3>1, FS_CardinalityType
    <3> QED BY <3>2
  <2>2. row' \in [Events -> Row]
    <3>1. PICK n \in Nat : row' = [row EXCEPT ![e].state = "pending", ![e].id = n]
      BY <1>1, <2>1, Zenon DEF Enqueue
    <3>2. row[e] \in Row
      BY DEF TypeOK
    <3>3. [[row[e] EXCEPT !.state = "pending"] EXCEPT !.id = n] \in Row
      BY <3>2 DEF Row, States
    <3>4. QED BY <3>1, <3>3 DEF TypeOK
  <2>3. base' \in [Events -> Nat \cup {Unset}]
    BY <1>1, VersionIsNat DEF Enqueue, TypeOK
  <2>4. QED BY <1>1, <2>2, <2>3 DEF Enqueue, TypeOK, server
<1>2. ASSUME NEW p \in Processes, Flush(p) PROVE TInv'
  <2>1. \A e \in Events :
          /\ Released(row[e]) \in Row
          /\ [row[e] EXCEPT !.state = "sending", !.sender = p, !.old = FALSE] \in Row
    BY DEF Released, TypeOK, Row, States
  <2>r. row' \in [Events -> Row]
    BY <1>2, <2>1 DEF Flush, TypeOK
  <2>2. [Free EXCEPT !.by = p, !.todo = Batch] \in Post
    BY DEF Free, Post, Batch, Claimable
  <2>3. posts' \in [Slots -> Post]
    BY <1>2, <2>2 DEF Flush, TypeOK
  <2>4. QED BY <1>2, <2>r, <2>3 DEF Flush, TypeOK
<1>3. ASSUME NEW p \in Processes, Receive(p) PROVE TInv'
  <2>1. Free \in Post
    BY DEF Free, Post
  <2>2. PICK s \in Posted(p) :
          /\ answer' = [answer EXCEPT ![p] = posts[s].answers]
          /\ posts' = [posts EXCEPT ![s] = Free]
          /\ UNCHANGED <<file, about, base, alive, sub, issued, log, troubles>>
    BY <1>3 DEF Receive
  <2>3. s \in Slots /\ posts[s].answers \in SUBSET Result
    BY DEF Posted, TypeOK, Post
  <2>4. QED BY <2>1, <2>2, <2>3 DEF TypeOK, file
<1>4. ASSUME NEW p \in Processes, GiveUp(p) PROVE TInv'
  <2>1. \A s \in Slots : Abandoned(posts[s]) \in Post
    BY DEF Abandoned, TypeOK, Post
  <2>2. posts' \in [Slots -> Post]
    BY <1>4, <2>1 DEF GiveUp, TypeOK, Posted
  <2>3. QED BY <1>4, <2>2, RowsAreTyped DEF GiveUp, TypeOK, Trouble
<1>5. ASSUME NEW p \in Processes, NEW x \in answer[p], Mark(p, x) PROVE TInv'
  <2>1. x \in Result
    BY DEF TypeOK
  <2>2. row[x.event] \in Row /\ x.seq \in Nat
    BY <2>1 DEF TypeOK, Result
  <2>3. Settled(row[x.event], x) \in Row
    BY <2>2 DEF Settled, Row, States
  <2>4. row' \in [Events -> Row] /\ answer' \in [Processes -> SUBSET Result]
    BY <1>5, <2>3 DEF Mark, TypeOK
  <2>5. QED BY <1>5, <2>4 DEF Mark, TypeOK, server
<1>6. ASSUME NEW p \in Processes, Retry(p) PROVE TInv'
  BY <1>6, RowsAreTyped DEF Retry, TypeOK, server
<1>7. CASE Minute \/ Sleep
  <2>1. \A e \in Events : [row[e] EXCEPT !.old = TRUE] \in Row
    BY DEF TypeOK, Row
  <2>2. row' \in [Events -> Row]
    BY <1>7, <2>1 DEF Minute, Sleep, TypeOK
  <2>3. troubles' \in Nat
    BY <1>7 DEF Minute, Sleep, Trouble, TypeOK
  <2>4. QED BY <1>7, <2>2, <2>3 DEF Minute, Sleep, TypeOK, server
<1>8. ASSUME NEW s \in Slots, Allocate(s) PROVE TInv'
  BY <1>8 DEF Allocate, TypeOK, Post, file
<1>9. ASSUME NEW s \in Slots, NEW e \in Events, posts[s].seq # 0, Acceptable(e),
             log' = log \cup {[seq |-> posts[s].seq, event |-> e]}
      PROVE  log' \subseteq Committed /\ IsFiniteSet(log)'
  <2>1. posts[s].seq \in Nat \ {0}
    BY <1>9 DEF TypeOK, Post
  <2>2. [seq |-> posts[s].seq, event |-> e] \in Committed
    BY <2>1 DEF Committed
  <2>3. IsFiniteSet(log \cup {[seq |-> posts[s].seq, event |-> e]})
    BY FS_AddElement
  <2>4. QED BY <1>9, <2>2, <2>3 DEF TypeOK
<1>10. ASSUME NEW s \in Slots, Conclude(s) PROVE TInv'
  <2>1. PICK e \in Leading(posts[s].todo) : Accept(s, e) \/ Repeat(s, e) \/ Conflict(s, e)
    BY <1>10 DEF Conclude
  <2>2. e \in Events
    BY DEF Leading, TypeOK, Post
  <2>3. \A r \in log : r.seq \in Nat
    BY DEF TypeOK, Committed
  <2>4. posts[s].seq \in Nat
    BY DEF TypeOK, Post
  <2>5. posts' \in [Slots -> Post]
    BY <2>1, <2>2, <2>3, <2>4, AnsweredIsTyped
       DEF Accept, Repeat, Conflict, Verdicts, Entries
  <2>6. log' \subseteq Committed /\ IsFiniteSet(log)'
    BY <2>1, <2>2, <1>9, <1>10 DEF Accept, Repeat, Conflict, TypeOK, Conclude
  <2>7. QED BY <1>10, <2>5, <2>6 DEF Conclude, TypeOK, file
<1>11. ASSUME NEW s \in Slots, Interrupt(s) PROVE TInv'
  <2>1. PICK e \in Leading(posts[s].todo) :
          /\ Answered(s, e, "retryable", 0)
          /\ \/ UNCHANGED log
             \/ Acceptable(e) /\ log' = log \cup {[seq |-> posts[s].seq, event |-> e]}
    BY <1>11 DEF Interrupt
  <2>2. e \in Events
    BY DEF Leading, TypeOK, Post
  <2>3. posts' \in [Slots -> Post]
    BY <2>1, <2>2, AnsweredIsTyped DEF Verdicts
  <2>4. log' \subseteq Committed /\ IsFiniteSet(log)'
    BY <2>1, <2>2, <1>9, <1>11 DEF TypeOK, Interrupt
  <2>5. QED BY <1>11, <2>3, <2>4 DEF Interrupt, TypeOK, file, Trouble
<1>12. ASSUME NEW s \in Slots, Drop(s) PROVE TInv'
  BY <1>12 DEF Drop, TypeOK, Free, Post, file
<1>13. ASSUME NEW p \in Processes, Poll(p) PROVE TInv'
  <2>1. PICK last \in Latest(Page(sub[p].at)) :
          sub' = [sub EXCEPT ![p].page = Page(sub[p].at), ![p].awaiting = last.seq]
    BY <1>13 DEF Poll
  <2>2. Page(sub[p].at) \subseteq Committed /\ last.seq \in Nat
    BY DEF Page, Latest, TypeOK, Committed
  <2>3. sub' \in [Processes -> Subscription]
    BY <2>1, <2>2 DEF TypeOK, Subscription
  <2>4. QED BY <1>13, <2>3 DEF Poll, TypeOK, file, server
<1>14. ASSUME NEW p \in Processes, PollFails(p) PROVE TInv'
  BY <1>14 DEF PollFails, TypeOK, Subscription, Hello, Trouble, file, server
<1>15. ASSUME NEW p \in Processes, Apply(p) PROVE TInv'
  <2>1. PICK r \in Earliest(sub[p].page) : Skip(p, r) \/ Store(p, r) \/ Ack(p, r)
    BY <1>15 DEF Apply
  <2>2. r \in Committed /\ r.seq \in Nat
    BY DEF Earliest, TypeOK, Subscription, Committed
  <2>3. CASE Skip(p, r)
    BY <2>3 DEF Skip, TypeOK, Subscription, file, server
  <2>4. CASE Store(p, r)
    BY <2>2, <2>4 DEF Store, TypeOK, Subscription, server
  <2>5. CASE Ack(p, r)
    <3>1. cursor' \in Nat
      BY <2>2, <2>5 DEF Ack, Larger, TypeOK
    <3>2. sub' \in [Processes -> Subscription]
      BY <2>2, <2>5 DEF Ack, TypeOK, Subscription
    <3>3. QED BY <2>5, <3>1, <3>2 DEF Ack, TypeOK, server
  <2>6. QED BY <2>1, <2>3, <2>4, <2>5
<1>16. ASSUME NEW p \in Processes, Crash(p) PROVE TInv'
  <2>1. posts' \in [Slots -> Post]
    <3>1. \A s \in Slots : posts[s] \in Post /\ Abandoned(posts[s]) \in Post
      BY DEF Abandoned, TypeOK, Post
    <3>2. posts' = [s \in Slots |-> IF posts[s].by = p THEN Abandoned(posts[s]) ELSE posts[s]]
      BY <1>16, Zenon DEF Crash
    <3>3. QED BY ONLY <3>1, <3>2
  <2>2. row' \in [Events -> Row]
    <3>1. \A e \in Events : row[e] \in Row /\ [row[e] EXCEPT !.sender = Nobody] \in Row
      BY DEF TypeOK, Row
    <3>2. row' = [e \in Events |->
                     IF row[e].sender = p THEN [row[e] EXCEPT !.sender = Nobody] ELSE row[e]]
      BY <1>16, Zenon DEF Crash
    <3>3. QED BY ONLY <3>1, <3>2
  <2>3. sub' \in [Processes -> Subscription]
    BY <1>16 DEF Crash, TypeOK, Subscription, Hello
  <2>4. QED BY <1>16, <2>1, <2>2, <2>3 DEF Crash, TypeOK, Trouble
<1>17. ASSUME NEW p \in Processes, Restart(p) PROVE TInv'
  <2>1. sub' \in [Processes -> Subscription]
    BY <1>17 DEF Restart, TypeOK, Subscription, Hello
  <2>2. QED BY <1>17, <2>1, RowsAreTyped DEF Restart, TypeOK, server
<1>18. CASE UNCHANGED vars
  BY <1>18 DEF vars, file, server, TypeOK
<1>19. QED BY <1>1, <1>2, <1>3, <1>4, <1>5, <1>6, <1>7, <1>8, <1>10, <1>11, <1>12, <1>13,
              <1>14, <1>15, <1>16, <1>17, <1>18 DEF Next, Queue, Serve, Replay

LEMMA TypeInitially == Init => TInv
BY FS_EmptySet DEF Init, TInv, TypeOK, NoRow, Row, States, Free, Post, Hello, Subscription

(* Every variable stays in its type, and the log stays finite.             *)
THEOREM TypeCorrect == Spec => []TypeOK
<1>1. Spec => []TInv
  BY TypeInitially, TypePreserved, PTL DEF Spec
<1>2. QED BY <1>1, PTL DEF TInv

-----------------------------------------------------------------------------
(* The log *)

Published(e) == row[e].state # "none"

\* No event will be committed under n or a smaller number any more.
Done(n) == n <= issued /\ \A s \in Slots : posts[s].seq # 0 => n < posts[s].seq

Covered(n) == {r \in log : r.seq <= n}

\* e was published and cannot be committed any more.
Lost(e) == Published(e) /\ Entries(e) = {} /\ base[e] < Version(e)

LogInv ==
    /\ \A s, t \in Slots : posts[s].seq # 0 /\ posts[t].seq # 0 => s = t
    /\ \A s \in Slots : posts[s].seq <= issued
    /\ \A s \in Slots : \A e \in posts[s].todo : Published(e)
    /\ \A e \in Events : base[e] \in -1..Version(e)
    /\ \A r \in log : Done(r.seq) /\ Published(r.event) /\ base[r.event] < Version(r.event)
    /\ \A x, y \in log : x.seq = y.seq => x = y
    /\ NoLostUpdate

\* Transactions may end without a commit, and requests come and go.
Quiet ==
    /\ UNCHANGED <<about, base, issued, log>>
    /\ \A s \in Slots : posts'[s].seq \in {posts[s].seq, 0}
    /\ \A s \in Slots : \A e \in posts'[s].todo : e \in Events /\ Published(e)
    /\ \A e \in Events : Published(e) => Published(e)'

Commit(s, e) ==
    /\ s \in Slots /\ e \in Events /\ Published(e)
    /\ posts[s].seq # 0 /\ Acceptable(e)
    /\ log' = log \cup {[seq |-> posts[s].seq, event |-> e]}
    /\ \A t \in Slots : posts'[t].seq = IF t = s THEN 0 ELSE posts[t].seq
    /\ \A t \in Slots : posts'[t].todo \subseteq posts[t].todo
    /\ UNCHANGED <<row, about, base, issued>>

\* What a step means for the log.
LogStep ==
    \/ Quiet
    \/ \E p \in Processes, e \in Events : Enqueue(p, e)
    \/ \E s \in Slots : Allocate(s)
    \/ \E s \in Slots, e \in Events : Commit(s, e)

LEMMA ConcludeIsLogStep ==
    ASSUME TInv, LogInv, NEW s \in Slots, NEW e \in posts[s].todo, NEW v, NEW n,
           Answered(s, e, v, n), UNCHANGED <<row, about, base, issued>>,
           \/ UNCHANGED log
           \/ /\ posts[s].seq # 0 /\ Acceptable(e)
              /\ log' = log \cup {[seq |-> posts[s].seq, event |-> e]}
    PROVE  LogStep
<1>1. posts \in [Slots -> Post] /\ e \in Events /\ Published(e)
  BY DEF TInv, TypeOK, Post, LogInv
<1>2. /\ \A t \in Slots : posts'[t].seq = IF t = s THEN 0 ELSE posts[t].seq
      /\ \A t \in Slots : posts'[t].todo \subseteq posts[t].todo
  BY <1>1 DEF Answered, Post
<1>3. CASE UNCHANGED log
  BY <1>1, <1>2, <1>3 DEF LogStep, Quiet, LogInv, Published, Post
<1>4. CASE ~UNCHANGED log
  BY <1>1, <1>2, <1>4 DEF LogStep, Commit
<1>5. QED BY <1>3, <1>4

LEMMA EveryStepIsLogStep == TInv /\ LogInv /\ [Next]_vars => LogStep
<1> SUFFICES ASSUME TInv, LogInv, [Next]_vars PROVE LogStep
  OBVIOUS
<1>t. /\ row \in [Events -> Row] /\ posts \in [Slots -> Post]
      /\ \A p \in Processes : answer[p] \subseteq Result
  BY DEF TInv, TypeOK
<1>i. \A s \in Slots : \A e \in posts[s].todo : e \in Events /\ Published(e)
  BY <1>t DEF LogInv, Post
<1>q. ASSUME UNCHANGED <<about, base, posts, issued, log>>,
             \A e \in Events : Published(e) => Published(e)'
      PROVE  LogStep
  BY <1>q, <1>i DEF LogStep, Quiet
<1>1. ASSUME NEW p \in Processes, NEW e \in Events, Enqueue(p, e) PROVE LogStep
  BY <1>1 DEF LogStep
<1>2. ASSUME NEW p \in Processes, Flush(p) PROVE LogStep
  <2>1. posts' = [posts EXCEPT ![Slot] = [Free EXCEPT !.by = p, !.todo = Batch]]
    BY <1>2 DEF Flush
  <2>2. \A s \in Slots : /\ posts'[s].seq \in {posts[s].seq, 0}
                         /\ posts'[s].todo \in {posts[s].todo, Batch}
    BY <1>t, <2>1 DEF Free
  <2>3. \A e \in Batch : e \in Events /\ Published(e)
    BY DEF Batch, Claimable, Published
  <2>4. \A e \in Events : Published(e) => Published(e)'
    <3>1. \A e \in Events :
            /\ Released(row[e]).state = "pending"
            /\ [row[e] EXCEPT !.state = "sending", !.sender = p, !.old = FALSE].state = "sending"
      BY <1>t DEF Released, Row
    <3>2. row' = [e \in Events |->
                    IF e \in Batch
                    THEN [row[e] EXCEPT !.state = "sending", !.sender = p, !.old = FALSE]
                    ELSE IF e \in Claimable THEN Released(row[e]) ELSE row[e]]
      BY <1>2, Zenon DEF Flush
    <3> QED BY ONLY <3>1, <3>2 DEF Published
  <2>5. QED BY <1>2, <1>i, <2>2, <2>3, <2>4 DEF Flush, LogStep, Quiet
<1>3. ASSUME NEW p \in Processes, Receive(p) PROVE LogStep
  <2>1. \A s \in Slots : posts'[s] \in {posts[s], Free}
    BY <1>3, <1>t DEF Receive, Posted
  <2>2. QED BY <1>3, <1>i, <2>1 DEF Receive, LogStep, Quiet, Free, file, Published
<1>4. ASSUME NEW p \in Processes, GiveUp(p) PROVE LogStep
  <2>1. \A s \in Slots : posts'[s] \in {posts[s], Abandoned(posts[s])}
    BY <1>4, <1>t DEF GiveUp, Posted
  <2>2. \A s \in Slots : posts'[s].seq = posts[s].seq /\ posts'[s].todo = posts[s].todo
    <3>1. \A b \in Post : Abandoned(b).seq = b.seq /\ Abandoned(b).todo = b.todo
      BY DEF Abandoned, Post
    <3> QED BY ONLY <1>t, <2>1, <3>1
  <2>3. \A e \in Events : Published(e) => Published(e)'
    <3>1. \A e \in Events : Released(row[e]).state = "pending"
      BY <1>t DEF Released, Row
    <3>2. row' = Reset(p)
      BY <1>4 DEF GiveUp
    <3> QED BY ONLY <3>1, <3>2 DEF Reset, Published
  <2>4. QED BY <1>4, <1>i, <2>2, <2>3 DEF GiveUp, LogStep, Quiet
<1>5. ASSUME NEW p \in Processes, NEW x \in answer[p], Mark(p, x) PROVE LogStep
  <2>1. x.event \in Events
    BY <1>t DEF Result
  <2>2. row[x.event].state # "none" => Settled(row[x.event], x).state # "none"
    BY <1>t, <2>1 DEF Settled, Row
  <2>3. \A e \in Events : Published(e) => Published(e)'
    <3>1. row' = [row EXCEPT ![x.event] = Settled(row[x.event], x)]
      BY <1>5 DEF Mark
    <3> QED BY ONLY <1>t, <2>1, <2>2, <3>1 DEF Published
  <2>4. QED BY <1>5, <1>q, <2>3 DEF Mark, server
<1>6. ASSUME NEW p \in Processes, Retry(p) PROVE LogStep
  <2>1. \A e \in Events : Published(e) => Published(e)'
    BY <1>6, <1>t DEF Retry, Reset, Released, Published, Row
  <2>2. QED BY <1>6, <1>q, <2>1 DEF Retry, server
<1>7. CASE Minute \/ Sleep
  <2>1. \A e \in Events : row'[e] \in {row[e], [row[e] EXCEPT !.old = TRUE]}
    BY <1>7, <1>t DEF Minute, Sleep
  <2>2. \A e \in Events : Published(e) => Published(e)'
    BY <1>t, <2>1 DEF Published, Row
  <2>3. QED BY <1>7, <1>q, <2>2 DEF Minute, Sleep, server
<1>8. ASSUME NEW s \in Slots, Allocate(s) PROVE LogStep
  BY <1>8 DEF LogStep
<1>9. ASSUME NEW s \in Slots, Conclude(s) PROVE LogStep
  <2>1. PICK e \in Leading(posts[s].todo) : Accept(s, e) \/ Repeat(s, e) \/ Conflict(s, e)
    BY <1>9 DEF Conclude
  <2>2. e \in posts[s].todo /\ posts[s].seq # 0 /\ UNCHANGED <<row, about, base, issued>>
    BY <1>9 DEF Leading, Conclude, file
  <2>3. QED BY <2>1, <2>2, ConcludeIsLogStep DEF Accept, Repeat, Conflict
<1>10. ASSUME NEW s \in Slots, Interrupt(s) PROVE LogStep
  <2>1. PICK e \in Leading(posts[s].todo) :
          /\ Answered(s, e, "retryable", 0)
          /\ \/ UNCHANGED log
             \/ Acceptable(e) /\ log' = log \cup {[seq |-> posts[s].seq, event |-> e]}
    BY <1>10 DEF Interrupt
  <2>2. e \in posts[s].todo /\ posts[s].seq # 0 /\ UNCHANGED <<row, about, base, issued>>
    BY <1>10 DEF Leading, Interrupt, file
  <2>3. QED BY <2>1, <2>2, ConcludeIsLogStep
<1>11. ASSUME NEW s \in Slots, Drop(s) PROVE LogStep
  <2>1. \A t \in Slots : posts'[t] \in {posts[t], Free}
    BY <1>11, <1>t DEF Drop
  <2>2. QED BY <1>11, <1>i, <2>1 DEF Drop, LogStep, Quiet, Free, file, Published
<1>12. ASSUME NEW p \in Processes, Replay(p) \/ PollFails(p) PROVE LogStep
  <2>1. UNCHANGED <<row, about, base, posts, issued, log>>
    BY <1>12 DEF Replay, Poll, Apply, Skip, Store, Ack, PollFails, file, server
  <2>2. QED BY <2>1, <1>q DEF Published
<1>13. ASSUME NEW p \in Processes, Crash(p) PROVE LogStep
  <2>1. \A s \in Slots : posts'[s].seq = posts[s].seq /\ posts'[s].todo = posts[s].todo
    BY <1>13, <1>t DEF Crash, Abandoned, Post
  <2>2. \A e \in Events : Published(e) => Published(e)'
    BY <1>13, <1>t DEF Crash, Published, Row
  <2>3. QED BY <1>13, <1>i, <2>1, <2>2 DEF Crash, LogStep, Quiet
<1>14. ASSUME NEW p \in Processes, Restart(p) PROVE LogStep
  <2>1. \A e \in Events : Published(e) => Published(e)'
    BY <1>14, <1>t DEF Restart, Reset, Released, Published, Row
  <2>2. QED BY <1>14, <1>q, <2>1 DEF Restart, server
<1>15. CASE UNCHANGED vars
  BY <1>15, <1>q DEF vars, file, server, Published
<1>16. QED BY <1>1, <1>2, <1>3, <1>4, <1>5, <1>6, <1>7, <1>8, <1>9, <1>10, <1>11, <1>12,
              <1>13, <1>14, <1>15 DEF Next, Queue, Serve

LEMMA CommitCounts ==
    ASSUME TInv, LogInv, NEW s \in Slots, NEW e \in Events, Commit(s, e)
    PROVE  \A f \in Events :
              Version(f)' = IF about[f] = about[e] THEN Version(f) + 1 ELSE Version(f)
<1> DEFINE x == [seq |-> posts[s].seq, event |-> e]
<1> DEFINE Of(f) == {r \in log : about[r.event] = about[f]}
<1>1. x \notin log
  <2>1. posts[s].seq \in Nat
    BY DEF TInv, TypeOK, Post
  <2>2. x \in log => x.seq < posts[s].seq
    BY DEF Commit, LogInv, Done
  <2>3. x.seq = posts[s].seq
    OBVIOUS
  <2>4. QED BY <2>1, <2>2, <2>3
<1>2. TAKE f \in Events
<1>3. IsFiniteSet(Of(f)) /\ x \notin Of(f)
  BY <1>1, FS_Subset DEF TInv
<1>4. Cardinality(Of(f) \cup {x}) = Cardinality(Of(f)) + 1
  BY <1>3, FS_AddElement
<1>5. log' = log \cup {x} /\ about' = about
  BY DEF Commit
<1>6. Version(f)' = Cardinality({r \in log' : about[r.event] = about[f]})
  BY <1>5 DEF Version
<1>7. CASE about[f] = about[e]
  <2>1. {r \in log' : about[r.event] = about[f]} = Of(f) \cup {x}
    BY <1>5, <1>7
  <2>2. QED BY <1>4, <1>6, <1>7, <2>1 DEF Version
<1>8. CASE about[f] # about[e]
  <2>1. {r \in log' : about[r.event] = about[f]} = Of(f)
    BY <1>5, <1>8
  <2>2. QED BY <1>6, <1>8, <2>1 DEF Version
<1>9. QED BY <1>7, <1>8

LEMMA LogInvPreserved == TInv /\ LogInv /\ LogStep => LogInv'
<1> SUFFICES ASSUME TInv, LogInv, LogStep PROVE LogInv'
  OBVIOUS
<1>t. /\ row \in [Events -> Row] /\ posts \in [Slots -> Post] /\ issued \in Nat
      /\ base \in [Events -> Nat \cup {Unset}] /\ log \subseteq Committed
  BY DEF TInv, TypeOK
<1>n. \A s \in Slots : posts[s].seq \in Nat
  BY <1>t DEF Post
<1>e. \A r \in log : r.seq \in Nat \ {0} /\ r.event \in Events
  BY <1>t DEF Committed
<1>v. \A f \in Events : Version(f) \in Nat
  BY VersionIsNat DEF TInv
<1>1. CASE Quiet
  <2>1. \A f : Version(f)' = Version(f)
    BY <1>1 DEF Quiet, Version
  <2>2. \A r \in log : Done(r.seq)'
    BY <1>1, <1>n, <1>e DEF Quiet, Done, LogInv
  <2>3. NoLostUpdate'
    BY <1>1 DEF Quiet, LogInv, NoLostUpdate
  <2>4. /\ \A s, t \in Slots : posts'[s].seq # 0 /\ posts'[t].seq # 0 => s = t
        /\ \A s \in Slots : posts'[s].seq <= issued
    BY <1>1, <1>n, <1>t DEF Quiet, LogInv
  <2>5. \A s \in Slots : \A e \in posts'[s].todo : Published(e)'
    BY <1>1 DEF Quiet, Published
  <2>6. \A r \in log : Published(r.event)' /\ base[r.event] < Version(r.event)
    BY <1>1, <1>e DEF Quiet, LogInv
  <2>7. QED BY <1>1, <2>1, <2>2, <2>3, <2>4, <2>5, <2>6 DEF Quiet, LogInv
<1>2. ASSUME NEW p \in Processes, NEW e \in Events, Enqueue(p, e) PROVE LogInv'
  <2>1. PICK v \in 0..Version(e) : base' = [base EXCEPT ![e] = v]
    BY <1>2 DEF Enqueue
  <2>2. UNCHANGED <<about, posts, issued, log>> /\ ~Published(e)
    BY <1>2 DEF Enqueue, server, Published
  <2>3. \A f : Version(f)' = Version(f)
    BY <2>2 DEF Version
  <2>4. \A f \in Events : Published(f)' <=> (Published(f) \/ f = e)
    <3>1. \A f \in Events \ {e} : row'[f] = row[f]
      BY <1>2, <1>t DEF Enqueue
    <3>2. row'[e].state = "pending"
      <4>1. \E n : row' = [row EXCEPT ![e].state = "pending", ![e].id = n]
        BY <1>2, Zenon DEF Enqueue
      <4>2. QED BY <4>1, <1>t DEF Row
    <3>3. QED BY <3>1, <3>2 DEF Published
  <2>5. \A r \in log : r.event # e
    BY <2>2 DEF LogInv
  <2>6. base'[e] \in 0..Version(e) /\ \A f \in Events \ {e} : base'[f] = base[f]
    BY <1>t, <2>1
  <2>7. \A s \in Slots : \A f \in posts'[s].todo : Published(f)'
    BY <1>t, <2>2, <2>4 DEF LogInv, Post
  <2>8. \A r \in log : base'[r.event] = base[r.event]
    BY <1>e, <2>5, <2>6
  <2>9. \A f \in Events : base'[f] \in -1..Version(f)'
    BY <1>v, <2>3, <2>6 DEF LogInv
  <2>10. \A r \in log' : Done(r.seq)' /\ Published(r.event)'
                         /\ base'[r.event] < Version(r.event)'
    BY <1>e, <2>2, <2>3, <2>4, <2>8 DEF LogInv, Done
  <2>11. NoLostUpdate'
    BY <2>2, <2>8 DEF LogInv, NoLostUpdate
  <2>12. QED BY <2>2, <2>7, <2>9, <2>10, <2>11 DEF LogInv
<1>3. ASSUME NEW s \in Slots, Allocate(s) PROVE LogInv'
  <2>1. /\ UNCHANGED <<row, about, base, log>> /\ issued' = issued + 1
        /\ \A t \in Slots : posts[t].seq = 0
    BY <1>3 DEF Allocate, file
  <2>2. \A t \in Slots : /\ posts'[t].seq = IF t = s THEN issued + 1 ELSE 0
                         /\ posts'[t].todo = posts[t].todo
    BY <1>3, <1>t, <2>1 DEF Allocate, Post
  <2>3. \A r \in log : Done(r.seq)'
    BY <1>t, <1>e, <2>1, <2>2 DEF LogInv, Done
  <2>4. \A f : Version(f)' = Version(f) /\ Published(f)' = Published(f)
    BY <2>1 DEF Version, Published
  <2>5. QED BY <1>t, <2>1, <2>2, <2>3, <2>4 DEF LogInv, NoLostUpdate
<1>4. ASSUME NEW s \in Slots, NEW e \in Events, Commit(s, e) PROVE LogInv'
  <2> DEFINE x == [seq |-> posts[s].seq, event |-> e]
  <2>1. /\ UNCHANGED <<row, about, base, issued>> /\ log' = log \cup {x}
        /\ x.seq = posts[s].seq /\ x.event = e
        /\ posts[s].seq # 0 /\ Published(e) /\ base[e] = Version(e)
    BY <1>4 DEF Commit, Acceptable
  <2>2. \A t \in Slots : /\ posts'[t].seq = 0
                         /\ posts'[t].todo \subseteq posts[t].todo
    BY <1>4 DEF Commit, LogInv
  <2>3. \A f \in Events :
          Version(f)' = IF about[f] = about[e] THEN Version(f) + 1 ELSE Version(f)
    BY <1>4, CommitCounts
  <2>4. \A f : Published(f)' = Published(f)
    BY <2>1 DEF Published
  <2>5. \A r \in log : r.seq < x.seq
    BY <2>1 DEF LogInv, Done
  <2>6. \A r \in log' : Done(r.seq)'
    BY <1>n, <1>e, <2>1, <2>2 DEF LogInv, Done
  <2>7. \A r \in log' : Published(r.event)' /\ base'[r.event] < Version(r.event)'
    <3>1. \A r \in log : base[r.event] < Version(r.event)' /\ Published(r.event)
      <4>1. TAKE r \in log
      <4>2. r.event \in Events /\ base[r.event] < Version(r.event) /\ Published(r.event)
        BY <1>e DEF LogInv
      <4>3. base[r.event] \in -1..Version(r.event)
        BY <4>2 DEF LogInv
      <4>4. QED BY <1>v, <2>3, <4>2, <4>3
    <3>2. base[e] < Version(e)' /\ Published(e)
      BY <1>v, <2>1, <2>3
    <3>3. QED BY <2>1, <2>4, <3>1, <3>2
  <2>8. \A f \in Events : base'[f] \in -1..Version(f)'
    BY <1>v, <2>1, <2>3, <2>4 DEF LogInv
  <2>9. \A y, z \in log' : y.seq = z.seq => y = z
    BY <1>n, <1>e, <2>1, <2>5 DEF LogInv
  <2>10. NoLostUpdate'
    <3>1. SUFFICES ASSUME NEW y \in log', NEW z \in log', y.seq < z.seq,
                          about[y.event] = about[z.event]
                   PROVE  base[y.event] < base[z.event]
      BY <2>1 DEF NoLostUpdate
    <3>2. CASE z \in log
      <4>1. y \in log
        BY <1>n, <1>e, <2>1, <2>5, <3>1, <3>2
      <4>2. QED BY <3>1, <3>2, <4>1 DEF LogInv, NoLostUpdate
    <3>3. CASE z = x
      <4>1. y \in log
        BY <1>n, <2>1, <3>1, <3>3
      <4>2. base[y.event] < Version(y.event)
        BY <4>1 DEF LogInv
      <4>3. Version(y.event) = Version(e)
        BY <2>1, <3>1, <3>3 DEF Version
      <4>4. QED BY <2>1, <3>3, <4>2, <4>3
    <3>4. QED BY <2>1, <3>2, <3>3
  <2>11. \A t \in Slots : \A f \in posts'[t].todo : Published(f)'
    BY <2>2, <2>4 DEF LogInv
  <2>12. QED BY <1>t, <2>1, <2>2, <2>6, <2>7, <2>8, <2>9, <2>10, <2>11 DEF LogInv
<1>5. QED BY <1>1, <1>2, <1>3, <1>4 DEF LogStep

(* The log only grows, a lost event remains lost, and nothing enters the   *)
(* log below a number that is done.                                        *)
LEMMA LogFacts ==
    ASSUME TInv, LogInv, LogStep
    PROVE  /\ log \subseteq log'
           /\ \A e \in Events : Lost(e) => Lost(e)'
           /\ \A n \in Nat : Done(n) => Done(n)' /\ Covered(n)' = Covered(n)
<1>t. /\ row \in [Events -> Row] /\ posts \in [Slots -> Post] /\ issued \in Nat
      /\ base \in [Events -> Nat \cup {Unset}] /\ log \subseteq Committed
  BY DEF TInv, TypeOK
<1>n. \A s \in Slots : posts[s].seq \in Nat
  BY <1>t DEF Post
<1>v. \A f \in Events : Version(f) \in Nat
  BY VersionIsNat DEF TInv
<1>1. CASE Quiet
  <2>1. \A f : Version(f)' = Version(f) /\ Entries(f)' = Entries(f)
    BY <1>1 DEF Quiet, Version, Entries
  <2>2. \A n \in Nat : Done(n) => Done(n)' /\ Covered(n)' = Covered(n)
    BY <1>1, <1>n DEF Quiet, Done, Covered
  <2>3. QED BY <1>1, <2>1, <2>2 DEF Quiet, Lost
<1>2. ASSUME NEW p \in Processes, NEW e \in Events, Enqueue(p, e)
      PROVE  /\ log \subseteq log'
             /\ \A f \in Events : Lost(f) => Lost(f)'
             /\ \A n \in Nat : Done(n) => Done(n)' /\ Covered(n)' = Covered(n)
  <2>1. UNCHANGED <<about, posts, issued, log>> /\ ~Published(e)
    BY <1>2 DEF Enqueue, server, Published
  <2>2. \A f : Version(f)' = Version(f) /\ Entries(f)' = Entries(f)
    BY <2>1 DEF Version, Entries
  <2>3. \A f \in Events \ {e} : row'[f] = row[f] /\ base'[f] = base[f]
    BY <1>2, <1>t DEF Enqueue
  <2>4. \A n \in Nat : Done(n) => Done(n)' /\ Covered(n)' = Covered(n)
    BY <2>1 DEF Done, Covered
  <2>5. \A f \in Events : Lost(f) => Lost(f)'
    BY <2>1, <2>2, <2>3 DEF Lost, Published
  <2>6. QED BY <2>1, <2>4, <2>5
<1>3. ASSUME NEW s \in Slots, Allocate(s)
      PROVE  /\ log \subseteq log'
             /\ \A f \in Events : Lost(f) => Lost(f)'
             /\ \A n \in Nat : Done(n) => Done(n)' /\ Covered(n)' = Covered(n)
  <2>1. /\ UNCHANGED <<row, about, base, log>> /\ issued' = issued + 1
        /\ \A t \in Slots : posts[t].seq = 0
    BY <1>3 DEF Allocate, file
  <2>2. \A t \in Slots : posts'[t].seq = IF t = s THEN issued + 1 ELSE 0
    BY <1>3, <1>t, <2>1 DEF Allocate, Post
  <2>3. \A n \in Nat : Done(n) => Done(n)'
    BY <1>t, <2>1, <2>2 DEF Done
  <2>4. QED BY <2>1, <2>3 DEF Covered, Lost, Published, Entries, Version
<1>4. ASSUME NEW s \in Slots, NEW e \in Events, Commit(s, e)
      PROVE  /\ log \subseteq log'
             /\ \A f \in Events : Lost(f) => Lost(f)'
             /\ \A n \in Nat : Done(n) => Done(n)' /\ Covered(n)' = Covered(n)
  <2> DEFINE x == [seq |-> posts[s].seq, event |-> e]
  <2>1. /\ UNCHANGED <<row, about, base, issued>> /\ log' = log \cup {x}
        /\ x.seq = posts[s].seq /\ x.event = e
        /\ posts[s].seq # 0 /\ base[e] = Version(e)
    BY <1>4 DEF Commit, Acceptable
  <2>2. \A t \in Slots : posts'[t].seq = IF t = s THEN 0 ELSE posts[t].seq
    BY <1>4 DEF Commit
  <2>3. \A f \in Events :
          Version(f)' = IF about[f] = about[e] THEN Version(f) + 1 ELSE Version(f)
    BY <1>4, CommitCounts
  <2>4. \A f \in Events : Lost(f) => Lost(f)'
    <3>1. SUFFICES ASSUME NEW f \in Events, Lost(f) PROVE Lost(f)'
      OBVIOUS
    <3>2. f # e
      BY <1>v, <2>1, <3>1 DEF Lost
    <3>3. Entries(f)' = Entries(f)
      BY <2>1, <3>2 DEF Entries
    <3>4. base[f] \in -1..Version(f) /\ base[f] < Version(f)
      BY <3>1 DEF Lost, LogInv
    <3>5. base[f] < Version(f)'
      BY <1>v, <2>3, <3>4
    <3>6. QED BY <2>1, <3>1, <3>3, <3>5 DEF Lost, Published
  <2>5. \A n \in Nat : Done(n) => Done(n)' /\ Covered(n)' = Covered(n)
    <3>1. SUFFICES ASSUME NEW n \in Nat, Done(n) PROVE Done(n)' /\ Covered(n)' = Covered(n)
      OBVIOUS
    <3>2. n < posts[s].seq
      BY <2>1, <3>1 DEF Done
    <3>3. Covered(n)' = Covered(n)
      BY <1>n, <2>1, <3>2 DEF Covered
    <3>4. QED BY <2>1, <2>2, <3>1, <3>3 DEF Done
  <2>6. QED BY <2>1, <2>4, <2>5
<1>5. QED BY <1>1, <1>2, <1>3, <1>4 DEF LogStep

LEMMA LogInvInitially == Init => LogInv
<1> SUFFICES ASSUME Init PROVE LogInv
  OBVIOUS
<1>1. \A f : {r \in log : about[r.event] = about[f]} = {}
  BY DEF Init
<1>2. \A f : Version(f) = 0
  BY <1>1, FS_EmptySet DEF Version
<1>3. QED BY <1>2 DEF Init, LogInv, Free, Unset, NoLostUpdate

LEMMA LogInvAlways == Spec => [](TInv /\ LogInv)
<1>1. Init => TInv /\ LogInv
  BY TypeInitially, LogInvInitially
<1>2. TInv /\ LogInv /\ [Next]_vars => TInv' /\ LogInv'
  BY TypePreserved, EveryStepIsLogStep, LogInvPreserved
<1>3. QED BY <1>1, <1>2, PTL DEF Spec

(* Of two committed events about one entity the later one was written      *)
(* against a later version: the lock, the unique identifiers and the       *)
(* version check of the server admit no lost update and no second copy.    *)
THEOREM NoUpdateIsLost == Spec => []NoLostUpdate
<1>1. LogInv => NoLostUpdate
  BY DEF LogInv
<1>2. QED BY <1>1, LogInvAlways, PTL

-----------------------------------------------------------------------------
(* The verdicts *)

\* The log bears a result out, now and for ever.
Justified(x) ==
    /\ x.verdict \in {"accepted", "duplicate"} => [seq |-> x.seq, event |-> x.event] \in log
    /\ x.verdict = "conflict" => Lost(x.event)

VerdictInv ==
    /\ \A s \in Slots : \A x \in posts[s].answers : Justified(x)
    /\ \A p \in Processes : \A x \in answer[p] : Justified(x)
    /\ AckedIsCommitted
    /\ \A e \in Events : row[e].state = "refused" => Lost(e)

\* A step that brings no verdict the log does not bear out.
Sound ==
    /\ \A s \in Slots : \A x \in posts'[s].answers :
          x \in Result /\ (Justified(x) \/ Justified(x)')
    /\ \A p \in Processes : \A x \in answer'[p] : x \in Result /\ Justified(x)
    /\ \A e \in Events : row'[e].state = "acked" =>
          \/ row[e].state = "acked" /\ row'[e].seq = row[e].seq
          \/ [seq |-> row'[e].seq, event |-> e] \in log
    /\ \A e \in Events : row'[e].state = "refused" => row[e].state = "refused" \/ Lost(e)

LEMMA SoundStepsKeepVerdicts ==
    ASSUME TInv, LogInv, VerdictInv, LogStep, Sound
    PROVE  VerdictInv'
<1>1. \A x \in Result : Justified(x) => Justified(x)'
  BY LogFacts DEF Justified, Result
<1>2. AckedIsCommitted'
  BY LogFacts DEF Sound, VerdictInv, AckedIsCommitted
<1>3. \A e \in Events : row'[e].state = "refused" => Lost(e)'
  BY LogFacts DEF Sound, VerdictInv
<1>4. QED BY <1>1, <1>2, <1>3 DEF Sound, VerdictInv

LEMMA AnswersAreSound ==
    ASSUME TInv, LogInv, VerdictInv, NEW s \in Slots, NEW e \in Events,
           NEW v \in Verdicts, NEW n \in Nat, Answered(s, e, v, n),
           Justified([event |-> e, verdict |-> v, seq |-> n])'
    PROVE  \A t \in Slots : \A x \in posts'[t].answers :
              x \in Result /\ (Justified(x) \/ Justified(x)')
<1> DEFINE y == [event |-> e, verdict |-> v, seq |-> n]
<1>1. y \in Result
  BY DEF Result
<1>2. posts \in [Slots -> Post]
  BY DEF TInv, TypeOK
<1>3. \A t \in Slots : posts'[t].answers \subseteq posts[t].answers \cup {y}
  BY <1>2 DEF Answered, Post
<1>4. \A t \in Slots : posts[t].answers \subseteq Result
  BY <1>2 DEF Post
<1>5. QED BY <1>1, <1>3, <1>4 DEF VerdictInv

LEMMA VerdictsPreserved == TInv /\ LogInv /\ VerdictInv /\ [Next]_vars => VerdictInv'
<1> SUFFICES ASSUME TInv, LogInv, VerdictInv, [Next]_vars PROVE VerdictInv'
  OBVIOUS
<1>l. LogStep
  BY EveryStepIsLogStep
<1>s. SUFFICES Sound
  BY <1>l, SoundStepsKeepVerdicts
<1>t. /\ row \in [Events -> Row] /\ posts \in [Slots -> Post]
      /\ answer \in [Processes -> SUBSET Result] /\ log \subseteq Committed
  BY DEF TInv, TypeOK
<1>a. \A s \in Slots : posts[s].answers \subseteq Result
  BY <1>t DEF Post
<1>p. \A s \in Slots : \A x \in posts[s].answers : x \in Result /\ Justified(x)
  BY <1>a DEF VerdictInv
<1>w. \A p \in Processes : \A x \in answer[p] : x \in Result /\ Justified(x)
  BY <1>t DEF VerdictInv
<1>r. ASSUME \A e \in Events :
                \/ row'[e].state = row[e].state /\ row'[e].seq = row[e].seq
                \/ row'[e].state \notin {"acked", "refused"},
             \A s \in Slots : posts'[s].answers \in {posts[s].answers, {}},
             \A p \in Processes : answer'[p] \subseteq answer[p]
      PROVE  Sound
  BY <1>r, <1>p, <1>w DEF Sound
<1>z. \A p \in Processes : \A e \in Events :
          \/ Reset(p)[e] = row[e]
          \/ Reset(p)[e].state = "pending"
  BY <1>t DEF Reset, Released, Row
<1>1. ASSUME NEW p \in Processes, NEW e \in Events, Enqueue(p, e) PROVE Sound
  <2>1. \A f \in Events : row'[f] = row[f] \/ row'[f].state = "pending"
    <3>1. \E n : row' = [row EXCEPT ![e].state = "pending", ![e].id = n]
      BY <1>1, Zenon DEF Enqueue
    <3>2. QED BY <3>1, <1>t DEF Row
  <2>2. QED BY <1>1, <1>r, <2>1 DEF Enqueue, server
<1>2. ASSUME NEW p \in Processes, Flush(p) PROVE Sound
  <2>1. \A e \in Events : row'[e] = row[e] \/ row'[e].state \in {"pending", "sending"}
    BY <1>2, <1>t DEF Flush, Released, Row
  <2>2. posts' = [posts EXCEPT ![Slot] = [Free EXCEPT !.by = p, !.todo = Batch]]
    BY <1>2 DEF Flush
  <2>3. \A s \in Slots : posts'[s].answers \in {posts[s].answers, {}}
    BY <1>t, <2>2 DEF Free
  <2>4. QED BY <1>2, <1>r, <2>1, <2>3 DEF Flush
<1>3. ASSUME NEW p \in Processes, Receive(p) PROVE Sound
  <2>1. PICK s \in Posted(p) :
          /\ answer' = [answer EXCEPT ![p] = posts[s].answers]
          /\ posts' = [posts EXCEPT ![s] = Free]
          /\ row' = row
    BY <1>3 DEF Receive, file
  <2>2. s \in Slots
    BY DEF Posted
  <2>3. \A t \in Slots : posts'[t].answers \in {posts[t].answers, {}}
    BY <1>t, <2>1 DEF Free
  <2>4. \A q \in Processes : \A x \in answer'[q] : x \in Result /\ Justified(x)
    BY <1>t, <1>p, <1>w, <2>1, <2>2
  <2>5. QED BY <1>p, <2>1, <2>3, <2>4 DEF Sound
<1>4. ASSUME NEW p \in Processes, GiveUp(p) PROVE Sound
  <2>1. \A s \in Slots : posts'[s] \in {posts[s], Abandoned(posts[s])}
    BY <1>4, <1>t DEF GiveUp, Posted
  <2>2. \A s \in Slots : posts'[s].answers \in {posts[s].answers, {}}
    BY <1>t, <2>1 DEF Abandoned, Post
  <2>3. QED BY <1>4, <1>r, <1>z, <2>2 DEF GiveUp
<1>5. ASSUME NEW p \in Processes, NEW x \in answer[p], Mark(p, x) PROVE Sound
  <2>1. x \in Result /\ Justified(x) /\ x.event \in Events /\ x.verdict \in Verdicts
    BY <1>t, <1>w DEF Result
  <2>2. x.verdict # "retryable"
    BY <1>5 DEF Mark, Final
  <2>3. /\ row' = [row EXCEPT ![x.event] = Settled(@, x)]
        /\ answer' = [answer EXCEPT ![p] = @ \ {x}]
        /\ posts' = posts
    BY <1>5 DEF Mark, server
  <2>4. \A q \in Processes : answer'[q] \subseteq answer[q]
    BY <1>t, <2>3
  <2>5. \A e \in Events \ {x.event} : row'[e] = row[e]
    BY <1>t, <2>3
  <2>6. row'[x.event] = Settled(row[x.event], x) /\ row[x.event] \in Row
    BY <1>t, <2>1, <2>3
  <2>7. CASE x.verdict \in {"accepted", "duplicate"}
    <3>1. row'[x.event].state = "acked" /\ row'[x.event].seq = x.seq
      BY <2>6, <2>7 DEF Settled, Row
    <3>2. [seq |-> x.seq, event |-> x.event] \in log
      BY <2>1, <2>7 DEF Justified
    <3>3. QED BY <1>p, <1>w, <2>3, <2>4, <2>5, <3>1, <3>2 DEF Sound
  <2>8. CASE x.verdict = "conflict"
    <3>1. Lost(x.event)
      BY <2>1, <2>8 DEF Justified
    <3>2. \/ row'[x.event] = row[x.event]
          \/ row'[x.event].state = "refused"
      BY <2>6, <2>8 DEF Settled, Row
    <3>3. QED BY <1>p, <1>w, <2>3, <2>4, <2>5, <3>1, <3>2 DEF Sound
  <2>9. QED BY <2>1, <2>2, <2>7, <2>8 DEF Verdicts
<1>6. ASSUME NEW p \in Processes, Retry(p) PROVE Sound
  <2>1. \A q \in Processes : answer'[q] \subseteq answer[q]
    BY <1>6, <1>t DEF Retry
  <2>2. QED BY <1>6, <1>r, <1>z, <2>1 DEF Retry, server
<1>7. CASE Minute \/ Sleep
  <2>1. \A e \in Events : row'[e] \in {row[e], [row[e] EXCEPT !.old = TRUE]}
    BY <1>7, <1>t DEF Minute, Sleep
  <2>2. \A e \in Events : row'[e].state = row[e].state /\ row'[e].seq = row[e].seq
    BY <1>t, <2>1 DEF Row
  <2>3. QED BY <1>7, <1>r, <2>2 DEF Minute, Sleep, server
<1>8. ASSUME NEW s \in Slots, Allocate(s) PROVE Sound
  <2>1. \A t \in Slots : posts'[t].answers = posts[t].answers
    BY <1>8, <1>t DEF Allocate, Post
  <2>2. QED BY <1>8, <1>r, <2>1 DEF Allocate, file
<1>9. ASSUME NEW s \in Slots, Conclude(s) PROVE Sound
  <2>1. PICK e \in Leading(posts[s].todo) : Accept(s, e) \/ Repeat(s, e) \/ Conflict(s, e)
    BY <1>9 DEF Conclude
  <2>2. e \in posts[s].todo /\ posts[s].seq # 0 /\ UNCHANGED <<row, about, base, answer>>
    BY <1>9 DEF Leading, Conclude, file
  <2>3. e \in Events /\ Published(e) /\ posts[s].seq \in Nat
    BY <1>t, <2>2 DEF LogInv, Post
  <2>4. CASE Accept(s, e)
    <3>n. PICK n \in Nat : n = posts[s].seq
      BY <2>3
    <3>1. Justified([event |-> e, verdict |-> "accepted", seq |-> n])'
      BY <2>4, <3>n DEF Accept, Justified
    <3>2. Answered(s, e, "accepted", n) /\ "accepted" \in Verdicts
      BY <2>4, <3>n DEF Accept, Verdicts
    <3>3. \A t \in Slots : \A x \in posts'[t].answers :
              x \in Result /\ (Justified(x) \/ Justified(x)')
      BY <2>3, <3>1, <3>2, AnswersAreSound
    <3>4. QED BY <1>w, <2>2, <3>3 DEF Sound
  <2>5. CASE Repeat(s, e)
    <3>1. PICK r \in Entries(e) : Answered(s, e, "duplicate", r.seq)
      BY <2>5 DEF Repeat
    <3>2. r \in log /\ r.event = e /\ r.seq \in Nat /\ r = [seq |-> r.seq, event |-> e]
      BY <1>t, <3>1 DEF Entries, Committed
    <3>3. Justified([event |-> e, verdict |-> "duplicate", seq |-> r.seq])'
      BY <2>5, <3>2 DEF Repeat, Justified
    <3>4. \A t \in Slots : \A x \in posts'[t].answers :
              x \in Result /\ (Justified(x) \/ Justified(x)')
      BY <2>3, <3>1, <3>2, <3>3, AnswersAreSound DEF Verdicts
    <3>5. QED BY <1>w, <2>2, <3>4 DEF Sound
  <2>6. CASE Conflict(s, e)
    <3>1. base[e] \in -1..Version(e) /\ Version(e) \in Nat
      BY <2>3, VersionIsNat DEF LogInv, TInv
    <3>2. Lost(e)
      BY <2>3, <2>6, <3>1 DEF Conflict, Lost
    <3>3. Lost(e)'
      BY <1>l, <2>3, <3>2, LogFacts
    <3>4. Justified([event |-> e, verdict |-> "conflict", seq |-> 0])'
      BY <3>3 DEF Justified
    <3>5. \A t \in Slots : \A x \in posts'[t].answers :
              x \in Result /\ (Justified(x) \/ Justified(x)')
      BY <2>3, <2>6, <3>4, AnswersAreSound DEF Verdicts, Conflict
    <3>6. QED BY <1>w, <2>2, <3>5 DEF Sound
  <2>7. QED BY <2>1, <2>4, <2>5, <2>6
<1>10. ASSUME NEW s \in Slots, Interrupt(s) PROVE Sound
  <2>1. PICK e \in Leading(posts[s].todo) : Answered(s, e, "retryable", 0)
    BY <1>10 DEF Interrupt
  <2>2. e \in posts[s].todo /\ UNCHANGED <<row, answer>>
    BY <1>10 DEF Leading, Interrupt, file
  <2>3. e \in Events
    BY <1>t, <2>2 DEF Post
  <2>4. Justified([event |-> e, verdict |-> "retryable", seq |-> 0])'
    BY DEF Justified
  <2>5. \A t \in Slots : \A x \in posts'[t].answers :
            x \in Result /\ (Justified(x) \/ Justified(x)')
    BY <2>1, <2>3, <2>4, AnswersAreSound DEF Verdicts
  <2>6. QED BY <1>w, <2>2, <2>5 DEF Sound
<1>11. ASSUME NEW s \in Slots, Drop(s) PROVE Sound
  <2>1. \A t \in Slots : posts'[t].answers \in {posts[t].answers, {}}
    BY <1>11, <1>t DEF Drop, Free
  <2>2. QED BY <1>11, <1>r, <2>1 DEF Drop, file
<1>12. ASSUME NEW p \in Processes, Replay(p) \/ PollFails(p) PROVE Sound
  <2>1. UNCHANGED <<row, answer, posts>>
    BY <1>12 DEF Replay, Poll, Apply, Skip, Store, Ack, PollFails, file, server
  <2>2. QED BY <2>1, <1>r
<1>13. ASSUME NEW p \in Processes, Crash(p) PROVE Sound
  <2>1. \A s \in Slots : posts'[s].answers \in {posts[s].answers, {}}
    BY <1>13, <1>t DEF Crash, Abandoned, Post
  <2>2. \A e \in Events : row'[e].state = row[e].state /\ row'[e].seq = row[e].seq
    BY <1>13, <1>t DEF Crash, Row
  <2>3. \A q \in Processes : answer'[q] \subseteq answer[q]
    BY <1>13, <1>t DEF Crash
  <2>4. QED BY <1>r, <2>1, <2>2, <2>3
<1>14. ASSUME NEW p \in Processes, Restart(p) PROVE Sound
  BY <1>14, <1>r, <1>z DEF Restart, server
<1>15. CASE UNCHANGED vars
  BY <1>15, <1>r DEF vars, file, server
<1>16. QED BY <1>1, <1>2, <1>3, <1>4, <1>5, <1>6, <1>7, <1>8, <1>9, <1>10, <1>11, <1>12,
              <1>13, <1>14, <1>15 DEF Next, Queue, Serve

LEMMA VerdictsInitially == Init => VerdictInv
BY DEF Init, VerdictInv, NoRow, Free, AckedIsCommitted

LEMMA VerdictsAlways == Spec => [](TInv /\ LogInv /\ VerdictInv)
<1>1. TInv /\ LogInv /\ [Next]_vars => LogInv'
  BY EveryStepIsLogStep, LogInvPreserved
<1>2. QED BY <1>1, VerdictsInitially, VerdictsPreserved, TypeInitially, TypePreserved,
             LogInvInitially, PTL DEF Spec

(* Whichever request a process heard the answer of, and however often the  *)
(* event was sent: a row that is `acked' names its place in the log.       *)
THEOREM AcknowledgedIsCommitted == Spec => []AckedIsCommitted
<1>1. VerdictInv => AckedIsCommitted
  BY DEF VerdictInv
<1>2. QED BY <1>1, VerdictsAlways, PTL

(* A refused event is not in the log and never enters it: the entity has   *)
(* passed the version it was written against.                              *)
THEOREM RefusedForEver == Spec => []RefusedIsNotCommitted
<1>1. VerdictInv => RefusedIsNotCommitted
  BY DEF VerdictInv, Lost, RefusedIsNotCommitted
<1>2. QED BY <1>1, VerdictsAlways, PTL

-----------------------------------------------------------------------------
(* The replica *)

\* Everything committed up to n is in the file, and nothing follows below n.
Complete(n) == Done(n) /\ Covered(n) \subseteq cache

\* What subscription u knows of the log.
InOrder(u) ==
    /\ Complete(u.at)
    /\ u.page \subseteq log
    /\ u.awaiting = 0 => u.page = {} /\ ~u.stored
    /\ u.awaiting # 0 =>
          /\ Done(u.awaiting) /\ Covered(u.awaiting) \subseteq cache \cup u.page
          /\ \A r \in u.page : r.seq <= u.awaiting
    /\ u.stored => Earliest(u.page) \subseteq cache

ReplicaInv == Complete(cursor) /\ \A p \in Processes : InOrder(sub[p])

LEMMA ReplicaStable ==
    ASSUME TInv, LogInv, LogStep, cache \subseteq cache'
    PROVE  /\ \A n \in Nat : Complete(n) => Complete(n)'
           /\ \A u \in Subscription : InOrder(u) => InOrder(u)'
<1>1. \A n \in Nat : Complete(n) => Complete(n)'
  BY LogFacts DEF Complete
<1>2. ASSUME NEW u \in Subscription, InOrder(u) PROVE InOrder(u)'
  <2>1. u.at \in Nat /\ u.awaiting \in Nat
    BY DEF Subscription
  <2>2. Complete(u.at)' /\ u.page \subseteq log'
    BY <1>1, <1>2, <2>1, LogFacts DEF InOrder
  <2>3. u.awaiting # 0 => Done(u.awaiting)' /\ Covered(u.awaiting)' \subseteq cache' \cup u.page
    BY <1>2, <2>1, LogFacts DEF InOrder
  <2>4. u.stored => Earliest(u.page) \subseteq cache'
    BY <1>2 DEF InOrder
  <2>5. QED BY <1>2, <2>2, <2>3, <2>4 DEF InOrder, Earliest
<1>3. QED BY <1>1, <1>2

LEMMA ReplicaPreserved == TInv /\ LogInv /\ ReplicaInv /\ [Next]_vars => ReplicaInv'
<1> SUFFICES ASSUME TInv, LogInv, ReplicaInv, [Next]_vars PROVE ReplicaInv'
  OBVIOUS
<1>l. LogStep
  BY EveryStepIsLogStep
<1>t. /\ sub \in [Processes -> Subscription] /\ log \subseteq Committed /\ cursor \in Nat
      /\ issued \in Nat /\ posts \in [Slots -> Post]
  BY DEF TInv, TypeOK
<1>e. \A r \in log : r.seq \in Nat \ {0} /\ Done(r.seq)
  BY <1>t DEF Committed, LogInv
<1>c. \A n \in Nat : InOrder(Hello(n)) <=> Complete(n)
  BY DEF InOrder, Hello
<1>s. ASSUME NEW p \in Processes, NEW u, NEW n \in Nat,
             cache \subseteq cache', cursor' = n, sub' = [sub EXCEPT ![p] = u],
             Complete(n), InOrder(u) \/ InOrder(u)'
      PROVE  ReplicaInv'
  <2>1. sub'[p] = u /\ \A q \in Processes \ {p} : sub'[q] = sub[q]
    BY <1>s, <1>t
  <2>2. sub' \in [Processes -> Subscription]
    BY TypePreserved DEF TInv, TypeOK
  <2>3. u \in Subscription
    BY <2>1, <2>2
  <2>4. InOrder(u)' /\ Complete(n)'
    BY <1>s, <1>l, <2>3, ReplicaStable
  <2>5. \A q \in Processes : InOrder(sub[q])'  \/ q = p
    <3>1. SUFFICES ASSUME NEW q \in Processes, q # p PROVE InOrder(sub[q])'
      OBVIOUS
    <3>2. PICK v \in Subscription : v = sub[q] /\ InOrder(v)
      BY <1>t DEF ReplicaInv
    <3>3. sub'[q] = v
      BY <2>1, <3>1, <3>2
    <3>4. InOrder(v)'
      BY <1>s, <1>l, <3>2, ReplicaStable
    <3>5. QED BY <3>3, <3>4
  <2>6. QED BY <1>s, <2>1, <2>4, <2>5 DEF ReplicaInv
<1>u. ASSUME UNCHANGED <<cursor, cache, sub>> PROVE ReplicaInv'
  <2>1. PICK n \in Nat : n = cursor /\ Complete(n)
    BY <1>t DEF ReplicaInv
  <2>2. PICK f : f = sub
    OBVIOUS
  <2>3. Complete(n)' /\ \A p \in Processes : InOrder(f[p])'
    BY <1>u, <1>t, <1>l, <2>1, <2>2, ReplicaStable DEF ReplicaInv
  <2>4. cursor' = n /\ sub' = f
    BY <1>u, <2>1, <2>2
  <2>5. QED BY <2>3, <2>4 DEF ReplicaInv
<1>h. ASSUME NEW p \in Processes, NEW n \in Nat, n \in {0, cursor},
             UNCHANGED <<cursor, cache>>, sub' = [sub EXCEPT ![p] = Hello(n)]
      PROVE  ReplicaInv'
  <2>1. Complete(0)
    BY <1>t, <1>e DEF Complete, Done, Covered, Post
  <2>2. InOrder(Hello(n))
    BY <1>c, <1>h, <2>1 DEF ReplicaInv
  <2>3. PICK u : u = Hello(n)
    OBVIOUS
  <2>4. PICK k \in Nat : k = cursor /\ Complete(k)
    BY <1>t DEF ReplicaInv
  <2>5. QED BY <1>h, <1>s, <2>2, <2>3, <2>4
<1>1. ASSUME NEW p \in Processes, Poll(p) PROVE ReplicaInv'
  <2>1. PICK last \in Latest(Page(sub[p].at)) :
          sub' = [sub EXCEPT ![p].page = Page(sub[p].at), ![p].awaiting = last.seq]
    BY <1>1 DEF Poll
  <2> DEFINE n == sub[p].at
  <2> DEFINE after == {r \in log : r.seq > n}
  <2> DEFINE before(r) == {q \in after : q.seq < r.seq}
  <2>2. Page(n) = {r \in after : Cardinality(before(r)) < PageSize}
    BY DEF Page
  <2>3. last \in log /\ last.seq \in Nat \ {0} /\ n \in Nat
        /\ Cardinality(before(last)) < PageSize
        /\ \A q \in Page(n) : q.seq <= last.seq
    BY <1>e, <1>t, <2>2 DEF Latest, Subscription
  <2>4. Covered(last.seq) \subseteq cache \cup Page(n)
    <3>1. SUFFICES ASSUME NEW q \in log, q.seq <= last.seq, q.seq > n
                   PROVE  Cardinality(before(q)) < PageSize
      BY <1>e, <2>2, <2>3 DEF Covered, ReplicaInv, InOrder, Complete
    <3>2. IsFiniteSet(before(last))
      BY FS_Subset DEF TInv
    <3>3. before(q) \subseteq before(last)
      BY <1>e, <2>3, <3>1
    <3>4. /\ Cardinality(before(q)) <= Cardinality(before(last))
          /\ Cardinality(before(q)) \in Nat /\ Cardinality(before(last)) \in Nat
      BY <3>2, <3>3, FS_Subset, FS_CardinalityType
    <3>5. PageSize \in Nat
      BY BoundsAssumption
    <3>6. QED BY <2>3, <3>4, <3>5
  <2>u. PICK u : u = [sub[p] EXCEPT !.page = Page(n), !.awaiting = last.seq]
    OBVIOUS
  <2>5. /\ u.at = n /\ u.page = Page(n) /\ u.awaiting = last.seq
        /\ u.stored = sub[p].stored
    <3>1. sub[p] \in Subscription
      BY <1>t
    <3>2. QED BY <2>u, <3>1 DEF Subscription
  <2>6. ~sub[p].stored /\ Complete(n)
    BY <1>1 DEF Poll, ReplicaInv, InOrder
  <2>7. InOrder(u)
    BY <1>e, <2>2, <2>3, <2>4, <2>5, <2>6 DEF InOrder
  <2>8. UNCHANGED <<cursor, cache>> /\ sub' = [sub EXCEPT ![p] = u]
    BY <1>1, <2>1, <2>u DEF Poll, file
  <2>9. PICK k \in Nat : k = cursor /\ Complete(k)
    BY <1>t DEF ReplicaInv
  <2>10. QED BY <1>s, <2>7, <2>8, <2>9
<1>2. ASSUME NEW p \in Processes, PollFails(p) PROVE ReplicaInv'
  BY <1>2, <1>h, <1>t DEF PollFails, file
<1>3. ASSUME NEW p \in Processes, Apply(p) PROVE ReplicaInv'
  <2>1. PICK r \in Earliest(sub[p].page) : Skip(p, r) \/ Store(p, r) \/ Ack(p, r)
    BY <1>3 DEF Apply
  <2>u. PICK u : u = sub[p]
    OBVIOUS
  <2>2. /\ r \in u.page /\ r \in log /\ \A q \in u.page : r.seq <= q.seq
        /\ u \in Subscription /\ InOrder(u)
    BY <1>t, <2>u DEF Earliest, ReplicaInv, InOrder
  <2>k. PICK k \in Nat : k = cursor /\ Complete(k)
    BY <1>t DEF ReplicaInv
  <2>3. u.awaiting # 0 /\ u.awaiting \in Nat /\ r.seq \in Nat \ {0}
    BY <1>e, <2>2 DEF InOrder, Subscription
  <2>4. CASE Skip(p, r)
    <3>1. r \in cache
      BY <2>2, <2>4 DEF Skip, ReplicaInv, Complete, Covered
    <3>v. PICK v : v = [u EXCEPT !.page = @ \ {r}]
      OBVIOUS
    <3>2. /\ v.at = u.at /\ v.page = u.page \ {r} /\ v.awaiting = u.awaiting
          /\ v.stored = u.stored /\ ~u.stored
      BY <2>u, <2>2, <2>4, <3>v DEF Skip, Subscription
    <3>3. InOrder(v)
      BY <2>2, <2>3, <3>1, <3>2 DEF InOrder
    <3>4. UNCHANGED <<cursor, cache>> /\ sub' = [sub EXCEPT ![p] = v]
      BY <1>t, <2>u, <2>2, <2>4, <3>v DEF Skip, file, Subscription
    <3>5. QED BY <1>s, <2>k, <3>3, <3>4
  <2>5. CASE Store(p, r)
    <3>1. cache' = cache \cup {r} /\ cursor' = cursor
      BY <2>5 DEF Store
    <3>v. PICK v : v = [u EXCEPT !.stored = TRUE]
      OBVIOUS
    <3>2. /\ v.at = u.at /\ v.page = u.page /\ v.awaiting = u.awaiting /\ v.stored
          /\ sub' = [sub EXCEPT ![p] = v]
      BY <1>t, <2>u, <2>2, <2>5, <3>v DEF Store, Subscription
    <3>3. log' = log /\ posts' = posts /\ issued' = issued
      BY <2>5 DEF Store, server
    <3>4. Earliest(u.page) \subseteq cache'
      <4>1. \A q \in Earliest(u.page) : q \in log /\ q.seq = r.seq
        BY <1>e, <2>2 DEF Earliest, InOrder
      <4>2. \A q \in Earliest(u.page) : q = r
        BY <2>2, <4>1 DEF LogInv
      <4>3. QED BY <3>1, <4>2
    <3>5. InOrder(v)'
      <4>1. Complete(u.at)'
        BY <2>2, <3>1, <3>3 DEF InOrder, Complete, Done, Covered
      <4>2. Done(u.awaiting)' /\ Covered(u.awaiting)' \subseteq cache' \cup u.page
        BY <2>2, <2>3, <3>1, <3>3 DEF InOrder, Done, Covered
      <4>3. u.page \subseteq log' /\ \A q \in u.page : q.seq <= u.awaiting
        BY <2>2, <2>3, <3>3 DEF InOrder
      <4>4. QED BY <2>3, <3>2, <3>4, <4>1, <4>2, <4>3 DEF InOrder
    <3>6. QED BY <1>s, <2>k, <3>1, <3>2, <3>5
  <2>6. CASE Ack(p, r)
    <3>1. /\ cursor' = Larger(cursor, r.seq) /\ cache' = cache
          /\ u.stored
      BY <2>u, <2>6 DEF Ack
    <3>v. PICK v : v = [u EXCEPT !.page = @ \ {r}, !.stored = FALSE, !.at = r.seq,
                                 !.awaiting = IF @ = r.seq THEN 0 ELSE @]
      OBVIOUS
    <3>2. /\ v.at = r.seq /\ v.page = u.page \ {r} /\ ~v.stored
          /\ v.awaiting = IF u.awaiting = r.seq THEN 0 ELSE u.awaiting
      BY <2>2, <3>v DEF Subscription
    <3>s. sub' = [sub EXCEPT ![p] = v]
      BY <1>t, <2>u, <2>2, <2>6, <3>v DEF Ack, Subscription
    <3>3. r \in cache
      BY <2>u, <2>1, <2>2, <3>1 DEF InOrder
    <3>4. \A q \in u.page : q \in log /\ q.seq \in Nat
      BY <1>e, <2>2 DEF InOrder
    <3>5. Complete(r.seq)
      <4>1. SUFFICES ASSUME NEW q \in log, q.seq <= r.seq PROVE q \in cache
        BY <1>e, <2>2 DEF Complete, Covered
      <4>2. r.seq <= u.awaiting
        BY <2>2, <2>3 DEF InOrder
      <4>3. q \in cache \cup u.page
        BY <1>e, <2>2, <2>3, <4>1, <4>2 DEF InOrder, Covered
      <4>4. CASE q \in u.page
        <5>1. q.seq = r.seq
          BY <2>2, <2>3, <3>4, <4>1, <4>4
        <5>2. q = r
          BY <2>2, <5>1 DEF LogInv
        <5>3. QED BY <3>3, <5>2
      <4>5. QED BY <4>3, <4>4
    <3>6. PICK n \in Nat : cursor' = n /\ Complete(n)
      BY <2>k, <2>3, <3>1, <3>5 DEF Larger
    <3>7. \A q \in u.page \ {r} : q.seq # r.seq
      BY <2>2, <3>4 DEF LogInv
    <3>8. u.awaiting = r.seq => u.page \ {r} = {}
      BY <2>2, <2>3, <3>4, <3>7 DEF InOrder
    <3>9. InOrder(v)
      BY <2>2, <2>3, <3>2, <3>3, <3>5, <3>8 DEF InOrder
    <3>10. QED BY <1>s, <3>1, <3>s, <3>6, <3>9
  <2>7. QED BY <2>1, <2>4, <2>5, <2>6
<1>4. ASSUME NEW p \in Processes, Crash(p) PROVE ReplicaInv'
  BY <1>4, <1>h, 0 \in Nat DEF Crash
<1>5. ASSUME NEW p \in Processes, Restart(p) PROVE ReplicaInv'
  BY <1>5, <1>h, <1>t DEF Restart
<1>6. ASSUME NEW p \in Processes, NEW e \in Events, Enqueue(p, e) PROVE ReplicaInv'
  BY <1>6, <1>u DEF Enqueue
<1>7. ASSUME NEW p \in Processes, Queue(p) \/ GiveUp(p) PROVE ReplicaInv'
  BY <1>7, <1>u DEF Queue, Flush, Receive, Mark, Retry, GiveUp, file
<1>8. ASSUME NEW s \in Slots, Serve(s) \/ Interrupt(s) PROVE ReplicaInv'
  BY <1>8, <1>u DEF Serve, Allocate, Conclude, Drop, Interrupt, file
<1>9. CASE Minute \/ Sleep
  BY <1>9, <1>u DEF Minute, Sleep
<1>10. CASE UNCHANGED vars
  BY <1>10, <1>u DEF vars, file
<1>11. QED BY <1>1, <1>2, <1>3, <1>4, <1>5, <1>6, <1>7, <1>8, <1>9, <1>10 DEF Next, Replay

LEMMA ReplicaInitially == Init => ReplicaInv
BY DEF Init, ReplicaInv, Complete, Done, Covered, InOrder, Hello, Free

(* Every committed event up to the cursor of the file is in the file,      *)
(* whoever moved the cursor: the server commits in the order of its        *)
(* numbers, a page has no gap, and an event is stored before the cursor    *)
(* passes it.                                                              *)
THEOREM NoGaps == Spec => []ReplicaHasNoGaps
<1>1. TInv /\ LogInv /\ [Next]_vars => LogInv'
  BY EveryStepIsLogStep, LogInvPreserved
<1>2. Spec => []ReplicaInv
  BY <1>1, ReplicaInitially, ReplicaPreserved, TypeInitially, TypePreserved,
     LogInvInitially, PTL DEF Spec
<1>3. ReplicaInv => ReplicaHasNoGaps
  BY DEF ReplicaInv, Complete, Covered, ReplicaHasNoGaps
<1>4. QED BY <1>2, <1>3, PTL

=============================================================================
