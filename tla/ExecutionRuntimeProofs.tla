------------------------ MODULE ExecutionRuntimeProofs ------------------------
(***************************************************************************)
(* Theorems about ExecutionRuntime, for any steps, dependencies, reports   *)
(* and limits, and any number of failing operations.                       *)
(***************************************************************************)
EXTENDS ExecutionRuntime, FiniteSetTheorems, TLAPS

-----------------------------------------------------------------------------
(* Statuses *)

LEMMA StatusesAre ==
    Statuses = {"absent", "pending", "waiting_dependency", "ready", "dispatching", "running",
                "waiting_report", "verifying", "fix_required", "waiting_human", "blocked",
                "failed", "completed", "cancelled", "outcome_unknown"}
BY DEF Statuses, StepMoves

LEMMA TaskStatusesAre ==
    TaskStatuses = {"ready", "running", "blocked", "completed", "cancelled"}
BY DEF TaskStatuses, TaskMoves

\* A completed step stays as it is.
LEMMA CompletedMoves ==
    ASSUME NEW to, MayMove("completed", to)
    PROVE  to = "completed"
BY DEF MayMove, StepMoves

-----------------------------------------------------------------------------
(* The inductive invariant *)

\* A line of a type, or with a status, about step s with assignment a is in the ledger.
Says(log, type, s, a) == \E l \in log : l.type = type /\ l.step = s /\ l.assignment = a

Shows(log, status, s, a) == \E l \in log : l.to = status /\ l.step = s /\ l.assignment = a

(* What a step's state in steps implies, for a ledger with the lines log. *)
StepSound(s, steps, log) ==
    LET a == steps[s].assignment
    IN  /\ steps[s].status \in Effective => Shows(log, steps[s].status, s, a)
        /\ a # 0 => \A d \in DependsOn[s] : steps[d].status = "completed"
        /\ steps[s].status \in {"verifying", "completed"} => a # 0 /\ Says(log, "completion", s, a)
        /\ steps[s].status = "completed" =>
              /\ Says(log, "passed", s, a)
              /\ s \in Delivering => Says(log, "artifact", s, a)

TaskSound(task, steps) ==
    task = "completed" =>
        \A s \in Steps : steps[s].status # "absent" => steps[s].status = "completed"

Sound(steps, task, log) ==
    /\ \A s \in Steps : StepSound(s, steps, log)
    /\ TaskSound(task, steps)

\* The lines of reports are lines of the ledger.
ReportInv ==
    \A r \in Reports :
        /\ \A x, y \in reported[r] : x = y
        /\ \A x \in reported[r] : x.line \in logged /\ x.seq <= lines
        /\ r \in accepted => reported[r] # {}

SeqInv ==
    /\ snapshot.seq <= lines
    /\ creation.seq <= lines

\* A request is about a report that was sent.
OpenInv ==
    \A d \in Deliveries :
        open[d].phase # "none" =>
            open[d].report \in Reports /\ sent[open[d].report] # NoReport

IInv ==
    /\ TypeOK
    /\ Sound(snapshot.steps, snapshot.task, logged)
    /\ ReportInv
    /\ SeqInv
    /\ OpenInv

-----------------------------------------------------------------------------
(* Writing to the ledger *)

\* What an operation called for r leaves of the ledger.
Grown(r) ==
    /\ lines' \in Nat /\ lines <= lines'
    /\ logged \subseteq logged' /\ logged' \subseteq Line
    /\ reported' \in [Reports -> SUBSET ReportLine]
    /\ cut' \in BOOLEAN
    /\ faults' \in Nat
    /\ \A q \in Reports :
          /\ \A x, y \in reported'[q] : x = y
          /\ \A x \in reported'[q] : x.line \in logged' /\ x.seq <= lines'
          /\ reported[q] \subseteq reported'[q]
    /\ r \in Reports /\ faults' = faults => reported'[r] # {}

LEMMA FromIsTyped ==
    ASSUME TypeOK, NEW l \in Line, l.to # None => l.step \in Steps
    PROVE  From(l) \in Statuses \cup {None}
BY DEF From, TypeOK, Snapshot, Step, Current

LEMMA WrittenGrows ==
    ASSUME TypeOK, ReportInv, NEW r \in Reports \cup {None}, NEW l \in Line,
           l.to # None => l.step \in Steps,
           NEW rest \in SUBSET Line, IsFiniteSet(rest), Written(r, l, rest),
           r # None => reported[r] = {}
    PROVE  /\ lines' \in Nat /\ lines < lines'
           /\ logged' = logged \cup {l} \cup rest
           /\ logged' \subseteq Line
           /\ reported' \in [Reports -> SUBSET ReportLine]
           /\ \A q \in Reports :
                 /\ \A x, y \in reported'[q] : x = y
                 /\ \A x \in reported'[q] : x.line \in logged' /\ x.seq <= lines'
                 /\ reported[q] \subseteq reported'[q]
           /\ r \in Reports => reported'[r] # {}
<1>1. lines' \in Nat /\ lines + 1 <= lines'
  BY FS_CardinalityType DEF Written, TypeOK
<1>2. logged' = logged \cup {l} \cup rest /\ logged' \subseteq Line
  BY DEF Written, TypeOK
<1>3. CASE r = None
  BY <1>1, <1>2, <1>3, StepsAssumption DEF Written, ReportInv, TypeOK, ReportLine
<1>4. CASE r # None
  <2> DEFINE x == [seq |-> lines + 1, line |-> l, from |-> From(l)]
  <2>1. x \in ReportLine
    BY FromIsTyped DEF ReportLine, TypeOK
  <2>2. reported' = [reported EXCEPT ![r] = {x}]
    BY <1>4 DEF Written
  <2>3. reported' \in [Reports -> SUBSET ReportLine]
    BY <2>1, <2>2 DEF TypeOK
  <2>4. \A q \in Reports : reported'[q] = IF q = r THEN {x} ELSE reported[q]
    BY <2>2 DEF TypeOK
  <2>5. ASSUME NEW q \in Reports, NEW z \in reported[q]
        PROVE  z.line \in logged' /\ z.seq <= lines'
    BY <1>1, <1>2 DEF ReportInv, TypeOK, ReportLine
  <2>6. x.line \in logged' /\ x.seq <= lines'
    BY <1>1, <1>2
  <2>7. ASSUME NEW q \in Reports
        PROVE  /\ \A y, z \in reported'[q] : y = z
               /\ \A z \in reported'[q] : z.line \in logged' /\ z.seq <= lines'
               /\ reported[q] \subseteq reported'[q]
    <3>1. CASE q = r
      BY <1>4, <2>4, <2>6, <3>1
    <3>2. CASE q # r
      <4>1. reported'[q] = reported[q]
        BY <2>4, <3>2
      <4>2. QED BY <2>5, <4>1 DEF ReportInv
    <3>3. QED BY <3>1, <3>2
  <2>8. r \in Reports => reported'[r] # {}
    BY <2>4
  <2>9. QED
    BY <1>1, <1>2, <2>3, <2>7, <2>8 DEF TypeOK
<1>5. QED BY <1>3, <1>4

LEMMA WrittenIsGrown ==
    ASSUME TypeOK, ReportInv, NEW r \in Reports \cup {None}, NEW l \in Line,
           l.to # None => l.step \in Steps,
           NEW rest \in SUBSET Line, IsFiniteSet(rest), Written(r, l, rest),
           r # None => reported[r] = {}, cut' \in BOOLEAN, faults' \in Nat
    PROVE  Grown(r) /\ l \in logged' /\ lines' \in Nat
<1>1. /\ lines' \in Nat /\ lines < lines'
      /\ logged' = logged \cup {l} \cup rest
      /\ logged' \subseteq Line
      /\ reported' \in [Reports -> SUBSET ReportLine]
  BY WrittenGrows
<1>2. \A q \in Reports :
         /\ \A x, y \in reported'[q] : x = y
         /\ \A x \in reported'[q] : x.line \in logged' /\ x.seq <= lines'
         /\ reported[q] \subseteq reported'[q]
  BY WrittenGrows
<1>3. r \in Reports => reported'[r] # {}
  BY WrittenGrows
<1>4. lines <= lines'
  BY <1>1 DEF TypeOK
<1>5. QED BY <1>1, <1>2, <1>3, <1>4 DEF Grown

LEMMA UnchangedGrows ==
    ASSUME TypeOK, ReportInv, UNCHANGED <<lines, logged, reported>>, cut' \in BOOLEAN,
           faults' \in Nat, NEW r, r \in Reports => faults' # faults \/ reported[r] # {}
    PROVE  Grown(r)
BY DEF Grown, TypeOK, ReportInv

LEMMA BrokenGrows ==
    ASSUME TypeOK, ReportInv, NEW r \in Reports \cup {None}, NEW l \in Line,
           l.to # None => l.step \in Steps,
           NEW rest \in SUBSET Line, IsFiniteSet(rest), Broken(r, l, rest),
           r # None => reported[r] = {}
    PROVE  Grown(r)
<1>1. faults' \in Nat /\ faults' # faults
  BY DEF Broken, TypeOK
<1>2. CASE UNCHANGED <<lines, logged, reported>> /\ cut' = TRUE
  BY <1>1, <1>2, UnchangedGrows
<1>3. ASSUME NEW part \in SUBSET rest, Written(r, l, part), cut' \in {FALSE, part # rest}
      PROVE  Grown(r)
  <2>1. IsFiniteSet(part) /\ part \in SUBSET Line
    BY FS_Subset
  <2>2. cut' \in BOOLEAN
    BY <1>3
  <2>3. QED BY <1>1, <1>3, <2>1, <2>2, WrittenIsGrown
<1>4. QED BY <1>2, <1>3 DEF Broken

LEMMA AppendGrows ==
    ASSUME TypeOK, ReportInv, SeqInv, NEW r \in Reports \cup {None}, NEW l \in Line,
           l.to # None => l.step \in Steps,
           NEW rest \in SUBSET Line, IsFiniteSet(rest),
           NEW next \in Snapshot, next.seq = snapshot.seq, Append(r, l, rest, next)
    PROVE  /\ Grown(r)
           /\ snapshot' \in Snapshot
           /\ snapshot'.seq <= lines'
           /\ \/ snapshot' = snapshot
              \/ /\ snapshot'.steps = next.steps /\ snapshot'.task = next.task
                 /\ l \in logged'
<1>s. snapshot \in Snapshot /\ snapshot.seq \in Nat /\ lines \in Nat
  BY DEF TypeOK, Snapshot
<1>1. CASE r # None /\ reported[r] # {}
  <2>1. PICK x \in reported[r] :
           /\ x.line = l
           /\ snapshot' = [next EXCEPT !.seq = IF @ < x.seq THEN x.seq ELSE @]
    BY <1>1 DEF Append, Repeat
  <2>2. UNCHANGED <<lines, logged, reported, cut, faults>>
    BY <1>1 DEF Append, Repeat, ledger
  <2>3. x.seq \in Nat /\ x.seq <= lines /\ x.line \in logged
    BY <1>1 DEF TypeOK, ReportInv, ReportLine
  <2>4. Grown(r)
    BY <1>1, <2>2, UnchangedGrows DEF TypeOK
  <2>5. /\ snapshot' \in Snapshot /\ snapshot'.seq <= lines
        /\ snapshot'.steps = next.steps /\ snapshot'.task = next.task
    BY <1>s, <2>1, <2>3 DEF Snapshot, SeqInv
  <2>6. QED BY <2>1, <2>2, <2>3, <2>4, <2>5
<1>2. CASE r = None \/ reported[r] = {}
  <2>1. Record(r, l, rest, next)
    BY <1>2 DEF Append
  <2>2. CASE Broken(r, l, rest)
    <3>1. snapshot' = snapshot
      BY <2>2 DEF Broken
    <3>2. Grown(r)
      BY <1>2, <2>2, BrokenGrows
    <3>3. QED BY <1>s, <3>1, <3>2 DEF Grown, SeqInv
  <2>3. CASE ~Broken(r, l, rest)
    <3>1. /\ Written(r, l, rest)
          /\ snapshot' = [next EXCEPT !.seq = lines']
          /\ cut' = cut
          /\ faults' \in {faults} \cup (IF faults < MaxFaults THEN {faults + 1} ELSE {})
      BY <2>1, <2>3 DEF Record
    <3>c. cut' \in BOOLEAN /\ faults' \in Nat
      BY <3>1 DEF TypeOK
    <3>2. Grown(r) /\ l \in logged' /\ lines' \in Nat
      BY <1>2, <3>1, <3>c, WrittenIsGrown
    <3>3. /\ snapshot' \in Snapshot /\ snapshot'.seq <= lines'
          /\ snapshot'.steps = next.steps /\ snapshot'.task = next.task
      BY <3>1, <3>2 DEF Snapshot
    <3>4. QED BY <3>2, <3>3
  <2>4. QED BY <2>2, <2>3
<1>3. QED BY <1>1, <1>2

-----------------------------------------------------------------------------
(* Moves of steps *)

\* A step that was not completed moves on without being completed: what is sound
\* for itself is sound for all.
LEMMA MoveIsSound ==
    ASSUME NEW steps \in [Steps -> Step], NEW new \in [Steps -> Step], NEW task, NEW log,
           NEW log2, Sound(steps, task, log), log \subseteq log2,
           NEW s \in Steps, steps[s].status \notin {"absent", "completed"},
           new = [steps EXCEPT ![s] = new[s]],
           StepSound(s, new, log2)
    PROVE  Sound(new, task, log2)
<1>1. ASSUME NEW x \in Steps, x # s PROVE StepSound(x, new, log2)
  <2>1. new[x] = steps[x] /\ StepSound(x, steps, log)
    BY <1>1 DEF Sound
  <2>2. \A type, status, a : /\ Says(log, type, x, a) => Says(log2, type, x, a)
                             /\ Shows(log, status, x, a) => Shows(log2, status, x, a)
    BY DEF Says, Shows
  <2>3. ASSUME steps[x].assignment # 0, NEW d \in DependsOn[x]
        PROVE  new[d].status = "completed"
    <3>1. steps[d].status = "completed" /\ d \in Steps
      BY <2>1, <2>3, StepsAssumption DEF StepSound
    <3>2. QED BY <3>1
  <2>4. QED BY <2>1, <2>2, <2>3 DEF StepSound
<1>2. TaskSound(task, new)
  BY DEF Sound, TaskSound
<1>3. QED BY <1>1, <1>2 DEF Sound

\* The same, for a step that gets another status with its line.
LEMMA StatusIsSound ==
    ASSUME NEW steps \in [Steps -> Step], NEW task, NEW log, NEW log2,
           Sound(steps, task, log), log \subseteq log2,
           NEW s \in Steps, steps[s].status \notin {"absent", "completed"},
           NEW to \in Statuses \ {"completed", "verifying"},
           NEW l \in log2, l.step = s, l.to = to, l.assignment = steps[s].assignment
    PROVE  Sound([steps EXCEPT ![s].status = to], task, log2)
<1> DEFINE new == [steps EXCEPT ![s].status = to]
<1>1. new \in [Steps -> Step] /\ new = [steps EXCEPT ![s] = new[s]]
  BY DEF Step
<1>2. new[s].status = to /\ new[s].assignment = steps[s].assignment
  BY DEF Step
<1>3. Shows(log2, to, s, steps[s].assignment)
  BY DEF Shows
<1>4. ASSUME steps[s].assignment # 0, NEW d \in DependsOn[s]
      PROVE  new[d].status = "completed"
  <2>1. steps[d].status = "completed" /\ d \in Steps
    BY <1>4, StepsAssumption DEF Sound, StepSound
  <2>2. QED BY <2>1
<1>5. StepSound(s, new, log2)
  BY <1>2, <1>3, <1>4 DEF StepSound
<1>6. QED BY <1>1, <1>5, MoveIsSound

\* A step whose completion was asked for.
LEMMA RequestIsSound ==
    ASSUME NEW steps \in [Steps -> Step], NEW task, NEW log, NEW log2,
           Sound(steps, task, log), log \subseteq log2,
           NEW s \in Steps, steps[s].status \notin {"absent", "completed"},
           steps[s].assignment # 0,
           NEW l \in log2, l.type = "completion", l.step = s, l.to = "verifying",
           l.assignment = steps[s].assignment
    PROVE  Sound([steps EXCEPT ![s].status = "verifying"], task, log2)
<1> DEFINE new == [steps EXCEPT ![s].status = "verifying"]
<1>1. new \in [Steps -> Step] /\ new = [steps EXCEPT ![s] = new[s]]
  BY StatusesAre DEF Step
<1>2. new[s].status = "verifying" /\ new[s].assignment = steps[s].assignment
  BY DEF Step
<1>3. /\ Shows(log2, "verifying", s, steps[s].assignment)
      /\ Says(log2, "completion", s, steps[s].assignment)
  BY DEF Shows, Says
<1>4. ASSUME NEW d \in DependsOn[s] PROVE new[d].status = "completed"
  <2>1. steps[d].status = "completed" /\ d \in Steps
    BY <1>4, StepsAssumption DEF Sound, StepSound
  <2>2. QED BY <2>1
<1>5. StepSound(s, new, log2)
  BY <1>2, <1>3, <1>4 DEF StepSound
<1>6. QED BY <1>1, <1>5, MoveIsSound

\* A step that is given a new assignment when its dependencies are completed.
LEMMA AssignmentIsSound ==
    ASSUME NEW steps \in [Steps -> Step], NEW task, NEW log, NEW log2,
           Sound(steps, task, log), log \subseteq log2,
           NEW s \in Steps, steps[s].status \notin {"absent", "completed"},
           DependencyReady(s, steps), NEW a \in Nat \ {0},
           NEW l \in log2, l.step = s, l.to = "dispatching", l.assignment = a
    PROVE  Sound([steps EXCEPT ![s] = [status |-> "dispatching", attempt |-> @.attempt + 1,
                                       assignment |-> a]], task, log2)
<1> DEFINE new == [steps EXCEPT ![s] = [status |-> "dispatching", attempt |-> @.attempt + 1,
                                        assignment |-> a]]
<1>1. new \in [Steps -> Step] /\ new = [steps EXCEPT ![s] = new[s]]
  BY StatusesAre DEF Step
<1>2. new[s].status = "dispatching" /\ new[s].assignment = a
  OBVIOUS
<1>3. Shows(log2, "dispatching", s, a)
  BY DEF Shows
<1>4. ASSUME NEW d \in DependsOn[s] PROVE new[d].status = "completed"
  <2>1. steps[d].status = "completed" /\ d \in Steps
    BY <1>4, StepsAssumption DEF DependencyReady
  <2>2. QED BY <2>1
<1>5. StepSound(s, new, log2)
  BY <1>2, <1>3, <1>4 DEF StepSound
<1>6. QED BY <1>1, <1>5, MoveIsSound

\* The gate passes a step that is verifying.
LEMMA PassIsSound ==
    ASSUME NEW steps \in [Steps -> Step], NEW task, NEW log, NEW log2,
           Sound(steps, task, log), log \subseteq log2,
           NEW s \in Steps, steps[s].status = "verifying",
           s \in Delivering => Says(log, "artifact", s, steps[s].assignment),
           NEW l \in log2, l.type = "passed", l.step = s, l.to = "completed",
           l.assignment = steps[s].assignment
    PROVE  Sound([steps EXCEPT ![s].status = "completed"], task, log2)
<1> DEFINE new == [steps EXCEPT ![s].status = "completed"]
<1>1. new \in [Steps -> Step] /\ new = [steps EXCEPT ![s] = new[s]]
  BY StatusesAre DEF Step
<1>2. new[s].status = "completed" /\ new[s].assignment = steps[s].assignment
  BY DEF Step
<1>3. /\ Shows(log2, "completed", s, steps[s].assignment)
      /\ Says(log2, "passed", s, steps[s].assignment)
  BY DEF Shows, Says
<1>4. StepSound(s, steps, log)
  BY DEF Sound
<1>5. /\ steps[s].assignment # 0
      /\ Says(log2, "completion", s, steps[s].assignment)
      /\ s \in Delivering => Says(log2, "artifact", s, steps[s].assignment)
  BY <1>4 DEF StepSound, Says
<1>6. ASSUME NEW d \in DependsOn[s] PROVE new[d].status = "completed"
  <2>1. steps[d].status = "completed" /\ d \in Steps
    BY <1>4, <1>5, <1>6, StepsAssumption DEF StepSound
  <2>2. QED BY <2>1
<1>7. StepSound(s, new, log2)
  BY <1>2, <1>3, <1>5, <1>6 DEF StepSound
<1>8. QED BY <1>1, <1>7, MoveIsSound

\* Dependents that waited become ready.
Released(steps, freed) ==
    [x \in Steps |-> IF x \in freed THEN [steps[x] EXCEPT !.status = "ready"] ELSE steps[x]]

LEMMA ReleaseIsSound ==
    ASSUME NEW steps \in [Steps -> Step], NEW task, NEW log, Sound(steps, task, log),
           NEW freed \in SUBSET {x \in Steps : steps[x].status = "waiting_dependency"},
           NEW new, new = Released(steps, freed)
    PROVE  new \in [Steps -> Step] /\ Sound(new, task, log)
<1>1. ASSUME NEW x \in Steps
      PROVE  /\ new[x] \in Step /\ new[x].assignment = steps[x].assignment
             /\ new[x].status = IF x \in freed THEN "ready" ELSE steps[x].status
  BY StatusesAre DEF Step, Released
<1>2. ASSUME NEW x \in Steps PROVE StepSound(x, new, log)
  <2>1. StepSound(x, steps, log)
    BY DEF Sound
  <2>2. ASSUME steps[x].assignment # 0, NEW d \in DependsOn[x]
        PROVE  new[d].status = "completed"
    <3>1. steps[d].status = "completed" /\ d \in Steps
      BY <2>1, <2>2, StepsAssumption DEF StepSound
    <3>2. QED BY <1>1, <3>1
  <2>3. QED BY <1>1, <2>1, <2>2 DEF StepSound, Effective
<1>3. TaskSound(task, new)
  BY <1>1 DEF Sound, TaskSound
<1>4. QED BY <1>1, <1>2, <1>3 DEF Sound, Released

-----------------------------------------------------------------------------
(* Operations *)

\* What every operation called for r keeps.
Kept(r) ==
    /\ Grown(r)
    /\ snapshot' \in Snapshot
    /\ snapshot'.seq <= lines'
    /\ Sound(snapshot'.steps, snapshot'.task, logged')

LEMMA MoreIsSound ==
    ASSUME NEW steps, NEW task, NEW log, NEW log2, Sound(steps, task, log), log \subseteq log2
    PROVE  Sound(steps, task, log2)
<1>1. ASSUME NEW x \in Steps PROVE StepSound(x, steps, log2)
  <2>1. StepSound(x, steps, log)
    BY DEF Sound
  <2>2. \A type, status, a : /\ Says(log, type, x, a) => Says(log2, type, x, a)
                             /\ Shows(log, status, x, a) => Shows(log2, status, x, a)
    BY DEF Says, Shows
  <2>3. QED BY <2>1, <2>2 DEF StepSound
<1>2. QED BY <1>1 DEF Sound

LEMMA AppendKeeps ==
    ASSUME IInv, NEW r \in Reports \cup {None}, NEW l \in Line,
           l.to # None => l.step \in Steps,
           NEW rest \in SUBSET Line, IsFiniteSet(rest),
           NEW next \in Snapshot, next.seq = snapshot.seq, Append(r, l, rest, next),
           \A log : logged \subseteq log /\ l \in log => Sound(next.steps, next.task, log)
    PROVE  Kept(r)
<1>1. /\ Grown(r) /\ snapshot' \in Snapshot /\ snapshot'.seq <= lines'
      /\ \/ snapshot' = snapshot
         \/ /\ snapshot'.steps = next.steps /\ snapshot'.task = next.task
            /\ l \in logged'
  BY AppendGrows DEF IInv
<1>2. logged \subseteq logged'
  BY <1>1 DEF Grown
<1>3. CASE snapshot' = snapshot
  BY <1>1, <1>2, <1>3, MoreIsSound DEF Kept, IInv
<1>4. CASE /\ snapshot'.steps = next.steps /\ snapshot'.task = next.task
           /\ l \in logged'
  BY <1>1, <1>2, <1>4 DEF Kept
<1>5. QED BY <1>1, <1>3, <1>4

\* The lines are lines.
LEMMA LinesAreTyped ==
    ASSUME TypeOK
    PROVE  /\ TaskLine \in Line /\ TaskLine.to = None
           /\ \A type \in Types, s \in Steps, to \in Statuses \cup {None} :
                 /\ StepLine(type, s, to) \in Line
                 /\ StepLine(type, s, to).type = type
                 /\ StepLine(type, s, to).step = s
                 /\ StepLine(type, s, to).to = to
                 /\ StepLine(type, s, to).assignment = snapshot.steps[s].assignment
BY DEF TypeOK, Snapshot, Step, Line, TaskLine, StepLine, Types, Current

LEMMA SnapshotsAreTyped ==
    ASSUME TypeOK
    PROVE  /\ snapshot.steps \in [Steps -> Step] /\ snapshot.task \in TaskStatuses
           /\ snapshot.seq \in Nat /\ lines \in Nat
           /\ \A s \in Steps : snapshot.steps[s].status \in Statuses
                               /\ snapshot.steps[s].assignment \in Nat
                               /\ snapshot.steps[s].attempt \in Nat
           /\ \A s \in Steps, to \in Statuses :
                 /\ WithStatus(s, to) \in Snapshot
                 /\ WithStatus(s, to).steps = [snapshot.steps EXCEPT ![s].status = to]
                 /\ WithStatus(s, to).task = snapshot.task
                 /\ WithStatus(s, to).seq = snapshot.seq
<1>1. /\ snapshot.steps \in [Steps -> Step] /\ snapshot.task \in TaskStatuses
      /\ snapshot.seq \in Nat /\ lines \in Nat
  BY DEF TypeOK, Snapshot
<1>2. \A s \in Steps : /\ snapshot.steps[s].status \in Statuses
                       /\ snapshot.steps[s].assignment \in Nat
                       /\ snapshot.steps[s].attempt \in Nat
  BY <1>1 DEF Step
<1>3. ASSUME NEW s \in Steps, NEW to \in Statuses
      PROVE  /\ WithStatus(s, to) \in Snapshot
             /\ WithStatus(s, to).steps = [snapshot.steps EXCEPT ![s].status = to]
             /\ WithStatus(s, to).task = snapshot.task
             /\ WithStatus(s, to).seq = snapshot.seq
  <2>1. [snapshot.steps EXCEPT ![s].status = to] \in [Steps -> Step]
    BY <1>1 DEF Step
  <2>2. WithStatus(s, to) =
          [snapshot EXCEPT !.steps = [snapshot.steps EXCEPT ![s].status = to]]
    BY DEF WithStatus, TypeOK, Snapshot
  <2>3. QED BY <1>1, <2>1, <2>2 DEF TypeOK, Snapshot
<1>4. QED BY <1>1, <1>2, <1>3

LEMMA LedgerKeeps ==
    ASSUME IInv, NEW r, Grown(r), snapshot' = snapshot
    PROVE  Kept(r)
<1>1. logged \subseteq logged' /\ lines <= lines' /\ lines' \in Nat
  BY DEF Grown
<1>2. lines \in Nat /\ snapshot.seq \in Nat /\ snapshot.seq <= lines
  BY SnapshotsAreTyped DEF IInv, SeqInv
<1>3. snapshot.seq <= lines'
  BY <1>1, <1>2
<1>4. snapshot \in Snapshot
  BY DEF IInv, TypeOK
<1>5. Sound(snapshot.steps, snapshot.task, logged')
  BY <1>1, MoreIsSound DEF IInv
<1>6. QED BY <1>3, <1>4, <1>5 DEF Kept

\* An operation that changes the status of one step.
LEMMA StatusKeeps ==
    ASSUME IInv, NEW s \in Steps, NEW to \in Statuses, NEW r \in Reports \cup {None},
           NEW l \in Line, l.step \in Steps,
           Append(r, l, {}, WithStatus(s, to)),
           \A log : logged \subseteq log /\ l \in log =>
              Sound([snapshot.steps EXCEPT ![s].status = to], snapshot.task, log)
    PROVE  Kept(r)
<1> DEFINE next == WithStatus(s, to)
<1>1. TypeOK
  BY DEF IInv
<1>2. /\ next \in Snapshot /\ next.seq = snapshot.seq /\ next.task = snapshot.task
      /\ next.steps = [snapshot.steps EXCEPT ![s].status = to]
  BY <1>1, SnapshotsAreTyped
<1>3. \A log : logged \subseteq log /\ l \in log => Sound(next.steps, next.task, log)
  BY <1>2
<1>4. Append(r, l, {}, next)
  OBVIOUS
<1> HIDE DEF next
<1>5. QED BY <1>2, <1>3, <1>4, FS_EmptySet, AppendKeeps

\* What makes a change of status sound.
LEMMA MoveIsLogged ==
    ASSUME IInv, NEW s \in Steps, Current(s).status \notin {"absent", "completed"},
           NEW to \in Statuses \ {"completed", "verifying"},
           NEW l, l.step = s, l.to = to, l.assignment = Current(s).assignment
    PROVE  \A log : logged \subseteq log /\ l \in log =>
              Sound([snapshot.steps EXCEPT ![s].status = to], snapshot.task, log)
<1> SUFFICES ASSUME NEW log, logged \subseteq log, l \in log
             PROVE  Sound([snapshot.steps EXCEPT ![s].status = to], snapshot.task, log)
  OBVIOUS
<1>1. snapshot.steps \in [Steps -> Step]
  BY SnapshotsAreTyped DEF IInv
<1>2. Sound(snapshot.steps, snapshot.task, logged)
  BY DEF IInv
<1>3. QED BY <1>1, <1>2, StatusIsSound DEF Current

LEMMA TransitionStepKeeps ==
    ASSUME IInv, NEW s \in Steps, NEW to \in Statuses, NEW r \in Reports \cup {None},
           TransitionStep(s, to, r)
    PROVE  Kept(r)
<1> DEFINE l == StepLine("step", s, to)
<1> DEFINE next == WithStatus(s, to)
<1>t. TypeOK
  BY DEF IInv
<1>1. /\ Current(s).status \notin {"absent", "completed"}
      /\ to \notin {"completed", "verifying"}
  BY CompletedMoves DEF TransitionStep
<1>2. l \in Line /\ l.step = s /\ l.to = to /\ l.assignment = Current(s).assignment
  BY <1>t, LinesAreTyped DEF Types, Current
<1>3. \A log : logged \subseteq log /\ l \in log =>
         Sound([snapshot.steps EXCEPT ![s].status = to], snapshot.task, log)
  <2> HIDE DEF l
  <2>1. QED BY <1>1, <1>2, MoveIsLogged
<1>4. CASE Ends(next)
  <2> DEFINE ended == [next EXCEPT !.task = "cancelled"]
  <2>1. /\ next \in Snapshot /\ next.seq = snapshot.seq
        /\ next.steps = [snapshot.steps EXCEPT ![s].status = to]
    BY <1>t, SnapshotsAreTyped
  <2>2. /\ ended \in Snapshot /\ ended.steps = next.steps
        /\ ended.task = "cancelled" /\ ended.seq = next.seq
    <3> HIDE DEF next
    <3>1. QED BY <2>1, TaskStatusesAre DEF Snapshot
  <2>3. \A log : logged \subseteq log /\ l \in log => Sound(ended.steps, ended.task, log)
    BY <1>3, <2>1, <2>2 DEF Sound, TaskSound
  <2>4. Append(r, l, {TaskLine}, ended)
    BY <1>4 DEF TransitionStep
  <2>5. IsFiniteSet({TaskLine}) /\ {TaskLine} \in SUBSET Line
    BY <1>t, FS_Singleton, LinesAreTyped
  <2> HIDE DEF l, next, ended
  <2>6. QED BY <1>2, <2>1, <2>2, <2>3, <2>4, <2>5, AppendKeeps
<1>5. CASE ~Ends(next)
  <2>1. Append(r, l, {}, next)
    BY <1>5 DEF TransitionStep
  <2> HIDE DEF l
  <2>2. QED BY <1>2, <1>3, <2>1, StatusKeeps
<1>6. QED BY <1>4, <1>5

LEMMA RecordProgressKeeps ==
    ASSUME IInv, NEW s \in Steps, NEW r \in Reports \cup {None}, RecordProgress(s, r)
    PROVE  Kept(r)
<1> DEFINE l == StepLine("progress", s, "running")
<1>1. l \in Line /\ l.step = s /\ l.to = "running" /\ l.assignment = Current(s).assignment
  BY LinesAreTyped, StatusesAre DEF IInv, Types, Current
<1>2. Current(s).status \notin {"absent", "completed"}
  BY DEF RecordProgress
<1>3. Append(r, l, {}, WithStatus(s, "running"))
  BY DEF RecordProgress
<1>4. "running" \in Statuses \ {"completed", "verifying"}
  BY StatusesAre
<1> HIDE DEF l
<1>5. \A log : logged \subseteq log /\ l \in log =>
         Sound([snapshot.steps EXCEPT ![s].status = "running"], snapshot.task, log)
  BY <1>1, <1>2, <1>4, MoveIsLogged
<1>6. QED BY <1>1, <1>3, <1>4, <1>5, StatusKeeps

LEMMA RecordArtifactKeeps ==
    ASSUME IInv, NEW s \in Steps, NEW r \in Reports \cup {None}, RecordArtifact(s, r)
    PROVE  Kept(r)
<1> DEFINE l == StepLine("artifact", s, None)
<1>1. l \in Line /\ l.step = s
  BY LinesAreTyped DEF IInv, Types
<1>2. \A log : logged \subseteq log => Sound(snapshot.steps, snapshot.task, log)
  BY MoreIsSound DEF IInv
<1>3. Append(r, l, {}, snapshot)
  BY DEF RecordArtifact
<1>4. snapshot \in Snapshot
  BY DEF IInv, TypeOK
<1> HIDE DEF l
<1>5. QED BY <1>1, <1>2, <1>3, <1>4, FS_EmptySet, AppendKeeps

LEMMA RequestCompletionKeeps ==
    ASSUME IInv, NEW s \in Steps, NEW r \in Reports \cup {None}, RequestCompletion(s, r)
    PROVE  Kept(r)
<1> DEFINE l == StepLine("completion", s, "verifying")
<1>1. l \in Line /\ l.step = s /\ l.to = "verifying" /\ l.type = "completion"
      /\ l.assignment = Current(s).assignment
  <2>1. "completion" \in Types /\ "verifying" \in Statuses \cup {None} /\ TypeOK
    BY StatusesAre DEF IInv, Types
  <2> QED BY <2>1, LinesAreTyped DEF Current
<1>2. Current(s).status \notin {"absent", "completed"} /\ Current(s).assignment # 0
  <2>1. ~MayMove("absent", "verifying")
    BY DEF MayMove, StepMoves
  <2>2. QED BY <2>1, CompletedMoves DEF RequestCompletion
<1>3. Append(r, l, {}, WithStatus(s, "verifying"))
  BY DEF RequestCompletion
<1> HIDE DEF l
<1>4. ASSUME NEW log, logged \subseteq log, l \in log
      PROVE  Sound([snapshot.steps EXCEPT ![s].status = "verifying"], snapshot.task, log)
  <2>1. snapshot.steps \in [Steps -> Step] /\ Sound(snapshot.steps, snapshot.task, logged)
    BY SnapshotsAreTyped DEF IInv
  <2>2. QED BY <1>1, <1>2, <1>4, <2>1, RequestIsSound DEF Current
<1>5. QED BY <1>1, <1>3, <1>4, StatusesAre, StatusKeeps

LEMMA GateFailedKeeps ==
    ASSUME IInv, NEW s \in Steps, GateFailed(s)
    PROVE  Kept(None)
<1> DEFINE l == StepLine("failed", s, "fix_required")
<1>1. l \in Line /\ l.step = s /\ l.to = "fix_required" /\ l.assignment = Current(s).assignment
  BY LinesAreTyped, StatusesAre DEF IInv, Types, Current
<1>2. Current(s).status \notin {"absent", "completed"}
  BY DEF GateFailed
<1>3. Append(None, l, {}, WithStatus(s, "fix_required"))
  BY DEF GateFailed
<1>4. "fix_required" \in Statuses \ {"completed", "verifying"}
  BY StatusesAre
<1> HIDE DEF l
<1>5. \A log : logged \subseteq log /\ l \in log =>
         Sound([snapshot.steps EXCEPT ![s].status = "fix_required"], snapshot.task, log)
  BY <1>1, <1>2, <1>4, MoveIsLogged
<1>6. QED BY <1>1, <1>3, <1>4, <1>5, StatusKeeps

\* A snapshot with other steps and another status of the task.
NextOf(steps, task) == [snapshot EXCEPT !.steps = steps, !.task = task]

LEMMA NextIsTyped ==
    ASSUME TypeOK, NEW steps \in [Steps -> Step], NEW task \in TaskStatuses
    PROVE  /\ NextOf(steps, task) \in Snapshot
           /\ NextOf(steps, task).steps = steps /\ NextOf(steps, task).task = task
           /\ NextOf(steps, task).seq = snapshot.seq
BY DEF TypeOK, Snapshot, NextOf

LEMMA CreateAssignmentKeeps ==
    ASSUME IInv, NEW s \in Steps, CreateAssignment(s)
    PROVE  Kept(None)
<1> DEFINE a == lines + 1
<1> DEFINE l == [StepLine("assignment", s, "dispatching") EXCEPT !.assignment = a]
<1> DEFINE steps == [snapshot.steps EXCEPT ![s] = [status |-> "dispatching",
                                                   attempt |-> @.attempt + 1,
                                                   assignment |-> a]]
<1> DEFINE task == IF snapshot.task = "ready" THEN "running" ELSE snapshot.task
<1> DEFINE next == NextOf(steps, task)
<1>t. TypeOK
  BY DEF IInv
<1>s. /\ snapshot.steps \in [Steps -> Step] /\ snapshot.task \in TaskStatuses
      /\ a \in Nat \ {0}
  <2>1. lines \in Nat
    BY <1>t DEF TypeOK
  <2>2. QED BY <1>t, <2>1, SnapshotsAreTyped
<1>1. /\ l \in Line /\ l.step = s /\ l.to = "dispatching" /\ l.assignment = a
  BY <1>s, StatusesAre DEF Line, StepLine, Types
<1>2. Append(None, l, {}, next)
  BY <1>t, <1>s DEF CreateAssignment, Current, TypeOK, Snapshot, NextOf
<1>3. steps \in [Steps -> Step] /\ task \in TaskStatuses
  BY <1>s, StatusesAre, TaskStatusesAre DEF Step
<1>4. next \in Snapshot /\ next.steps = steps /\ next.task = task /\ next.seq = snapshot.seq
  <2> HIDE DEF steps, task
  <2>1. QED BY <1>t, <1>3, NextIsTyped
<1>5. ASSUME NEW log, logged \subseteq log, l \in log PROVE Sound(steps, task, log)
  <2>1. Sound(snapshot.steps, snapshot.task, logged)
    BY DEF IInv
  <2>2. snapshot.steps[s].status \notin {"absent", "completed"}
        /\ DependencyReady(s, snapshot.steps)
    BY DEF CreateAssignment, Current
  <2>3. Sound(steps, snapshot.task, log)
    <3> HIDE DEF l, a
    <3>1. QED BY <1>s, <1>1, <1>5, <2>1, <2>2, AssignmentIsSound
  <2>4. QED BY <2>3 DEF Sound, TaskSound
<1> HIDE DEF l, next
<1>6. \A log : logged \subseteq log /\ l \in log => Sound(next.steps, next.task, log)
  BY <1>4, <1>5
<1>7. QED BY <1>1, <1>2, <1>4, <1>6, FS_EmptySet, AppendKeeps

LEMMA AddStepKeeps ==
    ASSUME IInv, NEW s \in Steps, AddStep(s)
    PROVE  Kept(None)
<1> DEFINE new == NewStep(DependencyReady(s, snapshot.steps))
<1> DEFINE l == StepLine("step", s, new.status)
<1> DEFINE steps == [snapshot.steps EXCEPT ![s] = new]
<1> DEFINE next == NextOf(steps, snapshot.task)
<1>t. TypeOK
  BY DEF IInv
<1>s. snapshot.steps \in [Steps -> Step] /\ snapshot.task \in TaskStatuses
  BY <1>t, SnapshotsAreTyped
<1>1. new \in Step /\ new.status \in {"ready", "waiting_dependency"} /\ new.assignment = 0
  BY StatusesAre DEF NewStep, Step
<1>2. l \in Line /\ l.step = s
  BY <1>t, <1>1, StatusesAre, LinesAreTyped DEF Types
<1>3. Append(None, l, {}, next)
  BY <1>t, <1>s DEF AddStep, TypeOK, Snapshot, NextOf
<1>4. steps \in [Steps -> Step]
  BY <1>s, <1>1
<1>5. /\ next \in Snapshot /\ next.steps = steps /\ next.task = snapshot.task
      /\ next.seq = snapshot.seq
  <2> HIDE DEF steps
  <2>1. QED BY <1>t, <1>s, <1>4, NextIsTyped
<1>6. ASSUME NEW log, logged \subseteq log PROVE Sound(steps, snapshot.task, log)
  <2>1. Sound(snapshot.steps, snapshot.task, log)
    BY <1>6, MoreIsSound DEF IInv
  <2>2. snapshot.steps[s].status = "absent" /\ snapshot.task # "completed"
    BY DEF AddStep, Current
  <2>3. steps[s] = new
    BY <1>s
  <2>4. StepSound(s, steps, log)
    <3> HIDE DEF steps, new
    <3>1. QED BY <1>1, <2>3 DEF StepSound, Effective
  <2>5. ASSUME NEW x \in Steps, x # s PROVE StepSound(x, steps, log)
    <3>1. steps[x] = snapshot.steps[x] /\ StepSound(x, snapshot.steps, log)
      BY <2>1, <2>5 DEF Sound
    <3>2. ASSUME steps[x].assignment # 0, NEW d \in DependsOn[x]
          PROVE  steps[d].status = "completed"
      <4>1. snapshot.steps[d].status = "completed" /\ d \in Steps
        BY <3>1, <3>2, StepsAssumption DEF StepSound
      <4>2. QED BY <1>s, <2>2, <4>1
    <3> HIDE DEF steps
    <3>3. QED BY <3>1, <3>2 DEF StepSound
  <2>6. QED BY <2>2, <2>4, <2>5 DEF Sound, TaskSound
<1> HIDE DEF l, next
<1>7. \A log : logged \subseteq log /\ l \in log => Sound(next.steps, next.task, log)
  BY <1>5, <1>6
<1>8. QED BY <1>2, <1>3, <1>5, <1>7, FS_EmptySet, AppendKeeps

LEMMA TransitionTaskKeeps ==
    ASSUME IInv, NEW to \in {"blocked", "ready"}, TransitionTask(to)
    PROVE  Kept(None)
<1> DEFINE next == NextOf(snapshot.steps, to)
<1>t. TypeOK
  BY DEF IInv
<1>1. Append(None, TaskLine, {}, next)
  BY <1>t DEF TransitionTask, TypeOK, Snapshot, NextOf
<1>2. /\ next \in Snapshot /\ next.steps = snapshot.steps /\ next.task = to
      /\ next.seq = snapshot.seq
  <2>1. snapshot.steps \in [Steps -> Step] /\ to \in TaskStatuses
    BY <1>t, SnapshotsAreTyped, TaskStatusesAre
  <2>2. QED BY <1>t, <2>1, NextIsTyped
<1>3. ASSUME NEW log, logged \subseteq log PROVE Sound(snapshot.steps, to, log)
  BY <1>3, MoreIsSound DEF IInv, Sound, TaskSound
<1>4. TaskLine \in Line /\ TaskLine.to = None
  BY <1>t, LinesAreTyped
<1> HIDE DEF next
<1>5. \A log : logged \subseteq log /\ TaskLine \in log => Sound(next.steps, next.task, log)
  BY <1>2, <1>3
<1>6. QED BY <1>1, <1>2, <1>4, <1>5, FS_EmptySet, AppendKeeps

LEMMA NoteKeeps ==
    ASSUME IInv, Note
    PROVE  Kept(None)
<1>1. TaskLine \in Line /\ TaskLine.to = None /\ snapshot \in Snapshot
  BY LinesAreTyped DEF IInv, TypeOK
<1>2. \A log : logged \subseteq log => Sound(snapshot.steps, snapshot.task, log)
  BY MoreIsSound DEF IInv
<1>3. Append(None, TaskLine, {}, snapshot)
  BY DEF Note
<1>4. QED BY <1>1, <1>2, <1>3, FS_EmptySet, AppendKeeps

\* The lines of the dependents that are released.
LEMMA ReleasedAreLines ==
    ASSUME TypeOK, NEW freed \in SUBSET Steps
    PROVE  LET released == {StepLine("step", x, "ready") : x \in freed}
           IN  IsFiniteSet(released) /\ released \in SUBSET Line
<1> DEFINE released == {StepLine("step", x, "ready") : x \in freed}
<1> DEFINE f == [x \in freed |-> StepLine("step", x, "ready")]
<1>1. IsFiniteSet(freed)
  BY FS_Subset, StepsAssumption
<1>2. f \in Surjection(freed, released)
  BY DEF Surjection
<1>3. IsFiniteSet(released)
  <2> HIDE DEF f, released
  <2>1. QED BY <1>1, <1>2, FS_Surjection
<1>4. released \in SUBSET Line
  BY LinesAreTyped, StatusesAre DEF Types
<1>5. QED BY <1>3, <1>4

\* The step's status and that of its dependents, once the gate has passed it.
LEMMA GateIsSound ==
    ASSUME IInv, NEW s \in Steps, Current(s).status = "verifying", HasOutputs(s),
           NEW done, done = WithStatus(s, "completed").steps,
           NEW new, new = Released(done, Freed(done)),
           NEW l, l = StepLine("passed", s, "completed"),
           NEW log, logged \subseteq log, l \in log
    PROVE  /\ done \in [Steps -> Step] /\ new \in [Steps -> Step]
           /\ Sound(new, snapshot.task, log)
<1>t. TypeOK /\ Sound(snapshot.steps, snapshot.task, logged)
  BY DEF IInv
<1>1. snapshot.steps \in [Steps -> Step]
  BY <1>t, SnapshotsAreTyped
<1>2. /\ l.type = "passed" /\ l.step = s /\ l.to = "completed"
      /\ l.assignment = snapshot.steps[s].assignment
  <2>1. "passed" \in Types /\ "completed" \in Statuses \cup {None}
    BY StatusesAre DEF Types
  <2> QED BY <1>t, <2>1, LinesAreTyped
<1>3. s \in Delivering => Says(logged, "artifact", s, snapshot.steps[s].assignment)
  BY DEF HasOutputs, Says, Current
<1>d. done = [snapshot.steps EXCEPT ![s].status = "completed"]
  BY <1>t, SnapshotsAreTyped, StatusesAre
<1>4. Sound(done, snapshot.task, log)
  BY <1>t, <1>d, <1>1, <1>2, <1>3, PassIsSound DEF Current
<1>5. done \in [Steps -> Step]
  BY <1>d, <1>1, StatusesAre DEF Step
<1>6. Freed(done) \in SUBSET {x \in Steps : done[x].status = "waiting_dependency"}
  BY DEF Freed
<1>7. QED BY <1>4, <1>5, <1>6, ReleaseIsSound

LEMMA GatePassedKeeps ==
    ASSUME IInv, NEW s \in Steps, GatePassed(s)
    PROVE  Kept(None)
<1> DEFINE done == WithStatus(s, "completed").steps
<1> DEFINE freed == Freed(done)
<1> DEFINE new == [x \in Steps |-> IF x \in freed THEN [done[x] EXCEPT !.status = "ready"]
                                   ELSE done[x]]
<1> DEFINE next == [snapshot EXCEPT !.steps = new]
<1> DEFINE passed == StepLine("passed", s, "completed")
<1> DEFINE released == {StepLine("step", x, "ready") : x \in freed}
<1> DEFINE all == \A x \in Defined : done[x].status = "completed"
<1>t. TypeOK
  BY DEF IInv
<1>1. Current(s).status = "verifying" /\ HasOutputs(s)
  BY DEF GatePassed
<1>2. done = [snapshot.steps EXCEPT ![s].status = "completed"]
  BY <1>t, SnapshotsAreTyped, StatusesAre
<1>3. /\ done \in [Steps -> Step] /\ new \in [Steps -> Step]
      /\ \A log : logged \subseteq log /\ passed \in log => Sound(new, snapshot.task, log)
  <2>1. /\ new = Released(done, Freed(done)) /\ done = WithStatus(s, "completed").steps
        /\ passed = StepLine("passed", s, "completed")
    BY DEF Released
  <2> HIDE DEF done, passed, new
  <2>2. ASSUME NEW log, logged \subseteq log, passed \in log
        PROVE  /\ done \in [Steps -> Step] /\ new \in [Steps -> Step]
               /\ Sound(new, snapshot.task, log)
    BY <1>1, <2>1, <2>2, GateIsSound
  <2>3. logged \subseteq logged \cup {passed} /\ passed \in logged \cup {passed}
    OBVIOUS
  <2>4. QED BY <2>2, <2>3
<1>4. passed \in Line /\ passed.step = s /\ TaskLine \in Line
  BY <1>t, LinesAreTyped, StatusesAre DEF Types
<1>5. IsFiniteSet({TaskLine}) /\ {TaskLine} \in SUBSET Line
  BY <1>4, FS_Singleton
<1>6. IsFiniteSet(released) /\ released \in SUBSET Line
  BY <1>t, ReleasedAreLines DEF Freed
<1>7. \A task : task # "completed" =>
         \A log : logged \subseteq log /\ passed \in log => Sound(new, task, log)
  <2> HIDE DEF new, passed
  <2>1. QED BY <1>3 DEF Sound, TaskSound
<1>8. snapshot.task # "completed"
  BY <1>1 DEF IInv, Sound, TaskSound, Current
<1>9. \A task \in TaskStatuses : [next EXCEPT !.task = task] = NextOf(new, task)
  BY <1>t DEF NextOf, TypeOK, Snapshot
<1>10. next = NextOf(new, snapshot.task)
  BY <1>t DEF NextOf, TypeOK, Snapshot
<1>11. ASSUME NEW task \in TaskStatuses, NEW rest \in SUBSET Line, IsFiniteSet(rest),
              Append(None, passed, rest, NextOf(new, task)),
              \A log : logged \subseteq log /\ passed \in log => Sound(new, task, log)
       PROVE  Kept(None)
  <2> DEFINE n == NextOf(new, task)
  <2>1. n \in Snapshot /\ n.seq = snapshot.seq /\ n.steps = new /\ n.task = task
    <3> HIDE DEF new
    <3>1. QED BY <1>t, <1>3, NextIsTyped
  <2>2. \A log : logged \subseteq log /\ passed \in log => Sound(n.steps, n.task, log)
    BY <1>11, <2>1
  <2>3. Append(None, passed, rest, n)
    BY <1>11
  <2> HIDE DEF n, passed
  <2>4. QED BY <1>4, <1>11, <2>1, <2>2, <2>3, AppendKeeps
<1>12. CASE /\ all
            /\ Append(None, passed, {TaskLine}, [next EXCEPT !.task = "completed"])
  <2>1. ASSUME NEW x \in Steps, new[x].status # "absent"
        PROVE  new[x].status = "completed"
    <3>1. done[x].status # "absent"
      BY <2>1 DEF Freed
    <3>2. x \in Defined
      BY <1>1, <1>2, <1>t, <3>1, SnapshotsAreTyped DEF Defined, Current
    <3>3. done[x].status = "completed"
      BY <1>12, <3>2
    <3>4. QED BY <3>3 DEF Freed
  <2>2. \A log : logged \subseteq log /\ passed \in log => Sound(new, "completed", log)
    <3> HIDE DEF new, passed
    <3>1. QED BY <1>3, <2>1 DEF Sound, TaskSound
  <2>3. Append(None, passed, {TaskLine}, NextOf(new, "completed"))
    BY <1>9, <1>12, TaskStatusesAre
  <2> HIDE DEF new, passed
  <2>4. QED BY <1>5, <1>11, <2>2, <2>3, TaskStatusesAre
<1>13. CASE Written(None, passed, {}) /\ UNCHANGED <<snapshot, cut, faults>>
  <2> HIDE DEF passed
  <2>1. Grown(None)
    <3>1. TypeOK /\ ReportInv /\ cut' \in BOOLEAN /\ faults' \in Nat
      BY <1>13 DEF IInv, TypeOK
    <3>2. QED BY <1>4, <1>13, <3>1, FS_EmptySet, WrittenIsGrown
  <2>2. QED BY <1>13, <2>1, LedgerKeeps
<1>14. CASE Broken(None, passed, {})
  <2> HIDE DEF passed
  <2>1. Grown(None)
    BY <1>4, <1>14, FS_EmptySet, BrokenGrows DEF IInv
  <2>2. snapshot' = snapshot
    BY <1>14 DEF Broken
  <2>3. QED BY <2>1, <2>2, LedgerKeeps
<1>15. CASE Append(None, passed, {TaskLine}, [next EXCEPT !.task = "cancelled"])
  <2>1. Append(None, passed, {TaskLine}, NextOf(new, "cancelled"))
    BY <1>9, <1>15, TaskStatusesAre
  <2> HIDE DEF new, passed
  <2>2. QED BY <1>5, <1>7, <1>11, <2>1, TaskStatusesAre
<1>16. CASE Append(None, passed, released, next)
  <2>1. Append(None, passed, released, NextOf(new, snapshot.task))
    BY <1>10, <1>16
  <2>2. snapshot.task \in TaskStatuses
    BY <1>t, SnapshotsAreTyped
  <2> HIDE DEF new, passed, released
  <2>3. QED BY <1>6, <1>7, <1>8, <1>11, <2>1, <2>2
<1>17. QED BY <1>12, <1>13, <1>14, <1>15, <1>16 DEF GatePassed

-----------------------------------------------------------------------------
(* Steps *)

LEMMA KeptKeeps ==
    ASSUME IInv, NEW r, Kept(r), creation' = creation, sent' = sent,
           open' \in [Deliveries -> [report: Reports \cup {None},
                                     phase: {"none", "unseen", "admitted"}]],
           \A d \in Deliveries : open'[d] \in {open[d], Idle},
           accepted' \subseteq Reports,
           \A q \in accepted' : q \in accepted \/ reported'[q] # {}
    PROVE  IInv'
<1>1. TypeOK'
  BY DEF IInv, TypeOK, Kept, Grown
<1>2. Sound(snapshot.steps, snapshot.task, logged)'
  BY DEF Kept
<1>3. ReportInv'
  BY DEF IInv, ReportInv, Kept, Grown
<1>4. SeqInv'
  <2>1. creation.seq \in Nat /\ lines \in Nat /\ lines' \in Nat
    BY DEF IInv, TypeOK, Kept, Grown
  <2>2. QED BY <2>1 DEF IInv, SeqInv, Kept, Grown
<1>5. OpenInv'
  BY DEF IInv, OpenInv, Idle
<1>6. QED BY <1>1, <1>2, <1>3, <1>4, <1>5 DEF IInv

LEMMA OperatingKeeps ==
    ASSUME IInv, Operating, UNCHANGED <<creation, sent, open, accepted>>
    PROVE  IInv'
<1>1. None \in Reports \cup {None}
  OBVIOUS
<1>2. \A to \in Targets : to \in Statuses
  BY TargetsAssumption
<1>3. Kept(None)
  BY <1>1, <1>2, AddStepKeeps, CreateAssignmentKeeps, TransitionStepKeeps, RecordProgressKeeps,
     RequestCompletionKeeps, GatePassedKeeps, GateFailedKeeps, TransitionTaskKeeps, NoteKeeps
     DEF Operating
<1>4. QED BY <1>3, KeptKeeps DEF IInv, TypeOK

LEMMA ReportedKeeps ==
    ASSUME IInv, NEW r \in Reports, NEW s \in Steps, NEW k, Reported(r, s, k)
    PROVE  Kept(r)
<1>1. r \in Reports \cup {None} /\ {"running", "blocked", "waiting_human"} \subseteq Statuses
  BY StatusesAre
<1>2. QED
  BY <1>1, TransitionStepKeeps, RecordProgressKeeps, RecordArtifactKeeps, RequestCompletionKeeps
     DEF Reported

LEMMA LandKeeps ==
    ASSUME IInv, NEW d \in Deliveries, Land(d), creation' = creation
    PROVE  IInv'
<1> DEFINE r == open[d].report
<1>1. r \in Reports /\ sent[r] # NoReport
  BY DEF Land, IInv, OpenInv
<1>2. sent[r].step \in Steps
  BY <1>1 DEF IInv, TypeOK, Report
<1>3. Kept(r)
  BY <1>1, <1>2, ReportedKeeps DEF Land
<1>4. /\ sent' = sent
      /\ open' = [open EXCEPT ![d] = Idle]
      /\ accepted' = IF faults' = faults THEN accepted \cup {r} ELSE accepted
  BY DEF Land
<1>5. open \in [Deliveries -> [report: Reports \cup {None}, phase: {"none", "unseen", "admitted"}]]
      /\ accepted \subseteq Reports
  BY DEF IInv, TypeOK
<1>6. /\ open' \in [Deliveries -> [report: Reports \cup {None},
                                   phase: {"none", "unseen", "admitted"}]]
      /\ \A e \in Deliveries : open'[e] \in {open[e], Idle}
  BY <1>4, <1>5 DEF Idle
<1>7. accepted' \subseteq Reports /\ \A q \in accepted' : q \in accepted \/ reported'[q] # {}
  BY <1>1, <1>3, <1>4, <1>5 DEF Kept, Grown
<1> HIDE DEF r
<1>8. QED BY <1>3, <1>4, <1>6, <1>7, KeptKeeps

LEMMA RequestingKeeps ==
    ASSUME IInv, Requesting, UNCHANGED <<snapshot, ledger, creation, faults>>
    PROVE  IInv'
<1>t. /\ open \in [Deliveries -> [report: Reports \cup {None},
                                  phase: {"none", "unseen", "admitted"}]]
      /\ sent \in [Reports -> Report \cup {NoReport}]
      /\ accepted \subseteq Reports /\ OpenInv
  BY DEF IInv, TypeOK
<1>u. UNCHANGED <<snapshot, lines, logged, reported, cut, creation, faults>>
  BY DEF ledger
<1>1. SUFFICES /\ open' \in [Deliveries -> [report: Reports \cup {None},
                                            phase: {"none", "unseen", "admitted"}]]
               /\ sent' \in [Reports -> Report \cup {NoReport}]
               /\ accepted' \subseteq Reports /\ OpenInv'
               /\ \A q \in accepted' : q \in accepted \/ reported[q] # {}
  BY <1>u DEF IInv, TypeOK, ReportInv, SeqInv
<1>2. ASSUME NEW r \in Reports, NEW s \in Steps, NEW k \in Kinds, Send(r, s, k)
      PROVE  /\ UNCHANGED <<open, accepted>>
             /\ sent' \in [Reports -> Report \cup {NoReport}] /\ OpenInv'
  <2> DEFINE x == [kind |-> k, step |-> s, ticket |-> Current(s).assignment]
  <2>1. sent' = [sent EXCEPT ![r] = x] /\ UNCHANGED <<open, accepted>>
    BY <1>2 DEF Send
  <2>2. x \in Report
    BY SnapshotsAreTyped DEF IInv, Report, Current
  <2>3. x # NoReport
    BY StepsAssumption DEF NoReport
  <2> HIDE DEF x
  <2>4. QED BY <1>t, <2>1, <2>2, <2>3 DEF OpenInv
<1>3. ASSUME NEW d \in Deliveries, NEW r \in Reports, Deliver(d, r)
      PROVE  /\ open' \in [Deliveries -> [report: Reports \cup {None},
                                          phase: {"none", "unseen", "admitted"}]]
             /\ sent' = sent /\ accepted' \subseteq Reports /\ OpenInv'
             /\ \A q \in accepted' : q \in accepted \/ reported[q] # {}
  <2>1. sent' = sent /\ sent[r] # NoReport
    BY <1>3 DEF Deliver
  <2>2. CASE /\ open' = [open EXCEPT ![d] = [report |-> r, phase |-> "unseen"]]
             /\ UNCHANGED accepted
    BY <1>t, <2>1, <2>2 DEF OpenInv
  <2>3. CASE reported[r] # {} /\ accepted' = accepted \cup {r} /\ UNCHANGED open
    BY <1>t, <2>1, <2>3 DEF OpenInv
  <2>4. QED BY <1>3, <2>2, <2>3 DEF Deliver
<1>4. ASSUME NEW d \in Deliveries, Admit(d) \/ Drop(d)
      PROVE  /\ open' \in [Deliveries -> [report: Reports \cup {None},
                                          phase: {"none", "unseen", "admitted"}]]
             /\ UNCHANGED <<sent, accepted>> /\ OpenInv'
  <2>1. CASE Admit(d)
    BY <1>t, <2>1 DEF Admit, OpenInv
  <2>2. CASE Drop(d)
    BY <1>t, <2>2 DEF Drop, OpenInv, Idle
  <2>3. QED BY <1>4, <2>1, <2>2
<1>5. QED BY <1>t, <1>2, <1>3, <1>4 DEF Requesting

\* A task that was just created.
LEMMA NewSnapshotIsSound ==
    ASSUME NEW log, NEW n \in Nat
    PROVE  /\ [NewSnapshot EXCEPT !.seq = n] \in Snapshot
           /\ [NewSnapshot EXCEPT !.seq = n].seq = n
           /\ Sound([NewSnapshot EXCEPT !.seq = n].steps, [NewSnapshot EXCEPT !.seq = n].task, log)
           /\ NewSnapshot \in Snapshot /\ NewSnapshot.seq = 0
           /\ Sound(NewSnapshot.steps, NewSnapshot.task, log)
<1> DEFINE new == [s \in Steps |-> IF s \in Initial THEN NewStep(DependsOn[s] = {}) ELSE Absent]
<1>1. ASSUME NEW s \in Steps
      PROVE  /\ new[s] \in Step /\ new[s].assignment = 0
             /\ new[s].status \in {"absent", "ready", "waiting_dependency"}
  BY StatusesAre DEF NewStep, Absent, Step
<1>2. ASSUME NEW s \in Steps PROVE StepSound(s, new, log)
  <2> HIDE DEF new
  <2>1. QED BY <1>1 DEF StepSound, Effective
<1>3. Sound(new, "ready", log)
  BY <1>2 DEF Sound, TaskSound
<1>4. new \in [Steps -> Step] /\ "ready" \in TaskStatuses
  BY <1>1, TaskStatusesAre
<1>5. NewSnapshot = [task |-> "ready", seq |-> 0, steps |-> new]
  BY DEF NewSnapshot
<1> HIDE DEF new
<1>6. QED BY <1>3, <1>4, <1>5 DEF Snapshot

LEMMA CreatingKeeps ==
    ASSUME IInv, Creating, UNCHANGED <<sent, open, accepted>>
    PROVE  IInv'
<1>t. /\ creation \in [pc: {"no", "initialized", "recorded", "done"}, seq: Nat]
      /\ creation.seq \in Nat /\ creation.seq <= lines /\ lines \in Nat
  BY DEF IInv, TypeOK, SeqInv
<1>1. CASE CreateTask
  BY <1>1 DEF CreateTask, IInv, TypeOK, ReportInv, SeqInv, OpenInv, ledger
<1>2. CASE RecordCreation
  <2>1. TaskLine \in Line /\ TaskLine.to = None
    BY LinesAreTyped DEF IInv
  <2>2. Grown(None) /\ snapshot' = snapshot
    <3>1. CASE Written(None, TaskLine, {}) /\ UNCHANGED <<cut, faults>>
      <4>1. TypeOK /\ ReportInv /\ cut' \in BOOLEAN /\ faults' \in Nat
        BY <3>1 DEF IInv, TypeOK
      <4>2. QED BY <1>2, <2>1, <3>1, <4>1, FS_EmptySet, WrittenIsGrown DEF RecordCreation
    <3>2. CASE Broken(None, TaskLine, {})
      BY <2>1, <3>2, FS_EmptySet, BrokenGrows DEF Broken, IInv
    <3>3. QED BY <1>2, <3>1, <3>2 DEF RecordCreation
  <2>3. Kept(None)
    BY <2>2, LedgerKeeps
  <2>4. /\ creation' \in [pc: {"no", "initialized", "recorded", "done"}, seq: Nat]
        /\ creation'.seq <= lines'
    <3>1. lines' \in Nat /\ lines <= lines'
      BY <2>2 DEF Grown
    <3>2. CASE creation' = [pc |-> "recorded", seq |-> lines']
      BY <3>1, <3>2
    <3>3. CASE creation' = [creation EXCEPT !.pc = "done"]
      BY <1>t, <3>1, <3>3
    <3>4. QED BY <1>2, <3>2, <3>3 DEF RecordCreation
  <2>5. TypeOK'
    BY <2>3, <2>4 DEF IInv, TypeOK, Kept, Grown
  <2>6. ReportInv' /\ OpenInv'
    BY <2>3 DEF IInv, ReportInv, OpenInv, Kept, Grown
  <2>7. SeqInv' /\ Sound(snapshot.steps, snapshot.task, logged)'
    BY <2>3, <2>4 DEF SeqInv, Kept
  <2>8. QED BY <2>5, <2>6, <2>7 DEF IInv
<1>3. CASE FinishCreation
  <2>1. /\ creation' \in [pc: {"no", "initialized", "recorded", "done"}, seq: Nat]
        /\ creation'.seq = creation.seq
        /\ UNCHANGED <<lines, logged, reported, cut, faults>>
    BY <1>t, <1>3 DEF FinishCreation, ledger
  <2>2. /\ snapshot' \in Snapshot /\ snapshot'.seq <= lines
        /\ Sound(snapshot'.steps, snapshot'.task, logged)
    <3>1. CASE snapshot' = snapshot
      BY <3>1 DEF IInv, TypeOK, SeqInv
    <3>2. CASE snapshot' = [NewSnapshot EXCEPT !.seq = creation.seq]
      BY <1>t, <3>2, NewSnapshotIsSound
    <3>3. QED BY <1>3, <3>1, <3>2 DEF FinishCreation
  <2>3. QED BY <1>t, <2>1, <2>2 DEF IInv, TypeOK, ReportInv, SeqInv, OpenInv
<1>4. QED BY <1>1, <1>2, <1>3 DEF Creating

LEMMA CrashKeeps ==
    ASSUME IInv, Crash
    PROVE  IInv'
<1>1. /\ creation' \in [pc: {"no", "initialized", "recorded", "done"}, seq: Nat]
      /\ creation'.seq = creation.seq
  BY DEF Crash, IInv, TypeOK
<1>2. /\ open' \in [Deliveries -> [report: Reports \cup {None},
                                   phase: {"none", "unseen", "admitted"}]]
      /\ OpenInv'
  BY DEF Crash, Idle, OpenInv
<1>3. UNCHANGED <<snapshot, lines, logged, reported, cut, sent, accepted, faults>>
  BY DEF Crash, ledger
<1>4. QED BY <1>1, <1>2, <1>3 DEF IInv, TypeOK, ReportInv, SeqInv

LEMMA InitIsSound ==
    ASSUME Init
    PROVE  IInv
<1>1. TypeOK
  BY NewSnapshotIsSound DEF Init, TypeOK, Idle
<1>2. ReportInv /\ OpenInv
  BY DEF Init, ReportInv, OpenInv, Idle
<1>3. SeqInv
  <2>1. NewSnapshot.seq = 0
    BY DEF NewSnapshot
  <2>2. QED BY <2>1 DEF Init, SeqInv
<1>4. Sound(snapshot.steps, snapshot.task, logged)
  BY NewSnapshotIsSound DEF Init
<1>5. QED BY <1>1, <1>2, <1>3, <1>4 DEF IInv

LEMMA NextKeeps == IInv /\ [Next]_vars => IInv'
<1> SUFFICES ASSUME IInv, [Next]_vars PROVE IInv'
  OBVIOUS
<1>1. CASE UNCHANGED vars
  BY <1>1 DEF vars, ledger, IInv, TypeOK, ReportInv, SeqInv, OpenInv
<1>2. CASE Creating /\ UNCHANGED <<sent, open, accepted>>
  BY <1>2, CreatingKeeps
<1>3. CASE Operating /\ UNCHANGED <<creation, sent, open, accepted>>
  BY <1>3, OperatingKeeps
<1>4. CASE Requesting /\ UNCHANGED <<snapshot, ledger, creation, faults>>
  BY <1>4, RequestingKeeps
<1>5. CASE (\E d \in Deliveries : Land(d)) /\ UNCHANGED creation
  BY <1>5, LandKeeps
<1>6. CASE Crash
  BY <1>6, CrashKeeps
<1>7. QED BY <1>1, <1>2, <1>3, <1>4, <1>5, <1>6 DEF Next

-----------------------------------------------------------------------------
(* Theorems *)

(* Whatever is called, reported, delivered again or fails on the way, the  *)
(* inductive invariant holds: every status an executor has is in the       *)
(* ledger with the assignment it has now (createAssignment, appendEvent).  *)
THEOREM AlwaysSound == Spec => []IInv
<1>1. QED BY InitIsSound, NextKeeps, PTL DEF Spec

(* The snapshot, the ledger and the requests of the reporter keep their    *)
(* types (validateTaskSnapshot and the event schema accept what the        *)
(* runtime writes).                                                        *)
THEOREM TypeCorrect == Spec => []TypeOK
<1>1. IInv => TypeOK
  BY DEF IInv
<1>2. QED BY <1>1, AlwaysSound, PTL

(* Nothing is in effect that the ledger does not say, for any steps and    *)
(* any number of failures between the ledger and the snapshot: every       *)
(* operation appends before it replaces (appendEvent, writeSnapshot).      *)
THEOREM LogFirst == Spec => []EffectsAreLogged
<1>1. IInv => EffectsAreLogged
  <2> SUFFICES ASSUME IInv PROVE EffectsAreLogged
    OBVIOUS
  <2>1. ASSUME NEW s \in Steps, Current(s).status \in Effective
        PROVE  \E l \in logged : /\ l.step = s /\ l.to = Current(s).status
                                 /\ l.assignment = Current(s).assignment
    BY <2>1 DEF IInv, Sound, StepSound, Shows, Current
  <2>2. QED BY <2>1 DEF EffectsAreLogged, IInv, SeqInv
<1>2. QED BY <1>1, AlwaysSound, PTL

(* A step is completed by the gate alone, for the assignment whose         *)
(* completion was asked for and after all of its dependencies, for any     *)
(* graph of steps (gatePassed, requestCompletion, createAssignment).       *)
THEOREM GateCompletes == Spec => []OnlyGateCompletes
<1>1. IInv => OnlyGateCompletes
  <2> SUFFICES ASSUME IInv PROVE OnlyGateCompletes
    OBVIOUS
  <2>1. ASSUME NEW s \in Steps, Current(s).status = "completed"
        PROVE  /\ {"completion", "passed"} \cup (IF s \in Delivering THEN {"artifact"} ELSE {})
                    \subseteq {l.type : l \in {l \in logged :
                                 l.step = s /\ l.assignment = Current(s).assignment}}
               /\ \A d \in DependsOn[s] : Current(d).status = "completed"
    <3>1. StepSound(s, snapshot.steps, logged)
      BY DEF IInv, Sound
    <3> DEFINE S == {l \in logged : l.step = s /\ l.assignment = Current(s).assignment}
    <3>2. ASSUME NEW type, Says(logged, type, s, Current(s).assignment)
          PROVE  type \in {l.type : l \in S}
      BY <3>2 DEF Says
    <3>3. /\ Says(logged, "completion", s, Current(s).assignment)
          /\ Says(logged, "passed", s, Current(s).assignment)
          /\ s \in Delivering => Says(logged, "artifact", s, Current(s).assignment)
          /\ \A d \in DependsOn[s] : Current(d).status = "completed"
      BY <2>1, <3>1 DEF StepSound, Current
    <3>4. QED BY <3>2, <3>3
  <2>2. snapshot.task = "completed" => \A s \in Defined : Current(s).status = "completed"
    BY DEF IInv, Sound, TaskSound, Defined, Current
  <2>3. QED BY <2>1, <2>2 DEF OnlyGateCompletes
<1>2. QED BY <1>1, AlwaysSound, PTL

(* A report lands once, however many deliveries of it are open at a time   *)
(* and however they interleave with operations, failures and restarts, and *)
(* an answer `accepted' is never about nothing (appendEvent, report).      *)
THEOREM LandOnce == Spec => []ReportsLandOnce
<1>1. IInv => ReportsLandOnce
  BY DEF IInv, ReportInv, ReportsLandOnce
<1>2. QED BY <1>1, AlwaysSound, PTL

=============================================================================
