----------------------------- MODULE RemoteHost -----------------------------
(***************************************************************************)
(* One Remote Host executing remote tasks for the control plane:           *)
(* host-runtime/remote-node.ts (the loop), remote-task-runner.ts (one      *)
(* attempt), remote-outbox.ts and remote-outbox-drain.ts (publication),    *)
(* remote-mapping-store.ts (which Codex Thread and Turn a task owns), over *)
(* the network, against ControlPlane.  Codex is external: it owns Threads  *)
(* and Turns and answers, or fails to answer, the host's calls.            *)
(*                                                                         *)
(* The loop is one sequential async function, so its position is one       *)
(* program counter; an action is the code between two awaits that can      *)
(* fail, be overtaken by a callback, or be cut by a crash.  Two things run *)
(* beside it: the lease-renewal timer, whose requests may be answered after*)
(* the attempt that sent them, and publications that timed out and may     *)
(* still reach the server.                                                 *)
(*                                                                         *)
(* Abstractions.  The Git preflight and postflight are outcomes; the       *)
(* evidence events of an attempt are one event before the Turn and one     *)
(* after it.  A failed write of the control plane and a lost request look  *)
(* the same to the host.  The execution id of a task is fixed, so cursors  *)
(* are kept per task.                                                      *)
(***************************************************************************)
EXTENDS Integers, Sequences, SequencesExt, FiniteSetsExt

CONSTANTS
    Tasks, Executions, NoExecution, Host, NoNode, NoReport, LeaseTTL,
    MaxLeases, MaxTorn, MaxEntries, MaxSkewed,
    NoLeaseHeld,
    MaxCrashes,   \* bound: crashes of the host
    MaxLost,      \* bound: requests of the host that fail in the network
    MaxLapses,    \* bound: leases that expire while the host is using them
    MaxFaults     \* bound: failed Codex calls and failed local writes

Nodes == {Host}
Reports == {"heartbeat"}
Deliveries == Nat
EventSeqs == Nat \ {0}
Finals == {"succeeded", "failed", "blocked", "outcome_unknown"}

ASSUME EntriesAssumption == MaxEntries \in Nat \ {0}
ASSUME BudgetAssumption ==
    {MaxSkewed, MaxCrashes, MaxLost, MaxLapses, MaxFaults} \subseteq Nat

\* What ControlPlane assumes.
ASSUME ServerAssumption ==
    /\ Tasks \subseteq Nat
    /\ LeaseTTL \in Nat \ {0} /\ {MaxLeases, MaxTorn} \subseteq Nat
    /\ NoExecution \notin Executions /\ NoNode # Host /\ NoReport \notin Reports

VARIABLES
    mem, disk, nodes, nodeDisk, issued, torn, granted, acked,
    pending, cursor, quarantined, drawn, skewed,
    mapping,      \* the mapping file: "none", "thread", "intent" or "turn" per task
    threads,      \* Codex Threads started for a task (external)
    turns,        \* Codex Turns started for a task (external)
    turnState,    \* state of the task's latest Turn (external)
    pc,           \* position of the node loop
    lease,        \* the lease of the active attempt (activeTaskId, lease)
    invalid,      \* activeLeaseInvalid
    then,         \* where the loop continues after a drain
    target,       \* delivery id the drain was started for, 0 for none
    outcome,      \* what the attempt will report
    renewing,     \* the renewal timer runs (leaseRenewTimer)
    renewals,     \* renew requests in flight
    late,         \* publications that timed out and may still arrive
    crashes, lost, lapses, faults

CP == INSTANCE ControlPlane
Outbox == INSTANCE RemoteOutbox

cpVars == <<mem, disk, nodes, nodeDisk, issued, torn, granted, acked>>
outboxVars == <<pending, cursor, quarantined, drawn, skewed>>
codexVars == <<threads, turns, turnState>>
budgets == <<crashes, lost, lapses, faults>>
loopVars == <<pc, lease, invalid, then, target, outcome, renewing>>
vars == <<cpVars, outboxVars, mapping, codexVars, loopVars, renewals, late, budgets>>

Init ==
    /\ CP!Init
    /\ Outbox!OutboxInit
    /\ mapping = [t \in Tasks |-> "none"]
    /\ threads = [t \in Tasks |-> 0]
    /\ turns = [t \in Tasks |-> 0]
    /\ turnState = [t \in Tasks |-> "none"]
    /\ pc = "down"
    /\ lease = NoLeaseHeld
    /\ invalid = FALSE
    /\ then = "lease"
    /\ target = 0
    /\ outcome = "none"
    /\ renewing = FALSE
    /\ renewals = {}
    /\ late = {}
    /\ crashes = 0 /\ lost = 0 /\ lapses = 0 /\ faults = 0

-----------------------------------------------------------------------------
(* Control flow of the loop *)

(* An action that only moves the loop. *)
Still == UNCHANGED <<cpVars, outboxVars, mapping, codexVars, renewals, late, budgets>>

Goto(label) == pc' = label /\ UNCHANGED <<lease, invalid, then, target, outcome, renewing>>

(* The runner returns an outcome, which the loop reports. *)
Conclude(final) ==
    /\ pc' = "report" /\ outcome' = final
    /\ UNCHANGED <<lease, invalid, then, target, renewing>>

(* An exception of the attempt, and the state its catch block reports. *)
Raise(final) ==
    /\ pc' = "catch" /\ outcome' = final
    /\ UNCHANGED <<lease, invalid, then, target, renewing>>

Fault == faults < MaxFaults /\ faults' = faults + 1 /\ UNCHANGED <<crashes, lost, lapses>>

RequestLost == lost < MaxLost /\ lost' = lost + 1 /\ UNCHANGED <<crashes, lapses, faults>>

(* The server answers a request with an error: its write was torn. *)
ServerError == torn' # torn

(* The accepted event must be published before the attempt goes on:        *)
(* nothing of Codex is touched before it was.                              *)
Required == then = "preflight"

\* Mutant: an accepted event that was not published is good enough.
NullIsEnough == then

(* flushOutbox was refused by canPublish, ran out of envelopes, or         *)
(* published its target into quarantine.                                   *)
AfterNull == IF Required THEN "end" ELSE then

(* flushOutbox threw: the outer catch re-registers, an attempt that is not *)
(* accepted yet ends, evidence and outcomes stay durably pending.          *)
AfterThrow ==
    IF then \in {"heartbeat", "lease"} THEN "register"
    ELSE IF Required THEN "end" ELSE then

Throw ==
    /\ pc' = AfterThrow
    /\ invalid' = (invalid /\ AfterThrow # "register")
    /\ UNCHANGED <<lease, then, target, outcome, renewing>>

(* The outer catch, without a drain. *)
Reconnect ==
    /\ pc' = "register" /\ invalid' = FALSE
    /\ UNCHANGED <<lease, then, target, outcome, renewing>>

Drain(next) ==
    /\ pc' = "drain" /\ then' = next /\ target' = 0
    /\ UNCHANGED <<lease, invalid, outcome, renewing>>

-----------------------------------------------------------------------------
(* Process and connection *)

Start == pc = "down" /\ Goto("register") /\ Still

(* Everything volatile is lost; the outbox and the mapping file remain.    *)
Crash ==
    /\ pc # "down"
    /\ crashes < MaxCrashes
    /\ crashes' = crashes + 1
    /\ pc' = "down" /\ lease' = NoLeaseHeld /\ invalid' = FALSE
    /\ then' = "lease" /\ target' = 0 /\ outcome' = "none" /\ renewing' = FALSE
    /\ renewals' = {}
    /\ UNCHANGED <<cpVars, outboxVars, mapping, codexVars, late, lost, lapses, faults>>

(* A registration that fails is tried again. *)
Register ==
    /\ pc = "register"
    /\ CP!RegisterNode(Host)
    /\ IF ServerError THEN Reconnect ELSE Drain("heartbeat")
    /\ UNCHANGED <<outboxVars, mapping, codexVars, renewals, late, budgets>>

Heartbeat ==
    /\ pc = "heartbeat"
    /\ CP!Heartbeat(Host, "heartbeat")
    /\ IF ServerError THEN Reconnect ELSE Drain("lease")
    /\ UNCHANGED <<outboxVars, mapping, codexVars, renewals, late, budgets>>

(* The long poll answers with a lease, and the attempt starts. *)
TakeLease(t) ==
    /\ pc = "lease"
    /\ CP!TryLease(t, Host)
    /\ ~ServerError
    /\ \E g \in granted' \ granted : lease' = g
    /\ pc' = "accept" /\ invalid' = FALSE
    /\ UNCHANGED <<then, target, outcome, renewing>>
    /\ UNCHANGED <<outboxVars, mapping, codexVars, renewals, late, budgets>>

(* The task is leased on the server's disk but the host does not learn it. *)
LeaseFails(t) ==
    /\ pc = "lease"
    /\ CP!TryLease(t, Host)
    /\ IF ServerError THEN UNCHANGED budgets ELSE RequestLost
    /\ Reconnect
    /\ UNCHANGED <<outboxVars, mapping, codexVars, renewals, late>>

-----------------------------------------------------------------------------
(* Durable events and the drain *)

(* durableEvent: the envelope file, the cursor file, then a drain up to    *)
(* the new envelope.  An outbox that is full is full for the outcome of    *)
(* the attempt as well, so the attempt ends without one.                   *)
DurableEvent(label, body, next) ==
    /\ pc = label
    /\ \/ /\ Outbox!PersistEvent(lease, body)
          /\ pc' = "cursor" /\ then' = next /\ target' = drawn'
          /\ UNCHANGED <<lease, invalid, outcome, renewing, budgets>>
       \/ Outbox!Full /\ Goto("end") /\ UNCHANGED <<outboxVars, budgets>>
       \/ ~Outbox!Full /\ Fault /\ Raise("failed") /\ UNCHANGED outboxVars
    /\ UNCHANGED <<cpVars, mapping, codexVars, renewals, late>>

WriteCursor ==
    /\ pc = "cursor"
    /\ \/ /\ Outbox!WriteCursor(lease.task)
          /\ Goto(IF invalid THEN AfterNull ELSE "drain")
          /\ UNCHANGED budgets
       \/ Fault /\ Raise("failed") /\ UNCHANGED outboxVars
    /\ UNCHANGED <<cpVars, mapping, codexVars, renewals, late>>

GrantOf(item) ==
    [task |-> item.task, exec |-> item.env.exec, node |-> Host,
     id |-> item.env.lease, token |-> item.env.token]

(* The server processes a publication; ServerError tells how it answers.   *)
Processed(item) ==
    LET g == GrantOf(item)
        e == item.env
    IN  \/ CP!Replay(item.task, e)
        \/ Outbox!IsEvent(item) /\ CP!AcceptEvent(g, Host, e.delivery, e.seq, e.body)
        \/ ~Outbox!IsEvent(item) /\ CP!AcceptTerminal(g, Host, e.delivery, e.body)

Superseded(item) ==
    CP!Ended(mem[item.task]) \/ ~CP!ValidLease(mem[item.task], Host, GrantOf(item))

\* Mutant: the server looks at the lease before it looks for the delivery.
LeaseCheckedFirst(item) == Superseded(item)

(* It answers 409, 410 or 412: the delivery is new, and the task has ended *)
(* or the lease of the envelope is not the current one.                    *)
Stale(item) == item.env \notin mem[item.task].delivered /\ Superseded(item)

(* It answers 422: the lease is current but the sequence is not new.  The  *)
(* host takes this for a transient failure.                                *)
OutOfSequence(item) ==
    /\ item.env \notin mem[item.task].delivered
    /\ ~Superseded(item)
    /\ Outbox!IsEvent(item)
    /\ ~CP!InSequence(mem[item.task], item.env.seq)

Active(t) == lease # NoLeaseHeld /\ lease.task = t

CanPublish(item) == ~(invalid /\ Active(item.task))

\* Mutant: the drain does not keep the order of the outbox.
PublishingAny(item) == pc = "drain" /\ item \in Outbox!PendingItems /\ CanPublish(item)

Publishing(item) ==
    /\ pc = "drain"
    /\ pending # <<>>
    /\ item = Head(pending)
    /\ CanPublish(item)

DrainEnds ==
    /\ pc = "drain"
    /\ pending = <<>> \/ ~CanPublish(Head(pending))
    /\ Goto(AfterNull)
    /\ Still

(* The acceptance of the accepted event starts the renewal timer.          *)
PublishAccepted(item) ==
    /\ Publishing(item)
    /\ Processed(item)
    /\ ~ServerError
    /\ Outbox!Ack(item)
    /\ IF item.env.delivery = target
       THEN pc' = then /\ renewing' = (renewing \/ Required)
       ELSE UNCHANGED <<pc, renewing>>
    /\ UNCHANGED <<lease, invalid, then, target, outcome>>
    /\ UNCHANGED <<mapping, codexVars, renewals, late, budgets>>

PublishStale(item) ==
    /\ Publishing(item)
    /\ Stale(item)
    /\ Outbox!Quarantine(item)
    /\ invalid' = (invalid \/ Active(item.task))
    /\ pc' = IF item.env.delivery = target THEN AfterNull ELSE pc
    /\ UNCHANGED <<lease, then, target, outcome, renewing>>
    /\ UNCHANGED <<cpVars, mapping, codexVars, renewals, late, budgets>>

PublishOutOfSequence(item) ==
    /\ Publishing(item)
    /\ OutOfSequence(item)
    /\ Throw
    /\ Still

(* The request or its answer is lost: the envelope stays pending and the   *)
(* request may still arrive, once, at any later time.                      *)
PublishLost(item) ==
    /\ Publishing(item)
    /\ RequestLost
    /\ late' = late \cup {item}
    /\ Throw
    /\ UNCHANGED <<cpVars, outboxVars, mapping, codexVars, renewals>>

PublishFailsOnServer(item) ==
    /\ Publishing(item)
    /\ Processed(item)
    /\ ServerError
    /\ Throw
    /\ UNCHANGED <<outboxVars, mapping, codexVars, renewals, late, budgets>>

LateArrival(item) ==
    /\ Processed(item)
    /\ late' = late \ {item}
    /\ UNCHANGED <<outboxVars, mapping, codexVars, loopVars, renewals, budgets>>

-----------------------------------------------------------------------------
(* One attempt: Zero3RemoteTaskRunner.run *)

(* Workspace allow-list and Git preflight. *)
Preflight ==
    /\ pc = "preflight"
    /\ \/ Goto("map") /\ UNCHANGED budgets
       \/ Fault /\ Raise("blocked")
    /\ UNCHANGED <<cpVars, outboxVars, mapping, codexVars, renewals, late>>

(* A task without a mapping starts a Thread; a call that fails may have    *)
(* created one.                                                            *)
StartThread ==
    LET t == lease.task
        NewThread == threads' = [threads EXCEPT ![t] = @ + 1]
    IN
    /\ pc = "map"
    /\ \/ mapping[t] # "none" /\ Goto("note") /\ UNCHANGED <<threads, budgets>>
       \/ mapping[t] = "none" /\ NewThread /\ Goto("mapThread") /\ UNCHANGED budgets
       \/ mapping[t] = "none" /\ NewThread /\ Fault /\ Raise("failed")
       \/ Fault /\ Raise("failed") /\ UNCHANGED threads
    /\ UNCHANGED <<cpVars, outboxVars, mapping, turns, turnState, renewals, late>>

(* mappings.put: the file is replaced atomically or the write fails.       *)
PutMapping(label, value, next, failure) ==
    /\ pc = label
    /\ \/ mapping' = [mapping EXCEPT ![lease.task] = value] /\ Goto(next) /\ UNCHANGED budgets
       \/ Fault /\ Raise(failure) /\ UNCHANGED mapping
    /\ UNCHANGED <<cpVars, outboxVars, codexVars, renewals, late>>

(* A mapped Turn is resumed; a persisted intent must be matched to a Turn  *)
(* that Codex knows or the outcome is unknown; otherwise the intent is     *)
(* persisted before a Turn is started.                                     *)
ResumeTurn ==
    /\ pc = "turn"
    /\ mapping[lease.task] = "turn"
    /\ Goto("poll")
    /\ Still

(* The Turn may not show in time, or the mapping not be written; an error  *)
(* of thread/read that is not a materialization delay is not caught.       *)
RecoverTurn ==
    LET t == lease.task IN
    /\ pc = "turn"
    /\ mapping[t] = "intent"
    /\ \/ /\ turns[t] > 0
          /\ mapping' = [mapping EXCEPT ![t] = "turn"]
          /\ Goto("poll")
          /\ UNCHANGED budgets
       \/ turns[t] = 0 /\ Raise("outcome_unknown") /\ UNCHANGED <<mapping, budgets>>
       \/ turns[t] > 0 /\ Fault /\ Raise("outcome_unknown") /\ UNCHANGED mapping
       \/ Fault /\ Raise("failed") /\ UNCHANGED mapping
    /\ UNCHANGED <<cpVars, outboxVars, codexVars, renewals, late>>

\* Mutant: the Turn is started without a persisted intent.
StartWithoutIntent ==
    /\ pc = "turn"
    /\ mapping[lease.task] = "thread"
    /\ Goto("start")
    /\ Still

PersistIntent ==
    /\ pc = "turn"
    /\ mapping[lease.task] = "thread"
    /\ PutMapping("turn", "intent", "start", "failed")

StartTurn ==
    LET t == lease.task
        NewTurn == /\ turns' = [turns EXCEPT ![t] = @ + 1]
                   /\ turnState' = [turnState EXCEPT ![t] = "running"]
    IN
    /\ pc = "start"
    /\ \/ NewTurn /\ Goto("mapTurn") /\ UNCHANGED budgets
       \/ Fault /\ Raise("outcome_unknown") /\ NewTurn
       \/ Fault /\ Raise("outcome_unknown") /\ UNCHANGED <<turns, turnState>>
    /\ UNCHANGED <<cpVars, outboxVars, mapping, threads, renewals, late>>

Verdict(state) == IF state = "completed" THEN "succeeded" ELSE "failed"

(* The poll loop: a Turn that ended decides the outcome, a completed one   *)
(* unless the Git postflight blocks it; the observation may time out; an   *)
(* error of thread/read ends the attempt as failed.                        *)
Poll ==
    LET state == turnState[lease.task] IN
    /\ pc = "poll"
    /\ \/ /\ state \in {"completed", "failed"}
          /\ pc' = "result" /\ outcome' = Verdict(state)
          /\ UNCHANGED <<lease, invalid, then, target, renewing, budgets>>
       \/ state = "completed" /\ Fault /\ Raise("blocked")
       \/ Fault /\ Conclude("outcome_unknown")
       \/ Fault /\ Raise("failed")
    /\ UNCHANGED <<cpVars, outboxVars, mapping, codexVars, renewals, late>>

(* The terminal envelope is durable before it is published.  If writing    *)
(* the returned outcome fails, the catch block writes a failure; if that   *)
(* fails as well the attempt ends without an outcome.                      *)
Report ==
    /\ pc \in {"report", "catch"}
    /\ \/ /\ Outbox!PersistTerminal(lease, outcome)
          /\ pc' = IF invalid THEN "end" ELSE "drain"
          /\ then' = "end" /\ target' = drawn'
          /\ UNCHANGED <<lease, invalid, outcome, renewing, budgets>>
       \/ Outbox!Full /\ Goto("end") /\ UNCHANGED <<outboxVars, budgets>>
       \/ /\ ~Outbox!Full /\ Fault
          /\ IF pc = "report" THEN Raise("failed") ELSE Goto("end")
          /\ UNCHANGED outboxVars
    /\ UNCHANGED <<cpVars, mapping, codexVars, renewals, late>>

(* The finally block, and the next turn of the inner loop. *)
EndAttempt ==
    /\ pc = "end"
    /\ lease' = NoLeaseHeld /\ invalid' = FALSE /\ outcome' = "none" /\ renewing' = FALSE
    /\ pc' = "drain" /\ then' = "lease" /\ target' = 0
    /\ UNCHANGED <<cpVars, outboxVars, mapping, codexVars, renewals, late, budgets>>

-----------------------------------------------------------------------------
(* The renewal timer.  Stopping the timer does not cancel a request, and   *)
(* the rejection of a request sets the flag of whatever attempt runs then. *)

SendRenewal ==
    /\ renewing
    /\ renewals' = renewals \cup {lease}
    /\ UNCHANGED <<cpVars, outboxVars, mapping, codexVars, loopVars, late, budgets>>

RenewalAccepted(g) ==
    /\ CP!Renew(g, Host)
    /\ renewals' = renewals \ {g}
    /\ UNCHANGED <<outboxVars, mapping, codexVars, loopVars, late, budgets>>

RenewalRejected(g) ==
    /\ ~CP!ValidLease(mem[g.task], Host, g)
    /\ renewals' = renewals \ {g}
    /\ invalid' = TRUE
    /\ UNCHANGED <<pc, lease, then, target, outcome, renewing>>
    /\ UNCHANGED <<cpVars, outboxVars, mapping, codexVars, late, budgets>>

-----------------------------------------------------------------------------
(* The controller, Codex, the clock, the server process *)

SubmitTask(t, e) ==
    /\ CP!CreateTask(t, e)
    /\ UNCHANGED <<outboxVars, mapping, codexVars, loopVars, renewals, late, budgets>>

TurnFinishes(t) ==
    /\ turnState[t] = "running"
    /\ \E s \in {"completed", "failed"} : turnState' = [turnState EXCEPT ![t] = s]
    /\ UNCHANGED <<cpVars, outboxVars, mapping, threads, turns, loopVars, renewals, late, budgets>>

(* The lease of the attempt, or of an envelope that the drain is about to  *)
(* deliver, expires with this tick.                                        *)
Deliverable(item) == ~Superseded(item) /\ ~OutOfSequence(item)

InUse(t) ==
    \/ Active(t) /\ lease.id = mem[t].lease.id
    \/ /\ pc = "drain" /\ pending # <<>>
       /\ Head(pending).task = t /\ Deliverable(Head(pending))

Lapses == \E t \in Tasks : mem[t].lease.left = 1 /\ InUse(t)

Tick ==
    /\ CP!Tick
    /\ Lapses => lapses < MaxLapses
    /\ lapses' = IF Lapses THEN lapses + 1 ELSE lapses
    /\ UNCHANGED <<outboxVars, mapping, codexVars, loopVars, renewals, late, crashes, lost, faults>>

ServerRestart ==
    /\ CP!Restart
    /\ UNCHANGED <<outboxVars, mapping, codexVars, loopVars, renewals, late, budgets>>

-----------------------------------------------------------------------------

LoopStep ==
    \/ Start \/ Register \/ Heartbeat
    \/ \E t \in Tasks : TakeLease(t)
    \/ DurableEvent("accept", "accepted", "preflight")
    \/ DurableEvent("note", "evidence", "turn")
    \/ DurableEvent("result", "evidence", "report")
    \/ WriteCursor
    \/ DrainEnds
    \/ \E item \in Outbox!PendingItems :
          PublishAccepted(item) \/ PublishStale(item) \/ PublishOutOfSequence(item)
    \/ Preflight \/ StartThread
    \/ PutMapping("mapThread", "thread", "note", "failed")
    \/ ResumeTurn \/ RecoverTurn \/ PersistIntent \/ StartTurn
    \/ PutMapping("mapTurn", "turn", "poll", "outcome_unknown")
    \/ Poll \/ Report \/ EndAttempt

Environment ==
    \/ Crash
    \/ \E t \in Tasks : LeaseFails(t)
    \/ \E item \in Outbox!PendingItems : PublishLost(item) \/ PublishFailsOnServer(item)
    \/ \E item \in late : LateArrival(item)
    \/ SendRenewal
    \/ \E g \in renewals : RenewalAccepted(g) \/ RenewalRejected(g)
    \/ \E t \in Tasks, e \in Executions : SubmitTask(t, e)
    \/ \E t \in Tasks : TurnFinishes(t)
    \/ Tick
    \/ ServerRestart

Next == LoopStep \/ Environment

Spec == Init /\ [][Next]_vars

(* The loop runs whenever it can, time passes, Codex finishes its Turns.   *)
(* Failures are bounded and carry no fairness.                             *)
FairSpec ==
    /\ Spec
    /\ WF_vars(LoopStep)
    /\ WF_vars(Tick)
    /\ WF_vars(\E t \in Tasks : TurnFinishes(t))

-----------------------------------------------------------------------------
(* Properties *)

MappingStates == {"none", "thread", "intent", "turn"}

Labels ==
    {"down", "register", "heartbeat", "lease", "accept", "cursor", "drain", "preflight",
     "map", "mapThread", "note", "turn", "start", "mapTurn", "poll", "result", "report",
     "catch", "end"}

TypeOK ==
    /\ CP!TypeOK
    /\ \A item \in Outbox!PendingItems \cup quarantined \cup late :
          item.task \in Tasks /\ item.env \in CP!Envelope
    /\ cursor \in [Tasks -> Nat]
    /\ drawn \in Nat /\ skewed \in 0..MaxSkewed
    /\ mapping \in [Tasks -> MappingStates]
    /\ threads \in [Tasks -> Nat] /\ turns \in [Tasks -> Nat]
    /\ turnState \in [Tasks -> {"none", "running", "completed", "failed"}]
    /\ pc \in Labels /\ then \in Labels /\ target \in 0..drawn
    /\ lease \in granted \cup {NoLeaseHeld}
    /\ invalid \in BOOLEAN /\ renewing \in BOOLEAN
    /\ outcome \in Finals \cup {"none"}
    /\ renewals \subseteq granted

(* Codex is touched for a task only once the control plane has durably     *)
(* accepted the host for it.                                               *)
CodexAfterAccepted ==
    \A t \in Tasks : threads[t] + turns[t] > 0 =>
        \E e \in disk[t].delivered : e.body = "accepted"

(* Every envelope is pending, quarantined or on the server's disk. *)
Ids(items) == {item.env.delivery : item \in items}

NoEnvelopeLost ==
    1..drawn = Ids(Outbox!PendingItems) \cup Ids(quarantined)
               \cup {e.delivery : e \in UNION {disk[t].delivered : t \in Tasks}}

(* What the host gave up on is never in the record of the task, not even   *)
(* through a publication that arrives late; only a write of the server's   *)
(* that failed behind its rename can make it part of the record, when a    *)
(* restart reads the file.                                                 *)
QuarantineIsFinal ==
    \A item \in quarantined : item.env \in mem[item.task].delivered => torn > 0

(* Publication in order (H4: later envelopes cannot overtake): what enters *)
(* a task's record leaves no older envelope of the same lease behind.      *)
Older(f, e) == f.lease = e.lease /\ f.delivery < e.delivery

NoOvertaking ==
    [][\A t \in Tasks : \A e \in mem'[t].delivered \ mem[t].delivered :
          \A item \in Outbox!PendingItems : item.task = t => ~Older(item.env, e)]_vars

(* The host and the control plane implement the lifecycle of a task: the   *)
(* phase and the outcome are what the server's memory holds, the execution *)
(* is what Codex holds.  So there is one Turn per task (H4: never          *)
(* manufacture a new Codex execution), over crashes, lost answers, expired *)
(* and repeated leases, and success is recorded only if it completed.      *)
Lifecycle == INSTANCE RemoteTaskLifecycle WITH
    phase <- [t \in Tasks |-> IF mem[t].state = "absent" THEN "unknown"
                              ELSE IF CP!Ended(mem[t]) THEN "ended" ELSE "open"],
    executions <- turns,
    codex <- turnState,
    result <- [t \in Tasks |-> IF CP!Ended(mem[t]) THEN mem[t].state ELSE "none"]

ImplementsLifecycle == Lifecycle!Spec

(* A sequence number is given to one event of an execution. *)
Sent(t) ==
    {item.env : item \in {i \in Outbox!PendingItems \cup quarantined : i.task = t}}
        \cup mem[t].delivered

SequenceFresh ==
    \A t \in Tasks : \A e, f \in Sent(t) :
        e.seq = f.seq /\ e.seq > 0 => e.delivery = f.delivery

(* Every submitted task gets an outcome. *)
EveryTaskEnds ==
    \A t \in Tasks : mem[t].state = "queued" ~> CP!Ended(mem[t])

=============================================================================
