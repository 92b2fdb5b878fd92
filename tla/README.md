# Zero3 Pilot: verification development

TLA+ models of the parts of Zero3 Pilot whose correctness depends on the order
of steps: several processes, files that a crash leaves behind, requests that
are lost or arrive late, leases that expire. Each module is a translation of
source files named in its header; `PROJECT.json` maps every definition to the
lines it stands for.

How to run (in this directory):

    tlc -workers 2 -config ControlPlane_generations.cfg MC_ControlPlane
    tlc -workers 2 -config NodeDaemon_dispatch.cfg NodeDaemon
    tlapm ControlPlaneProofs.tla

## 1. The system

Zero3 Pilot is a desktop application built around Codex, a set of Rust
services, and a remote control plane through which a controller submits tasks
that a desktop ("Remote Host") executes with Codex.

| Component | State it keeps | Operations | Talks to |
|---|---|---|---|
| Remote control plane, `apps/web/src/control_plane.rs` | tasks and nodes in memory behind one mutex, one JSON file per record | create, register, heartbeat, lease, renew, accept event, accept terminal, reopen | hosts by HTTP long poll, controllers |
| Remote Host node loop, `host-runtime/remote-node.ts`, `remote-client.ts` | active lease, invalid flag, renewal timer, reconnect state | register, lease, execute, renew, publish, back off | control plane, runner, outbox |
| Remote Host outbox, `remote-outbox.ts`, `remote-outbox-drain.ts` | envelope, cursor and quarantine files | enqueue event or terminal, acknowledge, quarantine, ordered drain | node loop |
| Remote task runner and mapping store, `remote-task-runner.ts`, `remote-mapping-store.ts` | Thread and Turn mapping file, turn intent | preflight, start or resume Thread and Turn, recover, observe, judge | Codex app server, outbox |
| Job manager and event store, `crates/zero3-scheduler/src/lib.rs`, `crates/zero3-store` | job map behind a mutex, append-only JSON-lines log | create, start, progress, complete, fail, cancel, strict and tolerant recovery | node daemon, persistent scheduler |
| Persistent scheduler, `persistent.rs` | schedules in SQLite | schedule, enable, delete, dispatch due, advance | job manager |
| Node daemon, `apps/node` | spawned job executions | HTTP API, scheduler loop, reconcile after restart | job manager, scheduler, providers |
| Worker gateway, `apps/web/src/worker_gateway.rs` | RPC request records, leases, dedupe index, files | submit, lease, complete, expire, purge | hosts, controllers |
| Executor failover and handoff, `executor-runtime/router`, `executor-runtime/handoff` | executor sessions, pending switch, retry and circuit counters, workspace writer lease (a file) | start, prompt, retry, switch, close | executors, group runtime |
| Development group sessions, `group-runtime/session`, `group-runtime/runtime` | one record per session, delivery, supervisor | launch, settle, deliver, view, cancel, answer, resolve | executor runtime, user interface |
| Development group planning, integration and verification, `group-runtime` | plan, gates, merge queue | plan, schedule, integrate, verify | sessions, Git |
| Shared memory synchronisation, `memory-sync-runtime` | queue, cursor and replica in one SQLite file per device | publish, claim, send, store verdicts, replay | memory server; several processes on one file |
| Memory server, `apps/memory-server`, `deployment/memory/migrations` | event log and entity versions in PostgreSQL | append, batch, replay | devices |
| Control extensions, admission, OAuth | versioned task extensions, tokens | read, write, verify | control plane |
| Workflow workers and stations, `worker-runtime/v2/workflow-worker-runtime.ts`, `workflow-runtime/worker-station-manager.ts`, `worker-wakeup.ts` | stages, claims, slots, sessions and wakeups of workflow runs in SQLite | add work items, open and rotate sessions, claim, report, commit and claim next, expire, prompt | web conversations through the gateway, user interface |
| Worker lifecycle and autonomous loop, rest of `worker-runtime` | sessions, claims, stored answers, dispatch rows, resume receipts in SQLite; the pass of the loop | start, claim, complete; ingest candidates, launch and wake up sessions, resume parents | execution runtime, Web GPT, shared memory |
| Execution runtime, `execution-runtime` | per task an event ledger and a snapshot, tickets | create, add steps, assign, transition, progress, artifact, request completion, gate, report | executors by HTTP, user interface, autonomous loop |
| Workflow runtime and the bridges of the execution runtime | workflow steps | call the operations of the execution runtime | execution runtime, group runtime |
| Agent routing | session table, scores | route, release | executors |
| Web GPT, Gemini and Antigravity bridges | browser sessions | send, wait, extract | external pages |
| Session, workspace, artifact and project-link stores | one file per record, replaced atomically | read, write | most of the desktop |
| Capability, skill, MCP, control runtimes; user interface; build and checks | registries, caches | look up, translate, render | - |

Where the hard behaviour is:

- *Remote tasks.* The server answers only after a file write that can fail
  half-way; a lease may expire under a host that works on; host and server
  crash independently; a publication may be executed by the server although
  the host saw it time out; and Codex, whose side effects must happen at most
  once, is asked by a host that may not remember having asked.
- *Jobs and schedules.* Memory and log are changed one after the other, the log
  can be cut anywhere, and the next process trusts only the log; creating the
  job of a due schedule and advancing the schedule are two durable writes.
- *The gateway.* Requests are repeated, deduplicated, leased again and purged
  on timers, by a sweep that may itself fail half-way.
- *Sessions and executors.* A switch of executors closes, starts and transfers
  in steps that may each fail while one writer must own the worktree; every
  operation of the user interface works on a copy of the record that it read
  earlier.
- *The execution runtime.* Every operation is two durable writes, ledger and
  snapshot, of which the second may be missing; executors repeat reports, and a
  report is checked before it is queued behind the operations of others.
- *Workflow workers.* Conversations claim, commit and call late, under leases
  that lapse, while sessions are rotated; one that is told to wait depends on a
  wakeup that is created when a counter leaves zero.
- *The autonomous loop.* A pass awaits the execution runtime, the lifecycle
  runtime and a browser between any two of its writes, with sessions, gates and
  humans moving the same step meanwhile, and is repeated after a crash.
- *Shared memory.* Processes that know nothing of each other claim from one
  queue and move one cursor, while requests end late, twice or never.

What makes each of them correct, in a sentence: the control plane never gives
a generation twice and never takes an acknowledgement back; the host runs one
Codex Turn per task, loses no envelope and always ends a task; the job manager
never takes back a status it showed and can always read its log again; the
scheduler enqueues every occurrence it passes and the daemon begins one job at
most once and forgets none; the gateway answers a repeated request as it
answered the first; one executor at a time works in a worktree, as its writer;
a session delivers only what completed; a step of an execution is completed by
its gate, from lines that are in the ledger, and a report lands once; a stage
of a workflow run has one holder, no stage is forgotten, and a slot that waits
is woken; the autonomous loop gives a task one claim and one session, and leaves
no task lying; a device's verdicts on its events are the server's, and its replica
has no gap.

## 2. Modules

| Module | Models | State and actions |
|---|---|---|
| `ControlPlane` | the control plane | `mem`, `disk`, `nodes`, `nodeDisk` are the maps and files; one action per request (`CreateTask`, `RegisterNode`, `Heartbeat`, `TryLease`, `Renew`, `AcceptEvent`, `AcceptTerminal`, `Replay`), `Tick`, `Restart`. Every mutation commits (`Commit`) or is torn (`CommitTorn`) |
| `RemoteOutbox` | the outbox files | operators over `pending`, `cursor`, `quarantined`, used by `RemoteHost` |
| `RemoteHost` | node loop, runner, mapping store, network; composes `ControlPlane` and `RemoteOutbox` | `pc` is the position of the one asynchronous loop; an action is the code between two awaits that can fail or be cut. Codex is external |
| `RemoteTaskLifecycle` | the abstract promise about a remote task | each task is submitted once, executed at most once while open, reported once; success only for a completed Turn. Several tasks may move in one step, because a restart of the server makes true at once what its files say |
| `JobManager` | job manager over the event store | `jobs` is memory, `log` what the terminated lines replay to, `tail` the unterminated rest; one action per call, each append may succeed, fail or be cut by a crash |
| `NodeDaemon` | persistent scheduler and node daemon; extends `JobManager` | `rows` is the table, `pass` the locals of `dispatch_due`, `tasks` the spawned executions; `ReadDue`, `Enqueue`, `Advance`, `SpawnCreated` are the loop, `Begin` and `End` an execution, `Reconcile` and `Restart` the start of the daemon |
| `WorkerGateway` | worker gateway, its callers, and the worker loop of the host | `mem` and `disk` are records and files; `Submit`, `Answer`, `Lease`, `Poll` and the reports are handlers, each after the sweep; `host` and `late` are the loop and the reports it gave up |
| `ExecutorFailover` | executor manager, failover wrapper and controller, writer lease | `lease` is the file, `manager`, `live` and `bound` what runs, `binding` and `flow` the objects and locals of each call; an action is the code between two awaits |
| `GroupSession` | one session of a development group; extends `ExecutorFailover` | `disk` and `delivery` are durable, `job` the runner of a launch, `view` and `op` the concurrent view and operation |
| `MemorySync` | queue, sockets and replica of a device; the server's log | `row`, `cursor`, `cache` are the SQLite file, `sub` and `answer` the locals of each process, `posts` the requests at the server, `log` the committed events |
| `ExecutionRuntime` | one task of the execution runtime, its ledger and snapshot, and the reporter | `snapshot` and the ledger (`lines`, `logged`, `reported`, `cut`) are the files; one action per operation, each through `Append`; `open` is the requests of the reporter, each of which is looked up (`Deliver`), checked (`Admit`) and queued (`Land`) |
| `WorkflowWorkers` | the workflow worker runtime | `db` is the tables, each operation one transaction on them; `told` is the slots that wait for work because `claim_work` said so |
| `WorkerStations` | conversations that follow the worker skill, station manager, wakeup controller; extends `WorkflowWorkers` | `turn` is what each conversation does, `item` the wakeup under delivery; `Works` is a conversation, `Reconciles` and `Controls` the two timers |
| `ExecutionStatuses` | the state machines of steps and tasks | operators, used by `ExecutionRuntime` and `AutonomousLoop` |
| `AutonomousLoop` | the loop of one project, and the lifecycle runtime it and other sessions claim through | `loop` is where the pass is, `call` the head of each task's queue, `row`, `receipt`, `session`, `answer` the tables; `Tend`, `Launching` and `Resuming` are the pass, `Serve` a call, an action is the code between two awaits |
| `ControlPlaneProofs`, `RemoteHostProofs`, `NodeDaemonProofs` (with `JobManager`), `DesktopProofs` (`GroupSession` and `MemorySync`), `ExecutionRuntimeProofs`, `AutonomousLoopProofs`, `WorkflowWorkersProofs`, `WorkerGatewayProofs` | theorems | |
| `MC_*` | symmetry sets for TLC; constants are in the `.cfg` files | |

### ControlPlane

Every request handler holds the state mutex for its whole critical section, so
a request is one step. A write that fails before its rename changes nothing
(no step). A write that fails after it, in the directory sync
(`control_plane.rs:1160`), leaves the new file behind while memory is put back
and the caller is told of a failure: this is `CommitTorn`, and everything that
the file then says becomes true after the next `Restart`. `granted` and
`acked` are history variables: what callers were answered.

A lease expiry is the time left; the server clock is taken to be monotone.
Payloads of events are left out, and so are the request validations that have
no state.

### RemoteHost

The loop is a single async function, so its state is one program counter plus
the locals that survive an await. Beside it run the renewal timer, whose
answers may arrive in a later attempt, and publications that timed out on the
host and are still under way (`late`). The control plane is the module
`ControlPlane` itself, instantiated, so the server side is not a stub.

Abstractions: the Git preflight and postflight are outcomes; the evidence of
an attempt is one event before and one after the Turn; a lost request and a
server error look alike to the host; a task keeps one execution id; `stop()`
is no more than a crash for the files it leaves; heartbeats lost or leases
requested while nothing runs are not modelled, as they change nothing. The
worker RPC loop of the same program is in `WorkerGateway`.

### JobManager

`create` .. `cancel` hold the lock of the job map from the status check to the
memory update; `progress` does not, so it is two actions. `EventStore::append`
writes and syncs one line. An interrupted append leaves nothing, the whole
line, a piece that is no JSON, a piece that ends inside a multi-byte
character (only events with free text), or the whole event without its
newline. The file is never truncated: the next line is glued to what is left.

Replay is a left fold over a file that only grows, so `log` keeps the fold's
value instead of the lines; the jobs whose history is illegal are a set,
because `apply_event_strict` treats jobs independently. While the process is
down `jobs` holds what it last showed, so one action property compares what a
reader saw before a crash with what it sees afterwards.

### NodeDaemon

A pass of the scheduler loop reads the due rows once and then works on its
copy, row by row: a job is created, the row is advanced, and only when the
whole pass has succeeded are the jobs spawned. Users disable, enable and delete
rows between any two of these steps. The daemon dies between any two durable
writes, or inside one of the job manager's. `Restart` is `recover` of the log
followed by the queued jobs being spawned; the running ones are failed one by
one (`Reconcile`), before which nothing else is served.

Abstractions: a tick of the clock is the period of every recurring schedule,
so a row is due when its occurrence is not later than the clock; SQLite
statements are atomic and durable; approvals, payloads and the providers'
work are left out, an execution ends in either outcome.

### WorkerGateway

Every handler takes the one mutex, sweeps all records, then does its own work,
so a handler is one step in which the sweep comes first. A record is written
to its file before memory changes; a write may fail before the rename or after
it (a file newer than memory), and a failure inside the sweep ends it half-way
and fails the request that triggered it (`BrokenSweep`). Times are what is
left. There is one node and one capability, as the gateway is bound to one.
The long polls are polls that are repeated. `granted`,
`accepted` and `told` are histories: what the host and the callers were
answered; `decided` is the reports that were written to the file as an outcome.

Two executions of a request may have the same result or the same error. A report that
equals the outcome of an ended request is answered with success, without a look at its
node, lease or token (`worker_gateway.rs:566`): a superseded lease's late report can be
accepted, but then it says only what the newest lease has decided
(`DecidedByNewest`).

### ExecutorFailover and GroupSession

`ExecutorFailover` has no specification of its own: it is the executor runtime
under one session, and `GroupSession` composes it with the session's record.
Each `await` of `start`, `prompt`, the verified switch and `close` is a point
where another call on the same objects can run, and where the desktop can die:
memory is lost then, the lease file is not. What an executor does (messages,
permission requests, failures by class, completion) is the environment.

Every operation of the user interface makes a `DevelopmentSessionRunner` from
the record it reads, changes its copy and saves it later; so does a launch,
and so does a view that finds a record in an active status nobody supervises.
The saves are separate steps and overwrite what came between.

Abstractions: two candidates, as `desktop-runtime.ts` configures; when a
cooldown or an open circuit is looked at, its time has passed or not; a nonce
is fresh; dependencies and waves are met; a delivery is verified or fails;
writes of the group store do not fail; integration follows delivery and is not
part of the module.

### MemorySync

Several processes of one device (the desktop, an MCP server per agent, the
command line) open the same SQLite file. Each has a flush loop that claims
pending rows and posts them, and a replay that fetches pages of the server's
log, caches their events and moves the common cursor. A claimed row is
released after a minute whoever holds it, so two requests for one event may be
under way, and their answers come in any order. At the server a batch is cut
into one transaction per event; the sequence number is drawn (`Allocate`) and
becomes visible at commit (`Conclude`), separately.

Abstractions: an entity is its version, the number of committed events about
it; the version a publisher expects is at most the one known at publication
(the callers read it from the replica); the version conflict stands for every
permanent refusal, as the client treats them alike; statements on the file are
atomic and succeed (the five seconds a locked database is waited for are not
modelled); the HTTP socket is modelled, as it is the one `openSharedMemory`
uses. Events of another device enter the log as those of a process whose
request was given up.

### ExecutionRuntime

`mutate` queues the operations on a task, so an operation is one step: it reads
the snapshot, appends its lines and replaces the snapshot. It may fail before
its first line, inside of any line, or between the last line and the snapshot
(`Broken`); a cut line makes the ledger unreadable for good, which stops the
task. It may also fail after the snapshot was replaced, in the sync of the
directory. Creation and the reporter are outside of the queue, so they are
several steps each, and several requests of the reporter are open at a time.
An id that is in the ledger is not written again, but the snapshot is
(`Repeat`): this is how an operation that was cut short takes effect later.

Abstractions: an assignment's id is the length of the ledger at its creation;
a ticket is the assignment it was issued for, its signature and expiry are
left out; session bindings, skill preflights and archiving are one operation
that writes a line; executors and skills, which only refuse assignments, are
left out; the line of a failing write is cut inside, never exactly before its
newline; a task is not deleted.

### WorkflowWorkers and WorkerStations

Each operation is synchronous and, but for the queries of the wakeup
controller, one SQLite transaction, so it is one step that computes new
tables from the old: `Granted` is a new claim, `Expired` what every expiry
does, `Committed` a commit with the stages it releases, and `Refreshed` the
bookkeeping of ready counts and wakeups that closes a transaction, for the
definitions the code passes to it. In `WorkflowWorkers` anyone may call
anything at any time with any ticket a slot ever had. In `WorkerStations` the
conversations follow `skills/zero3-web-worker/SKILL.md`, so what is asked there
is whether the program keeps its side.

Abstractions: a session is its slot and generation, and a ticket is its
session; a call that is refused, or that repeats an idempotency key, changes
nothing; a lease has lapsed or not, and does not lapse under the stations; of
its queue generation a wakeup keeps whether it is the newest; a wakeup that is
put off is still pending; `tick` asks once for all pending wakeups and delivers them one
after the other, the model looks again before each (`Takes`); artifacts and the statuses of work items, which
nothing reads back, are left out; a run is one of its kind in the file.

### AutonomousLoop

The passes over a project are chained, so there is one pass at a time; within
it every `await` of a port is a place where others act. `mutate` of the
lifecycle runtime chains the calls on one task, so a task has at most one call
under way, and the loop waits for its own like any other caller. The step
itself belongs to the execution runtime, whose queue the gate and the humans
use too: they come in between the looks of a call and its effects. The four
tables survive a crash; a crash inside a claim may leave the claim without the
session's step and the answer (`lifecycle-runtime.ts:286`), one around
`gpt.create` a session without its row.

Abstractions: one project, whose tasks have one step for Web GPT and an
exclusive claim, as `createGoal` and `ingest` make them without further
options; only first attempts are dispatched, because a step that keeps its
assignment is passed over (`autonomous-task-loop.ts:679`), so a task has one
row and at most one session in it; a candidate is the existence of its task;
the attention budget is not used up; statuses nobody here asks for
(cancellation, failure, outcome_unknown) do not occur; work logs, contexts,
artifacts and shared memory are left out; a session claims and
completes and does nothing else (`sessionInterrupt`, `lifecycle-runtime.ts:746`, is not
modelled).

## 3. Runs

Passing runs:

| Run | Instance | What it shows |
|---|---|---|
| `cp_generations` | 2 tasks, 2 nodes, 1 execution id, 2 deliveries, 3 leases, 1 torn write; 191k states | fencing, durability and finality of acknowledgements, only the newest generation enters |
| `host_attempts` | 1 task, 2 leases, outbox of 2, any three of: a crash, a lost request, a lapsed lease, a failed Codex call or local write, a torn server write; 463k states | Codex only after the durable acceptance, no envelope lost, a quarantine is final without a torn write, no overtaking; implements `RemoteTaskLifecycle`: one Turn at most, one outcome, and success only for a completed Turn |
| `host_shared` | 2 tasks, 7 leases, one crash, clock set back once; 292k states | every task ends when tasks share the host |
| `nd_dispatch` | 2 jobs, a recurring and a single schedule, users switch and delete the recurring one, 1 tick, 2 faults, at most one of them an append to the log; 1.1M states | an occurrence that a row has passed has its job, extra jobs cost a fault each, a job begins at most once, no open job is forgotten, a schedule switched off outside a pass stays off; every accepted job ends; a status once shown is never taken back, across failing writes and restarts |
| `wg_leases` | 2 requests, one key, 2 results, 2 leases, 2 faults; 295k states | every outcome that the host or a caller is told was decided under the newest lease, what was accepted is durable, a repeated key is answered alike; every request ends |
| `gs_races` | 1 launch, 2 attempts, a switch in each, 1 crash, 2 user operations; 1.2M states | one executor at a time, heard only as the writer; nothing delivered that did not complete; no lease locks the session out; a record that nobody runs does not stay active |
| `ms_shared` | 2 processes, 2 events, 2 entities, 2 requests at the server, pages of one event, 1 trouble; 850k states | verdicts are true for ever, no update lost, no gap in the replica; everything published is settled |
| `er_reports` | a step and a dependent one that is added later, 1 report delivered twice at a time, ledger of 6 lines, 1 failing write, restarts at any moment; 2.0M states | the ledger says what is in effect, only the gate completes a step, a report lands once |
| `ww_claims` | 2 slots of one definition, 2 items with 3 stages, 3 claims, a rotation of the slot that works in batches, an item limit of the other; 400k states | a stage has one holder, which is never shut out; no stage is forgotten; a slot that waits has a wakeup for what became ready |
| `al_tasks` | a root goal, one repair, one session of a user, 2 attempts, 2 moves of others or one and a failed port call or crash; 375k states | a task has one claim, of its newest assignment; a session is launched a second time only with a cause, and a parent resumed a second time only after a crash between its transition and the receipt; no ready step, claimed session or completed repair is left lying |

Runs that show a disagreement between the code and its documents
(`expect: violation`; the details with the quotations are in `PROJECT.json`):

| Run | What happens |
|---|---|
| `host_sequence` | a crash between envelope and cursor file lets an execution number two events alike |
| `ww_wakeup` | a conversation whose commit is answered with NO_WORK_AVAILABLE stops as it is told to, but its slot stays ACTIVE, gets no wakeup and is not prompted again. If the answer made the slot WAITING, as that of `claim_work` does, the same instance would satisfy the property |

Why the bounds suffice. Two tasks, nodes and deliveries are what uniqueness
and takeover need; at the server three leases are a first generation, its
successor and one more that meets leftovers of both, and under the host two
are an attempt and one that meets its leftovers; one lease tick is enough
because only "expired or not" is ever tested. An attempt makes three envelopes,
so an outbox of two meets the full-outbox branches and holds leftovers. One
failure of each kind makes every single-failure interleaving; where two or three are
needed they are of different kinds and are allowed together (`ThreeFailures`,
`OneAppendGoesWrong`, `TwoDisturbances` in the `MC_*` modules bound their sum). Two schedules are one
row that a pass has finished and one it has not; two jobs are one of a
schedule and one direct or repeated. Two requests at the gateway are an
original and its repetition after a purge, or two that compete for one lease; with two
results, a late report of an older lease has the same outcome as the newer one or another.
Two processes, events and requests are what claims, verdicts and the cursor
can overtake each other with; the safety properties of `MemorySync` are
proved for all bounds, and were also explored once with three requests and two
troubles (27M states). A ledger of six lines is enough to assign, report,
complete and gate a step and to release or assign the dependent one, or to assign
the step twice, with a report that lands under the second assignment; it is not enough
to complete the dependent step too, which the theorems about
`ExecutionRuntime` cover. Three claims of workflow stages are as many as the
instance can ever grant, so this bound takes nothing away; the stage nobody
serves shows that the work of one definition does not disturb the other's. In
the loop a goal and a repair are what block and resume each other, one user's
session is what competes with the loop's, and two moves are a hand-over to a
human and the way back; the second attempt is made by a user's session. What
two faults add is covered by the proofs, not by this run.

Four properties need their instance. `NoOvertaking` is checked with a clock
that is not set back, because the order of publication is the order of
wall-clock stamps (`remote-outbox.ts:101`). `QuarantineIsFinal` speaks of
behaviours without a torn server write: a terminal that is on disk but was
answered with an error can be quarantined by the host and come back with a
server restart.
`gs_races` follows each behaviour to the first view or resolution that meets a
launch under way (`CONSTRAINT Undisputed`): from there the record may say one
thing and the launch do another (see the list of observations). Its
liveness is a statement about the other behaviours only. And `NotLockedOut`
excludes the leases that a crash leaves in a later generation or pending,
which the history variable `stranded` marks: every later start fails on them.

### Fairness

No failure, crash, lapse or late arrival is fair anywhere: they may happen or
not, and are bounded by their budgets.

- `RemoteHost!FairSpec`: weak fairness of the loop (an async function that is
  always resumed), of the clock, and of Codex finishing a Turn it runs. The
  budget of lapses counts leases that expire under an active attempt or under
  a deliverable head of the outbox; renewals every 10 s against a lifetime of
  45 s justify a bound. The instance has room for the envelopes of an attempt.
  With an outbox of one it would fail: the late rejection of each attempt's
  renewal invalidates the next attempt, whose leftovers fill the outbox again.
  The real capacity is 2048.
- `NodeDaemon!FairDaemon`: the scheduler loop, each job's execution or its
  reconciliation, and a daemon that is started again (a service manager does).
  That a provider's run ends, in whichever outcome, is an assumption.
- `WorkerGateway!FairSpec`: the clock, a host that polls (`Lease` or `Poll`)
  and that reports or gives up a report. The sweep runs in handlers only, and
  the poll of a host is the one that is always made again.
- `GroupSession!FairSession`: a view of the group is made again and again, and
  its write ends. This is an assumption about the user interface: every
  operation on a group views it first.
- `WorkerStations!StationsSpec`: a conversation that has a turn goes on with it,
  and the station manager (every 15 s) and the wakeup controller (every 5 s)
  fire for ever. Nobody has to add work.
- `AutonomousLoop!FairSpec`: the timer of the loop ticks and a pass goes on
  after each await (`Pass`), and the call at the head of a task's queue is run
  (`Serve`). Sessions need not complete, gates and humans need not act.
- `MemorySync!FairSpec`: each process runs one of its timers (flush retry 5 s,
  poll) or is started again by its host, the server ends what it was asked,
  and a minute passes.

## 4. Proofs

`ControlPlaneProofs` proves for every set of tasks, nodes, executions and
deliveries, every lease duration and any number of leases, torn writes and
restarts: `TypeOK`, `GenerationsUnique`, `OneNodePerTask`, `AckedIsDurable`,
`AckedOutcomeIsFinal` and `OnlyNewestGenerationEnters`. It assumes only the
named assumptions of the module (task ids and sequences are numbers, the
lifetime is positive, the "none" values are none of the others).

The properties are not inductive by themselves: they speak of what callers
were answered, and the step that could break them is a restart that replaces
memory by a file no caller knows of. The inductive invariant `IInv` therefore
relates every answered lease and every acknowledged delivery to the record in
memory *and* to the file: a torn write makes the file newer than memory, a
restart makes it memory. Its parts bound every answered generation by the
generation in both places, tie the sticky node to every answered lease, and
say that a file is never behind memory.

`RemoteHostProofs` proves for every set of tasks and executions, every lifetime of a
lease, every capacity of the outbox, and any number of crashes, lost and late requests,
lapsed leases, failed calls and writes, torn writes of the server and corrections of the
host's clock: `TypeOK`, `NoEnvelopeLost`, `CodexAfterAccepted`, `QuarantineIsFinal`,
`NoOvertaking` as long as the clock is not set back, and that host, server, Codex and network implement `RemoteTaskLifecycle`. The server is not
looked at twice: a step of `RemoteHost` is a step of `ControlPlane` or leaves its
variables alone, so the inductive invariant of `ControlPlaneProofs` holds here as it is,
and the rest of the argument knows of the server only what one of its steps does to the
record of one task (`TaskStep`). The host is cut the same way: what a step does to the
outbox (`ItemsStep`), to the place of the loop (`Moves`) and to Codex and the mapping file
(`CodexKinds`) is proved once for each action and used by every part of the invariant.
These parts are:

- `ItemsInv`, `ControlInv`: every item under way was built of a lease the server answered
  with; where the loop is says which locals it may use.
- `LossInv`: each number drawn is pending, quarantined or in the server's *memory*. The
  property speaks of the disk; a file is never behind memory, but it is a restart that
  makes memory of it, so the part about memory is the inductive one.
- `QuarantineInv`: without a torn write, the lease of a quarantined envelope is superseded
  for good, which refuses the copy that is still in the network.
- `CodexInv`: the mapping file is behind Codex by one call at most: no intent means no Turn,
  an intent may have one that was never written down.
- `StateInv`, `SuccessInv`: an ended record holds an envelope that says so, and every
  envelope that says `succeeded`, also one still in the outbox, is of a task whose Turn is
  completed, and a completed Turn stays so.
- `AcceptInv`: between the acceptance and the preflight there is a drain of several items
  that a crash, a full outbox or a stale lease can break off. What the loop waits for is
  one delivery (`target`), and nothing else that is pending can end that wait.
- `OpenInv`: until its Turn is started the task of the attempt is open in memory and in the
  file, and no outcome under way carries the attempt's own lease; the older ones are
  refused by the fence. This is why a Turn is begun for an open task only.
- `OrderInv`: until the clock is set back, the outbox is in the order of the delivery ids,
  and what was given up as lost or is in a file of the server is not newer than anything
  pending. The part about the files is what `NoOvertaking` hangs on: after a torn write it
  is a restart of the server, long after the publication, that lets an envelope enter.

Stating the refinement for every constant showed that the lifecycle had to let several
tasks move in one step: after two torn writes, one restart of the server can end or create
two tasks. TLC's bound of one torn write had not shown it. The assumption that `RemoteHost`
gained, `ServerAssumption`, is that of `ControlPlane`. `NoOvertaking` has
a hypothesis, `[](skewed = 0)`, as `MaxSkewed` is 0 in its run: a corrected clock does
reorder the files of the outbox.

`NodeDaemonProofs` first proves of `JobManager`, for every set of jobs, all its calls
(cancellations and progress reports, which the daemon does not make, included) and any number
of interrupted appends: `TypeOK`, `MemoryIsReplay`, `TransitionsAreLegal` and
`StatusOnlyAdvances`. The invariant has two parts. Until an append is
interrupted, log and memory are equal and the file is intact, so the guard of
each call in memory is the rule replay applies to its event. After the first
interruption the log may be ahead of memory, by an event that is terminated or
still in the tail, and never behind; a second line glued to the tail makes the
file unreadable, after which no recovery succeeds and nothing is claimed.

It then proves that every step of the daemon is a step of the job
manager or leaves it alone (`DaemonUsesManager`), so the theorems above hold
in the daemon, and `BegunOnce`: a job's work is begun at most once, whatever
crashes and failures of writes happen. Its invariant says that a job whose work
was begun is past its start in memory and in the log, and that a job in memory
was recorded, unless what an interrupted append left makes the log unreadable
at the next one. For any schedules and any number of crashes and failed writes
it further proves the types (`DaemonTypeCorrect`), `OffStaysOff`,
`OpenJobsAreTended`, `PassedIsRecorded` and `ExtraJobsCostFaults`. `HandsInv` says
in whose hands each open job is, the pass's, a task's or those of
`reconcile_recovered_jobs`, and that no two have it. `PlanInv` ties the pass to
the table: what the pass has read is still the next occurrence of its row, once
for each row, and none of it belongs to a row that was switched off outside of
a pass, since `advance_after_dispatch` would switch it on. `RecordInv` adds that the
job of the pass has its line in the log before its row moves on; a line
that is only in the unterminated tail does not count, because the next
interrupted append can overwrite what replay makes of it. `CostInv` keeps the
accounts: an occurrence that a pass may still create a job for has at most as
many jobs as there were faults, every other one at most one more. The
one assumption this added to `NodeDaemon` is that the value for "no occurrence"
is not an occurrence (the payload of a submitted job has neither field).

The first half of `DesktopProofs` is about `GroupSession`, for any launches, attempts,
generations, retries, crashes and user operations. `DeliveredWasCompleted` is a theorem
without a hypothesis (`DeliveryIsEarned`): launches may overlap, and a view may take a
record away from its launch. The property speaks of the record on disk, but the record is
copied into every runner, view and operation and written back later, so `RecordInv` says
of each copy that it shows a delivery only for an attempt that completed, and that only
the settlement of an attempt writes `delivering`.

`OneExecutor`, `StreamsAsWriter`, `NotLockedOut` and the types are proved under
`OneAtATime`: no two launches of the session are under way at once. Without it the three
are false: TLC finds a counterexample of each with two callers, because `start` looks for
a running executor before an await and sets it after
(`executor-manager.ts:189`), and the second launch reads the record before the first one
has saved it. The run has one caller, which is that hypothesis. It does not exclude views, cancellations,
answers, resolutions and crashes in the middle of a launch; as in the run, what follows the
first view or resolution that meets one is left out (`~disputed`). The invariant `ExecInv`
has three layers. `FlowOk` says for each place of a call (start, prompt, verified switch,
close) what runs and what the lease file holds there: a call that is heard has its
binding in force, a switch has marked its lease before the old executor is closed, and
the new one has started before the lease is accepted. `JobOk` pairs the place of a launch
with the places of the call underneath it. `Quarantine` is the part the other two hang on: a record
that may be launched again, while no launch is under way, has no executor and no binding: a launch
either closes its executor, or leaves it under `outcome_unknown` or an active status, from which
only a resolution, which closes it, leads back to a launch. A crash
empties everything but the lease file; `stranded` remembers whether what it left can
be adopted (`FreeLease`). That a nonce is fresh is a lemma about finite sets
(`FreshIsNonce`): there are more nonces than places that hold one. The
proofs need finitely many launches, and a value for "none" that is no lease, session or
binding; both are assumptions of `ExecutorFailover`.

Its second half, about `MemorySync`, proves for any processes, events, entities, requests, limits
and troubles: `TypeOK`, `NoLostUpdate`, `AckedIsCommitted`,
`RefusedIsNotCommitted` and `ReplicaHasNoGaps`. Every step is one of four for
the log: it leaves it alone, publishes an event, draws a number, or commits
under the lock (`EveryStepIsLogStep`). From this follows an invariant of the
log (numbers and versions are unique, and an event's version is one above the
version it expected). A verdict that a request carries or a row holds is
justified by the log, and justified verdicts stay so under the four kinds of
step, which is why it does not matter in which order the answers arrive. The
replica: everything committed up to the cursor is cached, and the unread part
of a page in a process continues from what that process has stored. The lock
matters in exactly one place, that no number below a committed one is still to
be committed.

`ExecutionRuntimeProofs` proves for any steps, dependencies, reports and
limits, and any number of failing operations: `TypeOK`, `EffectsAreLogged`,
`OnlyGateCompletes` and `ReportsLandOnce`. `OnlyGateCompletes` is not inductive:
that a completed step's dependencies are completed is decided when its
assignment is created, several operations earlier. The invariant `Sound` says
of each step what its status implies: an effective status is in the ledger for
the current assignment, an assignment implies completed dependencies (which
stay so, as no operation leaves `completed`), and `verifying` implies the line
that asked for it. Every operation goes through `Append`, so one lemma
(`AppendKeeps`) covers failures and repetitions for all of them, and each
operation only has to show that its new snapshot is sound for every ledger that
has its first line.

`AutonomousLoopProofs` proves for any repairs, sessions, attempts, moves and
faults: `TypeOK`, `ClaimsAreExclusive` and `NothingIsRepeated`. That a task has one claim is decided
at the start of a call and made true at its end, with the step moving in
between; what carries it over is that the queue of the task has one call.
`ClaimInv` says that a call which has found no other claimant stays the only
one until it is over, that a session is a claimant of the task of its call
only, and that a call past its assignment is for the attempt the step has now.
`WakeInv` follows the answer: it is stored after the claim is written, so a row
that says CLAIMED, a pass that is about to write so and a stored answer each
mean that the loop's session holds its step, unless a crash came between the
claim and its answer. `LaunchInv` and `ResumeInv` are about one task with at
most one fault: what the row says bounds the sessions that may exist, a row that
was given up after an unknown outcome belongs to a step that only somebody else
readies again, and a parent was readied once if its resumption is past the transition or
its receipt says RESUMED, and otherwise only as often as crashes came between the two (`cut`).

`WorkflowWorkersProofs` proves for any stages, dependencies, slots, claims and
limits: `TypeOK`, `OneHolder`, `NothingStranded` and `WaitingIsWoken`. The
invariant `IInv` is about one value of the tables, because an operation changes
them several times before it commits; each change (`Freed`, `Given`,
`Finished`, `Stopped`, `Inserted`, ...) is shown to keep what it does not touch, and
`refreshWakeupsTx` to repair the rest, provided that the queues outside of its
argument did not change. `Worked` ties claims to stages in both directions and
to the newest session of their slot; `Queued` says that a stage is pending while
a dependency is open and never attempted before its release; `CountRight` that the
stored counts are the queues'. `Woken` needs them all: a wakeup is created only
when a stored count was zero, so the slot that waits must have had none or have
its wakeup already, and a slot is told that there is no work only if no stage is
ready, because the first in the order of the query has an attempt left. The
bound on claim ids is a guard of the calls that need one (`IdsLeft`), so
running out of ids is never answered NO_WORK_AVAILABLE. `SlotsAssumption` asks
for one slot at least.

`WorkerGatewayProofs` proves for any keys, results, numbers of requests and leases, times to
live and faults: `TypeOK`, `DecidedByNewest`, `AcceptedIsDurable` and
`RepeatsAgree`. None of the three is inductive, as each relates what was answered
to what was answered earlier. `RecordFine` ties both to one record, whether that is
the record in memory or the one in its file: its token is at least that of every
lease given for it, its outcome was reported under that token, and an
outcome that the host or a caller was told is its outcome. So an outcome is told only while
its record carries the newest token; that no lease is given out later, when the record may
be deleted, is the history part (`Newest`). Nothing is assumed of what executions return:
an equal report of an older lease is accepted, and is covered by the report that decided.
The sweep and the clock
keep this for any record (`SweptFine`, `AgedFine`), which is why it does not matter at
which record a sweep breaks, and a restart only replaces one such record by another.
`RowFine` adds that the file may be ahead of memory only while the record in memory
is open: a torn write is then either overwritten by the sweep or found at a restart,
and nobody was told of it before. `KeysFine` is about keys, and holds until the first
torn write: after one, a restart can bring up a second record of a key, which is
what `RepeatsAgree` excepts.

Model-checked only: all liveness. Every other property that a passing run checks, invariant,
action property or refinement, is also a theorem; the types of `GroupSession` (`TypeSession`) and `RemoteHost` are in no run and
are proved. Liveness,
ENABLED and facts that need induction over data are outside what the prover
handles here.

## 5. Not modelled

The rows of section 1 without a module. The bridges, the user interface and
the build have no state of their own or keep it in external programs;
admission, OAuth, configuration and evidence collection are validation and
translation; registries and record stores have too few transitions to be worth
a module beside the file replacement already modelled; planning, verification
and completion of groups are functions of their inputs, and the memory layers
above `MemorySync` are functions of the events it carries. The
bridges of the workflow runtime and the integration of groups are in the plan. Of the
modelled components, `PROJECT.json` says what each module leaves out.

Seen while modelling, without a run of their own:

- with two interrupted appends a status can be taken back (an event complete
  but for its newline is accepted by recovery, and the next torn append spoils
  its line), which is why `StatusOnlyAdvances` counts interruptions; a crash
  inside a multi-byte character defeats the tolerant mode too, and the first
  append after a tolerated crash tail is glued to it (`zero3-store/src/lib.rs:77`);
- a progress message overtaken by the end of its job is logged after it, and
  strict recovery refuses the log (`zero3-scheduler/src/lib.rs:340`);
- a creation whose directory sync fails hides a task from the uniqueness check
  of execution ids until a restart loads it (`control_plane.rs:1160`);
- the late rejection of an old renewal invalidates a fresh lease
  (`remote-node.ts:286`); a crash between `thread/start` and the mapping file
  makes a second Thread (`remote-task-runner.ts:604`); an error of
  `thread/read` (`remote-task-runner.ts:688`) makes the host report a task
  failed whose Turn may still complete;
- two overlapping launches of one session start two executors
  (`executor-manager.ts:189`); a resolution or a retry releases the lease that
  a running launch has adopted (`desktop-runtime.ts:304`); an answer to a
  permission request or a cancellation saves a copy that is older than the
  attempt it rolls back (`session-runtime.ts:231`);
- a crash after `delivering` was saved leaves a session delivering for ever
  (`session-lifecycle.ts:106`); one that leaves a lease of a later generation
  stops every later start (`failover-runtime.ts:254`); two candidates whose
  context is exhausted hand the prompt to each other
  (`failover-runtime.ts:172`); a retry of a session that delivered and was
  blocked later is always refused (`session-lifecycle.ts:79`);
- a view during `start()` declares the outcome of a launch unknown
  (`group-runtime/runtime/session-lifecycle.ts:35`) and the launch saves `running` over it, where
  `CONTRACT_FREEZE_C1.md:53` wants it to stay unknown until resolved;
- a process whose page was stored by another one meanwhile does not
  acknowledge it (`memory-sync-client.mjs:265`) and stays with a replay that
  never ends, so it polls no more; its file advances only while another process of it lives
  (against the comment at `http-sync-socket.mjs:23`);
- a pending rotation of a workflow slot is forgotten when the slot claims,
  bootstraps or reports itself blocked (`workflow-worker-runtime.ts:696`,
  `:610`), which write over `ROTATING`; a run that is complete stays so when
  items are added to it later (`:833`), and the station manager passes it over
  (`worker-station-manager.ts:77`); nothing schedules `expireLeases`; the claim
  query is cut to the batch size before capabilities are looked at
  (`workflow-worker-runtime.ts:647`), so work nobody on the slot can do hides
  the rest; a late bootstrap makes a waiting slot ACTIVE, and a pending wakeup
  for it is suppressed; a stage that waits for a human has no way back;
- recovery of an atomic file removes a temporary file that another call may
  be about to rename (`atomic-file.ts:111`);
- the lifecycle outbox of the worker runtime counts a publication as
  acknowledged when it merely returned (`lifecycle-runtime.ts:298`, `:437`); a
  crash in a keyed creation of a task leaves what
  `docs/WEB_GPT_FAST_PATH_P0.md:45` excludes;
- a report that was checked before a new assignment of its step was created is
  recorded as one of the new assignment (`reporter.ts:240`), while
  `docs/EXECUTION_REPORTER_V1.md:34` says that a new assignment invalidates the
  previous ticket; a report whose line was written and whose effect was lost is
  answered as accepted once a later operation has moved the snapshot past its
  line (`reporter.ts:235`, against `docs/EXECUTION_REPORTER_V1.md:78`), so
  `ReportsLandOnce` claims its line and not its effect; `gatePassed` refuses a
  blocked task only after it has appended `gate.passed` (`runtime.ts:549`);
  `recordProgress` takes a step from `fix_required` to `running` without looking
  at the capacity (`runtime.ts:467`, against `docs/EXECUTION_SYSTEM_V1.md:34`);
- the autonomous loop refuses a second launch only for a RESERVED row
  (`autonomous-task-loop.ts:787`): a failed creation or a refusal that is cut
  before the step is given to a human leaves an ABORTED row, and the next pass
  launches again, although the first session may exist; a failed creation gives
  the step to a human without looking whether somebody claimed it meanwhile
  (`:799`);
- a crash between the creation of a repair and the block of its parent
  (`autonomous-task-loop.ts:651`) leaves the parent unblocked for good, since
  the candidate is known then; a parent that was dispatched once is not
  dispatched again when its repair readies it, because it keeps its assignment
  (`:679`), where `docs/AUTONOMOUS_TASK_RUNTIME_V1_3.md:118` says "normal
  scheduler/dispatch resumes the mainline"; `LoopFinishes` therefore speaks of steps
  that were never assigned, and of a resumed parent only that its receipt is decided; of two repairs of one parent the first to complete readies it;
- a repair readies the step of its parent (`autonomous-task-loop.ts:745`) before its
  receipt says RESUMED (`:760`). When the process dies between the two, and the parent is
  dispatched and then given to a human or blocked before the receipt is looked at again,
  the PENDING receipt has the parent resumed a second time, over the new decision.
  `docs/AUTONOMOUS_TASK_RUNTIME_V1_3.md:121` says "The receipt makes resume idempotent
  across repeated reconciliation and restart" and line 183 "completed repair -> Parent
  Resume exactly once". In the instance of `al_tasks` TLC refutes `resumes[c] <= 1` with
  this one crash; `NothingIsRepeated` counts such crashes (`cut`) and allows a further
  resumption for each, and for nothing else;
- a crash after the assignment and before the claim leaves the step dispatching,
  and the repeated call claims the task without a step
  (`lifecycle-runtime.ts:286`); one after the claim and before its answer makes
  the repeated call answer CLAIMED, and the session is woken up without a step;
  an answer LOCKED or WAITING is stored under the idempotency key, so no retry
  of the loop ever gets another one (`lifecycle-runtime.ts:130`); a completion
  whose step was blocked meanwhile releases the claim and asks for nothing
  (`lifecycle-runtime.ts:728`);
- a caller of the shared memory that expects a version above the one it knows
  can have a committed event marked refused by a late conflict.

## 6. Plan

In order:

1. The integration queue of a group (`group-runtime/integration`) over several
   `GroupSession`s: dependencies, waves, one merge at a time.
2. The bridges of the workflow runtime over `ExecutionRuntime`; the session
   table of agent routing.
3. Proofs: the types of `WorkerStations`, and which launches of a `GroupSession` may
   overlap without harm.

Runs stay few: a run is replaced when a stronger one asks its question.
