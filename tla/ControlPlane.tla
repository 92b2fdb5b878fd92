---------------------------- MODULE ControlPlane ----------------------------
(***************************************************************************)
(* The durable remote-task control plane of apps/web/src/control_plane.rs. *)
(*                                                                         *)
(* The server keeps one map of tasks and one of nodes in memory behind a   *)
(* single mutex, and one JSON file per record on disk.  Every mutation     *)
(* runs under the mutex, so a request is one atomic step: it computes the  *)
(* new record, writes the complete file (temporary file, fsync, rename,    *)
(* fsync of the directory) and only then answers.  When the write reports  *)
(* an error the record in memory is put back.  A write that fails before   *)
(* the rename changes nothing; a write that fails after it (the directory  *)
(* cannot be opened or synced) is TORN: the file is new, memory is old.    *)
(* A restart reloads memory from the files.                                *)
(*                                                                         *)
(* Abstractions.  Identifiers are members of small sets; task ids are      *)
(* numbers because the lease scan visits the BTreeMap in key order.  An    *)
(* absent map entry is a record in state "absent".  A lease expiry is the  *)
(* time that remains until lease_expires_at, 0 once it has passed; the     *)
(* server clock is taken to be monotone.  `granted' and `acked' are        *)
(* history variables: the leases and deliveries the server answered for.   *)
(***************************************************************************)
EXTENDS Integers, Sequences, FiniteSets

CONSTANTS
    Tasks,         \* task ids, ordered like the keys of the BTreeMap
    Executions,    \* execution ids a controller may submit
    NoExecution,
    Nodes,         \* Remote Host node ids
    NoNode,
    Reports,       \* what a heartbeat reports (active task, pending count)
    NoReport,
    Deliveries,    \* delivery ids of envelopes
    EventSeqs,     \* event_sequence values a host may send
    Finals,        \* terminal states a host may report in this instance
    LeaseTTL,      \* lease_ttl, in clock ticks
    MaxLeases,     \* bound: leases issued in a behaviour
    MaxTorn        \* bound: torn writes in a behaviour

TerminalStates ==
    {"succeeded", "failed", "cancelled", "blocked", "outcome_unknown", "quarantined"}

ASSUME TasksAssumption == Tasks \subseteq Nat
ASSUME SeqsAssumption == EventSeqs \subseteq Nat \ {0}
ASSUME TTLAssumption == LeaseTTL \in Nat \ {0}
ASSUME BoundAssumption == MaxLeases \in Nat /\ MaxTorn \in Nat
ASSUME NoneAssumption ==
    NoExecution \notin Executions /\ NoNode \notin Nodes /\ NoReport \notin Reports
ASSUME FinalsAssumption == Finals \subseteq TerminalStates

VARIABLES
    mem,       \* ControlPlaneState.tasks
    disk,      \* tasks/<task_id>.json
    nodes,     \* ControlPlaneState.nodes
    nodeDisk,  \* nodes/<node_id>.json
    issued,    \* number of lease ids drawn so far (fresh uuids)
    torn,      \* torn writes so far
    granted,   \* history: leases the server answered with
    acked      \* history: [task, env] deliveries answered with success

vars == <<mem, disk, nodes, nodeDisk, issued, torn, granted, acked>>

-----------------------------------------------------------------------------
(* Records *)

EventBodies == {"accepted", "evidence"}

ExecutionIds == Executions \cup {NoExecution}

Envelope ==
    [delivery: Deliveries, exec: ExecutionIds, lease: Nat, token: Nat,
     seq: Nat, body: EventBodies \cup TerminalStates]

Lease == [node: Nodes \cup {NoNode}, id: Nat, token: Nat, left: 0..LeaseTTL]

NoLease == [node |-> NoNode, id |-> 0, token |-> 0, left |-> 0]

TaskStates == {"absent", "queued", "leased", "running"} \cup TerminalStates

TaskRecord ==
    [exec: ExecutionIds, state: TaskStates,
     sticky: Nodes \cup {NoNode}, token: Nat, lease: Lease, lastSeq: Nat,
     events: Seq(Envelope), terminal: SUBSET Envelope, delivered: SUBSET Envelope]

Absent ==
    [exec |-> NoExecution, state |-> "absent", sticky |-> NoNode, token |-> 0,
     lease |-> NoLease, lastSeq |-> 0, events |-> <<>>, terminal |-> {},
     delivered |-> {}]

NodeRecord == [registered: BOOLEAN, report: Reports \cup {NoReport}]

Grant ==
    [task: Tasks, exec: ExecutionIds, node: Nodes, id: Nat, token: Nat]

-----------------------------------------------------------------------------
(* Guards and record updates.  A definition that follows "Mutant" is a     *)
(* plausible bug in the definition after it; no action uses it, and the    *)
(* property it is paired with fails when it takes that definition's place. *)

\* Mutant: only success ends a task.
EndedOnSuccess(r) == r.state = "succeeded"

Ended(r) == r.state \in TerminalStates \/ r.terminal # {}

\* Mutant: a task is offered only until it is sticky.
LeasableOnce(r, n) ==
    r.state # "absent" /\ ~Ended(r) /\ r.lease.left = 0 /\ r.sticky = NoNode

(* The filter of the lease scan: neither ended nor leased, and not sticky  *)
(* to another node.                                                        *)
Leasable(r, n) ==
    /\ r.state # "absent"
    /\ ~Ended(r)
    /\ r.lease.left = 0
    /\ r.sticky \in {NoNode, n}

(* The scan stops at the first leasable task in key order. *)
Selected(t, n) ==
    /\ Leasable(mem[t], n)
    /\ \A u \in Tasks : Leasable(mem[u], n) => t <= u

\* Mutant: the holder is checked, its generation is not.
ValidHolder(r, n, g) ==
    r.exec = g.exec /\ r.lease.id # 0 /\ r.lease.node = n /\ r.lease.left > 0

(* validate_lease, for a request that node n sends under the grant g. *)
ValidLease(r, n, g) ==
    /\ r.exec = g.exec
    /\ r.lease.id # 0
    /\ r.lease.node = n /\ r.lease.id = g.id
    /\ r.lease.token = g.token /\ r.token = g.token
    /\ r.lease.left > 0

InSequence(r, s) == s > r.lastSeq

Unclaimed(e) == \A u \in Tasks : mem[u].exec # e

Queued(e) == [Absent EXCEPT !.exec = e, !.state = "queued"]

\* Mutant: a re-lease to the sticky node keeps the generation.
LeasedSameToken(r, n, id) ==
    LET token == IF r.sticky = NoNode THEN r.token + 1 ELSE r.token
    IN  [r EXCEPT !.token = token,
                  !.lease = [node |-> n, id |-> id, token |-> token, left |-> LeaseTTL],
                  !.sticky = n,
                  !.state = "leased"]

Leased(r, n, id) ==
    [r EXCEPT !.token = r.token + 1,
              !.lease = [node |-> n, id |-> id, token |-> r.token + 1, left |-> LeaseTTL],
              !.sticky = IF r.sticky = NoNode THEN n ELSE r.sticky,
              !.state = "leased"]

Renewed(r) == [r EXCEPT !.lease.left = LeaseTTL]

WithEvent(r, env) ==
    [r EXCEPT !.lastSeq = env.seq,
              !.events = Append(r.events, env),
              !.state = IF env.body = "accepted" THEN "running" ELSE r.state,
              !.delivered = r.delivered \cup {env}]

WithTerminal(r, env) ==
    [r EXCEPT !.state = env.body,
              !.terminal = {env},
              !.delivered = r.delivered \cup {env},
              !.lease = NoLease]

Known(r, d) == \E p \in r.delivered : p.delivery = d

EnvelopeOf(g, d, s, b) ==
    [delivery |-> d, exec |-> g.exec, lease |-> g.id, token |-> g.token,
     seq |-> s, body |-> b]

-----------------------------------------------------------------------------
(* Persistence *)

\* Mutant: memory is changed and the file is left for later.
CommitInMemory(t, r) ==
    mem' = [mem EXCEPT ![t] = r] /\ UNCHANGED <<disk, torn>>

(* The file is replaced, then the record in memory. *)
Commit(t, r) ==
    /\ disk' = [disk EXCEPT ![t] = r]
    /\ mem' = [mem EXCEPT ![t] = r]
    /\ UNCHANGED torn

(* The file is replaced but the write reports an error: memory is put back *)
(* and the request is answered with a server error.                        *)
CommitTorn(t, r) ==
    /\ torn < MaxTorn
    /\ torn' = torn + 1
    /\ disk' = [disk EXCEPT ![t] = r]
    /\ UNCHANGED mem

CommitNode(n, r) ==
    /\ nodeDisk' = [nodeDisk EXCEPT ![n] = r]
    /\ nodes' = [nodes EXCEPT ![n] = r]
    /\ UNCHANGED torn

CommitNodeTorn(n, r) ==
    /\ torn < MaxTorn
    /\ torn' = torn + 1
    /\ nodeDisk' = [nodeDisk EXCEPT ![n] = r]
    /\ UNCHANGED nodes

-----------------------------------------------------------------------------
(* Requests *)

Init ==
    /\ mem = [t \in Tasks |-> Absent]
    /\ disk = [t \in Tasks |-> Absent]
    /\ nodes = [n \in Nodes |-> [registered |-> FALSE, report |-> NoReport]]
    /\ nodeDisk = nodes
    /\ issued = 0
    /\ torn = 0
    /\ granted = {}
    /\ acked = {}

(* POST /api/control/v1/tasks.  A task id that exists answers from memory  *)
(* or with a conflict and changes nothing.                                 *)
CreateTask(t, e) ==
    /\ mem[t].state = "absent"
    /\ Unclaimed(e)
    /\ Commit(t, Queued(e)) \/ CommitTorn(t, Queued(e))
    /\ UNCHANGED <<nodes, nodeDisk, issued, granted, acked>>

(* A new registration keeps what the last heartbeat reported. *)
RegisterNode(n) ==
    LET r == [nodes[n] EXCEPT !.registered = TRUE]
    IN  /\ CommitNode(n, r) \/ CommitNodeTorn(n, r)
        /\ UNCHANGED <<mem, disk, issued, granted, acked>>

Heartbeat(n, report) ==
    LET r == [nodes[n] EXCEPT !.report = report]
    IN  /\ nodes[n].registered
        /\ CommitNode(n, r) \/ CommitNodeTorn(n, r)
        /\ UNCHANGED <<mem, disk, issued, granted, acked>>

(* One pass of the long poll that finds a task.  The lease id is drawn     *)
(* before the write; a torn lease is on disk and answered to nobody.       *)
TryLease(t, n) ==
    LET r == Leased(mem[t], n, issued + 1)
    IN  /\ nodes[n].registered
        /\ issued < MaxLeases
        /\ Selected(t, n)
        /\ issued' = issued + 1
        /\ \/ /\ Commit(t, r)
              /\ granted' = granted \cup
                    {[task |-> t, exec |-> r.exec, node |-> n, id |-> issued + 1,
                      token |-> r.token]}
           \/ CommitTorn(t, r) /\ UNCHANGED granted
        /\ UNCHANGED <<nodes, nodeDisk, acked>>

Renew(g, n) ==
    /\ ValidLease(mem[g.task], n, g)
    /\ \/ Commit(g.task, Renewed(mem[g.task]))
       \/ CommitTorn(g.task, Renewed(mem[g.task]))
    /\ UNCHANGED <<nodes, nodeDisk, issued, granted, acked>>

(* A delivery id the task already holds with the same content answers with *)
(* success whatever the lease or the state of the task; with different     *)
(* content it is a conflict that changes nothing.                          *)
Replay(t, env) ==
    /\ env \in mem[t].delivered
    /\ acked' = acked \cup {[task |-> t, env |-> env]}
    /\ UNCHANGED <<mem, disk, nodes, nodeDisk, issued, torn, granted>>

AcceptEvent(g, n, d, s, b) ==
    LET t == g.task
        env == EnvelopeOf(g, d, s, b)
    IN  /\ ~Known(mem[t], d)
        /\ ~Ended(mem[t])
        /\ ValidLease(mem[t], n, g)
        /\ InSequence(mem[t], s)
        /\ \/ /\ Commit(t, WithEvent(mem[t], env))
              /\ acked' = acked \cup {[task |-> t, env |-> env]}
           \/ CommitTorn(t, WithEvent(mem[t], env)) /\ UNCHANGED acked
        /\ UNCHANGED <<nodes, nodeDisk, issued, granted>>

AcceptTerminal(g, n, d, final) ==
    LET t == g.task
        env == EnvelopeOf(g, d, 0, final)
    IN  /\ ~Known(mem[t], d)
        /\ ~Ended(mem[t])
        /\ ValidLease(mem[t], n, g)
        /\ \/ /\ Commit(t, WithTerminal(mem[t], env))
              /\ acked' = acked \cup {[task |-> t, env |-> env]}
           \/ CommitTorn(t, WithTerminal(mem[t], env)) /\ UNCHANGED acked
        /\ UNCHANGED <<nodes, nodeDisk, issued, granted>>

-----------------------------------------------------------------------------
(* Time and restarts *)

Aged(r) == [r EXCEPT !.lease.left = IF @ > 0 THEN @ - 1 ELSE 0]

Tick ==
    /\ \E t \in Tasks : mem[t].lease.left > 0 \/ disk[t].lease.left > 0
    /\ mem' = [t \in Tasks |-> Aged(mem[t])]
    /\ disk' = [t \in Tasks |-> Aged(disk[t])]
    /\ UNCHANGED <<nodes, nodeDisk, issued, torn, granted, acked>>

Restart ==
    /\ mem' = disk
    /\ nodes' = nodeDisk
    /\ UNCHANGED <<disk, nodeDisk, issued, torn, granted, acked>>

Next ==
    \/ \E t \in Tasks, e \in Executions : CreateTask(t, e)
    \/ \E n \in Nodes : RegisterNode(n)
    \/ \E n \in Nodes, report \in Reports : Heartbeat(n, report)
    \/ \E t \in Tasks, n \in Nodes : TryLease(t, n)
    \/ \E g \in granted, n \in Nodes : Renew(g, n)
    \/ \E t \in Tasks : \E env \in mem[t].delivered : Replay(t, env)
    \/ \E g \in granted, n \in Nodes, d \in Deliveries, s \in EventSeqs, b \in EventBodies :
          AcceptEvent(g, n, d, s, b)
    \/ \E g \in granted, n \in Nodes, d \in Deliveries, final \in Finals :
          AcceptTerminal(g, n, d, final)
    \/ Tick
    \/ Restart

Spec == Init /\ [][Next]_vars

-----------------------------------------------------------------------------
(* Properties *)

TypeOK ==
    /\ mem \in [Tasks -> TaskRecord]
    /\ disk \in [Tasks -> TaskRecord]
    /\ nodes \in [Nodes -> NodeRecord]
    /\ nodeDisk \in [Nodes -> NodeRecord]
    /\ issued \in Nat
    /\ torn \in Nat
    /\ granted \subseteq Grant
    /\ acked \subseteq [task: Tasks, env: Envelope]

(* Fencing: a generation of a task is answered to one caller only, even    *)
(* when a lease write was torn, lost on a restart or taken over, and no    *)
(* two answers carry the same lease id.                                    *)
GenerationsUnique ==
    \A g, h \in granted :
        (g.id = h.id \/ (g.task = h.task /\ g.token = h.token)) => g = h

(* Sticky recovery: once a node was answered with a lease of a task, no    *)
(* other node ever is, through expiry, torn writes and restarts.           *)
OneNodePerTask ==
    \A g, h \in granted : g.task = h.task => g.node = h.node

(* What the server answered with success is in the file, so it survives a  *)
(* restart, and in memory, so no later complete rewrite can drop it.       *)
AckedIsDurable ==
    \A a \in acked : a.env \in mem[a.task].delivered /\ a.env \in disk[a.task].delivered

(* An acknowledged terminal outcome is the only one and stays the outcome  *)
(* of the task, in memory and on disk: nothing accepted, leased or         *)
(* recovered afterwards replaces it.                                       *)
AckedOutcomeIsFinal ==
    \A a \in acked : a.env.body \in TerminalStates =>
        \A r \in {mem[a.task], disk[a.task]} :
            r.terminal = {a.env} /\ r.state = a.env.body

(* What enters the record of a task comes from the newest generation the   *)
(* server answered with: a host whose lease was superseded adds nothing,   *)
(* not even through a file that a later restart reloads.                   *)
Entering(t) == mem'[t].delivered \ mem[t].delivered

OnlyNewestGenerationEnters ==
    [][\A t \in Tasks : \A env \in Entering(t) :
          \A g \in granted : g.task = t => g.token <= env.token]_vars

=============================================================================
