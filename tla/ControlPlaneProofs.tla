------------------------- MODULE ControlPlaneProofs -------------------------
(***************************************************************************)
(* Theorems about ControlPlane, for every set of tasks, nodes, executions  *)
(* and deliveries, every lease duration and any number of torn writes.     *)
(***************************************************************************)
EXTENDS ControlPlane, TLAPS

-----------------------------------------------------------------------------
(* Type correctness.  The record updates keep records well-typed; the two  *)
(* maps change only through Commit, CommitTorn, Aged and Restart.          *)

LEMMA NoLeaseType == NoLease \in Lease
  BY TTLAssumption DEF NoLease, Lease

LEMMA AbsentType == Absent \in TaskRecord
  BY NoLeaseType DEF Absent, TaskRecord, TaskStates, ExecutionIds

LEMMA QueuedType == \A e \in Executions : Queued(e) \in TaskRecord
  BY AbsentType DEF Queued, TaskRecord, TaskStates, ExecutionIds

(* A lease grant, a renewal and the passing of time keep a record typed. *)
LEMMA LeasedType ==
    ASSUME NEW r \in TaskRecord, NEW n \in Nodes, NEW id \in Nat
    PROVE  Leased(r, n, id) \in TaskRecord
<1> DEFINE l == [node |-> n, id |-> id, token |-> r.token + 1, left |-> LeaseTTL]
           s == IF r.sticky = NoNode THEN n ELSE r.sticky
<1>1. l \in Lease
  BY TTLAssumption DEF Lease, TaskRecord
<1>2. s \in Nodes \cup {NoNode} /\ r.token + 1 \in Nat
  BY DEF TaskRecord
<1>3. Leased(r, n, id) =
        [r EXCEPT !.token = r.token + 1, !.lease = l, !.sticky = s, !.state = "leased"]
  BY DEF Leased
<1> HIDE DEF l, s
<1>4. QED BY <1>1, <1>2, <1>3 DEF TaskRecord, TaskStates

LEMMA LeftType ==
    ASSUME NEW r \in TaskRecord, NEW left \in 0..LeaseTTL
    PROVE  [r EXCEPT !.lease.left = left] \in TaskRecord
<1>1. r.lease \in Lease
  BY DEF TaskRecord
<1>2. [r.lease EXCEPT !.left = left] \in Lease
  BY <1>1 DEF Lease
<1>3. [r EXCEPT !.lease.left = left] = [r EXCEPT !.lease = [r.lease EXCEPT !.left = left]]
  OBVIOUS
<1>4. QED BY <1>2, <1>3 DEF TaskRecord

LEMMA RenewedType ==
    ASSUME NEW r \in TaskRecord
    PROVE  Renewed(r) \in TaskRecord
<1>1. LeaseTTL \in 0..LeaseTTL
  BY TTLAssumption
<1>2. QED BY <1>1, LeftType DEF Renewed

LEMMA AgedType ==
    ASSUME NEW r \in TaskRecord
    PROVE  Aged(r) \in TaskRecord
<1> DEFINE left == IF r.lease.left > 0 THEN r.lease.left - 1 ELSE 0
<1>1. left \in 0..LeaseTTL
  BY TTLAssumption DEF TaskRecord, Lease
<1>2. Aged(r) = [r EXCEPT !.lease.left = left]
  BY DEF Aged
<1> HIDE DEF left
<1>3. QED BY <1>1, <1>2, LeftType

(* Accepting an event or a terminal outcome keeps a record typed. *)
LEMMA WithEventType ==
    ASSUME NEW r \in TaskRecord, NEW env \in Envelope, env.body \in EventBodies
    PROVE  WithEvent(r, env) \in TaskRecord
<1>1. env.seq \in Nat
  BY DEF Envelope
<1>2. Append(r.events, env) \in Seq(Envelope)
  BY DEF TaskRecord
<1>3. r.delivered \cup {env} \in SUBSET Envelope
  BY DEF TaskRecord
<1>4. QED BY <1>1, <1>2, <1>3 DEF WithEvent, TaskRecord, TaskStates

LEMMA WithTerminalType ==
    ASSUME NEW r \in TaskRecord, NEW env \in Envelope, env.body \in TerminalStates
    PROVE  WithTerminal(r, env) \in TaskRecord
<1>1. r.delivered \cup {env} \in SUBSET Envelope
  BY DEF TaskRecord
<1>2. env.body \in TaskStates
  BY DEF TaskStates
<1>3. QED BY <1>1, <1>2, NoLeaseType DEF WithTerminal, TaskRecord

(* The envelopes a request can carry are envelopes. *)
LEMMA EnvelopeType ==
    ASSUME NEW g \in Grant, NEW d \in Deliveries, NEW s \in Nat,
           NEW b \in EventBodies \cup TerminalStates
    PROVE  EnvelopeOf(g, d, s, b) \in Envelope /\ EnvelopeOf(g, d, s, b).body = b
  BY DEF EnvelopeOf, Envelope, Grant

(* Writing a typed record leaves both maps typed. *)
LEMMA CommitType ==
    ASSUME TypeOK, NEW t \in Tasks, NEW r \in TaskRecord,
           Commit(t, r) \/ CommitTorn(t, r)
    PROVE  /\ mem' \in [Tasks -> TaskRecord]
           /\ disk' \in [Tasks -> TaskRecord]
           /\ torn' \in Nat
  BY DEF TypeOK, Commit, CommitTorn

LEMMA CommitNodeType ==
    ASSUME TypeOK, NEW n \in Nodes, NEW r \in NodeRecord,
           CommitNode(n, r) \/ CommitNodeTorn(n, r)
    PROVE  /\ nodes' \in [Nodes -> NodeRecord]
           /\ nodeDisk' \in [Nodes -> NodeRecord]
           /\ torn' \in Nat
  BY DEF TypeOK, CommitNode, CommitNodeTorn

LEMMA TypeInit == Init => TypeOK
  BY AbsentType DEF Init, TypeOK, NodeRecord

LEMMA TypeNext == TypeOK /\ [Next]_vars => TypeOK'
<1> SUFFICES ASSUME TypeOK, [Next]_vars PROVE TypeOK'
  OBVIOUS
<1>1. ASSUME NEW t \in Tasks, NEW e \in Executions, CreateTask(t, e) PROVE TypeOK'
  BY <1>1, QueuedType, CommitType DEF CreateTask, TypeOK
<1>2. ASSUME NEW n \in Nodes, RegisterNode(n) PROVE TypeOK'
  <2>1. [nodes[n] EXCEPT !.registered = TRUE] \in NodeRecord
    BY DEF TypeOK, NodeRecord
  <2>2. QED BY <1>2, <2>1, CommitNodeType DEF RegisterNode, TypeOK
<1>3. ASSUME NEW n \in Nodes, NEW report \in Reports, Heartbeat(n, report) PROVE TypeOK'
  <2>1. [nodes[n] EXCEPT !.report = report] \in NodeRecord
    BY DEF TypeOK, NodeRecord
  <2>2. QED BY <1>3, <2>1, CommitNodeType DEF Heartbeat, TypeOK
<1>4. ASSUME NEW t \in Tasks, NEW n \in Nodes, TryLease(t, n) PROVE TypeOK'
  <2> DEFINE r == Leased(mem[t], n, issued + 1)
             g == [task |-> t, exec |-> r.exec, node |-> n, id |-> issued + 1,
                   token |-> r.token]
  <2>1. mem[t] \in TaskRecord /\ issued + 1 \in Nat
    BY DEF TypeOK
  <2>2. r \in TaskRecord
    BY <2>1, LeasedType
  <2>3. g \in Grant
    BY <2>1, <2>2 DEF Grant, TaskRecord
  <2>4. /\ Commit(t, r) \/ CommitTorn(t, r)
        /\ granted' \in {granted, granted \cup {g}}
        /\ issued' = issued + 1
        /\ UNCHANGED <<nodes, nodeDisk, acked>>
    BY <1>4 DEF TryLease
  <2> HIDE DEF r, g
  <2>5. QED BY <2>1, <2>2, <2>3, <2>4, CommitType DEF TypeOK
<1>5. ASSUME NEW g \in granted, NEW n \in Nodes, Renew(g, n) PROVE TypeOK'
  <2>1. g.task \in Tasks /\ mem[g.task] \in TaskRecord
    BY DEF TypeOK, Grant
  <2>2. QED BY <1>5, <2>1, RenewedType, CommitType DEF Renew, TypeOK
<1>6. ASSUME NEW t \in Tasks, NEW env \in mem[t].delivered, Replay(t, env) PROVE TypeOK'
  <2>1. env \in Envelope
    BY DEF TypeOK, TaskRecord
  <2>2. QED BY <1>6, <2>1 DEF Replay, TypeOK
<1>7. ASSUME NEW g \in granted, NEW n \in Nodes, NEW d \in Deliveries,
             NEW s \in EventSeqs, NEW b \in EventBodies, AcceptEvent(g, n, d, s, b)
      PROVE  TypeOK'
  <2> DEFINE t == g.task
             env == EnvelopeOf(g, d, s, b)
             r == WithEvent(mem[t], env)
  <2>1. t \in Tasks /\ mem[t] \in TaskRecord
    BY DEF TypeOK, Grant
  <2>2. env \in Envelope /\ env.body = b
    BY EnvelopeType, SeqsAssumption DEF TypeOK
  <2>3. r \in TaskRecord
    BY <2>1, <2>2, WithEventType
  <2>4. /\ Commit(t, r) \/ CommitTorn(t, r)
        /\ acked' \in {acked, acked \cup {[task |-> t, env |-> env]}}
        /\ UNCHANGED <<nodes, nodeDisk, issued, granted>>
    BY <1>7 DEF AcceptEvent
  <2> HIDE DEF t, env, r
  <2>5. QED BY <2>1, <2>2, <2>3, <2>4, CommitType DEF TypeOK
<1>8. ASSUME NEW g \in granted, NEW n \in Nodes, NEW d \in Deliveries,
             NEW final \in Finals, AcceptTerminal(g, n, d, final)
      PROVE  TypeOK'
  <2> DEFINE t == g.task
             env == EnvelopeOf(g, d, 0, final)
             r == WithTerminal(mem[t], env)
  <2>1. t \in Tasks /\ mem[t] \in TaskRecord
    BY DEF TypeOK, Grant
  <2>2. env \in Envelope /\ env.body = final /\ final \in TerminalStates
    BY EnvelopeType, FinalsAssumption DEF TypeOK
  <2>3. r \in TaskRecord
    BY <2>1, <2>2, WithTerminalType
  <2>4. /\ Commit(t, r) \/ CommitTorn(t, r)
        /\ acked' \in {acked, acked \cup {[task |-> t, env |-> env]}}
        /\ UNCHANGED <<nodes, nodeDisk, issued, granted>>
    BY <1>8 DEF AcceptTerminal
  <2> HIDE DEF t, env, r
  <2>5. QED BY <2>1, <2>2, <2>3, <2>4, CommitType DEF TypeOK
<1>9. CASE Tick
  <2>1. \A t \in Tasks : mem[t] \in TaskRecord /\ disk[t] \in TaskRecord
    BY DEF TypeOK
  <2>2. \A t \in Tasks : Aged(mem[t]) \in TaskRecord /\ Aged(disk[t]) \in TaskRecord
    BY <2>1, AgedType
  <2>3. QED BY <1>9, <2>2 DEF Tick, TypeOK
<1>10. CASE Restart
  BY <1>10 DEF Restart, TypeOK
<1>11. CASE UNCHANGED vars
  BY <1>11 DEF vars, TypeOK
<1>12. QED
  BY <1>1, <1>2, <1>3, <1>4, <1>5, <1>6, <1>7, <1>8, <1>9, <1>10, <1>11 DEF Next

(* Every reachable state is well-typed: each record the requests build is  *)
(* a record the files are declared to hold, and no remaining lease time    *)
(* leaves 0..LeaseTTL.                                                     *)
THEOREM TypeCorrect == Spec => []TypeOK
  BY TypeInit, TypeNext, PTL DEF Spec

-----------------------------------------------------------------------------
(* The inductive invariant.  Fencing cannot be proved from memory alone: a *)
(* torn write puts a lease on disk that nobody was answered with, and a    *)
(* restart makes it the record.  So the same facts are kept of the record  *)
(* in memory and of the record on disk: every lease the server answered    *)
(* with is of the record's node and not newer than the record's token.     *)

AbsentInv(r) == r.state = "absent" => r.delivered = {}

GrantInv(t, r) ==
    \A g \in granted : g.task = t =>
        /\ r.state # "absent"
        /\ r.sticky = g.node
        /\ g.token <= r.token

OutcomeInv(r) ==
    \A e \in r.delivered : e.body \in TerminalStates =>
        r.terminal = {e} /\ r.state = e.body

RecordInv(t, r) == AbsentInv(r) /\ GrantInv(t, r) /\ OutcomeInv(r)

IssuedInv == \A g \in granted : g.id <= issued

(* The file is never behind memory, and memory never behind an answer. *)
AckedInv == \A a \in acked : a.env \in mem[a.task].delivered

FileInv == \A t \in Tasks : mem[t].delivered \subseteq disk[t].delivered

(* Every grant of t is at most as new as the envelope e. *)
Newest(t, e) == \A g \in granted : g.task = t => g.token <= e.token

(* What a torn write left on disk only is of the newest generation. *)
AheadInv == \A t \in Tasks : \A e \in disk[t].delivered \ mem[t].delivered : Newest(t, e)

IInv ==
    /\ TypeOK
    /\ \A t \in Tasks : RecordInv(t, mem[t]) /\ RecordInv(t, disk[t])
    /\ IssuedInv
    /\ GenerationsUnique
    /\ OneNodePerTask
    /\ AckedInv
    /\ FileInv
    /\ AheadInv

(* What every task write has in common: the new record keeps the record    *)
(* invariant and the deliveries of the record in memory it was computed    *)
(* from, and a delivery it adds is of the newest generation.               *)
Extends(t, r) ==
    /\ RecordInv(t, r)
    /\ mem[t].delivered \subseteq r.delivered
    /\ \A e \in r.delivered \ mem[t].delivered : Newest(t, e)

LEMMA CommitInv ==
    ASSUME IInv, TypeOK', NEW t \in Tasks, NEW r \in TaskRecord, Extends(t, r),
           Commit(t, r) \/ CommitTorn(t, r),
           UNCHANGED granted,
           issued' \in {issued, issued + 1},
           \A a \in acked' : a \in acked \/ (a.task = t /\ a.env \in r.delivered /\ Commit(t, r))
    PROVE  IInv'
<1>1. \A u \in Tasks : mem'[u] \in {mem[u], r} /\ (u # t => mem'[u] = mem[u])
  BY DEF Commit, CommitTorn, IInv, TypeOK
<1>2. \A u \in Tasks : disk'[u] \in {disk[u], r} /\ (u # t => disk'[u] = disk[u])
  BY DEF Commit, CommitTorn, IInv, TypeOK
<1>3. disk'[t] = r /\ (Commit(t, r) => mem'[t] = r)
  BY DEF Commit, CommitTorn, IInv, TypeOK
<1>4. ASSUME NEW u \in Tasks PROVE RecordInv(u, mem[u])' /\ RecordInv(u, disk[u])'
  <2>1. RecordInv(u, mem'[u]) /\ RecordInv(u, disk'[u])
    BY <1>1, <1>2 DEF IInv, Extends
  <2>2. QED BY <2>1 DEF RecordInv, AbsentInv, GrantInv, OutcomeInv
<1>5. IssuedInv'
  BY DEF IInv, IssuedInv, TypeOK, Grant
<1>6. GenerationsUnique' /\ OneNodePerTask'
  BY DEF IInv, GenerationsUnique, OneNodePerTask
<1>7. AckedInv'
  BY <1>1, <1>3 DEF IInv, AckedInv, Extends, TypeOK
<1>8. FileInv'
  BY <1>1, <1>2, <1>3 DEF IInv, FileInv, Extends
<1>9. AheadInv'
  <2> SUFFICES ASSUME NEW u \in Tasks, NEW e \in disk'[u].delivered \ mem'[u].delivered
               PROVE  Newest(u, e)
    BY DEF AheadInv, Newest
  <2>1. CASE u = t
    BY <2>1, <1>1, <1>3 DEF Extends
  <2>2. CASE u # t
    BY <2>2, <1>1, <1>2 DEF IInv, AheadInv
  <2>3. QED BY <2>1, <2>2
<1>10. QED BY <1>4, <1>5, <1>6, <1>7, <1>8, <1>9 DEF IInv

(* A lease the server answers with: fresh id, a token above every earlier  *)
(* one, and the node the task already stuck to.                            *)
LEMMA LeaseAnswered ==
    ASSUME IInv, TypeOK', NEW t \in Tasks, NEW n \in Nodes, Selected(t, n),
           NEW r, r = Leased(mem[t], n, issued + 1),
           NEW g \in Grant,
           g = [task |-> t, exec |-> r.exec, node |-> n, id |-> issued + 1,
                token |-> r.token],
           Commit(t, r),
           granted' = granted \cup {g}, issued' = issued + 1, UNCHANGED acked
    PROVE  IInv'
<1>1. mem[t] \in TaskRecord /\ issued \in Nat /\ mem[t].token \in Nat
  BY DEF IInv, TypeOK, TaskRecord
<1>2. /\ r.token = mem[t].token + 1
      /\ r.sticky = IF mem[t].sticky = NoNode THEN n ELSE mem[t].sticky
      /\ r.state = "leased"
      /\ r.delivered = mem[t].delivered /\ r.terminal = mem[t].terminal
  BY <1>1 DEF Leased, TaskRecord
<1>3. /\ ~Ended(mem[t]) /\ mem[t].sticky \in {NoNode, n}
      /\ r.sticky = n
  BY <1>2 DEF Selected, Leasable
<1>4. \A u \in Tasks : mem'[u] = IF u = t THEN r ELSE mem[u]
  BY DEF Commit, IInv, TypeOK
<1>5. \A u \in Tasks : disk'[u] = IF u = t THEN r ELSE disk[u]
  BY DEF Commit, IInv, TypeOK
<1>6. \A h \in granted : h \in Grant /\ h.id <= issued
                        /\ (h.task = t => h.token <= mem[t].token /\ h.node = mem[t].sticky)
  BY DEF IInv, TypeOK, IssuedInv, RecordInv, GrantInv
<1>7. \A h \in granted : h.task = t => h.node = n
  BY <1>3, <1>6, NoneAssumption DEF Grant
<1>8. \A e \in r.delivered : e.body \notin TerminalStates
  BY <1>2, <1>3 DEF IInv, RecordInv, OutcomeInv, Ended
<1>9. RecordInv(t, r)'
  <2>1. r.state # "absent"
    BY <1>2
  <2>2. GrantInv(t, r)'
    BY <1>1, <1>2, <1>3, <1>6, <1>7, <2>1 DEF GrantInv, Grant
  <2>3. QED BY <1>8, <2>1, <2>2 DEF RecordInv, AbsentInv, OutcomeInv
<1>10. ASSUME NEW u \in Tasks PROVE RecordInv(u, mem[u])' /\ RecordInv(u, disk[u])'
  <2>1. CASE u = t
    BY <1>4, <1>5, <1>9, <2>1 DEF RecordInv, AbsentInv, GrantInv, OutcomeInv
  <2>2. CASE u # t
    BY <1>4, <1>5, <2>2 DEF IInv, RecordInv, AbsentInv, GrantInv, OutcomeInv
  <2>3. QED BY <2>1, <2>2
<1>11. IssuedInv'
  BY <1>1, <1>6 DEF IssuedInv, Grant
<1>12. GenerationsUnique'
  BY <1>1, <1>2, <1>6 DEF IInv, GenerationsUnique, Grant
<1>13. OneNodePerTask'
  BY <1>7 DEF IInv, OneNodePerTask
<1>14. AckedInv'
  BY <1>2, <1>4 DEF IInv, AckedInv, TypeOK
<1>15. FileInv'
  BY <1>2, <1>4, <1>5 DEF IInv, FileInv
<1>16. AheadInv'
  BY <1>4, <1>5 DEF IInv, AheadInv, Newest
<1>17. QED BY <1>10, <1>11, <1>12, <1>13, <1>14, <1>15, <1>16 DEF IInv

(* Every request and every restart preserves the inductive invariant. *)
LEMMA InvInit == Init => IInv
<1> SUFFICES ASSUME Init PROVE IInv
  OBVIOUS
<1>1. TypeOK
  BY TypeInit
<1>2. \A t \in Tasks : mem[t] = Absent /\ disk[t] = Absent
  BY DEF Init
<1>3. Absent.delivered = {}
  BY DEF Absent
<1>4. QED
  BY <1>1, <1>2, <1>3 DEF Init, IInv, RecordInv, AbsentInv, GrantInv, OutcomeInv,
     IssuedInv, GenerationsUnique, OneNodePerTask, AckedInv, FileInv, AheadInv

LEMMA InvNext == IInv /\ [Next]_vars => IInv'
<1> SUFFICES ASSUME IInv, [Next]_vars PROVE IInv'
  OBVIOUS
<1>t. TypeOK /\ TypeOK'
  BY TypeNext DEF IInv
<1>1. ASSUME NEW t \in Tasks, NEW e \in Executions, CreateTask(t, e) PROVE IInv'
  <2> DEFINE r == Queued(e)
  <2>1. r.delivered = {} /\ r.state = "queued" /\ r \in TaskRecord
    BY QueuedType DEF Queued, Absent
  <2>2. mem[t].state = "absent" /\ UNCHANGED <<issued, granted, acked>>
        /\ (Commit(t, r) \/ CommitTorn(t, r))
    BY <1>1 DEF CreateTask
  <2>3. Extends(t, r)
    BY <2>1, <2>2 DEF IInv, Extends, RecordInv, AbsentInv, GrantInv, OutcomeInv
  <2> HIDE DEF r
  <2>4. QED BY <1>t, <2>1, <2>2, <2>3, CommitInv
<1>2. ASSUME NEW n \in Nodes, RegisterNode(n) PROVE IInv'
  BY <1>2, <1>t DEF RegisterNode, IInv, RecordInv, AbsentInv, GrantInv, OutcomeInv,
     IssuedInv, GenerationsUnique, OneNodePerTask, AckedInv, FileInv, AheadInv, Newest
<1>3. ASSUME NEW n \in Nodes, NEW report \in Reports, Heartbeat(n, report) PROVE IInv'
  BY <1>3, <1>t DEF Heartbeat, IInv, RecordInv, AbsentInv, GrantInv, OutcomeInv,
     IssuedInv, GenerationsUnique, OneNodePerTask, AckedInv, FileInv, AheadInv, Newest
<1>4. ASSUME NEW t \in Tasks, NEW n \in Nodes, TryLease(t, n) PROVE IInv'
  <2> DEFINE r == Leased(mem[t], n, issued + 1)
             g == [task |-> t, exec |-> r.exec, node |-> n, id |-> issued + 1,
                   token |-> r.token]
  <2>1. mem[t] \in TaskRecord /\ issued + 1 \in Nat
    BY <1>t DEF TypeOK
  <2>2. r \in TaskRecord
    BY <2>1, LeasedType
  <2>3. g \in Grant
    BY <2>1, <2>2 DEF Grant, TaskRecord
  <2>4. Selected(t, n) /\ issued' = issued + 1 /\ UNCHANGED acked
    BY <1>4 DEF TryLease
  <2>5. CASE Commit(t, r) /\ granted' = granted \cup {g}
    BY <1>t, <2>3, <2>4, <2>5, LeaseAnswered
  <2>6. CASE CommitTorn(t, r) /\ UNCHANGED granted
    <3>1. /\ r.token = mem[t].token + 1
          /\ r.sticky = IF mem[t].sticky = NoNode THEN n ELSE mem[t].sticky
          /\ r.state = "leased"
          /\ r.delivered = mem[t].delivered
      BY <2>1 DEF Leased, TaskRecord
    <3>2. ~Ended(mem[t])
      BY <2>4 DEF Selected, Leasable
    <3>3. mem[t].token \in Nat /\ \A h \in granted : h.token \in Nat /\ h.node # NoNode
      <4>1. mem[t].token \in Nat
        BY <2>1 DEF TaskRecord
      <4>2. \A h \in granted : h.token \in Nat /\ h.node \in Nodes
        BY <1>t DEF TypeOK, Grant
      <4>3. QED BY <4>1, <4>2, NoneAssumption
    <3>4. Extends(t, r)
      BY <3>1, <3>2, <3>3
      DEF IInv, Extends, RecordInv, AbsentInv, GrantInv, OutcomeInv, Ended
    <3> HIDE DEF r
    <3>5. QED BY <1>t, <2>2, <2>4, <2>6, <3>4, CommitInv
  <2>7. QED BY <1>4, <2>5, <2>6 DEF TryLease
<1>5. ASSUME NEW g \in granted, NEW n \in Nodes, Renew(g, n) PROVE IInv'
  <2> DEFINE t == g.task
             r == Renewed(mem[t])
  <2>1. t \in Tasks /\ mem[t] \in TaskRecord
    BY <1>t DEF TypeOK, Grant
  <2>2. r \in TaskRecord
    BY <2>1, RenewedType
  <2>3. /\ r.state = mem[t].state /\ r.sticky = mem[t].sticky /\ r.token = mem[t].token
        /\ r.delivered = mem[t].delivered /\ r.terminal = mem[t].terminal
    BY <2>1 DEF Renewed, TaskRecord
  <2>4. Extends(t, r)
    BY <2>1, <2>3 DEF IInv, Extends, RecordInv, AbsentInv, GrantInv, OutcomeInv
  <2>5. UNCHANGED <<issued, granted, acked>> /\ (Commit(t, r) \/ CommitTorn(t, r))
    BY <1>5 DEF Renew
  <2> HIDE DEF t, r
  <2>6. QED BY <1>t, <2>1, <2>2, <2>4, <2>5, CommitInv
<1>6. ASSUME NEW t \in Tasks, NEW env \in mem[t].delivered, Replay(t, env) PROVE IInv'
  <2>1. AckedInv'
    BY <1>6 DEF Replay, IInv, AckedInv
  <2>2. QED
    BY <1>6, <1>t, <2>1 DEF Replay, IInv, RecordInv, AbsentInv, GrantInv, OutcomeInv,
       IssuedInv, GenerationsUnique, OneNodePerTask, FileInv, AheadInv, Newest
<1>7. ASSUME NEW g \in granted, NEW n \in Nodes, NEW d \in Deliveries,
             NEW s \in EventSeqs, NEW b \in EventBodies, AcceptEvent(g, n, d, s, b)
      PROVE  IInv'
  <2> DEFINE t == g.task
             env == EnvelopeOf(g, d, s, b)
             r == WithEvent(mem[t], env)
  <2>1. t \in Tasks /\ mem[t] \in TaskRecord
    BY <1>t DEF TypeOK, Grant
  <2>2. env \in Envelope /\ env.body = b /\ env.token = g.token
    BY <1>t, EnvelopeType, SeqsAssumption DEF TypeOK, EnvelopeOf
  <2>3. r \in TaskRecord
    BY <2>1, <2>2, WithEventType
  <2>4. /\ r.state \in {"running", mem[t].state}
        /\ r.sticky = mem[t].sticky /\ r.token = mem[t].token
        /\ r.delivered = mem[t].delivered \cup {env}
    BY <2>1 DEF WithEvent, TaskRecord
  <2>5. ~Ended(mem[t]) /\ mem[t].token = g.token
    BY <1>7 DEF AcceptEvent, ValidLease
  <2>6. b \notin TerminalStates
    BY DEF EventBodies, TerminalStates
  <2>7. \A e \in r.delivered : e.body \notin TerminalStates
    BY <2>1, <2>2, <2>4, <2>5, <2>6 DEF IInv, RecordInv, OutcomeInv, Ended
  <2>8. mem[t].state # "absent" /\ Newest(t, env)
    BY <2>1, <2>2, <2>5 DEF IInv, RecordInv, GrantInv, Newest
  <2>9. Extends(t, r)
    BY <2>1, <2>4, <2>7, <2>8 DEF IInv, Extends, RecordInv, AbsentInv, GrantInv, OutcomeInv
  <2>10. /\ \/ Commit(t, r) /\ acked' = acked \cup {[task |-> t, env |-> env]}
            \/ CommitTorn(t, r) /\ UNCHANGED acked
         /\ UNCHANGED <<issued, granted>>
    BY <1>7 DEF AcceptEvent
  <2>11. env \in r.delivered
    BY <2>4
  <2> HIDE DEF t, env, r
  <2>12. QED BY <1>t, <2>1, <2>3, <2>9, <2>10, <2>11, CommitInv
<1>8. ASSUME NEW g \in granted, NEW n \in Nodes, NEW d \in Deliveries,
             NEW final \in Finals, AcceptTerminal(g, n, d, final)
      PROVE  IInv'
  <2> DEFINE t == g.task
             env == EnvelopeOf(g, d, 0, final)
             r == WithTerminal(mem[t], env)
  <2>1. t \in Tasks /\ mem[t] \in TaskRecord
    BY <1>t DEF TypeOK, Grant
  <2>2. /\ env \in Envelope /\ env.body = final /\ env.token = g.token
        /\ final \in TerminalStates
    BY <1>t, EnvelopeType, FinalsAssumption DEF TypeOK, EnvelopeOf
  <2>3. r \in TaskRecord
    BY <2>1, <2>2, WithTerminalType
  <2>4. /\ r.state = final /\ r.terminal = {env}
        /\ r.sticky = mem[t].sticky /\ r.token = mem[t].token
        /\ r.delivered = mem[t].delivered \cup {env}
    BY <2>1, <2>2 DEF WithTerminal, TaskRecord
  <2>5. ~Ended(mem[t]) /\ mem[t].token = g.token
    BY <1>8 DEF AcceptTerminal, ValidLease
  <2>6. final # "absent"
    BY <2>2 DEF TerminalStates
  <2>7. \A e \in r.delivered : e.body \in TerminalStates => e = env
    BY <2>1, <2>4, <2>5 DEF IInv, RecordInv, OutcomeInv, Ended
  <2>8. Newest(t, env)
    BY <2>1, <2>2, <2>5 DEF IInv, RecordInv, GrantInv, Newest
  <2>9. Extends(t, r)
    BY <2>1, <2>2, <2>4, <2>6, <2>7, <2>8
    DEF IInv, Extends, RecordInv, AbsentInv, GrantInv, OutcomeInv
  <2>10. /\ \/ Commit(t, r) /\ acked' = acked \cup {[task |-> t, env |-> env]}
            \/ CommitTorn(t, r) /\ UNCHANGED acked
         /\ UNCHANGED <<issued, granted>>
    BY <1>8 DEF AcceptTerminal
  <2>11. env \in r.delivered
    BY <2>4
  <2> HIDE DEF t, env, r
  <2>12. QED BY <1>t, <2>1, <2>3, <2>9, <2>10, <2>11, CommitInv
<1>9. CASE Tick
  <2>1. \A t \in Tasks : mem[t] \in TaskRecord /\ disk[t] \in TaskRecord
    BY <1>t DEF TypeOK
  <2>2. \A r \in TaskRecord :
           /\ Aged(r).state = r.state /\ Aged(r).sticky = r.sticky /\ Aged(r).token = r.token
           /\ Aged(r).delivered = r.delivered /\ Aged(r).terminal = r.terminal
    BY DEF Aged, TaskRecord
  <2>3. \A t \in Tasks : mem'[t] = Aged(mem[t]) /\ disk'[t] = Aged(disk[t])
    BY <1>9 DEF Tick
  <2>4. UNCHANGED <<issued, granted, acked>>
    BY <1>9 DEF Tick
  <2>5. ASSUME NEW t \in Tasks PROVE RecordInv(t, mem[t])' /\ RecordInv(t, disk[t])'
    BY <2>1, <2>2, <2>3, <2>4 DEF IInv, RecordInv, AbsentInv, GrantInv, OutcomeInv
  <2>6. \A t \in Tasks : mem'[t].delivered = mem[t].delivered
                       /\ disk'[t].delivered = disk[t].delivered
    BY <2>1, <2>2, <2>3
  <2>7. AckedInv' /\ FileInv' /\ AheadInv'
    BY <1>t, <2>4, <2>6 DEF IInv, AckedInv, FileInv, AheadInv, Newest, TypeOK
  <2>8. QED
    BY <1>t, <2>4, <2>5, <2>7 DEF IInv, IssuedInv, GenerationsUnique, OneNodePerTask
<1>10. CASE Restart
  <2>1. mem' = disk /\ UNCHANGED <<disk, issued, granted, acked>>
    BY <1>10 DEF Restart
  <2>2. AckedInv' /\ FileInv' /\ AheadInv'
    BY <1>t, <2>1 DEF IInv, AckedInv, FileInv, AheadInv, TypeOK
  <2>3. QED
    BY <1>t, <2>1, <2>2 DEF IInv, RecordInv, AbsentInv, GrantInv, OutcomeInv,
       IssuedInv, GenerationsUnique, OneNodePerTask
<1>11. CASE UNCHANGED vars
  BY <1>11, <1>t DEF vars, IInv, RecordInv, AbsentInv, GrantInv, OutcomeInv,
     IssuedInv, GenerationsUnique, OneNodePerTask, AckedInv, FileInv, AheadInv, Newest
<1>12. QED
  BY <1>1, <1>2, <1>3, <1>4, <1>5, <1>6, <1>7, <1>8, <1>9, <1>10, <1>11 DEF Next

LEMMA Inductive == Spec => []IInv
  BY InvInit, InvNext, PTL DEF Spec

(* Fencing: no two leases the server answers with share a lease id, or a   *)
(* task and a fencing token, however many writes are torn and whenever the *)
(* server restarts.                                                        *)
THEOREM Fencing == Spec => []GenerationsUnique
<1>1. IInv => GenerationsUnique
  BY DEF IInv
<1>2. QED BY <1>1, Inductive, PTL

(* Sticky recovery: all leases of a task are answered to one node. *)
THEOREM Sticky == Spec => []OneNodePerTask
<1>1. IInv => OneNodePerTask
  BY DEF IInv
<1>2. QED BY <1>1, Inductive, PTL

(* Durable acceptance: what was answered with success is on disk and in    *)
(* memory for ever after.                                                  *)
THEOREM Durable == Spec => []AckedIsDurable
<1>1. IInv => AckedIsDurable
  BY DEF IInv, AckedIsDurable, AckedInv, FileInv, TypeOK
<1>2. QED BY <1>1, Inductive, PTL

(* An acknowledged terminal outcome is the outcome of the task for ever,   *)
(* in memory and in the file that the next start reads.                    *)
THEOREM OutcomeFinal == Spec => []AckedOutcomeIsFinal
<1>1. IInv => AckedOutcomeIsFinal
  BY DEF IInv, AckedOutcomeIsFinal, AckedInv, FileInv, TypeOK, RecordInv, OutcomeInv
<1>2. QED BY <1>1, Inductive, PTL

-----------------------------------------------------------------------------
(* The action property: what enters a record is of the newest generation.  *)

(* A write of a record that adds only newest deliveries. *)
LEMMA EnteringByCommit ==
    ASSUME IInv, NEW t \in Tasks, NEW r \in TaskRecord,
           \A e \in r.delivered \ mem[t].delivered : Newest(t, e),
           Commit(t, r) \/ CommitTorn(t, r)
    PROVE  \A u \in Tasks : \A e \in Entering(u) : Newest(u, e)
<1>1. \A u \in Tasks : mem'[u] = mem[u] \/ (u = t /\ mem'[u] = r)
  BY DEF Commit, CommitTorn, IInv, TypeOK
<1>2. QED BY <1>1 DEF Entering

LEMMA EnteringNext ==
    ASSUME IInv, [Next]_vars
    PROVE  \A u \in Tasks : \A e \in Entering(u) : Newest(u, e)
<1>t. TypeOK
  BY DEF IInv
<1>1. ASSUME NEW t \in Tasks, NEW e \in Executions, CreateTask(t, e)
      PROVE  \A u \in Tasks : \A x \in Entering(u) : Newest(u, x)
  <2>1. Queued(e) \in TaskRecord /\ Queued(e).delivered = {}
    BY QueuedType DEF Queued, Absent
  <2>2. QED BY <1>1, <2>1, EnteringByCommit DEF CreateTask
<1>2. ASSUME NEW t \in Tasks, NEW n \in Nodes, TryLease(t, n)
      PROVE  \A u \in Tasks : \A x \in Entering(u) : Newest(u, x)
  <2> DEFINE r == Leased(mem[t], n, issued + 1)
  <2>1. mem[t] \in TaskRecord /\ issued + 1 \in Nat
    BY <1>t DEF TypeOK
  <2>2. r \in TaskRecord /\ r.delivered = mem[t].delivered
    BY <2>1, LeasedType DEF Leased, TaskRecord
  <2>3. Commit(t, r) \/ CommitTorn(t, r)
    BY <1>2 DEF TryLease
  <2> HIDE DEF r
  <2>4. QED BY <2>2, <2>3, EnteringByCommit
<1>3. ASSUME NEW g \in granted, NEW n \in Nodes, Renew(g, n)
      PROVE  \A u \in Tasks : \A x \in Entering(u) : Newest(u, x)
  <2> DEFINE r == Renewed(mem[g.task])
  <2>1. g.task \in Tasks /\ mem[g.task] \in TaskRecord
    BY <1>t DEF TypeOK, Grant
  <2>2. r \in TaskRecord /\ r.delivered = mem[g.task].delivered
    BY <2>1, RenewedType DEF Renewed, TaskRecord
  <2>3. Commit(g.task, r) \/ CommitTorn(g.task, r)
    BY <1>3 DEF Renew
  <2> HIDE DEF r
  <2>4. QED BY <2>1, <2>2, <2>3, EnteringByCommit
<1>4. ASSUME NEW g \in granted, NEW n \in Nodes, NEW d \in Deliveries,
             NEW s \in EventSeqs, NEW b \in EventBodies, AcceptEvent(g, n, d, s, b)
      PROVE  \A u \in Tasks : \A x \in Entering(u) : Newest(u, x)
  <2> DEFINE env == EnvelopeOf(g, d, s, b)
             r == WithEvent(mem[g.task], env)
  <2>1. g.task \in Tasks /\ mem[g.task] \in TaskRecord
    BY <1>t DEF TypeOK, Grant
  <2>2. env \in Envelope /\ env.body = b /\ env.token = g.token
    BY <1>t, EnvelopeType, SeqsAssumption DEF TypeOK, EnvelopeOf
  <2>3. r \in TaskRecord
    BY <2>1, <2>2, WithEventType
  <2>4. r.delivered = mem[g.task].delivered \cup {env}
    BY <2>1 DEF WithEvent, TaskRecord
  <2>5. /\ Commit(g.task, r) \/ CommitTorn(g.task, r)
        /\ mem[g.task].token = env.token
    BY <1>4, <2>2 DEF AcceptEvent, ValidLease
  <2>6. Newest(g.task, env)
    BY <2>1, <2>5 DEF IInv, RecordInv, GrantInv, Newest
  <2> HIDE DEF r, env
  <2>7. QED BY <2>1, <2>3, <2>4, <2>5, <2>6, EnteringByCommit
<1>5. ASSUME NEW g \in granted, NEW n \in Nodes, NEW d \in Deliveries,
             NEW final \in Finals, AcceptTerminal(g, n, d, final)
      PROVE  \A u \in Tasks : \A x \in Entering(u) : Newest(u, x)
  <2> DEFINE env == EnvelopeOf(g, d, 0, final)
             r == WithTerminal(mem[g.task], env)
  <2>1. g.task \in Tasks /\ mem[g.task] \in TaskRecord
    BY <1>t DEF TypeOK, Grant
  <2>2. env \in Envelope /\ env.body \in TerminalStates /\ env.token = g.token
    BY <1>t, EnvelopeType, FinalsAssumption DEF TypeOK, EnvelopeOf
  <2>3. r \in TaskRecord
    BY <2>1, <2>2, WithTerminalType
  <2>4. r.delivered = mem[g.task].delivered \cup {env}
    BY <2>1 DEF WithTerminal, TaskRecord
  <2>5. /\ Commit(g.task, r) \/ CommitTorn(g.task, r)
        /\ mem[g.task].token = env.token
    BY <1>5, <2>2 DEF AcceptTerminal, ValidLease
  <2>6. Newest(g.task, env)
    BY <2>1, <2>5 DEF IInv, RecordInv, GrantInv, Newest
  <2> HIDE DEF r, env
  <2>7. QED BY <2>1, <2>3, <2>4, <2>5, <2>6, EnteringByCommit
<1>6. CASE Tick
  <2>1. \A r \in TaskRecord : Aged(r).delivered = r.delivered
    BY DEF Aged, TaskRecord
  <2>2. \A t \in Tasks : mem'[t].delivered = mem[t].delivered
    BY <1>t, <1>6, <2>1 DEF Tick, TypeOK
  <2>3. QED BY <2>2 DEF Entering
<1>7. CASE Restart
  BY <1>7 DEF Restart, Entering, IInv, AheadInv
<1>8. CASE UNCHANGED mem
  BY <1>8 DEF Entering
<1>9. QED
  BY <1>1, <1>2, <1>3, <1>4, <1>5, <1>6, <1>7, <1>8
  DEF Next, vars, RegisterNode, Heartbeat, Replay

(* Fencing at the door: a delivery enters the record of a task only if no  *)
(* lease of a newer generation was ever answered, on every path: a request,*)
(* a replay, or a file a restart reloads.                                  *)
THEOREM NewestEnters == Spec => OnlyNewestGenerationEnters
<1>1. IInv /\ [Next]_vars =>
        [\A t \in Tasks : \A env \in Entering(t) :
            \A g \in granted : g.task = t => g.token <= env.token]_vars
  BY EnteringNext DEF Newest
<1>2. QED BY <1>1, Inductive, PTL DEF Spec, OnlyNewestGenerationEnters
=============================================================================
