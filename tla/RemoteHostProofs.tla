-------------------------- MODULE RemoteHostProofs --------------------------
(***************************************************************************)
(* Theorems about RemoteHost, for every set of tasks and executions, every *)
(* lease duration, and any number of crashes, lost requests, expired       *)
(* leases, failed writes, torn writes of the server and clock corrections. *)
(*                                                                         *)
(* What the host relies on of the server is not proved again: every step   *)
(* of the host and its environment is a step of ControlPlane or leaves it  *)
(* alone (ServerSteps), so the inductive invariant of ControlPlaneProofs   *)
(* holds here.                                                             *)
(***************************************************************************)
EXTENDS RemoteHost, FiniteSetTheorems, TLAPS

CPP == INSTANCE ControlPlaneProofs

-----------------------------------------------------------------------------
(* The outbox as a set of items. *)

Item == [task: Tasks, env: CP!Envelope]

LEMMA AppendSet ==
    ASSUME NEW S, NEW s \in Seq(S), NEW x \in S
    PROVE  Append(s, x) \in Seq(S) /\ ToSet(Append(s, x)) = ToSet(s) \cup {x}
<1> DEFINE r == Append(s, x)
<1>1. r \in Seq(S) /\ Len(r) = Len(s) + 1 /\ r[Len(s) + 1] = x
  OBVIOUS
<1>2. \A j \in 1..Len(s) : r[j] = s[j]
  OBVIOUS
<1> HIDE DEF r
<1>3. ToSet(r) = {r[j] : j \in 1..Len(r)} /\ ToSet(s) = {s[j] : j \in 1..Len(s)}
  BY <1>1 DEF ToSet
<1>4. \A j \in 1..Len(r) : j \in 1..Len(s) \/ j = Len(s) + 1
  BY <1>1
<1>5. ToSet(r) \subseteq ToSet(s) \cup {x}
  BY <1>1, <1>2, <1>3, <1>4
<1>6. ToSet(s) \cup {x} \subseteq ToSet(r)
  BY <1>1, <1>2, <1>3
<1>7. QED BY <1>1, <1>5, <1>6 DEF r

LEMMA InsertSet ==
    ASSUME NEW S, NEW s \in Seq(S), NEW x \in S, NEW i \in 1..Len(s)
    PROVE  InsertAt(s, i, x) \in Seq(S) /\ ToSet(InsertAt(s, i, x)) = ToSet(s) \cup {x}
<1> DEFINE a == SubSeq(s, 1, i - 1)
           b == SubSeq(s, i, Len(s))
           r == InsertAt(s, i, x)
<1>1. a \in Seq(S) /\ Len(a) = i - 1 /\ \A j \in 1..(i - 1) : a[j] = s[j]
  OBVIOUS
<1>2. b \in Seq(S) /\ Len(b) = Len(s) - i + 1 /\ \A j \in 1..(Len(s) - i + 1) : b[j] = s[i + j - 1]
  OBVIOUS
<1> DEFINE c == a \o <<x>>
<1>3. r = c \o b
  BY DEF InsertAt
<1> HIDE DEF a, b, r
<1>c. <<x>> \in Seq(S) /\ Len(<<x>>) = 1 /\ <<x>>[1] = x
  OBVIOUS
<1>d. c \in Seq(S) /\ Len(c) = i /\ \A j \in 1..i : c[j] = IF j < i THEN s[j] ELSE x
  BY <1>1, <1>c
<1> HIDE DEF c
<1>4. r \in Seq(S) /\ Len(r) = Len(s) + 1
  BY <1>2, <1>3, <1>d
<1>5. \A j \in 1..Len(r) : r[j] = IF j < i THEN s[j] ELSE IF j = i THEN x ELSE s[j - 1]
  <2> SUFFICES ASSUME NEW j \in 1..Len(r)
               PROVE  r[j] = IF j < i THEN s[j] ELSE IF j = i THEN x ELSE s[j - 1]
    OBVIOUS
  <2>1. r[j] = IF j <= Len(c) THEN c[j] ELSE b[j - Len(c)]
    BY <1>2, <1>3, <1>4, <1>d
  <2>2. CASE j <= i
    BY <2>1, <2>2, <1>d
  <2>3. CASE j > i
    <3>1. j - i \in 1..(Len(s) - i + 1)
      BY <2>3, <1>4
    <3>2. b[j - i] = s[i + (j - i) - 1]
      BY <3>1, <1>2
    <3>3. QED BY <2>1, <2>3, <3>2, <1>d
  <2>4. QED BY <2>2, <2>3
<1>6. ToSet(r) \subseteq ToSet(s) \cup {x}
  BY <1>4, <1>5 DEF ToSet
<1>7. x \in ToSet(r)
  BY <1>4, <1>5 DEF ToSet
<1>8. ASSUME NEW j \in 1..Len(s) PROVE s[j] \in ToSet(r)
  <2>1. CASE j < i
    <3>1. r[j] = s[j] /\ j \in 1..Len(r)
      BY <2>1, <1>4, <1>5
    <3>2. QED BY <3>1, <1>4 DEF ToSet
  <2>2. CASE j >= i
    <3>1. r[j + 1] = s[j] /\ j + 1 \in 1..Len(r)
      BY <2>2, <1>4, <1>5
    <3>2. QED BY <3>1, <1>4 DEF ToSet
  <2>3. QED BY <2>1, <2>2
<1>9. ToSet(s) \subseteq ToSet(r)
  <2>1. \A y \in ToSet(s) : \E j \in 1..Len(s) : y = s[j]
    BY DEF ToSet
  <2>2. QED BY <2>1, <1>8
<1>10. QED BY <1>4, <1>6, <1>7, <1>9 DEF r

(* Without its i-th element, s is what stood before it and after it.       *)
LEMMA RemoveElements ==
    ASSUME NEW S, NEW s \in Seq(S), NEW i \in 1..Len(s)
    PROVE  /\ RemoveAt(s, i) \in Seq(S) /\ Len(RemoveAt(s, i)) = Len(s) - 1
           /\ \A j \in 1..Len(RemoveAt(s, i)) :
                 RemoveAt(s, i)[j] = IF j < i THEN s[j] ELSE s[j + 1]
<1> DEFINE a == SubSeq(s, 1, i - 1)
           b == SubSeq(s, i + 1, Len(s))
           r == RemoveAt(s, i)
<1>1. a \in Seq(S) /\ Len(a) = i - 1 /\ \A j \in 1..(i - 1) : a[j] = s[j]
  OBVIOUS
<1>2. b \in Seq(S) /\ Len(b) = Len(s) - i /\ \A j \in 1..(Len(s) - i) : b[j] = s[i + j]
  OBVIOUS
<1>3. r = a \o b
  BY DEF RemoveAt
<1> HIDE DEF a, b, r
<1>4. r \in Seq(S) /\ Len(r) = Len(s) - 1
  BY <1>1, <1>2, <1>3
<1>5. \A j \in 1..Len(r) : r[j] = IF j < i THEN s[j] ELSE s[j + 1]
  <2> SUFFICES ASSUME NEW j \in 1..Len(r) PROVE r[j] = IF j < i THEN s[j] ELSE s[j + 1]
    OBVIOUS
  <2>1. r[j] = IF j <= Len(a) THEN a[j] ELSE b[j - Len(a)]
    BY <1>1, <1>2, <1>3, <1>4
  <2>2. CASE j < i
    BY <2>1, <2>2, <1>1
  <2>3. CASE j >= i
    <3>1. j - (i - 1) \in 1..(Len(s) - i)
      BY <2>3, <1>4
    <3>2. b[j - (i - 1)] = s[i + (j - (i - 1))]
      BY <3>1, <1>2
    <3>3. QED BY <2>1, <2>3, <3>2, <1>1
  <2>4. QED BY <2>2, <2>3
<1>6. QED BY <1>4, <1>5 DEF r

LEMMA RemoveSet ==
    ASSUME NEW S, NEW s \in Seq(S), NEW i \in 1..Len(s)
    PROVE  /\ RemoveAt(s, i) \in Seq(S)
           /\ ToSet(RemoveAt(s, i)) \subseteq ToSet(s)
           /\ ToSet(s) \subseteq ToSet(RemoveAt(s, i)) \cup {s[i]}
<1> DEFINE r == RemoveAt(s, i)
<1> HIDE DEF r
<1>4. r \in Seq(S) /\ Len(r) = Len(s) - 1
  BY RemoveElements DEF r
<1>5. \A j \in 1..Len(r) : r[j] = IF j < i THEN s[j] ELSE s[j + 1]
  BY RemoveElements DEF r
<1>6. ToSet(r) \subseteq ToSet(s)
  BY <1>4, <1>5 DEF ToSet
<1>7. ASSUME NEW j \in 1..Len(s), j # i PROVE s[j] \in ToSet(r)
  <2>1. CASE j < i
    BY <2>1, <1>4, <1>5 DEF ToSet
  <2>2. CASE j > i
    <3>1. r[j - 1] = s[j] /\ j - 1 \in 1..Len(r)
      BY <2>2, <1>4, <1>5
    <3>2. QED BY <3>1, <1>4 DEF ToSet
  <2>3. QED BY <1>7, <2>1, <2>2
<1>8. ToSet(s) \subseteq ToSet(r) \cup {s[i]}
  <2>1. \A y \in ToSet(s) : \E j \in 1..Len(s) : y = s[j]
    BY DEF ToSet
  <2>2. QED BY <2>1, <1>7
<1>9. QED BY <1>4, <1>6, <1>8 DEF r

(* The highest sequence number the outbox knows is a number. *)
LEMMA MaxIsNumber ==
    ASSUME NEW S \in SUBSET Nat, IsFiniteSet(S), S # {}
    PROVE  Max(S) \in Nat /\ \A n \in S : n <= Max(S)
<1> DEFINE Above(n) == {m \in S : m > n}
           Aboves == {Above(n) : n \in S}
           R == StrictSubsetOrdering(S)
<1>1. Aboves \subseteq FiniteSubsetsOf(S)
  <2>1. FiniteSubsetsOf(S) = SUBSET S
    BY FS_FiniteSubsetsOfFinite
  <2>2. QED BY <2>1
<1>2. Aboves # {}
  OBVIOUS
<1>3. PICK least \in Aboves : \A y \in Aboves : <<y, least>> \notin R
  <2>1. IsWellFoundedOn(R, FiniteSubsetsOf(S))
    BY FS_StrictSubsetOrderingWellFounded
  <2> HIDE DEF R, Aboves
  <2>2. QED BY <2>1, <1>1, <1>2, WFMin
<1>4. PICK n \in S : least = Above(n)
  OBVIOUS
<1>5. Above(n) = {}
  <2> SUFFICES ASSUME NEW m \in Above(n) PROVE FALSE
    OBVIOUS
  <2>1. m \in S /\ m > n /\ n \in Nat /\ m \in Nat
    OBVIOUS
  <2>2. \A k \in S : k > m => k > n
    BY <2>1
  <2>a. Above(m) \subseteq Above(n)
    BY <2>2
  <2>b. m \notin Above(m)
    BY <2>1
  <2>3. Above(m) \subseteq Above(n) /\ m \notin Above(m) /\ Above(m) \in Aboves
    BY <2>a, <2>b, <2>1
  <2>4. <<Above(m), Above(n)>> \in R
    BY <2>3 DEF StrictSubsetOrdering
  <2>5. QED BY <1>3, <1>4, <2>3, <2>4
<1>6. \A m \in S : n >= m
  BY <1>5
<1>7. Max(S) \in S /\ \A m \in S : Max(S) >= m
  BY <1>6 DEF Max
<1>8. QED BY <1>7

-----------------------------------------------------------------------------
(* The server.  Its theorems are about any network of nodes; here they are *)
(* used for the one host, whose envelopes carry leases it was answered.    *)

Waiting == Outbox!PendingItems \cup late

(* What may reach the server now: the head of the outbox, and what was     *)
(* given up as lost.                                                       *)
Sending == {item \in Waiting : item = Head(pending) \/ item \in late}

Items == Waiting \cup quarantined

(* An item the outbox builds: the lease of an attempt, a delivery id that  *)
(* was drawn, a sequence number for an event and none for an outcome.      *)
Built(item) ==
    /\ item \in Item
    /\ GrantOf(item) \in granted
    /\ item.env.delivery \in 1..drawn
    /\ IF item.env.seq > 0 THEN item.env.body \in {"accepted", "evidence"}
                           ELSE item.env.body \in Finals

ItemsInv ==
    /\ \A item \in Items : Built(item)
    /\ pending \in Seq(Item)
    /\ cursor \in [Tasks -> Nat]
    /\ drawn \in Nat /\ skewed \in 0..MaxSkewed

LEMMA ServerAssumptions ==
    /\ Tasks \subseteq Nat /\ EventSeqs \subseteq Nat \ {0}
    /\ LeaseTTL \in Nat \ {0} /\ MaxLeases \in Nat /\ MaxTorn \in Nat
    /\ NoExecution \notin Executions /\ NoNode \notin Nodes /\ NoReport \notin Reports
    /\ Finals \subseteq CPP!TerminalStates
  BY ServerAssumption DEF EventSeqs, Nodes, Reports, Finals, CPP!TerminalStates

LEMMA ServerInvInit == CPP!Init => CPP!IInv
  BY ServerAssumptions, CPP!InvInit DEF CPP!InvInit

LEMMA ServerInvNext == CPP!IInv /\ [CPP!Next]_(CPP!vars) => CPP!IInv'
  BY ServerAssumptions, CPP!InvNext DEF CPP!InvNext

(* The same server, instantiated once with and once without its theorems.  *)
LEMMA SameRecords ==
    /\ CP!Envelope = CPP!Envelope /\ CP!Grant = CPP!Grant
    /\ CP!TaskRecord = CPP!TaskRecord /\ CP!TerminalStates = CPP!TerminalStates
    /\ \A r : CP!Ended(r) <=> CPP!Ended(r)
    /\ \A r, n, g : CP!ValidLease(r, n, g) <=> CPP!ValidLease(r, n, g)
  BY DEF CP!Envelope, CPP!Envelope, CP!Grant, CPP!Grant, CP!TaskRecord, CPP!TaskRecord,
     CP!TerminalStates, CPP!TerminalStates, CP!ExecutionIds, CPP!ExecutionIds,
     CP!EventBodies, CPP!EventBodies, CP!TaskStates, CPP!TaskStates, CP!Lease, CPP!Lease,
     CP!Ended, CPP!Ended, CP!ValidLease, CPP!ValidLease

LEMMA SameInit == CP!Init => CPP!Init
  BY DEF CP!Init, CPP!Init, CP!Absent, CPP!Absent, CP!NoLease, CPP!NoLease

LEMMA SameType == CP!TypeOK <=> CPP!TypeOK
  BY SameRecords DEF CP!TypeOK, CPP!TypeOK, CP!NodeRecord, CPP!NodeRecord

LEMMA SameCreate ==
    ASSUME NEW t \in Tasks, NEW e \in Executions, CP!CreateTask(t, e)
    PROVE  CPP!Next
<1>1. CPP!CreateTask(t, e)
  BY DEF CP!CreateTask, CPP!CreateTask, CP!Unclaimed, CPP!Unclaimed, CP!Queued, CPP!Queued,
     CP!Absent, CPP!Absent, CP!NoLease, CPP!NoLease,
     CP!Commit, CPP!Commit, CP!CommitTorn, CPP!CommitTorn
<1>2. QED BY <1>1 DEF CPP!Next

LEMMA SameRegister == CP!RegisterNode(Host) => CPP!Next
<1>1. CP!RegisterNode(Host) => CPP!RegisterNode(Host)
  BY DEF CP!RegisterNode, CPP!RegisterNode, CP!CommitNode, CPP!CommitNode,
     CP!CommitNodeTorn, CPP!CommitNodeTorn
<1>2. QED BY <1>1 DEF CPP!Next, Nodes

LEMMA SameHeartbeat == CP!Heartbeat(Host, "heartbeat") => CPP!Next
<1>1. CP!Heartbeat(Host, "heartbeat") => CPP!Heartbeat(Host, "heartbeat")
  BY DEF CP!Heartbeat, CPP!Heartbeat, CP!CommitNode, CPP!CommitNode,
     CP!CommitNodeTorn, CPP!CommitNodeTorn
<1>2. QED BY <1>1 DEF CPP!Next, Nodes, Reports

LEMMA SameLease ==
    ASSUME NEW t \in Tasks, CP!TryLease(t, Host)
    PROVE  CPP!Next
<1>1. CPP!TryLease(t, Host)
  BY DEF CP!TryLease, CPP!TryLease, CP!Selected, CPP!Selected, CP!Leasable, CPP!Leasable,
     CP!Ended, CPP!Ended, CP!TerminalStates, CPP!TerminalStates, CP!Leased, CPP!Leased,
     CP!Commit, CPP!Commit, CP!CommitTorn, CPP!CommitTorn
<1>2. QED BY <1>1 DEF CPP!Next, Nodes

LEMMA SameRenew ==
    ASSUME NEW g \in granted, CP!Renew(g, Host)
    PROVE  CPP!Next
<1>1. CPP!Renew(g, Host)
  BY DEF CP!Renew, CPP!Renew, CP!ValidLease, CPP!ValidLease, CP!Renewed, CPP!Renewed,
     CP!Commit, CPP!Commit, CP!CommitTorn, CPP!CommitTorn
<1>2. QED BY <1>1 DEF CPP!Next, Nodes

LEMMA SameProcessed ==
    ASSUME ItemsInv, NEW item \in Sending, Processed(item)
    PROVE  CPP!Next
<1> DEFINE e == item.env
           g == GrantOf(item)
<1>1. Built(item) /\ item.task \in Tasks /\ g \in granted /\ e \in CP!Envelope
  BY DEF ItemsInv, Items, Sending, Built, Item
<1>2. CASE CP!Replay(item.task, e)
  <2>1. CPP!Replay(item.task, e) /\ e \in mem[item.task].delivered
    BY <1>2 DEF CP!Replay, CPP!Replay
  <2>2. QED BY <1>1, <2>1 DEF CPP!Next
<1>3. CASE Outbox!IsEvent(item) /\ CP!AcceptEvent(g, Host, e.delivery, e.seq, e.body)
  <2>1. CPP!AcceptEvent(g, Host, e.delivery, e.seq, e.body)
    BY <1>3 DEF CP!AcceptEvent, CPP!AcceptEvent, CP!EnvelopeOf, CPP!EnvelopeOf,
       CP!Known, CPP!Known, CP!Ended, CPP!Ended, CP!TerminalStates, CPP!TerminalStates,
       CP!ValidLease, CPP!ValidLease, CP!InSequence, CPP!InSequence,
       CP!WithEvent, CPP!WithEvent, CP!Commit, CPP!Commit, CP!CommitTorn, CPP!CommitTorn
  <2>2. e.delivery \in Deliveries /\ e.seq \in EventSeqs /\ e.body \in CPP!EventBodies
    BY <1>1, <1>3 DEF Built, CP!Envelope, Deliveries, EventSeqs, CPP!EventBodies,
       Outbox!IsEvent
  <2> HIDE DEF g, e
  <2>3. QED BY <1>1, <2>1, <2>2 DEF CPP!Next, Nodes
<1>4. CASE ~Outbox!IsEvent(item) /\ CP!AcceptTerminal(g, Host, e.delivery, e.body)
  <2>1. CPP!AcceptTerminal(g, Host, e.delivery, e.body)
    BY <1>4 DEF CP!AcceptTerminal, CPP!AcceptTerminal, CP!EnvelopeOf, CPP!EnvelopeOf,
       CP!Known, CPP!Known, CP!Ended, CPP!Ended, CP!TerminalStates, CPP!TerminalStates,
       CP!ValidLease, CPP!ValidLease, CP!NoLease, CPP!NoLease,
       CP!WithTerminal, CPP!WithTerminal, CP!Commit, CPP!Commit, CP!CommitTorn, CPP!CommitTorn
  <2>2. e.delivery \in Deliveries /\ e.body \in Finals
    BY <1>1, <1>4 DEF Built, CP!Envelope, Deliveries, Outbox!IsEvent
  <2> HIDE DEF g, e
  <2>3. QED BY <1>1, <2>1, <2>2 DEF CPP!Next, Nodes
<1>5. QED BY <1>2, <1>3, <1>4 DEF Processed

LEMMA SameTick == CP!Tick => CPP!Next
<1>1. CP!Tick => CPP!Tick
  BY DEF CP!Tick, CPP!Tick, CP!Aged, CPP!Aged
<1>2. QED BY <1>1 DEF CPP!Next

LEMMA SameRestart == CP!Restart => CPP!Next
  BY DEF CP!Restart, CPP!Restart, CPP!Next
-----------------------------------------------------------------------------
(* What the server does to the record of one task, r before and s after.   *)

(* The server would take the item now. *)
Taken(r, item) == ~CP!Ended(r) /\ CP!ValidLease(r, Host, GrantOf(item))

(* A lease that is not good for the record does not become good. *)
StaleKept(t, r, s) ==
    \A g \in granted :
        g.task = t /\ (CP!Ended(r) \/ ~CP!ValidLease(r, Host, g)) =>
            CP!Ended(s) \/ ~CP!ValidLease(s, Host, g)

(* Only what the host sends enters a record, under a good lease. *)
Enters(t, r, s) ==
    /\ r.delivered \subseteq s.delivered
    /\ \A e \in s.delivered \ r.delivered :
          \E item \in Sending : item.task = t /\ item.env = e /\ Taken(r, item)

Keeps(r, s) ==
    /\ s.state = "absent" <=> r.state = "absent"
    /\ CP!Ended(s) <=> CP!Ended(r)
    /\ CP!Ended(r) => s.state = r.state
    /\ r.lease.id <= s.lease.id

Opens(r, s) == r.state = "absent" /\ s.state = "queued" /\ ~CP!Ended(s)

Ends(t, r, s) ==
    /\ r.state # "absent" /\ ~CP!Ended(r)
    /\ CP!Ended(s)
    /\ \E item \in Sending :
          /\ item.task = t /\ item.env \in s.delivered
          /\ item.env.seq = 0 /\ item.env.body = s.state /\ s.state \in Finals
          /\ Taken(r, item)

Writes(t, r, s) ==
    /\ Enters(t, r, s) /\ StaleKept(t, r, s)
    /\ Keeps(r, s) \/ Opens(r, s) \/ Ends(t, r, s)

Ages(t, r, s) == Keeps(r, s) /\ s.delivered = r.delivered /\ StaleKept(t, r, s)

TaskStep(t) ==
    \/ mem'[t] = mem[t] /\ disk'[t] = disk[t]
    \/ mem'[t] = disk[t] /\ disk'[t] = disk[t]
    \/ Writes(t, mem[t], disk'[t]) /\ mem'[t] \in {mem[t], disk'[t]}
    \/ Ages(t, mem[t], mem'[t]) /\ Ages(t, disk[t], disk'[t])

IdsInv == \A t \in Tasks : mem[t].lease.id <= issued /\ disk[t].lease.id <= issued

ServerStep ==
    /\ \A t \in Tasks : TaskStep(t)
    /\ IdsInv'
    /\ torn' >= torn
    /\ torn' = 0 /\ mem = disk => mem' = disk'
    /\ granted \subseteq granted'

(* The facts about the server, the outbox and the renewals that a step of  *)
(* the server needs.                                                       *)
ServerInv ==
    /\ CPP!IInv
    /\ IdsInv
    /\ ItemsInv
    /\ renewals \subseteq granted

LEMMA ServerTypes ==
    ASSUME ServerInv
    PROVE  /\ mem \in [Tasks -> CP!TaskRecord] /\ disk \in [Tasks -> CP!TaskRecord]
           /\ issued \in Nat /\ torn \in Nat
           /\ \A r \in CP!TaskRecord : r.lease.id \in Nat
           /\ \A g \in granted : g \in CP!Grant /\ g.task \in Tasks /\ g.id \in Nat
                                 /\ g.node = Host /\ g.id <= issued
                                 /\ mem[g.task].state # "absent"
                                 /\ disk[g.task].state # "absent"
<1>1. CPP!TypeOK /\ CPP!IssuedInv
      /\ \A t \in Tasks : CPP!GrantInv(t, mem[t]) /\ CPP!GrantInv(t, disk[t])
  BY DEF ServerInv, CPP!IInv, CPP!RecordInv
<1>2. \A r \in CP!TaskRecord : r.lease.id \in Nat
  BY DEF CP!TaskRecord, CP!Lease
<1>3. QED
  BY <1>1, <1>2, SameRecords
  DEF CPP!TypeOK, CPP!IssuedInv, CPP!GrantInv, CP!Grant, Nodes

(* One write of a record, whole or torn. *)
LEMMA ServerWrite ==
    ASSUME ServerInv, NEW t \in Tasks, NEW r \in CP!TaskRecord,
           CP!Commit(t, r) \/ CP!CommitTorn(t, r),
           Writes(t, mem[t], r), r.lease.id <= issued',
           issued' \in {issued, issued + 1}, granted \subseteq granted'
    PROVE  ServerStep
<1>t. /\ mem \in [Tasks -> CP!TaskRecord] /\ disk \in [Tasks -> CP!TaskRecord]
      /\ issued \in Nat /\ torn \in Nat
      /\ \A s \in CP!TaskRecord : s.lease.id \in Nat
  BY ServerTypes
<1>1. /\ disk' = [disk EXCEPT ![t] = r]
      /\ mem' = [mem EXCEPT ![t] = r] \/ mem' = mem
  BY DEF CP!Commit, CP!CommitTorn
<1>2. torn' >= torn /\ (torn' = 0 => mem' = [mem EXCEPT ![t] = r])
  BY <1>t DEF CP!Commit, CP!CommitTorn
<1>3. \A u \in Tasks : /\ disk'[u] = IF u = t THEN r ELSE disk[u]
                       /\ mem'[u] = mem[u] \/ (u = t /\ mem'[u] = r)
  BY <1>1, <1>t
<1>4. \A u \in Tasks : TaskStep(u)
  BY <1>3 DEF TaskStep
<1>5. IdsInv'
  <2>1. \A u \in Tasks : mem[u].lease.id <= issued /\ disk[u].lease.id <= issued
                         /\ mem[u].lease.id \in Nat /\ disk[u].lease.id \in Nat
    BY <1>t DEF ServerInv, IdsInv
  <2>2. \A u \in Tasks : mem'[u].lease.id <= issued' /\ disk'[u].lease.id <= issued'
    BY <2>1, <1>3, <1>t
  <2>3. QED BY <2>2 DEF IdsInv
<1>6. torn' = 0 /\ mem = disk => mem' = disk'
  BY <1>1, <1>2
<1>7. QED BY <1>2, <1>4, <1>5, <1>6 DEF ServerStep

LEMMA ServerIdle ==
    ASSUME ServerInv, UNCHANGED <<mem, disk, issued, granted>>, torn' >= torn
    PROVE  ServerStep
  BY DEF ServerStep, TaskStep, IdsInv, ServerInv

LEMMA CreateStep ==
    ASSUME ServerInv, NEW t \in Tasks, NEW e \in Executions, CP!CreateTask(t, e)
    PROVE  ServerStep
<1> DEFINE r == CP!Queued(e)
<1>1. /\ r.state = "queued" /\ r.terminal = {} /\ r.delivered = {} /\ r.lease.id = 0
      /\ r \in CP!TaskRecord
  <2>1. r \in CPP!TaskRecord
    BY ServerAssumptions, CPP!QueuedType
    DEF CPP!QueuedType, CP!Queued, CPP!Queued, CP!Absent,
       CPP!Absent, CP!NoLease, CPP!NoLease
  <2>2. QED BY <2>1, SameRecords DEF CP!Queued, CP!Absent, CP!NoLease
<1>2. /\ mem[t].state = "absent" /\ UNCHANGED <<issued, granted>>
      /\ CP!Commit(t, r) \/ CP!CommitTorn(t, r)
  BY DEF CP!CreateTask
<1>3. mem[t].delivered = {}
  BY <1>2 DEF ServerInv, CPP!IInv, CPP!RecordInv, CPP!AbsentInv
<1> HIDE DEF r
<1>4. ~CP!Ended(r)
  BY <1>1 DEF CP!Ended, CP!TerminalStates
<1>5. \A g : ~CP!ValidLease(r, Host, g)
  BY <1>1 DEF CP!ValidLease
<1>6. Writes(t, mem[t], r)
  BY <1>1, <1>2, <1>3, <1>4, <1>5 DEF Writes, Enters, StaleKept, Opens
<1>7. issued \in Nat
  BY ServerTypes
<1>8. QED BY <1>1, <1>2, <1>6, <1>7, ServerWrite

LEMMA RegisterStep == ASSUME ServerInv, CP!RegisterNode(Host) PROVE ServerStep
<1>1. torn' >= torn
  BY ServerTypes DEF CP!RegisterNode, CP!CommitNode, CP!CommitNodeTorn
<1>2. QED BY <1>1, ServerIdle DEF CP!RegisterNode

LEMMA HeartbeatStep == ASSUME ServerInv, CP!Heartbeat(Host, "heartbeat") PROVE ServerStep
<1>1. torn' >= torn
  BY ServerTypes DEF CP!Heartbeat, CP!CommitNode, CP!CommitNodeTorn
<1>2. QED BY <1>1, ServerIdle DEF CP!Heartbeat

(* A lease is answered when the write is not torn; then it is the record's.*)
LEMMA LeaseStep ==
    ASSUME ServerInv, NEW t \in Tasks, CP!TryLease(t, Host)
    PROVE  /\ ServerStep
           /\ UNCHANGED torn =>
                \A g \in granted' \ granted :
                   /\ g.task = t /\ g.id = issued' /\ issued' = issued + 1
                   /\ mem'[t].lease.id = g.id /\ disk'[t].lease.id = g.id
                   /\ mem'[t].state = "leased" /\ disk'[t].state = "leased"
                   /\ ~CP!Ended(mem'[t]) /\ ~CP!Ended(disk'[t])
<1> DEFINE r == CP!Leased(mem[t], Host, issued + 1)
<1>t. /\ mem[t] \in CP!TaskRecord
      /\ disk \in [Tasks -> CP!TaskRecord] /\ mem \in [Tasks -> CP!TaskRecord]
      /\ issued \in Nat /\ torn \in Nat /\ mem[t].lease.id \in Nat
  BY ServerTypes
<1>1. /\ r.state = "leased" /\ r.terminal = mem[t].terminal /\ r.delivered = mem[t].delivered
      /\ r.lease.id = issued + 1
  BY <1>t DEF CP!Leased, CP!TaskRecord
<1>2. r \in CP!TaskRecord
  <2>1. CPP!Leased(mem[t], Host, issued + 1) \in CPP!TaskRecord
    <3>1. mem[t] \in CPP!TaskRecord /\ issued + 1 \in Nat /\ Host \in Nodes
      BY <1>t, SameRecords DEF Nodes
    <3>2. QED BY <3>1, ServerAssumptions, CPP!LeasedType DEF CPP!LeasedType
  <2>2. QED BY <2>1, SameRecords DEF CP!Leased, CPP!Leased
<1>3. /\ CP!Selected(t, Host) /\ issued' = issued + 1 /\ granted \subseteq granted'
      /\ CP!Commit(t, r) \/ CP!CommitTorn(t, r)
      /\ CP!Commit(t, r) => granted' = granted \cup
             {[task |-> t, exec |-> r.exec, node |-> Host, id |-> issued + 1, token |-> r.token]}
      /\ CP!CommitTorn(t, r) \/ CP!Commit(t, r)
  <2>1. CP!Commit(t, r) => ~CP!CommitTorn(t, r)
    BY <1>t DEF CP!Commit, CP!CommitTorn
  <2>2. QED BY <2>1 DEF CP!TryLease
<1> HIDE DEF r
<1>4. mem[t].state # "absent" /\ ~CP!Ended(mem[t])
  BY <1>3 DEF CP!Selected, CP!Leasable
<1>5. ~CP!Ended(r)
  BY <1>1, <1>4 DEF CP!Ended, CP!TerminalStates
<1>6. \A g \in granted : ~CP!ValidLease(r, Host, g)
  BY <1>1, <1>t, ServerTypes DEF CP!ValidLease
<1>7. mem[t].lease.id <= issued + 1
  BY <1>t DEF ServerInv, IdsInv
<1>8. Writes(t, mem[t], r)
  BY <1>1, <1>4, <1>5, <1>6, <1>7 DEF Writes, Enters, StaleKept, Keeps
<1>9. ServerStep
  BY <1>1, <1>2, <1>3, <1>8, <1>t, ServerWrite
<1>10. ASSUME UNCHANGED torn, NEW g \in granted' \ granted
       PROVE  /\ g.task = t /\ g.id = issued' /\ issued' = issued + 1
              /\ mem'[t] = r /\ disk'[t] = r
  <2>1. CP!Commit(t, r)
    BY <1>10, <1>3, <1>t DEF CP!CommitTorn
  <2>2. mem'[t] = r /\ disk'[t] = r
    BY <2>1, <1>t DEF CP!Commit
  <2>3. QED BY <2>1, <2>2, <1>3
<1>11. QED BY <1>1, <1>5, <1>9, <1>10

LEMMA RenewStep ==
    ASSUME ServerInv, NEW g \in granted, CP!Renew(g, Host)
    PROVE  ServerStep
<1> DEFINE t == g.task
           r == CP!Renewed(mem[t])
<1>t. /\ t \in Tasks /\ mem[t] \in CP!TaskRecord /\ issued \in Nat /\ torn \in Nat
      /\ mem[t].lease.id \in Nat /\ mem[t].state # "absent"
  BY ServerTypes
<1>1. /\ r.state = mem[t].state /\ r.terminal = mem[t].terminal
      /\ r.delivered = mem[t].delivered /\ r.exec = mem[t].exec /\ r.token = mem[t].token
      /\ r.lease.id = mem[t].lease.id /\ r.lease.node = mem[t].lease.node
      /\ r.lease.token = mem[t].lease.token
  BY <1>t DEF CP!Renewed, CP!TaskRecord, CP!Lease
<1>2. r \in CP!TaskRecord
  <2>1. CPP!Renewed(mem[t]) \in CPP!TaskRecord
    BY <1>t, SameRecords, ServerAssumptions, CPP!RenewedType DEF CPP!RenewedType
  <2>2. QED BY <2>1, SameRecords DEF CP!Renewed, CPP!Renewed
<1>3. /\ CP!ValidLease(mem[t], Host, g) /\ UNCHANGED <<issued, granted>>
      /\ CP!Commit(t, r) \/ CP!CommitTorn(t, r)
  BY DEF CP!Renew
<1> HIDE DEF r, t
<1>4. CP!Ended(r) <=> CP!Ended(mem[t])
  BY <1>1 DEF CP!Ended
<1>5. \A h : CP!ValidLease(r, Host, h) => CP!ValidLease(mem[t], Host, h)
  BY <1>1, <1>3 DEF CP!ValidLease
<1>6. mem[t].lease.id <= issued
  BY <1>t DEF ServerInv, IdsInv
<1>7. Writes(t, mem[t], r)
  BY <1>1, <1>4, <1>5, <1>t DEF Writes, Enters, StaleKept, Keeps
<1>8. QED BY <1>1, <1>2, <1>3, <1>6, <1>7, <1>t, ServerWrite

(* A publication the server processes: the item is in the record unless    *)
(* the write was torn.                                                     *)
LEMMA ProcessedStep ==
    ASSUME ServerInv, NEW item \in Sending, Processed(item)
    PROVE  /\ ServerStep
           /\ UNCHANGED torn => item.env \in mem'[item.task].delivered
<1> DEFINE e == item.env
           g == GrantOf(item)
           t == item.task
<1>t. /\ Built(item) /\ item \in Item /\ t \in Tasks /\ g \in granted /\ e \in CP!Envelope
      /\ mem[t] \in CP!TaskRecord /\ issued \in Nat /\ torn \in Nat
      /\ mem \in [Tasks -> CP!TaskRecord]
      /\ mem[t].lease.id \in Nat /\ mem[t].state # "absent"
      /\ mem[t].lease.id <= issued
      /\ g.task = t
  <2>1. Built(item)
    BY DEF ServerInv, ItemsInv, Items, Sending
  <2>2. item \in Item /\ t \in Tasks /\ g \in granted /\ e \in CP!Envelope /\ g.task = t
    BY <2>1 DEF Built, Item, GrantOf
  <2>3. mem[t].lease.id <= issued
    BY <2>2 DEF ServerInv, IdsInv
  <2> HIDE DEF g, e, t
  <2>4. QED BY <2>1, <2>2, <2>3, ServerTypes
<1>n. e.seq \in Nat
  BY <1>t DEF CP!Envelope
<1>1. CASE CP!Replay(t, e)
  <2>1. UNCHANGED <<mem, disk, issued, torn, granted>> /\ e \in mem[t].delivered
    BY <1>1 DEF CP!Replay
  <2>2. QED BY <2>1, <1>t, ServerIdle
<1>2. CASE Outbox!IsEvent(item) /\ CP!AcceptEvent(g, Host, e.delivery, e.seq, e.body)
  <2> DEFINE r == CP!WithEvent(mem[t], e)
  <2>1. CP!EnvelopeOf(g, e.delivery, e.seq, e.body) = e
    BY <1>t DEF GrantOf, CP!EnvelopeOf, CP!Envelope
  <2>2. /\ Taken(mem[t], item)
        /\ CP!Commit(t, r) \/ CP!CommitTorn(t, r)
        /\ UNCHANGED <<issued, granted>>
    BY <1>2, <2>1, <1>t DEF CP!AcceptEvent, Taken
  <2>3. e.body \in {"accepted", "evidence"}
    BY <1>2, <1>t DEF Built, Outbox!IsEvent
  <2>4. /\ r.state \in {"running", mem[t].state} /\ r.terminal = mem[t].terminal
        /\ r.delivered = mem[t].delivered \cup {e}
        /\ r.lease = mem[t].lease /\ r.exec = mem[t].exec /\ r.token = mem[t].token
    BY <1>t DEF CP!WithEvent, CP!TaskRecord
  <2>5. r \in CP!TaskRecord
    <3>1. CPP!WithEvent(mem[t], e) \in CPP!TaskRecord
      BY <1>t, <2>3, SameRecords, ServerAssumptions, CPP!WithEventType
      DEF CPP!WithEventType, CPP!EventBodies
    <3>2. QED BY <3>1, SameRecords DEF CP!WithEvent, CPP!WithEvent
  <2> HIDE DEF r, g, e, t
  <2>6. ~CP!Ended(r) /\ ~CP!Ended(mem[t])
    BY <2>2, <2>4 DEF Taken, CP!Ended, CP!TerminalStates
  <2>7. \A h : CP!ValidLease(r, Host, h) => CP!ValidLease(mem[t], Host, h)
    BY <2>4 DEF CP!ValidLease
  <2>8. Enters(t, mem[t], r)
    BY <2>2, <2>4 DEF Enters, e, t
  <2>9. Writes(t, mem[t], r)
    BY <2>4, <2>6, <2>7, <2>8, <1>t DEF Writes, StaleKept, Keeps
  <2>10. ServerStep
    BY <2>2, <2>4, <2>5, <2>9, <1>t, ServerWrite
  <2>11. UNCHANGED torn => e \in mem'[t].delivered
    BY <2>2, <2>4, <1>t DEF CP!Commit, CP!CommitTorn
  <2>12. QED BY <2>10, <2>11 DEF e, t
<1>3. CASE ~Outbox!IsEvent(item) /\ CP!AcceptTerminal(g, Host, e.delivery, e.body)
  <2> DEFINE r == CP!WithTerminal(mem[t], e)
  <2>0. e.seq = 0
    BY <1>3, <1>n DEF Outbox!IsEvent
  <2>1. CP!EnvelopeOf(g, e.delivery, 0, e.body) = e
    BY <1>t, <2>0 DEF GrantOf, CP!EnvelopeOf, CP!Envelope
  <2>2. /\ Taken(mem[t], item)
        /\ CP!Commit(t, r) \/ CP!CommitTorn(t, r)
        /\ UNCHANGED <<issued, granted>>
    BY <1>3, <2>1, <1>t DEF CP!AcceptTerminal, Taken
  <2>3. e.body \in Finals
    BY <2>0, <1>t DEF Built
  <2>4. /\ r.state = e.body /\ r.terminal = {e}
        /\ r.delivered = mem[t].delivered \cup {e}
        /\ r.lease = CP!NoLease
    BY <1>t DEF CP!WithTerminal, CP!TaskRecord
  <2>5. r \in CP!TaskRecord
    <3>1. e.body \in CPP!TerminalStates
      BY <2>3 DEF Finals, CPP!TerminalStates
    <3>2. CPP!WithTerminal(mem[t], e) \in CPP!TaskRecord
      BY <1>t, <3>1, SameRecords, ServerAssumptions, CPP!WithTerminalType
      DEF CPP!WithTerminalType
    <3>3. QED BY <3>2, SameRecords DEF CP!WithTerminal, CPP!WithTerminal, CP!NoLease, CPP!NoLease
  <2> HIDE DEF r, g, e, t
  <2>6. CP!Ended(r) /\ ~CP!Ended(mem[t])
    BY <2>2, <2>4 DEF Taken, CP!Ended
  <2>8. Enters(t, mem[t], r)
    BY <2>2, <2>4 DEF Enters, e, t
  <2>7. Ends(t, mem[t], r)
    BY <2>0, <2>2, <2>3, <2>4, <2>6, <1>t DEF Ends, e, t
  <2>9. Writes(t, mem[t], r) /\ r.lease.id = 0
    BY <2>4, <2>6, <2>7, <2>8 DEF Writes, StaleKept, CP!NoLease
  <2>10. ServerStep
    BY <2>2, <2>5, <2>9, <1>t, ServerWrite
  <2>11. UNCHANGED torn => e \in mem'[t].delivered
    BY <2>2, <2>4, <1>t DEF CP!Commit, CP!CommitTorn
  <2>12. QED BY <2>10, <2>11 DEF e, t
<1>4. QED BY <1>1, <1>2, <1>3 DEF Processed

LEMMA AgesRecord ==
    ASSUME NEW t, NEW r \in CP!TaskRecord
    PROVE  Ages(t, r, CP!Aged(r)) /\ CP!Aged(r).lease.id = r.lease.id
<1> DEFINE s == CP!Aged(r)
<1>1. /\ s.state = r.state /\ s.terminal = r.terminal /\ s.delivered = r.delivered
      /\ s.exec = r.exec /\ s.token = r.token
      /\ s.lease.id = r.lease.id /\ s.lease.node = r.lease.node
      /\ s.lease.token = r.lease.token
      /\ s.lease.left > 0 => r.lease.left > 0
  BY ServerAssumption DEF CP!Aged, CP!TaskRecord, CP!Lease
<1>2. r.lease.id \in Nat
  BY DEF CP!TaskRecord, CP!Lease
<1> HIDE DEF s
<1>3. CP!Ended(s) <=> CP!Ended(r)
  BY <1>1 DEF CP!Ended
<1>4. \A h : CP!ValidLease(s, Host, h) => CP!ValidLease(r, Host, h)
  BY <1>1 DEF CP!ValidLease
<1>5. Ages(t, r, s) /\ s.lease.id = r.lease.id
  BY <1>1, <1>2, <1>3, <1>4 DEF Ages, StaleKept, Keeps
<1>6. QED BY <1>5 DEF s

LEMMA TickStep == ASSUME ServerInv, CP!Tick PROVE ServerStep
<1>t. /\ mem \in [Tasks -> CP!TaskRecord] /\ disk \in [Tasks -> CP!TaskRecord]
      /\ issued \in Nat /\ torn \in Nat
  BY ServerTypes
<1>1. /\ \A t \in Tasks : mem'[t] = CP!Aged(mem[t]) /\ disk'[t] = CP!Aged(disk[t])
      /\ mem = disk => mem' = disk'
      /\ UNCHANGED <<issued, torn, granted>>
  BY DEF CP!Tick
<1>2. \A t \in Tasks : TaskStep(t) /\ mem'[t].lease.id <= issued /\ disk'[t].lease.id <= issued
  <2> SUFFICES ASSUME NEW t \in Tasks
               PROVE  TaskStep(t) /\ mem'[t].lease.id <= issued /\ disk'[t].lease.id <= issued
    OBVIOUS
  <2>1. mem[t] \in CP!TaskRecord /\ disk[t] \in CP!TaskRecord
    BY <1>t
  <2>2. /\ Ages(t, mem[t], mem'[t]) /\ mem'[t].lease.id = mem[t].lease.id
        /\ Ages(t, disk[t], disk'[t]) /\ disk'[t].lease.id = disk[t].lease.id
    BY <1>1, <2>1, AgesRecord
  <2>3. QED BY <2>2 DEF TaskStep, ServerInv, IdsInv
<1>3. QED BY <1>1, <1>2, <1>t DEF ServerStep, IdsInv

LEMMA RestartStep == ASSUME ServerInv, CP!Restart PROVE ServerStep
<1>1. /\ mem' = disk /\ disk' = disk
      /\ UNCHANGED <<issued, torn, granted>>
  BY DEF CP!Restart
<1>2. QED BY <1>1, ServerTypes DEF ServerStep, TaskStep, IdsInv, ServerInv

-----------------------------------------------------------------------------
(* What a step of the host or its environment does to the server and to    *)
(* the outbox.                                                             *)

ServerKinds ==
    \/ UNCHANGED cpVars
    \/ CP!RegisterNode(Host)
    \/ CP!Heartbeat(Host, "heartbeat")
    \/ \E t \in Tasks : CP!TryLease(t, Host)
    \/ \E item \in Sending : Processed(item)
    \/ \E g \in renewals : CP!Renew(g, Host)
    \/ \E t \in Tasks, e \in Executions : CP!CreateTask(t, e)
    \/ CP!Tick
    \/ CP!Restart

(* An envelope is made durable only by a running attempt. *)
Persists ==
    \E seq \in Nat : \E body :
        /\ Outbox!Persist(Outbox!Item(lease, seq, body))
        /\ \/ seq = Outbox!Highest(lease.task) + 1 /\ body \in {"accepted", "evidence"}
           \/ seq = 0 /\ body = outcome /\ pc \in {"report", "catch"}
        /\ pc \in {"accept", "note", "result", "report", "catch"}

OutboxKinds ==
    \/ UNCHANGED outboxVars /\ late' \subseteq Sending
    \/ Persists /\ UNCHANGED late
    \/ Outbox!WriteCursor(lease.task) /\ pc = "cursor" /\ UNCHANGED late
    \/ \E item \in Outbox!PendingItems :
          /\ item = Head(pending)
          /\ Outbox!Ack(item) /\ Processed(item) /\ UNCHANGED torn /\ UNCHANGED late
    \/ \E item \in Outbox!PendingItems :
          Outbox!Quarantine(item) /\ Stale(item) /\ UNCHANGED cpVars /\ UNCHANGED late

Kinds == ServerKinds /\ OutboxKinds

Neither == UNCHANGED cpVars /\ UNCHANGED outboxVars /\ UNCHANGED late

LEMMA NeitherKind == Neither => Kinds
  BY DEF Neither, Kinds, ServerKinds, OutboxKinds, Sending, Waiting

LEMMA EventKind ==
    ASSUME NEW label \in {"accept", "note", "result"}, NEW body \in {"accepted", "evidence"},
           NEW next, DurableEvent(label, body, next),
           pc = label => Outbox!Highest(lease.task) \in Nat
    PROVE  Kinds
<1>1. UNCHANGED cpVars /\ UNCHANGED late /\ pc = label
  BY DEF DurableEvent
<1>2. CASE Outbox!PersistEvent(lease, body)
  <2>1. Outbox!Persist(Outbox!Item(lease, Outbox!Highest(lease.task) + 1, body))
    BY <1>2 DEF Outbox!PersistEvent
  <2>2. Persists
    BY <1>1, <2>1 DEF Persists
  <2>3. QED BY <1>1, <2>2 DEF Kinds, ServerKinds, OutboxKinds
<1>3. CASE UNCHANGED outboxVars
  BY <1>1, <1>3 DEF Kinds, ServerKinds, OutboxKinds, Sending, Waiting
<1>4. QED BY <1>2, <1>3 DEF DurableEvent

LEMMA LoopKinds ==
    ASSUME pc \in {"accept", "note", "result"} => Outbox!Highest(lease.task) \in Nat,
           LoopStep
    PROVE  Kinds
<1> USE DEF Still
<1>1. ASSUME Start PROVE Kinds
  BY <1>1, NeitherKind DEF Start, Neither
<1>2. ASSUME Register PROVE Kinds
  BY <1>2 DEF Register, Kinds, ServerKinds, OutboxKinds, Sending, Waiting
<1>3. ASSUME Heartbeat PROVE Kinds
  BY <1>3 DEF Heartbeat, Kinds, ServerKinds, OutboxKinds, Sending, Waiting
<1>4. ASSUME NEW t \in Tasks, TakeLease(t) PROVE Kinds
  BY <1>4 DEF TakeLease, Kinds, ServerKinds, OutboxKinds, Sending, Waiting
<1>5. ASSUME WriteCursor PROVE Kinds
  BY <1>5 DEF WriteCursor, Kinds, ServerKinds, OutboxKinds, Sending, Waiting
<1>6. ASSUME DrainEnds PROVE Kinds
  BY <1>6, NeitherKind DEF DrainEnds, Neither
<1>7. ASSUME NEW item \in Outbox!PendingItems, PublishAccepted(item) PROVE Kinds
  BY <1>7 DEF PublishAccepted, Publishing, ServerError, Kinds, ServerKinds, OutboxKinds, Sending,
     Waiting
<1>8. ASSUME NEW item \in Outbox!PendingItems, PublishStale(item) PROVE Kinds
  BY <1>8 DEF PublishStale, Kinds, ServerKinds, OutboxKinds
<1>9. ASSUME NEW item \in Outbox!PendingItems, PublishOutOfSequence(item) PROVE Kinds
  BY <1>9, NeitherKind DEF PublishOutOfSequence, Neither
<1>10. ASSUME Preflight PROVE Kinds
  BY <1>10, NeitherKind DEF Preflight, Neither
<1>11. ASSUME StartThread PROVE Kinds
  BY <1>11, NeitherKind DEF StartThread, Neither
<1>12. ASSUME NEW label, NEW value, NEW next, NEW failure,
              PutMapping(label, value, next, failure) PROVE Kinds
  BY <1>12, NeitherKind DEF PutMapping, Neither
<1>13. ASSUME ResumeTurn PROVE Kinds
  BY <1>13, NeitherKind DEF ResumeTurn, Neither
<1>14. ASSUME RecoverTurn PROVE Kinds
  BY <1>14, NeitherKind DEF RecoverTurn, Neither
<1>15. ASSUME PersistIntent PROVE Kinds
  BY <1>15, <1>12 DEF PersistIntent
<1>16. ASSUME StartTurn PROVE Kinds
  BY <1>16, NeitherKind DEF StartTurn, Neither
<1>17. ASSUME Poll PROVE Kinds
  BY <1>17, NeitherKind DEF Poll, Neither
<1>18. ASSUME Report PROVE Kinds
  <2>1. UNCHANGED cpVars /\ UNCHANGED late /\ pc \in {"report", "catch"}
    BY <1>18 DEF Report
  <2>2. CASE Outbox!PersistTerminal(lease, outcome)
    <3>1. Outbox!Persist(Outbox!Item(lease, 0, outcome)) /\ 0 \in Nat
      BY <2>2 DEF Outbox!PersistTerminal
    <3>2. Persists
      BY <2>1, <3>1 DEF Persists
    <3>3. QED BY <2>1, <3>2 DEF Kinds, ServerKinds, OutboxKinds
  <2>3. CASE UNCHANGED outboxVars
    BY <2>1, <2>3 DEF Kinds, ServerKinds, OutboxKinds, Sending, Waiting
  <2>4. QED BY <1>18, <2>2, <2>3 DEF Report
<1>19. ASSUME EndAttempt PROVE Kinds
  BY <1>19, NeitherKind DEF EndAttempt, Neither
<1>20. QED
  BY <1>1, <1>2, <1>3, <1>4, <1>5, <1>6, <1>7, <1>8, <1>9, <1>10, <1>11, <1>12, <1>13,
     <1>14, <1>15, <1>16, <1>17, <1>18, <1>19, EventKind DEF LoopStep

LEMMA EnvironmentKinds == Environment => Kinds
<1>1. ASSUME Crash PROVE Kinds
  BY <1>1, NeitherKind DEF Crash, Neither
<1>2. ASSUME NEW t \in Tasks, LeaseFails(t) PROVE Kinds
  BY <1>2 DEF LeaseFails, Kinds, ServerKinds, OutboxKinds, Sending, Waiting
<1>3. ASSUME NEW item \in Outbox!PendingItems, PublishLost(item) PROVE Kinds
  BY <1>3 DEF PublishLost, Publishing, Kinds, ServerKinds, OutboxKinds, Sending, Waiting
<1>4. ASSUME NEW item \in Outbox!PendingItems, PublishFailsOnServer(item) PROVE Kinds
  BY <1>4 DEF PublishFailsOnServer, Publishing, Kinds, ServerKinds, OutboxKinds, Sending, Waiting
<1>5. ASSUME NEW item \in late, LateArrival(item) PROVE Kinds
  BY <1>5 DEF LateArrival, Kinds, ServerKinds, OutboxKinds, Sending, Waiting
<1>6. ASSUME SendRenewal PROVE Kinds
  BY <1>6, NeitherKind DEF SendRenewal, Neither
<1>7. ASSUME NEW g \in renewals, RenewalAccepted(g) PROVE Kinds
  BY <1>7 DEF RenewalAccepted, Kinds, ServerKinds, OutboxKinds, Sending, Waiting
<1>8. ASSUME NEW g \in renewals, RenewalRejected(g) PROVE Kinds
  BY <1>8, NeitherKind DEF RenewalRejected, Neither
<1>9. ASSUME NEW t \in Tasks, NEW e \in Executions, SubmitTask(t, e) PROVE Kinds
  BY <1>9 DEF SubmitTask, Kinds, ServerKinds, OutboxKinds, Sending, Waiting
<1>10. ASSUME NEW t \in Tasks, TurnFinishes(t) PROVE Kinds
  BY <1>10, NeitherKind DEF TurnFinishes, Neither
<1>11. ASSUME Tick PROVE Kinds
  BY <1>11 DEF Tick, Kinds, ServerKinds, OutboxKinds, Sending, Waiting
<1>12. ASSUME ServerRestart PROVE Kinds
  BY <1>12 DEF ServerRestart, Kinds, ServerKinds, OutboxKinds, Sending, Waiting
<1>13. QED
  BY <1>1, <1>2, <1>3, <1>4, <1>5, <1>6, <1>7, <1>8, <1>9, <1>10, <1>11, <1>12
  DEF Environment

-----------------------------------------------------------------------------
(* The control of the loop.  A place in an attempt holds a lease that the  *)
(* server answered with; a drain belongs to where it continues.            *)

Places ==
    {"accept", "preflight", "map", "mapThread", "note", "turn", "start", "mapTurn", "poll",
     "result", "report", "catch", "end"}

Attempting ==
    \/ pc \in Places
    \/ pc \in {"cursor", "drain"} /\ then \in {"preflight", "turn", "report", "end"}

ControlInv ==
    /\ pc \in Labels
    /\ then \in {"heartbeat", "lease", "preflight", "turn", "report", "end"}
    /\ target \in 0..drawn
    /\ pc = "cursor" => then \in {"preflight", "turn", "report"}
    /\ lease \in granted \cup {NoLeaseHeld}
    /\ Attempting => lease \in granted
    /\ renewing => Attempting
    /\ invalid \in BOOLEAN /\ renewing \in BOOLEAN
    /\ outcome \in Finals \cup {"none"}
    /\ pc \in {"result", "report", "catch"} \/ (pc \in {"cursor", "drain"} /\ then = "report")
          => outcome \in Finals

LEMMA HighestIsNumber ==
    ASSUME ServerInv, NEW t \in Tasks
    PROVE  /\ Outbox!Highest(t) \in Nat
           /\ \A item \in Outbox!PendingItems : item.task = t => item.env.seq <= Outbox!Highest(t)
<1> DEFINE P == {p \in Outbox!PendingItems : p.task = t}
           S == {cursor[t]} \cup {item.env.seq : item \in P}
<1>1. pending \in Seq(Item) /\ cursor[t] \in Nat
  BY DEF ServerInv, ItemsInv
<1>2. IsFiniteSet(Outbox!PendingItems)
  <2>1. Outbox!PendingItems = {pending[i] : i \in 1..Len(pending)} /\ Len(pending) \in Nat
    BY <1>1 DEF Outbox!PendingItems, Outbox!ToSet
  <2>2. IsFiniteSet(1..Len(pending))
    BY <2>1, FS_Interval
  <2> DEFINE f == [i \in 1..Len(pending) |-> pending[i]]
  <2>3. f \in Surjection(1..Len(pending), Outbox!PendingItems)
    BY <2>1 DEF Surjection
  <2>4. QED BY <2>2, <2>3, FS_Surjection
<1>3. IsFiniteSet(P)
  BY <1>2, FS_Subset
<1>4. IsFiniteSet({item.env.seq : item \in P})
  <2> DEFINE f == [item \in P |-> item.env.seq]
  <2>1. f \in Surjection(P, {item.env.seq : item \in P})
    BY DEF Surjection
  <2>2. QED BY <1>3, <2>1, FS_Surjection
<1>5. IsFiniteSet(S) /\ S # {}
  BY <1>4, FS_Singleton, FS_Union
<1>6. S \in SUBSET Nat
  <2>1. \A item \in P : item.env.seq \in Nat
    BY DEF ServerInv, ItemsInv, Items, Sending, Waiting, Built, Item, CP!Envelope
  <2>2. QED BY <2>1, <1>1
<1>7. Max(S) \in Nat /\ \A n \in S : n <= Max(S)
  BY <1>5, <1>6, MaxIsNumber
<1>8. Outbox!Highest(t) = Max(S)
  BY DEF Outbox!Highest, Outbox!PendingSeqs, Outbox!Max, Max
<1>9. QED BY <1>7, <1>8

LEMMA StepKinds ==
    ASSUME ServerInv, ControlInv, [Next]_vars
    PROVE  Kinds
<1>1. CASE LoopStep
  <2>1. pc \in {"accept", "note", "result"} => Outbox!Highest(lease.task) \in Nat
    BY HighestIsNumber, ServerTypes DEF ControlInv, Attempting, Places
  <2>2. QED BY <1>1, <2>1, LoopKinds
<1>2. CASE Environment
  BY <1>2, EnvironmentKinds
<1>3. CASE UNCHANGED vars
  BY <1>3, NeitherKind DEF vars, Neither
<1>4. QED BY <1>1, <1>2, <1>3 DEF Next

LEMMA ServerSteps ==
    ASSUME ServerInv, Kinds
    PROVE  ServerStep /\ CPP!IInv'
<1>1. CASE UNCHANGED cpVars
  BY <1>1, ServerIdle, ServerTypes, ServerInvNext DEF cpVars, CPP!vars, ServerInv
<1>2. CASE CP!RegisterNode(Host)
  BY <1>2, RegisterStep, SameRegister, ServerInvNext DEF ServerInv
<1>3. CASE CP!Heartbeat(Host, "heartbeat")
  BY <1>3, HeartbeatStep, SameHeartbeat, ServerInvNext DEF ServerInv
<1>4. CASE \E t \in Tasks : CP!TryLease(t, Host)
  BY <1>4, LeaseStep, SameLease, ServerInvNext DEF ServerInv
<1>5. CASE \E item \in Sending : Processed(item)
  BY <1>5, ProcessedStep, SameProcessed, ServerInvNext DEF ServerInv
<1>6. CASE \E g \in renewals : CP!Renew(g, Host)
  <2>1. PICK g \in granted : CP!Renew(g, Host)
    BY <1>6 DEF ServerInv
  <2>2. QED BY <2>1, RenewStep, SameRenew, ServerInvNext DEF ServerInv
<1>7. CASE \E t \in Tasks, e \in Executions : CP!CreateTask(t, e)
  BY <1>7, CreateStep, SameCreate, ServerInvNext DEF ServerInv
<1>8. CASE CP!Tick
  BY <1>8, TickStep, SameTick, ServerInvNext DEF ServerInv
<1>9. CASE CP!Restart
  BY <1>9, RestartStep, SameRestart, ServerInvNext DEF ServerInv
<1>10. QED
  BY <1>1, <1>2, <1>3, <1>4, <1>5, <1>6, <1>7, <1>8, <1>9 DEF Kinds, ServerKinds

-----------------------------------------------------------------------------
(* What a step does to the items. *)

(* The item x is new, built by the attempt. *)
NewItem(x) ==
    /\ Outbox!PendingItems' = Outbox!PendingItems \cup {x}
    /\ quarantined' = quarantined /\ late' = late
    /\ drawn' = drawn + 1 /\ x.env.delivery = drawn'
    /\ x \in Item /\ GrantOf(x) = lease /\ lease \in granted
    /\ x.task = lease.task /\ x.env.lease = lease.id
    /\ IF x.env.seq > 0 THEN x.env.body \in {"accepted", "evidence"}
       ELSE /\ pc \in {"report", "catch"}
            /\ x.env.body = outcome /\ x.env.body \in Finals

ItemsStep ==
    \/ /\ Outbox!PendingItems' = Outbox!PendingItems /\ late' \subseteq Sending
       /\ quarantined' = quarantined /\ drawn' = drawn
    \/ \E x : NewItem(x)
    \/ \E x \in Outbox!PendingItems :
          /\ Outbox!PendingItems' \subseteq Outbox!PendingItems
          /\ Outbox!PendingItems \subseteq Outbox!PendingItems' \cup {x}
          /\ quarantined' = quarantined /\ late' = late /\ drawn' = drawn
          /\ x.env \in mem'[x.task].delivered
    \/ \E x \in Outbox!PendingItems :
          /\ Outbox!PendingItems' \subseteq Outbox!PendingItems
          /\ Outbox!PendingItems \subseteq Outbox!PendingItems' \cup {x}
          /\ quarantined' = quarantined \cup {x} /\ late' = late /\ drawn' = drawn
          /\ Stale(x) /\ UNCHANGED cpVars

LEMMA WithoutSet ==
    ASSUME pending \in Seq(Item), NEW x \in Outbox!PendingItems,
           pending' = Outbox!Without(x)
    PROVE  /\ pending' \in Seq(Item)
           /\ Outbox!PendingItems' \subseteq Outbox!PendingItems
           /\ Outbox!PendingItems \subseteq Outbox!PendingItems' \cup {x}
<1> DEFINE i == CHOOSE j \in 1..Len(pending) : pending[j] = x
<1>1. \E j \in 1..Len(pending) : pending[j] = x
  BY DEF Outbox!PendingItems, Outbox!ToSet
<1>2. i \in 1..Len(pending) /\ pending[i] = x
  BY <1>1
<1>3. pending' = RemoveAt(pending, i)
  BY DEF Outbox!Without, Outbox!RemoveAt, RemoveAt
<1> HIDE DEF i
<1>4. /\ RemoveAt(pending, i) \in Seq(Item)
      /\ ToSet(RemoveAt(pending, i)) \subseteq ToSet(pending)
      /\ ToSet(pending) \subseteq ToSet(RemoveAt(pending, i)) \cup {pending[i]}
  BY <1>2, RemoveSet
<1>5. Outbox!PendingItems = ToSet(pending) /\ Outbox!PendingItems' = ToSet(pending')
  BY DEF Outbox!PendingItems, Outbox!ToSet, ToSet
<1>6. QED BY <1>2, <1>3, <1>4, <1>5

LEMMA PersistSet ==
    ASSUME pending \in Seq(Item), NEW x \in Item, Outbox!Persist(x)
    PROVE  /\ pending' \in Seq(Item)
           /\ Outbox!PendingItems' = Outbox!PendingItems \cup {x}
<1>1. Outbox!PendingItems = ToSet(pending) /\ Outbox!PendingItems' = ToSet(pending')
  BY DEF Outbox!PendingItems, Outbox!ToSet, ToSet
<1>2. CASE pending' = Append(pending, x)
  BY <1>1, <1>2, AppendSet
<1>3. CASE \E i \in 1..Len(pending) : pending' = InsertAt(pending, i, x)
  BY <1>1, <1>3, InsertSet
<1>4. QED BY <1>2, <1>3 DEF Outbox!Persist, Outbox!InsertAt, InsertAt

LEMMA ItemsSteps ==
    ASSUME ServerInv, ControlInv, Kinds
    PROVE  ItemsStep /\ ItemsInv'
<1>s. granted \subseteq granted' /\ skewed \in 0..MaxSkewed /\ drawn \in Nat
      /\ MaxSkewed \in Nat /\ pending \in Seq(Item) /\ cursor \in [Tasks -> Nat]
  BY ServerSteps, BudgetAssumption DEF ServerStep, ServerInv, ItemsInv
<1>b. \A item \in Items : Built(item)
  BY DEF ServerInv, ItemsInv
<1>k. ASSUME NEW item, Built(item), drawn' \in {drawn, drawn + 1} PROVE Built(item)'
  BY <1>k, <1>s DEF Built, GrantOf
<1>1. CASE UNCHANGED outboxVars /\ late' \subseteq Sending
  <2>1. Outbox!PendingItems' = Outbox!PendingItems
    BY <1>1 DEF outboxVars, Outbox!PendingItems
  <2>2. ItemsStep
    BY <1>1, <2>1 DEF ItemsStep, outboxVars
  <2>3. Items' \subseteq Items
    BY <1>1, <2>1 DEF Items, Sending, Waiting, outboxVars
  <2>4. drawn' = drawn /\ cursor' = cursor /\ pending' = pending /\ skewed' = skewed
    BY <1>1 DEF outboxVars
  <2>5. QED BY <1>b, <1>k, <1>s, <2>2, <2>3, <2>4 DEF ItemsInv
<1>2. CASE Persists /\ UNCHANGED late
  <2>0. lease \in granted /\ lease \in CP!Grant /\ lease.node = Host /\ lease.task \in Tasks
    BY <1>2, ServerTypes DEF Persists, ControlInv, Attempting, Places
  <2>p. PICK seq \in Nat :
          \E body :
            /\ Outbox!Persist(Outbox!Item(lease, seq, body))
            /\ \/ seq = Outbox!Highest(lease.task) + 1 /\ body \in {"accepted", "evidence"}
               \/ seq = 0 /\ body = outcome /\ pc \in {"report", "catch"}
    BY <1>2 DEF Persists
  <2>1. PICK body :
            /\ Outbox!Persist(Outbox!Item(lease, seq, body))
            /\ \/ seq = Outbox!Highest(lease.task) + 1 /\ body \in {"accepted", "evidence"}
               \/ seq = 0 /\ body = outcome /\ pc \in {"report", "catch"}
    BY <2>p
  <2>x. PICK x : x = Outbox!Item(lease, seq, body)
    OBVIOUS
  <2>2. (seq = 0 /\ body = outcome /\ pc \in {"report", "catch"} /\ body \in Finals)
        \/ (seq > 0 /\ body \in {"accepted", "evidence"})
    <3>1. Outbox!Highest(lease.task) \in Nat
      BY <2>0, HighestIsNumber
    <3>2. QED BY <2>1, <3>1 DEF ControlInv
  <2>3. /\ x = [task |-> lease.task,
                env |-> [delivery |-> drawn + 1, exec |-> lease.exec, lease |-> lease.id,
                         token |-> lease.token, seq |-> seq, body |-> body]]
    BY <2>x DEF Outbox!Item
  <2>4. x \in Item
    <3>1. body \in CP!EventBodies \cup CP!TerminalStates
      BY <2>2 DEF Finals, CP!EventBodies, CP!TerminalStates
    <3>2. QED BY <2>0, <2>3, <3>1, <1>s DEF Item, CP!Envelope, CP!Grant, Deliveries
  <2>5. GrantOf(x) = lease
    BY <2>0, <2>3 DEF GrantOf, CP!Grant
  <2>6. /\ x.task = lease.task /\ x.env.lease = lease.id /\ x.env.delivery = drawn + 1
        /\ x.env.seq = seq /\ x.env.body = body
    BY <2>3
  <2>7. /\ pending' \in Seq(Item) /\ Outbox!PendingItems' = Outbox!PendingItems \cup {x}
    BY <2>x, <2>1, <2>4, <1>s, PersistSet
  <2>8. /\ drawn' = drawn + 1 /\ cursor' = cursor /\ quarantined' = quarantined
        /\ skewed' = skewed \/ (skewed < MaxSkewed /\ skewed' = skewed + 1)
    BY <2>1 DEF Outbox!Persist
  <2>9. NewItem(x)
    BY <1>2, <2>0, <2>2, <2>4, <2>5, <2>6, <2>7, <2>8 DEF NewItem
  <2>10. Built(x)'
    <3>1. x.env.delivery \in 1..drawn' /\ GrantOf(x) \in granted'
      BY <1>s, <2>0, <2>5, <2>6, <2>8
    <3>2. QED BY <2>2, <2>4, <2>6, <3>1 DEF Built, GrantOf
  <2>11. Items' = Items \cup {x}
    BY <1>2, <2>7, <2>8 DEF Items, Sending, Waiting
  <2>12. QED BY <1>b, <1>k, <1>s, <2>7, <2>8, <2>9, <2>10, <2>11 DEF ItemsStep, ItemsInv
<1>3. CASE Outbox!WriteCursor(lease.task) /\ pc = "cursor" /\ UNCHANGED late
  <2>0. lease.task \in Tasks
    BY <1>3, ServerTypes DEF ControlInv, Attempting
  <2>1. cursor' \in [Tasks -> Nat]
    BY <1>3, <2>0, <1>s, HighestIsNumber DEF Outbox!WriteCursor
  <2>2. UNCHANGED <<pending, quarantined, drawn, skewed, late>>
    BY <1>3 DEF Outbox!WriteCursor
  <2>3. Outbox!PendingItems' = Outbox!PendingItems
    BY <2>2 DEF Outbox!PendingItems
  <2>4. Items' = Items
    BY <2>2, <2>3 DEF Items, Sending, Waiting
  <2>5. ItemsStep
    BY <2>2, <2>3 DEF ItemsStep, Sending, Waiting
  <2>6. QED BY <1>b, <1>k, <1>s, <2>1, <2>2, <2>4, <2>5 DEF ItemsInv
<1>4. CASE \E item \in Outbox!PendingItems :
              /\ item = Head(pending)
              /\ Outbox!Ack(item) /\ Processed(item) /\ UNCHANGED torn /\ UNCHANGED late
  <2>1. PICK x \in Outbox!PendingItems :
            /\ x = Head(pending)
            /\ Outbox!Ack(x) /\ Processed(x) /\ UNCHANGED torn /\ UNCHANGED late
    BY <1>4
  <2>2. x.env \in mem'[x.task].delivered
    BY <2>1, ProcessedStep DEF Sending, Waiting
  <2>3. /\ pending' = Outbox!Without(x)
        /\ UNCHANGED <<cursor, quarantined, drawn, skewed, late>>
    BY <2>1 DEF Outbox!Ack
  <2>4. /\ pending' \in Seq(Item)
        /\ Outbox!PendingItems' \subseteq Outbox!PendingItems
        /\ Outbox!PendingItems \subseteq Outbox!PendingItems' \cup {x}
    BY <2>3, <1>s, WithoutSet
  <2>5. Items' \subseteq Items
    BY <2>3, <2>4 DEF Items, Sending, Waiting
  <2>6. ItemsStep
    BY <2>2, <2>3, <2>4 DEF ItemsStep
  <2>7. QED BY <1>b, <1>k, <1>s, <2>3, <2>4, <2>5, <2>6 DEF ItemsInv
<1>5. CASE \E item \in Outbox!PendingItems :
              Outbox!Quarantine(item) /\ Stale(item) /\ UNCHANGED cpVars /\ UNCHANGED late
  <2>1. PICK x \in Outbox!PendingItems :
            Outbox!Quarantine(x) /\ Stale(x) /\ UNCHANGED cpVars /\ UNCHANGED late
    BY <1>5
  <2>3. /\ pending' = Outbox!Without(x) /\ quarantined' = quarantined \cup {x}
        /\ UNCHANGED <<cursor, drawn, skewed, late>>
    BY <2>1 DEF Outbox!Quarantine
  <2>4. /\ pending' \in Seq(Item)
        /\ Outbox!PendingItems' \subseteq Outbox!PendingItems
        /\ Outbox!PendingItems \subseteq Outbox!PendingItems' \cup {x}
    BY <2>3, <1>s, WithoutSet
  <2>5. Items' \subseteq Items
    BY <2>3, <2>4 DEF Items, Sending, Waiting
  <2>6. ItemsStep
    BY <2>1, <2>3, <2>4 DEF ItemsStep
  <2>7. QED BY <1>b, <1>k, <1>s, <2>3, <2>4, <2>5, <2>6 DEF ItemsInv
<1>6. QED BY <1>1, <1>2, <1>3, <1>4, <1>5 DEF Kinds, OutboxKinds

-----------------------------------------------------------------------------
(* How the loop moves. *)

(* Places after the acceptance and up to the end of the Turn. *)
CodexPlace ==
    \/ pc \in {"preflight", "map", "mapThread", "note", "turn", "start", "mapTurn", "poll",
               "result"}
    \/ pc \in {"cursor", "drain"} /\ then \in {"turn", "report"}

(* Places from which a Turn can still be started. *)
BeforeTurn ==
    \/ pc \in {"accept", "preflight", "map", "mapThread", "note", "turn", "start"}
    \/ pc \in {"cursor", "drain"} /\ then \in {"preflight", "turn"}

AwaitsAcceptance == pc \in {"cursor", "drain"} /\ then = "preflight"

Accepting(item) ==
    item.env.delivery = target => item.task = lease.task /\ item.env.body = "accepted"

Rests ==
    UNCHANGED <<pc, lease, then, target, outcome, mapping, threads, turns>>

Leaves ==
    /\ ~Attempting'
    /\ outcome' = "none" \/ (outcome' = outcome /\ ~Attempting)
    /\ UNCHANGED <<mapping, threads, turns, turnState>>

Begins ==
    /\ pc = "lease" /\ pc' = "accept"
    /\ \E t \in Tasks : CP!TryLease(t, Host)
    /\ UNCHANGED torn
    /\ lease' \in granted' \ granted
    /\ UNCHANGED <<outcome, mapping, threads, turns, turnState>>

Proceeds ==
    /\ Attempting /\ Attempting' /\ lease' = lease
    /\ CodexPlace' => \/ CodexPlace
                      \/ /\ AwaitsAcceptance
                         /\ \E item \in Outbox!PendingItems :
                               /\ item.env.delivery = target
                               /\ item.env \in mem'[item.task].delivered
    /\ BeforeTurn' => BeforeTurn
    /\ AwaitsAcceptance' => \/ AwaitsAcceptance /\ target' = target
                            \/ \A item \in Outbox!PendingItems' : Accepting(item)'
    /\ pc' = "mapThread" => mapping'[lease.task] = "none"
    /\ pc' = "start" => mapping[lease.task] = "thread" /\ mapping'[lease.task] = "intent"
                        /\ turns' = turns
    /\ pc' = "mapTurn" => pc = "start" /\ turns' = [turns EXCEPT ![lease.task] = @ + 1]
    /\ outcome' = "succeeded" => outcome = "succeeded" \/ turnState[lease.task] = "completed"

Moves == Rests \/ Leaves \/ Begins \/ Proceeds

LEMMA NewestDelivery ==
    ASSUME ServerInv, lease \in granted, NEW seq \in Nat,
           NEW body \in {"accepted", "evidence"} \cup Finals,
           Outbox!Persist(Outbox!Item(lease, seq, body))
    PROVE  /\ drawn' = drawn + 1
           /\ \A item \in Outbox!PendingItems' :
                 item.env.delivery = drawn' => item.task = lease.task /\ item.env.body = body
<1>s. drawn \in Nat /\ pending \in Seq(Item)
  BY DEF ServerInv, ItemsInv
<1>0. lease \in CP!Grant /\ lease.task \in Tasks
  BY ServerTypes
<1>1. PICK x : x = Outbox!Item(lease, seq, body)
  OBVIOUS
<1>2. /\ x = [task |-> lease.task,
              env |-> [delivery |-> drawn + 1, exec |-> lease.exec, lease |-> lease.id,
                       token |-> lease.token, seq |-> seq, body |-> body]]
  BY <1>1 DEF Outbox!Item
<1>3. x \in Item
  <2>1. body \in CP!EventBodies \cup CP!TerminalStates
    BY DEF Finals, CP!EventBodies, CP!TerminalStates
  <2>2. QED BY <1>0, <1>2, <2>1, <1>s DEF Item, CP!Envelope, CP!Grant, Deliveries
<1>4. Outbox!PendingItems' = Outbox!PendingItems \cup {x}
  BY <1>1, <1>3, <1>s, PersistSet
<1>5. drawn' = drawn + 1
  BY DEF Outbox!Persist
<1>6. \A item \in Outbox!PendingItems : item.env.delivery \in 1..drawn
  BY DEF ServerInv, ItemsInv, Items, Sending, Waiting, Built
<1>7. \A item \in Outbox!PendingItems : item.env.delivery # drawn'
  BY <1>5, <1>6, <1>s
<1>8. QED BY <1>2, <1>4, <1>5, <1>7

LEMMA DurableEventMoves ==
    ASSUME ServerInv, ControlInv, Kinds,
           NEW label \in {"accept", "note", "result"}, NEW body \in {"accepted", "evidence"},
           NEW next, DurableEvent(label, body, next),
           <<label, body, next>> \in {<<"accept", "accepted", "preflight">>,
                       <<"note", "evidence", "turn">>, <<"result", "evidence", "report">>}
    PROVE  ControlInv' /\ Moves
<1>s. granted \subseteq granted' /\ drawn \in Nat
  BY ServerSteps DEF ServerStep, ServerInv, ItemsInv
<1>0. lease \in granted /\ lease.task \in Tasks /\ Outbox!Highest(lease.task) \in Nat
  BY ServerTypes, HighestIsNumber DEF DurableEvent, ControlInv, Attempting, Places
<1>1. pc = label /\ UNCHANGED <<mapping, threads, turns, turnState>>
  BY DEF DurableEvent, codexVars
<1>2. CASE /\ Outbox!PersistEvent(lease, body)
           /\ pc' = "cursor" /\ then' = next /\ target' = drawn'
           /\ UNCHANGED <<lease, invalid, outcome, renewing, budgets>>
  <2>1. Outbox!Persist(Outbox!Item(lease, Outbox!Highest(lease.task) + 1, body))
    BY <1>2 DEF Outbox!PersistEvent
  <2>2. /\ drawn' = drawn + 1
        /\ \A item \in Outbox!PendingItems' :
              item.env.delivery = drawn' => item.task = lease.task /\ item.env.body = body
    BY <2>1, <1>0, NewestDelivery
  <2>3. ControlInv'
    BY <1>s, <1>0, <1>1, <1>2, <2>2 DEF ControlInv, Attempting, Places, Labels
  <2>4. AwaitsAcceptance' => \A item \in Outbox!PendingItems' : Accepting(item)'
    BY <1>2, <2>2 DEF AwaitsAcceptance, Accepting
  <2>5. Proceeds
    BY <1>1, <1>2, <2>4
    DEF Proceeds, Attempting, Places, CodexPlace, BeforeTurn, AwaitsAcceptance
  <2>6. QED BY <2>3, <2>5 DEF Moves
<1>3. CASE Goto("end") /\ UNCHANGED <<outboxVars, budgets>>
  <2>1. ControlInv'
    BY <1>s, <1>0, <1>1, <1>3 DEF Goto, outboxVars, ControlInv, Attempting, Places, Labels
  <2>2. Proceeds
    BY <1>1, <1>3
    DEF Goto, Proceeds, Attempting, Places, CodexPlace, BeforeTurn, AwaitsAcceptance
  <2>3. QED BY <2>1, <2>2 DEF Moves
<1>4. CASE Raise("failed") /\ UNCHANGED outboxVars
  <2>1. ControlInv'
    BY <1>s, <1>0, <1>1, <1>4
    DEF Raise, outboxVars, ControlInv, Attempting, Places, Labels, Finals
  <2>2. Proceeds
    BY <1>1, <1>4
    DEF Raise, Proceeds, Attempting, Places, CodexPlace, BeforeTurn, AwaitsAcceptance
  <2>3. QED BY <2>1, <2>2 DEF Moves
<1>5. QED BY <1>2, <1>3, <1>4 DEF DurableEvent

LEMMA StartMoves ==
    ASSUME ServerInv, ControlInv, Kinds, Start
    PROVE  ControlInv' /\ Moves
<1>s. granted \subseteq granted' /\ drawn \in Nat
  BY ServerSteps DEF ServerStep, ServerInv, ItemsInv
<1>0. Attempting => lease \in granted /\ lease.task \in Tasks
  BY ServerTypes DEF ControlInv
<1>1. ControlInv'
  BY <1>s, <1>0
  DEF Start, Still, Goto, outboxVars, codexVars, cpVars, ControlInv, Labels,
    Attempting, Places, Finals
<1>2. Leaves
  BY <1>0
  DEF Start, Still, Goto, outboxVars, codexVars, cpVars, ControlInv, Labels,
    Leaves, Attempting, Places
<1>3. QED BY <1>1, <1>2 DEF Moves

LEMMA CrashMoves ==
    ASSUME ServerInv, ControlInv, Kinds, Crash
    PROVE  ControlInv' /\ Moves
<1>s. granted \subseteq granted' /\ drawn \in Nat
  BY ServerSteps DEF ServerStep, ServerInv, ItemsInv
<1>0. Attempting => lease \in granted /\ lease.task \in Tasks
  BY ServerTypes DEF ControlInv
<1>z. drawn' = drawn /\ 0 \in 0..drawn
  BY <1>s DEF Crash, outboxVars, codexVars, cpVars
<1>1. ControlInv'
  BY <1>s, <1>0, <1>z
  DEF Crash, outboxVars, codexVars, cpVars, ControlInv, Attempting, Places,
    Labels, Finals
<1>2. Leaves
  BY <1>0 DEF Crash, outboxVars, codexVars, cpVars, Leaves, Attempting, Places
<1>3. QED BY <1>1, <1>2 DEF Moves

LEMMA RegisterMoves ==
    ASSUME ServerInv, ControlInv, Kinds, Register \/ Heartbeat
    PROVE  ControlInv' /\ Moves
<1>s. granted \subseteq granted' /\ drawn \in Nat
  BY ServerSteps DEF ServerStep, ServerInv, ItemsInv
<1>0. Attempting => lease \in granted /\ lease.task \in Tasks
  BY ServerTypes DEF ControlInv
<1>z. drawn' = drawn /\ 0 \in 0..drawn
  BY <1>s DEF Register, Heartbeat, Reconnect, Drain, outboxVars, codexVars
<1>1. ControlInv'
  BY <1>s, <1>0, <1>z
  DEF Register, Heartbeat, Reconnect, Drain, outboxVars, codexVars, ControlInv,
    Attempting, Places, Labels, Finals
<1>2. Leaves
  BY <1>0
  DEF Register, Heartbeat, Reconnect, Drain, outboxVars, codexVars, Leaves,
    Attempting, Places
<1>3. QED BY <1>1, <1>2 DEF Moves

LEMMA LeaseFailsMoves ==
    ASSUME ServerInv, ControlInv, Kinds, NEW t \in Tasks, LeaseFails(t)
    PROVE  ControlInv' /\ Moves
<1>s. granted \subseteq granted' /\ drawn \in Nat
  BY ServerSteps DEF ServerStep, ServerInv, ItemsInv
<1>0. Attempting => lease \in granted /\ lease.task \in Tasks
  BY ServerTypes DEF ControlInv
<1>1. ControlInv'
  BY <1>s, <1>0
  DEF LeaseFails, Reconnect, outboxVars, codexVars, ControlInv, Attempting,
    Places, Labels, Finals
<1>2. Leaves
  BY <1>0 DEF LeaseFails, Reconnect, outboxVars, codexVars, Leaves, Attempting, Places
<1>3. QED BY <1>1, <1>2 DEF Moves

LEMMA EndAttemptMoves ==
    ASSUME ServerInv, ControlInv, Kinds, EndAttempt
    PROVE  ControlInv' /\ Moves
<1>s. granted \subseteq granted' /\ drawn \in Nat
  BY ServerSteps DEF ServerStep, ServerInv, ItemsInv
<1>0. Attempting => lease \in granted /\ lease.task \in Tasks
  BY ServerTypes DEF ControlInv
<1>z. drawn' = drawn /\ 0 \in 0..drawn
  BY <1>s DEF EndAttempt, outboxVars, codexVars, cpVars
<1>1. ControlInv'
  BY <1>s, <1>0, <1>z
  DEF EndAttempt, outboxVars, codexVars, cpVars, ControlInv, Attempting,
    Places, Labels, Finals
<1>2. Leaves
  BY <1>0 DEF EndAttempt, outboxVars, codexVars, cpVars, Leaves, Attempting, Places
<1>3. QED BY <1>1, <1>2 DEF Moves

LEMMA PreflightMoves ==
    ASSUME ServerInv, ControlInv, Kinds, Preflight
    PROVE  ControlInv' /\ Moves
<1>s. granted \subseteq granted' /\ drawn \in Nat
  BY ServerSteps DEF ServerStep, ServerInv, ItemsInv
<1>0. Attempting => lease \in granted /\ lease.task \in Tasks
  BY ServerTypes DEF ControlInv
<1>1. ControlInv'
  BY <1>s, <1>0
  DEF Preflight, Goto, Raise, outboxVars, codexVars, cpVars, ControlInv,
    Attempting, Places, Labels, Finals
<1>2. Proceeds
  BY <1>0
  DEF Preflight, Goto, Raise, outboxVars, codexVars, cpVars, Proceeds,
    Attempting, Places, CodexPlace, BeforeTurn, AwaitsAcceptance
<1>3. QED BY <1>1, <1>2 DEF Moves

LEMMA StartThreadMoves ==
    ASSUME ServerInv, ControlInv, Kinds, StartThread
    PROVE  ControlInv' /\ Moves
<1>s. granted \subseteq granted' /\ drawn \in Nat
  BY ServerSteps DEF ServerStep, ServerInv, ItemsInv
<1>0. Attempting => lease \in granted /\ lease.task \in Tasks
  BY ServerTypes DEF ControlInv
<1>1. ControlInv'
  BY <1>s, <1>0
  DEF StartThread, Goto, Raise, outboxVars, codexVars, cpVars, ControlInv,
    Attempting, Places, Labels, Finals
<1>2. Proceeds
  BY <1>0
  DEF StartThread, Goto, Raise, outboxVars, codexVars, cpVars, Proceeds,
    Attempting, Places, CodexPlace, BeforeTurn, AwaitsAcceptance
<1>3. QED BY <1>1, <1>2 DEF Moves

LEMMA MapThreadMoves ==
    ASSUME ServerInv, ControlInv, Kinds, PutMapping("mapThread", "thread", "note", "failed")
    PROVE  ControlInv' /\ Moves
<1>s. granted \subseteq granted' /\ drawn \in Nat
  BY ServerSteps DEF ServerStep, ServerInv, ItemsInv
<1>0. Attempting => lease \in granted /\ lease.task \in Tasks
  BY ServerTypes DEF ControlInv
<1>1. ControlInv'
  BY <1>s, <1>0
  DEF PutMapping, Goto, Raise, outboxVars, codexVars, cpVars, ControlInv,
    Attempting, Places, Labels, Finals
<1>2. Proceeds
  BY <1>0
  DEF PutMapping, Goto, Raise, outboxVars, codexVars, cpVars, Proceeds,
    Attempting, Places, CodexPlace, BeforeTurn, AwaitsAcceptance
<1>3. QED BY <1>1, <1>2 DEF Moves

LEMMA ResumeTurnMoves ==
    ASSUME ServerInv, ControlInv, Kinds, ResumeTurn
    PROVE  ControlInv' /\ Moves
<1>s. granted \subseteq granted' /\ drawn \in Nat
  BY ServerSteps DEF ServerStep, ServerInv, ItemsInv
<1>0. Attempting => lease \in granted /\ lease.task \in Tasks
  BY ServerTypes DEF ControlInv
<1>1. ControlInv'
  BY <1>s, <1>0
  DEF ResumeTurn, Still, Goto, outboxVars, codexVars, cpVars, ControlInv,
    Attempting, Places, Labels, Finals
<1>2. Proceeds
  BY <1>0
  DEF ResumeTurn, Still, Goto, outboxVars, codexVars, cpVars, Proceeds,
    Attempting, Places, CodexPlace, BeforeTurn, AwaitsAcceptance
<1>3. QED BY <1>1, <1>2 DEF Moves

LEMMA RecoverTurnMoves ==
    ASSUME ServerInv, ControlInv, Kinds, RecoverTurn
    PROVE  ControlInv' /\ Moves
<1>s. granted \subseteq granted' /\ drawn \in Nat
  BY ServerSteps DEF ServerStep, ServerInv, ItemsInv
<1>0. Attempting => lease \in granted /\ lease.task \in Tasks
  BY ServerTypes DEF ControlInv
<1>1. ControlInv'
  BY <1>s, <1>0
  DEF RecoverTurn, Goto, Raise, outboxVars, codexVars, cpVars, ControlInv,
    Attempting, Places, Labels, Finals
<1>2. Proceeds
  BY <1>0
  DEF RecoverTurn, Goto, Raise, outboxVars, codexVars, cpVars, Proceeds,
    Attempting, Places, CodexPlace, BeforeTurn, AwaitsAcceptance
<1>3. QED BY <1>1, <1>2 DEF Moves

LEMMA PersistIntentMoves ==
    ASSUME ServerInv, ControlInv, Kinds, mapping \in [Tasks -> MappingStates], PersistIntent
    PROVE  ControlInv' /\ Moves
<1>s. granted \subseteq granted' /\ drawn \in Nat
  BY ServerSteps DEF ServerStep, ServerInv, ItemsInv
<1>0. Attempting => lease \in granted /\ lease.task \in Tasks
  BY ServerTypes DEF ControlInv
<1>1. ControlInv'
  BY <1>s, <1>0
  DEF PersistIntent, PutMapping, Goto, Raise, outboxVars, codexVars, cpVars,
    ControlInv, Attempting, Places, Labels, Finals
<1>2. Proceeds
  BY <1>0
  DEF PersistIntent, PutMapping, Goto, Raise, outboxVars, codexVars, cpVars,
    Proceeds, Attempting, Places, CodexPlace, BeforeTurn, AwaitsAcceptance
<1>3. QED BY <1>1, <1>2 DEF Moves

LEMMA StartTurnMoves ==
    ASSUME ServerInv, ControlInv, Kinds, StartTurn
    PROVE  ControlInv' /\ Moves
<1>s. granted \subseteq granted' /\ drawn \in Nat
  BY ServerSteps DEF ServerStep, ServerInv, ItemsInv
<1>0. Attempting => lease \in granted /\ lease.task \in Tasks
  BY ServerTypes DEF ControlInv
<1>1. ControlInv'
  BY <1>s, <1>0
  DEF StartTurn, Goto, Raise, outboxVars, codexVars, cpVars, ControlInv,
    Attempting, Places, Labels, Finals
<1>2. Proceeds
  BY <1>0
  DEF StartTurn, Goto, Raise, outboxVars, codexVars, cpVars, Proceeds,
    Attempting, Places, CodexPlace, BeforeTurn, AwaitsAcceptance
<1>3. QED BY <1>1, <1>2 DEF Moves

LEMMA MapTurnMoves ==
    ASSUME ServerInv, ControlInv, Kinds, PutMapping("mapTurn", "turn", "poll", "outcome_unknown")
    PROVE  ControlInv' /\ Moves
<1>s. granted \subseteq granted' /\ drawn \in Nat
  BY ServerSteps DEF ServerStep, ServerInv, ItemsInv
<1>0. Attempting => lease \in granted /\ lease.task \in Tasks
  BY ServerTypes DEF ControlInv
<1>1. ControlInv'
  BY <1>s, <1>0
  DEF PutMapping, Goto, Raise, outboxVars, codexVars, cpVars, ControlInv,
    Attempting, Places, Labels, Finals
<1>2. Proceeds
  BY <1>0
  DEF PutMapping, Goto, Raise, outboxVars, codexVars, cpVars, Proceeds,
    Attempting, Places, CodexPlace, BeforeTurn, AwaitsAcceptance
<1>3. QED BY <1>1, <1>2 DEF Moves

LEMMA PollMoves ==
    ASSUME ServerInv, ControlInv, Kinds, Poll
    PROVE  ControlInv' /\ Moves
<1>s. granted \subseteq granted' /\ drawn \in Nat
  BY ServerSteps DEF ServerStep, ServerInv, ItemsInv
<1>0. Attempting => lease \in granted /\ lease.task \in Tasks
  BY ServerTypes DEF ControlInv
<1>1. ControlInv'
  BY <1>s, <1>0
  DEF Poll, Conclude, Verdict, Goto, Raise, outboxVars, codexVars, cpVars,
    ControlInv, Attempting, Places, Labels, Finals
<1>2. Proceeds
  BY <1>0
  DEF Poll, Conclude, Verdict, Goto, Raise, outboxVars, codexVars, cpVars,
    Proceeds, Attempting, Places, CodexPlace, BeforeTurn, AwaitsAcceptance
<1>3. QED BY <1>1, <1>2 DEF Moves

LEMMA SendRenewalMoves ==
    ASSUME ServerInv, ControlInv, Kinds, SendRenewal
    PROVE  ControlInv' /\ Moves
<1>s. granted \subseteq granted' /\ drawn \in Nat
  BY ServerSteps DEF ServerStep, ServerInv, ItemsInv
<1>0. Attempting => lease \in granted /\ lease.task \in Tasks
  BY ServerTypes DEF ControlInv
<1>1. ControlInv'
  BY <1>s, <1>0
  DEF SendRenewal, loopVars, outboxVars, codexVars, cpVars, ControlInv,
    Attempting, Places, Labels, Finals
<1>2. Rests
  BY <1>0 DEF SendRenewal, loopVars, outboxVars, codexVars, cpVars, Rests
<1>3. QED BY <1>1, <1>2 DEF Moves

LEMMA RenewalAcceptedMoves ==
    ASSUME ServerInv, ControlInv, Kinds, NEW g \in renewals, RenewalAccepted(g)
    PROVE  ControlInv' /\ Moves
<1>s. granted \subseteq granted' /\ drawn \in Nat
  BY ServerSteps DEF ServerStep, ServerInv, ItemsInv
<1>0. Attempting => lease \in granted /\ lease.task \in Tasks
  BY ServerTypes DEF ControlInv
<1>1. ControlInv'
  BY <1>s, <1>0
  DEF RenewalAccepted, loopVars, outboxVars, codexVars, ControlInv, Attempting,
    Places, Labels, Finals
<1>2. Rests
  BY <1>0 DEF RenewalAccepted, loopVars, outboxVars, codexVars, Rests
<1>3. QED BY <1>1, <1>2 DEF Moves

LEMMA RenewalRejectedMoves ==
    ASSUME ServerInv, ControlInv, Kinds, NEW g \in renewals, RenewalRejected(g)
    PROVE  ControlInv' /\ Moves
<1>s. granted \subseteq granted' /\ drawn \in Nat
  BY ServerSteps DEF ServerStep, ServerInv, ItemsInv
<1>0. Attempting => lease \in granted /\ lease.task \in Tasks
  BY ServerTypes DEF ControlInv
<1>1. ControlInv'
  BY <1>s, <1>0
  DEF RenewalRejected, outboxVars, codexVars, cpVars, ControlInv, Attempting,
    Places, Labels, Finals
<1>2. Rests
  BY <1>0 DEF RenewalRejected, outboxVars, codexVars, cpVars, Rests
<1>3. QED BY <1>1, <1>2 DEF Moves

LEMMA LateMoves ==
    ASSUME ServerInv, ControlInv, Kinds, NEW item \in late, LateArrival(item)
    PROVE  ControlInv' /\ Moves
<1>s. granted \subseteq granted' /\ drawn \in Nat
  BY ServerSteps DEF ServerStep, ServerInv, ItemsInv
<1>0. Attempting => lease \in granted /\ lease.task \in Tasks
  BY ServerTypes DEF ControlInv
<1>1. ControlInv'
  BY <1>s, <1>0
  DEF LateArrival, loopVars, outboxVars, codexVars, ControlInv, Attempting,
    Places, Labels, Finals
<1>2. Rests
  BY <1>0 DEF LateArrival, loopVars, outboxVars, codexVars, Rests
<1>3. QED BY <1>1, <1>2 DEF Moves

LEMMA SubmitMoves ==
    ASSUME ServerInv, ControlInv, Kinds, NEW t \in Tasks, NEW e \in Executions, SubmitTask(t, e)
    PROVE  ControlInv' /\ Moves
<1>s. granted \subseteq granted' /\ drawn \in Nat
  BY ServerSteps DEF ServerStep, ServerInv, ItemsInv
<1>1. ControlInv'
  BY <1>s DEF SubmitTask, loopVars, outboxVars, codexVars, ControlInv, Attempting
<1>2. Rests
  BY DEF SubmitTask, loopVars, outboxVars, codexVars, Rests
<1>3. QED BY <1>1, <1>2 DEF Moves

LEMMA TurnFinishesMoves ==
    ASSUME ServerInv, ControlInv, Kinds, NEW t \in Tasks, TurnFinishes(t)
    PROVE  ControlInv' /\ Moves
<1>s. granted \subseteq granted' /\ drawn \in Nat
  BY ServerSteps DEF ServerStep, ServerInv, ItemsInv
<1>1. ControlInv'
  BY <1>s DEF TurnFinishes, loopVars, outboxVars, codexVars, cpVars, ControlInv, Attempting
<1>2. Rests
  BY DEF TurnFinishes, loopVars, outboxVars, codexVars, cpVars, Rests
<1>3. QED BY <1>1, <1>2 DEF Moves

LEMMA ClockMoves ==
    ASSUME ServerInv, ControlInv, Kinds, Tick \/ ServerRestart
    PROVE  ControlInv' /\ Moves
<1>s. granted \subseteq granted' /\ drawn \in Nat
  BY ServerSteps DEF ServerStep, ServerInv, ItemsInv
<1>1. ControlInv'
  BY <1>s DEF Tick, ServerRestart, loopVars, outboxVars, codexVars, ControlInv, Attempting
<1>2. Rests
  BY DEF Tick, ServerRestart, loopVars, outboxVars, codexVars, Rests
<1>3. QED BY <1>1, <1>2 DEF Moves

LEMMA TakeLeaseMoves ==
    ASSUME ServerInv, ControlInv, Kinds, NEW t \in Tasks, TakeLease(t)
    PROVE  ControlInv' /\ Moves
<1>s. granted \subseteq granted' /\ drawn \in Nat
  BY ServerSteps DEF ServerStep, ServerInv, ItemsInv
<1>1. /\ pc = "lease" /\ pc' = "accept" /\ invalid' = FALSE
      /\ lease' \in granted' \ granted
      /\ UNCHANGED <<then, target, outcome, renewing, drawn, mapping, threads, turns, turnState>>
  BY DEF TakeLease, outboxVars, codexVars
<1>2. ControlInv'
  BY <1>s, <1>1 DEF ControlInv, Attempting, Places, Labels
<1>3. Begins
  BY <1>1 DEF TakeLease, ServerError, Begins
<1>4. QED BY <1>2, <1>3 DEF Moves

LEMMA WriteCursorMoves ==
    ASSUME ServerInv, ControlInv, Kinds, WriteCursor
    PROVE  ControlInv' /\ Moves
<1>s. granted \subseteq granted' /\ drawn \in Nat
  BY ServerSteps DEF ServerStep, ServerInv, ItemsInv
<1>1. /\ pc = "cursor"
      /\ \/ pc' \in {AfterNull, "drain"} /\ outcome' = outcome
         \/ pc' = "catch" /\ outcome' = "failed"
      /\ UNCHANGED <<lease, invalid, then, target, renewing, drawn>>
      /\ UNCHANGED <<mapping, threads, turns, turnState>>
  BY DEF WriteCursor, Goto, Raise, Outbox!WriteCursor, outboxVars, codexVars
<1>2. ControlInv'
  BY <1>s, <1>1 DEF AfterNull, Required, ControlInv, Attempting, Places, Labels, Finals
<1>3. Proceeds
  BY <1>1 DEF AfterNull, Required, ControlInv, Proceeds, Attempting, Places, CodexPlace,
     BeforeTurn, AwaitsAcceptance
<1>4. QED BY <1>2, <1>3 DEF Moves

(* A drain ends where it continues, where its attempt ends, or, outside an *)
(* attempt, at a new registration.                                         *)
LEMMA DrainGoes ==
    ASSUME ServerInv, ControlInv, Kinds,
           pc = "drain",
           UNCHANGED <<lease, then, target, outcome, drawn, mapping, threads, turns, turnState>>,
           invalid' \in BOOLEAN,
           \/ pc' \in {AfterNull, AfterThrow} /\ renewing' = renewing
           \/ /\ pc' = then /\ renewing' = (renewing \/ Required)
              /\ \E item \in Outbox!PendingItems :
                    item.env.delivery = target /\ item.env \in mem'[item.task].delivered
    PROVE  ControlInv' /\ Moves
<1>s. granted \subseteq granted' /\ drawn \in Nat
  BY ServerSteps DEF ServerStep, ServerInv, ItemsInv
<1>1. CASE then \in {"heartbeat", "lease"}
  <2>1. pc' \in {"heartbeat", "lease", "register"} /\ renewing' = renewing /\ ~Attempting
    BY <1>1 DEF AfterNull, AfterThrow, Required, Attempting, Places, ControlInv
  <2>2. ControlInv'
    BY <1>s, <1>1, <2>1 DEF ControlInv, Attempting, Places, Labels
  <2>3. Leaves
    BY <2>1 DEF Leaves, Attempting, Places
  <2>4. QED BY <2>2, <2>3 DEF Moves
<1>2. CASE then = "preflight"
  <2>1. \/ pc' = "end" /\ renewing' = renewing
        \/ /\ pc' = "preflight" /\ renewing' \in BOOLEAN
           /\ \E item \in Outbox!PendingItems :
                 item.env.delivery = target /\ item.env \in mem'[item.task].delivered
    BY <1>2 DEF AfterNull, AfterThrow, Required, ControlInv
  <2>2. ControlInv'
    BY <1>s, <1>2, <2>1 DEF ControlInv, Attempting, Places, Labels
  <2>3. Proceeds
    BY <1>2, <2>1 DEF Proceeds, Attempting, Places, CodexPlace, BeforeTurn, AwaitsAcceptance
  <2>4. QED BY <2>2, <2>3 DEF Moves
<1>3. CASE then \in {"turn", "report", "end"}
  <2>1. pc' = then /\ renewing' = renewing
    BY <1>3 DEF AfterNull, AfterThrow, Required, ControlInv
  <2>2. ControlInv'
    BY <1>s, <1>3, <2>1 DEF ControlInv, Attempting, Places, Labels
  <2>3. Proceeds
    BY <1>3, <2>1 DEF Proceeds, Attempting, Places, CodexPlace, BeforeTurn, AwaitsAcceptance
  <2>4. QED BY <2>2, <2>3 DEF Moves
<1>4. QED BY <1>1, <1>2, <1>3 DEF ControlInv

LEMMA DrainStays ==
    ASSUME ServerInv, ControlInv, Kinds,
           UNCHANGED <<pc, lease, then, target, outcome, renewing, drawn, mapping, threads, turns>>,
           invalid' \in BOOLEAN
    PROVE  ControlInv' /\ Moves
<1>s. granted \subseteq granted'
  BY ServerSteps DEF ServerStep
<1>1. ControlInv'
  BY <1>s DEF ControlInv, Attempting
<1>2. QED BY <1>1 DEF Moves, Rests

LEMMA DrainEndsMoves ==
    ASSUME ServerInv, ControlInv, Kinds, DrainEnds
    PROVE  ControlInv' /\ Moves
  BY DrainGoes DEF DrainEnds, Goto, Still, outboxVars, codexVars, ControlInv

LEMMA ThrowMoves ==
    ASSUME ServerInv, ControlInv, Kinds, NEW item \in Outbox!PendingItems,
           \/ PublishOutOfSequence(item) \/ PublishLost(item) \/ PublishFailsOnServer(item)
    PROVE  ControlInv' /\ Moves
<1>1. /\ pc = "drain" /\ Throw
      /\ UNCHANGED <<drawn, mapping, threads, turns, turnState>>
  BY DEF PublishOutOfSequence, PublishLost, PublishFailsOnServer, Publishing, Still,
     outboxVars, codexVars
<1>2. /\ pc' = AfterThrow /\ invalid' \in BOOLEAN
      /\ UNCHANGED <<lease, then, target, outcome, renewing>>
  BY <1>1 DEF Throw, ControlInv
<1>3. QED BY <1>1, <1>2, DrainGoes

LEMMA PublishAcceptedMoves ==
    ASSUME ServerInv, ControlInv, Kinds, NEW item \in Outbox!PendingItems, PublishAccepted(item)
    PROVE  ControlInv' /\ Moves
<1>1. /\ pc = "drain"
      /\ UNCHANGED <<lease, invalid, then, target, outcome, drawn>>
      /\ UNCHANGED <<mapping, threads, turns, turnState>>
      /\ IF item.env.delivery = target
         THEN pc' = then /\ renewing' = (renewing \/ Required)
         ELSE UNCHANGED <<pc, renewing>>
  BY DEF PublishAccepted, Publishing, Outbox!Ack, codexVars
<1>2. item.env \in mem'[item.task].delivered
  BY ProcessedStep DEF PublishAccepted, Publishing, ServerError, Sending, Waiting
<1>3. invalid' \in BOOLEAN
  BY <1>1 DEF ControlInv
<1>4. CASE item.env.delivery = target
  BY <1>1, <1>2, <1>3, <1>4, DrainGoes
<1>5. CASE item.env.delivery # target
  BY <1>1, <1>3, <1>5, DrainStays
<1>6. QED BY <1>4, <1>5

LEMMA PublishStaleMoves ==
    ASSUME ServerInv, ControlInv, Kinds, NEW item \in Outbox!PendingItems, PublishStale(item)
    PROVE  ControlInv' /\ Moves
<1>1. /\ pc = "drain"
      /\ UNCHANGED <<lease, then, target, outcome, renewing, drawn>>
      /\ UNCHANGED <<mapping, threads, turns, turnState>>
      /\ pc' = IF item.env.delivery = target THEN AfterNull ELSE pc
  BY DEF PublishStale, Publishing, Outbox!Quarantine, codexVars
<1>2. invalid' \in BOOLEAN
  BY DEF PublishStale, ControlInv
<1>3. CASE item.env.delivery = target
  BY <1>1, <1>2, <1>3, DrainGoes
<1>4. CASE item.env.delivery # target
  BY <1>1, <1>2, <1>4, DrainStays
<1>5. QED BY <1>3, <1>4

LEMMA ReportMoves ==
    ASSUME ServerInv, ControlInv, Kinds, Report
    PROVE  ControlInv' /\ Moves
<1>s. granted \subseteq granted' /\ drawn \in Nat
  BY ServerSteps DEF ServerStep, ServerInv, ItemsInv
<1>1. /\ pc \in {"report", "catch"}
      /\ \/ /\ pc' \in {"end", "drain"} /\ then' = "end" /\ target' = drawn' /\ drawn' = drawn + 1
            /\ outcome' = outcome
         \/ /\ pc' = "end" /\ outcome' = outcome /\ UNCHANGED <<then, target, drawn>>
         \/ /\ pc' = "catch" /\ outcome' = "failed" /\ UNCHANGED <<then, target, drawn>>
      /\ UNCHANGED <<lease, invalid, renewing>>
      /\ UNCHANGED <<mapping, threads, turns, turnState>>
  BY DEF Report, Goto, Raise, Outbox!PersistTerminal, Outbox!Persist, outboxVars, codexVars
<1>2. ControlInv'
  BY <1>s, <1>1 DEF ControlInv, Attempting, Places, Labels, Finals
<1>3. Proceeds
  BY <1>1 DEF Proceeds, Attempting, Places, CodexPlace, BeforeTurn, AwaitsAcceptance
<1>4. QED BY <1>2, <1>3 DEF Moves

LEMMA LoopMoves ==
    ASSUME ServerInv, ControlInv, mapping \in [Tasks -> MappingStates], [Next]_vars
    PROVE  ControlInv' /\ Moves
<1>k. Kinds
  BY StepKinds
<1>1. CASE LoopStep
  <2>1. /\ DurableEvent("accept", "accepted", "preflight") => ControlInv' /\ Moves
        /\ DurableEvent("note", "evidence", "turn") => ControlInv' /\ Moves
        /\ DurableEvent("result", "evidence", "report") => ControlInv' /\ Moves
    BY <1>k, DurableEventMoves
  <2>2. ASSUME NEW item \in Outbox!PendingItems,
               PublishAccepted(item) \/ PublishStale(item) \/ PublishOutOfSequence(item)
        PROVE  ControlInv' /\ Moves
    BY <1>k, <2>2, PublishAcceptedMoves, PublishStaleMoves, ThrowMoves
  <2>3. QED
    BY <1>1, <1>k, <2>1, <2>2, StartMoves, RegisterMoves, TakeLeaseMoves, WriteCursorMoves,
       DrainEndsMoves, PreflightMoves, StartThreadMoves, MapThreadMoves, ResumeTurnMoves,
       RecoverTurnMoves, PersistIntentMoves, StartTurnMoves, MapTurnMoves, PollMoves,
       ReportMoves, EndAttemptMoves DEF LoopStep
<1>2. CASE Environment
  <2>1. ASSUME NEW item \in Outbox!PendingItems, PublishLost(item) \/ PublishFailsOnServer(item)
        PROVE  ControlInv' /\ Moves
    BY <1>k, <2>1, ThrowMoves
  <2>2. ASSUME NEW g \in renewals, RenewalAccepted(g) \/ RenewalRejected(g)
        PROVE  ControlInv' /\ Moves
    BY <1>k, <2>2, RenewalAcceptedMoves, RenewalRejectedMoves
  <2>3. ASSUME NEW t \in Tasks, NEW e \in Executions, SubmitTask(t, e)
        PROVE  ControlInv' /\ Moves
    BY <1>k, <2>3, SubmitMoves
  <2>4. (Crash \/ SendRenewal \/ Tick \/ ServerRestart) => ControlInv' /\ Moves
    BY <1>k, CrashMoves, SendRenewalMoves, ClockMoves
  <2>5. ASSUME NEW t \in Tasks, LeaseFails(t) \/ TurnFinishes(t) PROVE ControlInv' /\ Moves
    BY <1>k, <2>5, LeaseFailsMoves, TurnFinishesMoves
  <2>6. ASSUME NEW item \in late, LateArrival(item) PROVE ControlInv' /\ Moves
    BY <1>k, <2>6, LateMoves
  <2>7. QED BY <1>2, <2>1, <2>2, <2>3, <2>4, <2>5, <2>6 DEF Environment
<1>3. CASE UNCHANGED vars
  BY <1>3, <1>k, DrainStays DEF vars, loopVars, outboxVars, codexVars, ControlInv
<1>4. QED BY <1>1, <1>2, <1>3 DEF Next

-----------------------------------------------------------------------------
(* What a step does to Codex, the mapping file and the renewals in flight. *)

CodexKinds ==
    \/ UNCHANGED <<mapping, threads, turns, turnState>>
    \/ /\ pc = "map" /\ threads' = [threads EXCEPT ![lease.task] = @ + 1]
       /\ UNCHANGED <<mapping, turns, turnState>>
    \/ /\ \E v \in MappingStates :
             /\ mapping' = [mapping EXCEPT ![lease.task] = v]
             /\ \/ pc = "mapThread" /\ v = "thread"
                \/ pc = "turn" /\ mapping[lease.task] = "thread" /\ v = "intent"
                \/ pc = "turn" /\ turns[lease.task] > 0 /\ v = "turn"
                \/ pc = "mapTurn" /\ v = "turn"
       /\ UNCHANGED <<threads, turns, turnState>>
    \/ /\ pc = "start" /\ turns' = [turns EXCEPT ![lease.task] = @ + 1]
       /\ turnState' = [turnState EXCEPT ![lease.task] = "running"]
       /\ UNCHANGED <<mapping, threads>> /\ UNCHANGED cpVars
    \/ \E t \in Tasks, s \in {"completed", "failed"} :
          /\ turnState[t] = "running" /\ turnState' = [turnState EXCEPT ![t] = s]
          /\ UNCHANGED <<mapping, threads, turns>> /\ UNCHANGED cpVars

RenewalsKept == renewals' \subseteq renewals \/ (renewing /\ renewals' = renewals \cup {lease})

Aside == CodexKinds /\ RenewalsKept

LEMMA AsideIdle == UNCHANGED <<mapping, codexVars, renewals>> => Aside
  BY DEF Aside, CodexKinds, RenewalsKept, codexVars

LEMMA MappingAside ==
    ASSUME NEW label, NEW v \in MappingStates, NEW next, NEW failure,
           PutMapping(label, v, next, failure),
           \/ pc = "mapThread" /\ v = "thread"
           \/ pc = "turn" /\ mapping[lease.task] = "thread" /\ v = "intent"
           \/ pc = "mapTurn" /\ v = "turn"
    PROVE  Aside
  BY DEF PutMapping, Aside, CodexKinds, RenewalsKept, codexVars

LEMMA AsideSteps == [Next]_vars => Aside
<1>1. CASE LoopStep
  <2>1. (Start \/ DrainEnds \/ ResumeTurn \/ Preflight \/ Poll \/ EndAttempt) => Aside
    BY AsideIdle DEF Start, DrainEnds, ResumeTurn, Preflight, Poll, EndAttempt, Still
  <2>2. (Register \/ Heartbeat \/ WriteCursor \/ Report) => Aside
    BY AsideIdle DEF Register, Heartbeat, WriteCursor, Report
  <2>3. \A t \in Tasks : TakeLease(t) => Aside
    BY AsideIdle DEF TakeLease
  <2>4. \A label, body, next : DurableEvent(label, body, next) => Aside
    BY AsideIdle DEF DurableEvent
  <2>5. \A item : PublishAccepted(item) \/ PublishStale(item) \/ PublishOutOfSequence(item) => Aside
    BY AsideIdle DEF PublishAccepted, PublishStale, PublishOutOfSequence, Still
  <2>6. StartThread => Aside
    BY DEF StartThread, Aside, CodexKinds, RenewalsKept, codexVars
  <2>7. PutMapping("mapThread", "thread", "note", "failed") => Aside
    BY MappingAside DEF PutMapping, MappingStates
  <2>8. PersistIntent => Aside
    BY MappingAside DEF PersistIntent, MappingStates
  <2>9. PutMapping("mapTurn", "turn", "poll", "outcome_unknown") => Aside
    BY MappingAside DEF PutMapping, MappingStates
  <2>10. RecoverTurn => Aside
    BY DEF RecoverTurn, Aside, CodexKinds, RenewalsKept, codexVars, MappingStates
  <2>11. StartTurn => Aside
    BY DEF StartTurn, Aside, CodexKinds, RenewalsKept
  <2>12. QED
    BY <1>1, <2>1, <2>2, <2>3, <2>4, <2>5, <2>6, <2>7, <2>8, <2>9, <2>10, <2>11 DEF LoopStep
<1>2. CASE Environment
  <2>1. Crash => Aside
    BY DEF Crash, Aside, CodexKinds, RenewalsKept, codexVars
  <2>2. \A t \in Tasks : LeaseFails(t) => Aside
    BY AsideIdle DEF LeaseFails
  <2>3. \A item : PublishLost(item) \/ PublishFailsOnServer(item) \/ LateArrival(item) => Aside
    BY AsideIdle DEF PublishLost, PublishFailsOnServer, LateArrival
  <2>4. SendRenewal => Aside
    BY DEF SendRenewal, Aside, CodexKinds, RenewalsKept, codexVars
  <2>5. \A g \in renewals : RenewalAccepted(g) \/ RenewalRejected(g) => Aside
    BY DEF RenewalAccepted, RenewalRejected, Aside, CodexKinds, RenewalsKept, codexVars
  <2>6. \A t \in Tasks, e \in Executions : SubmitTask(t, e) => Aside
    BY AsideIdle DEF SubmitTask
  <2>7. \A t \in Tasks : TurnFinishes(t) => Aside
    BY DEF TurnFinishes, Aside, CodexKinds, RenewalsKept, codexVars
  <2>8. (Tick \/ ServerRestart) => Aside
    BY AsideIdle DEF Tick, ServerRestart
  <2>9. QED
    BY <1>2, <2>1, <2>2, <2>3, <2>4, <2>5, <2>6, <2>7, <2>8 DEF Environment
<1>3. CASE UNCHANGED vars
  BY <1>3, AsideIdle DEF vars
<1>4. QED BY <1>1, <1>2, <1>3 DEF Next

LEMMA ServerInvStep ==
    ASSUME ServerInv, ControlInv, [Next]_vars
    PROVE  ServerInv'
<1>1. Kinds /\ RenewalsKept
  BY StepKinds, AsideSteps DEF Aside
<1>2. CPP!IInv' /\ IdsInv' /\ granted \subseteq granted'
  BY <1>1, ServerSteps DEF ServerStep
<1>3. ItemsInv'
  BY <1>1, ItemsSteps
<1>4. renewals' \subseteq granted'
  BY <1>1, <1>2 DEF RenewalsKept, ControlInv, ServerInv
<1>5. QED BY <1>2, <1>3, <1>4 DEF ServerInv

-----------------------------------------------------------------------------
(* Codex: at most one Turn is started for a task.  The intent is written   *)
(* before the Turn is started, so a mapping that still says "none" or      *)
(* "thread" has none.                                                      *)

CodexInv ==
    /\ mapping \in [Tasks -> MappingStates]
    /\ threads \in [Tasks -> Nat] /\ turns \in [Tasks -> {0, 1}]
    /\ turnState \in [Tasks -> {"none", "running", "completed", "failed"}]
    /\ \A t \in Tasks : /\ mapping[t] \in {"none", "thread"} => turns[t] = 0
                        /\ turnState[t] = "none" <=> turns[t] = 0
    /\ pc = "mapThread" => mapping[lease.task] = "none"
    /\ pc = "start" => turns[lease.task] = 0 /\ mapping[lease.task] = "intent"
    /\ pc = "mapTurn" => turns[lease.task] = 1

LEMMA CodexInvStep ==
    ASSUME ServerInv, ControlInv, CodexInv, [Next]_vars
    PROVE  /\ CodexInv'
           /\ \A t \in Tasks : turnState[t] = "completed" => turnState'[t] = "completed"
<1>m. Moves /\ CodexKinds
  BY LoopMoves, AsideSteps DEF CodexInv, Aside
<1>0. Attempting => lease.task \in Tasks
  BY ServerTypes DEF ControlInv
<1>1. /\ pc' = "mapThread" => mapping'[lease'.task] = "none"
      /\ pc' = "start" => turns'[lease'.task] = 0 /\ mapping'[lease'.task] = "intent"
      /\ pc' = "mapTurn" => turns'[lease'.task] = 1
  <2>1. CASE Rests
    BY <2>1 DEF Rests, CodexInv
  <2>2. CASE Leaves
    BY <2>2 DEF Leaves, Attempting, Places
  <2>3. CASE Begins
    BY <2>3 DEF Begins
  <2>4. CASE Proceeds
    <3>1. lease' = lease /\ lease.task \in Tasks
      BY <2>4, <1>0 DEF Proceeds
    <3>2. pc' = "mapThread" => mapping'[lease'.task] = "none"
      BY <2>4, <3>1 DEF Proceeds
    <3>3. pc' = "start" => turns'[lease'.task] = 0 /\ mapping'[lease'.task] = "intent"
      BY <2>4, <3>1 DEF Proceeds, CodexInv
    <3>4. pc' = "mapTurn" => turns'[lease'.task] = 1
      BY <2>4, <3>1 DEF Proceeds, CodexInv
    <3>5. QED BY <3>2, <3>3, <3>4
  <2>5. QED BY <1>m, <2>1, <2>2, <2>3, <2>4 DEF Moves
<1> DEFINE Data == /\ mapping' \in [Tasks -> MappingStates]
                   /\ threads' \in [Tasks -> Nat] /\ turns' \in [Tasks -> {0, 1}]
                   /\ turnState' \in [Tasks -> {"none", "running", "completed", "failed"}]
                   /\ \A t \in Tasks : /\ mapping'[t] \in {"none", "thread"} => turns'[t] = 0
                                       /\ turnState'[t] = "none" <=> turns'[t] = 0
                                       /\ turnState[t] = "completed" => turnState'[t] = "completed"
<1>2. Data
  <2>1. CASE UNCHANGED <<mapping, threads, turns, turnState>>
    BY <2>1 DEF CodexInv
  <2>2. CASE /\ pc = "map" /\ threads' = [threads EXCEPT ![lease.task] = @ + 1]
             /\ UNCHANGED <<mapping, turns, turnState>>
    <3>1. lease.task \in Tasks
      BY <1>0, <2>2 DEF Attempting, Places
    <3>2. threads' \in [Tasks -> Nat]
      BY <2>2, <3>1 DEF CodexInv
    <3>3. QED BY <2>2, <3>2 DEF CodexInv
  <2>3. ASSUME NEW v \in MappingStates, mapping' = [mapping EXCEPT ![lease.task] = v],
               \/ pc = "mapThread" /\ v = "thread"
               \/ pc = "turn" /\ mapping[lease.task] = "thread" /\ v = "intent"
               \/ pc = "turn" /\ turns[lease.task] > 0 /\ v = "turn"
               \/ pc = "mapTurn" /\ v = "turn",
               UNCHANGED <<threads, turns, turnState>>
        PROVE  Data
    <3>1. lease.task \in Tasks
      BY <1>0, <2>3 DEF Attempting, Places
    <3>2. mapping' \in [Tasks -> MappingStates]
      BY <2>3, <3>1 DEF CodexInv
    <3>3. \A t \in Tasks : mapping'[t] \in {"none", "thread"} => turns[t] = 0
      BY <2>3, <3>1 DEF CodexInv
    <3>4. QED BY <2>3, <3>2, <3>3 DEF CodexInv
  <2>4. CASE /\ pc = "start" /\ turns' = [turns EXCEPT ![lease.task] = @ + 1]
             /\ turnState' = [turnState EXCEPT ![lease.task] = "running"]
             /\ UNCHANGED <<mapping, threads>>
    <3>1. lease.task \in Tasks
      BY <1>0, <2>4 DEF Attempting, Places
    <3>2. turns[lease.task] = 0 /\ mapping[lease.task] = "intent" /\ turnState[lease.task] = "none"
      BY <2>4, <3>1 DEF CodexInv
    <3>3. /\ turns' = [turns EXCEPT ![lease.task] = 1]
      BY <2>4, <3>2
    <3>4. QED BY <2>4, <3>1, <3>2, <3>3 DEF CodexInv
  <2>5. ASSUME NEW t \in Tasks, NEW s \in {"completed", "failed"},
               turnState[t] = "running", turnState' = [turnState EXCEPT ![t] = s],
               UNCHANGED <<mapping, threads, turns>>
        PROVE  Data
    BY <2>5 DEF CodexInv
  <2>6. QED BY <1>m, <2>1, <2>2, <2>3, <2>4, <2>5 DEF CodexKinds
<1>3. QED BY <1>1, <1>2 DEF CodexInv

-----------------------------------------------------------------------------
(* Records: what a step adds, and what it never takes away. *)

LEMMA RecordSteps ==
    ASSUME ServerInv, ServerStep, CPP!IInv', NEW t \in Tasks
    PROVE  /\ mem[t].delivered \subseteq disk[t].delivered
           /\ mem[t].delivered \subseteq mem'[t].delivered
           /\ mem'[t].delivered \subseteq disk'[t].delivered
           /\ \A e \in disk'[t].delivered :
                 e \in disk[t].delivered \/ \E item \in Sending : item.task = t /\ item.env = e
<1>1. TaskStep(t)
  BY DEF ServerStep
<1>2. mem[t].delivered \subseteq disk[t].delivered
  BY DEF ServerInv, CPP!IInv, CPP!FileInv
<1>3. mem'[t].delivered \subseteq disk'[t].delivered
  BY DEF CPP!IInv, CPP!FileInv
<1>4. QED BY <1>1, <1>2, <1>3 DEF TaskStep, Writes, Enters, Ages

(* No envelope is lost: it is pending, quarantined or in memory, and what  *)
(* is on disk was drawn.                                                   *)
LossInv ==
    /\ \A d \in 1..drawn :
          \/ \E item \in Outbox!PendingItems \cup quarantined : item.env.delivery = d
          \/ \E t \in Tasks : \E e \in mem[t].delivered : e.delivery = d
    /\ \A t \in Tasks : \A e \in disk[t].delivered : e.delivery \in 1..drawn

LEMMA LossInvStep ==
    ASSUME ServerInv, ControlInv, LossInv, [Next]_vars
    PROVE  LossInv'
<1>1. ServerStep /\ CPP!IInv' /\ ItemsStep /\ drawn \in Nat
  BY StepKinds, ServerSteps, ItemsSteps DEF ServerInv, ItemsInv
<1>2. \A t \in Tasks : mem[t].delivered \subseteq mem'[t].delivered
  BY <1>1, RecordSteps
<1>3. \A t \in Tasks : \A e \in disk'[t].delivered :
          e \in disk[t].delivered \/ \E item \in Sending : item.task = t /\ item.env = e
  BY <1>1, RecordSteps
<1>b. \A item \in Items : item.task \in Tasks /\ item.env.delivery \in 1..drawn
  BY DEF ServerInv, ItemsInv, Built, Item
<1>4. drawn' \in {drawn, drawn + 1}
  BY <1>1 DEF ItemsStep, NewItem
<1>5. \A t \in Tasks : \A e \in disk'[t].delivered : e.delivery \in 1..drawn'
  BY <1>1, <1>3, <1>4, <1>b DEF LossInv, Items, Sending
<1>6. ASSUME NEW d \in 1..drawn'
      PROVE  \/ \E item \in Outbox!PendingItems' \cup quarantined' : item.env.delivery = d
             \/ \E t \in Tasks : \E e \in mem'[t].delivered : e.delivery = d
  <2>1. CASE d \notin 1..drawn
    BY <1>1, <1>4, <1>6, <2>1 DEF ItemsStep, NewItem
  <2>2. CASE \E t \in Tasks : \E e \in mem[t].delivered : e.delivery = d
    BY <1>2, <2>2
  <2>3. CASE \E item \in quarantined : item.env.delivery = d
    BY <1>1, <2>3 DEF ItemsStep, NewItem
  <2>4. ASSUME NEW item \in Outbox!PendingItems, item.env.delivery = d
        PROVE  \/ \E i \in Outbox!PendingItems' \cup quarantined' : i.env.delivery = d
               \/ \E t \in Tasks : \E e \in mem'[t].delivered : e.delivery = d
    <3>1. item.task \in Tasks
      BY <1>b DEF Items, Sending, Waiting
    <3>2. QED BY <1>1, <2>4, <3>1 DEF ItemsStep, NewItem
  <2>5. QED BY <2>1, <2>2, <2>3, <2>4 DEF LossInv
<1>7. QED BY <1>5, <1>6 DEF LossInv

(* Without a torn write memory and disk agree, and a lease that was not    *)
(* good for an envelope never becomes good.                                *)
QuarantineInv ==
    torn = 0 =>
        /\ mem = disk
        /\ \A q \in quarantined : q.env \notin mem[q.task].delivered /\ Superseded(q)

LEMMA QuarantineInvStep ==
    ASSUME ServerInv, ControlInv, QuarantineInv, [Next]_vars
    PROVE  QuarantineInv'
<1>1. ServerStep /\ ItemsStep /\ torn \in Nat
  BY StepKinds, ServerSteps, ItemsSteps, ServerTypes
<1>2. SUFFICES ASSUME torn' = 0
               PROVE  /\ mem' = disk'
                      /\ \A q \in quarantined' :
                            q.env \notin mem'[q.task].delivered /\ Superseded(q)'
  BY DEF QuarantineInv
<1>3. torn = 0 /\ mem = disk /\ mem' = disk'
  BY <1>1, <1>2 DEF ServerStep, QuarantineInv
<1>4. ASSUME NEW q \in quarantined
      PROVE  q.env \notin mem'[q.task].delivered /\ Superseded(q)'
  <2> DEFINE t == q.task
             g == GrantOf(q)
  <2>1. t \in Tasks /\ g \in granted /\ g.task = t
    BY DEF ServerInv, ItemsInv, Items, Built, Item, GrantOf
  <2>2. q.env \notin mem[t].delivered /\ (CP!Ended(mem[t]) \/ ~CP!ValidLease(mem[t], Host, g))
    BY <1>3 DEF QuarantineInv, Superseded
  <2>3. SUFFICES /\ q.env \notin mem'[t].delivered
                 /\ CP!Ended(mem'[t]) \/ ~CP!ValidLease(mem'[t], Host, g)
    BY DEF Superseded, GrantOf
  <2>4. TaskStep(t)
    BY <1>1, <2>1 DEF ServerStep
  <2>5. CASE mem'[t] = mem[t]
    BY <2>2, <2>5
  <2>6. CASE Ages(t, mem[t], mem'[t])
    <3>1. CP!Ended(mem'[t]) \/ ~CP!ValidLease(mem'[t], Host, g)
      BY <2>1, <2>2, <2>6 DEF Ages, StaleKept
    <3>2. QED BY <3>1, <2>2, <2>6 DEF Ages
  <2>7. CASE Writes(t, mem[t], mem'[t])
    <3>1. CP!Ended(mem'[t]) \/ ~CP!ValidLease(mem'[t], Host, g)
      BY <2>1, <2>2, <2>7 DEF Writes, StaleKept
    <3>2. ASSUME q.env \in mem'[t].delivered PROVE FALSE
      <4>1. PICK item \in Sending : item.task = t /\ item.env = q.env /\ Taken(mem[t], item)
        BY <2>2, <2>7, <3>2 DEF Writes, Enters
      <4>2. GrantOf(item) = g
        BY <4>1 DEF GrantOf
      <4>3. QED BY <2>2, <4>1, <4>2 DEF Taken
    <3>3. QED BY <3>1, <3>2
  <2>8. mem[t] = disk[t] /\ mem'[t] = disk'[t]
    BY <1>3
  <2> HIDE DEF t, g
  <2>9. QED BY <2>4, <2>5, <2>6, <2>7, <2>8 DEF TaskStep
<1>5. ASSUME NEW q \in quarantined', q \notin quarantined
      PROVE  q.env \notin mem'[q.task].delivered /\ Superseded(q)'
  <2>1. Stale(q) /\ UNCHANGED cpVars
    BY <1>1, <1>5 DEF ItemsStep, NewItem
  <2>2. QED BY <2>1 DEF Stale, Superseded, GrantOf, cpVars
<1>6. QED BY <1>3, <1>4, <1>5

(* A record that has ended says so with an outcome it holds; a file is     *)
(* ahead of memory by one write, which does not both create and end.       *)
StateInv ==
    \A t \in Tasks :
        /\ \A r \in {mem[t], disk[t]} : CP!Ended(r) =>
              r.state \in Finals /\ \E e \in r.delivered : e.body = r.state
        /\ mem[t].state = "absent" => ~CP!Ended(disk[t])
        /\ disk[t].state = "absent" => mem[t].state = "absent"

LEMMA StateInvStep ==
    ASSUME ServerInv, ServerStep, CPP!IInv', StateInv
    PROVE  StateInv'
<1> SUFFICES ASSUME NEW t \in Tasks
             PROVE  /\ \A r \in {mem'[t], disk'[t]} : CP!Ended(r) =>
                          r.state \in Finals /\ \E e \in r.delivered : e.body = r.state
                    /\ mem'[t].state = "absent" => ~CP!Ended(disk'[t])
                    /\ disk'[t].state = "absent" => mem'[t].state = "absent"
  BY DEF StateInv
<1> DEFINE Fine(r) == CP!Ended(r) => r.state \in Finals /\ \E e \in r.delivered : e.body = r.state
<1>1. Fine(mem[t]) /\ Fine(disk[t])
  BY DEF StateInv
<1>2. /\ mem[t].state = "absent" => ~CP!Ended(disk[t])
      /\ disk[t].state = "absent" => mem[t].state = "absent"
  BY DEF StateInv
<1>3. mem[t].state = "absent" => ~CP!Ended(mem[t])
  BY <1>1 DEF Finals
<1>4. TaskStep(t)
  BY DEF ServerStep
<1>5. CASE mem'[t] \in {mem[t], disk[t]} /\ disk'[t] = disk[t]
  <2>1. disk[t].state = "absent" => ~CP!Ended(disk[t])
    BY <1>1 DEF Finals
  <2>2. QED BY <1>1, <1>2, <1>3, <1>5, <2>1
<1>6. CASE Writes(t, mem[t], disk'[t]) /\ mem'[t] \in {mem[t], disk'[t]}
  <2>1. Fine(disk'[t])
    BY <1>1, <1>6 DEF Writes, Enters, Keeps, Opens, Ends
  <2>2. disk'[t].state = "absent" => mem[t].state = "absent"
    <3>1. CASE Ends(t, mem[t], disk'[t])
      BY <3>1 DEF Ends, Finals
    <3>2. QED BY <1>6, <3>1 DEF Writes, Keeps, Opens
  <2>3. mem[t].state = "absent" => ~CP!Ended(disk'[t])
    BY <1>3, <1>6 DEF Writes, Keeps, Opens, Ends
  <2>4. disk'[t].state = "absent" => ~CP!Ended(disk'[t])
    BY <2>1 DEF Finals
  <2>5. QED BY <1>1, <1>6, <2>1, <2>2, <2>3, <2>4
<1>7. CASE Ages(t, mem[t], mem'[t]) /\ Ages(t, disk[t], disk'[t])
  BY <1>1, <1>2, <1>7 DEF Ages, Keeps
<1>8. QED BY <1>4, <1>5, <1>6, <1>7 DEF TaskStep

(* Success is claimed only for a Turn that completed. *)
SuccessInv ==
    /\ \A item \in Items : item.env.body = "succeeded" => turnState[item.task] = "completed"
    /\ \A t \in Tasks : \A e \in disk[t].delivered :
          e.body = "succeeded" => turnState[t] = "completed"
    /\ outcome = "succeeded" => Attempting /\ turnState[lease.task] = "completed"

LEMMA SuccessInvStep ==
    ASSUME ServerInv, ControlInv, CodexInv, SuccessInv, [Next]_vars
    PROVE  SuccessInv'
<1>1. ServerStep /\ CPP!IInv' /\ ItemsStep /\ Moves
  BY StepKinds, ServerSteps, ItemsSteps, LoopMoves DEF CodexInv
<1>2. \A t \in Tasks : turnState[t] = "completed" => turnState'[t] = "completed"
  BY CodexInvStep
<1>3. Attempting => lease.task \in Tasks
  BY ServerTypes DEF ControlInv
<1>b. \A item \in Items : item.task \in Tasks
  BY DEF ServerInv, ItemsInv, Built, Item
<1>4. ASSUME NEW item \in Items', item.env.body = "succeeded"
      PROVE  turnState'[item.task] = "completed"
  <2>1. CASE item \in Items
    BY <1>2, <1>4, <1>b, <2>1 DEF SuccessInv
  <2>2. CASE NewItem(item)
    <3>1. outcome = "succeeded" /\ item.task = lease.task
      BY <1>4, <2>2 DEF NewItem
    <3>2. QED BY <1>2, <1>3, <3>1 DEF SuccessInv
  <2>3. item \in Items \/ NewItem(item)
    BY <1>1, <1>4 DEF ItemsStep, NewItem, Items, Sending, Waiting
  <2>4. QED BY <2>1, <2>2, <2>3
<1>5. \A t \in Tasks : \A e \in disk'[t].delivered :
          e.body = "succeeded" => turnState'[t] = "completed"
  <2> SUFFICES ASSUME NEW t \in Tasks, NEW e \in disk'[t].delivered, e.body = "succeeded"
               PROVE  turnState'[t] = "completed"
    OBVIOUS
  <2>1. e \in disk[t].delivered \/ \E item \in Sending : item.task = t /\ item.env = e
    BY <1>1, RecordSteps
  <2>2. QED BY <1>2, <2>1 DEF SuccessInv, Items, Sending
<1>6. outcome' = "succeeded" => Attempting' /\ turnState'[lease'.task] = "completed"
  <2>1. CASE Rests
    <3>1. outcome' = outcome /\ lease' = lease /\ (Attempting' <=> Attempting)
      BY <2>1 DEF Rests, Attempting
    <3>2. QED BY <1>2, <1>3, <3>1 DEF SuccessInv
  <2>2. CASE Leaves
    BY <2>2 DEF Leaves, SuccessInv
  <2>3. CASE Begins
    <3>1. ~Attempting /\ outcome' = outcome
      BY <2>3 DEF Begins, Attempting, Places
    <3>2. QED BY <3>1 DEF SuccessInv
  <2>4. CASE Proceeds
    <3>1. /\ Attempting /\ Attempting' /\ lease' = lease /\ lease.task \in Tasks
          /\ outcome' = "succeeded" => outcome = "succeeded" \/ turnState[lease.task] = "completed"
      BY <1>3, <2>4 DEF Proceeds
    <3>2. QED BY <1>2, <3>1 DEF SuccessInv
  <2>5. QED BY <1>1, <2>1, <2>2, <2>3, <2>4 DEF Moves
<1>7. QED BY <1>4, <1>5, <1>6 DEF SuccessInv

(* Codex is touched by an attempt whose acceptance is in the record.       *)
Accepted(t) == \E e \in mem[t].delivered : e.body = "accepted"

AcceptInv ==
    /\ \A t \in Tasks : threads[t] + turns[t] > 0 => Accepted(t)
    /\ CodexPlace => Accepted(lease.task)
    /\ AwaitsAcceptance => \A item \in Outbox!PendingItems : Accepting(item)

LEMMA AcceptInvStep ==
    ASSUME ServerInv, ControlInv, CodexInv, AcceptInv, [Next]_vars
    PROVE  AcceptInv'
<1>1. ServerStep /\ CPP!IInv' /\ ItemsStep /\ Moves /\ CodexKinds /\ drawn \in Nat
  BY StepKinds, ServerSteps, ItemsSteps, LoopMoves, AsideSteps
  DEF CodexInv, Aside, ServerInv, ItemsInv
<1>2. \A t \in Tasks : \A e \in mem[t].delivered : e \in mem'[t].delivered
  BY <1>1, RecordSteps
<1>3. Attempting => lease.task \in Tasks
  BY ServerTypes DEF ControlInv
<1>4. CodexPlace => Attempting
  BY DEF CodexPlace, Attempting, Places
<1>5. \A t \in Tasks : threads'[t] + turns'[t] > 0 => Accepted(t)'
  <2> SUFFICES ASSUME NEW t \in Tasks, threads'[t] + turns'[t] > 0 PROVE Accepted(t)'
    OBVIOUS
  <2>1. CASE threads'[t] = threads[t] /\ turns'[t] = turns[t]
    BY <1>2, <2>1 DEF AcceptInv, Accepted
  <2>2. CASE CodexPlace /\ t = lease.task
    BY <1>2, <2>2 DEF AcceptInv, Accepted
  <2>3. pc \in {"map", "start"} => CodexPlace
    BY DEF CodexPlace
  <2>4. QED BY <1>1, <2>1, <2>2, <2>3 DEF CodexKinds, CodexInv
<1>6. CodexPlace' => Accepted(lease.task)'
  <2>1. CASE Rests
    <3>1. lease' = lease /\ (CodexPlace' <=> CodexPlace)
      BY <2>1 DEF Rests, CodexPlace
    <3>2. QED BY <1>2, <1>3, <1>4, <3>1 DEF AcceptInv, Accepted
  <2>2. CASE Leaves
    BY <2>2 DEF Leaves, Attempting, Places, CodexPlace
  <2>3. CASE Begins
    BY <2>3 DEF Begins, CodexPlace
  <2>4. CASE Proceeds
    <3>1. lease' = lease /\ lease.task \in Tasks
      BY <1>3, <2>4 DEF Proceeds
    <3>2. CASE CodexPlace
      BY <1>2, <3>1, <3>2 DEF AcceptInv, Accepted
    <3>3. CASE /\ AwaitsAcceptance
               /\ \E item \in Outbox!PendingItems :
                     /\ item.env.delivery = target
                     /\ item.env \in mem'[item.task].delivered
      BY <3>1, <3>3 DEF AcceptInv, Accepting, Accepted
    <3>4. QED BY <2>4, <3>2, <3>3 DEF Proceeds
  <2>5. QED BY <1>1, <2>1, <2>2, <2>3, <2>4 DEF Moves
<1>7. AwaitsAcceptance' => \A item \in Outbox!PendingItems' : Accepting(item)'
  <2>1. ASSUME AwaitsAcceptance, target' = target, lease' = lease,
               NEW item \in Outbox!PendingItems'
        PROVE  Accepting(item)'
    <3>1. CASE item \in Outbox!PendingItems
      BY <2>1, <3>1 DEF AcceptInv, Accepting
    <3>2. CASE NewItem(item)
      BY <1>1, <2>1, <3>2 DEF NewItem, ControlInv, Accepting
    <3>3. QED BY <1>1, <2>1, <3>1, <3>2 DEF ItemsStep, NewItem
  <2>2. CASE Rests
    BY <2>1, <2>2 DEF Rests, AwaitsAcceptance
  <2>3. CASE Leaves
    BY <2>3 DEF Leaves, Attempting, Places, AwaitsAcceptance
  <2>4. CASE Begins
    BY <2>4 DEF Begins, AwaitsAcceptance
  <2>5. CASE Proceeds
    BY <2>1, <2>5 DEF Proceeds
  <2>6. QED BY <1>1, <2>2, <2>3, <2>4, <2>5 DEF Moves
<1>8. QED BY <1>5, <1>6, <1>7 DEF AcceptInv, Accepted

(* While an attempt may still start a Turn its task is open, in memory and *)
(* on disk: a re-lease to another attempt is not possible while this host  *)
(* runs one, and outcomes of earlier attempts carry an older lease.        *)
StillOpen(r) == r.state # "absent" /\ ~CP!Ended(r) /\ lease.id <= r.lease.id

OpenInv ==
    BeforeTurn =>
        /\ StillOpen(mem[lease.task]) /\ StillOpen(disk[lease.task])
        /\ \A item \in Waiting :
              item.task = lease.task /\ item.env.seq = 0 => item.env.lease < lease.id

LEMMA OpenInvStep ==
    ASSUME ServerInv, ControlInv, CodexInv, OpenInv, [Next]_vars
    PROVE  OpenInv'
<1>1. ServerStep /\ ItemsStep /\ Moves /\ issued \in Nat
  BY StepKinds, ServerSteps, ItemsSteps, LoopMoves, ServerTypes DEF CodexInv
<1>2. BeforeTurn => lease \in granted /\ lease.task \in Tasks /\ lease.id \in Nat
  BY ServerTypes DEF ControlInv, BeforeTurn, Attempting, Places
<1>3. \A item \in Items : GrantOf(item) \in granted /\ GrantOf(item).id = item.env.lease
                          /\ item.env.lease \in Nat
  BY ServerTypes DEF ServerInv, ItemsInv, Built, GrantOf
<1>4. \A item \in Items : item.env.lease <= issued
  BY <1>3, ServerTypes
<1>5. ASSUME BeforeTurn, BeforeTurn', lease' = lease PROVE OpenInv'
  <2> DEFINE t == lease.task
  <2>0. t \in Tasks /\ lease \in granted /\ lease.id \in Nat
    BY <1>2, <1>5
  <2>1. StillOpen(mem[t]) /\ StillOpen(disk[t])
    BY <1>5 DEF OpenInv
  <2>2. TaskStep(t)
    BY <1>1, <2>0 DEF ServerStep
  <2>t. mem[t].lease.id \in Nat /\ disk[t].lease.id \in Nat
    BY <2>0, ServerTypes
  <2>3. ~Ends(t, mem[t], disk'[t])
    <3> SUFFICES ASSUME NEW item \in Sending, item.task = t, item.env.seq = 0, Taken(mem[t], item)
                 PROVE  FALSE
      BY DEF Ends
    <3>1. item.env.lease < lease.id /\ item.env.lease = GrantOf(item).id /\ item.env.lease \in Nat
      BY <1>3, <1>5 DEF OpenInv, Items, Sending
    <3>2. mem[t].lease.id = GrantOf(item).id
      BY DEF Taken, CP!ValidLease
    <3>3. QED BY <2>0, <2>1, <2>t, <3>1, <3>2 DEF StillOpen
  <2>n. mem'[t].lease.id \in Nat /\ disk'[t].lease.id \in Nat
    <3>1. CPP!TypeOK'
      BY StepKinds, ServerSteps DEF CPP!IInv
    <3>2. mem' \in [Tasks -> CP!TaskRecord] /\ disk' \in [Tasks -> CP!TaskRecord]
      BY <3>1, SameRecords DEF CPP!TypeOK
    <3>3. QED BY <2>0, <3>2, ServerTypes
  <2> DEFINE Good(r) == r.state # "absent" /\ ~CP!Ended(r) /\ lease.id <= r.lease.id
  <2>g. Good(mem[t]) /\ Good(disk[t])
    BY <2>1 DEF StillOpen
  <2>4. Good(mem'[t]) /\ Good(disk'[t])
    <3>1. ASSUME NEW r, NEW s, Good(r), Keeps(r, s), r.lease.id \in Nat, s.lease.id \in Nat
          PROVE  Good(s)
      BY <2>0, <3>1 DEF Keeps
    <3>2. CASE mem'[t] \in {mem[t], disk[t]} /\ disk'[t] = disk[t]
      BY <2>g, <3>2
    <3>3. CASE Writes(t, mem[t], disk'[t]) /\ mem'[t] \in {mem[t], disk'[t]}
      <4>1. Keeps(mem[t], disk'[t])
        BY <2>3, <2>g, <3>3 DEF Writes, Opens
      <4> HIDE DEF t, Good
      <4>2. QED BY <2>g, <2>t, <2>n, <3>1, <3>3, <4>1
    <3>4. CASE Ages(t, mem[t], mem'[t]) /\ Ages(t, disk[t], disk'[t])
      <4> HIDE DEF t, Good
      <4>1. QED BY <2>g, <2>t, <2>n, <3>1, <3>4 DEF Ages
    <3>5. QED BY <2>2, <3>2, <3>3, <3>4 DEF TaskStep
  <2>5. ASSUME NEW item \in Waiting', item.task = t, item.env.seq = 0
        PROVE  item.env.lease < lease.id
    <3>1. CASE item \in Waiting
      BY <1>5, <2>5, <3>1 DEF OpenInv
    <3>2. CASE NewItem(item)
      BY <1>5, <2>5, <3>2 DEF NewItem, BeforeTurn
    <3>3. item \in Waiting \/ NewItem(item)
      BY <1>1, <2>5 DEF ItemsStep, NewItem, Sending, Waiting
    <3>4. QED BY <3>1, <3>2, <3>3
  <2>6. QED BY <1>5, <2>4, <2>5 DEF OpenInv, StillOpen
<1>6. CASE Begins
  <2>1. PICK t \in Tasks : CP!TryLease(t, Host)
    BY <1>6 DEF Begins
  <2>2. /\ lease'.task = t /\ lease'.id = issued + 1
        /\ mem'[t].lease.id = lease'.id /\ disk'[t].lease.id = lease'.id
        /\ mem'[t].state = "leased" /\ disk'[t].state = "leased"
        /\ ~CP!Ended(mem'[t]) /\ ~CP!Ended(disk'[t])
    BY <1>6, <2>1, LeaseStep DEF Begins
  <2>3. StillOpen(mem[lease.task])' /\ StillOpen(disk[lease.task])'
    BY <1>1, <2>2 DEF StillOpen
  <2>4. ASSUME NEW item \in Waiting', item.env.seq = 0 PROVE item.env.lease < lease'.id
    <3>1. item \in Waiting
      BY <1>1, <1>6, <2>4 DEF ItemsStep, NewItem, Sending, Waiting, Begins
    <3>2. QED BY <1>1, <1>3, <1>4, <2>2, <3>1 DEF Items
  <2>5. QED BY <2>3, <2>4 DEF OpenInv
<1>7. CASE Rests
  BY <1>5, <1>7 DEF Rests, OpenInv, BeforeTurn
<1>8. CASE Leaves
  BY <1>8 DEF Leaves, OpenInv, BeforeTurn, Attempting, Places
<1>9. CASE Proceeds
  BY <1>5, <1>9 DEF Proceeds, OpenInv
<1>10. QED BY <1>1, <1>6, <1>7, <1>8, <1>9 DEF Moves

-----------------------------------------------------------------------------
(* The order of publication. *)

(* No pending envelope is older than the delivery d. *)
Passed(d) == \A p \in Outbox!PendingItems : d <= p.env.delivery

(* As long as the clock was not set back, the outbox is in the order in    *)
(* which its envelopes were made, and whatever was given up as lost or is  *)
(* in a file of the server was made before everything that is pending.     *)
OrderInv ==
    skewed = 0 =>
        /\ \A i, j \in 1..Len(pending) :
              i < j => pending[i].env.delivery < pending[j].env.delivery
        /\ \A item \in late : Passed(item.env.delivery)
        /\ \A t \in Tasks : \A e \in disk[t].delivered : Passed(e.delivery)

LEMMA DeliveryIds ==
    ASSUME ServerInv
    PROVE  /\ drawn \in Nat /\ pending \in Seq(Item)
           /\ \A item \in Items : item.task \in Tasks /\ item.env.delivery \in 1..drawn
           /\ \A i \in 1..Len(pending) :
                 pending[i] \in Outbox!PendingItems /\ pending[i].env.delivery \in 1..drawn
           /\ \A p \in Outbox!PendingItems : \E i \in 1..Len(pending) : pending[i] = p
<1>1. drawn \in Nat /\ pending \in Seq(Item)
      /\ \A item \in Items : item.task \in Tasks /\ item.env.delivery \in 1..drawn
  BY DEF ServerInv, ItemsInv, Built, Item
<1>2. /\ \A i \in 1..Len(pending) : pending[i] \in Outbox!PendingItems
      /\ \A p \in Outbox!PendingItems : \E i \in 1..Len(pending) : pending[i] = p
  BY DEF Outbox!PendingItems, Outbox!ToSet
<1>3. QED BY <1>1, <1>2 DEF Items, Waiting

(* What the host sends next was made first. *)
LEMMA FirstIsOldest ==
    ASSUME ServerInv, OrderInv, skewed = 0, NEW item \in Sending
    PROVE  Passed(item.env.delivery)
<1>1. CASE item \in late
  BY <1>1 DEF OrderInv
<1>2. CASE item = Head(pending) /\ item \in Outbox!PendingItems
  <2>1. SUFFICES ASSUME NEW p \in Outbox!PendingItems PROVE item.env.delivery <= p.env.delivery
    BY DEF Passed
  <2>2. PICK i \in 1..Len(pending) : pending[i] = p
    BY DeliveryIds
  <2>3. 1 \in 1..Len(pending) /\ item = pending[1]
    BY <1>2, <2>2, DeliveryIds
  <2>4. pending[1].env.delivery \in Nat /\ pending[i].env.delivery \in Nat
    BY <2>2, <2>3, DeliveryIds
  <2>5. i = 1 \/ pending[1].env.delivery < pending[i].env.delivery
    BY <2>2, <2>3 DEF OrderInv
  <2>6. QED BY <2>2, <2>3, <2>4, <2>5
<1>3. QED BY <1>1, <1>2 DEF Sending, Waiting

(* The files of the server hold nothing new but what the host sends. *)
LEMMA NewIsSent ==
    ASSUME ServerInv, OrderInv, LossInv, skewed = 0, ServerStep, CPP!IInv',
           NEW t \in Tasks, NEW e \in disk'[t].delivered
    PROVE  Passed(e.delivery) /\ e.delivery \in 1..drawn
<1>1. e \in disk[t].delivered \/ \E item \in Sending : item.task = t /\ item.env = e
  BY RecordSteps
<1>2. CASE e \in disk[t].delivered
  BY <1>2 DEF OrderInv, LossInv
<1>3. CASE \E item \in Sending : item.task = t /\ item.env = e
  BY <1>3, FirstIsOldest, DeliveryIds DEF Sending, Items
<1>4. QED BY <1>1, <1>2, <1>3

LEMMA SkewIsCounted ==
    ASSUME ServerInv, OutboxKinds, skewed' = 0
    PROVE  /\ skewed = 0
           /\ \/ pending' = pending
              \/ \E x : /\ pending' = Append(pending, x)
                        /\ x.env.delivery = drawn + 1
              \/ \E x \in Outbox!PendingItems : pending' = Outbox!Without(x)
<1>1. skewed \in Nat
  BY BudgetAssumption DEF ServerInv, ItemsInv
<1>2. CASE UNCHANGED outboxVars
  BY <1>2 DEF outboxVars
<1>3. CASE Persists
  <2>1. PICK seq \in Nat : \E body : Outbox!Persist(Outbox!Item(lease, seq, body))
    BY <1>3 DEF Persists
  <2>2. PICK body : Outbox!Persist(Outbox!Item(lease, seq, body))
    BY <2>1
  <2>3. PICK x : x = Outbox!Item(lease, seq, body)
    OBVIOUS
  <2>4. x.env.delivery = drawn + 1
    BY <2>3 DEF Outbox!Item
  <2>5. skewed' # skewed + 1
    BY <1>1
  <2>6. pending' = Append(pending, x) /\ skewed' = skewed
    BY <2>2, <2>3, <2>5 DEF Outbox!Persist
  <2>7. QED BY <2>4, <2>6
<1>4. CASE Outbox!WriteCursor(lease.task)
  BY <1>4 DEF Outbox!WriteCursor
<1>5. CASE \E x \in Outbox!PendingItems : Outbox!Ack(x) \/ Outbox!Quarantine(x)
  BY <1>5 DEF Outbox!Ack, Outbox!Quarantine
<1>6. QED BY <1>2, <1>3, <1>4, <1>5 DEF OutboxKinds

LEMMA OrderInvStep ==
    ASSUME ServerInv, ControlInv, LossInv, OrderInv, [Next]_vars
    PROVE  OrderInv'
<1> SUFFICES ASSUME skewed' = 0 PROVE OrderInv'
  BY DEF OrderInv
<1>1. Kinds /\ ServerStep /\ CPP!IInv' /\ ItemsStep
  BY StepKinds, ServerSteps, ItemsSteps
<1>2. /\ skewed = 0
      /\ \/ pending' = pending
         \/ \E x : pending' = Append(pending, x) /\ x.env.delivery = drawn + 1
         \/ \E x \in Outbox!PendingItems : pending' = Outbox!Without(x)
  BY <1>1, SkewIsCounted DEF Kinds
<1> DEFINE InOrder(s) ==
             \A i, j \in 1..Len(s) : i < j => s[i].env.delivery < s[j].env.delivery
<1>3. InOrder(pending)
  BY <1>2 DEF OrderInv
<1>4. InOrder(pending')
  <2>1. CASE pending' = pending
    BY <1>3, <2>1
  <2>2. ASSUME NEW x, pending' = Append(pending, x), x.env.delivery = drawn + 1
        PROVE  InOrder(pending')
    <3>1. /\ Len(pending') = Len(pending) + 1 /\ pending'[Len(pending) + 1] = x
          /\ \A i \in 1..Len(pending) : pending'[i] = pending[i]
      BY <2>2, DeliveryIds
    <3>2. SUFFICES ASSUME NEW i \in 1..Len(pending'), NEW j \in 1..Len(pending'), i < j
                   PROVE  pending'[i].env.delivery < pending'[j].env.delivery
      OBVIOUS
    <3>3. i \in 1..Len(pending) /\ Len(pending) \in Nat
      BY <3>1, <3>2, DeliveryIds
    <3>4. CASE j \in 1..Len(pending)
      BY <1>3, <3>1, <3>2, <3>3, <3>4
    <3>5. CASE j = Len(pending) + 1
      <4>1. pending[i].env.delivery \in 1..drawn /\ drawn \in Nat
        BY <3>3, DeliveryIds
      <4>2. QED BY <2>2, <3>1, <3>3, <3>5, <4>1
    <3>6. QED BY <3>1, <3>2, <3>3, <3>4, <3>5
  <2>3. ASSUME NEW x \in Outbox!PendingItems, pending' = Outbox!Without(x)
        PROVE  InOrder(pending')
    <3>1. PICK k \in 1..Len(pending) : pending' = RemoveAt(pending, k)
      <4>1. \E k \in 1..Len(pending) : pending[k] = x
        BY DeliveryIds
      <4>2. QED BY <2>3, <4>1 DEF Outbox!Without, Outbox!RemoveAt, RemoveAt
    <3>2. /\ Len(pending') = Len(pending) - 1 /\ Len(pending) \in Nat
          /\ \A j \in 1..Len(pending') :
                pending'[j] = IF j < k THEN pending[j] ELSE pending[j + 1]
      <4>1. pending \in Seq(Item) /\ Len(pending) \in Nat
        BY DeliveryIds
      <4>2. QED BY <3>1, <4>1, RemoveElements
    <3>3. SUFFICES ASSUME NEW i \in 1..Len(pending'), NEW j \in 1..Len(pending'), i < j
                   PROVE  pending'[i].env.delivery < pending'[j].env.delivery
      OBVIOUS
    <3>4. PICK m \in 1..Len(pending), n \in 1..Len(pending) :
             m < n /\ pending'[i] = pending[m] /\ pending'[j] = pending[n]
      <4>1. \A l \in 1..Len(pending') :
               \E m \in 1..Len(pending) :
                  m = (IF l < k THEN l ELSE l + 1) /\ pending'[l] = pending[m]
        BY <3>1, <3>2
      <4>2. PICK m \in 1..Len(pending) :
               m = (IF i < k THEN i ELSE i + 1) /\ pending'[i] = pending[m]
        BY <4>1
      <4>3. PICK n \in 1..Len(pending) :
               n = (IF j < k THEN j ELSE j + 1) /\ pending'[j] = pending[n]
        BY <4>1
      <4>4. m < n
        BY <3>1, <3>2, <3>3, <4>2, <4>3
      <4>5. QED BY <4>2, <4>3, <4>4
    <3>5. QED BY <1>3, <3>4
  <2>4. QED BY <1>2, <2>1, <2>2, <2>3
<1>5. ASSUME NEW d, d \in 1..drawn, Passed(d) PROVE Passed(d)'
  <2>1. \A p \in Outbox!PendingItems' : p \in Outbox!PendingItems \/ p.env.delivery = drawn + 1
    BY <1>1 DEF ItemsStep, NewItem
  <2>2. drawn \in Nat
    BY DeliveryIds
  <2>3. \A p \in Outbox!PendingItems' : d <= p.env.delivery
    BY <1>5, <2>1, <2>2 DEF Passed
  <2>4. QED BY <2>3 DEF Passed
<1>6. \A item \in late' : Passed(item.env.delivery)'
  <2>1. late' \subseteq Sending
    BY <1>1 DEF ItemsStep, NewItem, Sending, Waiting
  <2>2. ASSUME NEW item \in late' PROVE Passed(item.env.delivery)'
    <3>1. item \in Sending /\ item.env.delivery \in 1..drawn
      BY <2>1, <2>2, DeliveryIds DEF Sending, Items
    <3>2. QED BY <1>2, <1>5, <3>1, FirstIsOldest
  <2>3. QED BY <2>2
<1>7. \A t \in Tasks : \A e \in disk'[t].delivered : Passed(e.delivery)'
  BY <1>1, <1>2, <1>5, NewIsSent
<1>8. QED BY <1>4, <1>6, <1>7 DEF OrderInv

-----------------------------------------------------------------------------
(* The inductive invariant. *)

IInv ==
    /\ ServerInv
    /\ ControlInv
    /\ CodexInv
    /\ LossInv
    /\ QuarantineInv
    /\ StateInv
    /\ SuccessInv
    /\ AcceptInv
    /\ OpenInv
    /\ OrderInv

LEMMA InitInv == Init => IInv
<1> SUFFICES ASSUME Init PROVE IInv
  OBVIOUS
<1>1. CPP!IInv
  BY SameInit, ServerInvInit DEF Init
<1>2. /\ mem = [t \in Tasks |-> CP!Absent] /\ disk = [t \in Tasks |-> CP!Absent]
      /\ issued = 0 /\ torn = 0 /\ granted = {}
  BY DEF Init, CP!Init
<1>3. /\ CP!Absent.state = "absent" /\ CP!Absent.delivered = {} /\ CP!Absent.lease.id = 0
      /\ ~CP!Ended(CP!Absent)
  BY DEF CP!Absent, CP!NoLease, CP!Ended, CP!TerminalStates
<1>4. /\ pending = <<>> /\ cursor = [t \in Tasks |-> 0] /\ quarantined = {} /\ drawn = 0
      /\ skewed = 0 /\ late = {} /\ Outbox!PendingItems = {}
  BY DEF Init, Outbox!OutboxInit, Outbox!PendingItems, Outbox!ToSet
<1>5. Items = {} /\ Sending = {}
  BY <1>4 DEF Items, Sending, Waiting
<1>6. ServerInv
  <2>1. IdsInv
    BY <1>2, <1>3 DEF IdsInv
  <2>2. ItemsInv
    BY <1>4, <1>5, BudgetAssumption DEF ItemsInv
  <2>3. renewals = {}
    BY DEF Init
  <2>4. QED BY <1>1, <2>1, <2>2, <2>3 DEF ServerInv
<1>7. ControlInv
  <2>1. target \in 0..drawn
    BY <1>4 DEF Init
  <2>2. QED BY <2>1 DEF Init, ControlInv, Attempting, Places, Labels
<1>8. CodexInv
  BY DEF Init, CodexInv, MappingStates
<1>9. LossInv /\ QuarantineInv /\ StateInv
  BY <1>2, <1>3, <1>4 DEF LossInv, QuarantineInv, StateInv
<1>10. SuccessInv /\ AcceptInv /\ OpenInv
  BY <1>2, <1>3, <1>5 DEF Init, SuccessInv, AcceptInv, OpenInv, CodexPlace, BeforeTurn,
     AwaitsAcceptance
<1>11. OrderInv
  BY <1>2, <1>3, <1>4 DEF OrderInv, Passed
<1>12. QED BY <1>6, <1>7, <1>8, <1>9, <1>10, <1>11 DEF IInv

LEMMA NextInv == IInv /\ [Next]_vars => IInv'
<1> SUFFICES ASSUME IInv, [Next]_vars PROVE IInv'
  OBVIOUS
<1>0. ServerInv /\ ControlInv /\ CodexInv /\ LossInv /\ QuarantineInv /\ StateInv
      /\ SuccessInv /\ AcceptInv /\ OpenInv /\ OrderInv
  BY DEF IInv
<1>1. ServerInv' /\ CodexInv' /\ LossInv' /\ QuarantineInv' /\ SuccessInv' /\ AcceptInv' /\ OpenInv'
  BY <1>0, ServerInvStep, CodexInvStep, LossInvStep, QuarantineInvStep, SuccessInvStep,
     AcceptInvStep, OpenInvStep
<1>2. ControlInv'
  BY <1>0, LoopMoves DEF CodexInv
<1>3. StateInv'
  BY <1>0, StepKinds, ServerSteps, StateInvStep
<1>4. OrderInv'
  BY <1>0, OrderInvStep
<1>5. QED BY <1>1, <1>2, <1>3, <1>4 DEF IInv

(* The inductive invariant holds: the server's, and with it the parts      *)
(* about the loop, the items, the records and Codex.                       *)
THEOREM Inductive == Spec => []IInv
  BY InitInv, NextInv, PTL DEF Spec

(* Every reachable state is well-typed: no place of the loop uses a lease  *)
(* that the server did not answer with, and no item was built of one.      *)
THEOREM TypeCorrect == Spec => []TypeOK
<1>1. IInv => TypeOK
  <2> SUFFICES ASSUME IInv PROVE TypeOK
    OBVIOUS
  <2>1. CP!TypeOK
    BY SameType DEF IInv, ServerInv, CPP!IInv
  <2>2. \A item \in Outbox!PendingItems \cup quarantined \cup late :
            item.task \in Tasks /\ item.env \in CP!Envelope
    BY DEF IInv, ServerInv, ItemsInv, Items, Sending, Waiting, Built, Item
  <2>3. turns \in [Tasks -> Nat]
    BY DEF IInv, CodexInv
  <2>4. then \in Labels
    BY DEF IInv, ControlInv, Labels
  <2>5. QED BY <2>1, <2>2, <2>3, <2>4 DEF IInv, ServerInv, ItemsInv, ControlInv, CodexInv, TypeOK
<1>2. QED BY <1>1, Inductive, PTL

(* No envelope is ever lost: whatever the outbox made durable is pending,  *)
(* quarantined or on the server's disk, over crashes of the host between   *)
(* any two of its steps, lost answers, torn writes and restarts.           *)
THEOREM NoneLost == Spec => []NoEnvelopeLost
<1>1. IInv => NoEnvelopeLost
  <2> SUFFICES ASSUME IInv PROVE NoEnvelopeLost
    OBVIOUS
  <2> DEFINE Held == Ids(Outbox!PendingItems) \cup Ids(quarantined)
                     \cup {e.delivery : e \in UNION {disk[t].delivered : t \in Tasks}}
  <2>1. \A t \in Tasks : mem[t].delivered \subseteq disk[t].delivered
    BY DEF IInv, ServerInv, CPP!IInv, CPP!FileInv
  <2>2. \A d \in 1..drawn : d \in Held
    BY <2>1 DEF IInv, LossInv, Ids
  <2>3. \A d \in Held : d \in 1..drawn
    <3>1. \A item \in Items : item.env.delivery \in 1..drawn
      BY DEF IInv, ServerInv, ItemsInv, Built
    <3>2. QED BY <3>1 DEF IInv, LossInv, Ids, Items, Sending, Waiting
  <2> HIDE DEF Held
  <2>4. 1..drawn = Held
    BY <2>2, <2>3
  <2>5. QED BY <2>4 DEF NoEnvelopeLost, Held
<1>2. QED BY <1>1, Inductive, PTL

(* The host touches Codex for a task only after the control plane accepted *)
(* it durably: the drain of an attempt goes on to the preflight only       *)
(* through the acceptance of the very envelope it was started for.         *)
THEOREM AcceptedFirst == Spec => []CodexAfterAccepted
<1>1. IInv => CodexAfterAccepted
  <2> SUFFICES ASSUME IInv PROVE CodexAfterAccepted
    OBVIOUS
  <2>1. \A t \in Tasks : mem[t].delivered \subseteq disk[t].delivered
    BY DEF IInv, ServerInv, CPP!IInv, CPP!FileInv
  <2>2. QED BY <2>1 DEF IInv, AcceptInv, Accepted, CodexAfterAccepted
<1>2. QED BY <1>1, Inductive, PTL

(* As long as no write of the server is torn, what the host quarantined    *)
(* never enters the record, through no late publication and no new lease.  *)
THEOREM QuarantineFinal == Spec => []QuarantineIsFinal
<1>1. IInv => QuarantineIsFinal
  BY ServerTypes DEF IInv, QuarantineInv, QuarantineIsFinal
<1>2. QED BY <1>1, Inductive, PTL

(* As long as the clock of the host is not set back, envelopes are         *)
(* published in order: what enters the record of a task, at once, through  *)
(* a publication given up as lost, or from a file after a torn write,      *)
(* leaves no older envelope of its lease pending.                          *)
THEOREM InOrder == Spec /\ [](skewed = 0) => NoOvertaking
<1> DEFINE Kept == \A t \in Tasks : \A e \in mem'[t].delivered \ mem[t].delivered :
                      \A item \in Outbox!PendingItems : item.task = t => ~Older(item.env, e)
<1>1. IInv /\ skewed = 0 /\ [Next]_vars => [Kept]_vars
  <2> SUFFICES ASSUME IInv, skewed = 0, [Next]_vars,
                      NEW t \in Tasks, NEW e \in mem'[t].delivered,
                      NEW item \in Outbox!PendingItems
               PROVE  ~Older(item.env, e)
    OBVIOUS
  <2>1. ServerStep /\ CPP!IInv'
    BY StepKinds, ServerSteps DEF IInv
  <2>2. e \in disk'[t].delivered
    BY <2>1, RecordSteps DEF IInv
  <2>3. Passed(e.delivery) /\ e.delivery \in 1..drawn
    BY <2>1, <2>2, NewIsSent DEF IInv
  <2>4. item.env.delivery \in 1..drawn /\ drawn \in Nat
    BY DeliveryIds DEF IInv, Items, Waiting
  <2>5. e.delivery <= item.env.delivery
    BY <2>3 DEF Passed
  <2>6. QED BY <2>3, <2>4, <2>5 DEF Older
<1>2. QED BY <1>1, Inductive, PTL DEF Spec, NoOvertaking

-----------------------------------------------------------------------------
(* Refinement: the lifecycle of a task. *)

Phase(r) ==
    IF r.state = "absent" THEN "unknown" ELSE IF CP!Ended(r) THEN "ended" ELSE "open"

Result(r) == IF CP!Ended(r) THEN r.state ELSE "none"

(* The record of a task in memory keeps its phase and outcome, opens, or   *)
(* ends, with success only if the Turn completed.                          *)
PhaseKept(t) == Phase(mem'[t]) = Phase(mem[t]) /\ Result(mem'[t]) = Result(mem[t])

PhaseOpens(t) ==
    /\ Phase(mem[t]) = "unknown" /\ Phase(mem'[t]) = "open"
    /\ Result(mem'[t]) = Result(mem[t])

PhaseEnds(t) ==
    /\ Phase(mem[t]) = "open" /\ Phase(mem'[t]) = "ended"
    /\ Result(mem'[t]) \in Finals
    /\ Result(mem'[t]) = "succeeded" => turnState[t] = "completed"

LEMMA PhaseSteps ==
    ASSUME IInv, ServerStep, NEW t \in Tasks
    PROVE  PhaseKept(t) \/ PhaseOpens(t) \/ PhaseEnds(t)
<1>1. TaskStep(t)
  BY DEF ServerStep
<1>2. /\ \A r \in {mem[t], disk[t]} : CP!Ended(r) =>
            r.state \in Finals /\ \E e \in r.delivered : e.body = r.state
      /\ mem[t].state = "absent" => ~CP!Ended(disk[t])
      /\ disk[t].state = "absent" => mem[t].state = "absent"
  BY DEF IInv, StateInv
<1>3. \A r \in {mem[t], disk[t]} : r.state = "absent" => ~CP!Ended(r)
  BY <1>2 DEF Finals
<1>k. ASSUME Keeps(mem[t], mem'[t]) PROVE PhaseKept(t)
  BY <1>k DEF Keeps, PhaseKept, Phase, Result
<1>4. CASE mem'[t] = mem[t]
  BY <1>4 DEF PhaseKept
<1>5. CASE mem'[t] = disk[t]
  <2>1. CASE mem[t].state = "absent"
    BY <1>2, <1>3, <1>5, <2>1 DEF PhaseKept, PhaseOpens, Phase, Result
  <2>2. CASE CP!Ended(mem[t])
    <3>1. PICK e \in mem[t].delivered : e.body = mem[t].state
      BY <1>2, <2>2
    <3>2. e \in disk[t].delivered /\ e.body \in CPP!TerminalStates
      BY <1>2, <2>2, <3>1
      DEF IInv, ServerInv, CPP!IInv, CPP!FileInv, Finals, CPP!TerminalStates
    <3>3. disk[t].state = e.body
      BY <3>2 DEF IInv, ServerInv, CPP!IInv, CPP!RecordInv, CPP!OutcomeInv
    <3>4. CP!Ended(disk[t])
      BY <3>2, <3>3, SameRecords DEF CP!Ended
    <3>5. mem[t].state # "absent" /\ disk[t].state # "absent"
      BY <1>3, <2>2, <3>4
    <3>6. QED BY <1>5, <2>2, <3>1, <3>3, <3>4, <3>5 DEF PhaseKept, Phase, Result
  <2>3. CASE mem[t].state # "absent" /\ ~CP!Ended(mem[t])
    <3>1. disk[t].state # "absent"
      BY <1>2, <2>3
    <3>2. CASE ~CP!Ended(disk[t])
      BY <1>5, <2>3, <3>1, <3>2 DEF PhaseKept, Phase, Result
    <3>3. CASE CP!Ended(disk[t])
      <4>1. disk[t].state \in Finals /\ \E e \in disk[t].delivered : e.body = disk[t].state
        BY <1>2, <3>3
      <4>2. disk[t].state = "succeeded" => turnState[t] = "completed"
        BY <4>1 DEF IInv, SuccessInv
      <4>3. QED BY <1>5, <2>3, <3>1, <3>3, <4>1, <4>2 DEF PhaseEnds, Phase, Result
    <3>4. QED BY <3>2, <3>3
  <2>4. QED BY <2>1, <2>2, <2>3
<1>6. CASE Writes(t, mem[t], mem'[t])
  <2>1. CASE Keeps(mem[t], mem'[t])
    BY <1>k, <2>1
  <2>2. CASE Opens(mem[t], mem'[t])
    BY <1>3, <2>2 DEF Opens, PhaseOpens, Phase, Result
  <2>3. CASE Ends(t, mem[t], mem'[t])
    <3>1. PICK item \in Sending :
              item.task = t /\ item.env.body = mem'[t].state /\ mem'[t].state \in Finals
      BY <2>3 DEF Ends
    <3>2. mem'[t].state = "succeeded" => turnState[t] = "completed"
      BY <3>1 DEF IInv, SuccessInv, Items, Sending
    <3>3. mem'[t].state # "absent"
      BY <3>1 DEF Finals
    <3>4. QED BY <2>3, <3>1, <3>2, <3>3 DEF Ends, PhaseEnds, Phase, Result
  <2>4. QED BY <1>6, <2>1, <2>2, <2>3 DEF Writes
<1>7. CASE Ages(t, mem[t], mem'[t])
  BY <1>k, <1>7 DEF Ages
<1>8. QED BY <1>1, <1>4, <1>5, <1>6, <1>7 DEF TaskStep

(* What Codex holds of a task stays, or the server is left alone. *)
LEMMA TurnSteps ==
    ASSUME IInv, [Next]_vars, NEW t \in Tasks
    PROVE  \/ turns'[t] = turns[t] /\ turnState'[t] = turnState[t]
           \/ /\ turns[t] = 0 /\ turns'[t] = 1 /\ turnState'[t] = "running"
              /\ mem'[t] = mem[t] /\ Phase(mem[t]) = "open"
           \/ /\ turnState[t] = "running" /\ turnState'[t] \in {"completed", "failed"}
              /\ turns'[t] = turns[t] /\ mem'[t] = mem[t]
<1>1. CodexKinds
  BY AsideSteps DEF Aside
<1>2. /\ turns \in [Tasks -> {0, 1}]
      /\ turnState \in [Tasks -> {"none", "running", "completed", "failed"}]
  BY DEF IInv, CodexInv
<1>3. ASSUME pc = "start", turns' = [turns EXCEPT ![lease.task] = @ + 1],
             turnState' = [turnState EXCEPT ![lease.task] = "running"], UNCHANGED cpVars,
             t = lease.task
      PROVE  /\ turns[t] = 0 /\ turns'[t] = 1 /\ turnState'[t] = "running"
             /\ mem'[t] = mem[t] /\ Phase(mem[t]) = "open"
  <2>1. turns[t] = 0
    BY <1>3 DEF IInv, CodexInv
  <2>2. StillOpen(mem[t])
    BY <1>3 DEF IInv, OpenInv, BeforeTurn
  <2>3. QED BY <1>2, <1>3, <2>1, <2>2 DEF StillOpen, Phase, cpVars
<1>4. ASSUME NEW u \in Tasks, NEW s \in {"completed", "failed"},
             turnState[u] = "running", turnState' = [turnState EXCEPT ![u] = s],
             UNCHANGED <<mapping, threads, turns>>, UNCHANGED cpVars, t = u
      PROVE  /\ turnState[t] = "running" /\ turnState'[t] \in {"completed", "failed"}
             /\ turns'[t] = turns[t] /\ mem'[t] = mem[t]
  BY <1>2, <1>4 DEF cpVars
<1>5. QED BY <1>1, <1>2, <1>3, <1>4 DEF CodexKinds

LEMMA LifecycleNext ==
    ASSUME IInv, [Next]_vars
    PROVE  Lifecycle!Next
<1>1. ServerStep
  BY StepKinds, ServerSteps DEF IInv
<1>2. turns' \in [Tasks -> {0, 1}]
      /\ turnState' \in [Tasks -> {"none", "running", "completed", "failed"}]
  BY CodexInvStep DEF IInv, CodexInv
<1>3. ASSUME NEW t \in Tasks
      PROVE  \/ Lifecycle!Submit(t) \/ Lifecycle!Execute(t) \/ Lifecycle!Finish(t)
             \/ Lifecycle!Stays(t) \/ \E o \in Lifecycle!Outcomes : Lifecycle!Report(t, o)
  <2>1. PhaseKept(t) \/ PhaseOpens(t) \/ PhaseEnds(t)
    BY <1>1, PhaseSteps
  <2>2. CASE turns'[t] = turns[t] /\ turnState'[t] = turnState[t]
    <3>1. PhaseKept(t) => Lifecycle!Stays(t)
      BY <2>2 DEF PhaseKept, Phase, Result, Lifecycle!Stays
    <3>2. PhaseOpens(t) => Lifecycle!Submit(t)
      BY <2>2 DEF PhaseOpens, Phase, Result, Lifecycle!Submit
    <3>3. PhaseEnds(t) => \E o \in Lifecycle!Outcomes : Lifecycle!Report(t, o)
      BY <2>2 DEF PhaseEnds, Phase, Result, Lifecycle!Report, Lifecycle!Outcomes, Finals
    <3>4. QED BY <2>1, <3>1, <3>2, <3>3
  <2>3. CASE /\ turns[t] = 0 /\ turns'[t] = 1 /\ turnState'[t] = "running"
             /\ mem'[t] = mem[t] /\ Phase(mem[t]) = "open"
    BY <2>3 DEF Phase, Lifecycle!Execute
  <2>4. CASE /\ turnState[t] = "running" /\ turnState'[t] \in {"completed", "failed"}
             /\ turns'[t] = turns[t] /\ mem'[t] = mem[t]
    BY <2>4 DEF Lifecycle!Finish
  <2>5. QED BY <2>2, <2>3, <2>4, TurnSteps
<1>4. QED BY <1>2, <1>3 DEF Lifecycle!Next

(* The host, the server, Codex and the network implement the lifecycle of  *)
(* a task: one Turn at most, started only while the task is open, and one  *)
(* outcome, which is success only if that Turn completed.                  *)
THEOREM Refinement == Spec => ImplementsLifecycle
<1>1. Init => Lifecycle!Init
  <2> SUFFICES ASSUME Init PROVE Lifecycle!Init
    OBVIOUS
  <2>1. mem = [t \in Tasks |-> CP!Absent] /\ CP!Absent.state = "absent" /\ ~CP!Ended(CP!Absent)
    BY DEF Init, CP!Init, CP!Absent, CP!NoLease, CP!Ended, CP!TerminalStates
  <2>2. QED BY <2>1 DEF Init, Lifecycle!Init
<1>2. IInv /\ [Next]_vars => [Lifecycle!Next]_(Lifecycle!vars)
  BY LifecycleNext
<1>3. QED BY <1>1, <1>2, Inductive, PTL DEF Spec, ImplementsLifecycle, Lifecycle!Spec

=============================================================================
