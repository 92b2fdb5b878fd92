---------------------------- MODULE WorkerGateway ----------------------------
(***************************************************************************)
(* The worker gateway of apps/web/src/worker_gateway.rs with the callers   *)
(* of its MCP tools and the worker loop of host-runtime/remote-node.ts     *)
(* that executes them.                                                     *)
(*                                                                         *)
(* Every handler takes the mutex, sweeps all records (refresh_locked) and  *)
(* then does its own work, so a handler is one step.  A record is written  *)
(* to its file before memory is changed.  A write may fail before the file *)
(* is replaced, which changes nothing, or after it (sync of the directory),*)
(* which leaves a file newer than memory; either way the handler answers   *)
(* an error, and an error inside the sweep ends it half-way.               *)
(*                                                                         *)
(* The host asks for a lease, executes, and reports.  A lease answer or a  *)
(* report may be lost, and a report the host gave up on may still arrive.  *)
(* Two executions may have the same result or the same error.              *)
(*                                                                         *)
(* Abstractions.  Times are what is left until an expiry; the clock is     *)
(* monotone.  A call is its dedupe key; a repeated key with other arguments*)
(* is answered with a conflict and changes nothing.  Request ids are given *)
(* in the order of creation.  There is one capability and one node, as the *)
(* gateway is bound to one.  The long polls are polls; a caller that gave  *)
(* up after 28 s comes back with the same key.                             *)
(***************************************************************************)
EXTENDS Integers, FiniteSets

CONSTANTS
    Keys,         \* request_dedupe_key of a call
    NoKey,        \* the key of calls without idempotencyKey
    Results,      \* what an execution may return, or throw
    NoResult,     \* of a record without outcome
    MaxRequests,  \* bound: requests that are given an id
    MaxLeases,    \* bound: leases that are granted
    RequestTTL, LeaseTTL,
    MaxActive,    \* MAX_ACTIVE_REQUESTS
    MaxFaults     \* bound: failed writes, crashes of the gateway and of the host

ASSUME KeysAssumption == NoKey \notin Keys
ASSUME ResultsAssumption == NoResult \notin Results
ASSUME TimesAssumption == RequestTTL \in Nat \ {0} /\ LeaseTTL \in Nat \ {0}
ASSUME GatewayBoundsAssumption == {MaxRequests, MaxLeases, MaxActive, MaxFaults} \subseteq Nat

VARIABLES
    mem,      \* WorkerGatewayState.requests
    disk,     \* the files of the requests
    made,     \* request ids drawn so far
    leases,   \* lease ids drawn so far
    host,     \* what the worker loop of the host holds
    late,     \* reports under way that the host does not wait for any more
    granted,  \* history: leases that were answered
    decided,  \* history: reports that were written to the file as the outcome
    accepted, \* history: reports that were answered with success
    told,     \* history: outcomes callers were answered
    dropped,  \* history: keys of which a terminal record was deleted
    torn,     \* failed writes that left a newer file so far
    faults    \* all failures so far

gatewayVars == <<mem, disk, made, leases>>
history == <<granted, decided, accepted, told, dropped>>
vars == <<gatewayVars, host, late, history, torn, faults>>

-----------------------------------------------------------------------------
(* Records *)

Requests == 1..MaxRequests

Outcomes == {"completed", "failed"}

Terminal == Outcomes \cup {"expired"}

Gone == [state |-> "gone"]

\* `result' is the result or the error of the outcome.
Record ==
    [key: Keys \cup {NoKey}, state: {"queued", "leased"} \cup Terminal, lease: 0..MaxLeases,
     token: 0..MaxLeases, left: 0..LeaseTTL, ttl: 0..RequestTTL, result: Results \cup {NoResult}]

Report == [request: Requests, lease: 1..MaxLeases, token: 1..MaxLeases,
           state: Outcomes, result: Results]

Ended(rec) == rec.state \in Terminal

\* Mutant: only requests that were handed out expire.
SweptQueuedLingers(rec) ==
    IF rec = Gone \/ (Ended(rec) /\ rec.ttl > 0) THEN rec
    ELSE IF Ended(rec) THEN Gone
    ELSE IF rec.ttl = 0 /\ rec.state = "leased"
         THEN [rec EXCEPT !.state = "expired", !.lease = 0, !.left = 0]
    ELSE IF rec.state = "leased" /\ rec.left = 0 THEN [rec EXCEPT !.state = "queued", !.lease = 0]
    ELSE rec

\* refresh_locked for one record
Swept(rec) ==
    IF rec = Gone \/ (Ended(rec) /\ rec.ttl > 0) THEN rec
    ELSE IF Ended(rec) THEN Gone
    ELSE IF rec.ttl = 0 THEN [rec EXCEPT !.state = "expired", !.lease = 0, !.left = 0]
    ELSE IF rec.state = "leased" /\ rec.left = 0 THEN [rec EXCEPT !.state = "queued", !.lease = 0]
    ELSE rec

\* Memory and files once the records of S are swept.
MemAfter(S) == [r \in Requests |-> IF r \in S THEN Swept(mem[r]) ELSE mem[r]]

DiskAfter(S) ==
    [r \in Requests |-> IF r \in S /\ Swept(mem[r]) # mem[r] THEN Swept(mem[r]) ELSE disk[r]]

DroppedBy(S) == {mem[r].key : r \in {q \in S : mem[q] # Gone /\ Swept(mem[q]) = Gone}}

SweptMem == MemAfter(Requests)

-----------------------------------------------------------------------------
(* What a handler does to memory and files *)

Fault == faults < MaxFaults /\ faults' = faults + 1

\* A handler whose sweep succeeds and that writes nothing of its own.
Swept0 ==
    /\ mem' = SweptMem
    /\ disk' = DiskAfter(Requests)
    /\ dropped' = dropped \cup DroppedBy(Requests)
    /\ UNCHANGED <<torn, faults>>

\* A handler that, after its sweep, stores rec as record r.
Stored(r, rec) ==
    /\ mem' = [SweptMem EXCEPT ![r] = rec]
    /\ disk' = [DiskAfter(Requests) EXCEPT ![r] = rec]
    /\ dropped' = dropped \cup DroppedBy(Requests)
    /\ UNCHANGED <<torn, faults>>

\* The same when the directory cannot be synced after the rename.
StoredTorn(r, rec) ==
    /\ Fault /\ torn' = torn + 1
    /\ mem' = SweptMem
    /\ disk' = [DiskAfter(Requests) EXCEPT ![r] = rec]
    /\ dropped' = dropped \cup DroppedBy(Requests)

\* Any handler whose sweep gets no further than record x.
BrokenSweep(x, S) ==
    /\ mem[x] # Gone /\ Swept(mem[x]) # mem[x] /\ x \notin S
    /\ mem' = MemAfter(S)
    /\ dropped' = dropped \cup DroppedBy(S)
    /\ Fault
    /\ \/ disk' = DiskAfter(S) /\ UNCHANGED torn
       \/ /\ Swept(mem[x]) # Gone
          /\ disk' = [DiskAfter(S) EXCEPT ![x] = Swept(mem[x])]
          /\ torn' = torn + 1
    /\ UNCHANGED <<made, leases, host, late, granted, decided, accepted, told>>

-----------------------------------------------------------------------------
(* Callers *)

Init ==
    /\ mem = [r \in Requests |-> Gone]
    /\ disk = mem
    /\ made = 0
    /\ leases = 0
    /\ host = {}
    /\ late = {}
    /\ granted = {}
    /\ decided = {}
    /\ accepted = {}
    /\ told = {}
    /\ dropped = {}
    /\ torn = 0
    /\ faults = 0

\* Mutant: only requests that are still open are looked up.
SameCallOpen(k) ==
    {r \in Requests : k # NoKey /\ SweptMem[r].state \in {"queued", "leased"} /\ SweptMem[r].key = k}

\* The records submit_for compares the key of a call with.
SameCall(k) == {r \in Requests : k # NoKey /\ SweptMem[r] # Gone /\ SweptMem[r].key = k}

Queued(k) ==
    [key |-> k, state |-> "queued", lease |-> 0, token |-> 0,
     left |-> 0, ttl |-> RequestTTL, result |-> NoResult]

\* MAX_ACTIVE_REQUESTS, counted after the sweep
Room == Cardinality({r \in Requests : SweptMem[r].state \in {"queued", "leased"}}) < MaxActive

\* submit_for of a call whose key is not known
Submit(k) ==
    /\ SameCall(k) = {} /\ Room /\ made < MaxRequests
    /\ made' = made + 1
    /\ Stored(made', Queued(k)) \/ StoredTorn(made', Queued(k))
    /\ UNCHANGED <<leases, host, late, granted, decided, accepted, told>>

\* get, for a caller that waits for r or asks again with the key of r
Answer(r) ==
    /\ SweptMem[r] # Gone /\ Ended(SweptMem[r])
    /\ told' = told \cup {[key |-> SweptMem[r].key, request |-> r,
                           state |-> SweptMem[r].state, result |-> SweptMem[r].result]}
    /\ Swept0
    /\ UNCHANGED <<made, leases, host, late, granted, decided, accepted>>

-----------------------------------------------------------------------------
(* The worker loop of the host and the handlers it calls *)

Waiting == {r \in Requests : SweptMem[r].state = "queued"}

Leased(rec) ==
    [rec EXCEPT !.state = "leased", !.lease = leases + 1, !.token = @ + 1, !.left = LeaseTTL]

\* try_lease_for gives out the oldest request; the answer may be lost.
Lease ==
    /\ host = {} /\ Waiting # {} /\ leases < MaxLeases
    /\ LET r == CHOOSE q \in Waiting : \A p \in Waiting : q <= p
           rec == Leased(SweptMem[r])
           lease == [request |-> r, lease |-> rec.lease, token |-> rec.token]
       IN  /\ leases' = leases + 1
           /\ \/ /\ Stored(r, rec)
                 /\ granted' = granted \cup {lease}
                 /\ host' \in {host, {lease}}
              \/ StoredTorn(r, rec) /\ UNCHANGED <<granted, host>>
    /\ UNCHANGED <<made, late, decided, accepted, told>>

\* A handler that only sweeps: a poll that finds nothing, a caller whose answer
\* is not there yet, a repeated or conflicting call, a refused report.
Poll ==
    /\ SweptMem # mem
    /\ Swept0
    /\ UNCHANGED <<made, leases, host, late, granted, decided, accepted, told>>

\* executeZero3WorkerRpc has returned or thrown
Executed(l, state, result) ==
    [request |-> l.request, lease |-> l.lease, token |-> l.token,
     state |-> state, result |-> result]

\* Mutant: the lease id is not compared.
ValidLeaseAnyId(rec, rep) == rec.state = "leased"

\* validate_active_lease, behind the sweep
ValidLease(rec, rep) ==
    rec.state = "leased" /\ rec.lease = rep.lease /\ rec.token = rep.token

WithOutcome(rec, rep) == [rec EXCEPT !.state = rep.state, !.result = rep.result, !.left = 0]

Accept(rep) == accepted' = accepted \cup {rep}

Decide(rep) == decided' = decided \cup {rep}

\* Mutant: memory is changed although the file was not written.
FinishInMemory(rep) ==
    LET rec == SweptMem[rep.request] IN
    /\ rec # Gone
    /\ \/ /\ Ended(rec) /\ rec.state = rep.state /\ rec.result = rep.result
          /\ Swept0 /\ Accept(rep) /\ UNCHANGED decided
       \/ /\ ~Ended(rec) /\ ValidLease(rec, rep)
          /\ mem' = [SweptMem EXCEPT ![rep.request] = WithOutcome(rec, rep)]
          /\ disk' = DiskAfter(Requests)
          /\ dropped' = dropped \cup DroppedBy(Requests)
          /\ UNCHANGED <<torn, faults>>
          /\ Decide(rep) /\ Accept(rep)

\* finish: the same outcome again is a success, whatever lease it is reported
\* under, and another one a conflict
Finish(rep) ==
    LET rec == SweptMem[rep.request] IN
    /\ rec # Gone
    /\ \/ /\ Ended(rec) /\ rec.state = rep.state /\ rec.result = rep.result
          /\ Swept0 /\ Accept(rep) /\ UNCHANGED decided
       \/ /\ ~Ended(rec) /\ ValidLease(rec, rep)
          /\ Decide(rep)
          /\ \/ Stored(rep.request, WithOutcome(rec, rep)) /\ Accept(rep)
             \/ StoredTorn(rep.request, WithOutcome(rec, rep)) /\ UNCHANGED accepted

\* The host publishes once.  It goes on whether the report is accepted, ...
Publish(l, state, result) ==
    /\ l \in host
    /\ Finish(Executed(l, state, result))
    /\ host' = {}
    /\ UNCHANGED <<made, leases, late, granted, told>>

\* ... refused, lost, or still under way.
GiveUp(l, state, result) ==
    /\ l \in host
    /\ host' = {}
    /\ late' \in {late, late \cup {Executed(l, state, result)}}
    /\ UNCHANGED <<gatewayVars, history, torn, faults>>

Arrive(rep) ==
    /\ rep \in late
    /\ Finish(rep)
    /\ late' = late \ {rep}
    /\ UNCHANGED <<made, leases, host, granted, told>>

-----------------------------------------------------------------------------
(* Time and crashes *)

Aged(rec) ==
    IF rec = Gone THEN rec
    ELSE [rec EXCEPT !.ttl = IF @ = 0 THEN 0 ELSE @ - 1, !.left = IF @ = 0 THEN 0 ELSE @ - 1]

Tick ==
    /\ \E r \in Requests : mem[r] # Gone \/ disk[r] # Gone
    /\ mem' = [r \in Requests |-> Aged(mem[r])]
    /\ disk' = [r \in Requests |-> Aged(disk[r])]
    /\ UNCHANGED <<made, leases, host, late, history, torn, faults>>

\* open
Restart ==
    /\ Fault
    /\ mem' = disk
    /\ UNCHANGED <<disk, made, leases, host, late, history, torn>>

HostRestart ==
    /\ host # {} /\ Fault
    /\ host' = {}
    /\ UNCHANGED <<gatewayVars, late, history, torn>>

Handlers ==
    \/ \E k \in Keys \cup {NoKey} : Submit(k)
    \/ \E r \in Requests : Answer(r)
    \/ Lease
    \/ Poll
    \/ \E l \in host, state \in Outcomes, result \in Results :
          Publish(l, state, result) \/ GiveUp(l, state, result)
    \/ \E rep \in late : Arrive(rep)
    \/ \E x \in Requests : \E S \in SUBSET Requests : BrokenSweep(x, S)

Next == Handlers \/ Tick \/ Restart \/ HostRestart

Spec == Init /\ [][Next]_vars

\* The clock runs, and the worker loop polls, executes and goes on.
FairSpec ==
    /\ Spec
    /\ WF_vars(Tick)
    /\ WF_vars(Lease \/ Poll)
    /\ WF_vars(\E l \in host, state \in Outcomes, result \in Results :
                    Publish(l, state, result) \/ GiveUp(l, state, result))

-----------------------------------------------------------------------------
(* Properties *)

TypeOK ==
    /\ mem \in [Requests -> Record \cup {Gone}]
    /\ disk \in [Requests -> Record \cup {Gone}]
    /\ made \in 0..MaxRequests
    /\ leases \in 0..MaxLeases
    /\ host \subseteq granted /\ Cardinality(host) <= 1
    /\ late \subseteq Report
    /\ decided \subseteq Report
    /\ accepted \subseteq Report
    /\ torn \in 0..faults /\ faults \in 0..MaxFaults

\* An outcome is of a report that was made under the newest lease of its request.
FromNewest(o) ==
    \E d \in decided :
        /\ d.request = o.request /\ d.state = o.state /\ d.result = o.result
        /\ \A g \in granted : g.request = o.request => g.token <= d.token

(* Only the newest lease of a request decides its outcome: whatever the    *)
(* host or a caller is told was reported under it, and no lease of the     *)
(* request is given out afterwards.  A late report of an older lease is    *)
(* refused, or repeats what the newest has decided (finish,                *)
(* validate_active_lease).                                                 *)
DecidedByNewest ==
    /\ \A a \in accepted : FromNewest(a)
    /\ \A t \in told : t.state \in Outcomes => FromNewest(t)

(* What the host was told is accepted stays the outcome in memory and in   *)
(* the file until the record is deleted.                                   *)
AcceptedIsDurable ==
    \A a \in accepted : \A rec \in {mem[a.request], disk[a.request]} :
        rec # Gone => rec.state = a.state /\ rec.result = a.result

(* A call is answered alike as long as its record exists: two callers of   *)
(* one key hear of different requests only after a terminal record of that *)
(* key was deleted, or a write left a file the gateway did not know of.    *)
RepeatsAgree ==
    \A a, b \in told :
        /\ a.request = b.request => a = b
        /\ a.key = b.key /\ a.key # NoKey /\ a # b => a.key \in dropped \/ torn > 0

(* Every request that was accepted is answered or expires, with the host   *)
(* slow, its messages lost, and the gateway restarted.                     *)
RequestsEnd ==
    \A r \in Requests :
        mem[r].state \in {"queued", "leased"} ~> mem[r].state \in Terminal \cup {"gone"}

=============================================================================
