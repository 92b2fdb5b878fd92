-------------------------- MODULE WorkflowWorkers --------------------------
(***************************************************************************)
(* The workflow worker runtime of worker-runtime/v2: long-lived slots of   *)
(* web conversations that claim the stages of one workflow run.            *)
(*                                                                         *)
(* Every operation is synchronous, and but for the queries of the wakeup   *)
(* controller one SQLite transaction, so it is one step on the tables      *)
(* `db'.  What interleaves are the calls: of the conversations, whose      *)
(* requests may be late, repeated or out of turn; of the wakeup controller *)
(* and the station manager, which wait between two calls; of the user      *)
(* interface, which may rotate sessions and expire leases whenever it      *)
(* likes.  Leases lapse meanwhile, and nothing happens to a lapsed one     *)
(* until some call looks at it.                                            *)
(*                                                                         *)
(* Abstractions.  A session is its slot and generation: a slot opens one   *)
(* session per generation.  A ticket is the session it was issued for; a   *)
(* call with one that has expired or is not the newest is refused and      *)
(* changes nothing, and so is a call that throws.  A call that repeats an  *)
(* idempotency key is answered from the table and changes nothing.  A      *)
(* lease has lapsed or not; batch size and order are numbers; artifacts    *)
(* and the statuses of work items, which nothing reads back, are left out. *)
(* States no code sets (LOST) are left out.                                *)
(***************************************************************************)
EXTENDS Naturals, FiniteSets

CONSTANTS
    Stages,      \* StageRuns, those of later additions included
    Items, ItemOf, \* WorkItems, and the one every stage is of
    DependsOn,   \* stage_dependencies
    Rank,        \* the order of i.ordinal, s.ordinal, s.stage_run_id
    Definitions, DefinitionOf, \* WorkerDefinitions, and the one every stage is for
    CapabilityOf, \* required_capability of every stage
    MaxAttempts, \* max_attempts of every stage
    Slots,
    Serves,      \* worker_definition_id of every slot
    Can,         \* requiredCapabilities of every slot's binding
    Batch,       \* maxBatchSize of every slot
    ItemLimit,   \* maxItemsPerPhysicalSession of every slot; 0 if it has none
    Claims,      \* claim ids
    NoClaim,
    MaxGeneration \* bound: generations of every slot

ASSUME StagesAssumption ==
    /\ IsFiniteSet(Stages)
    /\ ItemOf \in [Stages -> Items]
    /\ DependsOn \in [Stages -> SUBSET Stages]
    /\ Rank \in [Stages -> Nat]
    /\ DefinitionOf \in [Stages -> Definitions]
    /\ MaxAttempts \in [Stages -> Nat \ {0}]
ASSUME SlotsAssumption ==
    /\ Serves \in [Slots -> Definitions]
    /\ Batch \in [Slots -> Nat \ {0}]
    /\ ItemLimit \in [Slots -> Nat]
    /\ Slots # {}
ASSUME ClaimsAssumption == NoClaim \notin Claims
ASSUME BoundsAssumption == MaxGeneration \in [Slots -> Nat \ {0}]

VARIABLES
    db,   \* the tables
    told  \* history: slots told NO_WORK_AVAILABLE by claim_work, and waiting since

vars == <<db, told>>

-----------------------------------------------------------------------------
(* Tables *)

Held == {"CLAIMED", "RUNNING"}

StageRow ==
    [status: {"absent", "PENDING", "READY", "COMPLETED", "BLOCKED", "FAILED"} \cup Held,
     claim: Claims \cup {NoClaim},
     attempts: Nat]

\* A claim that is not ACTIVE any more has ended, whatever its status: no code
\* reads the rest of its row.
ClaimRow ==
    [status: {"none", "ACTIVE", "ended"},
     slot: Slots, generation: Nat, units: SUBSET Stages, lapsed: BOOLEAN]

NoClaimRow(status) ==
    [status |-> status, slot |-> CHOOSE w \in Slots : TRUE, generation |-> 0,
     units |-> {}, lapsed |-> FALSE]

\* A slot and its active session; `done' is processed_item_count up to the limit.
SlotRow ==
    [generation: Nat,
     state: {"IDLE", "ACTIVE", "WAITING", "ROTATING"},
     session: {"none", "STARTING", "ACTIVE", "WAITING", "ROTATING"},
     done: Nat]

\* Of its queue_generation a wakeup keeps whether it is the newest one.  One that is
\* suppressed, or delivered and not of the newest, is deleted: nothing reads it again.
Wakeup ==
    [slot: Slots, session: Nat, newest: BOOLEAN, state: {"WAKE_PENDING", "DELIVERED"}]

Tables ==
    [stages: [Stages -> StageRow],
     claims: [Claims -> ClaimRow],
     slots: [Slots -> SlotRow],
     ready: [Definitions -> Nat], \* ready_count
     wakeups: SUBSET Wakeup,
     run: {"ACTIVE", "COMPLETED"}]

Completed(d, s) == d.stages[s].status = "COMPLETED"

Ready(d, k) == {s \in Stages : DefinitionOf[s] = k /\ d.stages[s].status = "READY"}

\* currentClaims
Current(d, w) == {c \in Claims : d.claims[c].status = "ACTIVE" /\ d.claims[c].slot = w}

\* The active claim of the slot's own session.
Own(d, w) == {c \in Current(d, w) : d.claims[c].generation = d.slots[w].generation}

WithSlot(d, w, state, session) ==
    [d EXCEPT !.slots[w].state = state, !.slots[w].session = session]

-----------------------------------------------------------------------------
(* Wakeups *)

Pending(d) == {u \in d.wakeups : u.state = "WAKE_PENDING"}

\* Mutant: a session that waits is not looked for.
SleepsActive(d, w) ==
    /\ d.slots[w].state \in {"WAITING", "IDLE"}
    /\ d.slots[w].session = "ACTIVE"
    /\ Current(d, w) = {}

Sleeps(d, w) ==
    /\ d.slots[w].state \in {"WAITING", "IDLE"}
    /\ d.slots[w].session \in {"WAITING", "ACTIVE"}
    /\ Current(d, w) = {}

Wakes(d, k) == d.ready[k] = 0 /\ Ready(d, k) # {}

NewWakeup(d, w) ==
    [slot |-> w, session |-> d.slots[w].generation, newest |-> TRUE, state |-> "WAKE_PENDING"]

\* refreshWakeupsTx for the definitions in K.
Refreshed(d, K) ==
    LET woken == {w \in Slots : Serves[w] \in K /\ Wakes(d, Serves[w])}
        older == {u \in d.wakeups : u.slot \in woken}
    IN  [d EXCEPT
            !.ready = [k \in Definitions |-> IF k \in K THEN Cardinality(Ready(d, k)) ELSE @[k]],
            !.wakeups = (@ \ older)
                \cup {[u EXCEPT !.newest = FALSE] : u \in older \cap Pending(d)}
                \cup {NewWakeup(d, w) : w \in {v \in woken : Sleeps(d, v)}}]

-----------------------------------------------------------------------------
(* Claims and stages *)

Lapsed(d) == {c \in Claims : d.claims[c].status = "ACTIVE" /\ d.claims[c].lapsed}

\* Back to the queue, unless the attempts are used up.
Returned(row, s) ==
    [row EXCEPT !.status = IF row.attempts >= MaxAttempts[s] THEN "FAILED" ELSE "READY",
                !.claim = NoClaim]

\* Mutant: the stages go back to the queue and the claim stays active.
ExpiredStages(d, L) ==
    Refreshed(
        [d EXCEPT !.stages = [s \in Stages |->
            IF (\E c \in L : s \in d.claims[c].units) /\ @[s].status \in Held
            THEN Returned(@[s], s) ELSE @[s]]],
        {Serves[d.claims[c].slot] : c \in L})

\* expireClaimsTx, for the claims in L.  The order of the claims is not kept:
\* a slot with an active claim never sleeps.
Expired(d, L) ==
    Refreshed(
        [d EXCEPT
            !.stages = [s \in Stages |->
                IF (\E c \in L : s \in d.claims[c].units) /\ @[s].status \in Held
                THEN Returned(@[s], s) ELSE @[s]],
            !.claims = [c \in Claims |->
                IF c \in L THEN NoClaimRow("ended") ELSE @[c]]],
        {Serves[d.claims[c].slot] : c \in L})

Candidates(d, w) ==
    {s \in Ready(d, Serves[w]) : d.stages[s].attempts < MaxAttempts[s]}

\* The query takes the first n, the capabilities of the ticket filter afterwards.
Eligible(d, w, n) ==
    {s \in Candidates(d, w) :
        /\ Cardinality({t \in Candidates(d, w) : Rank[t] < Rank[s]}) < n
        /\ CapabilityOf[s] \in Can[w]}

Unused(d) == {c \in Claims : d.claims[c].status = "none"}

Grantable(d, w, n) ==
    d.slots[w].state # "ROTATING" /\ Eligible(d, w, n) # {}

Granted(d, w, n) ==
    LET id == CHOOSE c \in Unused(d) : TRUE
        units == Eligible(d, w, n)
    IN  Refreshed(
            WithSlot(
                [d EXCEPT
                    !.claims[id] = [status |-> "ACTIVE", slot |-> w, lapsed |-> FALSE,
                                    generation |-> d.slots[w].generation, units |-> units],
                    !.stages = [s \in Stages |->
                        IF s \in units
                        THEN [status |-> "CLAIMED", claim |-> id, attempts |-> @[s].attempts + 1]
                        ELSE @[s]]],
                w, "ACTIVE", "ACTIVE"),
            {Serves[w]})

\* createClaimTx: the session's claim, a new one, or null.
Claimed(d, w, n) == IF Own(d, w) # {} THEN d ELSE Granted(d, w, n)

MayClaim(d, w, n) == Own(d, w) # {} \/ Grantable(d, w, n)

\* Bound: a call that needs a claim id finds one.
IdsLeft(d, w, n) == Own(d, w) = {} /\ Grantable(d, w, n) => Unused(d) # {}

\* requireActiveClaim
Holds(w, g, c) ==
    LET row == db.claims[c]
    IN  row.slot = w /\ row.generation = g /\ row.status = "ACTIVE" /\ ~row.lapsed

\* recalculateStageReadiness
Readied(d, s) ==
    d.stages[s].status = "PENDING" /\ \A p \in DependsOn[s] : Completed(d, p)

WithReadied(d, T) ==
    [d EXCEPT !.stages = [s \in Stages |->
        IF s \in T /\ Readied(d, s) THEN [@[s] EXCEPT !.status = "READY"] ELSE @[s]]]

-----------------------------------------------------------------------------
(* Sessions *)

\* verifiedTicket, for the ticket of the session with generation g.
Verified(w, g) == db.slots[w].session # "none" /\ g = db.slots[w].generation

\* A slot whose state changes is not waiting for work any more.
Becomes(d, T) ==
    /\ db' = d
    /\ told' = {w \in T : d.slots[w].state = "WAITING"}

Init ==
    /\ db = [stages |-> [s \in Stages |->
                [status |-> "absent", claim |-> NoClaim, attempts |-> 0]],
             claims |-> [c \in Claims |-> NoClaimRow("none")],
             slots |-> [w \in Slots |->
                [generation |-> 1, state |-> "IDLE", session |-> "none", done |-> 0]],
             ready |-> [k \in Definitions |-> 0],
             wakeups |-> {},
             run |-> "ACTIVE"]
    /\ told = {}

Seeded(d) == {s \in Stages : d.stages[s].status # "absent"}

StagesOf(I) == {s \in Stages : ItemOf[s] \in I}

\* addWorkItems, of the new items I.
AddWorkItems(I) ==
    LET new == StagesOf(I)
        inserted == [db EXCEPT !.stages = [s \in Stages |->
                        IF s \in new THEN [@[s] EXCEPT !.status = "PENDING"] ELSE @[s]]]
    IN  /\ I # {} /\ new \cap Seeded(db) = {}
        /\ \A i \in I : StagesOf({i}) # {}
        /\ \A s \in new : DependsOn[s] \subseteq Seeded(inserted) \ {s}
        /\ Becomes(Refreshed(WithReadied(inserted, new), {DefinitionOf[s] : s \in new}), told)

\* openPhysicalSession: no session is ever LOST, and a CLOSED one is replaced at once.
OpenPhysicalSession(w) ==
    LET d == Expired(db, Lapsed(db))
    IN  db.slots[w].session = "none"
        /\ Becomes([WithSlot(d, w, "ACTIVE", "STARTING") EXCEPT !.slots[w].done = 0], told)

Rotated(d, w) ==
    [WithSlot(d, w, "ACTIVE", "STARTING") EXCEPT
        !.slots[w].generation = @ + 1, !.slots[w].done = 0]

RotationPending(d, w) ==
    WithSlot(d, w, "ROTATING", IF d.slots[w].session = "none" THEN "none" ELSE "ROTATING")

RotatePhysicalSession(w) ==
    LET d == Expired(db, Lapsed(db))
    IN  \/ Current(d, w) # {} /\ Becomes(RotationPending(d, w), told)
        \/ /\ Current(d, w) = {}
           /\ d.slots[w].generation < MaxGeneration[w]
           /\ Becomes(Rotated(d, w), told)

BootstrapWorker(w, g) ==
    Verified(w, g) /\ Becomes(WithSlot(db, w, "ACTIVE", "ACTIVE"), told)

RecoverWorker(w, g) ==
    Verified(w, g) /\ Becomes(Expired(db, Lapsed(db)), told)

-----------------------------------------------------------------------------
(* Work *)

ClaimWork(w, g, n) ==
    LET d == Expired(db, Lapsed(db))
    IN  /\ Verified(w, g)
        /\ db.slots[w].session # "STARTING"
        /\ IdsLeft(d, w, n)
        /\ \/ MayClaim(d, w, n) /\ Becomes(Claimed(d, w, n), told)
           \/ /\ ~MayClaim(d, w, n)
              /\ Becomes(WithSlot(d, w, "WAITING", "WAITING"),
                         IF d.slots[w].state = "ROTATING" THEN told ELSE told \cup {w})

ReportProgress(w, g, c) ==
    /\ Verified(w, g) /\ Holds(w, g, c)
    /\ Becomes([db EXCEPT !.stages = [s \in Stages |->
                    IF s \in db.claims[c].units /\ @[s].status = "CLAIMED"
                    THEN [@[s] EXCEPT !.status = "RUNNING"] ELSE @[s]]],
               told)

Finished(d, c) ==
    [d EXCEPT
        !.stages = [s \in Stages |->
            IF s \in d.claims[c].units
            THEN [@[s] EXCEPT !.status = "COMPLETED", !.claim = NoClaim] ELSE @[s]],
        !.claims[c] = NoClaimRow("ended")]

Dependents(units) == {s \in Stages : DependsOn[s] \cap units # {}}

\* Mutant: only the queue of the worker itself is looked at.
CommittedOwnQueue(d, c) ==
    Refreshed(WithReadied(Finished(d, c), Dependents(d.claims[c].units)),
              {Serves[d.claims[c].slot]})

\* The stages of claim c are completed and what depends on them is released.
Committed(d, c) ==
    LET finished == Finished(d, c)
        dependents == Dependents(d.claims[c].units)
    IN  Refreshed(WithReadied(finished, dependents),
                  {DefinitionOf[s] : s \in {t \in dependents : Readied(finished, t)}})

\* processedDelta: the items completed by the commit, or else the items worked on.
Processed(d, units) ==
    LET worked == {ItemOf[s] : s \in units}
        whole == {i \in worked : \A s \in StagesOf({i}) : Completed(d, s)}
    IN  Cardinality(IF whole # {} THEN whole ELSE worked)

Counted(d, w, units) ==
    LET n == d.slots[w].done + Processed(d, units)
    IN  [d EXCEPT !.slots[w].done = IF n < ItemLimit[w] THEN n ELSE ItemLimit[w]]

Spent(d, w) == ItemLimit[w] # 0 /\ d.slots[w].done >= ItemLimit[w]

WithRunStatus(d) ==
    [d EXCEPT !.run = IF \A s \in Seeded(d) : Completed(d, s) THEN "COMPLETED" ELSE @]

CommitAndClaimNext(w, g, c, n) ==
    LET d == Counted(Committed(db, c), w, db.claims[c].units)
        next == IF Spent(d, w) THEN WithSlot(d, w, "ROTATING", "ROTATING")
                ELSE IF MayClaim(d, w, n) THEN Claimed(d, w, n) ELSE d
    IN  /\ Verified(w, g) /\ Holds(w, g, c)
        /\ Spent(d, w) \/ IdsLeft(d, w, n)
        /\ Becomes(WithRunStatus(next), told)

Blocked(row, s, disposition) ==
    CASE disposition = "BLOCKED_RETRYABLE" -> Returned(row, s)
      [] disposition = "BLOCKED_TERMINAL" -> [row EXCEPT !.status = "FAILED", !.claim = NoClaim]
      [] disposition = "WAITING_HUMAN" -> [row EXCEPT !.status = "BLOCKED", !.claim = NoClaim]

ReportBlocked(w, g, c, disposition) ==
    LET units == db.claims[c].units
        d == [db EXCEPT
                !.stages = [s \in Stages |->
                    IF s \in units THEN Blocked(@[s], s, disposition) ELSE @[s]],
                !.claims[c] = NoClaimRow("ended")]
    IN  /\ Verified(w, g) /\ Holds(w, g, c)
        /\ Becomes(Refreshed(WithSlot(d, w, "WAITING", "WAITING"), {Serves[w]}), told)

\* expireLeases.  With a time still to come it is a Lapse of those claims before.
ExpireLeases == Becomes(Expired(db, Lapsed(db)), told)

\* Time passes the lease_until of claim c.
Lapse(c) ==
    /\ db.claims[c].status = "ACTIVE" /\ ~db.claims[c].lapsed
    /\ Becomes([db EXCEPT !.claims[c].lapsed = TRUE], told)

-----------------------------------------------------------------------------
(* The calls of the wakeup controller *)

Deliverable(d, u) ==
    /\ Ready(d, Serves[u.slot]) # {}
    /\ u.session = d.slots[u.slot].generation
    /\ Sleeps(d, u.slot)

\* pendingWakeups answers those of `due' that are deliverable and suppresses the
\* others.  deferWakeup only puts off when one is due again.
PendingWakeups(due) ==
    LET given == {u \in due : ~Deliverable(db, u)}
    IN  due \subseteq Pending(db)
        /\ Becomes([db EXCEPT !.wakeups = @ \ given], told)

Delivered(u) == IF u.newest THEN {[u EXCEPT !.state = "DELIVERED"]} ELSE {}

MarkWakeupDelivered(u) ==
    u \in Pending(db)
    /\ Becomes([db EXCEPT !.wakeups = (@ \ {u}) \cup Delivered(u)], told)

RequireRotationForWakeup(u) ==
    LET d == [db EXCEPT !.wakeups = @ \ {u}]
    IN  /\ u \in Pending(db)
        /\ Becomes(IF u.session = d.slots[u.slot].generation
                   THEN WithSlot(d, u.slot, "ROTATING", "ROTATING") ELSE d,
                   told)

Request(w, g) ==
    \/ BootstrapWorker(w, g)
    \/ RecoverWorker(w, g)
    \/ \E n \in 1..Batch[w] : ClaimWork(w, g, n)
    \/ \E c \in Claims :
        \/ ReportProgress(w, g, c)
        \/ \E n \in 1..Batch[w] : CommitAndClaimNext(w, g, c, n)
        \/ \E disposition \in {"BLOCKED_RETRYABLE", "BLOCKED_TERMINAL", "WAITING_HUMAN"} :
            ReportBlocked(w, g, c, disposition)

Next ==
    \/ \E I \in SUBSET Items : AddWorkItems(I)
    \/ \E w \in Slots :
        \/ OpenPhysicalSession(w)
        \/ RotatePhysicalSession(w)
        \/ \E g \in 1..MaxGeneration[w] : Request(w, g)
    \/ \E c \in Claims : Lapse(c)
    \/ ExpireLeases
    \/ \E due \in SUBSET Pending(db) : PendingWakeups(due)
    \/ \E u \in Pending(db) : MarkWakeupDelivered(u) \/ RequireRotationForWakeup(u)

Spec == Init /\ [][Next]_vars

-----------------------------------------------------------------------------
(* Properties *)

TypeOK == db \in Tables /\ told \subseteq Slots

\* A stage is worked on under one active claim, the one it names, and a claim
\* is active for the stages it was given and no others.
Exclusive ==
    \A s \in Stages :
        LET row == db.stages[s]
            holders == {c \in Claims : db.claims[c].status = "ACTIVE" /\ s \in db.claims[c].units}
        IN  IF row.status \in Held THEN holders = {row.claim} ELSE holders = {}

\* The session of an active claim is the newest of its slot, which has no other
\* claim and does not count as waiting for work.
NotFenced ==
    \A c \in Claims :
        LET row == db.claims[c]
        IN  row.status = "ACTIVE" =>
                /\ row.generation = db.slots[row.slot].generation
                /\ Current(db, row.slot) = {c}
                /\ db.slots[row.slot].state \in {"ACTIVE", "ROTATING"}

\* Two slots never work on the same stage, through expiry, late commits of former
\* holders, reports and rotation ("two worker slots never claim the same StageRun"),
\* and the one that does is never shut out of its claim before the claim ends
\* (rotation waits for the claims of the slot, bootstrap and recovery keep them).
OneHolder == Exclusive /\ NotFenced

\* No stage is forgotten: one that is pending waits for a stage that is not
\* completed, one that is ready has everything it depends on and an attempt left
\* (the claim query would pass it over otherwise), and the count that decides
\* about wakeups is right after every transaction.
NothingStranded ==
    /\ \A s \in Seeded(db) :
        LET row == db.stages[s]
            met == \A p \in DependsOn[s] : Completed(db, p)
        IN  /\ row.status = "PENDING" <=> ~met
            /\ row.status = "READY" => row.attempts < MaxAttempts[s]
    /\ \A k \in Definitions : db.ready[k] = Cardinality(Ready(db, k))

\* A slot that was told by claim_work that there is no work has a wakeup for the
\* work that became ready since, pending or delivered, whatever others claimed,
\* finished or let expire in between.  It must be able to do all the work of its
\* definition.  A slot told so by commit_and_claim_next is passed over: it stays
\* ACTIVE (module WorkerStations).
Capable(w) == \A s \in Stages : DefinitionOf[s] = Serves[w] => CapabilityOf[s] \in Can[w]

WaitingIsWoken ==
    \A w \in told :
        Capable(w) /\ Ready(db, Serves[w]) # {} =>
            \E u \in db.wakeups :
                u.slot = w /\ u.session = db.slots[w].generation /\ u.newest

=============================================================================
