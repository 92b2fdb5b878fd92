----------------------- MODULE WorkflowWorkersProofs -----------------------
(***************************************************************************)
(* Proofs about WorkflowWorkers: type correctness, and that no stage has   *)
(* two holders, is forgotten, or gets ready without a wakeup for a slot    *)
(* that waits for it.                                                      *)
(***************************************************************************)
EXTENDS WorkflowWorkers, FiniteSetTheorems, TLAPS

Active(d, c) == d.claims[c].status = "ACTIVE"

-----------------------------------------------------------------------------
(* The inductive invariant, of the tables d: most steps change them several
   times, and every change keeps the parts it does not touch. *)

\* An active claim is of the newest session of its slot, which is not waiting.
OfNewest(d) ==
    \A c \in Claims : Active(d, c) =>
        /\ d.claims[c].generation = d.slots[d.claims[c].slot].generation
        /\ d.slots[d.claims[c].slot].state \in {"ACTIVE", "ROTATING"}

\* A slot has one active claim at most.
OnePerSlot(d) ==
    \A c, e \in Claims :
        Active(d, c) /\ Active(d, e) /\ d.claims[c].slot = d.claims[e].slot => c = e

\* The stages of an active claim are held, name it, and are for its slot.
UnitsHeld(d) ==
    \A c \in Claims : Active(d, c) =>
        \A s \in d.claims[c].units :
            /\ d.stages[s].status \in Held
            /\ d.stages[s].claim = c
            /\ DefinitionOf[s] = Serves[d.claims[c].slot]

\* A stage that is held is one of the stages of the active claim that it names.
HeldByClaim(d) ==
    \A s \in Stages : d.stages[s].status \in Held =>
        /\ d.stages[s].claim \in Claims
        /\ Active(d, d.stages[s].claim)
        /\ s \in d.claims[d.stages[s].claim].units

Worked(d) == OfNewest(d) /\ OnePerSlot(d) /\ UnitsHeld(d) /\ HeldByClaim(d)

Met(d, s) == \A p \in DependsOn[s] : Completed(d, p)

\* A stage that was not released yet was never attempted, and one that is ready
\* has an attempt left.
AttemptsLeft(d) ==
    \A s \in Stages :
        /\ d.stages[s].status \in {"absent", "PENDING"} => d.stages[s].attempts = 0
        /\ d.stages[s].status = "READY" => d.stages[s].attempts < MaxAttempts[s]

\* The stages that are pending are those that wait for another one.
PendingWaits(d) ==
    \A s \in Seeded(d) : d.stages[s].status = "PENDING" <=> ~Met(d, s)

Queued(d) == AttemptsLeft(d) /\ PendingWaits(d)

\* The stored counts are right.
CountRight(d) == \A k \in Definitions : d.ready[k] = Cardinality(Ready(d, k))

\* The slot w waits, and has a wakeup if it could work.
Woken(d, w) ==
    /\ d.slots[w].state = "WAITING" /\ d.slots[w].session = "WAITING"
    /\ Capable(w) /\ Ready(d, Serves[w]) # {} =>
        \E u \in d.wakeups :
            u.slot = w /\ u.session = d.slots[w].generation /\ u.newest

Sound(d) == d \in Tables /\ Worked(d) /\ Queued(d) /\ CountRight(d)

IInv ==
    /\ told \subseteq Slots
    /\ Sound(db)
    /\ \A w \in told : Woken(db, w)

-----------------------------------------------------------------------------
(* Queues and their refreshing *)

\* A queue is finite, and its count tells whether it is empty.
LEMMA ReadyFinite ==
    ASSUME NEW d, NEW k
    PROVE  /\ IsFiniteSet(Ready(d, k))
           /\ Cardinality(Ready(d, k)) \in Nat
           /\ Cardinality(Ready(d, k)) = 0 <=> Ready(d, k) = {}
<1>1. IsFiniteSet(Stages)
  BY StagesAssumption
<1>2. Ready(d, k) \subseteq Stages
  BY DEF Ready
<1>3. IsFiniteSet(Ready(d, k))
  BY <1>1, <1>2, FS_Subset
<1> QED BY <1>3, FS_CardinalityType, FS_EmptySet

\* What is said of claims and stages depends on the stages, claims and slots only.
LEMMA SameWork ==
    ASSUME NEW d, NEW e, e.stages = d.stages, e.claims = d.claims, e.slots = d.slots
    PROVE  Worked(d) => Worked(e)
BY DEF Worked, OfNewest, OnePerSlot, UnitsHeld, HeldByClaim, Active

LEMMA SameQueue ==
    ASSUME NEW d, NEW e, e.stages = d.stages
    PROVE  /\ Queued(d) => Queued(e)
           /\ \A k : Ready(e, k) = Ready(d, k)
BY DEF Queued, AttemptsLeft, PendingWaits, Seeded, Met, Completed, Ready

LEMMA RefreshedFields ==
    ASSUME NEW d \in Tables, NEW K
    PROVE  /\ Refreshed(d, K) \in Tables
           /\ Refreshed(d, K).stages = d.stages
           /\ Refreshed(d, K).claims = d.claims
           /\ Refreshed(d, K).slots = d.slots
           /\ Refreshed(d, K).run = d.run
           /\ Refreshed(d, K).ready =
                [k \in Definitions |-> IF k \in K THEN Cardinality(Ready(d, k)) ELSE d.ready[k]]
<1> DEFINE woken == {w \in Slots : Serves[w] \in K /\ Wakes(d, Serves[w])}
           older == {u \in d.wakeups : u.slot \in woken}
           ready == [k \in Definitions |->
                        IF k \in K THEN Cardinality(Ready(d, k)) ELSE d.ready[k]]
           stale == {[u EXCEPT !.newest = FALSE] : u \in older \cap Pending(d)}
           new == {NewWakeup(d, w) : w \in {v \in woken : Sleeps(d, v)}}
           wakeups == (d.wakeups \ older) \cup stale \cup new
<1>1. Refreshed(d, K) = [d EXCEPT !.ready = ready, !.wakeups = wakeups]
  BY DEF Refreshed
<1>2. ready \in [Definitions -> Nat]
  <2>1. ASSUME NEW k \in Definitions PROVE ready[k] \in Nat
    <3>1. d.ready[k] \in Nat
      BY DEF Tables
    <3> QED BY <3>1, ReadyFinite
  <2> HIDE DEF ready
  <2>2. ready = [k \in Definitions |-> ready[k]]
    BY DEF ready
  <2> QED BY <2>1, <2>2
<1>3. stale \subseteq Wakeup
  <2>1. d.wakeups \subseteq Wakeup
    BY DEF Tables
  <2>2. ASSUME NEW u \in Wakeup PROVE [u EXCEPT !.newest = FALSE] \in Wakeup
    BY DEF Wakeup
  <2> QED BY <2>1, <2>2
<1>4. new \subseteq Wakeup
  <2>1. ASSUME NEW w \in Slots PROVE NewWakeup(d, w) \in Wakeup
    <3>1. d.slots[w].generation \in Nat
      BY DEF Tables, SlotRow
    <3> QED BY <3>1 DEF NewWakeup, Wakeup
  <2> QED BY <2>1
<1>5. wakeups \in SUBSET Wakeup
  BY <1>3, <1>4 DEF Tables
<1> HIDE DEF ready, wakeups
<1>6. Refreshed(d, K) \in Tables
  BY <1>1, <1>2, <1>5 DEF Tables
<1>7. Refreshed(d, K).ready = ready
  BY <1>1 DEF Tables
<1> QED BY <1>1, <1>6, <1>7 DEF Tables, ready

\* refreshWakeupsTx after a change of the queues of K makes the counts right.
LEMMA RefreshedCounts ==
    ASSUME NEW d \in Tables, NEW e \in Tables, NEW K,
           CountRight(d), e.ready = d.ready,
           \A k \in Definitions \ K : Ready(e, k) = Ready(d, k)
    PROVE  CountRight(Refreshed(e, K))
<1>1. Refreshed(e, K).stages = e.stages
  BY RefreshedFields
<1>2. \A k : Ready(Refreshed(e, K), k) = Ready(e, k)
  BY <1>1, SameQueue
<1>3. ASSUME NEW k \in Definitions
      PROVE  Refreshed(e, K).ready[k] = IF k \in K THEN Cardinality(Ready(e, k)) ELSE d.ready[k]
  <2>1. Refreshed(e, K).ready =
            [j \in Definitions |-> IF j \in K THEN Cardinality(Ready(e, j)) ELSE e.ready[j]]
    BY RefreshedFields
  <2> QED BY <2>1
<1>4. ASSUME NEW k \in Definitions
      PROVE  Refreshed(e, K).ready[k] = Cardinality(Ready(e, k))
  BY <1>3 DEF CountRight
<1> QED BY <1>2, <1>4 DEF CountRight

\* It leaves a slot that waits with a wakeup, an old one or a new one.
LEMMA RefreshedWoken ==
    ASSUME NEW d \in Tables, NEW e \in Tables, NEW K, NEW w \in Slots,
           CountRight(d), e.ready = d.ready, e.wakeups = d.wakeups,
           \A k \in Definitions \ K : Ready(e, k) = Ready(d, k),
           Woken(d, w), e.slots[w] = d.slots[w], Current(e, w) = {}
    PROVE  Woken(Refreshed(e, K), w)
<1> DEFINE r == Refreshed(e, K)
           k == Serves[w]
           woken == {v \in Slots : Serves[v] \in K /\ Wakes(e, Serves[v])}
           older == {u \in e.wakeups : u.slot \in woken}
<1>1. k \in Definitions
  BY SlotsAssumption
<1>2. r.slots[w] = d.slots[w] /\ r.stages = e.stages
  BY RefreshedFields
<1>3. Ready(r, k) = Ready(e, k)
  BY <1>2, SameQueue
<1>4. /\ e.wakeups \ older \subseteq r.wakeups
      /\ \A v \in woken : Sleeps(e, v) => NewWakeup(e, v) \in r.wakeups
  BY DEF Refreshed, Tables
<1> HIDE DEF r
<1>5. ASSUME Capable(w), Ready(e, k) # {}
      PROVE  \E u \in r.wakeups : u.slot = w /\ u.session = d.slots[w].generation /\ u.newest
  <2>1. CASE w \in woken
    <3>1. Sleeps(e, w)
      BY DEF Sleeps, Woken
    <3>2. NewWakeup(e, w) \in r.wakeups
      BY <1>4, <2>1, <3>1
    <3> QED BY <3>2 DEF NewWakeup
  <2>2. CASE w \notin woken
    <3>1. Ready(d, k) # {}
      <4>1. CASE k \in K
        <5>1. ~Wakes(e, k)
          BY <2>2, <4>1
        <5>2. d.ready[k] # 0
          BY <5>1, <1>5 DEF Wakes
        <5> QED BY <5>2, <1>1, ReadyFinite DEF CountRight
      <4>2. CASE k \notin K
        BY <4>2, <1>1, <1>5
      <4> QED BY <4>1, <4>2
    <3>2. PICK u \in d.wakeups : u.slot = w /\ u.session = d.slots[w].generation /\ u.newest
      BY <3>1, <1>5 DEF Woken
    <3>3. u \in r.wakeups
      BY <3>2, <2>2, <1>4
    <3> QED BY <3>2, <3>3
  <2> QED BY <2>1, <2>2
<1> QED BY <1>2, <1>3, <1>5 DEF Woken, r

LEMMA RefreshedSound ==
    ASSUME NEW d, Sound(d), NEW e \in Tables, NEW K,
           Worked(e), Queued(e), e.ready = d.ready,
           \A k \in Definitions \ K : Ready(e, k) = Ready(d, k)
    PROVE  Sound(Refreshed(e, K))
<1> DEFINE r == Refreshed(e, K)
<1>1. /\ r \in Tables
      /\ r.stages = e.stages /\ r.claims = e.claims /\ r.slots = e.slots
  BY RefreshedFields
<1>2. CountRight(r)
  BY RefreshedCounts DEF Sound
<1> HIDE DEF r
<1>3. Worked(r) /\ Queued(r)
  BY <1>1, SameWork, SameQueue
<1>4. Sound(r)
  BY <1>1, <1>2, <1>3 DEF Sound
<1> QED BY <1>4 DEF r

\* A slot that waits has no active claim.
LEMMA WaitsIdle ==
    ASSUME NEW d, Worked(d), NEW w \in Slots, d.slots[w].state \in {"WAITING", "IDLE"}
    PROVE  Current(d, w) = {}
BY DEF Worked, OfNewest, Active, Current

\* The claims of a slot are those of its own session.
LEMMA CurrentIsOwn ==
    ASSUME NEW d, Worked(d), NEW w \in Slots
    PROVE  Own(d, w) = Current(d, w)
BY DEF Worked, OfNewest, Active, Current, Own

LEMMA NoClaimRowType ==
    ASSUME NEW status \in {"none", "ended"}
    PROVE  NoClaimRow(status) \in ClaimRow /\ NoClaimRow(status).status = status
<1>1. (CHOOSE w \in Slots : TRUE) \in Slots
  BY SlotsAssumption
<1> QED BY <1>1 DEF NoClaimRow, ClaimRow

-----------------------------------------------------------------------------
(* Leases that lapsed *)

\* The tables without the claims in L, before the wakeups are refreshed.
Freed(d, L) ==
    [d EXCEPT
        !.stages = [s \in Stages |->
            IF (\E c \in L : s \in d.claims[c].units) /\ @[s].status \in Held
            THEN Returned(@[s], s) ELSE @[s]],
        !.claims = [c \in Claims |-> IF c \in L THEN NoClaimRow("ended") ELSE @[c]]]

\* A stage goes back to the queue with an attempt left, or fails.
LEMMA ReturnedRow ==
    ASSUME NEW s \in Stages, NEW row \in StageRow
    PROVE  /\ Returned(row, s) \in StageRow
           /\ Returned(row, s).status \in {"READY", "FAILED"}
           /\ Returned(row, s).attempts = row.attempts
           /\ Returned(row, s).status = "READY" => row.attempts < MaxAttempts[s]
<1>1. row.attempts \in Nat /\ MaxAttempts[s] \in Nat
  BY StagesAssumption DEF StageRow
<1>2. ~(row.attempts >= MaxAttempts[s]) => row.attempts < MaxAttempts[s]
  BY <1>1
<1> QED BY <1>2 DEF Returned, StageRow, Held

LEMMA FreedFields ==
    ASSUME NEW d \in Tables, NEW L
    PROVE  /\ Freed(d, L) \in Tables
           /\ Freed(d, L).slots = d.slots
           /\ Freed(d, L).ready = d.ready
           /\ Freed(d, L).wakeups = d.wakeups
           /\ \A s \in Stages :
                Freed(d, L).stages[s] =
                    IF (\E c \in L : s \in d.claims[c].units) /\ d.stages[s].status \in Held
                    THEN Returned(d.stages[s], s) ELSE d.stages[s]
           /\ \A c \in Claims :
                Freed(d, L).claims[c] = IF c \in L THEN NoClaimRow("ended") ELSE d.claims[c]
<1> DEFINE stages == [s \in Stages |->
                IF (\E c \in L : s \in d.claims[c].units) /\ d.stages[s].status \in Held
                THEN Returned(d.stages[s], s) ELSE d.stages[s]]
           claims == [c \in Claims |-> IF c \in L THEN NoClaimRow("ended") ELSE d.claims[c]]
<1>1. Freed(d, L) = [d EXCEPT !.stages = stages, !.claims = claims]
  BY DEF Freed
<1>2. \A s \in Stages : d.stages[s] \in StageRow
  BY DEF Tables
<1>3. stages \in [Stages -> StageRow]
  BY <1>2, ReturnedRow
<1>4. \A c \in Claims : d.claims[c] \in ClaimRow
  BY DEF Tables
<1>5. claims \in [Claims -> ClaimRow]
  BY <1>4, NoClaimRowType
<1>6. Freed(d, L).stages = stages /\ Freed(d, L).claims = claims
  BY <1>1 DEF Tables
<1>7. \A s \in Stages :
        stages[s] = IF (\E c \in L : s \in d.claims[c].units) /\ d.stages[s].status \in Held
                    THEN Returned(d.stages[s], s) ELSE d.stages[s]
  OBVIOUS
<1>8. \A c \in Claims : claims[c] = IF c \in L THEN NoClaimRow("ended") ELSE d.claims[c]
  OBVIOUS
<1> HIDE DEF stages, claims
<1>9. Freed(d, L) \in Tables
  BY <1>1, <1>3, <1>5 DEF Tables
<1>10. /\ Freed(d, L).slots = d.slots
       /\ Freed(d, L).ready = d.ready
       /\ Freed(d, L).wakeups = d.wakeups
  BY <1>1 DEF Tables
<1> QED BY <1>6, <1>7, <1>8, <1>9, <1>10

LEMMA FreedWorked ==
    ASSUME NEW d \in Tables, Worked(d), NEW L \in SUBSET Claims, \A c \in L : Active(d, c)
    PROVE  Worked(Freed(d, L))
<1> DEFINE e == Freed(d, L)
<1>1. /\ e.slots = d.slots
      /\ \A s \in Stages :
            e.stages[s] = IF (\E c \in L : s \in d.claims[c].units) /\ d.stages[s].status \in Held
                          THEN Returned(d.stages[s], s) ELSE d.stages[s]
      /\ \A c \in Claims : e.claims[c] = IF c \in L THEN NoClaimRow("ended") ELSE d.claims[c]
  BY FreedFields
<1>2. \A s \in Stages : d.stages[s] \in StageRow
  BY DEF Tables
<1>3. ASSUME NEW c \in Claims, Active(e, c)
      PROVE  c \notin L /\ e.claims[c] = d.claims[c] /\ Active(d, c)
  <2>1. NoClaimRow("ended").status = "ended"
    BY NoClaimRowType
  <2>2. e.claims[c].status = "ACTIVE"
    BY <1>3 DEF Active
  <2>3. c \notin L
    BY <2>1, <2>2, <1>1
  <2> QED BY <2>2, <2>3, <1>1 DEF Active
<1>4. ASSUME NEW s \in Stages, e.stages[s].status \in Held
      PROVE  e.stages[s] = d.stages[s] /\ ~\E c \in L : s \in d.claims[c].units
  <2>1. Returned(d.stages[s], s).status \notin Held
    BY <1>2, ReturnedRow DEF Held
  <2> QED BY <2>1, <1>4, <1>1
<1> HIDE DEF e
<1>5. OfNewest(e)
  BY <1>1, <1>3 DEF Worked, OfNewest
<1>6. OnePerSlot(e)
  BY <1>3 DEF Worked, OnePerSlot
<1>7. UnitsHeld(e)
  <2> SUFFICES ASSUME NEW c \in Claims, Active(e, c), NEW s \in e.claims[c].units
               PROVE  /\ e.stages[s].status \in Held
                      /\ e.stages[s].claim = c
                      /\ DefinitionOf[s] = Serves[e.claims[c].slot]
    BY DEF UnitsHeld
  <2>1. c \notin L /\ e.claims[c] = d.claims[c] /\ Active(d, c)
    BY <1>3
  <2>2. s \in Stages
    BY <2>1 DEF Tables, ClaimRow
  <2>3. d.stages[s].claim = c /\ d.stages[s].status \in Held
        /\ DefinitionOf[s] = Serves[d.claims[c].slot]
    BY <2>1 DEF Worked, UnitsHeld
  <2>4. ~\E b \in L : s \in d.claims[b].units
    BY <2>1, <2>3 DEF Worked, UnitsHeld
  <2> QED BY <2>1, <2>2, <2>3, <2>4, <1>1
<1>8. HeldByClaim(e)
  <2> SUFFICES ASSUME NEW s \in Stages, e.stages[s].status \in Held
               PROVE  /\ e.stages[s].claim \in Claims
                      /\ Active(e, e.stages[s].claim)
                      /\ s \in e.claims[e.stages[s].claim].units
    BY DEF HeldByClaim
  <2>1. e.stages[s] = d.stages[s] /\ ~\E c \in L : s \in d.claims[c].units
    BY <1>4
  <2>2. /\ d.stages[s].claim \in Claims
        /\ Active(d, d.stages[s].claim)
        /\ s \in d.claims[d.stages[s].claim].units
    BY <2>1 DEF Worked, HeldByClaim
  <2>3. d.stages[s].claim \notin L
    BY <2>1, <2>2
  <2>4. e.claims[d.stages[s].claim] = d.claims[d.stages[s].claim]
    BY <2>2, <2>3, <1>1
  <2> QED BY <2>1, <2>2, <2>4 DEF Active
<1>9. Worked(e)
  BY <1>5, <1>6, <1>7, <1>8 DEF Worked
<1> QED BY <1>9 DEF e

\* The queue stays right when released stages change, as long as none is completed
\* by it and those that are ready have an attempt left.
LEMMA QueuedKept ==
    ASSUME NEW d, Queued(d), NEW e,
           \A s \in Stages :
                \/ e.stages[s] = d.stages[s]
                \/ /\ d.stages[s].status \notin {"absent", "PENDING", "COMPLETED"}
                   /\ e.stages[s].status \notin {"absent", "PENDING", "COMPLETED"}
                   /\ e.stages[s].status = "READY" => e.stages[s].attempts < MaxAttempts[s]
    PROVE  Queued(e)
<1>1. \A s \in Stages : Completed(e, s) <=> Completed(d, s)
  BY DEF Completed
<1>2. \A s \in Stages : Met(e, s) <=> Met(d, s)
  BY <1>1, StagesAssumption DEF Met
<1>3. AttemptsLeft(e)
  BY DEF Queued, AttemptsLeft
<1>4. PendingWaits(e)
  BY <1>2 DEF Queued, PendingWaits, Seeded
<1> QED BY <1>3, <1>4 DEF Queued

LEMMA FreedQueued ==
    ASSUME NEW d \in Tables, Worked(d), Queued(d), NEW L \in SUBSET Claims,
           \A c \in L : Active(d, c)
    PROVE  /\ Queued(Freed(d, L))
           /\ \A k \in Definitions \ {Serves[d.claims[c].slot] : c \in L} :
                Ready(Freed(d, L), k) = Ready(d, k)
<1> DEFINE e == Freed(d, L)
<1>1. \A s \in Stages :
        e.stages[s] = IF (\E c \in L : s \in d.claims[c].units) /\ d.stages[s].status \in Held
                      THEN Returned(d.stages[s], s) ELSE d.stages[s]
  BY FreedFields
<1>2. \A s \in Stages : d.stages[s] \in StageRow
  BY DEF Tables
<1> HIDE DEF e
<1>3. ASSUME NEW s \in Stages, e.stages[s] # d.stages[s]
      PROVE  /\ d.stages[s].status \in Held
             /\ e.stages[s].status \in {"READY", "FAILED"}
             /\ e.stages[s].status = "READY" => e.stages[s].attempts < MaxAttempts[s]
             /\ \E c \in L : s \in d.claims[c].units
  <2>1. e.stages[s] = Returned(d.stages[s], s) /\ d.stages[s].status \in Held
    BY <1>1, <1>3
  <2>2. \E c \in L : s \in d.claims[c].units
    BY <1>1, <1>3
  <2> QED BY <2>1, <2>2, <1>2, ReturnedRow
<1>4. Queued(e)
  BY <1>3, QueuedKept DEF Held
<1>5. ASSUME NEW k \in Definitions \ {Serves[d.claims[c].slot] : c \in L}
      PROVE  Ready(e, k) = Ready(d, k)
  <2>1. ASSUME NEW s \in Stages, DefinitionOf[s] = k
        PROVE  e.stages[s] = d.stages[s]
    <3> SUFFICES ASSUME e.stages[s] # d.stages[s] PROVE FALSE
      OBVIOUS
    <3>1. PICK c \in L : s \in d.claims[c].units
      BY <1>3
    <3>2. DefinitionOf[s] = Serves[d.claims[c].slot]
      BY <3>1 DEF Worked, UnitsHeld
    <3> QED BY <3>2, <2>1
  <2> QED BY <2>1 DEF Ready
<1> QED BY <1>4, <1>5 DEF e

\* expireClaimsTx keeps the tables sound, and the slots that wait waiting.
LEMMA ExpiredKeeps ==
    ASSUME NEW d, Sound(d), NEW L \in SUBSET Claims, \A c \in L : Active(d, c)
    PROVE  /\ Sound(Expired(d, L))
           /\ Expired(d, L).slots = d.slots
           /\ \A w \in Slots : Woken(d, w) => Woken(Expired(d, L), w)
<1> DEFINE e == Freed(d, L)
           K == {Serves[d.claims[c].slot] : c \in L}
<1>1. Expired(d, L) = Refreshed(e, K)
  BY DEF Expired, Freed
<1>2. d \in Tables /\ Worked(d) /\ Queued(d) /\ CountRight(d)
  BY DEF Sound
<1>3. /\ e \in Tables /\ e.slots = d.slots /\ e.ready = d.ready /\ e.wakeups = d.wakeups
  BY <1>2, FreedFields
<1>4. Worked(e)
  BY <1>2, FreedWorked
<1>5. Queued(e) /\ \A k \in Definitions \ K : Ready(e, k) = Ready(d, k)
  BY <1>2, FreedQueued
<1> HIDE DEF e, K
<1>6. Sound(Refreshed(e, K))
  BY <1>3, <1>4, <1>5, RefreshedSound
<1>7. Refreshed(e, K).slots = d.slots
  BY <1>3, RefreshedFields
<1>8. ASSUME NEW w \in Slots, Woken(d, w)
      PROVE  Woken(Refreshed(e, K), w)
  <2>1. e.slots[w] = d.slots[w] /\ e.slots[w].state \in {"WAITING", "IDLE"}
    BY <1>3, <1>8 DEF Woken
  <2>2. Current(e, w) = {}
    BY <1>4, <2>1, WaitsIdle
  <2> QED BY <1>2, <1>3, <1>5, <1>8, <2>1, <2>2, RefreshedWoken
<1> QED BY <1>1, <1>6, <1>7, <1>8

LEMMA LapsedKeeps ==
    ASSUME NEW d, Sound(d)
    PROVE  /\ Sound(Expired(d, Lapsed(d)))
           /\ Expired(d, Lapsed(d)).slots = d.slots
           /\ \A w \in Slots : Woken(d, w) => Woken(Expired(d, Lapsed(d)), w)
<1>1. Lapsed(d) \in SUBSET Claims /\ \A c \in Lapsed(d) : Active(d, c)
  BY DEF Lapsed, Active
<1> QED BY <1>1, ExpiredKeeps

-----------------------------------------------------------------------------
(* Changes of slots *)

SlotStates == {"IDLE", "ACTIVE", "WAITING", "ROTATING"}

SessionStates == {"none", "STARTING", "ACTIVE", "WAITING", "ROTATING"}

LEMMA StateNames ==
    /\ "ACTIVE" \in SlotStates /\ "WAITING" \in SlotStates /\ "ROTATING" \in SlotStates
    /\ "none" \in SessionStates /\ "STARTING" \in SessionStates
    /\ "ACTIVE" \in SessionStates /\ "WAITING" \in SessionStates
    /\ "ROTATING" \in SessionStates
BY DEF SlotStates, SessionStates

LEMMA WithSlotFields ==
    ASSUME NEW d \in Tables, NEW w \in Slots,
           NEW state \in SlotStates, NEW session \in SessionStates
    PROVE  /\ WithSlot(d, w, state, session) \in Tables
           /\ WithSlot(d, w, state, session).stages = d.stages
           /\ WithSlot(d, w, state, session).claims = d.claims
           /\ WithSlot(d, w, state, session).ready = d.ready
           /\ WithSlot(d, w, state, session).wakeups = d.wakeups
           /\ WithSlot(d, w, state, session).slots[w].state = state
           /\ WithSlot(d, w, state, session).slots[w].session = session
           /\ WithSlot(d, w, state, session).slots[w].generation = d.slots[w].generation
           /\ \A v \in Slots \ {w} : WithSlot(d, w, state, session).slots[v] = d.slots[v]
<1> DEFINE k == [d.slots EXCEPT ![w] = [d.slots[w] EXCEPT !.state = state, !.session = session]]
<1>1. WithSlot(d, w, state, session) = [d EXCEPT !.slots = k]
  BY DEF WithSlot, Tables, SlotRow
<1>2. k \in [Slots -> SlotRow]
  <2>1. d.slots \in [Slots -> SlotRow] /\ d.slots[w] \in SlotRow
    BY DEF Tables
  <2>2. ASSUME NEW r \in SlotRow
        PROVE  [r EXCEPT !.state = state, !.session = session] \in SlotRow
    BY ONLY state \in SlotStates, session \in SessionStates, r \in SlotRow
       DEF SlotRow, SlotStates, SessionStates
  <2>3. [d.slots[w] EXCEPT !.state = state, !.session = session] \in SlotRow
    BY <2>1, <2>2
  <2> QED BY ONLY <2>1, <2>3
<1>3. /\ k[w].state = state /\ k[w].session = session
      /\ k[w].generation = d.slots[w].generation
      /\ \A v \in Slots \ {w} : k[v] = d.slots[v]
  BY DEF Tables, SlotRow
<1> HIDE DEF k
<1>4. WithSlot(d, w, state, session).slots = k
  BY <1>1 DEF Tables
<1>5. WithSlot(d, w, state, session) \in Tables
  BY <1>1, <1>2 DEF Tables
<1>6. /\ WithSlot(d, w, state, session).stages = d.stages
      /\ WithSlot(d, w, state, session).claims = d.claims
      /\ WithSlot(d, w, state, session).ready = d.ready
      /\ WithSlot(d, w, state, session).wakeups = d.wakeups
  BY <1>1 DEF Tables
<1> QED BY <1>3, <1>4, <1>5, <1>6

\* Slots without an active claim may change as they like; one with an active
\* claim keeps its session and does not wait.
LEMMA SlotsWorked ==
    ASSUME NEW d \in Tables, Worked(d), NEW e,
           e.stages = d.stages, e.claims = d.claims,
           \A w \in Slots :
                \/ Current(d, w) = {}
                \/ /\ e.slots[w].generation = d.slots[w].generation
                   /\ e.slots[w].state \in {"ACTIVE", "ROTATING"}
    PROVE  Worked(e)
<1>1. \A c \in Claims : d.claims[c] \in ClaimRow
  BY DEF Tables
<1>2. ASSUME NEW c \in Claims, Active(d, c)
      PROVE  d.claims[c].slot \in Slots /\ Current(d, d.claims[c].slot) # {}
  BY <1>1, <1>2 DEF ClaimRow, Current, Active
<1>3. OfNewest(e)
  BY <1>2 DEF Worked, OfNewest, Active
<1>4. OnePerSlot(e) /\ UnitsHeld(e) /\ HeldByClaim(e)
  BY DEF Worked, OnePerSlot, UnitsHeld, HeldByClaim, Active
<1> QED BY <1>3, <1>4 DEF Worked

\* A change that leaves the queues as they are needs no refreshing.
LEMMA QueuesKeep ==
    ASSUME NEW d, Sound(d), NEW e \in Tables, Worked(e), Queued(e), e.ready = d.ready,
           \A k : Ready(e, k) = Ready(d, k)
    PROVE  /\ Sound(e)
           /\ \A w \in Slots :
                e.slots[w] = d.slots[w] /\ e.wakeups = d.wakeups /\ Woken(d, w) => Woken(e, w)
<1>1. CountRight(e)
  BY DEF Sound, CountRight
<1>2. ASSUME NEW w \in Slots, e.slots[w] = d.slots[w], e.wakeups = d.wakeups, Woken(d, w)
      PROVE  Woken(e, w)
  BY <1>2 DEF Woken
<1> QED BY <1>1, <1>2 DEF Sound

LEMMA SlotsKeep ==
    ASSUME NEW d, Sound(d), NEW e \in Tables,
           e.stages = d.stages, e.claims = d.claims, e.ready = d.ready, e.wakeups = d.wakeups,
           \A w \in Slots :
                \/ Current(d, w) = {}
                \/ /\ e.slots[w].generation = d.slots[w].generation
                   /\ e.slots[w].state \in {"ACTIVE", "ROTATING"}
    PROVE  /\ Sound(e)
           /\ \A w \in Slots : e.slots[w] = d.slots[w] /\ Woken(d, w) => Woken(e, w)
<1>1. Worked(e)
  BY SlotsWorked DEF Sound
<1>2. Queued(e) /\ \A k : Ready(e, k) = Ready(d, k)
  BY SameQueue DEF Sound
<1> QED BY <1>1, <1>2, QueuesKeep

-----------------------------------------------------------------------------
(* Claims *)

\* The tables with the new claim, before its slot and the wakeups are changed.
Given(d, w, n) ==
    LET id == CHOOSE c \in Unused(d) : TRUE
        units == Eligible(d, w, n)
    IN  [d EXCEPT
            !.claims[id] = [status |-> "ACTIVE", slot |-> w, lapsed |-> FALSE,
                            generation |-> d.slots[w].generation, units |-> units],
            !.stages = [s \in Stages |->
                IF s \in units
                THEN [status |-> "CLAIMED", claim |-> id, attempts |-> @[s].attempts + 1]
                ELSE @[s]]]

LEMMA EligibleReady ==
    ASSUME NEW d, NEW w, NEW n
    PROVE  /\ Eligible(d, w, n) \subseteq Stages
           /\ \A s \in Eligible(d, w, n) :
                d.stages[s].status = "READY" /\ DefinitionOf[s] = Serves[w]
BY DEF Eligible, Candidates, Ready

LEMMA GivenFields ==
    ASSUME NEW d \in Tables, NEW w \in Slots, NEW n, Unused(d) # {}
    PROVE  /\ Given(d, w, n) \in Tables
           /\ Given(d, w, n).slots = d.slots
           /\ Given(d, w, n).ready = d.ready
           /\ Given(d, w, n).wakeups = d.wakeups
           /\ \E id \in Unused(d) :
                /\ Active(Given(d, w, n), id)
                /\ Given(d, w, n).claims[id].slot = w
                /\ Given(d, w, n).claims[id].generation = d.slots[w].generation
                /\ Given(d, w, n).claims[id].units = Eligible(d, w, n)
                /\ \A c \in Claims \ {id} : Given(d, w, n).claims[c] = d.claims[c]
                /\ \A s \in Eligible(d, w, n) :
                    /\ Given(d, w, n).stages[s].status = "CLAIMED"
                    /\ Given(d, w, n).stages[s].claim = id
                /\ \A s \in Stages \ Eligible(d, w, n) :
                    Given(d, w, n).stages[s] = d.stages[s]
<1> DEFINE id == CHOOSE c \in Unused(d) : TRUE
           units == Eligible(d, w, n)
           row == [status |-> "ACTIVE", slot |-> w, lapsed |-> FALSE,
                   generation |-> d.slots[w].generation, units |-> units]
           claims == [d.claims EXCEPT ![id] = row]
           stages == [s \in Stages |->
                        IF s \in units
                        THEN [status |-> "CLAIMED", claim |-> id,
                              attempts |-> d.stages[s].attempts + 1]
                        ELSE d.stages[s]]
<1>1. id \in Unused(d)
  OBVIOUS
<1>2. id \in Claims
  BY <1>1 DEF Unused
<1>3. Given(d, w, n) = [d EXCEPT !.claims = claims, !.stages = stages]
  BY DEF Given, Tables
<1>4. row \in ClaimRow
  <2>1. d.slots[w].generation \in Nat
    BY DEF Tables, SlotRow
  <2>2. units \in SUBSET Stages
    BY EligibleReady
  <2> QED BY <2>1, <2>2 DEF ClaimRow
<1>5. claims \in [Claims -> ClaimRow]
  <2> HIDE DEF row, id
  <2> QED BY <1>4 DEF Tables
<1>6. ASSUME NEW s \in Stages PROVE stages[s] \in StageRow
  <2>1. d.stages[s] \in StageRow
    BY DEF Tables
  <2>2. d.stages[s].attempts + 1 \in Nat
    BY <2>1 DEF StageRow
  <2>3. id \in Claims \cup {NoClaim}
    BY <1>2
  <2> HIDE DEF id, units
  <2> QED BY <2>1, <2>2, <2>3 DEF StageRow, Held
<1>7. stages \in [Stages -> StageRow]
  BY <1>6
<1>8. Given(d, w, n).claims = claims /\ Given(d, w, n).stages = stages
  BY <1>3 DEF Tables
<1>9. /\ \A s \in units : stages[s].status = "CLAIMED" /\ stages[s].claim = id
      /\ \A s \in Stages \ units : stages[s] = d.stages[s]
  BY EligibleReady
<1>10. claims[id] = row /\ \A c \in Claims \ {id} : claims[c] = d.claims[c]
  BY <1>2 DEF Tables
<1>11. /\ row.status = "ACTIVE" /\ row.slot = w
       /\ row.generation = d.slots[w].generation /\ row.units = units
  OBVIOUS
<1> HIDE DEF claims, stages, row
<1>12. Given(d, w, n) \in Tables
  BY <1>3, <1>5, <1>7 DEF Tables
<1>13. /\ Given(d, w, n).slots = d.slots
       /\ Given(d, w, n).ready = d.ready
       /\ Given(d, w, n).wakeups = d.wakeups
  BY <1>3 DEF Tables
<1>14. Active(Given(d, w, n), id)
  BY <1>8, <1>10, <1>11 DEF Active
<1> QED BY <1>1, <1>8, <1>9, <1>12, <1>13, <1>10, <1>11, <1>14

\* A slot without a claim is given one: it has it alone, and it is the newest.
LEMMA GivenWorked ==
    ASSUME NEW d, Sound(d), NEW w \in Slots, NEW n, Unused(d) # {}, Current(d, w) = {}
    PROVE  Worked(WithSlot(Given(d, w, n), w, "ACTIVE", "ACTIVE"))
<1> DEFINE f == Given(d, w, n)
           e == WithSlot(f, w, "ACTIVE", "ACTIVE")
           units == Eligible(d, w, n)
<1>1. d \in Tables /\ Worked(d)
  BY DEF Sound
<1>2. f \in Tables /\ f.slots = d.slots
  BY <1>1, GivenFields
<1>3. PICK id \in Unused(d) :
        /\ Active(f, id)
        /\ f.claims[id].slot = w
        /\ f.claims[id].generation = d.slots[w].generation
        /\ f.claims[id].units = units
        /\ \A c \in Claims \ {id} : f.claims[c] = d.claims[c]
        /\ \A s \in units : f.stages[s].status = "CLAIMED" /\ f.stages[s].claim = id
        /\ \A s \in Stages \ units : f.stages[s] = d.stages[s]
  BY <1>1, GivenFields
<1> HIDE DEF f
<1>4. /\ e.stages = f.stages /\ e.claims = f.claims
      /\ e.slots[w].state = "ACTIVE" /\ e.slots[w].generation = f.slots[w].generation
      /\ \A v \in Slots \ {w} : e.slots[v] = f.slots[v]
  <2>1. "ACTIVE" \in SlotStates /\ "ACTIVE" \in SessionStates
    BY StateNames
  <2> QED BY <1>2, <2>1, WithSlotFields
<1>5. id \in Claims /\ d.claims[id].status = "none"
  BY <1>3 DEF Unused
<1>6. /\ e.slots[w].state = "ACTIVE" /\ e.slots[w].generation = d.slots[w].generation
      /\ \A v \in Slots : v # w => e.slots[v] = d.slots[v]
  BY <1>2, <1>4
<1>7. /\ e.claims[id].status = "ACTIVE" /\ e.claims[id].slot = w
      /\ e.claims[id].generation = d.slots[w].generation /\ e.claims[id].units = units
      /\ \A c \in Claims : c # id => e.claims[c] = d.claims[c]
  BY <1>3, <1>4 DEF Active
<1>8. /\ \A s \in units : e.stages[s].status = "CLAIMED" /\ e.stages[s].claim = id
      /\ \A s \in Stages : s \notin units => e.stages[s] = d.stages[s]
  BY <1>3, <1>4
<1> HIDE DEF e, units
<1>9. ASSUME NEW c \in Claims, c # id, Active(e, c)
      PROVE  Active(d, c) /\ e.claims[c] = d.claims[c] /\ d.claims[c].slot \in Slots \ {w}
  <2>1. e.claims[c] = d.claims[c] /\ Active(d, c)
    BY <1>7, <1>9 DEF Active
  <2>2. d.claims[c].slot \in Slots
    BY <1>1 DEF Tables, ClaimRow
  <2> QED BY <2>1, <2>2 DEF Current, Active
<1>10. OfNewest(e)
  <2> SUFFICES ASSUME NEW c \in Claims, Active(e, c)
               PROVE  /\ e.claims[c].generation = e.slots[e.claims[c].slot].generation
                      /\ e.slots[e.claims[c].slot].state \in {"ACTIVE", "ROTATING"}
    BY DEF OfNewest
  <2>1. CASE c = id
    BY <2>1, <1>6, <1>7
  <2>2. CASE c # id
    <3>1. Active(d, c) /\ e.claims[c] = d.claims[c] /\ d.claims[c].slot \in Slots \ {w}
      BY <2>2, <1>9
    <3> QED BY <3>1, <1>1, <1>6 DEF Worked, OfNewest
  <2> QED BY <2>1, <2>2
<1>11. OnePerSlot(e)
  BY <1>1, <1>7, <1>9 DEF Worked, OnePerSlot
<1>12. UnitsHeld(e)
  <2> SUFFICES ASSUME NEW c \in Claims, Active(e, c), NEW s \in e.claims[c].units
               PROVE  /\ e.stages[s].status \in Held
                      /\ e.stages[s].claim = c
                      /\ DefinitionOf[s] = Serves[e.claims[c].slot]
    BY DEF UnitsHeld
  <2>1. CASE c = id
    <3>1. s \in units
      BY <2>1, <1>7
    <3>2. DefinitionOf[s] = Serves[w]
      BY <3>1, EligibleReady DEF units
    <3> QED BY <2>1, <3>1, <3>2, <1>7, <1>8 DEF Held
  <2>2. CASE c # id
    <3>1. Active(d, c) /\ e.claims[c] = d.claims[c]
      BY <2>2, <1>9
    <3>2. /\ d.stages[s].status \in Held /\ d.stages[s].claim = c
          /\ DefinitionOf[s] = Serves[d.claims[c].slot]
      BY <3>1, <1>1 DEF Worked, UnitsHeld
    <3>3. s \in Stages
      BY <3>1, <1>1 DEF Tables, ClaimRow
    <3>4. s \notin units
      BY <3>2, EligibleReady DEF units, Held
    <3> QED BY <3>1, <3>2, <3>3, <3>4, <1>8
  <2> QED BY <2>1, <2>2
<1>13. HeldByClaim(e)
  <2> SUFFICES ASSUME NEW s \in Stages, e.stages[s].status \in Held
               PROVE  /\ e.stages[s].claim \in Claims
                      /\ Active(e, e.stages[s].claim)
                      /\ s \in e.claims[e.stages[s].claim].units
    BY DEF HeldByClaim
  <2>1. CASE s \in units
    BY <2>1, <1>5, <1>7, <1>8 DEF Active
  <2>2. CASE s \notin units
    <3>1. e.stages[s] = d.stages[s]
      BY <2>2, <1>8
    <3>2. /\ d.stages[s].claim \in Claims /\ Active(d, d.stages[s].claim)
          /\ s \in d.claims[d.stages[s].claim].units
      BY <3>1, <1>1 DEF Worked, HeldByClaim
    <3>3. d.stages[s].claim # id
      BY <3>2, <1>5 DEF Active
    <3> QED BY <3>1, <3>2, <3>3, <1>7 DEF Active
  <2> QED BY <2>1, <2>2
<1>14. Worked(e)
  BY <1>10, <1>11, <1>12, <1>13 DEF Worked
<1> QED BY <1>14 DEF e, f

\* createClaimTx with a new claim: others that wait go on doing so with a wakeup.
LEMMA GrantedKeeps ==
    ASSUME NEW d, Sound(d), NEW w \in Slots, NEW n, Unused(d) # {}, Current(d, w) = {}
    PROVE  /\ Sound(Granted(d, w, n))
           /\ Granted(d, w, n).slots[w].state = "ACTIVE"
           /\ \A v \in Slots \ {w} : Woken(d, v) => Woken(Granted(d, w, n), v)
<1> DEFINE f == Given(d, w, n)
           e == WithSlot(f, w, "ACTIVE", "ACTIVE")
           units == Eligible(d, w, n)
           K == {Serves[w]}
<1>1. Granted(d, w, n) = Refreshed(e, K)
  BY DEF Granted, Given
<1>2. d \in Tables /\ Worked(d) /\ Queued(d) /\ CountRight(d)
  BY DEF Sound
<1>3. /\ f \in Tables /\ f.slots = d.slots /\ f.ready = d.ready /\ f.wakeups = d.wakeups
      /\ \A s \in Stages \ units : f.stages[s] = d.stages[s]
      /\ \A s \in units : f.stages[s].status = "CLAIMED"
  BY <1>2, GivenFields
<1> HIDE DEF f
<1>4. /\ e \in Tables
      /\ e.stages = f.stages /\ e.ready = f.ready /\ e.wakeups = f.wakeups
      /\ e.slots[w].state = "ACTIVE"
      /\ \A v \in Slots \ {w} : e.slots[v] = f.slots[v]
  <2>1. "ACTIVE" \in SlotStates /\ "ACTIVE" \in SessionStates
    BY StateNames
  <2> QED BY <1>3, <2>1, WithSlotFields
<1>5. Worked(e)
  BY GivenWorked DEF f
<1>6. /\ e.slots[w].state = "ACTIVE"
      /\ \A v \in Slots \ {w} : e.slots[v] = d.slots[v]
      /\ e.ready = d.ready /\ e.wakeups = d.wakeups
  BY <1>3, <1>4
<1> HIDE DEF e
<1>7. ASSUME NEW s \in Stages
      PROVE  \/ e.stages[s] = d.stages[s]
             \/ /\ d.stages[s].status = "READY" /\ e.stages[s].status = "CLAIMED"
                /\ DefinitionOf[s] = Serves[w]
  BY <1>3, <1>4, EligibleReady
<1>8. Queued(e)
  BY <1>2, <1>7, QueuedKept
<1>9. \A k \in Definitions \ K : Ready(e, k) = Ready(d, k)
  BY <1>7 DEF Ready
<1> HIDE DEF K
<1>10. Sound(Refreshed(e, K))
  BY <1>4, <1>5, <1>6, <1>8, <1>9, RefreshedSound
<1>11. Refreshed(e, K).slots = e.slots
  BY <1>4, RefreshedFields
<1>12. ASSUME NEW v \in Slots \ {w}, Woken(d, v)
       PROVE  Woken(Refreshed(e, K), v)
  <2>1. e.slots[v] = d.slots[v] /\ e.slots[v].state \in {"WAITING", "IDLE"}
    BY <1>6, <1>12 DEF Woken
  <2>2. Current(e, v) = {}
    BY <1>5, <2>1, WaitsIdle
  <2> QED BY <1>2, <1>4, <1>6, <1>9, <1>12, <2>1, <2>2, RefreshedWoken
<1> QED BY <1>1, <1>6, <1>10, <1>11, <1>12

LEMMA ClaimedKeeps ==
    ASSUME NEW d, Sound(d), NEW w \in Slots, NEW n, MayClaim(d, w, n), IdsLeft(d, w, n)
    PROVE  /\ Sound(Claimed(d, w, n))
           /\ Claimed(d, w, n).slots[w].state \in {"ACTIVE", "ROTATING"}
           /\ \A v \in Slots \ {w} : Woken(d, v) => Woken(Claimed(d, w, n), v)
<1>1. Own(d, w) = Current(d, w)
  BY CurrentIsOwn DEF Sound
<1>2. CASE Own(d, w) = {}
  <2>1. Unused(d) # {} /\ Claimed(d, w, n) = Granted(d, w, n)
    BY <1>2 DEF MayClaim, IdsLeft, Claimed
  <2>2. Current(d, w) = {}
    BY <1>1, <1>2
  <2> QED BY <2>1, <2>2, GrantedKeeps
<1>3. CASE Own(d, w) # {}
  <2>1. d.slots[w].state \in {"ACTIVE", "ROTATING"}
    BY <1>1, <1>3 DEF Current, Sound, Worked, OfNewest, Active
  <2> QED BY <1>3, <2>1 DEF Claimed
<1> QED BY <1>2, <1>3

-----------------------------------------------------------------------------
(* Results *)

\* recalculateStageReadiness for the stages in T.
LEMMA ReadiedFields ==
    ASSUME NEW d \in Tables, NEW T
    PROVE  /\ WithReadied(d, T) \in Tables
           /\ WithReadied(d, T).claims = d.claims
           /\ WithReadied(d, T).slots = d.slots
           /\ WithReadied(d, T).ready = d.ready
           /\ WithReadied(d, T).wakeups = d.wakeups
           /\ \A s \in Stages :
                IF s \in T /\ Readied(d, s)
                THEN /\ WithReadied(d, T).stages[s].status = "READY"
                     /\ WithReadied(d, T).stages[s].attempts = d.stages[s].attempts
                ELSE WithReadied(d, T).stages[s] = d.stages[s]
<1> DEFINE stages == [s \in Stages |->
                IF s \in T /\ Readied(d, s)
                THEN [d.stages[s] EXCEPT !.status = "READY"] ELSE d.stages[s]]
<1>1. WithReadied(d, T) = [d EXCEPT !.stages = stages]
  BY DEF WithReadied
<1>2. ASSUME NEW s \in Stages
      PROVE  /\ stages[s] \in StageRow
             /\ IF s \in T /\ Readied(d, s)
                THEN stages[s].status = "READY" /\ stages[s].attempts = d.stages[s].attempts
                ELSE stages[s] = d.stages[s]
  <2>1. d.stages[s] \in StageRow
    BY DEF Tables
  <2> QED BY <2>1 DEF StageRow
<1>3. stages \in [Stages -> StageRow]
  BY <1>2
<1>4. WithReadied(d, T).stages = stages
  BY <1>1 DEF Tables
<1> HIDE DEF stages
<1>5. WithReadied(d, T) \in Tables
  BY <1>1, <1>3 DEF Tables
<1>6. /\ WithReadied(d, T).claims = d.claims
      /\ WithReadied(d, T).slots = d.slots
      /\ WithReadied(d, T).ready = d.ready
      /\ WithReadied(d, T).wakeups = d.wakeups
  BY <1>1 DEF Tables
<1> QED BY <1>2, <1>4, <1>5, <1>6

LEMMA ReadiedWorked ==
    ASSUME NEW d \in Tables, Worked(d), NEW T
    PROVE  Worked(WithReadied(d, T))
<1> DEFINE e == WithReadied(d, T)
<1>1. e.claims = d.claims /\ e.slots = d.slots
  BY ReadiedFields
<1>2. \A s \in Stages :
        IF s \in T /\ Readied(d, s) THEN e.stages[s].status = "READY"
        ELSE e.stages[s] = d.stages[s]
  BY ReadiedFields
<1> HIDE DEF e
<1>3. \A s \in Stages :
        d.stages[s].status \in Held \/ e.stages[s].status \in Held => e.stages[s] = d.stages[s]
  BY <1>2 DEF Readied, Held
<1>4. OfNewest(e) /\ OnePerSlot(e)
  BY <1>1 DEF Worked, OfNewest, OnePerSlot, Active
<1>5. UnitsHeld(e)
  <2>1. \A c \in Claims : d.claims[c].units \subseteq Stages
    BY DEF Tables, ClaimRow
  <2> QED BY <1>1, <1>3, <2>1 DEF Worked, UnitsHeld, Active
<1>6. HeldByClaim(e)
  BY <1>1, <1>3 DEF Worked, HeldByClaim, Active
<1>7. Worked(e)
  BY <1>4, <1>5, <1>6 DEF Worked
<1> QED BY <1>7 DEF e

\* The queue is right again when all stages that could be released were in T.
LEMMA ReadiedQueued ==
    ASSUME NEW d \in Tables, AttemptsLeft(d), NEW T,
           \A s \in Seeded(d) : d.stages[s].status # "PENDING" => Met(d, s),
           \A s \in Seeded(d) \ T : d.stages[s].status = "PENDING" => ~Met(d, s)
    PROVE  Queued(WithReadied(d, T))
<1> DEFINE e == WithReadied(d, T)
<1>1. \A s \in Stages :
        IF s \in T /\ Readied(d, s)
        THEN e.stages[s].status = "READY" /\ e.stages[s].attempts = d.stages[s].attempts
        ELSE e.stages[s] = d.stages[s]
  BY ReadiedFields
<1>2. \A s : Readied(d, s) <=> d.stages[s].status = "PENDING" /\ Met(d, s)
  BY DEF Readied, Met
<1> HIDE DEF e
<1>3. \A s \in Stages : Completed(e, s) <=> Completed(d, s)
  BY <1>1, <1>2 DEF Completed
<1>4. \A s \in Stages : Met(e, s) <=> Met(d, s)
  BY <1>3, StagesAssumption DEF Met
<1>5. \A s \in Stages : MaxAttempts[s] \in Nat /\ 0 < MaxAttempts[s]
  BY StagesAssumption
<1>6. AttemptsLeft(e)
  BY <1>1, <1>2, <1>5 DEF AttemptsLeft
<1>7. PendingWaits(e)
  <2> SUFFICES ASSUME NEW s \in Stages, e.stages[s].status # "absent"
               PROVE  e.stages[s].status = "PENDING" <=> ~Met(e, s)
    BY DEF PendingWaits, Seeded
  <2>1. s \in Seeded(d)
    BY <1>1, <1>2 DEF Seeded
  <2>2. CASE s \in T /\ Readied(d, s)
    BY <2>2, <1>1, <1>2, <1>4
  <2>3. CASE ~(s \in T /\ Readied(d, s))
    BY <2>1, <2>3, <1>1, <1>2, <1>4
  <2> QED BY <2>2, <2>3
<1>8. Queued(e)
  BY <1>6, <1>7 DEF Queued
<1> QED BY <1>8 DEF e

LEMMA FinishedFields ==
    ASSUME NEW d \in Tables, NEW c \in Claims
    PROVE  /\ Finished(d, c) \in Tables
           /\ Finished(d, c).slots = d.slots
           /\ Finished(d, c).ready = d.ready
           /\ Finished(d, c).wakeups = d.wakeups
           /\ ~Active(Finished(d, c), c)
           /\ \A b \in Claims \ {c} : Finished(d, c).claims[b] = d.claims[b]
           /\ \A s \in Stages :
                IF s \in d.claims[c].units
                THEN Finished(d, c).stages[s].status = "COMPLETED"
                ELSE Finished(d, c).stages[s] = d.stages[s]
<1> DEFINE stages == [s \in Stages |->
                IF s \in d.claims[c].units
                THEN [d.stages[s] EXCEPT !.status = "COMPLETED", !.claim = NoClaim]
                ELSE d.stages[s]]
           claims == [d.claims EXCEPT ![c] = NoClaimRow("ended")]
<1>1. Finished(d, c) = [d EXCEPT !.stages = stages, !.claims = claims]
  BY DEF Finished
<1>2. ASSUME NEW s \in Stages
      PROVE  /\ stages[s] \in StageRow
             /\ IF s \in d.claims[c].units THEN stages[s].status = "COMPLETED"
                ELSE stages[s] = d.stages[s]
  <2>1. d.stages[s] \in StageRow
    BY DEF Tables
  <2> QED BY <2>1 DEF StageRow
<1>3. stages \in [Stages -> StageRow]
  BY <1>2
<1>4. /\ claims \in [Claims -> ClaimRow] /\ claims[c].status = "ended"
      /\ \A b \in Claims \ {c} : claims[b] = d.claims[b]
  BY NoClaimRowType DEF Tables
<1>5. Finished(d, c).stages = stages /\ Finished(d, c).claims = claims
  BY <1>1 DEF Tables
<1> HIDE DEF stages, claims
<1>6. Finished(d, c) \in Tables
  BY <1>1, <1>3, <1>4 DEF Tables
<1>7. /\ Finished(d, c).slots = d.slots
      /\ Finished(d, c).ready = d.ready
      /\ Finished(d, c).wakeups = d.wakeups
  BY <1>1 DEF Tables
<1>8. ~Active(Finished(d, c), c)
  BY <1>4, <1>5 DEF Active
<1> QED BY <1>2, <1>4, <1>5, <1>6, <1>7, <1>8

\* A claim ends and its stages are not held any more.
LEMMA EndedWorked ==
    ASSUME NEW d \in Tables, Worked(d), NEW c \in Claims, Active(d, c), NEW e,
           e.slots = d.slots, ~Active(e, c),
           \A b \in Claims \ {c} : e.claims[b] = d.claims[b],
           \A s \in Stages : IF s \in d.claims[c].units THEN e.stages[s].status \notin Held
                             ELSE e.stages[s] = d.stages[s]
    PROVE  Worked(e)
<1>1. ASSUME NEW b \in Claims, Active(e, b)
      PROVE  b # c /\ e.claims[b] = d.claims[b] /\ Active(d, b)
  BY <1>1 DEF Active
<1>2. OfNewest(e)
  BY <1>1 DEF Worked, OfNewest
<1>3. OnePerSlot(e)
  BY <1>1 DEF Worked, OnePerSlot
<1>4. UnitsHeld(e)
  <2> SUFFICES ASSUME NEW b \in Claims, Active(e, b), NEW s \in e.claims[b].units
               PROVE  /\ e.stages[s].status \in Held
                      /\ e.stages[s].claim = b
                      /\ DefinitionOf[s] = Serves[e.claims[b].slot]
    BY DEF UnitsHeld
  <2>1. b # c /\ e.claims[b] = d.claims[b] /\ Active(d, b)
    BY <1>1
  <2>2. s \in Stages
    BY <2>1 DEF Tables, ClaimRow
  <2>3. /\ d.stages[s].status \in Held /\ d.stages[s].claim = b
        /\ DefinitionOf[s] = Serves[d.claims[b].slot]
    BY <2>1 DEF Worked, UnitsHeld
  <2>4. s \notin d.claims[c].units
    BY <2>1, <2>3 DEF Worked, UnitsHeld
  <2> QED BY <2>1, <2>2, <2>3, <2>4
<1>5. HeldByClaim(e)
  <2> SUFFICES ASSUME NEW s \in Stages, e.stages[s].status \in Held
               PROVE  /\ e.stages[s].claim \in Claims
                      /\ Active(e, e.stages[s].claim)
                      /\ s \in e.claims[e.stages[s].claim].units
    BY DEF HeldByClaim
  <2>1. e.stages[s] = d.stages[s] /\ s \notin d.claims[c].units
    OBVIOUS
  <2>2. /\ d.stages[s].claim \in Claims /\ Active(d, d.stages[s].claim)
        /\ s \in d.claims[d.stages[s].claim].units
    BY <2>1 DEF Worked, HeldByClaim
  <2>3. d.stages[s].claim # c
    BY <2>1, <2>2
  <2>4. e.claims[d.stages[s].claim] = d.claims[d.stages[s].claim]
    BY <2>2, <2>3
  <2> QED BY <2>1, <2>2, <2>4 DEF Active
<1> QED BY <1>2, <1>3, <1>4, <1>5 DEF Worked

LEMMA CommittedKeeps ==
    ASSUME NEW d, Sound(d), NEW c \in Claims, Active(d, c)
    PROVE  /\ Sound(Committed(d, c))
           /\ Committed(d, c).slots = d.slots
           /\ \A w \in Slots : Woken(d, w) => Woken(Committed(d, c), w)
<1> DEFINE f == Finished(d, c)
           units == d.claims[c].units
           T == Dependents(units)
           e == WithReadied(f, T)
           K == {DefinitionOf[s] : s \in {t \in T : Readied(f, t)}}
<1>1. Committed(d, c) = Refreshed(e, K)
  BY DEF Committed
<1>2. d \in Tables /\ Worked(d) /\ Queued(d) /\ CountRight(d)
  BY DEF Sound
<1>3. /\ f \in Tables /\ f.slots = d.slots /\ f.ready = d.ready /\ f.wakeups = d.wakeups
      /\ ~Active(f, c)
      /\ \A b \in Claims \ {c} : f.claims[b] = d.claims[b]
      /\ \A s \in Stages : IF s \in units THEN f.stages[s].status = "COMPLETED"
                           ELSE f.stages[s] = d.stages[s]
  BY <1>2, FinishedFields
<1>4. \A s \in units : d.stages[s].status \in Held
  BY <1>2 DEF Worked, UnitsHeld
<1> HIDE DEF f
<1>5. Worked(f)
  BY <1>2, <1>3, EndedWorked DEF Held
<1>6. /\ e \in Tables /\ e.slots = d.slots /\ e.ready = d.ready /\ e.wakeups = d.wakeups
      /\ \A s \in Stages :
            IF s \in T /\ Readied(f, s) THEN e.stages[s].status = "READY"
            ELSE e.stages[s] = f.stages[s]
  BY <1>3, ReadiedFields
<1>7. Worked(e)
  BY <1>3, <1>5, ReadiedWorked
<1>8. \A s \in Stages : Completed(f, s) <=> Completed(d, s) \/ s \in units
  BY <1>3 DEF Completed
<1>9. \A s \in Stages : Met(d, s) => Met(f, s)
  BY <1>8, StagesAssumption DEF Met
<1>10. AttemptsLeft(f)
  BY <1>2, <1>3 DEF Queued, AttemptsLeft
<1>11. ASSUME NEW s \in Seeded(f), f.stages[s].status # "PENDING"
       PROVE  Met(f, s)
  <2>1. s \in Seeded(d) /\ d.stages[s].status # "PENDING"
    BY <1>3, <1>4, <1>11 DEF Seeded, Held
  <2> QED BY <2>1, <1>2, <1>9 DEF Queued, PendingWaits, Seeded
<1>12. ASSUME NEW s \in Seeded(f) \ T, f.stages[s].status = "PENDING"
       PROVE  ~Met(f, s)
  <2>1. s \in Stages /\ f.stages[s] = d.stages[s]
    BY <1>3, <1>12 DEF Seeded
  <2>2. PICK p \in DependsOn[s] : ~Completed(d, p)
    BY <2>1, <1>2, <1>12 DEF Queued, PendingWaits, Seeded, Met
  <2>3. p \in Stages
    BY <2>1, <2>2, StagesAssumption
  <2>4. p \notin units
    BY <2>1, <2>2, <1>12 DEF Dependents
  <2> QED BY <2>2, <2>3, <2>4, <1>8 DEF Met
<1>13. Queued(e)
  BY <1>3, <1>10, <1>11, <1>12, ReadiedQueued
<1>14. ASSUME NEW k \in Definitions \ K
       PROVE  Ready(e, k) = Ready(d, k)
  <2>1. ASSUME NEW s \in Stages, DefinitionOf[s] = k
        PROVE  e.stages[s].status = "READY" <=> d.stages[s].status = "READY"
    <3>1. ~(s \in T /\ Readied(f, s))
      BY <2>1
    <3>2. e.stages[s] = f.stages[s]
      BY <3>1, <1>6
    <3> QED BY <3>2, <1>3, <1>4 DEF Held
  <2> QED BY <2>1 DEF Ready
<1> HIDE DEF e, K, T
<1>15. Sound(Refreshed(e, K))
  BY <1>6, <1>7, <1>13, <1>14, RefreshedSound
<1>16. Refreshed(e, K).slots = d.slots
  BY <1>6, RefreshedFields
<1>17. ASSUME NEW w \in Slots, Woken(d, w)
       PROVE  Woken(Refreshed(e, K), w)
  <2>1. e.slots[w] = d.slots[w] /\ e.slots[w].state \in {"WAITING", "IDLE"}
    BY <1>6, <1>17 DEF Woken
  <2>2. Current(e, w) = {}
    BY <1>7, <2>1, WaitsIdle
  <2> QED BY <1>2, <1>6, <1>14, <1>17, <2>1, <2>2, RefreshedWoken
<1> QED BY <1>1, <1>15, <1>16, <1>17

LEMMA ProcessedNat ==
    ASSUME NEW d, NEW units \in SUBSET Stages
    PROVE  Processed(d, units) \in Nat
<1> DEFINE worked == {ItemOf[s] : s \in units}
           whole == {i \in worked : \A s \in StagesOf({i}) : Completed(d, s)}
<1>1. IsFiniteSet(units)
  BY StagesAssumption, FS_Subset
<1>2. IsFiniteSet(worked)
  <2> DEFINE f == [s \in units |-> ItemOf[s]]
  <2>1. f \in Surjection(units, worked)
    BY DEF Surjection
  <2> QED BY <1>1, <2>1, FS_Surjection
<1>3. IsFiniteSet(whole)
  BY <1>2, FS_Subset
<1>4. Cardinality(worked) \in Nat /\ Cardinality(whole) \in Nat
  BY <1>2, <1>3, FS_CardinalityType
<1>5. Processed(d, units) = IF whole # {} THEN Cardinality(whole) ELSE Cardinality(worked)
  BY DEF Processed
<1> QED BY <1>4, <1>5

\* The count of items is of no consequence for claims, queues and wakeups.
LEMMA CountedKeeps ==
    ASSUME NEW d, Sound(d), NEW w \in Slots, NEW units \in SUBSET Stages
    PROVE  /\ Sound(Counted(d, w, units))
           /\ Counted(d, w, units).claims = d.claims
           /\ Counted(d, w, units).slots[w].state = d.slots[w].state
           /\ \A v \in Slots \ {w} :
                /\ Counted(d, w, units).slots[v] = d.slots[v]
                /\ Woken(d, v) => Woken(Counted(d, w, units), v)
<1> DEFINE e == Counted(d, w, units)
           n == d.slots[w].done + Processed(d, units)
           done == IF n < ItemLimit[w] THEN n ELSE ItemLimit[w]
           k == [d.slots EXCEPT ![w] = [d.slots[w] EXCEPT !.done = done]]
<1>1. d \in Tables
  BY DEF Sound
<1>2. e = [d EXCEPT !.slots = k]
  BY <1>1 DEF Counted, Tables, SlotRow
<1>3. done \in Nat
  <2>1. d.slots[w].done \in Nat /\ ItemLimit[w] \in Nat
    BY <1>1, SlotsAssumption DEF Tables, SlotRow
  <2> QED BY <2>1, ProcessedNat
<1> HIDE DEF done
<1>4. /\ k \in [Slots -> SlotRow]
      /\ k[w].state = d.slots[w].state /\ k[w].generation = d.slots[w].generation
      /\ \A v \in Slots \ {w} : k[v] = d.slots[v]
  <2>1. d.slots \in [Slots -> SlotRow]
    BY <1>1 DEF Tables
  <2>2. ASSUME NEW r \in SlotRow
        PROVE  /\ [r EXCEPT !.done = done] \in SlotRow
               /\ [r EXCEPT !.done = done].state = r.state
               /\ [r EXCEPT !.done = done].generation = r.generation
    BY ONLY <1>3, <2>2 DEF SlotRow
  <2> QED BY <2>1, <2>2
<1> HIDE DEF k
<1>5. /\ e.slots = k
      /\ e.stages = d.stages /\ e.claims = d.claims
      /\ e.ready = d.ready /\ e.wakeups = d.wakeups
  BY <1>1, <1>2 DEF Tables
<1>6. e \in Tables
  BY <1>1, <1>2, <1>4 DEF Tables
<1> HIDE DEF e
<1>7. ASSUME NEW v \in Slots, Current(d, v) # {}
      PROVE  /\ e.slots[v].generation = d.slots[v].generation
             /\ e.slots[v].state \in {"ACTIVE", "ROTATING"}
  <2>1. d.slots[v].state \in {"ACTIVE", "ROTATING"}
    BY <1>7 DEF Sound, Worked, OfNewest, Active, Current
  <2> QED BY <2>1, <1>4, <1>5
<1>8. Sound(e) /\ \A v \in Slots : e.slots[v] = d.slots[v] /\ Woken(d, v) => Woken(e, v)
  BY <1>5, <1>6, <1>7, SlotsKeep
<1>9. /\ Sound(e) /\ e.claims = d.claims
      /\ e.slots[w].state = d.slots[w].state
      /\ \A v \in Slots \ {w} : e.slots[v] = d.slots[v] /\ (Woken(d, v) => Woken(e, v))
  BY <1>4, <1>5, <1>8
<1> QED BY <1>9 DEF e

LEMMA RunStatusKeeps ==
    ASSUME NEW d, Sound(d)
    PROVE  /\ Sound(WithRunStatus(d))
           /\ WithRunStatus(d).slots = d.slots
           /\ \A w \in Slots : Woken(d, w) => Woken(WithRunStatus(d), w)
<1> DEFINE e == WithRunStatus(d)
<1>1. d \in Tables
  BY DEF Sound
<1>2. /\ e \in Tables
      /\ e.slots = d.slots /\ e.stages = d.stages /\ e.claims = d.claims
      /\ e.ready = d.ready /\ e.wakeups = d.wakeups
  BY <1>1 DEF WithRunStatus, Tables
<1> HIDE DEF e
<1>3. ASSUME NEW v \in Slots, Current(d, v) # {}
      PROVE  /\ e.slots[v].generation = d.slots[v].generation
             /\ e.slots[v].state \in {"ACTIVE", "ROTATING"}
  BY <1>2, <1>3 DEF Sound, Worked, OfNewest, Active, Current
<1>4. Sound(e) /\ \A v \in Slots : Woken(d, v) => Woken(e, v)
  BY <1>2, <1>3, SlotsKeep
<1> QED BY <1>2, <1>4 DEF e

-----------------------------------------------------------------------------
(* Reports *)

Dispositions == {"BLOCKED_RETRYABLE", "BLOCKED_TERMINAL", "WAITING_HUMAN"}

LEMMA BlockedRow ==
    ASSUME NEW s \in Stages, NEW row \in StageRow,
           NEW disposition \in Dispositions
    PROVE  /\ Blocked(row, s, disposition) \in StageRow
           /\ Blocked(row, s, disposition).status \in {"READY", "FAILED", "BLOCKED"}
           /\ Blocked(row, s, disposition).status = "READY" =>
                Blocked(row, s, disposition).attempts < MaxAttempts[s]
<1>1. CASE disposition = "BLOCKED_RETRYABLE"
  BY <1>1, ReturnedRow DEF Blocked
<1>2. CASE disposition = "BLOCKED_TERMINAL"
  BY <1>2 DEF Blocked, StageRow
<1>3. CASE disposition = "WAITING_HUMAN"
  BY <1>3 DEF Blocked, StageRow
<1> QED BY <1>1, <1>2, <1>3 DEF Dispositions

\* The tables with the stages of claim c blocked, before its slot waits.
Stopped(d, c, disposition) ==
    [d EXCEPT
        !.stages = [s \in Stages |->
            IF s \in d.claims[c].units THEN Blocked(@[s], s, disposition) ELSE @[s]],
        !.claims[c] = NoClaimRow("ended")]

LEMMA StoppedFields ==
    ASSUME NEW d \in Tables, NEW c \in Claims,
           NEW disposition \in Dispositions
    PROVE  /\ Stopped(d, c, disposition) \in Tables
           /\ Stopped(d, c, disposition).slots = d.slots
           /\ Stopped(d, c, disposition).ready = d.ready
           /\ Stopped(d, c, disposition).wakeups = d.wakeups
           /\ ~Active(Stopped(d, c, disposition), c)
           /\ \A b \in Claims \ {c} : Stopped(d, c, disposition).claims[b] = d.claims[b]
           /\ \A s \in Stages :
                IF s \in d.claims[c].units
                THEN /\ Stopped(d, c, disposition).stages[s].status
                            \in {"READY", "FAILED", "BLOCKED"}
                     /\ Stopped(d, c, disposition).stages[s].status = "READY" =>
                            Stopped(d, c, disposition).stages[s].attempts < MaxAttempts[s]
                ELSE Stopped(d, c, disposition).stages[s] = d.stages[s]
<1> DEFINE e == Stopped(d, c, disposition)
           stages == [s \in Stages |->
                IF s \in d.claims[c].units
                THEN Blocked(d.stages[s], s, disposition) ELSE d.stages[s]]
           claims == [d.claims EXCEPT ![c] = NoClaimRow("ended")]
<1>1. e = [d EXCEPT !.stages = stages, !.claims = claims]
  BY DEF Stopped
<1>2. ASSUME NEW s \in Stages
      PROVE  /\ stages[s] \in StageRow
             /\ IF s \in d.claims[c].units
                THEN /\ stages[s].status \in {"READY", "FAILED", "BLOCKED"}
                     /\ stages[s].status = "READY" => stages[s].attempts < MaxAttempts[s]
                ELSE stages[s] = d.stages[s]
  <2>1. d.stages[s] \in StageRow
    BY DEF Tables
  <2>2. stages[s] = IF s \in d.claims[c].units
                    THEN Blocked(d.stages[s], s, disposition) ELSE d.stages[s]
    OBVIOUS
  <2> HIDE DEF stages
  <2> QED BY <2>1, <2>2, BlockedRow
<1>3. stages \in [Stages -> StageRow]
  BY <1>2
<1>4. /\ claims \in [Claims -> ClaimRow] /\ claims[c].status = "ended"
      /\ \A b \in Claims \ {c} : claims[b] = d.claims[b]
  BY NoClaimRowType DEF Tables
<1>5. e.stages = stages /\ e.claims = claims
  BY <1>1 DEF Tables
<1> HIDE DEF stages, claims
<1>6. e \in Tables
  BY <1>1, <1>3, <1>4 DEF Tables
<1>7. e.slots = d.slots /\ e.ready = d.ready /\ e.wakeups = d.wakeups
  BY <1>1 DEF Tables
<1>8. ~Active(e, c)
  BY <1>4, <1>5 DEF Active
<1>9. /\ \A b \in Claims \ {c} : e.claims[b] = d.claims[b]
      /\ \A s \in Stages :
            IF s \in d.claims[c].units
            THEN /\ e.stages[s].status \in {"READY", "FAILED", "BLOCKED"}
                 /\ e.stages[s].status = "READY" => e.stages[s].attempts < MaxAttempts[s]
            ELSE e.stages[s] = d.stages[s]
  BY <1>2, <1>4, <1>5
<1> HIDE DEF e
<1>10. /\ e \in Tables
       /\ e.slots = d.slots /\ e.ready = d.ready /\ e.wakeups = d.wakeups
       /\ ~Active(e, c)
       /\ \A b \in Claims \ {c} : e.claims[b] = d.claims[b]
       /\ \A s \in Stages :
            IF s \in d.claims[c].units
            THEN /\ e.stages[s].status \in {"READY", "FAILED", "BLOCKED"}
                 /\ e.stages[s].status = "READY" => e.stages[s].attempts < MaxAttempts[s]
            ELSE e.stages[s] = d.stages[s]
  BY <1>6, <1>7, <1>8, <1>9
<1> QED BY <1>10 DEF e

\* reportBlockedV2: the slot of the claim waits, and was not told so by claim_work.
LEMMA StoppedKeeps ==
    ASSUME NEW d, Sound(d), NEW w \in Slots, NEW c \in Claims,
           Active(d, c), d.claims[c].slot = w,
           NEW disposition \in Dispositions,
           NEW e, e = WithSlot(Stopped(d, c, disposition), w, "WAITING", "WAITING")
    PROVE  /\ Sound(Refreshed(e, {Serves[w]}))
           /\ d.slots[w].state # "WAITING"
           /\ \A v \in Slots \ {w} : Woken(d, v) => Woken(Refreshed(e, {Serves[w]}), v)
<1> DEFINE f == Stopped(d, c, disposition)
           units == d.claims[c].units
           K == {Serves[w]}
<1>1. d \in Tables /\ Worked(d) /\ Queued(d) /\ CountRight(d)
  BY DEF Sound
<1>2. /\ f \in Tables /\ f.slots = d.slots /\ f.ready = d.ready /\ f.wakeups = d.wakeups
      /\ ~Active(f, c)
      /\ \A b \in Claims \ {c} : f.claims[b] = d.claims[b]
      /\ \A s \in Stages :
            IF s \in units
            THEN /\ f.stages[s].status \in {"READY", "FAILED", "BLOCKED"}
                 /\ f.stages[s].status = "READY" => f.stages[s].attempts < MaxAttempts[s]
            ELSE f.stages[s] = d.stages[s]
  BY <1>1, StoppedFields
<1>3. e = WithSlot(f, w, "WAITING", "WAITING")
  OBVIOUS
<1> HIDE DEF f
<1>4. \A s \in units : d.stages[s].status \in Held /\ DefinitionOf[s] = Serves[w]
  BY <1>1 DEF Worked, UnitsHeld
<1>5. Worked(f)
  BY <1>1, <1>2, EndedWorked DEF Held
<1>6. /\ e \in Tables
      /\ e.stages = f.stages /\ e.claims = f.claims /\ e.ready = f.ready
      /\ e.wakeups = f.wakeups
      /\ \A v \in Slots \ {w} : e.slots[v] = f.slots[v]
  <2> DEFINE g == WithSlot(f, w, "WAITING", "WAITING")
  <2>1. f \in Tables
    BY <1>2
  <2>2. /\ g \in Tables
        /\ g.stages = f.stages /\ g.claims = f.claims /\ g.ready = f.ready
        /\ g.wakeups = f.wakeups
        /\ \A v \in Slots \ {w} : g.slots[v] = f.slots[v]
    <3>1. "WAITING" \in SlotStates /\ "WAITING" \in SessionStates
      BY StateNames
    <3> QED BY <2>1, <3>1, WithSlotFields
  <2> QED BY <1>3, <2>2
<1>7. Current(f, w) = {}
  <2>1. ASSUME NEW b \in Claims, Active(f, b), f.claims[b].slot = w PROVE FALSE
    <3>1. b # c /\ Active(d, b) /\ d.claims[b].slot = w
      BY <2>1, <1>2 DEF Active
    <3> QED BY <3>1, <1>1 DEF Worked, OnePerSlot
  <2> QED BY <2>1 DEF Current, Active
<1>8. Worked(e)
  <2>1. ASSUME NEW v \in Slots, Current(f, v) # {}
        PROVE  /\ e.slots[v].generation = f.slots[v].generation
               /\ e.slots[v].state \in {"ACTIVE", "ROTATING"}
    <3>1. v # w
      BY <2>1, <1>7
    <3>2. f.slots[v].state \in {"ACTIVE", "ROTATING"}
      BY <2>1, <1>5 DEF Worked, OfNewest, Active, Current
    <3> QED BY <3>1, <3>2, <1>6
  <2> QED BY <2>1, <1>2, <1>5, <1>6, SlotsWorked
<1>9. Queued(e)
  <2>1. ASSUME NEW s \in Stages
        PROVE  \/ e.stages[s] = d.stages[s]
               \/ /\ d.stages[s].status \in Held
                  /\ e.stages[s].status \in {"READY", "FAILED", "BLOCKED"}
                  /\ e.stages[s].status = "READY" => e.stages[s].attempts < MaxAttempts[s]
    BY <1>2, <1>4, <1>6
  <2> QED BY <2>1, <1>1, QueuedKept DEF Held
<1>10. \A k \in Definitions \ K : Ready(e, k) = Ready(d, k)
  BY <1>2, <1>4, <1>6 DEF Ready
<1>11. d.slots[w].state # "WAITING"
  BY <1>1 DEF Worked, OfNewest
<1> HIDE DEF K
<1>12. Sound(Refreshed(e, K))
  BY <1>2, <1>6, <1>8, <1>9, <1>10, RefreshedSound
<1>13. ASSUME NEW v \in Slots \ {w}, Woken(d, v)
       PROVE  Woken(Refreshed(e, K), v)
  <2>1. e.slots[v] = d.slots[v] /\ e.slots[v].state \in {"WAITING", "IDLE"}
    BY <1>2, <1>6, <1>13 DEF Woken
  <2>2. Current(e, v) = {}
    BY <1>8, <2>1, WaitsIdle
  <2> QED BY <1>1, <1>2, <1>6, <1>10, <1>13, <2>1, <2>2, RefreshedWoken
<1> QED BY <1>11, <1>12, <1>13 DEF K

LEMMA ProgressKeeps ==
    ASSUME NEW d, Sound(d), NEW c \in Claims, Active(d, c), NEW e,
           e = [d EXCEPT !.stages = [s \in Stages |->
                    IF s \in d.claims[c].units /\ @[s].status = "CLAIMED"
                    THEN [@[s] EXCEPT !.status = "RUNNING"] ELSE @[s]]]
    PROVE  /\ Sound(e) /\ e.slots = d.slots
           /\ \A w \in Slots : Woken(d, w) => Woken(e, w)
<1> DEFINE stages == [s \in Stages |->
                IF s \in d.claims[c].units /\ d.stages[s].status = "CLAIMED"
                THEN [d.stages[s] EXCEPT !.status = "RUNNING"] ELSE d.stages[s]]
<1>1. d \in Tables /\ Worked(d) /\ Queued(d)
  BY DEF Sound
<1>2. e = [d EXCEPT !.stages = stages]
  OBVIOUS
<1>3. ASSUME NEW s \in Stages
      PROVE  /\ stages[s] \in StageRow
             /\ stages[s].claim = d.stages[s].claim
             /\ \/ stages[s] = d.stages[s]
                \/ d.stages[s].status = "CLAIMED" /\ stages[s].status = "RUNNING"
  <2>1. d.stages[s] \in StageRow
    BY <1>1 DEF Tables
  <2> QED BY <2>1 DEF StageRow, Held
<1>4. stages \in [Stages -> StageRow]
  BY <1>3
<1>5. e.stages = stages
  BY <1>1, <1>2 DEF Tables
<1> HIDE DEF stages
<1>6. e \in Tables
  BY <1>1, <1>2, <1>4 DEF Tables
<1>7. /\ e.slots = d.slots /\ e.claims = d.claims
      /\ e.ready = d.ready /\ e.wakeups = d.wakeups
  BY <1>1, <1>2 DEF Tables
<1>8. \A s \in Stages :
        /\ e.stages[s].claim = d.stages[s].claim
        /\ e.stages[s].status \in Held <=> d.stages[s].status \in Held
  BY <1>3, <1>5 DEF Held
<1>9. \A b \in Claims : d.claims[b].units \subseteq Stages
  BY <1>1 DEF Tables, ClaimRow
<1>10. Worked(e)
  <2>1. OfNewest(e) /\ OnePerSlot(e)
    BY <1>1, <1>7 DEF Worked, OfNewest, OnePerSlot, Active
  <2>2. UnitsHeld(e)
    BY <1>1, <1>7, <1>8, <1>9 DEF Worked, UnitsHeld, Active
  <2>3. HeldByClaim(e)
    BY <1>1, <1>7, <1>8 DEF Worked, HeldByClaim, Active
  <2> QED BY <2>1, <2>2, <2>3 DEF Worked
<1>11. Queued(e)
  BY <1>1, <1>3, <1>5, QueuedKept
<1>12. \A k : Ready(e, k) = Ready(d, k)
  BY <1>3, <1>5 DEF Ready
<1> QED BY <1>6, <1>7, <1>10, <1>11, <1>12, QueuesKeep

LEMMA LapseKeeps ==
    ASSUME NEW d, Sound(d), NEW c \in Claims, NEW e, e = [d EXCEPT !.claims[c].lapsed = TRUE]
    PROVE  /\ Sound(e) /\ e.slots = d.slots
           /\ \A w \in Slots : Woken(d, w) => Woken(e, w)
<1> DEFINE claims == [d.claims EXCEPT ![c] = [d.claims[c] EXCEPT !.lapsed = TRUE]]
<1>1. d \in Tables /\ Worked(d) /\ Queued(d)
  BY DEF Sound
<1>2. e = [d EXCEPT !.claims = claims]
  BY <1>1 DEF Tables, ClaimRow
<1>3. ASSUME NEW b \in Claims
      PROVE  /\ claims[b] \in ClaimRow
             /\ claims[b].status = d.claims[b].status
             /\ claims[b].slot = d.claims[b].slot
             /\ claims[b].generation = d.claims[b].generation
             /\ claims[b].units = d.claims[b].units
  <2>1. d.claims[b] \in ClaimRow
    BY <1>1 DEF Tables
  <2> QED BY <2>1, <1>1 DEF ClaimRow, Tables
<1>4. claims \in [Claims -> ClaimRow]
  BY <1>1, <1>3 DEF Tables
<1>5. e.claims = claims
  BY <1>1, <1>2 DEF Tables
<1> HIDE DEF claims
<1>6. e \in Tables
  BY <1>1, <1>2, <1>4 DEF Tables
<1>7. /\ e.slots = d.slots /\ e.stages = d.stages
      /\ e.ready = d.ready /\ e.wakeups = d.wakeups
  BY <1>1, <1>2 DEF Tables
<1>8. Worked(e)
  <2>0. OfNewest(d) /\ OnePerSlot(d)
    BY <1>1 DEF Worked
  <2>n. OfNewest(e)
    BY <1>3, <1>5, <1>7, <2>0 DEF OfNewest, Active
  <2>o. OnePerSlot(e)
    BY <1>3, <1>5, <2>0 DEF OnePerSlot, Active
  <2>2. UnitsHeld(e)
    BY <1>1, <1>3, <1>5, <1>7 DEF Worked, UnitsHeld, Active
  <2>3. HeldByClaim(e)
    BY <1>1, <1>3, <1>5, <1>7 DEF Worked, HeldByClaim, Active
  <2> QED BY <2>n, <2>o, <2>2, <2>3 DEF Worked
<1>9. Queued(e) /\ \A k : Ready(e, k) = Ready(d, k)
  BY <1>1, <1>7, SameQueue
<1> QED BY <1>6, <1>7, <1>8, <1>9, QueuesKeep

-----------------------------------------------------------------------------
(* The wakeup controller *)

LEMMA WakeupsKeep ==
    ASSUME NEW d, Sound(d), NEW e \in Tables,
           e.slots = d.slots, e.stages = d.stages, e.claims = d.claims, e.ready = d.ready
    PROVE  Sound(e) /\ \A k : Ready(e, k) = Ready(d, k)
<1>1. Worked(d) /\ Queued(d)
  BY DEF Sound
<1>2. Worked(e)
  BY <1>1, SameWork
<1>3. Queued(e) /\ \A k : Ready(e, k) = Ready(d, k)
  BY <1>1, SameQueue
<1> QED BY <1>2, <1>3, QueuesKeep

\* pendingWakeups suppresses no wakeup of a slot that waits and has work.
LEMMA SuppressedKeeps ==
    ASSUME NEW d, Sound(d), NEW w \in Slots, Woken(d, w), NEW due,
           NEW e, e = [d EXCEPT !.wakeups = @ \ {u \in due : ~Deliverable(d, u)}]
    PROVE  Sound(e) /\ e.slots = d.slots /\ Woken(e, w)
<1> DEFINE W == d.wakeups \ {u \in due : ~Deliverable(d, u)}
<1>1. W \in SUBSET Wakeup
  BY DEF Sound, Tables
<1>2. e = [d EXCEPT !.wakeups = W]
  OBVIOUS
<1>3. \A u \in d.wakeups : Deliverable(d, u) => u \in W
  OBVIOUS
<1> HIDE DEF W
<1>4. Sound(e) /\ e.slots = d.slots /\ e.wakeups = W /\ \A k : Ready(e, k) = Ready(d, k)
  <2>1. d \in Tables
    BY DEF Sound
  <2>2. /\ e \in Tables
        /\ e.slots = d.slots /\ e.stages = d.stages /\ e.claims = d.claims
        /\ e.ready = d.ready /\ e.wakeups = W
    BY <2>1, <1>1, <1>2 DEF Tables
  <2> QED BY <2>2, WakeupsKeep
<1>5. Sleeps(d, w)
  <2>1. Current(d, w) = {}
    BY WaitsIdle DEF Sound, Woken
  <2> QED BY <2>1 DEF Sleeps, Woken
<1>6. ASSUME Capable(w), Ready(d, Serves[w]) # {}
      PROVE  \E u \in W : u.slot = w /\ u.session = d.slots[w].generation /\ u.newest
  <2>1. PICK u \in d.wakeups : u.slot = w /\ u.session = d.slots[w].generation /\ u.newest
    BY <1>6 DEF Woken
  <2>2. Deliverable(d, u)
    BY <2>1, <1>5, <1>6 DEF Deliverable
  <2> QED BY <2>1, <2>2, <1>3
<1>7. Woken(e, w)
  BY <1>4, <1>6 DEF Woken
<1> QED BY <1>4, <1>7

\* markWakeupDelivered deletes no wakeup that is the newest.
LEMMA DeliveredKeeps ==
    ASSUME NEW d, Sound(d), NEW u \in d.wakeups,
           NEW e, e = [d EXCEPT !.wakeups = (@ \ {u}) \cup Delivered(u)]
    PROVE  /\ Sound(e) /\ e.slots = d.slots
           /\ \A w \in Slots : Woken(d, w) => Woken(e, w)
<1> DEFINE W == (d.wakeups \ {u}) \cup Delivered(u)
<1>1. u \in Wakeup /\ d.wakeups \subseteq Wakeup
  BY DEF Sound, Tables
<1>2. /\ Delivered(u) \subseteq Wakeup
      /\ u.newest => \E v \in Delivered(u) :
                        v.slot = u.slot /\ v.session = u.session /\ v.newest
  <2>1. [u EXCEPT !.state = "DELIVERED"] \in Wakeup
    BY <1>1 DEF Wakeup
  <2>2. /\ [u EXCEPT !.state = "DELIVERED"].slot = u.slot
        /\ [u EXCEPT !.state = "DELIVERED"].session = u.session
        /\ [u EXCEPT !.state = "DELIVERED"].newest = u.newest
    BY <1>1 DEF Wakeup
  <2> QED BY <2>1, <2>2 DEF Delivered
<1>3. W \in SUBSET Wakeup
  BY <1>1, <1>2
<1>4. e = [d EXCEPT !.wakeups = W]
  OBVIOUS
<1>5. /\ \A v \in d.wakeups : v # u => v \in W
      /\ Delivered(u) \subseteq W
  OBVIOUS
<1> HIDE DEF W
<1>6. Sound(e) /\ e.slots = d.slots /\ e.wakeups = W /\ \A k : Ready(e, k) = Ready(d, k)
  <2>1. d \in Tables
    BY DEF Sound
  <2>2. /\ e \in Tables
        /\ e.slots = d.slots /\ e.stages = d.stages /\ e.claims = d.claims
        /\ e.ready = d.ready /\ e.wakeups = W
    BY <2>1, <1>3, <1>4 DEF Tables
  <2> QED BY <2>2, WakeupsKeep
<1>7. ASSUME NEW w \in Slots, Woken(d, w)
      PROVE  Woken(e, w)
  <2>1. ASSUME Capable(w), Ready(d, Serves[w]) # {}
        PROVE  \E v \in W : v.slot = w /\ v.session = d.slots[w].generation /\ v.newest
    <3>1. PICK v \in d.wakeups : v.slot = w /\ v.session = d.slots[w].generation /\ v.newest
      BY <1>7, <2>1 DEF Woken
    <3>2. CASE v = u
      BY <3>1, <3>2, <1>2, <1>5
    <3>3. CASE v # u
      BY <3>1, <3>3, <1>5
    <3> QED BY <3>2, <3>3
  <2> QED BY <1>6, <1>7, <2>1 DEF Woken
<1> QED BY <1>6, <1>7

-----------------------------------------------------------------------------
(* Additions *)

\* The tables with the stages in new, before any is released.
Inserted(d, new) ==
    [d EXCEPT !.stages = [s \in Stages |->
        IF s \in new THEN [@[s] EXCEPT !.status = "PENDING"] ELSE @[s]]]

LEMMA AddedKeeps ==
    ASSUME NEW d, Sound(d), NEW new \in SUBSET Stages, new \cap Seeded(d) = {},
           NEW K, K = {DefinitionOf[s] : s \in new},
           NEW e, e = WithReadied(Inserted(d, new), new)
    PROVE  /\ Sound(Refreshed(e, K))
           /\ Refreshed(e, K).slots = d.slots
           /\ \A w \in Slots : Woken(d, w) => Woken(Refreshed(e, K), w)
<1> DEFINE f == Inserted(d, new)
           stages == [s \in Stages |->
                IF s \in new THEN [d.stages[s] EXCEPT !.status = "PENDING"] ELSE d.stages[s]]
<1>1. d \in Tables /\ Worked(d) /\ Queued(d) /\ CountRight(d)
  BY DEF Sound
<1>2. f = [d EXCEPT !.stages = stages]
  BY DEF Inserted
<1>3. ASSUME NEW s \in Stages
      PROVE  /\ stages[s] \in StageRow
             /\ IF s \in new
                THEN stages[s].status = "PENDING" /\ stages[s].attempts = d.stages[s].attempts
                ELSE stages[s] = d.stages[s]
  <2>1. d.stages[s] \in StageRow
    BY <1>1 DEF Tables
  <2> QED BY <2>1 DEF StageRow
<1>4. stages \in [Stages -> StageRow]
  BY <1>3
<1>5. f.stages = stages
  BY <1>1, <1>2 DEF Tables
<1> HIDE DEF stages
<1>6. f \in Tables
  BY <1>1, <1>2, <1>4 DEF Tables
<1>7. /\ f.slots = d.slots /\ f.claims = d.claims
      /\ f.ready = d.ready /\ f.wakeups = d.wakeups
  BY <1>1, <1>2 DEF Tables
<1>8. e = WithReadied(f, new)
  OBVIOUS
<1> HIDE DEF f
<1>9. ASSUME NEW s \in Stages
      PROVE  IF s \in new
             THEN /\ d.stages[s].status = "absent" /\ f.stages[s].status = "PENDING"
                  /\ f.stages[s].attempts = d.stages[s].attempts
             ELSE f.stages[s] = d.stages[s]
  BY <1>3, <1>5 DEF Seeded
<1>10. \A b \in Claims : d.claims[b].units \subseteq Stages
  BY <1>1 DEF Tables, ClaimRow
<1>11. \A s \in Stages :
        d.stages[s].status \in Held \/ f.stages[s].status \in Held => f.stages[s] = d.stages[s]
  BY <1>9 DEF Held
<1>12. Worked(f)
  <2>1. OfNewest(f) /\ OnePerSlot(f)
    BY <1>1, <1>7 DEF Worked, OfNewest, OnePerSlot, Active
  <2>2. UnitsHeld(f)
    BY <1>1, <1>7, <1>10, <1>11 DEF Worked, UnitsHeld, Active
  <2>3. HeldByClaim(f)
    BY <1>1, <1>7, <1>11 DEF Worked, HeldByClaim, Active
  <2> QED BY <2>1, <2>2, <2>3 DEF Worked
<1>13. \A s \in Stages : Completed(f, s) <=> Completed(d, s)
  BY <1>9 DEF Completed
<1>14. \A s \in Stages : Met(f, s) <=> Met(d, s)
  BY <1>13, StagesAssumption DEF Met
<1>15. AttemptsLeft(f)
  BY <1>1, <1>9 DEF Queued, AttemptsLeft
<1>16. ASSUME NEW s \in Seeded(f), s \notin new
       PROVE  f.stages[s].status = "PENDING" <=> ~Met(f, s)
  <2>1. s \in Seeded(d) /\ f.stages[s] = d.stages[s]
    BY <1>9, <1>16 DEF Seeded
  <2> QED BY <2>1, <1>1, <1>14 DEF Queued, PendingWaits, Seeded
<1>17. ASSUME NEW s \in Seeded(f), f.stages[s].status # "PENDING"
       PROVE  Met(f, s)
  BY <1>9, <1>16, <1>17 DEF Seeded
<1>18. Queued(e)
  BY <1>6, <1>8, <1>15, <1>16, <1>17, ReadiedQueued
<1>19. Worked(e)
  BY <1>6, <1>8, <1>12, ReadiedWorked
<1>20. /\ e \in Tables /\ e.slots = d.slots /\ e.ready = d.ready /\ e.wakeups = d.wakeups
       /\ \A s \in Stages \ new : e.stages[s] = f.stages[s]
  BY <1>6, <1>7, <1>8, ReadiedFields
<1>21. \A k \in Definitions \ K : Ready(e, k) = Ready(d, k)
  <2> SUFFICES ASSUME NEW k \in Definitions \ K PROVE Ready(e, k) = Ready(d, k)
    OBVIOUS
  <2>1. ASSUME NEW s \in Stages, DefinitionOf[s] = k PROVE e.stages[s] = d.stages[s]
    <3>1. s \notin new
      BY <2>1
    <3> QED BY <3>1, <1>9, <1>20
  <2> QED BY <2>1 DEF Ready
<1>22. Sound(Refreshed(e, K))
  BY <1>18, <1>19, <1>20, <1>21, RefreshedSound
<1>23. Refreshed(e, K).slots = d.slots
  BY <1>20, RefreshedFields
<1>24. ASSUME NEW w \in Slots, Woken(d, w)
       PROVE  Woken(Refreshed(e, K), w)
  <2>1. e.slots[w] = d.slots[w] /\ e.slots[w].state \in {"WAITING", "IDLE"}
    BY <1>20, <1>24 DEF Woken
  <2>2. Current(e, w) = {}
    BY <1>19, <2>1, WaitsIdle
  <2> QED BY <1>1, <1>20, <1>21, <1>24, <2>1, <2>2, RefreshedWoken
<1> QED BY <1>22, <1>23, <1>24

-----------------------------------------------------------------------------
(* The answer NO_WORK_AVAILABLE *)

\* The query passes over no stage that is ready, and its first is eligible: a slot
\* that can do all the work of its definition is refused only if there is none.
LEMMA EligibleIfReady ==
    ASSUME NEW d, Sound(d), NEW w \in Slots, NEW n \in Nat \ {0},
           Capable(w), Ready(d, Serves[w]) # {}
    PROVE  Eligible(d, w, n) # {}
<1> DEFINE C == Candidates(d, w)
           Below(s) == {t \in C : Rank[t] < Rank[s]}
           Belows == {Below(s) : s \in C}
           R == StrictSubsetOrdering(Stages)
<1>1. C = Ready(d, Serves[w])
  BY DEF Candidates, Ready, Sound, Queued, AttemptsLeft
<1>2. C \subseteq Stages
  BY <1>1 DEF Ready
<1>3. IsFiniteSet(Stages) /\ \A s \in Stages : Rank[s] \in Nat
  BY StagesAssumption
<1>4. Belows \subseteq FiniteSubsetsOf(Stages)
  <2>1. FiniteSubsetsOf(Stages) = SUBSET Stages
    BY <1>3, FS_FiniteSubsetsOfFinite
  <2> QED BY <2>1, <1>2
<1>5. Belows # {}
  BY <1>1
<1>6. PICK least \in Belows : \A y \in Belows : <<y, least>> \notin R
  <2>1. IsWellFoundedOn(R, FiniteSubsetsOf(Stages))
    BY FS_StrictSubsetOrderingWellFounded
  <2> HIDE DEF R, Belows
  <2> QED BY <2>1, <1>4, <1>5, WFMin
<1>7. PICK s \in C : least = Below(s)
  BY <1>6
<1>8. Below(s) = {}
  <2> SUFFICES ASSUME NEW t \in Below(s) PROVE FALSE
    OBVIOUS
  <2>1. t \in C /\ Rank[t] < Rank[s]
    OBVIOUS
  <2>2. \A x \in C : Rank[x] < Rank[t] => Rank[x] < Rank[s]
    BY <2>1, <1>2, <1>3
  <2>3. t \notin Below(t)
    BY <2>1, <1>2, <1>3
  <2>4. Below(t) \subseteq Below(s) /\ Below(t) # Below(s)
    BY <2>2, <2>3
  <2>5. <<Below(t), least>> \in R
    BY <2>4, <1>2, <1>7 DEF StrictSubsetOrdering
  <2> QED BY <2>1, <2>5, <1>6
<1>9. Cardinality(Below(s)) < n
  BY <1>8, FS_EmptySet
<1>10. CapabilityOf[s] \in Can[w]
  BY <1>1, <1>2 DEF Capable, Ready
<1> QED BY <1>9, <1>10 DEF Eligible

-----------------------------------------------------------------------------
(* Steps *)

\* A step keeps the invariant when it ends in sound tables in which the slots of T
\* that still wait have their wakeups.
LEMMA BecomesKeeps ==
    ASSUME NEW d, Sound(d), NEW T \in SUBSET Slots,
           \A v \in T : d.slots[v].state = "WAITING" => Woken(d, v),
           Becomes(d, T)
    PROVE  IInv'
<1>1. db' = d /\ told' = {w \in T : d.slots[w].state = "WAITING"}
  BY DEF Becomes
<1>2. told' \subseteq Slots
  BY <1>1
<1>3. Sound(db')
  BY <1>1
<1>4. \A w \in told' : Woken(db', w)
  BY <1>1
<1> QED BY <1>2, <1>3, <1>4 DEF IInv

\* A change of the slot w only.
LEMMA SlotKeeps ==
    ASSUME NEW d, Sound(d), NEW w \in Slots, NEW e \in Tables,
           e.stages = d.stages, e.claims = d.claims, e.ready = d.ready, e.wakeups = d.wakeups,
           \A v \in Slots \ {w} : e.slots[v] = d.slots[v],
           \/ Current(d, w) = {}
           \/ /\ e.slots[w].generation = d.slots[w].generation
              /\ e.slots[w].state \in {"ACTIVE", "ROTATING"}
    PROVE  /\ Sound(e)
           /\ \A v \in Slots \ {w} : Woken(d, v) => Woken(e, v)
<1>1. ASSUME NEW v \in Slots, Current(d, v) # {}
      PROVE  /\ e.slots[v].generation = d.slots[v].generation
             /\ e.slots[v].state \in {"ACTIVE", "ROTATING"}
  <2>1. CASE v = w
    BY <1>1, <2>1
  <2>2. CASE v # w
    BY <1>1, <2>2 DEF Sound, Worked, OfNewest, Active, Current
  <2> QED BY <2>1, <2>2
<1> QED BY <1>1, SlotsKeep

LEMMA InitSound == Init => IInv
<1> SUFFICES ASSUME Init PROVE IInv
  OBVIOUS
<1> DEFINE stages == [s \in Stages |->
                        [status |-> "absent", claim |-> NoClaim, attempts |-> 0]]
           claims == [c \in Claims |-> NoClaimRow("none")]
           slots == [w \in Slots |->
                        [generation |-> 1, state |-> "IDLE", session |-> "none", done |-> 0]]
           ready == [k \in Definitions |-> 0]
<1>1. db = [stages |-> stages, claims |-> claims, slots |-> slots, ready |-> ready,
            wakeups |-> {}, run |-> "ACTIVE"]
  BY DEF Init
<1>2. stages \in [Stages -> StageRow]
  BY DEF StageRow, Held
<1>3. claims \in [Claims -> ClaimRow]
  BY NoClaimRowType
<1>4. slots \in [Slots -> SlotRow]
  BY DEF SlotRow
<1>5. ready \in [Definitions -> Nat]
  OBVIOUS
<1>6. /\ \A s \in Stages : stages[s].status = "absent" /\ stages[s].attempts = 0
      /\ \A c \in Claims : claims[c].status = "none"
      /\ \A k \in Definitions : ready[k] = 0
  BY NoClaimRowType
<1> HIDE DEF stages, claims, slots, ready
<1>7. db \in Tables
  BY <1>1, <1>2, <1>3, <1>4, <1>5 DEF Tables
<1>8. /\ \A s \in Stages : db.stages[s].status = "absent" /\ db.stages[s].attempts = 0
      /\ \A c \in Claims : ~Active(db, c)
      /\ \A k \in Definitions : db.ready[k] = 0
  BY <1>1, <1>6 DEF Active
<1>9. Worked(db)
  BY <1>8 DEF Worked, OfNewest, OnePerSlot, UnitsHeld, HeldByClaim, Held
<1>10. Queued(db)
  BY <1>8 DEF Queued, AttemptsLeft, PendingWaits, Seeded
<1>11. CountRight(db)
  <2>1. \A k \in Definitions : Ready(db, k) = {}
    BY <1>8 DEF Ready
  <2> QED BY <2>1, <1>8, FS_EmptySet DEF CountRight
<1>12. told = {}
  BY DEF Init
<1> QED BY <1>7, <1>9, <1>10, <1>11, <1>12 DEF IInv, Sound

LEMMA AddWorkItemsKeeps ==
    ASSUME IInv, NEW I \in SUBSET Items, AddWorkItems(I)
    PROVE  IInv'
<1> DEFINE new == StagesOf(I)
           K == {DefinitionOf[s] : s \in new}
           e == WithReadied(Inserted(db, new), new)
<1>1. new \in SUBSET Stages /\ new \cap Seeded(db) = {}
  BY DEF AddWorkItems, StagesOf
<1>2. Becomes(Refreshed(e, K), told)
  BY DEF AddWorkItems, Inserted
<1>3. Sound(db) /\ told \subseteq Slots /\ \A v \in told : Woken(db, v)
  BY DEF IInv
<1> HIDE DEF new
<1>4. /\ Sound(Refreshed(e, K))
      /\ \A v \in Slots : Woken(db, v) => Woken(Refreshed(e, K), v)
  BY <1>1, <1>3, AddedKeeps
<1> QED BY <1>2, <1>3, <1>4, BecomesKeeps

\* The tables after openPhysicalSession, and after a rotation that is not put off.
Opened(d, w) == [WithSlot(d, w, "ACTIVE", "STARTING") EXCEPT !.slots[w].done = 0]

LEMMA OpenedFields ==
    ASSUME NEW d \in Tables, NEW w \in Slots
    PROVE  /\ Opened(d, w) \in Tables
           /\ Opened(d, w).stages = d.stages /\ Opened(d, w).claims = d.claims
           /\ Opened(d, w).ready = d.ready /\ Opened(d, w).wakeups = d.wakeups
           /\ Opened(d, w).slots[w].state = "ACTIVE"
           /\ Opened(d, w).slots[w].generation = d.slots[w].generation
           /\ \A v \in Slots \ {w} : Opened(d, w).slots[v] = d.slots[v]
<1> DEFINE e == Opened(d, w)
           f == WithSlot(d, w, "ACTIVE", "STARTING")
           k == [f.slots EXCEPT ![w] = [f.slots[w] EXCEPT !.done = 0]]
<1>1. /\ f \in Tables
      /\ f.stages = d.stages /\ f.claims = d.claims
      /\ f.ready = d.ready /\ f.wakeups = d.wakeups
      /\ f.slots[w].state = "ACTIVE"
      /\ f.slots[w].generation = d.slots[w].generation
      /\ \A v \in Slots \ {w} : f.slots[v] = d.slots[v]
  <2>1. "ACTIVE" \in SlotStates /\ "STARTING" \in SessionStates
    BY StateNames
  <2> QED BY <2>1, WithSlotFields
<1>2. e = [f EXCEPT !.slots[w].done = 0]
  BY DEF Opened
<1> HIDE DEF f, e
<1>3. e = [f EXCEPT !.slots = k]
  BY <1>1, <1>2 DEF Tables, SlotRow
<1>4. f.slots \in [Slots -> SlotRow]
  BY <1>1 DEF Tables
<1>5. /\ k \in [Slots -> SlotRow]
      /\ k[w].state = f.slots[w].state
      /\ k[w].generation = f.slots[w].generation
      /\ \A v \in Slots \ {w} : k[v] = f.slots[v]
  BY <1>4 DEF SlotRow
<1> HIDE DEF k
<1>6. /\ e \in Tables
      /\ e.stages = f.stages /\ e.claims = f.claims
      /\ e.ready = f.ready /\ e.wakeups = f.wakeups /\ e.slots = k
  BY <1>1, <1>3, <1>5 DEF Tables
<1>7. /\ e \in Tables
      /\ e.stages = d.stages /\ e.claims = d.claims
      /\ e.ready = d.ready /\ e.wakeups = d.wakeups
      /\ e.slots[w].state = "ACTIVE"
      /\ e.slots[w].generation = d.slots[w].generation
      /\ \A v \in Slots \ {w} : e.slots[v] = d.slots[v]
  BY <1>1, <1>5, <1>6
<1> QED BY <1>7 DEF e

LEMMA RotatedFields ==
    ASSUME NEW d \in Tables, NEW w \in Slots
    PROVE  /\ Rotated(d, w) \in Tables
           /\ Rotated(d, w).stages = d.stages /\ Rotated(d, w).claims = d.claims
           /\ Rotated(d, w).ready = d.ready /\ Rotated(d, w).wakeups = d.wakeups
           /\ Rotated(d, w).slots[w].state = "ACTIVE"
           /\ \A v \in Slots \ {w} : Rotated(d, w).slots[v] = d.slots[v]
<1> DEFINE e == Rotated(d, w)
           f == WithSlot(d, w, "ACTIVE", "STARTING")
           k == [f.slots EXCEPT ![w] =
                    [f.slots[w] EXCEPT !.generation = f.slots[w].generation + 1, !.done = 0]]
<1>1. /\ f \in Tables
      /\ f.stages = d.stages /\ f.claims = d.claims
      /\ f.ready = d.ready /\ f.wakeups = d.wakeups
      /\ f.slots[w].state = "ACTIVE"
      /\ \A v \in Slots \ {w} : f.slots[v] = d.slots[v]
  <2>1. "ACTIVE" \in SlotStates /\ "STARTING" \in SessionStates
    BY StateNames
  <2> QED BY <2>1, WithSlotFields
<1>2. e = [f EXCEPT !.slots[w].generation = @ + 1, !.slots[w].done = 0]
  BY DEF Rotated
<1> HIDE DEF f, e
<1>3. e = [f EXCEPT !.slots = k]
  BY <1>1, <1>2 DEF Tables, SlotRow
<1>4. f.slots \in [Slots -> SlotRow] /\ f.slots[w].generation + 1 \in Nat
  <2>1. f.slots \in [Slots -> SlotRow]
    BY <1>1 DEF Tables
  <2>2. f.slots[w].generation \in Nat
    BY <2>1 DEF SlotRow
  <2> QED BY <2>1, <2>2
<1>5. /\ k \in [Slots -> SlotRow]
      /\ k[w].state = f.slots[w].state
      /\ \A v \in Slots \ {w} : k[v] = f.slots[v]
  BY <1>4 DEF SlotRow
<1> HIDE DEF k
<1>6. /\ e \in Tables
      /\ e.stages = f.stages /\ e.claims = f.claims
      /\ e.ready = f.ready /\ e.wakeups = f.wakeups /\ e.slots = k
  BY <1>1, <1>3, <1>5 DEF Tables
<1>7. /\ e \in Tables
      /\ e.stages = d.stages /\ e.claims = d.claims
      /\ e.ready = d.ready /\ e.wakeups = d.wakeups
      /\ e.slots[w].state = "ACTIVE"
      /\ \A v \in Slots \ {w} : e.slots[v] = d.slots[v]
  BY <1>1, <1>5, <1>6
<1> QED BY <1>7 DEF e

\* The tables that most calls begin with: the leases that lapsed have been expired.
LEMMA AfterLapsed ==
    ASSUME IInv, NEW d, d = Expired(db, Lapsed(db))
    PROVE  /\ Sound(d) /\ d.slots = db.slots
           /\ told \subseteq Slots
           /\ \A v \in told : Woken(d, v)
<1>1. Sound(db) /\ told \subseteq Slots /\ \A v \in told : Woken(db, v)
  BY DEF IInv
<1> QED BY <1>1, LapsedKeeps

LEMMA OpenPhysicalSessionKeeps ==
    ASSUME IInv, NEW w \in Slots, OpenPhysicalSession(w)
    PROVE  IInv'
<1> DEFINE d == Expired(db, Lapsed(db))
           e == Opened(d, w)
<1>1. Becomes(e, told)
  BY DEF OpenPhysicalSession, Opened
<1>2. /\ Sound(d) /\ d.slots = db.slots
      /\ told \subseteq Slots /\ \A v \in told : Woken(d, v)
  BY AfterLapsed
<1> HIDE DEF d
<1>3. /\ e \in Tables
      /\ e.stages = d.stages /\ e.claims = d.claims
      /\ e.ready = d.ready /\ e.wakeups = d.wakeups
      /\ e.slots[w].state = "ACTIVE"
      /\ e.slots[w].generation = d.slots[w].generation
      /\ \A v \in Slots \ {w} : e.slots[v] = d.slots[v]
  BY <1>2, OpenedFields DEF Sound
<1> HIDE DEF e
<1>4. Sound(e) /\ \A v \in Slots \ {w} : Woken(d, v) => Woken(e, v)
  BY <1>2, <1>3, SlotKeeps
<1>5. \A v \in told : e.slots[v].state = "WAITING" => Woken(e, v)
  BY <1>2, <1>3, <1>4
<1> QED BY <1>1, <1>2, <1>4, <1>5, BecomesKeeps

LEMMA RotatePhysicalSessionKeeps ==
    ASSUME IInv, NEW w \in Slots, RotatePhysicalSession(w)
    PROVE  IInv'
<1> DEFINE d == Expired(db, Lapsed(db))
<1>1. \/ Becomes(RotationPending(d, w), told)
      \/ Current(d, w) = {} /\ Becomes(Rotated(d, w), told)
  BY DEF RotatePhysicalSession
<1>2. /\ Sound(d) /\ d.slots = db.slots
      /\ told \subseteq Slots /\ \A v \in told : Woken(d, v)
  BY AfterLapsed
<1>3. d \in Tables
  BY <1>2 DEF Sound
<1> HIDE DEF d
<1>4. CASE Becomes(RotationPending(d, w), told)
  <2> DEFINE e == RotationPending(d, w)
  <2>1. PICK session \in SessionStates : e = WithSlot(d, w, "ROTATING", session)
    BY StateNames DEF RotationPending
  <2> HIDE DEF e
  <2> DEFINE f == WithSlot(d, w, "ROTATING", session)
  <2>2. session \in SessionStates /\ "ROTATING" \in SlotStates
    BY <2>1, StateNames
  <2>3. /\ f \in Tables
        /\ f.stages = d.stages /\ f.claims = d.claims
        /\ f.ready = d.ready /\ f.wakeups = d.wakeups
        /\ f.slots[w].state = "ROTATING"
        /\ f.slots[w].generation = d.slots[w].generation
        /\ \A v \in Slots \ {w} : f.slots[v] = d.slots[v]
    BY <1>3, <2>2, WithSlotFields
  <2> HIDE DEF f
  <2>4. e = f
    BY <2>1 DEF f
  <2>5. /\ e \in Tables
        /\ e.stages = d.stages /\ e.claims = d.claims
        /\ e.ready = d.ready /\ e.wakeups = d.wakeups
        /\ e.slots[w].state = "ROTATING"
        /\ e.slots[w].generation = d.slots[w].generation
        /\ \A v \in Slots \ {w} : e.slots[v] = d.slots[v]
    BY <2>3, <2>4
  <2>6. Sound(e) /\ \A v \in Slots \ {w} : Woken(d, v) => Woken(e, v)
    BY <1>2, <2>5, SlotKeeps
  <2>7. \A v \in told : e.slots[v].state = "WAITING" => Woken(e, v)
    BY <1>2, <2>5, <2>6
  <2>8. Becomes(e, told)
    BY <1>4 DEF e
  <2> QED BY <1>2, <2>6, <2>7, <2>8, BecomesKeeps
<1>5. CASE Current(d, w) = {} /\ Becomes(Rotated(d, w), told)
  <2> DEFINE e == Rotated(d, w)
  <2>1. /\ e \in Tables
        /\ e.stages = d.stages /\ e.claims = d.claims
        /\ e.ready = d.ready /\ e.wakeups = d.wakeups
        /\ e.slots[w].state = "ACTIVE"
        /\ \A v \in Slots \ {w} : e.slots[v] = d.slots[v]
    BY <1>3, RotatedFields
  <2>2. Becomes(e, told)
    BY <1>5
  <2> HIDE DEF e
  <2>3. Sound(e) /\ \A v \in Slots \ {w} : Woken(d, v) => Woken(e, v)
    BY <1>2, <1>5, <2>1, SlotKeeps
  <2>4. \A v \in told : e.slots[v].state = "WAITING" => Woken(e, v)
    BY <1>2, <2>1, <2>3
  <2> QED BY <1>2, <2>2, <2>3, <2>4, BecomesKeeps
<1> QED BY <1>1, <1>4, <1>5

LEMMA BootstrapWorkerKeeps ==
    ASSUME IInv, NEW w \in Slots, NEW g, BootstrapWorker(w, g)
    PROVE  IInv'
<1> DEFINE e == WithSlot(db, w, "ACTIVE", "ACTIVE")
<1>1. Becomes(e, told)
  BY DEF BootstrapWorker
<1>2. Sound(db) /\ told \subseteq Slots /\ \A v \in told : Woken(db, v)
  BY DEF IInv
<1>3. db \in Tables
  BY <1>2 DEF Sound
<1>4. /\ e \in Tables
      /\ e.stages = db.stages /\ e.claims = db.claims
      /\ e.ready = db.ready /\ e.wakeups = db.wakeups
      /\ e.slots[w].state = "ACTIVE"
      /\ e.slots[w].generation = db.slots[w].generation
      /\ \A v \in Slots \ {w} : e.slots[v] = db.slots[v]
  <2>1. "ACTIVE" \in SlotStates /\ "ACTIVE" \in SessionStates
    BY StateNames
  <2> QED BY <1>3, <2>1, WithSlotFields
<1> HIDE DEF e
<1>5. Sound(e) /\ \A v \in Slots \ {w} : Woken(db, v) => Woken(e, v)
  BY <1>2, <1>4, SlotKeeps
<1>6. \A v \in told : e.slots[v].state = "WAITING" => Woken(e, v)
  BY <1>2, <1>4, <1>5
<1> QED BY <1>1, <1>2, <1>5, <1>6, BecomesKeeps

\* recoverWorker and expireLeases.
LEMMA ExpireKeeps ==
    ASSUME IInv, Becomes(Expired(db, Lapsed(db)), told)
    PROVE  IInv'
BY AfterLapsed, BecomesKeeps

LEMMA ClaimWorkKeeps ==
    ASSUME IInv, NEW w \in Slots, NEW g, NEW n \in 1..Batch[w], ClaimWork(w, g, n)
    PROVE  IInv'
<1> DEFINE d == Expired(db, Lapsed(db))
<1>1. /\ IdsLeft(d, w, n)
      /\ \/ MayClaim(d, w, n) /\ Becomes(Claimed(d, w, n), told)
         \/ /\ ~MayClaim(d, w, n)
            /\ Becomes(WithSlot(d, w, "WAITING", "WAITING"),
                       IF d.slots[w].state = "ROTATING" THEN told ELSE told \cup {w})
  BY DEF ClaimWork
<1>2. Sound(d) /\ told \subseteq Slots /\ \A v \in told : Woken(d, v)
  BY AfterLapsed
<1>3. d \in Tables
  BY <1>2 DEF Sound
<1>4. n \in Nat \ {0}
  BY SlotsAssumption
<1> HIDE DEF d
<1>5. CASE MayClaim(d, w, n) /\ Becomes(Claimed(d, w, n), told)
  <2> DEFINE e == Claimed(d, w, n)
  <2>1. /\ Sound(e)
        /\ e.slots[w].state \in {"ACTIVE", "ROTATING"}
        /\ \A v \in Slots \ {w} : Woken(d, v) => Woken(e, v)
    BY <1>1, <1>2, <1>5, ClaimedKeeps
  <2>2. Becomes(e, told)
    BY <1>5
  <2> HIDE DEF e
  <2>3. \A v \in told : e.slots[v].state = "WAITING" => Woken(e, v)
    BY <1>2, <2>1
  <2> QED BY <1>2, <2>1, <2>2, <2>3, BecomesKeeps
<1>6. CASE /\ ~MayClaim(d, w, n)
           /\ Becomes(WithSlot(d, w, "WAITING", "WAITING"),
                      IF d.slots[w].state = "ROTATING" THEN told ELSE told \cup {w})
  <2> DEFINE e == WithSlot(d, w, "WAITING", "WAITING")
             T == IF d.slots[w].state = "ROTATING" THEN told ELSE told \cup {w}
  <2>1. /\ e \in Tables
        /\ e.stages = d.stages /\ e.claims = d.claims
        /\ e.ready = d.ready /\ e.wakeups = d.wakeups
        /\ e.slots[w].state = "WAITING" /\ e.slots[w].session = "WAITING"
        /\ \A v \in Slots \ {w} : e.slots[v] = d.slots[v]
    <3>1. "WAITING" \in SlotStates /\ "WAITING" \in SessionStates
      BY StateNames
    <3> QED BY <1>3, <3>1, WithSlotFields
  <2>2. Becomes(e, T)
    BY <1>6
  <2> HIDE DEF e
  <2>3. Current(d, w) = {}
    <3>1. Own(d, w) = Current(d, w)
      BY <1>2, CurrentIsOwn DEF Sound
    <3> QED BY <3>1, <1>6 DEF MayClaim
  <2>4. Sound(e) /\ \A v \in Slots \ {w} : Woken(d, v) => Woken(e, v)
    BY <1>2, <2>1, <2>3, SlotKeeps
  <2>5. ASSUME w \in T
        PROVE  Woken(e, w)
    <3>1. d.slots[w].state # "ROTATING"
      BY <1>2, <2>5 DEF Woken
    <3>2. Eligible(d, w, n) = {}
      BY <3>1, <1>6 DEF MayClaim, Grantable
    <3>3. ~(Capable(w) /\ Ready(d, Serves[w]) # {})
      BY <3>2, <1>2, <1>4, EligibleIfReady
    <3>4. Ready(e, Serves[w]) = Ready(d, Serves[w])
      BY <2>1, SameQueue
    <3> QED BY <3>3, <3>4, <2>1 DEF Woken
  <2>6. T \in SUBSET Slots
    BY <1>2
  <2>7. \A v \in T : e.slots[v].state = "WAITING" => Woken(e, v)
    <3> SUFFICES ASSUME NEW v \in T PROVE Woken(e, v)
      OBVIOUS
    <3>1. CASE v = w
      BY <3>1, <2>5
    <3>2. CASE v # w
      BY <3>2, <1>2, <2>4
    <3> QED BY <3>1, <3>2
  <2> HIDE DEF T
  <2> QED BY <2>2, <2>4, <2>6, <2>7, BecomesKeeps
<1> QED BY <1>1, <1>5, <1>6

\* Who holds a claim is not waiting.
LEMMA HolderActive ==
    ASSUME IInv, NEW w \in Slots, NEW g, NEW c \in Claims, Holds(w, g, c)
    PROVE  /\ Active(db, c) /\ db.claims[c].slot = w
           /\ told \subseteq Slots \ {w}
<1>1. Active(db, c) /\ db.claims[c].slot = w
  BY DEF Holds, Active
<1>2. db.slots[w].state \in {"ACTIVE", "ROTATING"}
  BY <1>1 DEF IInv, Sound, Worked, OfNewest
<1>3. w \notin told
  BY <1>2 DEF IInv, Woken
<1> QED BY <1>1, <1>3 DEF IInv

LEMMA ReportProgressKeeps ==
    ASSUME IInv, NEW w \in Slots, NEW g, NEW c \in Claims, ReportProgress(w, g, c)
    PROVE  IInv'
<1> DEFINE e == [db EXCEPT !.stages = [s \in Stages |->
                    IF s \in db.claims[c].units /\ @[s].status = "CLAIMED"
                    THEN [@[s] EXCEPT !.status = "RUNNING"] ELSE @[s]]]
<1>1. Holds(w, g, c) /\ Becomes(e, told)
  BY DEF ReportProgress
<1>2. Active(db, c)
  BY <1>1, HolderActive
<1>3. Sound(db) /\ told \subseteq Slots /\ \A v \in told : Woken(db, v)
  BY DEF IInv
<1>4. \E f : f = e
  OBVIOUS
<1>5. PICK f : f = e
  BY <1>4
<1>6. Sound(f) /\ \A v \in Slots : Woken(db, v) => Woken(f, v)
  BY <1>2, <1>3, <1>5, ProgressKeeps
<1>7. Becomes(f, told)
  BY <1>1, <1>5
<1> HIDE DEF e
<1> QED BY <1>3, <1>6, <1>7, BecomesKeeps

LEMMA CommitAndClaimNextKeeps ==
    ASSUME IInv, NEW w \in Slots, NEW g, NEW c \in Claims, NEW n,
           CommitAndClaimNext(w, g, c, n)
    PROVE  IInv'
<1> DEFINE units == db.claims[c].units
           d == Counted(Committed(db, c), w, units)
           next == IF Spent(d, w) THEN WithSlot(d, w, "ROTATING", "ROTATING")
                   ELSE IF MayClaim(d, w, n) THEN Claimed(d, w, n) ELSE d
           e == WithRunStatus(next)
<1>1. /\ Holds(w, g, c)
      /\ Spent(d, w) \/ IdsLeft(d, w, n)
      /\ Becomes(e, told)
  BY DEF CommitAndClaimNext
<1>2. Active(db, c) /\ told \subseteq Slots \ {w}
  BY <1>1, HolderActive
<1>3. Sound(db) /\ \A v \in told : Woken(db, v)
  BY DEF IInv
<1>4. Sound(Committed(db, c)) /\ \A v \in told : Woken(Committed(db, c), v)
  BY <1>2, <1>3, CommittedKeeps
<1>5. units \in SUBSET Stages
  BY <1>3 DEF Sound, Tables, ClaimRow
<1> HIDE DEF units
<1>6. Sound(d) /\ \A v \in told : Woken(d, v)
  BY <1>2, <1>4, <1>5, CountedKeeps
<1>7. d \in Tables
  BY <1>6 DEF Sound
<1> HIDE DEF d
<1>8. Sound(next) /\ \A v \in told : Woken(next, v)
  <2>1. CASE Spent(d, w)
    <3> DEFINE f == WithSlot(d, w, "ROTATING", "ROTATING")
    <3>1. /\ f \in Tables
          /\ f.stages = d.stages /\ f.claims = d.claims
          /\ f.ready = d.ready /\ f.wakeups = d.wakeups
          /\ f.slots[w].state = "ROTATING"
          /\ f.slots[w].generation = d.slots[w].generation
          /\ \A v \in Slots \ {w} : f.slots[v] = d.slots[v]
      <4>1. "ROTATING" \in SlotStates /\ "ROTATING" \in SessionStates
        BY StateNames
      <4> QED BY <1>7, <4>1, WithSlotFields
    <3>2. next = f
      BY <2>1
    <3> HIDE DEF f
    <3>3. Sound(f) /\ \A v \in Slots \ {w} : Woken(d, v) => Woken(f, v)
      BY <1>6, <3>1, SlotKeeps
    <3> QED BY <1>2, <1>6, <3>2, <3>3
  <2>2. CASE ~Spent(d, w) /\ MayClaim(d, w, n)
    <3>1. next = Claimed(d, w, n) /\ IdsLeft(d, w, n)
      BY <1>1, <2>2
    <3>2. /\ Sound(Claimed(d, w, n))
          /\ \A v \in Slots \ {w} : Woken(d, v) => Woken(Claimed(d, w, n), v)
      BY <1>6, <2>2, <3>1, ClaimedKeeps
    <3> QED BY <1>2, <1>6, <3>1, <3>2
  <2>3. CASE ~Spent(d, w) /\ ~MayClaim(d, w, n)
    BY <1>6, <2>3
  <2> QED BY <2>1, <2>2, <2>3
<1> HIDE DEF next
<1>9. Sound(e) /\ \A v \in told : Woken(e, v)
  BY <1>2, <1>8, RunStatusKeeps
<1>10. told \in SUBSET Slots
  BY <1>2
<1> HIDE DEF e
<1> QED BY <1>1, <1>9, <1>10, BecomesKeeps

LEMMA ReportBlockedKeeps ==
    ASSUME IInv, NEW w \in Slots, NEW g, NEW c \in Claims, NEW disposition \in Dispositions,
           ReportBlocked(w, g, c, disposition)
    PROVE  IInv'
<1> DEFINE e == WithSlot(Stopped(db, c, disposition), w, "WAITING", "WAITING")
           K == {Serves[w]}
<1>1. Holds(w, g, c) /\ Becomes(Refreshed(e, K), told)
  BY DEF ReportBlocked, Stopped
<1>2. Active(db, c) /\ db.claims[c].slot = w /\ told \subseteq Slots \ {w}
  BY <1>1, HolderActive
<1>3. Sound(db) /\ \A v \in told : Woken(db, v)
  BY DEF IInv
<1>4. /\ Sound(Refreshed(e, K))
      /\ \A v \in Slots \ {w} : Woken(db, v) => Woken(Refreshed(e, K), v)
  BY <1>2, <1>3, StoppedKeeps
<1>5. told \in SUBSET Slots
  BY <1>2
<1> HIDE DEF e, K
<1> QED BY <1>1, <1>2, <1>3, <1>4, <1>5, BecomesKeeps

LEMMA LapseStepKeeps ==
    ASSUME IInv, NEW c \in Claims, Lapse(c)
    PROVE  IInv'
<1>1. PICK e : e = [db EXCEPT !.claims[c].lapsed = TRUE]
  OBVIOUS
<1>2. Becomes(e, told)
  BY <1>1 DEF Lapse
<1>3. Sound(db) /\ told \subseteq Slots /\ \A v \in told : Woken(db, v)
  BY DEF IInv
<1>4. Sound(e) /\ \A v \in Slots : Woken(db, v) => Woken(e, v)
  BY <1>1, <1>3, LapseKeeps
<1> QED BY <1>2, <1>3, <1>4, BecomesKeeps

LEMMA PendingWakeupsKeeps ==
    ASSUME IInv, NEW due, PendingWakeups(due)
    PROVE  IInv'
<1>1. PICK e : e = [db EXCEPT !.wakeups = @ \ {u \in due : ~Deliverable(db, u)}]
  OBVIOUS
<1>2. Becomes(e, told)
  BY <1>1 DEF PendingWakeups
<1>3. Sound(db) /\ told \subseteq Slots /\ \A v \in told : Woken(db, v)
  BY DEF IInv
<1>4. \A v \in told : Woken(e, v)
  BY <1>1, <1>3, SuppressedKeeps
<1>5. Sound(e)
  <2>1. db \in Tables
    BY <1>3 DEF Sound
  <2>2. /\ e \in Tables
        /\ e.slots = db.slots /\ e.stages = db.stages /\ e.claims = db.claims
        /\ e.ready = db.ready
    BY <1>1, <2>1 DEF Tables
  <2> QED BY <1>3, <2>2, WakeupsKeep
<1> QED BY <1>2, <1>3, <1>4, <1>5, BecomesKeeps

LEMMA MarkWakeupDeliveredKeeps ==
    ASSUME IInv, NEW u \in Pending(db), MarkWakeupDelivered(u)
    PROVE  IInv'
<1>1. PICK e : e = [db EXCEPT !.wakeups = (@ \ {u}) \cup Delivered(u)]
  OBVIOUS
<1>2. Becomes(e, told)
  BY <1>1 DEF MarkWakeupDelivered
<1>3. Sound(db) /\ told \subseteq Slots /\ \A v \in told : Woken(db, v)
  BY DEF IInv
<1>4. u \in db.wakeups
  BY DEF Pending
<1>5. Sound(e) /\ \A v \in Slots : Woken(db, v) => Woken(e, v)
  BY <1>1, <1>3, <1>4, DeliveredKeeps
<1> QED BY <1>2, <1>3, <1>5, BecomesKeeps

\* The wakeup that is given up for a rotation is of an older session, or the slot
\* does not wait any more.
LEMMA RequireRotationForWakeupKeeps ==
    ASSUME IInv, NEW u \in Pending(db), RequireRotationForWakeup(u)
    PROVE  IInv'
<1> DEFINE w == u.slot
<1>1. PICK d : d = [db EXCEPT !.wakeups = @ \ {u}]
  OBVIOUS
<1>2. Becomes(IF u.session = d.slots[w].generation
              THEN WithSlot(d, w, "ROTATING", "ROTATING") ELSE d, told)
  BY <1>1 DEF RequireRotationForWakeup
<1>3. Sound(db) /\ told \subseteq Slots /\ \A v \in told : Woken(db, v)
  BY DEF IInv
<1>4. db \in Tables /\ w \in Slots
  BY <1>3 DEF Sound, Tables, Wakeup, Pending
<1> HIDE DEF w
<1>5. /\ d \in Tables
      /\ d.slots = db.slots /\ d.stages = db.stages /\ d.claims = db.claims
      /\ d.ready = db.ready /\ d.wakeups = db.wakeups \ {u}
  BY <1>1, <1>4 DEF Tables
<1>6. Sound(d) /\ \A k : Ready(d, k) = Ready(db, k)
  BY <1>3, <1>5, WakeupsKeep
<1>7. ASSUME NEW v \in told, v # w \/ u.session # d.slots[w].generation
      PROVE  Woken(d, v)
  <2>1. Woken(db, v)
    BY <1>3
  <2>2. ~(u.slot = v /\ u.session = d.slots[v].generation)
    BY <1>7 DEF w
  <2> QED BY <2>1, <2>2, <1>5, <1>6 DEF Woken
<1>8. CASE u.session = d.slots[w].generation
  <2> DEFINE e == WithSlot(d, w, "ROTATING", "ROTATING")
  <2>1. /\ e \in Tables
        /\ e.stages = d.stages /\ e.claims = d.claims
        /\ e.ready = d.ready /\ e.wakeups = d.wakeups
        /\ e.slots[w].state = "ROTATING"
        /\ e.slots[w].generation = d.slots[w].generation
        /\ \A v \in Slots \ {w} : e.slots[v] = d.slots[v]
    <3>1. "ROTATING" \in SlotStates /\ "ROTATING" \in SessionStates
      BY StateNames
    <3> QED BY <1>4, <1>5, <3>1, WithSlotFields
  <2>2. Becomes(e, told)
    BY <1>2, <1>8
  <2> HIDE DEF e
  <2>3. Sound(e) /\ \A v \in Slots \ {w} : Woken(d, v) => Woken(e, v)
    BY <1>4, <1>6, <2>1, SlotKeeps
  <2>4. \A v \in told : e.slots[v].state = "WAITING" => Woken(e, v)
    BY <1>3, <1>7, <2>1, <2>3
  <2> QED BY <1>3, <2>2, <2>3, <2>4, BecomesKeeps
<1>9. CASE u.session # d.slots[w].generation
  <2>1. Becomes(d, told)
    BY <1>2, <1>9
  <2>2. \A v \in told : Woken(d, v)
    BY <1>7, <1>9
  <2> QED BY <1>3, <1>6, <2>1, <2>2, BecomesKeeps
<1> QED BY <1>8, <1>9

-----------------------------------------------------------------------------
(* Theorems *)

LEMMA RequestKeeps ==
    ASSUME IInv, NEW w \in Slots, NEW g, Request(w, g)
    PROVE  IInv'
<1>1. CASE BootstrapWorker(w, g)
  BY <1>1, BootstrapWorkerKeeps
<1>2. CASE RecoverWorker(w, g)
  BY <1>2, ExpireKeeps DEF RecoverWorker
<1>3. CASE \E n \in 1..Batch[w] : ClaimWork(w, g, n)
  BY <1>3, ClaimWorkKeeps
<1>4. ASSUME NEW c \in Claims, ReportProgress(w, g, c)
      PROVE  IInv'
  BY <1>4, ReportProgressKeeps
<1>5. ASSUME NEW c \in Claims, NEW n \in 1..Batch[w], CommitAndClaimNext(w, g, c, n)
      PROVE  IInv'
  BY <1>5, CommitAndClaimNextKeeps
<1>6. ASSUME NEW c \in Claims, NEW disposition \in Dispositions,
             ReportBlocked(w, g, c, disposition)
      PROVE  IInv'
  BY <1>6, ReportBlockedKeeps
<1> QED BY <1>1, <1>2, <1>3, <1>4, <1>5, <1>6 DEF Request, Dispositions

LEMMA StutterKeeps ==
    ASSUME IInv, UNCHANGED vars
    PROVE  IInv'
<1>1. db' = db /\ told' = told
  BY DEF vars
<1>2. Sound(db')
  BY <1>1 DEF IInv
<1>3. \A w \in told' : Woken(db', w)
  BY <1>1 DEF IInv
<1>4. told' \subseteq Slots
  BY <1>1 DEF IInv
<1> QED BY <1>2, <1>3, <1>4 DEF IInv

\* The inductive invariant: every call of worker-runtime/v2, whoever makes it and
\* when, takes tables in which claims, stages, counts and wakeups agree to such tables.
THEOREM Inductive == Spec => []IInv
<1>1. IInv /\ [Next]_vars => IInv'
  <2> SUFFICES ASSUME IInv, [Next]_vars PROVE IInv'
    OBVIOUS
  <2>1. ASSUME NEW I \in SUBSET Items, AddWorkItems(I) PROVE IInv'
    BY <2>1, AddWorkItemsKeeps
  <2>2. ASSUME NEW w \in Slots, OpenPhysicalSession(w) PROVE IInv'
    BY <2>2, OpenPhysicalSessionKeeps
  <2>3. ASSUME NEW w \in Slots, RotatePhysicalSession(w) PROVE IInv'
    BY <2>3, RotatePhysicalSessionKeeps
  <2>4. ASSUME NEW w \in Slots, NEW g \in 1..MaxGeneration[w], Request(w, g) PROVE IInv'
    BY <2>4, RequestKeeps
  <2>5. ASSUME NEW c \in Claims, Lapse(c) PROVE IInv'
    BY <2>5, LapseStepKeeps
  <2>6. CASE ExpireLeases
    BY <2>6, ExpireKeeps DEF ExpireLeases
  <2>7. ASSUME NEW due \in SUBSET Pending(db), PendingWakeups(due) PROVE IInv'
    BY <2>7, PendingWakeupsKeeps
  <2>8. ASSUME NEW u \in Pending(db), MarkWakeupDelivered(u) PROVE IInv'
    BY <2>8, MarkWakeupDeliveredKeeps
  <2>9. ASSUME NEW u \in Pending(db), RequireRotationForWakeup(u) PROVE IInv'
    BY <2>9, RequireRotationForWakeupKeeps
  <2>10. CASE UNCHANGED vars
    BY <2>10, StutterKeeps
  <2> QED BY <2>1, <2>2, <2>3, <2>4, <2>5, <2>6, <2>7, <2>8, <2>9, <2>10 DEF Next
<1> QED BY <1>1, InitSound, PTL DEF Spec

\* The tables keep to their columns, and only slots are told that there is no work.
THEOREM TypeCorrect == Spec => []TypeOK
<1>1. IInv => TypeOK
  BY DEF IInv, Sound, TypeOK
<1> QED BY <1>1, Inductive, PTL

\* OneHolder: the stages of an active claim name it, a stage that is held names an
\* active claim that has it, and a slot has one active claim, of its newest session.
THEOREM OneHolderAlways == Spec => []OneHolder
<1>1. IInv => OneHolder
  <2> SUFFICES ASSUME IInv PROVE OneHolder
    OBVIOUS
  <2>1. db \in Tables /\ Worked(db)
    BY DEF IInv, Sound
  <2>2. Exclusive
    <3> SUFFICES ASSUME NEW s \in Stages
                 PROVE  LET holders == {c \in Claims : /\ db.claims[c].status = "ACTIVE"
                                                       /\ s \in db.claims[c].units}
                        IN  IF db.stages[s].status \in Held
                            THEN holders = {db.stages[s].claim} ELSE holders = {}
      BY DEF Exclusive
    <3> DEFINE holders == {c \in Claims : /\ db.claims[c].status = "ACTIVE"
                                          /\ s \in db.claims[c].units}
    <3>1. \A c \in holders : db.stages[s].status \in Held /\ db.stages[s].claim = c
      BY <2>1 DEF Worked, UnitsHeld, Active
    <3>2. db.stages[s].status \in Held => db.stages[s].claim \in holders
      BY <2>1 DEF Worked, HeldByClaim, Active
    <3> QED BY <3>1, <3>2
  <2>3. NotFenced
    <3> SUFFICES ASSUME NEW c \in Claims, db.claims[c].status = "ACTIVE"
                 PROVE  /\ db.claims[c].generation = db.slots[db.claims[c].slot].generation
                        /\ Current(db, db.claims[c].slot) = {c}
                        /\ db.slots[db.claims[c].slot].state \in {"ACTIVE", "ROTATING"}
      BY DEF NotFenced
    <3>1. \A e \in Current(db, db.claims[c].slot) : e = c
      BY <2>1 DEF Worked, OnePerSlot, Active, Current
    <3>2. c \in Current(db, db.claims[c].slot)
      BY DEF Current
    <3> QED BY <3>1, <3>2, <2>1 DEF Worked, OfNewest, Active
  <2> QED BY <2>2, <2>3 DEF OneHolder
<1> QED BY <1>1, Inductive, PTL

\* NothingStranded: what is pending waits for something, what is ready may be
\* claimed, and refreshWakeupsTx has counted it.
THEOREM NothingStrandedEver == Spec => []NothingStranded
<1>1. IInv => NothingStranded
  BY DEF IInv, Sound, Queued, AttemptsLeft, PendingWaits, CountRight, NothingStranded,
         Met, Seeded
<1> QED BY <1>1, Inductive, PTL

\* WaitingIsWoken: a slot that claim_work told to wait has a wakeup for what became
\* ready since, whatever others did in between.
THEOREM WaitingIsWokenAlways == Spec => []WaitingIsWoken
<1>1. IInv => WaitingIsWoken
  BY DEF IInv, Woken, WaitingIsWoken
<1> QED BY <1>1, Inductive, PTL

=============================================================================
