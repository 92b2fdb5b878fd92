----------------------------- MODULE MemorySync -----------------------------
(***************************************************************************)
(* The shared memory of a project: the queue, the cursor and the replica   *)
(* in the SQLite file of a device (apps/zero3-desktop/memory-sync-runtime) *)
(* and the event log of the memory server (apps/memory-server, with the    *)
(* functions and triggers of deployment/memory/migrations).                *)
(*                                                                         *)
(* Several processes of a device open the same file: the desktop, an MCP   *)
(* server per agent, the command line.  Each of them publishes events into *)
(* the queue, claims what is pending, posts it and writes the server's     *)
(* verdicts back, and each replays the server's log into the file behind   *)
(* one common cursor.                                                      *)
(*                                                                         *)
(* Abstractions.  One project and one device: events of another device     *)
(* enter the log as those of a process do whose request it has given up.   *)
(* An entity is a key: its version is the number of committed events about *)
(* it, its content is left out.  A statement on the file is atomic and     *)
(* durable.  Batches and pages are cut by a number of events only.  Of the *)
(* permanent refusals (a version conflict, a rejection) the version        *)
(* conflict is modelled; the client treats them alike.                     *)
(***************************************************************************)
EXTENDS Integers, FiniteSets

CONSTANTS
    Processes,   \* processes of the device
    Nobody,      \* the sender of a row, or the caller of a request, that is gone
    Events,      \* events published on the device
    Entities,    \* entities of the project that the events are about
    Slots,       \* requests the server may have before it
    MaxBatch,    \* the limit of a batch
    PageSize,    \* the limit of a page
    MaxTroubles  \* bound: lost answers, failed polls, interrupted transactions,
                 \* crashes of processes and pauses of a minute amid a request

ASSUME ProcessAssumption == Nobody \notin Processes
ASSUME EventsAssumption == IsFiniteSet(Events)
ASSUME BoundsAssumption ==
    /\ {MaxBatch, PageSize} \subseteq Nat \ {0}
    /\ MaxTroubles \in Nat

VARIABLES
    row,      \* pending_memory_events
    about,    \* the entity of every event
    base,     \* expected_entity_version of every published event
    cursor,   \* memory_sync_state
    cache,    \* server_memory_events
    alive,    \* the processes that run
    answer,   \* per process: the results of its last request it has still to store
    sub,      \* per process: its subscription
    posts,    \* the requests before the server
    issued,   \* the sequence behind BIGSERIAL
    log,      \* memory_events
    troubles

file == <<row, cursor, cache>>
server == <<posts, issued, log>>
vars == <<file, about, base, alive, answer, sub, server, troubles>>

-----------------------------------------------------------------------------
(* Data *)

Unset == -1

States == {"none", "pending", "sending", "acked", "refused"}

\* `id' is the rowid, `old' says that a row has been `sending' for a minute.
Row == [id: Nat, state: States, sender: Processes \cup {Nobody}, old: BOOLEAN, seq: Nat]

NoRow == [id |-> 0, state |-> "none", sender |-> Nobody, old |-> FALSE, seq |-> 0]

Committed == [seq: Nat \ {0}, event: Events]

Verdicts == {"accepted", "duplicate", "conflict", "retryable"}

Result == [event: Events, verdict: Verdicts, seq: Nat]

\* `todo' is left of the batch; `seq' is the sequence number of an open transaction.
Post == [by: Processes \cup {Nobody}, todo: SUBSET Events, seq: Nat,
         answers: SUBSET Result]

Free == [by |-> Nobody, todo |-> {}, seq |-> 0, answers |-> {}]

\* `at' and `awaiting' are those of the socket, `stored' says that the first
\* event of the page is in the file and the cursor is not yet moved.
Subscription == [at: Nat, page: SUBSET Committed, awaiting: Nat, stored: BOOLEAN]

\* A subscription that starts behind sequence n.
Hello(n) == [at |-> n, page |-> {}, awaiting |-> 0, stored |-> FALSE]

Trouble == troubles < MaxTroubles /\ troubles' = troubles + 1

Larger(a, b) == IF a < b THEN b ELSE a

\* The event of E that comes first in the order of the queue.
Leading(E) == {e \in E : \A f \in E : row[e].id <= row[f].id}

Entries(e) == {r \in log : r.event = e}

\* current_version of the entity of e
Version(e) == Cardinality({r \in log : about[r.event] = about[e]})

-----------------------------------------------------------------------------

Init ==
    /\ row = [e \in Events |-> NoRow]
    /\ about \in [Events -> Entities]
    /\ base = [e \in Events |-> Unset]
    /\ cursor = 0
    /\ cache = {}
    /\ alive = [p \in Processes |-> TRUE]
    /\ answer = [p \in Processes |-> {}]
    /\ sub = [p \in Processes |-> Hello(0)]
    /\ posts = [s \in Slots |-> Free]
    /\ issued = 0
    /\ log = {}
    /\ troubles = 0

-----------------------------------------------------------------------------
(* The queue *)

\* publish.  The author knows some version of the entity, from the server or
\* from the cached context.
Enqueue(p, e) ==
    /\ alive[p] /\ row[e].state = "none"
    /\ row' = [row EXCEPT ![e].state = "pending",
                          ![e].id = 1 + Cardinality({f \in Events : row[f].state # "none"})]
    /\ \E v \in 0..Version(e) : base' = [base EXCEPT ![e] = v]
    /\ UNCHANGED <<about, cursor, cache, alive, answer, sub, server, troubles>>

Released(r) == [r EXCEPT !.state = "pending", !.sender = Nobody, !.old = FALSE]

\* resetInflight; the owner is a new one whenever a process starts.
Reset(p) ==
    [e \in Events |->
        IF row[e].state = "sending" /\ (row[e].sender = p \/ row[e].old)
        THEN Released(row[e]) ELSE row[e]]

\* Mutant: a row that is being sent is left to its sender.
ClaimablePending == {e \in Events : row[e].state = "pending"}

\* The rows claimBatch finds pending after it has released the old ones.
Claimable ==
    {e \in Events : row[e].state = "pending" \/ (row[e].state = "sending" /\ row[e].old)}

Batch ==
    {e \in Claimable : Cardinality({f \in Claimable : row[f].id < row[e].id}) < MaxBatch}

Posted(p) == {s \in Slots : posts[s].by = p}

Busy(p) == Posted(p) # {} \/ answer[p] # {}

SlotLeft == \E s \in Slots : posts[s] = Free

Slot == CHOOSE s \in Slots : posts[s] = Free

\* #flushPending up to the request: after a publication, when the subscription
\* is ready, every five seconds and after a full batch.
Flush(p) ==
    /\ alive[p] /\ ~Busy(p) /\ Batch # {}
    /\ row' = [e \in Events |->
                  IF e \in Batch
                  THEN [row[e] EXCEPT !.state = "sending", !.sender = p, !.old = FALSE]
                  ELSE IF e \in Claimable THEN Released(row[e]) ELSE row[e]]
    /\ SlotLeft /\ posts' = [posts EXCEPT ![Slot] = [Free EXCEPT !.by = p, !.todo = Batch]]
    /\ UNCHANGED <<about, base, cursor, cache, alive, answer, sub, issued, log, troubles>>

\* The whole batch is answered.
Receive(p) ==
    \E s \in Posted(p) :
        /\ posts[s].todo = {}
        /\ answer' = [answer EXCEPT ![p] = posts[s].answers]
        /\ posts' = [posts EXCEPT ![s] = Free]
        /\ UNCHANGED <<file, about, base, alive, sub, issued, log, troubles>>

Abandoned(post) == [post EXCEPT !.by = Nobody, !.answers = {}]

\* The connection fails, the answer is an error or ten seconds pass.  The
\* server may go on with the request.
GiveUp(p) ==
    /\ Trouble
    /\ \E s \in Posted(p) : posts' = [posts EXCEPT ![s] = Abandoned(@)]
    /\ row' = Reset(p)
    /\ UNCHANGED <<about, base, cursor, cache, alive, answer, sub, issued, log>>

\* markAcked and #terminal
Settled(r, result) ==
    IF result.verdict \in {"accepted", "duplicate"}
    THEN [r EXCEPT !.state = "acked", !.sender = Nobody, !.old = FALSE, !.seq = result.seq]
    ELSE IF r.state # "acked"
    THEN [r EXCEPT !.state = "refused", !.sender = Nobody, !.old = FALSE]
    ELSE r

Final(p) == {result \in answer[p] : result.verdict # "retryable"}

\* The loop over the results, one statement at a time.
Mark(p, result) ==
    /\ result \in Final(p) /\ result.event \in Leading({r.event : r \in Final(p)})
    /\ row' = [row EXCEPT ![result.event] = Settled(@, result)]
    /\ answer' = [answer EXCEPT ![p] = @ \ {result}]
    /\ UNCHANGED <<about, base, cursor, cache, alive, sub, server, troubles>>

\* batch_retryable: what has no verdict remains pending.
Retry(p) ==
    /\ answer[p] # {} /\ Final(p) = {}
    /\ row' = Reset(p)
    /\ answer' = [answer EXCEPT ![p] = {}]
    /\ UNCHANGED <<about, base, cursor, cache, alive, sub, server, troubles>>

\* The rows of a process that is gone become a minute old ...
Minute ==
    /\ \E e \in Events : row[e].state = "sending" /\ row[e].sender = Nobody /\ ~row[e].old
    /\ row' = [e \in Events |->
                  IF row[e].state = "sending" /\ row[e].sender = Nobody
                  THEN [row[e] EXCEPT !.old = TRUE] ELSE row[e]]
    /\ UNCHANGED <<about, base, cursor, cache, alive, answer, sub, server, troubles>>

\* ... and those of a living one do so when the device sleeps amid a request.
Sleep ==
    /\ Trouble
    /\ \E e \in Events : row[e].state = "sending"
    /\ row' = [e \in Events |->
                  IF row[e].state = "sending" THEN [row[e] EXCEPT !.old = TRUE] ELSE row[e]]
    /\ UNCHANGED <<about, base, cursor, cache, alive, answer, sub, server>>

-----------------------------------------------------------------------------
(* The server *)

\* Mutant: the number is drawn by the column default of migration 001.
AllocateFreely(s) ==
    /\ posts[s].todo # {} /\ posts[s].seq = 0
    /\ issued' = issued + 1
    /\ posts' = [posts EXCEPT ![s].seq = issued + 1]
    /\ UNCHANGED <<file, about, base, alive, answer, sub, log, troubles>>

\* next_memory_event_sequence: the lock first, then the number.
Allocate(s) ==
    /\ posts[s].todo # {} /\ posts[s].seq = 0
    /\ \A t \in Slots : posts[t].seq = 0
    /\ issued' = issued + 1
    /\ posts' = [posts EXCEPT ![s].seq = issued + 1]
    /\ UNCHANGED <<file, about, base, alive, answer, sub, log, troubles>>

\* The transaction of s is over, and e was answered with v.
Answered(s, e, v, n) ==
    posts' = [posts EXCEPT
        ![s].seq = 0,
        ![s].todo = @ \ {e},
        ![s].answers =
            IF posts[s].by = Nobody THEN {}
            ELSE @ \cup {[event |-> e, verdict |-> v, seq |-> n]}]

\* Mutant: the trigger does not look at the version.
AcceptableAlways(e) == Entries(e) = {}

\* ON CONFLICT DO NOTHING and the validation trigger, up to migration 004
Acceptable(e) == Entries(e) = {} /\ base[e] = Version(e)

Accept(s, e) ==
    /\ Acceptable(e)
    /\ log' = log \cup {[seq |-> posts[s].seq, event |-> e]}
    /\ Answered(s, e, "accepted", posts[s].seq)

\* Mutant: the number drawn for the repetition is answered.
RepeatWithNewNumber(s, e) ==
    /\ Entries(e) # {} /\ UNCHANGED log
    /\ Answered(s, e, "duplicate", posts[s].seq)

Repeat(s, e) ==
    /\ \E r \in Entries(e) : Answered(s, e, "duplicate", r.seq)
    /\ UNCHANGED log

\* Mutant: the trigger of migration 001, which compares versions before it
\* looks for the event.
ConflictFirst(s, e) ==
    /\ base[e] # Version(e) /\ UNCHANGED log
    /\ Answered(s, e, "conflict", 0)

Conflict(s, e) ==
    /\ Entries(e) = {} /\ base[e] # Version(e) /\ UNCHANGED log
    /\ Answered(s, e, "conflict", 0)

\* PostgresRepository::append commits and the batch goes on.
Conclude(s) ==
    /\ posts[s].seq # 0
    /\ \E e \in Leading(posts[s].todo) : Accept(s, e) \/ Repeat(s, e) \/ Conflict(s, e)
    /\ UNCHANGED <<file, about, base, alive, answer, sub, issued, troubles>>

\* The connection to PostgreSQL fails, before the commit or behind it.
Interrupt(s) ==
    /\ posts[s].seq # 0 /\ Trouble
    /\ \E e \in Leading(posts[s].todo) :
          /\ Answered(s, e, "retryable", 0)
          /\ \/ UNCHANGED log
             \/ Acceptable(e) /\ log' = log \cup {[seq |-> posts[s].seq, event |-> e]}
    /\ UNCHANGED <<file, about, base, alive, answer, sub, issued>>

\* A request whose caller is gone ends early.
Drop(s) ==
    /\ posts[s].by = Nobody /\ posts[s].seq = 0 /\ posts[s].todo # {}
    /\ posts' = [posts EXCEPT ![s] = Free]
    /\ UNCHANGED <<file, about, base, alive, answer, sub, issued, log, troubles>>

-----------------------------------------------------------------------------
(* The replica *)

Earliest(R) == {r \in R : \A q \in R : r.seq <= q.seq}

Latest(R) == {r \in R : \A q \in R : q.seq <= r.seq}

\* events_after
Page(n) ==
    LET after == {r \in log : r.seq > n}
    IN  {r \in after : Cardinality({q \in after : q.seq < r.seq}) < PageSize}

\* poll of createHttpSyncSocket
Poll(p) ==
    /\ alive[p] /\ sub[p].awaiting = 0
    /\ \E last \in Latest(Page(sub[p].at)) :
          sub' = [sub EXCEPT ![p].page = Page(sub[p].at), ![p].awaiting = last.seq]
    /\ UNCHANGED <<file, about, base, alive, answer, server, troubles>>

\* onError, #onDisconnect, and a new connection that reads the cursor of the file.
PollFails(p) ==
    /\ alive[p] /\ sub[p].awaiting = 0
    /\ Trouble
    /\ sub' = [sub EXCEPT ![p] = Hello(cursor)]
    /\ UNCHANGED <<file, about, base, alive, answer, server>>

\* #applyCommitted: the cursor of the file is already there.
Skip(p, r) ==
    /\ ~sub[p].stored /\ r.seq <= cursor
    /\ sub' = [sub EXCEPT ![p].page = @ \ {r}]
    /\ UNCHANGED <<file, about, base, alive, answer, server, troubles>>

\* cacheServerEvent
Store(p, r) ==
    /\ ~sub[p].stored /\ r.seq > cursor
    /\ cache' = cache \cup {r}
    /\ sub' = [sub EXCEPT ![p].stored = TRUE]
    /\ UNCHANGED <<row, cursor, about, base, alive, answer, server, troubles>>

\* setCursor, and the acknowledgement to the socket, which polls again when
\* the last event of its page is acknowledged.
Ack(p, r) ==
    /\ sub[p].stored
    /\ cursor' = Larger(cursor, r.seq)
    /\ sub' = [sub EXCEPT
                  ![p].page = @ \ {r},
                  ![p].stored = FALSE,
                  ![p].at = r.seq,
                  ![p].awaiting = IF @ = r.seq THEN 0 ELSE @]
    /\ UNCHANGED <<row, cache, about, base, alive, answer, server, troubles>>

-----------------------------------------------------------------------------
(* Processes *)

Crash(p) ==
    /\ alive[p] /\ Trouble
    /\ alive' = [alive EXCEPT ![p] = FALSE]
    /\ answer' = [answer EXCEPT ![p] = {}]
    /\ sub' = [sub EXCEPT ![p] = Hello(0)]
    /\ posts' = [s \in Slots |-> IF posts[s].by = p THEN Abandoned(posts[s]) ELSE posts[s]]
    /\ row' = [e \in Events |->
                  IF row[e].sender = p THEN [row[e] EXCEPT !.sender = Nobody] ELSE row[e]]
    /\ UNCHANGED <<cursor, cache, about, base, issued, log>>

\* openSharedMemory: start, #connect and #onOpen; the hello names the cursor
\* of the file.
Restart(p) ==
    /\ ~alive[p]
    /\ alive' = [alive EXCEPT ![p] = TRUE]
    /\ row' = Reset(p)
    /\ sub' = [sub EXCEPT ![p] = Hello(cursor)]
    /\ UNCHANGED <<cursor, cache, about, base, answer, server, troubles>>

-----------------------------------------------------------------------------

Queue(p) ==
    \/ Flush(p)
    \/ Receive(p)
    \/ \E result \in answer[p] : Mark(p, result)
    \/ Retry(p)

Serve(s) == Allocate(s) \/ Conclude(s) \/ Drop(s)

Apply(p) == \E r \in Earliest(sub[p].page) : Skip(p, r) \/ Store(p, r) \/ Ack(p, r)

Replay(p) == Poll(p) \/ Apply(p)

Next ==
    \/ \E p \in Processes :
          \/ \E e \in Events : Enqueue(p, e)
          \/ Queue(p)
          \/ GiveUp(p)
          \/ Replay(p)
          \/ PollFails(p)
          \/ Crash(p)
          \/ Restart(p)
    \/ \E s \in Slots : Serve(s) \/ Interrupt(s)
    \/ Minute
    \/ Sleep

Spec == Init /\ [][Next]_vars

\* A process goes on with its callbacks and is started again by its host when
\* it crashed, the server ends what it was asked, a minute passes.
FairSpec ==
    /\ Spec
    /\ \A p \in Processes : WF_vars(Queue(p) \/ Replay(p) \/ Restart(p))
    /\ WF_vars(\E s \in Slots : Serve(s))
    /\ WF_vars(Minute)

-----------------------------------------------------------------------------
(* Properties *)

TypeOK ==
    /\ row \in [Events -> Row]
    /\ about \in [Events -> Entities]
    /\ base \in [Events -> Nat \cup {Unset}]
    /\ cursor \in Nat
    /\ cache \subseteq Committed
    /\ alive \in [Processes -> BOOLEAN]
    /\ answer \in [Processes -> SUBSET Result]
    /\ sub \in [Processes -> Subscription]
    /\ posts \in [Slots -> Post]
    /\ issued \in Nat
    /\ log \subseteq Committed
    /\ troubles \in Nat

(* `acked' means committed: the server's log holds the event under the     *)
(* number the row shows, whichever of several requests, lost, late or      *)
(* repeated, the answer belongs to (markAcked, append).                    *)
AckedIsCommitted ==
    \A e \in Events :
        row[e].state = "acked" => [seq |-> row[e].seq, event |-> e] \in log

(* A conflict asks the author to merge and publish anew: the event it is   *)
(* shown for is not in the log, although it may have been sent more than   *)
(* once and by two processes (claimBatch, #terminal, the trigger of 004).  *)
RefusedIsNotCommitted ==
    \A e \in Events : row[e].state = "refused" => Entries(e) = {}

(* Optimistic concurrency: of two committed events about one entity the    *)
(* later one was written against a later version, so no update is lost and *)
(* no event is committed twice.                                            *)
NoLostUpdate ==
    \A x, y \in log :
        x.seq < y.seq /\ about[x.event] = about[y.event] => base[x.event] < base[y.event]

(* The replica has no gap: every committed event up to the cursor is in    *)
(* the file, also while transactions are open on the server and several    *)
(* processes, some of which crash, move the cursor.                        *)
ReplicaHasNoGaps == {r \in log : r.seq <= cursor} \subseteq cache

(* What was published is acknowledged or refused in the end, and what was  *)
(* committed reaches the file.                                             *)
SyncCompletes ==
    []<>(/\ \A e \in Events : row[e].state \notin {"pending", "sending"}
         /\ log \subseteq cache)

=============================================================================
