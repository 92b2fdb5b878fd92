---------------------------- MODULE RemoteOutbox ----------------------------
(***************************************************************************)
(* The durable outbox of the Remote Host                                   *)
(* (host-runtime/remote-outbox.ts): one file per envelope under pending/,  *)
(* one cursor file per task execution, and a quarantine directory.         *)
(*                                                                         *)
(* `pending' is the queue in the order list() sorts it: by createdAt, then *)
(* by event sequence with the terminal last, then by delivery id.  An      *)
(* envelope is stamped with the wall clock when it is created, so it       *)
(* normally sorts behind what is pending; if the clock was set back in     *)
(* between it sorts anywhere before it (bound MaxSkewed).  An event is     *)
(* made durable in two steps, the envelope file and then the cursor file,  *)
(* and a crash may fall between them.                                      *)
(***************************************************************************)
EXTENDS Integers, Sequences, SequencesExt, FiniteSetsExt

CONSTANTS
    Tasks,
    MaxEntries,    \* MAX_OUTBOX_ENTRIES
    MaxSkewed      \* bound: envelopes stamped by a clock that was set back

VARIABLES
    pending,      \* pending/<deliveryId>.json, in drain order
    cursor,       \* cursors/<key>.json
    quarantined,  \* quarantine/<deliveryId>.json
    drawn,        \* delivery ids drawn so far (fresh uuids)
    skewed

outboxVars == <<pending, cursor, quarantined, drawn, skewed>>

OutboxInit ==
    /\ pending = <<>>
    /\ cursor = [t \in Tasks |-> 0]
    /\ quarantined = {}
    /\ drawn = 0
    /\ skewed = 0

PendingItems == ToSet(pending)

IsEvent(item) == item.env.seq > 0

Full == Len(pending) >= MaxEntries

PendingSeqs(t) == {item.env.seq : item \in {p \in PendingItems : p.task = t}}

\* Mutant: only the pending events are consulted, not the cursor file.
PendingOnly(t) == Max({0} \cup PendingSeqs(t))

(* The highest sequence the outbox knows for a task: the cursor file or a  *)
(* pending event, whichever is higher (terminal envelopes count as 0).     *)
Highest(t) == Max({cursor[t]} \cup PendingSeqs(t))

(* An envelope of the lease `g'; a terminal outcome carries no sequence.   *)
Item(g, seq, body) ==
    [task |-> g.task,
     env |-> [delivery |-> drawn + 1, exec |-> g.exec, lease |-> g.id,
              token |-> g.token, seq |-> seq, body |-> body]]

Persist(item) ==
    /\ ~Full
    /\ drawn' = drawn + 1
    /\ \/ pending' = Append(pending, item) /\ UNCHANGED skewed
       \/ /\ skewed < MaxSkewed
          /\ skewed' = skewed + 1
          /\ \E i \in 1..Len(pending) : pending' = InsertAt(pending, i, item)
    /\ UNCHANGED <<cursor, quarantined>>

PersistEvent(g, body) == Persist(Item(g, Highest(g.task) + 1, body))

PersistTerminal(g, final) == Persist(Item(g, 0, final))

(* The second half of enqueueEvent: the sequence just persisted, which is  *)
(* the highest one known, becomes the cursor.                              *)
WriteCursor(t) ==
    /\ cursor' = [cursor EXCEPT ![t] = Highest(t)]
    /\ UNCHANGED <<pending, quarantined, drawn, skewed>>

(* The file of the envelope is removed from pending/. *)
Without(item) ==
    RemoveAt(pending, CHOOSE i \in 1..Len(pending) : pending[i] = item)

Ack(item) ==
    /\ pending' = Without(item)
    /\ UNCHANGED <<cursor, quarantined, drawn, skewed>>

\* Mutant: a stale envelope is deleted like an accepted one.
Discard(item) == Ack(item)

Quarantine(item) ==
    /\ pending' = Without(item)
    /\ quarantined' = quarantined \cup {item}
    /\ UNCHANGED <<cursor, drawn, skewed>>

=============================================================================
