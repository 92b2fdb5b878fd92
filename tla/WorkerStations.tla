-------------------------- MODULE WorkerStations --------------------------
(***************************************************************************)
(* The stations of one workflow run: web conversations that work through   *)
(* the queue of module WorkflowWorkers, the station manager that opens and *)
(* replaces them, and the wakeup controller that prompts them again.       *)
(*                                                                         *)
(* The conversations are the best the program can hope for: they follow    *)
(* the worker skill to the letter, finish what they claim in time and with *)
(* their newest ticket, and are never interrupted.  What is asked is       *)
(* whether the program then keeps its side.                                *)
(***************************************************************************)
EXTENDS WorkflowWorkers

VARIABLES
    turn, \* of every slot: a turn of its conversation runs ("on"), or not, and
          \* whether the last one ended with the answer NO_WORK_AVAILABLE
    item  \* the wakeup the controller is delivering, as a set

stationVars == <<db, told, turn, item>>

Turns == {"off", "on", "told_no_work"}

StationsTypeOK ==
    /\ TypeOK
    /\ turn \in [Slots -> Turns]
    /\ item \subseteq Wakeup /\ Cardinality(item) <= 1

StationsInit == Init /\ turn = [w \in Slots |-> "off"] /\ item = {}

\* The ticket every prompt carries.
Newest(w) == db.slots[w].generation

-----------------------------------------------------------------------------
(* The conversations *)

Bootstraps(w) ==
    /\ db.slots[w].session = "STARTING"
    /\ BootstrapWorker(w, Newest(w))
    /\ UNCHANGED turn

\* A turn goes on while there is a claim to work on.
GoesOn(w) ==
    turn' = [turn EXCEPT ![w] =
        IF Own(db', w) # {} THEN "on"
        ELSE IF db'.slots[w].state = "ROTATING" THEN "off" ELSE "told_no_work"]

ClaimsWork(w) ==
    /\ db.slots[w].session # "STARTING" /\ Own(db, w) = {}
    /\ ClaimWork(w, Newest(w), Batch[w])
    /\ GoesOn(w)

Commits(w) ==
    /\ \E c \in Own(db, w) : CommitAndClaimNext(w, Newest(w), c, Batch[w])
    /\ GoesOn(w)

Works(w) ==
    /\ turn[w] = "on"
    /\ Bootstraps(w) \/ ClaimsWork(w) \/ Commits(w)
    /\ UNCHANGED item

-----------------------------------------------------------------------------
(* The station manager *)

Prompted(w) == turn' = [turn EXCEPT ![w] = "on"]

\* reconcileRun for one slot; a run that is not ACTIVE is passed over by tick.
Reconciles(w) ==
    /\ db.run = "ACTIVE"
    /\ \/ /\ db.slots[w].session = "STARTING" /\ turn[w] # "on"
          /\ UNCHANGED <<db, told>>
       \/ /\ db.slots[w].session # "none" /\ db.slots[w].state = "ROTATING"
          /\ Current(db, w) = {}
          /\ RotatePhysicalSession(w)
       \/ OpenPhysicalSession(w)
    /\ Prompted(w) /\ UNCHANGED item

-----------------------------------------------------------------------------
(* The wakeup controller *)

\* tick: the wakeup u is the next of those that pendingWakeups answers.  tick asks for all
\* of them at once; here they are looked at one by one.
Takes(u) ==
    /\ item = {}
    /\ PendingWakeups({u})
    /\ item' = {u} \cap db'.wakeups
    /\ UNCHANGED turn

\* deliver, after the conversation was asked what it does: it is busy and the
\* wakeup is put off, or it is prompted.
Delivers(u) ==
    /\ \/ turn[u.slot] = "on" /\ UNCHANGED <<db, told, turn>>
       \/ turn[u.slot] # "on" /\ MarkWakeupDelivered(u) /\ Prompted(u.slot)
    /\ item' = {}

Controls == (\E u \in Pending(db) : Takes(u)) \/ (\E u \in item : Delivers(u))

-----------------------------------------------------------------------------

Adds ==
    /\ \E I \in SUBSET Items : AddWorkItems(I)
    /\ UNCHANGED <<turn, item>>

StationsNext ==
    \/ Adds
    \/ \E w \in Slots : Works(w) \/ Reconciles(w)
    \/ Controls

\* The conversations answer, and both timers fire for ever.
StationsFairness ==
    /\ \A w \in Slots : WF_stationVars(Works(w)) /\ WF_stationVars(Reconciles(w))
    /\ WF_stationVars(Controls)

StationsSpec == StationsInit /\ [][StationsNext]_stationVars /\ StationsFairness

-----------------------------------------------------------------------------
(* Properties *)

\* "When Zero3 returns NO_WORK_AVAILABLE, stop the current turn and enter WAITING.
\* ... Zero3 Wakeup is responsible for prompting the station again when work
\* transitions READY": a station that was told that there is no work is prompted
\* once there is some, unless others take it.
WokenForWork ==
    \A w \in Slots :
        (turn[w] = "told_no_work" /\ Capable(w) /\ Ready(db, Serves[w]) # {})
            ~> (turn[w] = "on" \/ Ready(db, Serves[w]) = {})

=============================================================================
