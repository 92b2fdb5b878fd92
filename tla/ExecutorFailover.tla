-------------------------- MODULE ExecutorFailover --------------------------
(***************************************************************************)
(* The executor runtime of the desktop for one task execution and its      *)
(* worktree: the executor manager, the failover wrapper around it, the     *)
(* failover controller and the workspace writer lease.                     *)
(*                                                                         *)
(* Zero3FailoverExecutorManager starts an executor session, takes the      *)
(* writer lease (a file in the worktree) and binds both to a failover      *)
(* controller.  While a prompt streams, the controller answers a failure   *)
(* with a retry, a switch to the other executor, or nothing.  A switch     *)
(* marks the lease, verifies a checkpoint, closes the old session, starts  *)
(* the new one one generation later and transfers the lease.  close()      *)
(* closes the session and releases the lease.  Every `await' is a point    *)
(* where another call on the same objects can run, and where the desktop   *)
(* can die: memory is lost then, the lease file is not.                    *)
(*                                                                         *)
(* Abstractions.  Two candidates, as desktop-runtime.ts configures.  When  *)
(* the controller looks at a cooldown or at an open circuit, the time for  *)
(* it has passed or not.  A nonce is a number that no lease still bears.   *)
(* The cache of processed events is left out: a binding serves one prompt, *)
(* in which no event id occurs twice.  Failure codes are grouped by what   *)
(* the controller does with them.                                          *)
(***************************************************************************)
EXTENDS Naturals, FiniteSets

CONSTANTS
    Primary, Fallback,  \* the candidates, in their order
    Callers,            \* concurrent calls of start() ... prompt() on the execution
    Outside,            \* the call of close() that comes from another operation
    None,
    MaxRetries,
    Threshold,          \* circuitFailureThreshold
    MaxGeneration       \* bound: executor generations of a binding

ASSUME CandidatesAssumption == Primary # Fallback
ASSUME CallersAssumption ==
    /\ IsFiniteSet(Callers)
    /\ None \notin Callers \cup {Outside} /\ Outside \notin Callers
ASSUME FailoverBoundsAssumption == {MaxRetries, Threshold, MaxGeneration} \subseteq Nat

VARIABLES
    lease,    \* writer-lease.json
    manager,  \* the session in #bindings of the executor manager
    live,     \* sessions that an executor started and was not asked to close
    bound,    \* the caller whose Binding is in #bindings of the wrapper
    binding,  \* the Binding object that each caller made
    flow      \* where each call stands, and its local variables

failoverVars == <<lease, manager, live, bound, binding, flow>>

Executors == {Primary, Fallback}

Other(e) == IF e = Primary THEN Fallback ELSE Primary

Flows == Callers \cup {Outside}

Generations == 1..(MaxGeneration + 1)

Session == [ex: Executors, gen: Generations, by: Callers]

\* One lease on disk, and at most two that a call remembers.
Nonces == 1..(2 * Cardinality(Flows) + 2)

Lease == [ex: Executors, gen: Generations, nonce: Nonces, active: BOOLEAN]

Controller ==
    [cur: Executors, gen: Generations, pending: BOOLEAN,
     retries: [Executors -> 0..MaxRetries], failures: [Executors -> 0..Threshold],
     resting: SUBSET Executors, tripped: SUBSET Executors]

Binding == [lease: Lease, ctl: Controller]

ASSUME NoneAssumption == None \notin Session \cup Lease \cup Binding

\* The places of start(), of prompt() with verifiedSwitch(), and of close().
Places ==
    {"idle", "starting", "binding", "acquiring", "undoing", "refused", "ready"}
        \cup {"streaming", "handing", "marking", "verifying", "replacing", "restarting",
              "accepting", "granting", "resuming", "returned", "threw"}
        \cup {"closing", "releasing", "unlinking"}

Local == [at: Places, obj: Callers \cup {None}, sess: Session \cup {None},
          held: Lease \cup {None}]

AtRest == [at |-> "idle", obj |-> None, sess |-> None, held |-> None]

TypeFailover ==
    /\ lease \in Lease \cup {None}
    /\ manager \in Session \cup {None}
    /\ live \subseteq Session
    /\ bound \in Callers \cup {None}
    /\ binding \in [Callers -> Binding \cup {None}]
    /\ flow \in [Flows -> Local]

-----------------------------------------------------------------------------
(* Zero3FailoverController *)

NewController(e, g) ==
    [cur |-> e, gen |-> g, pending |-> FALSE, retries |-> [x \in Executors |-> 0],
     failures |-> [x \in Executors |-> 0], resting |-> {}, tripped |-> {}]

RecordSuccess(ctl, e) ==
    [ctl EXCEPT !.retries[e] = 0, !.failures[e] = 0, !.tripped = @ \ {e}]

\* A cooldown or circuit that was opened earlier may be over by now.
Available(ctl, e) == IF e \in ctl.resting \cup ctl.tripped THEN BOOLEAN ELSE {TRUE}

\* The head of onFailure for the codes that are not forbidden.
Counted(ctl) ==
    LET f == IF ctl.failures[ctl.cur] < Threshold THEN ctl.failures[ctl.cur] + 1 ELSE Threshold
    IN  [ctl EXCEPT !.failures[ctl.cur] = f,
                    !.tripped = IF f >= Threshold THEN @ \cup {ctl.cur} ELSE @]

\* What onFailure has for the caller: "retry", "switch", or "none" for the
\* actions with which the wrapper passes the failure on.
Codes == {"retryable", "quota", "context", "lost", "denied", "stopped", "internal"}

MayRetry(ctl) == ctl.retries[ctl.cur] < MaxRetries

RetryTurn(ctl) == {[act |-> "retry", ctl |-> [Counted(ctl) EXCEPT !.retries[ctl.cur] = @ + 1]]}

Nothing(ctl) == {[act |-> "none", ctl |-> ctl]}

PlanSwitch(ctl) ==
    LET rested == [Counted(ctl) EXCEPT !.resting = @ \cup {ctl.cur}]
    IN  {IF available THEN [act |-> "switch", ctl |-> [rested EXCEPT !.pending = TRUE]]
                      ELSE [act |-> "none", ctl |-> rested] :
           available \in Available(rested, Other(ctl.cur))}

\* The handoff action, with the manualSwitch that the wrapper asks for next.
Handoff(ctl) == {[act |-> "switch", ctl |-> [Counted(ctl) EXCEPT !.pending = TRUE]]}

\* The decisions that onFailure may come to.
OnFailure(ctl, source, code) ==
    CASE ctl.pending \/ source # ctl.cur -> Nothing(ctl)
      [] code \in {"denied", "stopped"} -> Nothing(ctl)
      [] code = "context" -> Handoff(ctl)
      [] code = "retryable" /\ MayRetry(ctl) -> RetryTurn(ctl)
      [] code \in {"retryable", "quota"} -> PlanSwitch(ctl)
      [] OTHER -> Nothing(Counted(ctl))

Abort(ctl) == [ctl EXCEPT !.pending = FALSE]

CommitVerifiedSwitch(ctl) ==
    RecordSuccess([ctl EXCEPT !.cur = Other(ctl.cur), !.gen = @ + 1, !.pending = FALSE],
                  Other(ctl.cur))

-----------------------------------------------------------------------------
(* Calls *)

At(p, place) == flow[p].at = place

\* p goes on at `place'; its other locals stay.
Goes(p, place) == flow' = [flow EXCEPT ![p].at = place]

\* The call ends with an exception.
Throws(p) == Goes(p, "threw")

Matches(held) ==
    /\ lease # None
    /\ <<lease.ex, lease.gen, lease.nonce>> = <<held.ex, held.gen, held.nonce>>

Remembered == {lease} \cup {flow[p].held : p \in Flows}
                    \cup {binding[c].lease : c \in {d \in Callers : binding[d] # None}}

Fresh == CHOOSE n \in Nonces : \A l \in Remembered : l = None \/ l.nonce # n

MyBinding(p) == binding[flow[p].obj]

Bind(p, l) ==
    /\ bound' = p
    /\ binding' = [binding EXCEPT ![p] = [lease |-> l, ctl |-> NewController(Primary, 1)]]
    /\ flow' = [flow EXCEPT ![p].at = "ready", ![p].held = None]

-----------------------------------------------------------------------------
(* start() *)

\* Zero3ExecutorManager.start up to its await of executor.start.
Start(p) ==
    /\ At(p, "idle")
    /\ Goes(p, IF manager = None THEN "starting" ELSE "refused")
    /\ UNCHANGED <<lease, manager, live, bound, binding>>

Started(p) ==
    /\ At(p, "starting")
    /\ LET s == [ex |-> Primary, gen |-> 1, by |-> p]
       IN  live' = live \cup {s} /\ manager' = s
    /\ Goes(p, "binding")
    /\ UNCHANGED <<lease, bound, binding>>

StartFails(p) ==
    /\ At(p, "starting")
    /\ Goes(p, "refused")
    /\ UNCHANGED <<lease, manager, live, bound, binding>>

\* Mutant: a lease of another executor or generation is adopted too.
AdoptableAnyGeneration(l) == l # None

\* An existing lease is adopted when it is exactly what this start would get.
Adoptable(l) == l # None /\ l.ex = Primary /\ l.gen = 1 /\ l.active

\* bind() after its read of the lease file.
BindReads(p) ==
    /\ At(p, "binding")
    /\ \/ /\ Adoptable(lease)
          /\ Bind(p, lease)
       \/ /\ lease = None
          /\ Goes(p, "acquiring")
          /\ UNCHANGED <<bound, binding>>
       \/ /\ lease # None /\ ~Adoptable(lease)
          /\ flow' = [flow EXCEPT ![p].at = "undoing", ![p].sess = manager]
          /\ UNCHANGED <<bound, binding>>
    /\ UNCHANGED <<lease, manager, live>>

\* gate.acquire creates the file exclusively.
Acquire(p) ==
    /\ At(p, "acquiring")
    /\ IF lease = None
       THEN /\ lease' = [ex |-> Primary, gen |-> 1, nonce |-> Fresh, active |-> TRUE]
            /\ Bind(p, lease')
       ELSE /\ flow' = [flow EXCEPT ![p].at = "undoing", ![p].sess = manager]
            /\ UNCHANGED <<lease, bound, binding>>
    /\ UNCHANGED <<manager, live>>

\* The manager's close() in the catch of start().
Undo(p) ==
    /\ At(p, "undoing")
    /\ live' = live \ {flow[p].sess}
    /\ manager' = IF flow[p].sess = None THEN manager ELSE None
    /\ flow' = [flow EXCEPT ![p].at = "refused", ![p].sess = None]
    /\ UNCHANGED <<lease, bound, binding>>

-----------------------------------------------------------------------------
(* prompt() *)

Prompt(p) ==
    /\ At(p, "ready")
    /\ flow' = [flow EXCEPT ![p].at = IF bound = None \/ manager = None THEN "threw"
                                                                       ELSE "streaming",
                            ![p].obj = bound, ![p].sess = manager]
    /\ UNCHANGED <<lease, manager, live, bound, binding>>

\* The session of the stream is there to report something.
Hears(p) == At(p, "streaming") /\ flow[p].sess \in live

Decisions(p, code) == OnFailure(MyBinding(p).ctl, flow[p].sess.ex, code)

SetController(p, ctl) == binding' = [binding EXCEPT ![flow[p].obj].ctl = ctl]

\* The first line of verifiedSwitch, before anything is written.
MayHandOff(p) ==
    /\ manager # None
    /\ manager.ex = MyBinding(p).ctl.cur
    /\ manager.gen = MyBinding(p).lease.gen

\* A failure is passed on: the caller sees it and the stream goes on.
FailurePassedOn(p, code) ==
    /\ Hears(p)
    /\ \E d \in Decisions(p, code) : d.act = "none" /\ SetController(p, d.ctl)
    /\ UNCHANGED <<lease, manager, live, bound, flow>>

\* The generator of the turn is left; the caller is told, and then the bound
\* session is prompted again.
FailureRetried(p, code) ==
    /\ Hears(p)
    /\ \E d \in Decisions(p, code) : d.act = "retry" /\ SetController(p, d.ctl)
    /\ Goes(p, "resuming")
    /\ UNCHANGED <<lease, manager, live, bound>>

Resumes(p) ==
    /\ At(p, "resuming")
    /\ IF manager = None THEN Throws(p)
       ELSE flow' = [flow EXCEPT ![p].at = "streaming", ![p].sess = manager]
    /\ UNCHANGED <<lease, manager, live, bound, binding>>

FailureSwitches(p, code) ==
    /\ Hears(p)
    /\ MyBinding(p).ctl.gen < MaxGeneration
    /\ \E d \in Decisions(p, code) : d.act = "switch" /\ SetController(p, d.ctl)
    /\ Goes(p, IF MayHandOff(p) THEN "handing" ELSE "threw")
    /\ UNCHANGED <<lease, manager, live, bound>>

\* beginHandoff reads the lease ...
HandoffReads(p) ==
    /\ At(p, "handing")
    /\ IF Matches(MyBinding(p).lease)
       THEN flow' = [flow EXCEPT ![p].at = "marking", ![p].held = [lease EXCEPT !.active = FALSE]]
       ELSE Throws(p)
    /\ UNCHANGED <<lease, manager, live, bound, binding>>

\* ... and replaces the file, whatever it is by then.
HandoffMarks(p) ==
    /\ At(p, "marking")
    /\ lease' = flow[p].held
    /\ Goes(p, "verifying")
    /\ UNCHANGED <<manager, live, bound, binding>>

\* Mutant: the new session is started next to the old one.
VerifiedKeepsOld(p) ==
    /\ At(p, "verifying")
    /\ IF manager = None THEN Throws(p)
       ELSE flow' = [flow EXCEPT ![p].at = "restarting", ![p].sess = manager]
    /\ UNCHANGED <<lease, manager, live, bound, binding>>

\* The checkpoint is accepted, and the manager's close() of the old session begins.
Verified(p) ==
    /\ At(p, "verifying")
    /\ IF manager = None THEN Throws(p)
       ELSE flow' = [flow EXCEPT ![p].at = "replacing", ![p].sess = manager]
    /\ UNCHANGED <<lease, manager, live, bound, binding>>

Rejected(p) ==
    /\ At(p, "verifying")
    /\ SetController(p, Abort(MyBinding(p).ctl))
    /\ Throws(p)
    /\ UNCHANGED <<lease, manager, live, bound>>

\* The old session is closed; when its executor complains, the switch is given up.
Replaced(p) ==
    /\ At(p, "replacing")
    /\ live' = live \ {flow[p].sess}
    /\ manager' = None
    /\ \/ Goes(p, "restarting")
       \/ Throws(p)
    /\ UNCHANGED <<lease, bound, binding>>

Restarted(p) ==
    /\ At(p, "restarting")
    /\ LET s == [ex |-> Other(MyBinding(p).ctl.cur), gen |-> flow[p].sess.gen + 1, by |-> p]
       IN  live' = live \cup {s} /\ manager' = s
    /\ Goes(p, "accepting")
    /\ UNCHANGED <<lease, bound, binding>>

RestartFails(p) ==
    /\ At(p, "restarting")
    /\ Throws(p)
    /\ UNCHANGED <<lease, manager, live, bound, binding>>

\* acceptHandoff reads the lease ...
AcceptReads(p) ==
    /\ At(p, "accepting")
    /\ Goes(p, IF Matches(flow[p].held) /\ ~lease.active THEN "granting" ELSE "threw")
    /\ UNCHANGED <<lease, manager, live, bound, binding>>

\* ... and replaces the file; the switch is committed and the caller is told.
Granted(p) ==
    /\ At(p, "granting")
    /\ lease' = [ex |-> Other(flow[p].held.ex), gen |-> flow[p].held.gen + 1,
                 nonce |-> Fresh, active |-> TRUE]
    /\ binding' = [binding EXCEPT ![flow[p].obj] =
                       [lease |-> lease', ctl |-> CommitVerifiedSwitch(MyBinding(p).ctl)]]
    /\ flow' = [flow EXCEPT ![p].at = "resuming", ![p].held = None]
    /\ UNCHANGED <<manager, live, bound>>

\* The turn completed.
Completed(p, ok) ==
    /\ Hears(p)
    /\ SetController(p, IF ok THEN RecordSuccess(MyBinding(p).ctl, MyBinding(p).ctl.cur)
                              ELSE MyBinding(p).ctl)
    /\ Goes(p, "returned")
    /\ UNCHANGED <<lease, manager, live, bound>>

\* The stream breaks, or a file or Git operation of a switch fails.
Breaks(p) ==
    /\ flow[p].at \in {"streaming", "handing", "marking", "verifying", "accepting", "granting"}
    /\ Throws(p)
    /\ UNCHANGED <<lease, manager, live, bound, binding>>

-----------------------------------------------------------------------------
(* close() *)

\* close() takes the binding of the wrapper and the session of the manager.
CloseAt(p) ==
    flow' = [flow EXCEPT ![p] = [at |-> IF manager = None THEN "releasing" ELSE "closing",
                                 obj |-> bound, sess |-> manager, held |-> None]]

Close(p) ==
    /\ CloseAt(p)
    /\ UNCHANGED <<lease, manager, live, bound, binding>>

\* Whether or not the executor complains, the manager forgets the session.
Closed(p) ==
    /\ At(p, "closing")
    /\ live' = live \ {flow[p].sess}
    /\ manager' = None
    /\ Goes(p, "releasing")
    /\ UNCHANGED <<lease, bound, binding>>

\* The end of close(), with `b' in #bindings.  A Binding that nobody holds is gone.
Unbinds(p, b) ==
    /\ flow' = [flow EXCEPT ![p] = AtRest]
    /\ bound' = b
    /\ binding' = [c \in Callers |->
                       IF c = b \/ \E q \in Flows \ {p} : flow[q].obj = c THEN binding[c] ELSE None]

\* Mutant: a lease that is being handed over is not this call's to release.
ReleaseReadsActive(p) ==
    /\ At(p, "releasing")
    /\ IF flow[p].obj = None \/ lease = None \/ ~lease.active
       THEN Unbinds(p, None)
       ELSE /\ flow' = [flow EXCEPT ![p].at = "unlinking", ![p].held = lease]
            /\ UNCHANGED <<bound, binding>>
    /\ UNCHANGED <<lease, manager, live>>

ReleaseReads(p) ==
    /\ At(p, "releasing")
    /\ IF flow[p].obj = None \/ lease = None
       THEN Unbinds(p, None)
       ELSE /\ flow' = [flow EXCEPT ![p].at = "unlinking", ![p].held = lease]
            /\ UNCHANGED <<bound, binding>>
    /\ UNCHANGED <<lease, manager, live>>

\* unlink() of what was read; when it is gone already, the binding stays.
Unlinked(p) ==
    /\ At(p, "unlinking")
    /\ lease' = None
    /\ Unbinds(p, IF lease = None THEN bound ELSE None)
    /\ UNCHANGED <<manager, live>>

-----------------------------------------------------------------------------
(* The process *)

\* The desktop dies, and with it the executors that it runs.
ExecutorsDie ==
    /\ manager' = None
    /\ live' = {}
    /\ bound' = None
    /\ binding' = [c \in Callers |-> None]
    /\ flow' = [p \in Flows |-> AtRest]
    /\ UNCHANGED lease

FailoverInit ==
    /\ lease = None
    /\ manager = None
    /\ live = {}
    /\ bound = None
    /\ binding = [c \in Callers |-> None]
    /\ flow = [p \in Flows |-> AtRest]

Switching(p) ==
    HandoffReads(p) \/ HandoffMarks(p) \/ Verified(p) \/ Rejected(p) \/ Replaced(p)
        \/ Restarted(p) \/ RestartFails(p) \/ AcceptReads(p) \/ Resumes(p)

Binds(p) == BindReads(p) \/ Acquire(p) \/ Undo(p)

Releases(p) == Closed(p) \/ ReleaseReads(p) \/ Unlinked(p)

=============================================================================
