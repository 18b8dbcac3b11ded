------------------------------ MODULE ActorTree ------------------------------
(***************************************************************************)
(* The life of the actors of one proc (hyperactor/src/proc.rs): the loop   *)
(* of Instance::run, the teardown of run_actor_tree, the epilogue of       *)
(* serve, and Proc::destroy_and_wait with the supervision coordinator.     *)
(*                                                                         *)
(* Every actor has a signal queue, a supervision event queue and the set   *)
(* of its linked children.  The select of the loop is biased: signals go   *)
(* first, then work, then supervision events.  Ordinary work is not kept:  *)
(* a handler that matters spawns a child, fails, panics, or never returns. *)
(***************************************************************************)
EXTENDS Integers, Sequences, FiniteSets, SequencesExt

CONSTANTS
    Actors,         \* how many actors may be spawned
    MaxFaults       \* bound: how much comes from outside, see Fault

ASSUME BoundsAssumption == Actors \in Nat \ {0} /\ MaxFaults \in Nat

VARIABLES
    parent,         \* Actor -> its parent, or Proc for a root
    phase,          \* Actor -> where its task is, see Phase
    status,         \* Actor -> the status that observers wait on
    outcome,        \* Actor -> how run() ended: by a stop, a kill, an error of a
                    \* handler, or abruptly, see EndsAbruptly
    children,       \* Actor -> the children linked to it
    signals,        \* Actor -> its signal queue
    events,         \* Actor -> its supervision events: the children they are of
    exitWork,       \* actors whose work queue holds exit_after_drain's item
    mode,           \* Actor -> stop_mode of run()
    hung,           \* actors in a handler that does not return
    report,         \* Actor -> what became of its terminal event
    timedOut,       \* actors whose wait for their children timed out
    coordinator,    \* the supervision coordinator: "live" or "stopped"
    destroy,        \* destroy_and_wait: "idle", "phase1", "phase2", "done"
    awaited,        \* the roots whose status phase 1 waits on
    aborting,       \* those of them that timed out: abort() was called
    crashed,        \* std::process::exit(1)
    faults          \* how much came from outside so far

vars == <<parent, phase, status, outcome, children, signals, events, exitWork,
          mode, hung, report, timedOut, coordinator, destroy, awaited, aborting,
          crashed, faults>>
taskVars == <<parent, mode, hung, exitWork>>
procVars == <<coordinator, destroy, awaited, aborting, crashed, faults>>

Actor == 1..Actors
Proc == 0

\* loop: run(); checking, waiting: the loop over ChildStopped; cleanup: with
\* the receivers still there; unlinking, sending, publishing: serve's epilogue;
\* aborted: the task was cancelled.
Phase == {"unborn", "loop", "checking", "waiting", "cleanup", "unlinking",
          "sending", "publishing", "done", "aborted"}
Terminal == {"Stopped", "Failed"}
ChildStopped(c) == [kind |-> "ChildStopped", child |-> c]
Signal(kind) == [kind |-> kind, child |-> 0]

\* The receivers of the loop live until run_actor_tree returns.
Open(a) == phase[a] \in {"loop", "checking", "waiting", "cleanup"}
Errs(a) == outcome[a] \in {"error", "abrupt", "killed", "cleanup"}
Roots == {a \in Actor : phase[a] # "unborn" /\ parent[a] = Proc}

TypeOK ==
    /\ parent \in [Actor -> 0..Actors]
    /\ phase \in [Actor -> Phase]
    /\ status \in [Actor -> {"unborn", "Idle", "Stopping"} \cup Terminal]
    /\ outcome \in [Actor -> {"none", "Stop", "Drain", "error", "abrupt", "killed", "cleanup"}]
    /\ mode \in [Actor -> {"Stop", "Drain"}]
    /\ \A a \in Actor :
        /\ \A c \in children[a] : parent[c] = a /\ phase[c] \notin {"unborn", "done"}
        /\ (phase[a] = "done") => status[a] = IF Errs(a) THEN "Failed" ELSE "Stopped"
        /\ (phase[a] \in {"unborn", "loop"}) = (outcome[a] = "none") \/ phase[a] = "aborted"
    /\ report \in [Actor -> {"none", "queued", "late", "handled", "propagated", "dropped",
                             "coordinator", "lost", "crash"}]
    /\ coordinator \in {"live", "stopped"}
    /\ destroy \in {"idle", "phase1", "phase2", "done"}
    /\ aborting \subseteq awaited
    /\ faults \in 0..MaxFaults

Init ==
    /\ parent = [a \in Actor |-> Proc]
    /\ phase = [a \in Actor |-> "unborn"]
    /\ status = [a \in Actor |-> "unborn"]
    /\ outcome = [a \in Actor |-> "none"]
    /\ children = [a \in Actor |-> {}]
    /\ signals = [a \in Actor |-> <<>>]
    /\ events = [a \in Actor |-> <<>>]
    /\ exitWork = {}
    /\ mode = [a \in Actor |-> "Stop"]
    /\ hung = {}
    /\ report = [a \in Actor |-> "none"]
    /\ timedOut = {}
    /\ coordinator = "live"
    /\ destroy = "idle"
    /\ awaited = {}
    /\ aborting = {}
    /\ crashed = FALSE
    /\ faults = 0

\* One bound for all that comes from outside; a failure takes one unit of it,
\* a signal, a hang and a spurious timeout take two.
Fault(units) == faults + units <= MaxFaults /\ faults' = faults + units

-----------------------------------------------------------------------------
(* The loop.                                                                *)

Looping(a) == phase[a] = "loop" /\ a \notin hung /\ ~crashed
\* The select gets past the signals only when there are none.
Idle(a) == Looping(a) /\ signals[a] = <<>>

\* spawn_inner: the child is linked when the spawn returns.  Actors are
\* numbered in the order of their spawns.
Spawn(p, c) ==
    /\ phase[c] = "unborn" /\ \A b \in 1..(c - 1) : phase[b] # "unborn"
    /\ \/ p = Proc /\ destroy = "idle" /\ ~crashed /\ UNCHANGED children
       \/ p # Proc /\ Idle(p) /\ children' = [children EXCEPT ![p] = @ \cup {c}]
    /\ parent' = [parent EXCEPT ![c] = p]
    /\ phase' = [phase EXCEPT ![c] = "loop"]
    /\ status' = [status EXCEPT ![c] = "Idle"]
    /\ UNCHANGED <<outcome, signals, events, exitWork, mode, hung, report, timedOut, procVars>>

\* A handler that does not return.
Hang(a) ==
    /\ Idle(a) /\ Fault(2)
    /\ hung' = hung \cup {a}
    /\ UNCHANGED <<parent, phase, status, outcome, children, signals, events, exitWork, mode,
                   report, timedOut, coordinator, destroy, awaited, aborting, crashed>>

\* Instance::stop, drain_and_stop and kill, called by anybody.
SendSignal(a, kind) ==
    /\ Open(a) /\ ~crashed /\ Fault(2)
    /\ signals' = [signals EXCEPT ![a] = Append(@, Signal(kind))]
    /\ UNCHANGED <<taskVars, phase, status, outcome, children, events, report, timedOut,
                   coordinator, destroy, awaited, aborting, crashed>>

\* The children are told to stop in the mode of the parent's own stop.
ChildSignal(result) == Signal(IF result = "Drain" THEN "Drain" ELSE "Stop")

\* The parent ends without a word to its children.
LeaveSilently(a, result, rest) ==
    /\ outcome' = [outcome EXCEPT ![a] = result]
    /\ phase' = [phase EXCEPT ![a] = "checking"]
    /\ status' = [status EXCEPT ![a] = "Stopping"]
    /\ signals' = [signals EXCEPT ![a] = rest]
    /\ UNCHANGED children

\* run() returned: the children that can be signalled are, the others unlinked.
\* `rest` is what run() leaves in the signal queue.
Leave(a, result, rest) ==
    LET reached == {c \in children[a] : Open(c)}
    IN  /\ outcome' = [outcome EXCEPT ![a] = result]
        /\ phase' = [phase EXCEPT ![a] = "checking"]
        /\ status' = [status EXCEPT ![a] = "Stopping"]
        /\ children' = [children EXCEPT ![a] = reached]
        /\ signals' = [x \in Actor |->
                IF x = a THEN rest
                ELSE IF x \in reached THEN Append(signals[x], ChildSignal(result))
                ELSE signals[x]]

\* The default handle_stop closes the handler ingress and asks for the exit: at
\* once, or behind the work that was accepted.
HandleStop(a, kind, rest) ==
    /\ mode' = [mode EXCEPT ![a] = kind]
    /\ status' = [status EXCEPT ![a] = "Stopping"]
    /\ IF kind = "Stop"
       THEN signals' = [signals EXCEPT ![a] = Append(rest, Signal("Exit"))] /\ UNCHANGED exitWork
       ELSE signals' = [signals EXCEPT ![a] = rest] /\ exitWork' = exitWork \cup {a}
    /\ UNCHANGED <<phase, outcome, children>>

RecvSignal(a) ==
    /\ Looping(a) /\ signals[a] # <<>>
    /\ LET kind == Head(signals[a]).kind
           rest == Tail(signals[a])
       IN  \/ kind \in {"Stop", "Drain"} /\ HandleStop(a, kind, rest)
           \/ /\ kind = "ChildStopped"
              /\ signals' = [signals EXCEPT ![a] = rest]
              /\ UNCHANGED <<phase, status, outcome, children, exitWork, mode>>
           \/ kind = "Exit" /\ Leave(a, mode[a], rest) /\ UNCHANGED <<exitWork, mode>>
           \/ kind = "Kill" /\ Leave(a, "killed", rest) /\ UNCHANGED <<exitWork, mode>>
    /\ UNCHANGED <<parent, events, hung, report, timedOut, procVars>>

\* The work item of exit_after_drain, once what was accepted before is done.
RunExitWork(a) ==
    /\ Idle(a) /\ a \in exitWork
    /\ exitWork' = exitWork \ {a}
    /\ signals' = [signals EXCEPT ![a] = Append(@, Signal("Exit"))]
    /\ UNCHANGED <<parent, phase, status, outcome, children, events, mode, hung, report,
                   timedOut, procVars>>

\* handle_supervision_event: an error may go unhandled, which ends the actor.
HandleEvent(a) ==
    /\ Idle(a) /\ a \notin exitWork /\ events[a] # <<>>
    /\ LET c == Head(events[a])
       IN  \/ /\ report' = [report EXCEPT ![c] = "handled"]
              /\ UNCHANGED <<phase, status, outcome, children, signals>>
           \/ /\ Errs(c)
              /\ report' = [report EXCEPT ![c] = "propagated"]
              /\ Leave(a, "error", <<>>)
    /\ events' = [events EXCEPT ![a] = Tail(@)]
    /\ UNCHANGED <<taskVars, timedOut, procVars>>

\* The error ends the actor without a look at the events.
HandlerFailsAtOnce(a) ==
    /\ Idle(a) /\ Fault(1)
    /\ Leave(a, "error", <<>>)
    /\ UNCHANGED <<taskVars, events, report, timedOut, coordinator, destroy, awaited, aborting,
                   crashed>>

\* The events that are queued are handled one after the other, up to one that
\* fails the actor: `n` of them are.
Heard(a, n) ==
    /\ report' = [c \in Actor |->
            IF \E i \in 1..n : events[a][i] = c THEN "handled"
            ELSE IF n < Len(events[a]) /\ events[a][n + 1] = c THEN "propagated"
            ELSE report[c]]
    /\ events' = [events EXCEPT ![a] = SubSeq(@, n + 2, Len(@))]

\* A message handler returns an error, once the events that are queued are
\* handled or one of them is not.
HandlerFails(a) ==
    /\ Idle(a) /\ Fault(1)
    /\ \E n \in 0..Len(events[a]) :
        /\ n < Len(events[a]) => Errs(events[a][n + 1])
        /\ Heard(a, n)
    /\ Leave(a, "error", <<>>)
    /\ UNCHANGED <<taskVars, timedOut, coordinator, destroy, awaited, aborting, crashed>>

\* run() ends with the events where they are: init fails or a handler panics,
\* with whatever signals came meanwhile; handle_stop fails; or the handler of an
\* event, alone or behind a failed message handler, fails or panics.
EndsAbruptly(a) ==
    /\ Looping(a) /\ Fault(1)
    /\ \/ Leave(a, "abrupt", signals[a]) /\ UNCHANGED <<events, report>>
       \/ /\ signals[a] # <<>> /\ Head(signals[a]).kind \in {"Stop", "Drain"}
          /\ Leave(a, "abrupt", Tail(signals[a])) /\ UNCHANGED <<events, report>>
       \/ /\ signals[a] = <<>>
          /\ \E n \in 0..(Len(events[a]) - 1) : Heard(a, n)
          /\ Leave(a, "abrupt", <<>>)
    /\ UNCHANGED <<taskVars, timedOut, coordinator, destroy, awaited, aborting, crashed>>

-----------------------------------------------------------------------------
(* The teardown of run_actor_tree.                                          *)

CheckChildren(a) ==
    /\ phase[a] = "checking" /\ ~crashed
    /\ phase' = [phase EXCEPT ![a] = IF children[a] = {} THEN "cleanup" ELSE "waiting"]
    /\ UNCHANGED <<taskVars, status, outcome, children, signals, events, report, timedOut,
                   procVars>>

\* The wait ends with the first child.
OneStopped(a) == TRUE

\* The wait ends when no child is linked any more.
AllStopped(a) == children[a] = {}

\* Signals other than ChildStopped are swallowed.
DrainRecv(a) ==
    /\ phase[a] = "waiting" /\ signals[a] # <<>> /\ ~crashed
    /\ signals' = [signals EXCEPT ![a] = Tail(@)]
    /\ phase' = [phase EXCEPT ![a] = IF AllStopped(a) THEN "cleanup" ELSE "waiting"]
    /\ UNCHANGED <<taskVars, status, outcome, children, events, report, timedOut, procVars>>

\* 500 ms without a signal.
DrainTimeout(a) ==
    /\ phase[a] = "waiting" /\ signals[a] = <<>> /\ ~crashed
    /\ children' = [children EXCEPT ![a] = {}]
    /\ timedOut' = timedOut \cup {a}
    /\ phase' = [phase EXCEPT ![a] = "cleanup"]
    /\ UNCHANGED <<taskVars, status, outcome, signals, events, report, procVars>>

\* What is queued is dropped with the receivers.
DropReceivers(a) ==
    /\ report' = [c \in Actor |->
            IF Contains(events[a], c) /\ report[c] = "queued" THEN "dropped" ELSE report[c]]
    /\ events' = [events EXCEPT ![a] = <<>>]
    /\ signals' = [signals EXCEPT ![a] = <<>>]

\* Actor::cleanup, whose error counts when there was none before; then the
\* receivers are dropped, and with them what was queued.
Cleanup(a) ==
    /\ phase[a] = "cleanup" /\ ~crashed
    /\ \/ UNCHANGED <<outcome, faults>>
       \/ ~Errs(a) /\ Fault(1) /\ outcome' = [outcome EXCEPT ![a] = "cleanup"]
    /\ phase' = [phase EXCEPT ![a] = "unlinking"]
    /\ DropReceivers(a)
    /\ exitWork' = exitWork \ {a}
    /\ UNCHANGED <<parent, mode, hung, status, children, timedOut, coordinator, destroy,
                   awaited, aborting, crashed>>

-----------------------------------------------------------------------------
(* The epilogue of serve: unlink, report, and only then the status.         *)

\* handle_unhandled_supervision_event: posted to the coordinator's port, and
\* not heard of again when the coordinator has stopped.
PostToCoordinator(a) ==
    report' = [report EXCEPT ![a] = IF coordinator = "live" THEN "coordinator" ELSE "lost"]

\* maybe_unlink_parent: a root, and an actor its parent has given up, report to
\* the proc; the cell of an aborted parent may or may not be there still.
Unlink(a) ==
    /\ phase[a] = "unlinking" /\ ~crashed
    /\ LET p == parent[a]
           linked == p # Proc /\ a \in children[p]
       IN  /\ children' = IF linked THEN [children EXCEPT ![p] = @ \ {a}] ELSE children
           /\ \/ /\ linked
                 /\ phase' = [phase EXCEPT ![a] = "sending"]
                 /\ UNCHANGED report
              \/ /\ ~linked \/ (p # Proc /\ phase[p] = "aborted")
                 /\ phase' = [phase EXCEPT ![a] = "publishing"]
                 /\ PostToCoordinator(a)
    /\ UNCHANGED <<taskVars, status, outcome, signals, events, timedOut, procVars>>

\* send_supervision_event_or_crash, then the ChildStopped signal.
SendToParent(a) ==
    /\ phase[a] = "sending" /\ ~crashed
    /\ phase' = [phase EXCEPT ![a] = "publishing"]
    /\ LET p == parent[a]
       IN  IF Open(p)
           THEN /\ events' = [events EXCEPT ![p] = Append(@, a)]
                /\ signals' = [signals EXCEPT ![p] = Append(@, ChildStopped(a))]
                /\ report' = [report EXCEPT ![a] = IF phase[p] = "loop" THEN "queued" ELSE "late"]
                /\ UNCHANGED crashed
           ELSE /\ report' = [report EXCEPT ![a] = IF Errs(a) THEN "crash" ELSE "dropped"]
                /\ crashed' = Errs(a)
                /\ UNCHANGED <<events, signals>>
    /\ UNCHANGED <<taskVars, status, outcome, children, timedOut, coordinator, destroy,
                   awaited, aborting, faults>>

\* change_status.
Publish(a) ==
    /\ phase[a] = "publishing" /\ ~crashed
    /\ phase' = [phase EXCEPT ![a] = "done"]
    /\ status' = [status EXCEPT ![a] = IF Errs(a) THEN "Failed" ELSE "Stopped"]
    /\ UNCHANGED <<taskVars, outcome, children, signals, events, report, timedOut, procVars>>

-----------------------------------------------------------------------------
(* Proc::destroy_and_wait.                                                  *)

\* Phase 1: every root that can be signalled is stopped and waited for.
DestroyStart ==
    /\ destroy = "idle" /\ ~crashed
    /\ destroy' = "phase1"
    /\ awaited' = {a \in Roots : Open(a)}
    /\ signals' = [a \in Actor |-> IF a \in awaited' THEN Append(signals[a], Signal("Drain"))
                                   ELSE signals[a]]
    /\ UNCHANGED <<taskVars, phase, status, outcome, children, events, report, timedOut,
                   coordinator, aborting, crashed, faults>>

\* The roots are waited for without a timeout.
NoAbort(a) == FALSE /\ UNCHANGED vars

\* The timeout of phase 1: abort_root_actor asks for the end of a task, and does
\* not wait for it.
Abort(a) ==
    /\ destroy = "phase1" /\ a \in awaited \ aborting /\ status[a] \notin Terminal /\ ~crashed
    /\ IF a \in hung THEN UNCHANGED faults ELSE Fault(2)
    /\ aborting' = aborting \cup {a}
    /\ UNCHANGED <<taskVars, phase, status, outcome, children, signals, events, report,
                   timedOut, coordinator, destroy, awaited, crashed>>

\* The task is cancelled at an await, which may be after other steps of it.
Cancelled(a) ==
    /\ a \in aborting /\ phase[a] \in {"loop", "waiting", "cleanup", "publishing"} /\ ~crashed
    /\ phase' = [phase EXCEPT ![a] = "aborted"]
    /\ status' = [status EXCEPT ![a] = "Stopped"]
    /\ DropReceivers(a)
    /\ UNCHANGED <<taskVars, outcome, children, timedOut, procVars>>

\* The wait is for the roots to be stopping.
RootsStopping == \A a \in awaited \ aborting : status[a] \in Terminal \cup {"Stopping"}

\* Every status waited for is terminal, or timed out.
RootsTerminal == \A a \in awaited \ aborting : status[a] \in Terminal

DestroyPhase2 ==
    /\ destroy = "phase1" /\ RootsTerminal /\ ~crashed
    /\ destroy' = "phase2"
    /\ UNCHANGED <<taskVars, phase, status, outcome, children, signals, events, report,
                   timedOut, coordinator, awaited, aborting, crashed, faults>>

\* Phase 2: the coordinator drains what it was sent and stops.
DestroyDone ==
    /\ destroy = "phase2" /\ ~crashed
    /\ destroy' = "done"
    /\ coordinator' = "stopped"
    /\ UNCHANGED <<taskVars, phase, status, outcome, children, signals, events, report,
                   timedOut, awaited, aborting, crashed, faults>>

-----------------------------------------------------------------------------
Step(a) ==
    \/ RecvSignal(a) \/ RunExitWork(a) \/ HandleEvent(a)
    \/ CheckChildren(a) \/ DrainRecv(a) \/ DrainTimeout(a) \/ Cleanup(a)
    \/ Unlink(a) \/ SendToParent(a) \/ Publish(a)

Environment(a) ==
    \/ \E p \in Actor \cup {Proc} : Spawn(p, a)
    \/ Hang(a) \/ HandlerFails(a) \/ EndsAbruptly(a)
    \/ \E kind \in {"Stop", "Drain", "Kill"} : SendSignal(a, kind)

Next ==
    \/ \E a \in Actor : Step(a) \/ Environment(a) \/ Abort(a) \/ Cancelled(a)
    \/ DestroyStart \/ DestroyPhase2 \/ DestroyDone

Spec == Init /\ [][Next]_vars

\* Every task runs unless its handler does not return; timers expire.
Fairness ==
    /\ \A a \in Actor :
        /\ WF_vars(RecvSignal(a)) /\ WF_vars(RunExitWork(a)) /\ WF_vars(HandleEvent(a))
        /\ WF_vars(CheckChildren(a)) /\ WF_vars(DrainRecv(a)) /\ WF_vars(DrainTimeout(a))
        /\ WF_vars(Cleanup(a)) /\ WF_vars(Unlink(a)) /\ WF_vars(SendToParent(a))
        /\ WF_vars(Publish(a)) /\ WF_vars(Abort(a)) /\ WF_vars(Cancelled(a))
    /\ WF_vars(DestroyPhase2) /\ WF_vars(DestroyDone)

FairSpec == Spec /\ Fairness

-----------------------------------------------------------------------------
(* Properties.                                                              *)

\* When phase 2 stops the coordinator, the events of the roots that phase 1
\* waited for to the end are with it: no failure of theirs is lost in the
\* shutdown.
CoordinatorHears ==
    destroy \in {"phase2", "done"} =>
        \A a \in awaited \ aborting : report[a] = "coordinator"

\* A failure that a child reported while its parent was in its loop is not
\* forgotten: it waits there, was handled, or failed the parent as well.  It is
\* dropped only by a parent that was told to end, that ended abruptly, with a
\* failure of its own to report, or that another child's failure ended; a parent
\* whose message handler returns an error hears its children first.
NoFailureForgotten ==
    \A c \in Actor :
        LET p == parent[c]
        IN  (Errs(c) /\ phase[c] = "done" /\ p # Proc)
                => \/ report[c] \in {"handled", "coordinator", "crash"}
                   \/ report[c] = "queued" /\ Contains(events[p], c)
                   \/ report[c] = "propagated" /\ Errs(p)
                   \/ report[c] \in {"late", "lost"} /\ phase[p] # "loop"
                   \/ /\ report[c] = "dropped"
                      /\ \/ outcome[p] # "error" \/ phase[p] = "aborted"
                         \/ \E b \in Actor : parent[b] = p /\ report[b] = "propagated"

\* Refuted (ActorTreePanic.cfg): the failures that wait in the queue of an actor
\* that fails are heard also when its handler panics, or its handle_stop fails.
PanicHearsChildren ==
    \A c \in Actor :
        (Errs(c) /\ report[c] = "dropped" /\ parent[c] # Proc)
            => (outcome[parent[c]] # "abrupt" \/ phase[parent[c]] = "aborted")

\* Unless its wait timed out, an actor ends after its children: none of them
\* is before its epilogue when the actor's own cleanup starts.
BottomUp ==
    \A c \in Actor :
        LET p == parent[c]
        IN  (phase[c] # "unborn" /\ p # Proc /\ p \notin timedOut
                /\ phase[p] \in {"cleanup", "unlinking", "sending", "publishing", "done"})
            => phase[c] \in {"unlinking", "sending", "publishing", "done"}

\* A ChildStopped in a queue names a child that is no longer linked: both signal
\* loops assert it (assert!(self.inner.cell.get_child(&uid).is_none())).
ChildStoppedUnlinked ==
    \A a \in Actor : \A i \in DOMAIN signals[a] :
        signals[a][i].kind = "ChildStopped" => signals[a][i].child \notin children[a]

\* The teardown of a tree goes from the leaves up, and its assertions hold.
TeardownOrdered == BottomUp /\ ChildStoppedUnlinked

Ended(a) == phase[a] \in {"done", "aborted"}

\* An actor that has left its loop, or whose parent has ended, and that has not
\* come to its own end: it stays one until then, or for good if its handler does
\* not return.
Stray(a) ==
    /\ ~Ended(a) /\ a \notin hung /\ ~crashed
    /\ \/ phase[a] \notin {"unborn", "loop"}
       \/ phase[a] # "unborn" /\ parent[a] # Proc /\ phase[parent[a]] = "done"

\* No child is left running behind a parent that stopped or failed, whatever it
\* was doing, and a child whose handler does not return does not hold its parent
\* up: there always comes a time when nobody is on the way to an end that does
\* not come.
NoStrays == []<>(\A a \in Actor : ~Stray(a))

\* destroy_and_wait returns, also when a handler somewhere does not.
DestroyReturns == (destroy = "phase1") ~> (destroy = "done" \/ crashed)

=============================================================================
