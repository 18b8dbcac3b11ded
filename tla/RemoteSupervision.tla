-------------------------- MODULE RemoteSupervision --------------------------
(***************************************************************************)
(* Remote supervision of hyperactor_remote/src/supervision.rs: Supervisor  *)
(* actors on the parents' side, one Worker that wraps one child, and for   *)
(* each session a pair of liveness actors (module KeepaliveLink).  The     *)
(* messages of proto.rs travel in order between a supervisor and the       *)
(* worker; a message to an actor that has ended comes back.                *)
(*                                                                         *)
(* A worker handles work (messages) and supervision events (of its child   *)
(* and its liveness actors); the run loop prefers work, which only decides *)
(* between orders that the network can produce anyway.                     *)
(***************************************************************************)
EXTENDS Integers, Sequences, SequencesExt

CONSTANTS
    Sessions,       \* how many supervisors there are, each with its session id
    OrphanPolicy,   \* SupervisionOptions::orphan_policy: "Stop" or "Detach"
    MaxFaults       \* bound: how many things happen that no message asked for

ASSUME PolicyAssumption ==
    /\ OrphanPolicy \in {"Stop", "Detach"}
    /\ Sessions \in Nat
    /\ MaxFaults \in Nat

VARIABLES
    bootstrap,      \* SupervisorBootstrap: "existing" worker, or "callback"
    sup,            \* Session -> the Supervisor actor
    ls,             \* Session -> its KeepaliveSupervisor
    lw,             \* Session -> the worker's KeepaliveWorker for it
    worker,         \* Worker: status, child_handle, session
    child,          \* the supervised child actor
    toW,            \* Session -> messages on their way to the worker
    toS,            \* Session -> SupervisorEvents on their way back
    unlinks,        \* sessions for which WorkerCommand::Unlink is on its way
    returned,       \* Session -> undelivered messages returned to the worker
    events,         \* supervision events queued at the worker
    faults          \* kills, spurious timeouts, unlinks and ends so far

vars == <<bootstrap, sup, ls, lw, worker, child, toW, toS, unlinks, returned,
          events, faults>>

Session == 1..Sessions
None == 0           \* no session
Child == -1         \* the child, where an event came from

NewSup == [status |-> "absent", linked |-> FALSE, pendingStop |-> FALSE,
           stopAsked |-> FALSE, outcome |-> "none"]

TypeOK ==
    /\ bootstrap \in {"existing", "callback"}
    /\ \A s \in Session :
        /\ sup[s].status \in {"absent", "live", "ended"}
        /\ sup[s].outcome \in {"none", "killed", "Linked", "SuperviseRejected", "Terminal",
                               "Unreachable", "Unlinked", "InvalidReference"}
        /\ (sup[s].status = "ended") = (sup[s].outcome # "none")
        /\ ls[s] \in {"none", "live", "failed", "ended"}
        /\ lw[s] \in {"none", "live", "stopping", "ended"}
        /\ toW[s] \in Seq({"Supervise", "Stop"})
        /\ toS[s] \in Seq({"Linked", "SuperviseRejected", "Terminal", "Unreachable",
                           "Unlinked"})
        /\ returned[s] \in Nat
    /\ worker.status \in {"absent", "live", "failing", "stopped", "failed"}
    /\ worker.child \in BOOLEAN
    /\ worker.session # None => child # "none"
    /\ worker.session \in Session \cup {None}
    /\ child \in {"none", "live", "stopping", "closed", "ended"}
    /\ unlinks \subseteq Session
    /\ faults \in 0..MaxFaults

-----------------------------------------------------------------------------
(* An existing worker starts empty; with a callback (actor_spawner.rs) the  *)
(* worker is made for one supervisor, together with the child.              *)

Init ==
    /\ bootstrap \in {"existing", "callback"}
    /\ worker = [status |-> IF bootstrap = "existing" THEN "live" ELSE "absent",
                 child |-> FALSE, session |-> None]
    /\ child = "none"
    /\ sup = [s \in Session |-> NewSup]
    /\ ls = [s \in Session |-> "none"]
    /\ lw = [s \in Session |-> "none"]
    /\ toW = [s \in Session |-> <<>>]
    /\ toS = [s \in Session |-> <<>>]
    /\ unlinks = {}
    /\ returned = [s \in Session |-> 0]
    /\ events = <<>>
    /\ faults = 0

-----------------------------------------------------------------------------
(* The supervisor.                                                          *)

\* One more thing that no message asked for: all of them share one bound.
Fault == faults < MaxFaults /\ faults' = faults + 1

supVars == <<sup, ls>>
workerVars == <<worker, child, lw, events>>

\* Supervisor::init: the liveness actor first, then the request to the worker.
\* Session ids are interchangeable: they are numbered as the supervisors come.
SupInit(s) ==
    /\ sup[s].status = "absent"
    /\ \A r \in 1..(s - 1) : sup[r].status # "absent"
    /\ bootstrap = "callback" => s = 1
    /\ sup' = [sup EXCEPT ![s].status = "live"]
    /\ ls' = [ls EXCEPT ![s] = "live"]
    /\ toW' = [toW EXCEPT ![s] = Append(@, "Supervise")]
    /\ UNCHANGED <<bootstrap, workerVars, toS, unlinks, returned, faults>>

\* A supervisor that ends stops its liveness actor.
SupEnd(s, outcome) ==
    /\ sup' = [sup EXCEPT ![s].status = "ended", ![s].outcome = outcome]
    /\ ls' = [ls EXCEPT ![s] = "ended"]

\* The stop is sent where it is known to be wanted and forgotten otherwise.
SendPendingStopForgets(s, r) ==
    /\ sup' = [sup EXCEPT ![s] = [r EXCEPT !.pendingStop = FALSE]]
    /\ toW' = [toW EXCEPT ![s] = IF r.pendingStop /\ r.linked THEN Append(@, "Stop") ELSE @]

\* send_pending_worker_stop: without a session the stop goes to the worker
\* endpoint, or is kept when the bootstrap has none.
SendPendingStop(s, r) ==
    IF r.linked \/ bootstrap = "existing"
    THEN /\ sup' = [sup EXCEPT ![s] = [r EXCEPT !.pendingStop = FALSE]]
         /\ toW' = [toW EXCEPT ![s] = IF r.pendingStop THEN Append(@, "Stop") ELSE @]
    ELSE /\ sup' = [sup EXCEPT ![s] = r]
         /\ UNCHANGED toW

\* Supervisor::handle_stop (once per supervisor: the parent's stop).
SupHandleStop(s) ==
    /\ sup[s].status = "live" /\ ~sup[s].stopAsked
    /\ SendPendingStop(s, [sup[s] EXCEPT !.stopAsked = TRUE, !.pendingStop = TRUE])
    /\ UNCHANGED <<bootstrap, ls, workerVars, toS, unlinks, returned, faults>>

\* Handler<SupervisorEvent>, or the return of the message when the supervisor
\* has ended (the worker's handle_delivery_failure_event takes every kind).
SupReceive(s) ==
    /\ toS[s] # <<>>
    /\ toS' = [toS EXCEPT ![s] = Tail(@)]
    /\ IF sup[s].status = "live"
       THEN /\ IF Head(toS[s]) = "Linked"
               THEN /\ SendPendingStop(s, [sup[s] EXCEPT !.linked = TRUE])
                    /\ UNCHANGED ls
               ELSE SupEnd(s, Head(toS[s])) /\ UNCHANGED toW
            /\ UNCHANGED returned
       ELSE /\ returned' = IF worker.status = "live"
                           THEN [returned EXCEPT ![s] = @ + 1] ELSE returned
            /\ UNCHANGED <<supVars, toW>>
    /\ UNCHANGED <<bootstrap, workerVars, unlinks, faults>>

\* handle_supervision_event: the liveness actor failed, so the child counts as
\* unreachable.
SupLivenessEvent(s) ==
    /\ sup[s].status = "live" /\ ls[s] = "failed"
    /\ SupEnd(s, "Unreachable")
    /\ UNCHANGED <<bootstrap, workerVars, toW, toS, unlinks, returned, faults>>

\* The supervisor is killed, or its proc dies.
SupKilled(s) ==
    /\ sup[s].status = "live"
    /\ SupEnd(s, "killed")
    /\ Fault
    /\ UNCHANGED <<bootstrap, workerVars, toW, toS, unlinks, returned>>

-----------------------------------------------------------------------------
(* The liveness actors, as KeepaliveLink bounds them: a side fails when its *)
(* peer is not there, and may fail when it is.                             *)

MayTimeOut(peerLive) == IF peerLive THEN Fault ELSE UNCHANGED faults

Queued(who, error) ==
    IF worker.status \in {"live", "failing"}
    THEN Append(events, [who |-> who, error |-> error]) ELSE events

LsFails(s) ==
    /\ ls[s] = "live"
    /\ MayTimeOut(lw[s] = "live")
    /\ ls' = [ls EXCEPT ![s] = "failed"]
    /\ UNCHANGED <<bootstrap, sup, workerVars, toW, toS, unlinks, returned>>

LwFails(s) ==
    /\ lw[s] = "live"
    /\ MayTimeOut(ls[s] = "live")
    /\ lw' = [lw EXCEPT ![s] = "ended"]
    /\ events' = Queued(s, TRUE)
    /\ UNCHANGED <<bootstrap, supVars, worker, child, toW, toS, unlinks, returned>>

LwStops(s) ==
    /\ lw[s] = "stopping"
    /\ lw' = [lw EXCEPT ![s] = "ended"]
    /\ events' = Queued(s, FALSE)
    /\ UNCHANGED <<bootstrap, supVars, worker, child, toW, toS, unlinks, returned, faults>>

-----------------------------------------------------------------------------
(* The child: it ends by itself or because it was told to.  Its signal      *)
(* channel is closed before its event reaches the worker (proc.rs serve).   *)

ChildCloses ==
    /\ child \in {"live", "stopping"}
    /\ child' = "closed"
    /\ IF child = "live" THEN Fault ELSE UNCHANGED faults
    /\ UNCHANGED <<bootstrap, supVars, worker, lw, events, toW, toS, unlinks, returned>>

ChildReports ==
    /\ child = "closed"
    /\ child' = "ended"
    /\ events' = Queued(Child, TRUE)
    /\ UNCHANGED <<bootstrap, supVars, worker, lw, toW, toS, unlinks, returned, faults>>

-----------------------------------------------------------------------------
(* The worker.                                                              *)

LwStopped(s) == [lw EXCEPT ![s] = IF @ = "live" THEN "stopping" ELSE @]

\* The worker's loop is over: its children are told to stop, and what they
\* report from now on is not read.
WorkerOver(status) ==
    /\ worker' = [worker EXCEPT !.status = status, !.session = None, !.child = FALSE]
    /\ child' = IF child = "live" THEN "stopping" ELSE child
    /\ lw' = [s \in Session |-> IF lw[s] = "none" THEN "none" ELSE "ended"]
    /\ events' = <<>>

\* A handler returned an error: the loop first handles the events already
\* queued, then fails (proc.rs run).
WorkerFailing(session) ==
    /\ worker' = [worker EXCEPT !.status = "failing", !.session = session]
    /\ UNCHANGED <<child, events>>

\* SupervisedChild::stop_child, with the session it leaves: stopping a child
\* whose signal channel is closed is an error of the handler.
StopChild(session) ==
    IF worker.child /\ child \in {"closed", "ended"}
    THEN WorkerFailing(session)
    ELSE /\ child' = IF worker.child /\ child = "live" THEN "stopping" ELSE child
         /\ worker' = [worker EXCEPT !.session = session]
         /\ UNCHANGED events

\* The session is given up and its liveness actor left running.
OrphanedKeepsLink ==
    /\ UNCHANGED lw
    /\ IF OrphanPolicy = "Stop"
       THEN StopChild(None)
       ELSE worker' = [worker EXCEPT !.session = None] /\ UNCHANGED <<child, events>>

\* The session is given up and the child left as it is.
OrphanedKeepsChild ==
    /\ lw' = LwStopped(worker.session)
    /\ worker' = [worker EXCEPT !.session = None]
    /\ UNCHANGED <<child, events>>

\* Losing the supervisor applies the orphan policy (unlink_orphaned_supervisor).
Orphaned ==
    /\ lw' = LwStopped(worker.session)
    /\ IF OrphanPolicy = "Stop"
       THEN StopChild(None)
       ELSE worker' = [worker EXCEPT !.session = None] /\ UNCHANGED <<child, events>>

Send(s, message) == toS' = [toS EXCEPT ![s] = Append(@, message)]

\* Handler<Spawn> and set_child: the empty worker gets its child.
WorkerSpawn ==
    /\ worker.status = "live" /\ child = "none"
    /\ child' = "live"
    /\ worker' = [worker EXCEPT !.child = TRUE]
    /\ UNCHANGED <<bootstrap, supVars, lw, events, toW, toS, unlinks, returned, faults>>

\* SupervisedChild::supervise: the request is rejected, or the liveness actor is
\* spawned and the session linked, or the spawn fails and the handler with it.
Supervise(s) ==
    \/ /\ worker.session # None \/ ~worker.child
       /\ Send(s, "SuperviseRejected")
       /\ UNCHANGED <<worker, lw, child, events>>
    \/ /\ worker.session = None /\ worker.child
       /\ lw' = [lw EXCEPT ![s] = "live"]
       /\ worker' = [worker EXCEPT !.session = s]
       /\ Send(s, "Linked")
       /\ UNCHANGED <<child, events>>
    \/ /\ worker.session = None /\ worker.child
       /\ WorkerFailing(None)
       /\ UNCHANGED <<toS, lw>>

\* ActorSpawner's Handler<SpawnActor> makes the worker, whose
\* Handler<GspawnAndSupervise> spawns the child and links it, or rejects, or
\* fails with the child spawned.
SpawnAndSupervise(s) ==
    \/ /\ child' = "live"
       /\ worker' = [status |-> "live", child |-> TRUE, session |-> s]
       /\ lw' = [lw EXCEPT ![s] = "live"]
       /\ Send(s, "Linked")
       /\ UNCHANGED events
    \/ /\ worker' = [worker EXCEPT !.status = "stopped"]
       /\ Send(s, "SuperviseRejected")
       /\ UNCHANGED <<child, lw, events>>
    \/ /\ child' = "live"
       /\ worker' = [status |-> "failing", child |-> TRUE, session |-> None]
       /\ UNCHANGED <<toS, lw, events>>

Accepted(s) == worker.session = s

\* The next message of s reaches the worker.
WorkerReceive(s) ==
    /\ toW[s] # <<>>
    /\ toW' = [toW EXCEPT ![s] = Tail(@)]
    /\ \/ /\ worker.status = "absent"
          /\ SpawnAndSupervise(s)
       \/ /\ worker.status = "live" /\ Head(toW[s]) = "Supervise"
          /\ Supervise(s)
       \/ /\ worker.status = "live" /\ Head(toW[s]) = "Stop"
          /\ IF Accepted(s) THEN StopChild(s) ELSE WorkerFailing(worker.session)
          /\ UNCHANGED <<toS, lw>>
    /\ UNCHANGED <<bootstrap, supVars, unlinks, returned, faults>>

\* The worker has ended: the message returns, as an invalid reference, which
\* fails the supervisor, or as a transport failure, which it ignores.
WorkerUnreachable(s) ==
    /\ toW[s] # <<>> /\ worker.status \in {"failing", "stopped", "failed"}
    /\ toW' = [toW EXCEPT ![s] = Tail(@)]
    /\ \/ sup[s].status = "live" /\ SupEnd(s, "InvalidReference")
       \/ UNCHANGED supVars
    /\ UNCHANGED <<bootstrap, workerVars, toS, unlinks, returned, faults>>

\* Somebody posts WorkerCommand::Unlink for a session that was requested.
PostUnlink(s) ==
    /\ s \notin unlinks /\ sup[s].linked
    /\ unlinks' = unlinks \cup {s}
    /\ Fault
    /\ UNCHANGED <<bootstrap, supVars, workerVars, toW, toS, returned>>

WorkerUnlink(s) ==
    /\ worker.status = "live" /\ s \in unlinks
    /\ unlinks' = unlinks \ {s}
    /\ IF Accepted(s)
       THEN /\ Orphaned
            /\ IF worker'.status = "live" THEN Send(s, "Unlinked") ELSE UNCHANGED toS
       ELSE WorkerFailing(worker.session) /\ UNCHANGED <<toS, lw>>
    /\ UNCHANGED <<bootstrap, supVars, toW, returned, faults>>

\* handle_undeliverable_message / handle_delivery_failure_event: whichever
\* message came back, the session that is active now counts as orphaned.
WorkerReturned(s) ==
    /\ worker.status = "live" /\ returned[s] > 0
    /\ returned' = [returned EXCEPT ![s] = @ - 1]
    /\ IF worker.session = None
       THEN UNCHANGED <<worker, lw, child, events>>
       ELSE Orphaned
    /\ UNCHANGED <<bootstrap, supVars, toW, toS, unlinks, faults>>

\* SupervisedChild::handle_liveness_event: report, give the session up, and
\* apply the policy.
LivenessEvent ==
    /\ IF worker.child THEN Send(worker.session, "Unreachable") ELSE UNCHANGED toS
    /\ events' = Tail(events)
    /\ UNCHANGED lw
    /\ IF OrphanPolicy = "Stop" /\ worker.child
       THEN IF child \in {"closed", "ended"}
            THEN \* the error ends the loop at once
                 /\ worker' = [worker EXCEPT !.status = "failed", !.session = None]
                 /\ UNCHANGED child
            ELSE /\ child' = "stopping"
                 /\ worker' = [worker EXCEPT !.session = None]
       ELSE worker' = [worker EXCEPT !.session = None] /\ UNCHANGED child

\* The child's event: report it to the session, forget the child and exit.
ChildEvent ==
    /\ IF worker.session # None THEN Send(worker.session, "Terminal") ELSE UNCHANGED toS
    /\ IF worker.status = "live"
       THEN WorkerOver("stopped")
       ELSE /\ worker' = [worker EXCEPT !.child = FALSE]
            /\ events' = Tail(events)
            /\ UNCHANGED <<child, lw>>

\* An event of neither the child nor the current liveness actor: absorbed when
\* no session is active, otherwise a debug assertion and an unhandled error.
StrayEvent ==
    /\ UNCHANGED toS
    /\ \/ /\ worker.session # None
          /\ WorkerOver("failed")
       \/ /\ worker.session # None => ~Head(events).error
          /\ events' = Tail(events)
          /\ UNCHANGED <<worker, child, lw>>

\* Whatever is not the liveness actor's event is taken for the child's.
IsChildEventOther(who) == worker.child

\* is_liveness_event and is_child_event.
IsLivenessEvent(who) == who = worker.session
IsChildEvent(who) == worker.child /\ who = Child

WorkerEvent ==
    /\ worker.status \in {"live", "failing"} /\ events # <<>>
    /\ LET who == Head(events).who
       IN  \/ IsLivenessEvent(who) /\ LivenessEvent
           \/ ~IsLivenessEvent(who) /\ IsChildEvent(who) /\ ChildEvent
           \/ ~IsLivenessEvent(who) /\ ~IsChildEvent(who) /\ StrayEvent
    /\ UNCHANGED <<bootstrap, supVars, toW, unlinks, returned, faults>>

\* A failing worker has handled what was queued.
WorkerFails ==
    /\ worker.status = "failing" /\ events = <<>>
    /\ WorkerOver("failed")
    /\ UNCHANGED <<bootstrap, supVars, toW, toS, unlinks, returned, faults>>

\* The worker is stopped on its own side, or its proc is stopped.
WorkerStopped ==
    /\ worker.status = "live"
    /\ WorkerOver("stopped")
    /\ Fault
    /\ UNCHANGED <<bootstrap, supVars, toW, toS, unlinks, returned>>

-----------------------------------------------------------------------------
SupStep(s) == SupReceive(s) \/ SupLivenessEvent(s)
WorkerStep(s) == WorkerReceive(s) \/ WorkerUnreachable(s) \/ WorkerReturned(s) \/ WorkerUnlink(s)
Environment(s) == SupInit(s) \/ SupHandleStop(s) \/ SupKilled(s) \/ PostUnlink(s)

Next ==
    \/ \E s \in Session : SupStep(s) \/ WorkerStep(s) \/ Environment(s)
    \/ \E s \in Session : LsFails(s) \/ LwFails(s) \/ LwStops(s)
    \/ ChildCloses \/ ChildReports
    \/ WorkerSpawn \/ WorkerEvent \/ WorkerFails \/ WorkerStopped

Spec == Init /\ [][Next]_vars

\* Every actor's loop runs (they are tokio tasks), messages on a live path
\* arrive, a keepalive without an answer is missed (KeepaliveLink), and a child
\* that was told to stop stops.
Fairness ==
    /\ \A s \in Session :
        /\ WF_vars(SupReceive(s)) /\ WF_vars(SupLivenessEvent(s))
        /\ WF_vars(WorkerReceive(s)) /\ WF_vars(WorkerUnreachable(s))
        /\ WF_vars(WorkerReturned(s))
        /\ WF_vars(lw[s] # "live" /\ LsFails(s))
        /\ WF_vars(ls[s] # "live" /\ LwFails(s))
        /\ WF_vars(LwStops(s))
    /\ WF_vars(child = "stopping" /\ ChildCloses)
    /\ WF_vars(ChildReports)
    /\ WF_vars(WorkerEvent) /\ WF_vars(WorkerFails)

FairSpec == Spec /\ Fairness

-----------------------------------------------------------------------------
(* Properties.                                                              *)

\* A liveness actor is live on the worker's side only for the session the
\* worker has: no session is given up and left ticking, and so never more than
\* one supervisor is kept convinced that it has the child.
OneLiveLink ==
    \A s \in Session : lw[s] = "live" => worker.session = s

\* Terminal is only reported for a child that has ended ("disposition:
\* Terminal"), so a supervisor that ends with it has not left the child behind.
TerminalIsTrue ==
    \A s \in Session :
        (sup[s].outcome = "Terminal" \/ Contains(toS[s], "Terminal"))
            => child = "ended"

\* Under OrphanPolicy::Stop a child does not outlive the session that has it:
\* once the supervisor is gone, however it went and whatever was on the way,
\* the child ends.
NoOrphan ==
    OrphanPolicy = "Stop" =>
        \A s \in Session :
            (worker.session = s /\ sup[s].status = "ended") ~> (child = "ended")

\* A supervisor ends once its child has ended, by an event, a return or a
\* missed keepalive and whatever became of the worker, and once it was told to
\* stop, also when the stop came before the link and had to be kept.
SupervisorEnds ==
    \A s \in Session :
        (sup[s].status = "live" /\ (child = "ended" \/ sup[s].stopAsked))
            ~> (sup[s].status = "ended")

\* The active session is healthy: its supervisor wants the child, and both
\* liveness actors are up.
Healthy(s) ==
    /\ worker.session = s /\ worker.status = "live"
    /\ sup[s].status = "live" /\ ~sup[s].stopAsked
    /\ ls[s] = "live" /\ lw[s] = "live" /\ s \notin unlinks

\* "allow only the active session to control that child": while the active
\* session is healthy, no request of another session and no message of an
\* earlier one that comes back ends the session or fails the worker.
OnlyActiveControls ==
    [][\A s, r \in Session :
        (/\ r # s /\ Healthy(s)
         /\ WorkerReceive(r) \/ WorkerReturned(r) \/ WorkerUnlink(r))
        => (worker'.session = s /\ worker'.status = "live")]_vars

=============================================================================
