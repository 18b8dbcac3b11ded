--------------------------- MODULE HandlerIngress ---------------------------
(***************************************************************************)
(* How an actor closes its ingress and ends: the gates that count the      *)
(* sends in progress (HandlerIngressGate of mailbox.rs and its copy for    *)
(* delayed posts in proc.rs), the work queue with its depth accounting,    *)
(* and the stop of the actor loop (handle_stop, close, exit_after_drain).  *)
(*                                                                         *)
(* Threads deliver messages, one each, with the sequence numbers of one    *)
(* session; other threads call post_after.  The steps are the atomic       *)
(* operations of the code: compare-exchange, fetch_sub, lock, wait.        *)
(***************************************************************************)
EXTENDS Integers, Sequences, FiniteSets

CONSTANTS
    Messages,       \* how many messages are delivered, each by a thread
    Delayers        \* how many threads call post_after

ASSUME ThreadsAssumption == Messages \in Nat \ {0} /\ Delayers \in Nat

VARIABLES
    draining,       \* Gate -> the high bit of its state
    active,         \* Gate -> the other bits: the guards that are out
    lock,           \* Gate -> who holds wait_lock
    pc,             \* Thread -> where its send is
    seen,           \* Thread -> the state its compare-exchange expects
    actor,          \* where the actor is
    asked,          \* the stop it was asked for: "none", "Stop", "Drain", "Kill"
    channel,        \* the work queue's channel
    buffer,         \* messages that wait for an earlier one
    ready,          \* messages released, not handled
    handled,        \* messages handled, in order
    delayed,        \* the queue of delayed posts
    depth           \* queue_depth

vars == <<draining, active, lock, pc, seen, actor, asked, channel, buffer,
          ready, handled, delayed, depth>>
gateVars == <<draining, active, lock>>
queueVars == <<channel, buffer, ready, handled, delayed, depth>>

Message == 1..Messages
Delayer == (Messages + 1)..(Messages + Delayers)
Thread == Message \cup Delayer
Gate == {"handler", "delayed"}
Actor == 0          \* as the holder of a lock
Nobody == -1
Exit == 0           \* the work item of exit_after_drain

GateOf(t) == IF t \in Message THEN "handler" ELSE "delayed"

\* The threads that hold a guard of gate g.
Inside(g) == {t \in Thread : GateOf(t) = g /\ pc[t] \in {"entered", "accounted", "sent"}}

Init ==
    /\ draining = [g \in Gate |-> FALSE]
    /\ active = [g \in Gate |-> 0]
    /\ lock = [g \in Gate |-> Nobody]
    /\ pc = [t \in Thread |-> "load"]
    /\ seen = [t \in Thread |-> 0]
    /\ actor = [at |-> "loop", gate |-> "delayed"]
    /\ asked = "none"
    /\ channel = <<>>
    /\ buffer = {}
    /\ ready = <<>>
    /\ handled = <<>>
    /\ delayed = {}
    /\ depth = 0

-----------------------------------------------------------------------------
(* try_enter, the send, and the drop of the guard.                          *)

Goto(t, where) == pc' = [pc EXCEPT ![t] = where]

\* What try_enter makes of a state it was given: it gives up, or tries to add one.
Expect(t) ==
    IF draining[GateOf(t)]
    THEN Goto(t, "rejected") /\ seen' = [seen EXCEPT ![t] = 0]
    ELSE Goto(t, "cas") /\ seen' = [seen EXCEPT ![t] = active[GateOf(t)]]

Load(t) ==
    /\ pc[t] = "load"
    /\ Expect(t)
    /\ UNCHANGED <<gateVars, actor, asked, queueVars>>

Entered(t, count) ==
    /\ active' = [active EXCEPT ![GateOf(t)] = count]
    /\ Goto(t, "entered")
    /\ seen' = [seen EXCEPT ![t] = 0]

\* The check of the flag and the increment are two operations.
AddUnchecked(t) ==
    /\ pc[t] = "cas"
    /\ Entered(t, active[GateOf(t)] + 1)
    /\ UNCHANGED <<draining, lock, actor, asked, queueVars>>

\* compare_exchange_weak: the whole word has to be what was loaded; if it is not, it
\* is looked at again.
CompareExchange(t) ==
    /\ pc[t] = "cas"
    /\ IF ~draining[GateOf(t)] /\ active[GateOf(t)] = seen[t]
       THEN Entered(t, seen[t] + 1)
       ELSE Expect(t) /\ UNCHANGED active
    /\ UNCHANGED <<draining, lock, actor, asked, queueVars>>

\* account_enqueue, before the work is handed to the queue.
Account(t) ==
    /\ pc[t] = "entered" /\ t \in Message
    /\ depth' = depth + 1
    /\ Goto(t, "accounted")
    /\ UNCHANGED <<gateVars, seen, actor, asked, channel, buffer, ready, handled, delayed>>

\* A failed send leaves the counter as it is.
SendNoRollback(t) ==
    /\ pc[t] = "accounted"
    /\ Goto(t, "sent")
    /\ channel' = IF actor.at = "ended" THEN channel ELSE Append(channel, t)
    /\ UNCHANGED <<gateVars, seen, actor, asked, buffer, ready, handled, delayed, depth>>

\* workq.send; account_cancel_enqueue when the receiver is gone.
Send(t) ==
    /\ pc[t] = "accounted"
    /\ Goto(t, "sent")
    /\ IF actor.at = "ended"
       THEN depth' = depth - 1 /\ UNCHANGED channel
       ELSE channel' = Append(channel, t) /\ UNCHANGED depth
    /\ UNCHANGED <<gateVars, seen, actor, asked, buffer, ready, handled, delayed>>

Stopping == asked # "none" \* the status, set before handle_stop and after the loop

\* post_after, with the guard held: not once the actor is stopping.
Push(t) ==
    /\ pc[t] = "entered" /\ t \in Delayer
    /\ Goto(t, "sent")
    /\ delayed' = IF Stopping THEN delayed ELSE delayed \cup {t}
    /\ UNCHANGED <<gateVars, seen, actor, asked, channel, buffer, ready, handled, depth>>

\* The guard's drop; the last one of a gate that is draining has to notify.
FetchSub(t) ==
    LET g == GateOf(t)
    IN  /\ pc[t] = "sent"
        /\ active' = [active EXCEPT ![g] = @ - 1]
        /\ Goto(t, IF draining[g] /\ active[g] = 1 THEN "notify" ELSE "done")
        /\ UNCHANGED <<draining, lock, seen, actor, asked, queueVars>>

\* A waiter is woken if there is one.
WakeUp(g) ==
    actor' = IF actor.at = "asleep" /\ actor.gate = g THEN [actor EXCEPT !.at = "lock"] ELSE actor

\* The notification does not wait for the lock.
NotifyUnlocked(t) ==
    /\ pc[t] = "notify"
    /\ WakeUp(GateOf(t))
    /\ Goto(t, "done")
    /\ UNCHANGED <<gateVars, seen, asked, queueVars>>

\* wait_lock is taken and released around notify_all.
NotifyLast(t) ==
    /\ pc[t] = "notify" /\ lock[GateOf(t)] = Nobody
    /\ WakeUp(GateOf(t))
    /\ Goto(t, "done")
    /\ UNCHANGED <<gateVars, seen, asked, queueVars>>

-----------------------------------------------------------------------------
(* The actor loop.                                                          *)

ToLoop == actor' = [at |-> "loop", gate |-> "delayed"]

\* Receiving a message releases it and the ones that waited for it.
Released(m) ==
    LET have == buffer \cup {m}
        next == Len(handled) + 1
    IN  {k \in have : \A j \in next..k : j \in have}

Pull ==
    /\ actor.at = "loop" /\ ready = <<>> /\ channel # <<>> /\ Head(channel) # Exit
    /\ LET m == Head(channel)
       IN  /\ ready' = [i \in 1..Cardinality(Released(m)) |-> Len(handled) + i]
           /\ buffer' = (buffer \cup {m}) \ Released(m)
    /\ channel' = Tail(channel)
    /\ UNCHANGED <<gateVars, pc, seen, actor, asked, handled, delayed, depth>>

\* account_dequeue and the handler.
Handle ==
    /\ actor.at = "loop" /\ ready # <<>>
    /\ handled' = Append(handled, Head(ready))
    /\ ready' = Tail(ready)
    /\ depth' = depth - 1
    /\ UNCHANGED <<gateVars, pc, seen, actor, asked, channel, buffer, delayed>>

\* The exit item, behind everything that was accepted: it asks for the exit.
HandleExit ==
    /\ actor.at = "loop" /\ ready = <<>> /\ channel # <<>> /\ Head(channel) = Exit
    /\ channel' = Tail(channel)
    /\ depth' = depth - 1
    /\ actor' = [actor EXCEPT !.at = "exit"]
    /\ UNCHANGED <<gateVars, pc, seen, asked, buffer, ready, handled, delayed>>

\* A delayed post that is due: the loop takes it while it is not stopping.
DelayedDue(t) ==
    /\ actor.at = "loop" /\ ~Stopping /\ t \in delayed
    /\ delayed' = delayed \ {t}
    /\ UNCHANGED <<gateVars, pc, seen, actor, asked, channel, buffer, ready, handled, depth>>

\* Signal::Stop and DrainAndStop run handle_stop, whose close drains the gate of
\* the delayed posts first; Kill ends the loop as it is.  A drain may be cut short.
RecvStop(kind) ==
    /\ actor.at = "loop"
    /\ asked = "none" \/ (asked = "Drain" /\ kind # "Drain")
    /\ asked' = kind
    /\ actor' = IF kind = "Kill" THEN [actor EXCEPT !.at = "exit"] ELSE [actor EXCEPT !.at = "set"]
    /\ UNCHANGED <<gateVars, pc, seen, queueVars>>

-----------------------------------------------------------------------------
(* drain.                                                                   *)

DrainSet ==
    /\ actor.at = "set"
    /\ draining' = [draining EXCEPT ![actor.gate] = TRUE]
    /\ actor' = [actor EXCEPT !.at = "lock"]
    /\ UNCHANGED <<active, lock, pc, seen, asked, queueVars>>

DrainLock ==
    /\ actor.at = "lock" /\ lock[actor.gate] = Nobody
    /\ lock' = [lock EXCEPT ![actor.gate] = Actor]
    /\ actor' = [actor EXCEPT !.at = "check"]
    /\ UNCHANGED <<draining, active, pc, seen, asked, queueVars>>

\* After the handler gate, the exit is asked for: at once, or as a work item.
AfterDrain ==
    IF actor.gate = "delayed"
    THEN actor' = [at |-> "set", gate |-> "handler"] /\ UNCHANGED <<channel, depth>>
    ELSE IF asked = "Stop"
    THEN actor' = [actor EXCEPT !.at = "exit"] /\ UNCHANGED <<channel, depth>>
    ELSE /\ ToLoop
         /\ channel' = Append(channel, Exit)
         /\ depth' = depth + 1

\* The gate is taken for drained when the flag is set.
DrainCheckFlag ==
    /\ actor.at = "check"
    /\ lock' = [lock EXCEPT ![actor.gate] = Nobody]
    /\ AfterDrain
    /\ UNCHANGED <<draining, active, pc, seen, asked, buffer, ready, handled, delayed>>

DrainCheck ==
    /\ actor.at = "check"
    /\ IF active[actor.gate] = 0
       THEN lock' = [lock EXCEPT ![actor.gate] = Nobody] /\ AfterDrain
       ELSE actor' = [actor EXCEPT !.at = "sleep"] /\ UNCHANGED <<lock, channel, depth>>
    /\ UNCHANGED <<draining, active, pc, seen, asked, buffer, ready, handled, delayed>>

\* Condvar::wait releases the lock and sleeps in one step.
DrainSleep ==
    /\ actor.at = "sleep"
    /\ lock' = [lock EXCEPT ![actor.gate] = Nobody]
    /\ actor' = [actor EXCEPT !.at = "asleep"]
    /\ UNCHANGED <<draining, active, pc, seen, asked, queueVars>>

\* The loop is over; the receiver of the work queue is dropped with what it has.
End ==
    /\ actor.at = "exit"
    /\ actor' = [actor EXCEPT !.at = "ended"]
    /\ UNCHANGED <<gateVars, pc, seen, asked, queueVars>>

\* Everybody is done.
Finished ==
    /\ actor.at = "ended"
    /\ \A t \in Thread : pc[t] \in {"done", "rejected"}
    /\ UNCHANGED vars

ThreadStep(t) ==
    \/ Load(t) \/ CompareExchange(t) \/ Account(t) \/ Send(t) \/ Push(t)
    \/ FetchSub(t) \/ NotifyLast(t)
ActorStep ==
    \/ Pull \/ Handle \/ HandleExit \/ DrainSet \/ DrainLock \/ DrainCheck \/ DrainSleep \/ End
    \/ \E t \in Delayer : DelayedDue(t)

Next ==
    \/ \E t \in Thread : ThreadStep(t)
    \/ ActorStep
    \/ \E kind \in {"Stop", "Drain", "Kill"} : RecvStop(kind)
    \/ Finished

Spec == Init /\ [][Next]_vars

\* Threads that are inside a send are not stopped for ever, and the actor runs.
Fairness == WF_vars(ActorStep) /\ \A t \in Thread : WF_vars(ThreadStep(t))

FairSpec == Spec /\ Fairness

-----------------------------------------------------------------------------
(* Properties.                                                              *)

Past == {"sent", "notify", "done"}
Waiting == {"lock", "check", "sleep", "asleep"}

\* The types; and the assertion of the guard's drop, that the count of a gate does
\* not go below zero, since it is the number of the guards that are out.
TypeOK ==
    /\ draining \in [Gate -> BOOLEAN]
    /\ active \in [Gate -> Nat]
    /\ \A g \in Gate : active[g] = Cardinality(Inside(g))
    /\ lock \in [Gate -> {Nobody, Actor}]
    /\ pc \in [Thread -> {"load", "cas", "entered", "accounted", "rejected"} \cup Past]
    /\ seen \in [Thread -> Nat]
    /\ asked \in {"none", "Stop", "Drain", "Kill"}
    /\ actor \in [at : {"loop", "set", "exit", "ended"} \cup Waiting, gate : Gate]

\* The drain of gate g has returned.
Drained(g) == draining[g] /\ ~(actor.gate = g /\ actor.at \in Waiting)

\* "After this method returns, no handler work can still be entering the actor queue
\* through a handler port" (Mailbox::drain), nor a delayed post its queue: once a
\* drain has returned, no thread is inside the gate, however the compare-exchanges,
\* the flag and the drops of the guards interleaved.
GateHolds == \A g \in Gate : Drained(g) => Inside(g) = {}

\* DrainAndStop handles what it accepted: an actor that ended by draining handled, in
\* order, every message that got past the gate and whose predecessors did too.  (A
\* message whose predecessor was rejected stays in the reorder buffer for good.)
DrainHandlesAll ==
    actor.at = "ended" /\ asked = "Drain" =>
        /\ \A m \in Message : (\A k \in 1..m : pc[k] \in Past) => Len(handled) >= m
        /\ \A i \in 1..Len(handled) : handled[i] = i

\* queue_depth is the number of work items between account_enqueue and
\* account_dequeue, wherever they wait (PD-5a): it never drifts and, being unsigned,
\* never wraps below zero.
DepthExact ==
    depth = Cardinality({t \in Thread : pc[t] = "accounted"})
            + Len(channel) + Cardinality(buffer) + Len(ready)

\* An actor that is asked to stop or to drain gets through both gates and ends: no
\* wake-up of the drain is lost between its check and its sleep.
StopReturns == (asked # "none") ~> (actor.at = "ended")
=============================================================================
