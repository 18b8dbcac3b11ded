---------------------------- MODULE KeepaliveLink ----------------------------
(***************************************************************************)
(* The message-based liveness link of hyperactor_remote/src/keepalive.rs.  *)
(* A KeepaliveWorker sends numbered keepalives; a KeepaliveSupervisor      *)
(* answers each one; either side kills itself when the other has been      *)
(* silent for too long.  Timers are never cancelled: a late timer is       *)
(* recognised by the generation it carries.                                *)
(*                                                                         *)
(* Time is an integer clock.  A handler takes no time; a message of a      *)
(* healthy link arrives, in the order it was sent, within MaxDelay ticks;  *)
(* a self message of post_after is handled in the tick it is due.          *)
(***************************************************************************)
EXTENDS Integers, Sequences, FiniteSets

CONSTANTS
    Interval,       \* KeepaliveParams.interval
    Timeout,        \* KeepaliveParams.timeout
    MaxDelay,       \* longest delivery on a healthy link
    SpawnDelay,     \* the worker starts at most this long after the supervisor
    MaxTime         \* bound: the clock stops here

ASSUME ParamsAssumption ==
    /\ Interval \in Nat \ {0}
    /\ Timeout \in Nat \ {0}
    /\ MaxDelay \in Nat
    /\ SpawnDelay \in Nat
    /\ MaxTime \in Nat

\* What keeps each side of a healthy link up.  Nothing in the code asks for
\* either.  KeepaliveLink::default (60 s and 60 s) has the first for any delay
\* below 30 s; it never has the second.
AcksInTime == 2 * MaxDelay < Timeout
KeepalivesInTime ==
    /\ Interval + MaxDelay < Timeout
    /\ SpawnDelay + MaxDelay < Timeout

VARIABLES
    now,            \* the clock
    worker,         \* KeepaliveWorker: status, generation, acked_generation
    supervisor,     \* KeepaliveSupervisor: status, generation
    wTimers,        \* delayed posts of the worker to itself
    sTimers,        \* delayed posts of the supervisor to itself
    keepalives,     \* Keepalive messages in flight, oldest first
    acks,           \* KeepaliveAck messages in flight, oldest first
    cutAt,          \* when the network path was lost, or Never
    endedAt         \* when each side left "live", or Never

vars == <<now, worker, supervisor, wTimers, sTimers, keepalives, acks, cutAt,
          endedAt>>

Side == {"worker", "supervisor"}
Status == {"unborn", "live", "failed", "gone"}
Never == MaxTime + 1
Max2(a, b) == IF a >= b THEN a ELSE b

Timer(kind, generation, delay) ==
    [kind |-> kind, generation |-> generation, due |-> now + delay]
Message(generation) == [generation |-> generation, sent |-> now]

TypeOK ==
    /\ now \in 0..MaxTime
    /\ worker.status \in Status /\ supervisor.status \in Status
    /\ \A t \in wTimers : t.kind \in {"SendKeepalive", "AckDeadline"}
    /\ \A t \in sTimers : t.kind = "Deadline"
    /\ cutAt \in 0..Never
    /\ endedAt \in [Side -> 0..Never]
    /\ worker.acked <= supervisor.generation
    /\ supervisor.generation <= worker.generation

-----------------------------------------------------------------------------
(* The supervisor is spawned first (spawn_supervisor_uid): its init         *)
(* schedules a deadline for generation 0, before any keepalive exists.      *)

ScheduleDeadline(generation) ==
    sTimers' = sTimers \cup {Timer("Deadline", generation, Timeout)}

Init ==
    /\ now = 0
    /\ worker = [status |-> "unborn", generation |-> 0, acked |-> 0]
    /\ supervisor = [status |-> "live", generation |-> 0]
    /\ wTimers = {}
    /\ sTimers = {[kind |-> "Deadline", generation |-> 0, due |-> Timeout]}
    /\ keepalives = <<>>
    /\ acks = <<>>
    /\ cutAt = Never
    /\ endedAt = [s \in Side |-> Never]

Linked == cutAt = Never
End(s) == endedAt' = [endedAt EXCEPT ![s] = now]

\* A message posted on a lost path goes nowhere.
Post(queue, generation) ==
    IF Linked THEN Append(queue, Message(generation)) ELSE queue

\* KeepaliveWorker::send_keepalive: the next generation goes out, with the two
\* timers that belong to it; `rest` are the timers not consumed by the handler.
SendNext(rest) ==
    LET g == worker.generation + 1
    IN  /\ worker' = [worker EXCEPT !.status = "live", !.generation = g]
        /\ keepalives' = Post(keepalives, g)
        /\ wTimers' = rest \cup {Timer("SendKeepalive", g, Interval),
                                 Timer("AckDeadline", g, Timeout)}

-----------------------------------------------------------------------------
(* The worker.                                                              *)

WorkerInit ==
    /\ worker.status = "unborn"
    /\ SendNext({})
    /\ UNCHANGED <<now, supervisor, sTimers, acks, cutAt, endedAt>>

DueW(t, kind) == t \in wTimers /\ t.kind = kind /\ t.due <= now

HandleSendKeepalive(t) ==
    /\ worker.status = "live" /\ DueW(t, "SendKeepalive")
    /\ IF t.generation = worker.generation
       THEN SendNext(wTimers \ {t})
       ELSE wTimers' = wTimers \ {t} /\ UNCHANGED <<worker, keepalives>>
    /\ UNCHANGED <<now, supervisor, sTimers, acks, cutAt, endedAt>>

HandleAck ==
    /\ worker.status = "live" /\ acks # <<>>
    /\ worker' = [worker EXCEPT !.acked = Max2(@, Head(acks).generation)]
    /\ acks' = Tail(acks)
    /\ UNCHANGED <<now, supervisor, wTimers, sTimers, keepalives, cutAt, endedAt>>

\* Every deadline taken for a missed one, whatever was acknowledged since.
AckMissedAlways(t) == worker.generation >= t.generation

AckMissed(t) == worker.acked < t.generation

HandleAckDeadline(t) ==
    /\ worker.status = "live" /\ DueW(t, "AckDeadline")
    /\ wTimers' = wTimers \ {t}
    /\ IF AckMissed(t)
       THEN worker' = [worker EXCEPT !.status = "failed"] /\ End("worker")
       ELSE UNCHANGED <<worker, endedAt>>
    /\ UNCHANGED <<now, supervisor, sTimers, keepalives, acks, cutAt>>

-----------------------------------------------------------------------------
(* The supervisor.                                                          *)

HandleKeepalive ==
    /\ supervisor.status = "live" /\ keepalives # <<>>
    /\ LET k == Head(keepalives)
           g == Max2(supervisor.generation, k.generation)
       IN  /\ supervisor' = [supervisor EXCEPT !.generation = g]
           /\ acks' = Post(acks, k.generation)
           /\ ScheduleDeadline(g)
    /\ keepalives' = Tail(keepalives)
    /\ UNCHANGED <<now, worker, wTimers, cutAt, endedAt>>

\* Only a later generation than any seen could count as missed.
KeepaliveMissedNewer(t) == t.generation > supervisor.generation

KeepaliveMissed(t) == t.generation = supervisor.generation

HandleDeadline(t) ==
    /\ supervisor.status = "live" /\ t \in sTimers /\ t.due <= now
    /\ sTimers' = sTimers \ {t}
    /\ IF KeepaliveMissed(t)
       THEN supervisor' = [supervisor EXCEPT !.status = "failed"] /\ End("supervisor")
       ELSE UNCHANGED <<supervisor, endedAt>>
    /\ UNCHANGED <<now, worker, wTimers, keepalives, acks, cutAt>>

-----------------------------------------------------------------------------
(* The surroundings.                                                        *)

\* A message to an actor that has ended, on a proc that is still up, comes
\* back as an invalid reference, which fails its sender by default
\* (actor.rs handle_invalid_reference); with the proc gone it is a transport
\* failure, which the sender ignores.
KeepaliveReturned ==
    /\ supervisor.status \in {"failed", "gone"} /\ keepalives # <<>>
    /\ keepalives' = Tail(keepalives)
    /\ \/ /\ worker.status = "live"
          /\ worker' = [worker EXCEPT !.status = "failed"]
          /\ End("worker")
       \/ UNCHANGED <<worker, endedAt>>
    /\ UNCHANGED <<now, supervisor, wTimers, sTimers, acks, cutAt>>

AckReturned ==
    /\ worker.status \in {"failed", "gone"} /\ acks # <<>>
    /\ acks' = Tail(acks)
    /\ \/ /\ supervisor.status = "live"
          /\ supervisor' = [supervisor EXCEPT !.status = "failed"]
          /\ End("supervisor")
       \/ UNCHANGED <<supervisor, endedAt>>
    /\ UNCHANGED <<now, worker, wTimers, sTimers, keepalives, cutAt>>

\* A side is stopped by its parent, or its proc dies.
SupervisorEnds ==
    /\ supervisor.status = "live"
    /\ supervisor' = [supervisor EXCEPT !.status = "gone"]
    /\ End("supervisor")
    /\ UNCHANGED <<now, worker, wTimers, sTimers, keepalives, acks, cutAt>>

WorkerEnds ==
    /\ worker.status \in {"unborn", "live"}
    /\ worker' = [worker EXCEPT !.status = "gone"]
    /\ End("worker")
    /\ UNCHANGED <<now, supervisor, wTimers, sTimers, keepalives, acks, cutAt>>

\* The path between the procs is lost, with what was on it.
Cut ==
    /\ Linked
    /\ cutAt' = now
    /\ keepalives' = <<>>
    /\ acks' = <<>>
    /\ UNCHANGED <<now, worker, supervisor, wTimers, sTimers, endedAt>>

\* Time passes once every timer that is due was handled, every message that has
\* used up its delay was delivered, and the worker has started in time.
Settled ==
    /\ worker.status = "live" => \A t \in wTimers : t.due > now
    /\ supervisor.status = "live" => \A t \in sTimers : t.due > now
    /\ \A i \in DOMAIN keepalives : keepalives[i].sent + MaxDelay > now
    /\ \A i \in DOMAIN acks : acks[i].sent + MaxDelay > now
    /\ worker.status = "unborn" => now < SpawnDelay

Tick ==
    /\ now < MaxTime
    /\ Settled
    /\ now' = now + 1
    /\ UNCHANGED <<worker, supervisor, wTimers, sTimers, keepalives, acks, cutAt, endedAt>>

\* The bound of the clock: the behaviour is looked at no further.
Horizon ==
    /\ now = MaxTime
    /\ UNCHANGED vars

Next ==
    \/ WorkerInit
    \/ \E t \in wTimers : HandleSendKeepalive(t) \/ HandleAckDeadline(t)
    \/ HandleAck
    \/ HandleKeepalive
    \/ \E t \in sTimers : HandleDeadline(t)
    \/ KeepaliveReturned
    \/ AckReturned
    \/ SupervisorEnds
    \/ WorkerEnds
    \/ Cut
    \/ Tick
    \/ Horizon

Spec == Init /\ [][Next]_vars

-----------------------------------------------------------------------------
(* Properties.                                                              *)

\* While the path is up, no timer is the first thing to end a side (the
\* AckDeadline and Deadline handlers): a timer that outlived its generation is
\* harmless, and a current one is disarmed before it is due.  A worker whose
\* supervisor runs needs only that a round trip fits in the timeout, whatever
\* the interval; a supervisor whose worker runs, or is still to start, needs
\* the interval and the start to leave time for a delivery.
WorkerStays ==
    AcksInTime /\ Linked /\ supervisor.status = "live" => worker.status # "failed"
SupervisorSafe ==
    Linked /\ worker.status \in {"unborn", "live"} => supervisor.status # "failed"
HealthyLinkStays ==
    /\ WorkerStays
    /\ KeepalivesInTime => SupervisorSafe

Earlier(a, b) == IF a <= b THEN a ELSE b

\* A worker whose supervisor has ended, for whatever reason, or whose path was
\* lost does not outlive it by more than the wait for the next keepalive, its
\* first one if it starts only later, and that keepalive's acknowledgment
\* deadline (AckDeadline).
WorkerDetects ==
    LET lost == Earlier(cutAt, endedAt["supervisor"])
    IN  now > Max2(lost + Interval, SpawnDelay) + Timeout => worker.status # "live"

\* A supervisor does not outlive its worker, or the path to it, by more than a
\* delivery and one deadline; a worker that never started is missed as well.
SupervisorDetects ==
    LET lost == Earlier(cutAt, endedAt["worker"])
    IN  now > lost + MaxDelay + Timeout => supervisor.status # "live"

\* Either side notices the loss of the other within a bounded time.
LossDetected == WorkerDetects /\ SupervisorDetects

\* What each side knows lags behind what the other did, in the order of
\* keepalive, receipt and acknowledgment: the comment of the Deadline handler
\* relies on it ("A larger deadline generation cannot be produced").
Ascending(q) == \A i, j \in DOMAIN q : i < j => q[i].generation < q[j].generation
GenerationsInOrder ==
    /\ Ascending(keepalives) /\ Ascending(acks)
    /\ \A i \in DOMAIN keepalives : keepalives[i].generation > supervisor.generation
    /\ \A i \in DOMAIN acks : /\ acks[i].generation > worker.acked
                              /\ acks[i].generation <= supervisor.generation
    /\ \A t \in sTimers : t.generation <= supervisor.generation

=============================================================================
