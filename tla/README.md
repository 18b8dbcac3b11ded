# Monarch in TLA+

Monarch is a distributed actor system: Rust crates (`hyperactor`, the actor
runtime and its network channels; `hyperactor_mesh`, meshes of hosts, procs and
actors; `hyperactor_cast`, multicast; and many smaller ones) under a Python
library. This directory holds TLA+ models of its core protocols, TLC runs that
check them on small instances, and TLAPS proofs for every instance.

Read `PROJECT.json` beside this file: it lists the runs, the mutants that show
each property can fail, the source lines behind each definition, the hazards
the properties are aimed at, and the theorems.

## Inventory

| Part | State | Operations | What makes it hard | What makes it correct |
|---|---|---|---|---|
| Simplex session, client (`channel/net.rs`, `session.rs`) | unbounded queue, `Outbox`, `Unacked`, `largest_acked`, `next_seq`, one connection | post, lazy connect, write, read ack, reconnect and requeue, timeout, close | breaks and reconnects at every point, acks out of step with redelivery, timeout against a late ack | one ascending run of numbers, every post reported once, never accepted unless delivered |
| Simplex session, server (`server.rs`, `session.rs`) | session map, hand-off queue, `Next {seq, ack}`, pending ack, bounded inbox | accept, dispatch, deliver, ack by count or time, final ack, stop | connections dispatched in any order, a full inbox, cancellation, restart | delivery in order, once, without gap; stop terminates |
| Receive-side sequencing (`sequenced.rs`) | per session: expected number, ring, head, spillover; `ready` | admit, insert, grow, advance, refill, drain, reset, snapshot | reordering and duplicates of any shape across ring boundaries | each session in order, once each, as soon as possible |
| Send-side sequencing (`ordering.rs`) | map key -> last number, shared by clones | assign_seq, assign_seqs in chunks under a mutex | clones interleave between chunks | numbers of a key are 1, 2, 3, ...; runs decode to them |
| Multi-stream session (`net.rs`, `server.rs`, `session.rs`) | work queue, shared unacked map, a writer per stream; `AckWatermark` shared by a receive loop per stream | number, queue, pull, write, insert, read ack; record, poll, ack, deliver, clean up | the ack of one stream's message travels on another stream; ack before insert; acks past gaps | an ack covers only numbers the server has seen, every post is reported once, the session ends |
| Duplex session (`duplex.rs`) | per side: deliveries, `Next`, pending ack, one writer, one demultiplexer slot | post, dial, hand off, accept, read for either loop, write, deliver, ack, flush, release, join | one loop ends and the other is dropped where it stands; a frame is cut off; connections in any order; writes that wait for a peer that does not read; dropped deliveries | both directions as for simplex; joins return |
| Frames and demux (`framed.rs`, `session.rs`) | partial frame, per-tag slot | write, resume, next_tagged | cancellation inside a frame; a tag nobody reads | frames arrive whole or not at all, no tag starves |
| Ingress of an actor (`mailbox.rs`, `proc.rs`) | gate word (flag and count), wait lock, work queue, delayed posts, queue depth | try_enter, send, leave, drain, close, post_after, exit_after_drain | a send against a drain, at the level of atomic operations; lost wake-ups | nothing enters a drained gate, a drain handles what it accepted |
| Mailboxes and routing (`mailbox.rs`, `gateway.rs`) | port tables, route tables, senders | post, bind, dial, return undeliverable | returns of returns, stale senders | every message delivered or returned once |
| Procs, actors, supervision (`proc.rs`, `actor.rs`, `supervision.rs`) | per actor: status, children, signal and event queues; the coordinator | spawn, handle, signal, stop, drain, fail, teardown, report, destroy_and_wait | stop racing failure racing events; a handler that hangs; timeouts on every level | a failure reaches a parent or the coordinator; no child outlives its parent; shutdown ends |
| Liveness links (`hyperactor_remote/src/keepalive.rs`) | generations, uncancelled timers | send, acknowledge, deadline | stale timers, late messages, lost path | a healthy link stays, a lost one is noticed |
| Remote supervision (`hyperactor_remote/src/supervision.rs`) | supervisor: session, pending stop; worker: child, session, policy | link, reject, unlink, stop, orphan, relay the child's end | two supervisors, messages that come back, events of earlier sessions | one session at a time, no orphan, no supervisor left waiting |
| Mesh agents, controllers, bootstrap (`hyperactor_mesh`) | resource tables, statuses, watchers | create, stop, get state, stream state | partial creation, lost agents | status converges to what happened |
| Casting (`hyperactor_cast`) | tree position, sequence numbers | cast, split, forward | order across different trees | each rank gets each cast in order |
| Sync primitives (`hyperactor/src/sync`, `preempt_rwlock`) | flags, waiters | signal, wait, preempt | lost wakeups | no waiter sleeps past its signal |
| Slicing, algebra (`ndslice`, `algebra`, `accum.rs`) | none | pure functions | boundaries | equal to their definitions |
| Everything else | - | telemetry, admin pages, macros, bindings, RDMA, tensors | I/O and foreign code | - |

How the parts interact: an actor's send takes a number from the `Sequencer` of
its session, the mailbox router picks the destination's `ChannelTx`, the simplex
session carries the envelope to the server's inbox, the mailbox server posts it
to a port, and the actor's `SequencedReceiver` puts the messages of each sender
into order (several routes, casts and retries can reorder them). Undeliverable
messages come back the same way. An actor's ingress gate decides which of its
messages still enter the work queue when it stops. A terminal event goes to the
parent's event queue, from a root to the coordinator of its proc; across procs a
`Worker` relays the event of its child to a `Supervisor`, and a keepalive link
stands in for the event when a proc or the network is gone.

## Modules

| Module | Models | Kind |
|---|---|---|
| `ReliableChannel` | what one `ChannelTx` promises while its server stays up | abstract |
| `SimplexSession` | `spawn_inner`, `send_connected`, `dispatch_stream`, `recv_connected` | detailed |
| `SimplexProofs` | theorems about `SimplexSession`, which implements `ReliableChannel` | proofs |
| `MultiStream` | `spawn_unordered`, `dispatch_multi_stream`, `multi_stream_recv_connected`, `AckWatermark` | detailed |
| `MultiStreamProofs` | theorems about `MultiStream` | proofs |
| `Duplex` | `duplex::spawn`, `dispatch_duplex_stream`, `DemuxFrameReader`, `Completion::drive` | detailed |
| `DuplexProofs` | theorems about `Duplex` | proofs |
| `OrderedDelivery` | what receive-side sequencing promises | abstract |
| `SequencedReceiver` | `SequencedReceiver`, `Sequencer::admit`, `Buffer` | detailed |
| `Sequencer` | `ordering::Sequencer` | detailed |
| `SequencingProofs` | theorems about `Sequencer` and `SequencedReceiver`, which implements `OrderedDelivery` | proofs |
| `HandlerIngress` | `HandlerIngressGate`, the delayed gate, work queue accounting, `close`, `exit_after_drain` | detailed |
| `HandlerIngressProofs` | theorems about `HandlerIngress` | proofs |
| `ActorTree` | `Instance::run`, `run_actor_tree`, `serve`, `Proc::destroy_and_wait` | detailed |
| `ActorTreeProofs` | theorems about `ActorTree` | proofs |
| `KeepaliveLink` | `KeepaliveWorker`, `KeepaliveSupervisor` | detailed, with a clock |
| `KeepaliveProofs` | theorems about `KeepaliveLink` | proofs |
| `RemoteSupervision` | `Supervisor`, `Worker`, `SupervisedChild`, `SpawnActor` | detailed |
| `RemoteProofs` | theorems about `RemoteSupervision` | proofs |

There is no separate MC module: each `.cfg` gives the constants their values
directly.

### SimplexSession

A message is the number of its post; a frame on the wire is its sequence number,
and `sent[s + 1]` is the message numbered `s`. The client task is `phase`
(`lazy` before the first message, `connecting`, `connected`, `closed`,
`panicked`) with the two deques of `Deliveries`. A connection has two queues and
two ends. `intact` holds the connections the network still carries. `Break`
takes one away and loses any suffix of what is in flight in each direction. A
write on a lost connection may still complete, into a buffer nobody reads: that
is why `WriteFrame` and `AckWritten` do not ask whether the peer listens. A
socket dropped with unread data is reset (`HangUp`, `ServerDrops`).

Each branch of a `select!` is an action. `CloseTx` is the code after the client's
loop, with every way out of the loop calling it. `RecvEnds` is the cleanup of
`dispatch_stream` (final ack, terminal response, release, then wait or remove the
session). `held` is a message in the hands of `deliver_tx.send`, during which the
loop does nothing else. Time is abstracted: a timer that is armed may fire at any
moment, which includes a delivery timeout just before the ack arrives. Frames
are written and read whole; `Duplex` cuts them off. The
model requires `AckEvery >= 1`; the configuration attribute does not, and 0 would
make the server compute `next.seq - 1` at `next.seq = 0`.

Outcomes: `accepted` and `rejected` are calls on the completion; `dropped` is a
completion that was dropped, which a receipt reports as accepted.

The specifications: `Spec` (the server stays up), `FaultSpec` (the `ChannelRx` may
be joined or dropped, and the server process may die and come back with nothing),
`RestartSpec` (restarts alone), `PatientSpec` (fair, and no delivery timeout).
`FairFaultSpec` is `FaultSpec` with the fairness below.

### MultiStream

A message is its sequence number. The dispatcher (`dphase`) numbers posts and puts
them into the bounded queue `shared`; the writer of a stream (`wphase`) pulls one,
writes it (`writing`), and only then enters it into the shared map `unacked`
(`inserting`): the write and the insertion are separate steps, because another
writer may run between them. Acks are read by whichever writer they reach. The
receive loop of a stream (`at`) is at the poll of the watermark, in its `select!`,
or blocked in `deliver_tx.send`. `mark` is the `AckWatermark` with -1 for `None`,
and its methods are operators on the record, each under the mutex in the code.
`RecvEnds` is the whole cleanup of `dispatch_multi_stream`, its ack of
`highest_uncommitted` included. The connections of a stream that wait for a
receive loop are a set, since they may be dispatched in any order. An ack timer may
fire whenever there is something to ack. `recorded` and `ackRead` are history
variables. `StopSpec` adds to `Spec` that the `ChannelRx` is joined or dropped; connections
behave as in `SimplexSession`. `Reject` is left out: no path of the multi-stream
server sends it.

### SequencedReceiver and Sequencer

A message is its sequence number; `flight` is whatever lies between the sender's
`assign_seq` and the receiver's channel, and hands messages over in any order,
some twice, some never. `Buffer` is a record of ring, head and spillover, and its
methods are operators on the record, so that an action is exactly one call of
`admit` or one pop of `ready`. `Drained` is the loop of `drain_ready`: its `Rounds`, as
many as there can be messages to release. `None`
and an empty spillover are the same set: every path of the code that empties the
map also resets it to `None` before anything reads it. The other actors cannot
see a state between, since `admit` holds the lock.

`Sequencer` keeps the locals of a running `assign_seqs` per task. The guard of the map is
held over steps (`Lock`, one `NumberKey` for each key of the chunk, `Unlock`); everybody
else who needs the map waits for it (`Unlocked`). `handed` and `took`, the numbers handed
out and those a call has taken, are history variables. Its definitions are named apart
from those of the receiver (`SendSpec`, `SendNext`), so that one module can reason about
both.

### Duplex

A side (`"I"`, the initiator, or `"A"`, the acceptor) is one record: its task
(`connect`, `run`, `clean`, `close`, `ended`; the acceptor begins with `offer`), its
deliveries (`queue`, `outbox`, `unacked`),
`Next` (`seq`, `ack`), the ack it owes (`pending`), what it is writing, the
demultiplexer's `slot` and the message in the hands of `deliver_tx.send` (`hold`).
`send_connected` and `recv_connected` are branches of one `select!`: their steps are
separate actions over that record, the writer serves one of them at a time, and a
frame is read by whichever loop asks and kept in the slot when it is the other's
(`Frame`, `Read`, `Fetch`). A write has a beginning and an end (`StartData`,
`DoneData`, `StartAck`, `DoneAck`), so that `LoopEnds` can drop it in between, which
leaves a `Torn` frame on the wire. A connection holds `WireCap` frames; a write to a full
one waits until the peer reads, lets go or is cut off (`Unread`). The code after the
`select!` is two steps, because each of its writes is awaited, without the token or a
timer: `Flush` (the ack that is due) and `Release` (the terminal response when the end is
terminal, `Announced`, and the release, followed by a new connection or by the end, which
drops every delivery).

`HandOff` is the `accept_tx.send` at `duplex.rs:487`: until there is room for the handles
the acceptor's task does nothing else, cancelled or not. `Accept` takes any prepared
connection: each one is prepared in a task of its own (`server.rs:514-518`) and reaches
the feeder when that task gets there. `TakeAck` is `Unacked::prune`: it pops what is
acked, or its assertion that acks never go back fails and the task is gone with its
deliveries (`Panic`). A write on a connection that the peer has left may fail before what
the peer wrote last is read (`WriteFails`): `recv_connected` drives its ack before it reads.
`Dropped` is what a receipt makes of a completion that is dropped, an acceptance; a sink
of another kind (`gateway.rs:163`) is not told (`channel.rs:279-287`, `349-369`). A session
that is dialled after its acceptor task has ended, oversized messages and serialization
errors are not repeated here.

### HandlerIngress

A gate is `draining` and `active`, the two parts of its atomic word; a step is one
atomic operation, one lock or one wait. The threads of the senders (`pc`) load the
word, compare and exchange it, count the work (`Account`), hand it over (`Send`),
subtract themselves (`FetchSub`) and, the last one of a draining gate, notify under the
lock. The actor (`actor`) runs its loop, or is inside `drain` of one of its two gates:
first the one of delayed posts, then the one of handler ports, as `Instance::close`
has it. `channel`, `buffer` and `ready` are the three places of the work queue
(`SequencedReceiver` in its simplest form: one session, a set as its buffer). `Exit` is
the work item of `exit_after_drain`. `Kill`, and a stop that follows a drain, may come
at any point of the loop.

### ActorTree

`phase` says where an actor's task is: in the loop of `run`, checking or waiting for
its children, before or after its cleanup, or in one of the steps of `serve`'s
epilogue, which are separate because others can see the state between them: the child
is unlinked, then the parent gets the event and the signal, then the status changes.
`Leave` is the way out of the loop with what `run_actor_tree` does to the children at
once. `report` follows the terminal event of an actor: waiting at the parent, handled,
propagated, dropped with the parent's receiver, posted to the coordinator, or the cause
of `std::process::exit(1)` (`crashed`). Ordinary messages are not kept: a handler is
what spawns, fails or hangs. An actor ends by an error of its own in two ways.
`HandlerFails` is a message handler that returns an error: the queued events are handled
first. `EndsAbruptly` (outcome `abrupt`) is everything else: a panic, which
`catch_unwind` finds (`proc.rs:3167-3183`), an error of `init` or of `handle_stop`, and an
event handler that fails or panics, alone or in the middle of that drain; what is queued
then is dropped with the receiver. `Heard` is the part of the queue that was handled.
`destroy` is `destroy_and_wait`: `awaited` the roots it could signal, `Abort` its timeout.
An abort is a request (`aborting`): phase 2 does not wait for it, and the task is cancelled
at its next await, whenever that is (`Cancelled`). A failed cleanup counts as an error of an actor
that had none. The zombie status is left out.

### KeepaliveLink and RemoteSupervision

`KeepaliveLink` has an integer clock: handlers take no time, a self message of
`post_after` is handled in the tick it is due, and a message of a path that is up
arrives in order within `MaxDelay`. Timers are sets and are never cancelled, as in the
code; `Cut` loses what is on the path. A message to an ended actor may come back and fail
its sender (`handle_invalid_reference`). The code accepts any interval and timeout, and so
does the model. What keeps a side up has a condition of its own: `AcksInTime`, that a
round trip fits in the timeout, for the worker; `KeepalivesInTime`, that the interval, and
the start of the worker, leave time for a delivery, for the supervisor.
`KeepaliveLink::default()` (60 s and 60 s), which the repository's own callers use, has the
first for any delay below 30 s and never the second: the deadline of one keepalive and
the arrival of the next then depend on which of two deliveries took longer
(`KeepaliveDefault.cfg`).

`RemoteSupervision` puts up to `Sessions` supervisors against one worker and its child.
What `KeepaliveLink` shows of a link is taken over as: a side may time out at any
moment, and does so eventually once its peer is gone (`LsFails`, `LwFails`). A worker
has its message handlers (`WorkerReceive`, `WorkerUnlink`, `WorkerReturned`) and its
event handler (`WorkerEvent`, in the order in which the code asks: liveness actor,
child, neither). A handler that fails lets the queued events be handled first
(`failing`); so does a failed spawn of the liveness actor (`Supervise`,
`SpawnAndSupervise`). The child closes its signal channel before its event arrives, so that
stopping it in between is an error of the worker's handler (`StopChild`). Both ways to
a worker are there: one that exists and is linked to, and one made by the spawner for
its supervisor.

## Runs

| Run | Question | Result |
|---|---|---|
| `simplex_safety` | order, exactly-once, honest reports, the code's assertions, refinement of `ReliableChannel`, with the server up | holds |
| `simplex_fault` | stops, restarts and breaks in the middle of traffic: does the application receive in order, does every post resolve, does the accept loop end | holds |
| `simplex_stale_ack` | do acks never go backwards, also over a restart | violated: the client task panics |
| `multi_safety` | the watermark over all streams, honest acks and completions over a break and a hole in the numbers, where each post is | holds |
| `multi_stop` | does the accept loop end, receive loops blocked or not; does the session end when its handle is dropped | holds |
| `duplex` | delivery in both directions over breaks, cut frames and connections in any order; the order of the acks that the initiator reads; do joins return and posts resolve, two named waits excepted | holds |
| `sequenced` | the buffer's geometry and accounting, refinement of `OrderedDelivery`, reception of all that no loss holds back | holds |
| `sequencer` | gapless numbers and faithful runs over interleaved calls | holds |
| `handler_ingress` | is a drained gate empty, is accepted work handled, is the depth exact, is no wake-up lost | holds |
| `actor_tree` | are failures and children accounted for in every teardown, panics, aborts and hangs included; does shutdown end | holds |
| `keepalive` | does a healthy link stay and a lost one end, on both sides, in bounded time | holds |
| `remote_supervision` | one live session, truthful ends, no orphan, no supervisor left waiting | holds |

The finding of `simplex_stale_ack` is described under `findings`.

### Statements that do not hold

Further configurations are not in the list of runs; each can be run by hand
(`tlc -config X.cfg Module`), and TLC refutes what it states:

- `SimplexLostAck.cfg` (`SimplexSession`, `DeliveredIsReported`): the server advances
  `next.ack` when the write of an ack completes, also into a connection that is lost;
  the redelivered message is ignored as a retransmit, and nothing acks it again until a
  further message arrives. Only the delivery timeout ends that, closing a healthy
  session and returning a delivered message. `net_internals.md:353` calls the break
  recoverable.
- `MultiStreamEarlyAck.cfg` (`MultiStream`, `AckedIsReported`): a writer enters a message
  into the shared unacked map after writing it (`net.rs:672-676`); another writer may
  have read its ack before, and the completion then waits for a later one. The simplex
  session guards the same race in `Unacked::push_back`.
- `MultiStreamWritersGone.cfg` (`MultiStream`, `WritersGoneNoticed`): the dispatcher takes
  a failing send for the sign that every writer is gone (`net.rs:745`), but keeps a
  receiver of the queue itself (`net.rs:719`), so the send waits for ever.
- `DuplexReported.cfg` (`Duplex`, `ReportedWasDelivered`): a duplex session that ends drops
  its deliveries, and a dropped completion is reported as accepted, while
  `tx_rx.md:96` has queued and unacked messages returned.
  A sink that is not a receipt hears nothing.
- `DuplexStaleAck.cfg` (`Duplex`, `AcceptorAcksAscend`): the assertion of `Unacked::prune`
  (`session.rs:635`) for the acceptor. The initiator writes an ack on a connection
  that breaks before the acceptor has taken it, and dials another; the acceptor takes the
  younger one first and reads a newer ack on it, then takes the older one, on which the
  earlier ack still lies, and panics. The initiator reads only the
  connection it made last, and is safe (`AcksInOrder`).
- `DuplexStandoff.cfg` (`Duplex`, `JoinAlwaysReturns`): "callers can deterministically stop
  the recv/send loop" (`duplex.rs:157`). When both sides end at once on a connection that is
  full in both directions, each waits in its cleanup for the other to read
  (`duplex.rs:587`, `617`, `806`, `841`), and no token or timer ends that. With the room of a
  real connection this takes as much unread data.
- `DuplexPeerEnds.cfg` (`Duplex`, `PeerEnds`): Closed is written so that the peer does not wait
  for "a reconnect that will never come" (`duplex.rs:821-825`). The peer misses it when a
  frame before it was cut off, when its own write fails first, or when the
  frame in its slot is for a loop that waits.
- `ActorTreePanic.cfg` (`ActorTree`, `PanicHearsChildren`): an actor whose message handler
  returns an error handles the failures of its children first (`proc.rs:3365-3368`); one
  that panics, or whose `handle_stop` fails, drops them, and the cause of its end may be
  among them.
- `KeepaliveDefault.cfg` (`KeepaliveLink`, `SupervisorSafe`): with the timeout equal to the
  interval, as `KeepaliveLink::default` has it (`keepalive.rs:90`), the deadline of a
  keepalive can end the supervisor of a worker that is alive and sends in time.
- `RemoteActive.cfg` (`RemoteSupervision`, `OnlyActiveControls`): "allow only the active
  session to control that child" (`remote_supervision.md`). A message of an earlier
  session that comes back orphans whichever session is active
  (`supervision.rs:465-482`), and a stop of another session fails the worker.

Three more statements fail at the edge of a property that a run checks, by changing one
line of a configuration:

- with `Unserializable = {2}` in `Simplex.cfg`, `AcceptedWasDelivered` fails: a
  serialization error accepts (`tx_rx.md:82` says that `Ok` means enqueued);
- with `LinkGivesUp = FALSE` in `SimplexFault.cfg`, `EveryPostResolves` fails: over a
  Unix socket an idle reconnect has no deadline, and no timer watches what is posted
  meanwhile (`tx_rx.md:104` promises one for the oldest pending message);
- with `StopSpec` in `MultiStream.cfg`, `AcksHonest` fails: the cleanup of a stopping
  server acks the largest number seen, past gaps (`channel.rs:1495` excludes that, the
  comment at `session.rs:1113` accepts it). While the server is up the property holds,
  because after a connection that merely ended nobody is left to read such an ack.

What the new models excuse, because the code does not do it: `CoordinatorHears` speaks
of the roots that phase 1 could signal (one that has just dropped its signal receiver is
not awaited) and that did not time out; `NoFailureForgotten` lets an actor that was told to
end, or that ends abruptly, drop the events in its queue; `NoStrays` and `DestroyReturns` end in `crashed` when a child fails after its
parent left the wait (`proc.rs:4448`), and say nothing of the children of an aborted
root, which go on running; `TeardownOrdered` excepts a wait that timed out, in spite of the
comment at `proc.rs:3150` ("the whole tree rooted at this actor has stopped");
`DepthExact` counts work that an ended actor never handled, as the code does;
`DrainHandlesAll` excepts messages whose predecessor was turned away, which stay in the
reorder buffer; `JoinReturns` and `EveryPostResolves` of `Duplex` except a session whose handles
nobody takes (`HandOffWaits`; `accept_tx` has room for 16) and two cleanups that wait for
each other (`Standoff`), and count a dropped post as resolved. `frames.md:124` calls a
frame's write atomic under cancellation, but the cleanup writes on the same connection after
a dropped one.

### Bounds

`MaxPosts`, `MaxConns` and `MaxBreaks` bound the simplex runs. Three posts with
`AckEvery = 2` give an ack by count, an ack by time and a message behind both;
three connections allow two to be in the backlog or the hand-off queue while the
client uses a third, so that they are served in the wrong order; two breaks allow
a redelivery to be interrupted. `InboxCap = 1` makes the inbox full as soon as
the application is slow. Message 3 is oversized in `simplex_safety`, and message
2 unserializable in `simplex_fault`, which has three posts, two connections and one
break or restart (a restart counts as a break): enough for a client that is ahead of a
restarted server.

Two streams, three messages and a queue of one are the smallest instance in which a
message can be in every place at once; two of the messages reach the wire, in either
order, and the third cannot be serialized. The third connection of
`multi_safety` is the reconnect after its one break. `multi_stop` has no break and two
connections, so that no writer waits for one that only the bound denies it, and two
messages on the wire, so that a receive loop can be blocked on the full inbox.

`duplex` has two messages one way and one the other, so that data, acks and a message
behind a full inbox share the connection, and one event of any kind with a second
connection to recover on. A connection has room for one frame each way, so that
every write, also those of the cleanup, has to wait somewhere.

A ring limit of 4 with 8 messages lets the ring be created at every length, grow
while its head is not at index 0 (a limit of 3 does not: a ring of two slots is
always given up when its head moves), wrap twice and spill several messages at
once; the code's limit of 32 only makes the same cases longer. `SequencedTwo.cfg`, run by
hand, has two sessions with shorter ones. Chunks of 2 with lists of up
to 3 destinations split every list at an even and an odd place.

`handler_ingress` has three messages, so that one can wait in the reorder buffer, one be
inside the gate and one outside, and a delayed post for the other gate. `actor_tree` has
three actors: a chain of three, a parent of two and separate roots; the two units of
`MaxFaults` are two failures (of siblings, of child and parent), or one hang, signal or
early timeout, each combined with a `destroy_and_wait` (a panic is one unit, like a failure); `Abort` of a hung actor is free.
`keepalive` runs the clock to 14 with an interval of 2 and a timeout of 4: three and more
generations of timers overlap, and a loss at any time up to 7 is followed to its bound. `remote_supervision` has two supervisors and one fault.

Deadlock is checked where every process ends in a state of its own (`handler_ingress`,
`keepalive`). In the other models the environment may have nothing more to
post and the tasks then wait, as they do in the program.

### Fairness

`FairFaultSpec` and `PatientSpec` assume weak fairness of each branch of the client's
and the server's loops: a tokio task that can run is run, and a `select!` branch that
stays ready is taken (the loops are biased, but each higher branch is consumed by
being taken). Armed timers fire (`TimerFairness`). `Connect` is weakly fair: a listener
that stays up is reached. `RxRecv` is fair because an application that never receives
blocks the session by design. The tasks of `MultiStream` (dispatcher, writers, receive
loops) and of `Duplex` are treated alike; a TCP link gives up once nobody listens.
Of `Duplex!HandOff` nothing is assumed: it needs an application that accepts.
Nothing is assumed of posts, of the drop of a handle, of breaks, of stop or of restart.
`SequencedReceiver!FairSpec` assumes that some message in flight is received and that
ready messages are popped; its weak fairness is written out (`CanReceive` for the
enabledness of a receive), which TLC evaluates faster.

`HandlerIngress`: threads inside a send run on, and the actor's task runs; nothing is
assumed of stops. `ActorTree`: every task runs unless its handler hangs, and timers
expire. Supervision events come last in the biased select, so under endless signals and
work they would starve; here both are bounded. `RemoteSupervision`: actors run, messages
on a live path arrive, a keepalive that nobody answers is missed, and a child that was
told to stop stops. `KeepaliveLink` has no fairness: its promises are bounds on the clock.

## Proofs

Every theorem below holds for all values of the constants that satisfy the named
assumptions; each module of proofs has one lemma per action and one that joins them, and
the temporal step comes last. Every inductive invariant was model-checked on a small
instance before it was proved.

### SimplexProofs

Any number of messages, connections and breaks, any `AckEvery` and `InboxCap`, under
`ConstantAssumption` alone:

- `TypeCorrect`: `Spec => []TypeOK`;
- `InOrder`: `Spec => []DeliveredInOrder`;
- `Ascending`: `Spec => []DequesAscend`;
- `Panicless`: `Spec => []NoPanic`;
- `NoGap`: `Spec => []NeverAhead`;
- `AckMeansDelivered`: `Spec => []AcceptedWasDelivered` if nothing is
  unserializable (the hypothesis is needed, see above).

None of these is inductive by itself. That delivery is in order depends on which
frames can be on *every* connection of the session, old ones included, because
the server may take up any of them; that acks ascend depends on what is in flight
towards the client and on the ack being written. The invariant `Inv` says, in
named parts:

- `InvDeques`: unacked and outbox are consecutive numbers up to `NextSeq`, and
  nothing in unacked is acked;
- `InvClient`: the client's run starts at or below `next.seq`, and what it has
  seen acked is below `next.seq`;
- `InvFrames`: the frames on a connection are consecutive and the first one is
  not beyond what the server takes next;
- `InvCur`: the current connection carries everything up to the outbox;
- `InvAcks`: responses in flight are acks of delivered frames, ascending, and not
  below what the client has seen on its own connection;
- `InvServer`: the held frame is the expected one and the counters belong to the
  dispatch task;
- `InvDelivered`: what was delivered is the prefix of `sent` of length `next.seq`;
- `InvOrder`: numbers follow the order of the posts;
- `InvAccepted`: accepted implies delivered.

The proof uses that the server stays up: with `Restart` the first conjunct of
`InvClient` fails, and `simplex_stale_ack` is the counterexample.

For the refinement of `ReliableChannel`, if nothing is unserializable (needed for the same
reason):

- `SessionImplementsChannel`: `Spec => ImplementsChannel`, every step of the session is
  a step of `ReliableChannel` or leaves its variables alone;
- `CompletionsAreExact`: `Spec => []CompletionsExact`.

And without that hypothesis:

- `FaultsKeepOrder`: `FaultSpec => []ReceivedInOrder`, with the `ChannelRx` joined or
  dropped and the server's process dying and coming back at any moment, any number of
  times;
- `FaultInvariance`: `FaultSpec => []FaultInv`, the invariant behind it.

`ReportInv` adds to `Inv` that the posts are one run, 1 to `posted`, cut by the start of
the client's deques: before the cut all is accepted, behind it nothing is reported
(`Running`), or all is rejected once the task has closed (`Gone`). Without it the
refinement cannot exclude that an ack completes a message out of turn.

With faults `Inv` itself is lost: a session that starts over after a stop delivers the same
messages again, and `DeliveredInOrder` is false under `FaultSpec`; after a restart the client
is ahead of the server, and old acks are still in flight. What remains, `FaultInv`, has two
layers. `Sides` holds whatever the server does: `ClientSide` (the deques are one run that
starts at or below the first unacked number), `Wires` (the client hears only its own
connection, and every frame is a number it gave) and `ServerSide` (the application has not
read past what was delivered). On top of it, a server that was not stopped is in one of
three modes: as without faults (`Inv`); `Untouched`, a new process no client has connected
to; or `Once`, a process whose client already has an ack of an earlier one. A client with no
ack takes an untouched process back to `Inv`. A client with one never requeues number 0, so it
writes it at most once more; `ZeroOnce` follows that frame from the outbox over a connection
to the server. As a session delivers nothing before number 0, only one session of such a
process delivers, and what it delivers is a prefix of `sent`. After a stop the application
no longer receives.

### MultiStreamProofs

Any streams, messages, connections and capacities, under `MultiStreamAssumption`:

- `MultiTypes`: `StopSpec => []TypeOK`;
- `WatermarkIsExact`: `StopSpec => []WatermarkExact`;
- `PostsAccounted`: `StopSpec => []NoPostLost`;
- `AcksAreHonest`: `Spec => []AcksHonest`.

`MultiInv` has two halves. `SendInv` follows a message: it is not
dispatched yet, in the queue, in the hands of one writer, or unacked (`OnePlace`,
`PendingPlaced`), so nothing that a writer drops with its connection is forgotten.
`RecvInv` has the watermark equal to what its definition says of the recorded set; the
step is the loop of `record`, whose end is the least number missing, and that such a
number exists is the well-foundedness of the naturals. `HonestInv` adds that each ack in
flight or about to be written covers recorded messages only. It is a theorem of `Spec`
only: a receive loop that ends because the server stops acks `highest_uncommitted`, which
may lie beyond a gap.

### HandlerIngressProofs

Any number of senders and delayed posts, under `ThreadsAssumption`:

- `IngressTypes`: `Spec => []TypeOK`;
- `DrainedGateEmpty`: `Spec => []GateHolds`;
- `GuardsCounted`: `Spec => []CountExact`, the assertion of the guard's drop;
- `DepthIsExact`: `Spec => []DepthExact`;
- `DrainIsComplete`: `Spec => []DrainHandlesAll`.

`GateHolds` is not inductive: the drain never looks at the threads, only at the count.
`GateInv` adds that the count is the cardinality of the set of threads inside
(`CountExact`). The argument has three parts: a thread enters only with the flag unset,
because flag and count are one word (`EnteredStep`); the count falls with the guard
(`FetchSubStep`); the drain returns only at zero, and a set of cardinality zero is empty
(`DrainCheckStep`). All other steps move no thread across the gate and end no wait
(`GateKept`).

`QueueInv` carries this to the work queue. `Consecutive` and `OnePlace` say that a message
is handled, ready, buffered beyond a gap, or in the channel, and only once, which makes
the depth exact. `ExitLast` says that the exit item is the last of the channel and that
the gate in front of it is empty and shut (`Closed`), which comes from `GateInv`; so an
actor that takes it has taken everything before it (`Ending`, `Kept`).

### ActorTreeProofs

Any number of actors and of faults, under `BoundsAssumption`:

- `TreeTypes`: `Spec => []TypeOK`;
- `CoordinatorHeard`: `Spec => []CoordinatorHears`;
- `TornDownInOrder`: `Spec => []TeardownOrdered`;
- `FailuresRemembered`: `Spec => []NoFailureForgotten`.

`TreeInv` ties the phases of parent and child: a child that is not at its epilogue is
linked to its parent, unless the parent has timed out on it (`Links`), so an empty set of
children means that all of them are past their cleanup, which is what
`TeardownOrdered` needs at the moment of the parent's cleanup. `SignalQueues` and
`EventQueues` say that what a parent has in its queues comes from a child that is past
sending it, and came once. `RootsHeard` says that a root has reported when it shows the
status that `destroy_and_wait` waits for, and keeps the roots whose abort was requested
apart: they may end, or not, at any later time. For the failures, `FateInv` adds the fate of
every failed child (`Fate`) and that an actor that an error of a message handler ended had
no child's event left in its queue (`ErrorsHeard`); without the second one, the events dropped
with such a parent could not be told from ones it should have handled. A parent that ended
abruptly is told apart by its outcome, and nothing is claimed of its queue.

### KeepaliveProofs

Every interval, timeout, delay and length of the run, under `ParamsAssumption`, which only
says that they are numbers and that interval and timeout are not 0; `KeepaliveLink::default`
is among them:

- `LinkTypes`: `Spec => []TypeOK`;
- `GenerationsOrdered`: `Spec => []GenerationsInOrder`;
- `HealthyStays`: `Spec => []HealthyLinkStays`, whose two halves have the premises `AcksInTime`
  (the worker stays) and `KeepalivesInTime` (the supervisor stays);
- `LossIsDetected`: `Spec => []LossDetected`.

`LinkInv` has four layers. `Punctual` and `Ends`: nothing is overdue. `Order` and
`Sending`: each side lags behind the other, and a live worker has one `SendKeepalive`
timer. `HealthyW` and `HealthyS`: for every deadline that is armed, the message that disarms
it is in flight or will be sent, and arrives before the deadline is due, each under its own
condition on the times; the other layers need none. `WorkerDoomed` and `SupervisorDoomed`: once the path or the
peer is lost, a deadline is armed that nothing in flight can disarm, or the timer that
arms it is.

The attempt to prove the bound of `WorkerDetects` as `lost + Interval + Timeout` failed,
and TLC shows why with an interval of 1, a timeout of 5 and a spawn delay of 3: a path
that is lost before the worker starts is noticed only by a worker that has started. The
bound is therefore `Max2(lost + Interval, SpawnDelay) + Timeout`.

### RemoteProofs

Any number of sessions and faults, either orphan policy, under `PolicyAssumption`:

- `RemoteTypes`: `Spec => []TypeOK`;
- `OneLink`: `Spec => []OneLiveLink`;
- `TerminalTrue`: `Spec => []TerminalIsTrue`.

Both need to know what lies in the queues. The worker gives up a session on the event of
its liveness actor without stopping that actor, so `OneLiveLink` needs that the event
means the actor has ended (`EventsTrue`), and this needs that a session has one such
actor in its life: `Supervise` is the first message of a session and comes once
(`RequestedOnce`). `TerminalIsTrue` needs the same of the child's event.

### SequencingProofs

The sender, for any tasks and keys, lists of any length and chunks of any size, under
`SequencerAssumption`:

- `SequencerTypes`: `SendSpec => []SendTypeOK`;
- `NumbersGapless`: `SendSpec => []Gapless`;
- `RunsAreExact`: `SendSpec => []RunsExact`.

`Gapless` is inductive with the types. `RunsExact` speaks of a call that has returned;
`Calls` says what holds on the way: a call has one number for each key up to `ordinal`,
in the order of the list (`Progress`); the runs it has closed cover the list up to `start`
(`Covered`), and from there to `ordinal` all numbers are `prev` (`Open`). Other tasks
number keys between two chunks, which is why the invariant speaks of the numbers this call
took (`took`) and not of a segment of `handed`.

The receiver, for any set of sessions, any number of messages, copies and losses, and a
ring of any limit, under `SequencedAssumption`:

- `ReceiverTypes`: `Spec => []TypeOK`;
- `BufferIsExact`: `Spec => []BufferExact`;
- `NothingIsDropped`: `Spec => []NothingDropped`;
- `ReceiverImplementsOrdered`: `Spec => ImplementsOrdered`, every step of the receiver is a
  step of `OrderedDelivery` or leaves its variables alone.

`Represents(b, n, W)` says that buffer `b` is what the code keeps for the set `W` of early
messages when `n` is expected: the slot `off` steps behind the head has message `n + off`
if that is in `W`, the rest is in the spillover, the spillover is used only with a ring
at its limit, and an empty `W` has no ring. Each operation (insert, grow, advance, refill,
reset) has a lemma that says which set the result represents. The loop of `drain_ready`
is a recursive function of the round; that every round keeps what is to be shown is proved
by looking at the least round that does not, which the well-foundedness of the naturals
gives, so no induction over data is needed. `RecvInv` is then that every buffer represents
what it holds (`Buffers`), that received and ready are together the numbers below the
expected one (`Released`), and that no more are missing than were lost.

### DuplexProofs

Any number of posts in each direction, of connections, breaks and cancellations, any
`InboxCap` and `WireCap`, and any order in which connections are taken, under `BoundsAssumption`:

- `DuplexTypes`: `Spec => []TypeOK`;
- `AcksInOrder`: `Spec => []AckInv`;
- `DuplexDeliversExactly`: `Spec => []DeliveredExactly`, which has three parts: delivery in
  order without loss, duplicate or gap; what is accepted was delivered; and the assertion
  of `prune` for the initiator.

`DupInv` is the invariant of the first two parts. `Runs`: what a side has not had acked is
one ascending run, unacked then outbox then queue, that starts at or below what the peer
expects. `Flow`: each data frame on a wire that still has a reader, and the next message
to be written, either is not ahead of the reader or has its predecessor before it on the
same wire. The part that needs care is the frame that was cut off: nothing behind it
arrives, so a message that was half written may be requeued although it has been started.
`Acked`: acks on the wire, the pending one and the sender's record are for delivered
messages. `Arrived` and `Local` tie the message in hand and the slot to the loops.

The first two parts do not depend on the order of the connections: `Flow` is about each
connection by itself, and a connection that is taken late begins with data that the
reader has already, or with the message it expects.

`AckInv` is needed because an ack is compared with acks of *earlier* connections. The acceptor
writes an ack only if it is newer than its last, so acks ascend on one connection
(`Sorted`), and none that is unread is older than the last one the initiator has read
(`Recent`). The initiator has no connection open but its own and leaves no frame on
another, so the order in which the acceptor takes them does not matter. The acceptor
has no such invariant: connections that the initiator gave up may still wait for it.

### Only model-checked

Liveness, which the prover cannot do: `EveryPostResolves`, `StopCompletes`,
`CloseCompletes`, `AllReceived`, `JoinReturns`, `NoOrphan`,
`SupervisorEnds`, `NoStrays`, `DestroyReturns`, `StopReturns`.

## Not modelled

See the components with status `not_modelled` and `partly`. The main reasons: foreign
code and devices (CUDA, NCCL, RDMA), pure I/O and formatting (logging, admin pages,
telemetry, parsing), code generation (macros), bindings. The rest is in the plan.
Within the modelled parts: the bytes of a frame, metrics and log messages,
`TxStatus` watchers (they see `reason` once, at the end), backoff delays, direct
(unsequenced) messages, the zombie status of actors, introspection, and the overflow of
a gate's count at 2^63 sends (an assertion in the code).

## Plan

Done: the simplex session, its abstract channel and proofs; the multi-stream and the
duplex session with its demultiplexer and cut frames; both halves of sequencing; the
ingress gate and the drain of an actor; the actor tree and the shutdown of a proc;
liveness links and remote supervision. Next, in this order:

1. Mailbox routing: undeliverable returns, dial and cached senders, the gateway.
2. A composition of `Sequencer`, a network of several sessions and
   `SequencedReceiver`: end-to-end order per sender and destination.
3. Mesh agents and the controller (`proc_agent.rs`, `host_mesh.rs`,
   `mesh_controller.rs`); bootstrap's process state machine; `proc_spawner.rs`.
4. Casting over the tree; the synchronisation primitives.

Theorems worth proving next: an abstract specification of a duplex session, two
`ReliableChannel`s whose end is common, and its refinement.
