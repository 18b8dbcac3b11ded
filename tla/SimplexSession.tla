--------------------------- MODULE SimplexSession ---------------------------
(***************************************************************************)
(* One simplex network session of hyperactor: the client task that         *)
(* `net::spawn_inner` starts (with the `send_connected` loop, the outbox   *)
(* and the unacked deque), the connections it opens, and the server side   *)
(* that `server::dispatch_stream` runs for it (with the `recv_connected`   *)
(* loop and the `Next` counters).                                          *)
(*                                                                         *)
(* A message is the number of its post: message m is the m-th message that *)
(* the application handed to the ChannelTx.  A frame on the wire is the    *)
(* sequence number that `Outbox::push_back` gave its message; sent[s + 1]  *)
(* is the message with sequence number s.  Time is abstracted: a timer     *)
(* that is armed may fire at any moment.  A frame is written and read      *)
(* whole; a connection may break at any moment and then loses any suffix   *)
(* of what is in flight in either direction.                               *)
(***************************************************************************)
EXTENDS Integers, Sequences, FiniteSets

CONSTANTS
  MaxPosts,        \* bound: messages the application posts
  MaxConns,        \* bound: connections the client opens
  MaxBreaks,       \* bound: connections the network breaks
  AckEvery,        \* MESSAGE_ACK_EVERY_N_MESSAGES
  InboxCap,        \* capacity of the bounded channel under the ChannelRx
  Unserializable,  \* messages on which serialize_bincode fails
  Oversized,       \* messages whose frame exceeds CODEC_MAX_FRAME_LENGTH
  LinkGivesUp      \* Link::next bounds its own retries (TCP) or not (Unix)

Msg  == 1..MaxPosts
Conn == 1..MaxConns

ASSUME ConstantAssumption ==
  /\ MaxPosts \in Nat /\ MaxConns \in Nat /\ MaxBreaks \in Nat
  /\ AckEvery \in Nat \ {0} /\ InboxCap \in Nat \ {0}
  /\ Unserializable \subseteq Msg /\ Oversized \subseteq Msg
  /\ LinkGivesUp \in BOOLEAN

VARIABLES
  posted,        \* how many messages were posted
  txOpen,        \* some ChannelTx handle is alive
  outcome,       \* what the completion of each message reported
  queue,         \* the unbounded channel from the ChannelTx to its task
  phase,         \* where the client task is
  reason,        \* the CloseReason it reported
  sent,          \* messages in the order of their sequence numbers
  outbox,        \* Outbox.deque, as sequence numbers
  unacked,       \* Unacked.deque, as sequence numbers
  largestAcked,  \* Unacked.largest_acked, -1 for None
  cur,           \* the client's connection, 0 when it has none
  nconn,         \* connections opened so far
  breaks,        \* connections broken so far
  intact,        \* connections the network still carries
  clientEnd,     \* connections whose client end is open
  serverEnd,     \* connections whose server end is open
  c2s,           \* c2s[c]: frames the server has not read
  s2c,           \* s2c[c]: responses the client has not read
  backlog,       \* connections accepted but not dispatched yet
  proc,          \* the dispatch task that holds the session's entry
  connq,         \* its connection hand-off queue
  serving,       \* the connection it serves, 0 for none
  next,          \* Next { seq, ack }
  pendingAck,    \* next.seq when the pending ack began, 0 for no pending ack
  held,          \* sequence number blocked in deliver_tx.send, -1 for none
  delivered,     \* messages put into the ChannelRx's queue
  everDelivered, \* history: the same over all incarnations of the server
  consumed,      \* how many of them the application received
  rxOpen,        \* the receiving half is alive
  cancelled,     \* ServerHandle::stop was called
  listening      \* the accept loop holds the listener

appVars    == <<posted, txOpen>>
clientVars == <<phase, reason, sent, outbox, unacked, largestAcked>>
ends       == <<intact, clientEnd, serverEnd>>
netVars    == <<cur, nconn, ends, c2s, s2c>>
procVars   == <<proc, connq, serving, next, pendingAck, held>>
rxVars     == <<delivered, everDelivered, consumed>>
srvVars    == <<backlog, rxOpen, cancelled, listening>>
vars == <<appVars, clientVars, netVars, procVars, rxVars, srvVars,
          outcome, queue, breaks>>

-----------------------------------------------------------------------------
Ack(s)  == [type |-> "ack", seq |-> s]
Reject  == [type |-> "reject", seq |-> 0]
Closed  == [type |-> "closed", seq |-> 0]

NextSeq == Len(sent)
MsgsOf(seqs) == {sent[seqs[i] + 1] : i \in DOMAIN seqs}
InQueue      == {queue[i] : i \in DOMAIN queue}
Resolve(ms, how) == [m \in Msg |-> IF m \in ms THEN how ELSE outcome[m]]

\* The peer still gets what is written on c.
ServerHears(c) == c \in intact /\ c \in serverEnd
ClientHears(c) == c \in intact /\ c \in clientEnd

Init ==
  /\ posted = 0 /\ txOpen = TRUE
  /\ outcome = [m \in Msg |-> "pending"] /\ queue = <<>>
  /\ phase = "lazy" /\ reason = "none" /\ sent = <<>>
  /\ outbox = <<>> /\ unacked = <<>> /\ largestAcked = -1
  /\ cur = 0 /\ nconn = 0 /\ breaks = 0
  /\ intact = {} /\ clientEnd = {} /\ serverEnd = {}
  /\ c2s = [c \in Conn |-> <<>>] /\ s2c = [c \in Conn |-> <<>>]
  /\ backlog = {} /\ proc = "none" /\ connq = <<>> /\ serving = 0
  /\ next = [seq |-> 0, ack |-> 0] /\ pendingAck = 0 /\ held = -1
  /\ delivered = <<>> /\ everDelivered = {} /\ consumed = 0
  /\ rxOpen = TRUE /\ cancelled = FALSE /\ listening = TRUE

-----------------------------------------------------------------------------
(* The application's end: ChannelTx.                                       *)

TaskGone == phase \in {"closed", "panicked"}

\* ChannelTx::do_post: a send on the closed queue rejects at once.
Post ==
  /\ txOpen /\ posted < MaxPosts
  /\ posted' = posted + 1
  /\ IF TaskGone
       THEN outcome' = Resolve({posted + 1}, "rejected") /\ UNCHANGED queue
       ELSE queue' = Append(queue, posted + 1) /\ UNCHANGED outcome
  /\ UNCHANGED <<txOpen, clientVars, netVars, procVars, rxVars, srvVars,
                 breaks>>

\* The last ChannelTx handle goes away.
DropTx ==
  /\ txOpen /\ txOpen' = FALSE
  /\ UNCHANGED <<posted, outcome, queue, clientVars, netVars, procVars,
                 rxVars, srvVars, breaks>>

-----------------------------------------------------------------------------
(* The client task: spawn_inner.                                           *)

\* Session::release: the client drops its end of the connection.  A socket
\* dropped with unread data is reset.
HangUp ==
  /\ cur' = 0
  /\ clientEnd' = clientEnd \ {cur}
  /\ intact' = {c \in intact : c = cur => s2c[c] = <<>>}
  /\ s2c' = [c \in Conn |-> IF c = cur THEN <<>> ELSE s2c[c]]
  /\ UNCHANGED <<nconn, serverEnd, c2s>>

\* Mutant of Owned: the messages still in the queue are not returned.
OwnedNoQueue == MsgsOf(unacked) \cup MsgsOf(outbox)

\* Every message the task still owns.
Owned == MsgsOf(unacked) \cup MsgsOf(outbox) \cup InQueue

\* The code after the loop: everything still owned by the task is returned.
CloseTx(why) ==
  /\ outcome' = Resolve(Owned, "rejected")
  /\ unacked' = <<>> /\ outbox' = <<>> /\ queue' = <<>>
  /\ phase' = "closed" /\ reason' = why
  /\ UNCHANGED <<sent, largestAcked>>
  /\ HangUp

\* A failed assertion unwinds the task; completions it owns are dropped, which
\* a receipt reports as accepted (CompletionSender::drop).
Panic ==
  /\ outcome' = Resolve(Owned, "dropped")
  /\ unacked' = <<>> /\ outbox' = <<>> /\ queue' = <<>>
  /\ phase' = "panicked" /\ reason' = "none"
  /\ UNCHANGED <<sent, largestAcked>>
  /\ HangUp

\* Outbox::push_back of the head of the queue.
PushBack ==
  /\ sent' = Append(sent, Head(queue))
  /\ outbox' = Append(outbox, NextSeq)
  /\ queue' = Tail(queue)
  /\ UNCHANGED outcome

\* The first message: no connection is made before it.  If it cannot be
\* serialized the task ends and the queue is dropped with it.
LazyRecv ==
  /\ phase = "lazy" /\ queue # <<>>
  /\ IF Head(queue) \in Unserializable
       THEN /\ outcome' = [m \in Msg |->
                             IF m = Head(queue) THEN "accepted"
                             ELSE IF m \in InQueue THEN "dropped"
                             ELSE outcome[m]]
            /\ queue' = <<>> /\ phase' = "closed" /\ reason' = "other"
            /\ UNCHANGED <<sent, outbox>>
       ELSE PushBack /\ phase' = "connecting" /\ UNCHANGED reason
  /\ UNCHANGED <<unacked, largestAcked, appVars, netVars, procVars, rxVars,
                 srvVars, breaks>>

LazyClosed ==
  /\ phase = "lazy" /\ queue = <<>> /\ ~txOpen
  /\ phase' = "closed" /\ reason' = "other"
  /\ UNCHANGED <<sent, outbox, unacked, largestAcked, outcome, queue, appVars,
                 netVars, procVars, rxVars, srvVars, breaks>>

\* Mutants of Requeued: the wrong end of the outbox; no requeue at all.
RequeuedAtBack == outbox \o unacked
NotRequeued    == outbox

\* Outbox::requeue_unacked: unacked messages go before the unsent ones.
Requeued == unacked \o outbox

\* Session::connect / connect_by succeeds; Deliveries::requeue_unacked.
Connect ==
  /\ phase = "connecting" /\ listening /\ nconn < MaxConns
  /\ nconn' = nconn + 1 /\ cur' = nconn + 1
  /\ intact' = intact \cup {nconn + 1}
  /\ clientEnd' = clientEnd \cup {nconn + 1}
  /\ serverEnd' = serverEnd \cup {nconn + 1}
  /\ backlog' = backlog \cup {nconn + 1}
  /\ outbox' = Requeued /\ unacked' = <<>>
  /\ phase' = "connected"
  /\ UNCHANGED <<reason, sent, largestAcked, c2s, s2c, outcome, queue, appVars,
                 procVars, rxVars, rxOpen, cancelled, listening, breaks>>

NothingQueued == outbox = <<>> /\ unacked = <<>>

\* connect_by reaches the deadline of the oldest queued message.
ConnectDeadline ==
  /\ phase = "connecting" /\ ~NothingQueued
  /\ CloseTx("other")
  /\ UNCHANGED <<appVars, procVars, rxVars, srvVars, breaks>>

\* With nothing queued the client calls connect(), which has no deadline: it
\* fails only when the link gives up.
ConnectFails ==
  /\ phase = "connecting" /\ NothingQueued /\ LinkGivesUp
  /\ CloseTx("other")
  /\ UNCHANGED <<appVars, procVars, rxVars, srvVars, breaks>>

-----------------------------------------------------------------------------
(* The client's loop over one connection: send_connected.                  *)

HeadOversized == outbox # <<>> /\ sent[Head(outbox) + 1] \in Oversized

\* The loop is in its select!: a write may be pending, no frame is too large.
Selecting == phase = "connected" /\ ~HeadOversized

\* The frame is too large: its message is returned and the session ends.
SendOversized ==
  /\ phase = "connected" /\ HeadOversized
  /\ CloseTx("oversized")
  /\ UNCHANGED <<appVars, procVars, rxVars, srvVars, breaks>>

\* Mutant of AckedEarly: off by one.
AckedEarlyByOne(s) == s <= largestAcked + 1

\* Unacked::push_back: a message acked before it was (re)written is done.
AckedEarly(s) == s <= largestAcked

Moved(s) ==
  IF AckedEarly(s)
    THEN outcome' = Resolve({sent[s + 1]}, "accepted") /\ UNCHANGED unacked
    ELSE unacked' = Append(unacked, s) /\ UNCHANGED outcome

\* The write of the front of the outbox completes.  On a connection that is
\* already lost a write may still complete, into a buffer nobody reads.
WriteFrame ==
  /\ Selecting /\ outbox # <<>>
  /\ c2s' = IF ServerHears(cur)
              THEN [c2s EXCEPT ![cur] = Append(@, Head(outbox))] ELSE c2s
  /\ outbox' = Tail(outbox)
  /\ Moved(Head(outbox))
  /\ UNCHANGED <<phase, reason, sent, largestAcked, cur, nconn, ends, s2c,
                 queue, appVars, procVars, rxVars, srvVars, breaks>>

\* Mutant of Prune: acks taken as selective instead of cumulative.
PruneOne(a) ==
  /\ outcome' = Resolve({sent[s + 1] : s \in {a} \cap 0..(NextSeq - 1)},
                        "accepted")
  /\ unacked' = SelectSeq(unacked, LAMBDA s : s # a)
  /\ largestAcked' = a

\* Unacked::prune pops the front of the deque while it is acked.
Prune(a) ==
  /\ \E n \in 0..Len(unacked) :
       /\ \A i \in 1..n : unacked[i] <= a
       /\ n < Len(unacked) => unacked[n + 1] > a
       /\ unacked' = SubSeq(unacked, n + 1, Len(unacked))
       /\ outcome' = Resolve({sent[unacked[i] + 1] : i \in 1..n}, "accepted")
  /\ largestAcked' = a

\* `assert!(largest_acked.map_or(0) <= acked)` of Unacked::prune.
AckInOrder(a) == largestAcked <= a

ReadAck ==
  /\ Selecting /\ s2c[cur] # <<>> /\ Head(s2c[cur]).type = "ack"
  /\ LET a == Head(s2c[cur]).seq
     IN  IF AckInOrder(a)
           THEN /\ Prune(a)
                /\ s2c' = [s2c EXCEPT ![cur] = Tail(@)]
                /\ UNCHANGED <<phase, reason, sent, outbox, queue, cur, nconn,
                               ends, c2s>>
           ELSE Panic
  /\ UNCHANGED <<appVars, procVars, rxVars, srvVars, breaks>>

\* Rejected and ServerClosed are terminal; log_send_error and
\* classify_send_loop_error.
ReadTerminal ==
  /\ Selecting /\ s2c[cur] # <<>> /\ Head(s2c[cur]).type # "ack"
  /\ CloseTx(IF Head(s2c[cur]).type = "reject" THEN "stale_session"
                                               ELSE "other")
  /\ UNCHANGED <<appVars, procVars, rxVars, srvVars, breaks>>

\* EOF after the last response, or a read or write error, which may overtake
\* unread responses: the session reconnects.
Disconnect ==
  /\ Selecting /\ ~ServerHears(cur)
  /\ s2c[cur] = <<>> \/ cur \notin intact \/ outbox # <<>>
  /\ HangUp /\ phase' = "connecting"
  /\ UNCHANGED <<reason, sent, outbox, unacked, largestAcked, outcome, queue,
                 appVars, procVars, rxVars, srvVars, breaks>>

\* Unacked::wait_for_timeout.
DeliveryTimeout ==
  /\ Selecting /\ unacked # <<>>
  /\ CloseTx("other")
  /\ UNCHANGED <<appVars, procVars, rxVars, srvVars, breaks>>

\* The next message from the application; a serialization error accepts the
\* message, and is an I/O error to the loop.
RecvNew ==
  /\ Selecting /\ outbox = <<>> /\ queue # <<>>
  /\ IF Head(queue) \in Unserializable
       THEN /\ outcome' = Resolve({Head(queue)}, "accepted")
            /\ queue' = Tail(queue) /\ phase' = "connecting"
            /\ HangUp /\ UNCHANGED <<sent, outbox>>
       ELSE PushBack /\ UNCHANGED <<phase, netVars>>
  /\ UNCHANGED <<reason, unacked, largestAcked, appVars, procVars, rxVars,
                 srvVars, breaks>>

\* receiver.recv() returns None: every ChannelTx is gone.
AppClosed ==
  /\ Selecting /\ outbox = <<>> /\ queue = <<>> /\ ~txOpen
  /\ CloseTx("other")
  /\ UNCHANGED <<appVars, procVars, rxVars, srvVars, breaks>>

-----------------------------------------------------------------------------
(* The network.                                                            *)

\* Connection c breaks; any suffix of either direction is lost.
Break(c) ==
  /\ breaks < MaxBreaks /\ breaks' = breaks + 1
  /\ c \in intact /\ c \in clientEnd \cup serverEnd
  /\ intact' = intact \ {c}
  /\ \E i \in 0..Len(c2s[c]), j \in 0..Len(s2c[c]) :
       /\ c2s' = [c2s EXCEPT ![c] = SubSeq(@, 1, i)]
       /\ s2c' = [s2c EXCEPT ![c] = SubSeq(@, 1, j)]
  /\ UNCHANGED <<cur, nconn, clientEnd, serverEnd, appVars, clientVars,
                 procVars, rxVars, srvVars, outcome, queue>>

-----------------------------------------------------------------------------
(* The server: accept_loop, dispatch_stream, recv_connected.               *)

\* Mutant of NextAtDispatch: counters start over with each connection.
NextRestarted == [seq |-> 0, ack |-> 0]

\* A new dispatch task for the session starts from Next { seq: 0, ack: 0 };
\* one that is there already keeps its counters across connections.
NextAtDispatch == IF proc = "none" THEN [seq |-> 0, ack |-> 0] ELSE next

\* dispatch_stream's first half.  Preparation of accepted connections runs in
\* a task of its own, so they are dispatched in any order.
Dispatch(c) ==
  /\ c \in backlog /\ listening
  /\ backlog' = backlog \ {c}
  /\ IF proc = "none"
       THEN proc' = "waiting" /\ connq' = <<c>>
       ELSE connq' = Append(connq, c) /\ UNCHANGED proc
  /\ next' = NextAtDispatch
  /\ UNCHANGED <<serving, pendingAck, held, appVars, clientVars, netVars,
                 rxVars, rxOpen, cancelled, listening, outcome, queue, breaks>>

\* session.connect(): AcceptorLink::next yields the next connection.
ServeNext ==
  /\ proc = "waiting" /\ connq # <<>>
  /\ proc' = "serving" /\ serving' = Head(connq) /\ connq' = Tail(connq)
  /\ UNCHANGED <<next, pendingAck, held, appVars, clientVars, netVars, rxVars,
                 srvVars, outcome, queue, breaks>>

\* next.ack + ack_msg_interval <= next.seq: an ack is begun before anything
\* else is read.
CountBehind == next.ack + AckEvery <= next.seq

BeginAck ==
  /\ proc = "serving" /\ held = -1 /\ pendingAck = 0
  /\ CountBehind \/ next.ack < next.seq      \* or the ack timer has expired
  /\ pendingAck' = next.seq
  /\ UNCHANGED <<proc, connq, serving, next, held, appVars, clientVars,
                 netVars, rxVars, srvVars, outcome, queue, breaks>>

\* Mutants of AckValue: next.seq itself; one too low.
AckValueNext(n) == n
AckValueLow(n)  == n - 2

\* The ack for a next.seq of n names the last sequence number received.
AckValue(n) == n - 1

\* The pending ack is written; on a lost connection nobody reads it, and
\* next.ack advances all the same.
AckWritten ==
  /\ proc = "serving" /\ held = -1 /\ pendingAck # 0
  /\ s2c' = IF ClientHears(serving)
              THEN [s2c EXCEPT ![serving] = Append(@, Ack(AckValue(pendingAck)))]
              ELSE s2c
  /\ next' = [next EXCEPT !.ack = pendingAck] /\ pendingAck' = 0
  /\ UNCHANGED <<proc, connq, serving, held, cur, nconn, ends, c2s, appVars,
                 clientVars, rxVars, srvVars, outcome, queue, breaks>>

\* Mutant of IsRetransmit: off by one.
IsRetransmitByOne(s) == s + 1 < next.seq

\* The match on the sequence number of a frame.
IsRetransmit(s) == s < next.seq
IsAhead(s)      == s > next.seq

Reading == /\ proc = "serving" /\ held = -1 /\ c2s[serving] # <<>>
           /\ ~(pendingAck = 0 /\ CountBehind)

\* seq < next.seq: a retransmit, ignored.
ReadRetransmit ==
  /\ Reading /\ IsRetransmit(Head(c2s[serving]))
  /\ c2s' = [c2s EXCEPT ![serving] = Tail(@)]
  /\ UNCHANGED <<cur, nconn, ends, s2c, appVars, clientVars, procVars, rxVars,
                 srvVars, outcome, queue, breaks>>

\* seq = next.seq: the message goes to deliver_tx.send().
ReadNext ==
  /\ Reading
  /\ ~IsRetransmit(Head(c2s[serving])) /\ ~IsAhead(Head(c2s[serving]))
  /\ held' = Head(c2s[serving])
  /\ c2s' = [c2s EXCEPT ![serving] = Tail(@)]
  /\ UNCHANGED <<proc, connq, serving, next, pendingAck, cur, nconn, ends, s2c,
                 appVars, clientVars, rxVars, srvVars, outcome, queue, breaks>>

\* deliver_tx.send() completes once the bounded queue has room, and only then
\* does next.seq advance.
Deliver ==
  /\ proc = "serving" /\ held # -1 /\ rxOpen
  /\ Len(delivered) - consumed < InboxCap
  /\ delivered' = Append(delivered, sent[held + 1])
  /\ everDelivered' = everDelivered \cup {sent[held + 1]}
  /\ next' = [next EXCEPT !.seq = held + 1] /\ held' = -1
  /\ UNCHANGED <<proc, connq, serving, pendingAck, consumed, appVars,
                 clientVars, netVars, srvVars, outcome, queue, breaks>>

\* The application receives from the ChannelRx.
RxRecv ==
  /\ rxOpen /\ ~cancelled /\ consumed < Len(delivered)
  /\ consumed' = consumed + 1
  /\ UNCHANGED <<delivered, everDelivered, appVars, clientVars, netVars,
                 procVars, srvVars, outcome, queue, breaks>>

\* The server drops its end of every connection in cs.
ServerDrops(cs) ==
  /\ serverEnd' = serverEnd \ cs
  /\ intact' = {c \in intact : c \in cs => c2s[c] = <<>>}
  /\ c2s' = [c \in Conn |-> IF c \in cs THEN <<>> ELSE c2s[c]]

Handed == {connq[i] : i \in DOMAIN connq}

\* What dispatch_stream does when recv_connected ends: flush a final ack if
\* behind, send the terminal response, release, and either wait for the next
\* connection or remove the session (dropping the hand-off queue).
FinalAck == IF next.ack < next.seq THEN <<Ack(AckValue(next.seq))>> ELSE <<>>

RecvEnds(bye, recoverable) ==
  /\ s2c' = IF ClientHears(serving)
              THEN [s2c EXCEPT ![serving] = @ \o FinalAck \o bye] ELSE s2c
  /\ \E a \in IF ClientHears(serving) THEN {next.seq}
                                      ELSE {next.ack, next.seq} :
       next' = [next EXCEPT !.ack = a]
  /\ pendingAck' = 0 /\ held' = -1 /\ serving' = 0
  /\ IF recoverable
       THEN /\ proc' = "waiting" /\ UNCHANGED connq
            /\ ServerDrops({serving})
       ELSE /\ proc' = "none" /\ connq' = <<>>
            /\ ServerDrops({serving} \cup Handed)
  /\ UNCHANGED <<cur, nconn, clientEnd>>

\* EOF after the last frame, or a read or write error, which may overtake
\* unread frames.
RecvEof ==
  /\ proc = "serving" /\ held = -1 /\ ~ClientHears(serving)
  /\ c2s[serving] = <<>> \/ serving \notin intact \/ pendingAck # 0
  /\ RecvEnds(<<>>, TRUE)
  /\ UNCHANGED <<appVars, clientVars, rxVars, srvVars, outcome, queue, breaks>>

\* seq > next.seq: RecvLoopError::SequenceError.
ReadAhead ==
  /\ Reading
  /\ ~IsRetransmit(Head(c2s[serving])) /\ IsAhead(Head(c2s[serving]))
  /\ RecvEnds(<<Reject>>, FALSE)
  /\ UNCHANGED <<appVars, clientVars, rxVars, srvVars, outcome, queue, breaks>>

-----------------------------------------------------------------------------
(* Shutdown of the server: ChannelRx::join, drop, ServerHandle::stop.      *)

Stop(dropped) ==
  /\ ~cancelled /\ cancelled' = TRUE
  /\ rxOpen' = ~dropped
  /\ UNCHANGED <<backlog, listening, appVars, clientVars, netVars, procVars,
                 rxVars, outcome, queue, breaks>>

\* The cancellation branch around recv_connected; a message blocked in
\* deliver_tx.send is dropped with the future.
RecvCancelled ==
  /\ proc = "serving" /\ cancelled
  /\ RecvEnds(<<Closed>>, FALSE)
  /\ UNCHANGED <<appVars, clientVars, rxVars, srvVars, outcome, queue, breaks>>

\* deliver_tx.send() fails: the ChannelRx is gone.
DeliverFails ==
  /\ proc = "serving" /\ held # -1 /\ ~rxOpen
  /\ RecvEnds(<<>>, TRUE)
  /\ UNCHANGED <<appVars, clientVars, rxVars, srvVars, outcome, queue, breaks>>

\* Mutant of WaitCancelled: the wait does not watch the token.
WaitNotCancelled == FALSE /\ UNCHANGED vars

\* AcceptorLink::next returns an error on cancellation.
WaitCancelled ==
  /\ proc = "waiting" /\ cancelled
  /\ proc' = "none" /\ connq' = <<>>
  /\ ServerDrops(Handed)
  /\ UNCHANGED <<serving, next, pendingAck, held, cur, nconn, clientEnd, s2c,
                 appVars, clientVars, rxVars, srvVars, outcome, queue, breaks>>

\* accept_loop returns once every dispatch task has been joined.
AcceptLoopEnds ==
  /\ cancelled /\ listening /\ proc = "none"
  /\ listening' = FALSE /\ backlog' = {}
  /\ ServerDrops(backlog)
  /\ UNCHANGED <<cur, nconn, clientEnd, s2c, appVars, clientVars, procVars,
                 rxVars, rxOpen, cancelled, outcome, queue, breaks>>

\* The server process dies and a new one serves the same address: nothing the
\* old one kept survives, what it had written may still arrive.
Restart ==
  /\ breaks < MaxBreaks /\ breaks' = breaks + 1
  /\ ServerDrops(Conn)
  /\ backlog' = {} /\ proc' = "none" /\ connq' = <<>> /\ serving' = 0
  /\ next' = [seq |-> 0, ack |-> 0] /\ pendingAck' = 0 /\ held' = -1
  /\ delivered' = <<>> /\ consumed' = 0
  /\ rxOpen' = TRUE /\ cancelled' = FALSE /\ listening' = TRUE
  /\ UNCHANGED <<everDelivered, cur, nconn, clientEnd, s2c, appVars, clientVars, outcome,
                 queue>>

-----------------------------------------------------------------------------
ClientNext ==
  \/ LazyRecv \/ LazyClosed \/ Connect \/ ConnectFails \/ SendOversized
  \/ WriteFrame \/ ReadAck \/ ReadTerminal \/ Disconnect \/ RecvNew
  \/ AppClosed

TimerNext == ConnectDeadline \/ DeliveryTimeout

ServerNext ==
  \/ \E c \in Conn : Dispatch(c)
  \/ ServeNext \/ BeginAck \/ AckWritten \/ ReadRetransmit \/ ReadNext
  \/ Deliver \/ RecvEof \/ ReadAhead \/ RxRecv

ShutdownNext ==
  \/ \E dropped \in BOOLEAN : Stop(dropped)
  \/ RecvCancelled \/ DeliverFails \/ WaitCancelled \/ AcceptLoopEnds

\* No delivery timeout fires.
PatientNext ==
  Post \/ DropTx \/ ClientNext \/ ServerNext \/ \E c \in Conn : Break(c)

\* The server stays up.
Next == PatientNext \/ TimerNext

Spec == Init /\ [][Next]_vars

\* The server process may die and come back.
RestartSpec == Init /\ [][Next \/ Restart]_vars

\* Tasks that can run do, timers that are armed fire.  Nothing makes the
\* application post or drop its handle, nor the network fail.
ClientFairness ==
  /\ WF_vars(LazyRecv) /\ WF_vars(LazyClosed) /\ WF_vars(Connect)
  /\ WF_vars(ConnectFails) /\ WF_vars(SendOversized) /\ WF_vars(WriteFrame)
  /\ WF_vars(ReadAck) /\ WF_vars(ReadTerminal) /\ WF_vars(Disconnect)
  /\ WF_vars(RecvNew) /\ WF_vars(AppClosed)

TimerFairness == WF_vars(ConnectDeadline) /\ WF_vars(DeliveryTimeout)

ServerFairness ==
  /\ \A c \in Conn : WF_vars(Dispatch(c))
  /\ WF_vars(ServeNext) /\ WF_vars(BeginAck) /\ WF_vars(AckWritten)
  /\ WF_vars(ReadRetransmit) /\ WF_vars(ReadNext) /\ WF_vars(Deliver)
  /\ WF_vars(RecvEof) /\ WF_vars(ReadAhead) /\ WF_vars(RxRecv)
  /\ WF_vars(RecvCancelled) /\ WF_vars(DeliverFails)
  /\ WF_vars(WaitCancelled) /\ WF_vars(AcceptLoopEnds)

\* The ChannelRx may be joined or dropped and the server process may die, in
\* any order.
FaultSpec == Init /\ [][Next \/ ShutdownNext \/ Restart]_vars
FairFaultSpec == FaultSpec /\ ClientFairness /\ TimerFairness /\ ServerFairness

\* The delivery timeout is longer than anything that happens.
PatientSpec ==
  Init /\ [][PatientNext]_vars /\ ClientFairness /\ ServerFairness

-----------------------------------------------------------------------------
Response == [type : {"ack", "reject", "closed"}, seq : Nat]

TypeClient ==
  /\ posted \in 0..MaxPosts /\ txOpen \in BOOLEAN
  /\ outcome \in [Msg -> {"pending", "accepted", "rejected", "dropped"}]
  /\ queue \in Seq(Msg)
  /\ phase \in {"lazy", "connecting", "connected", "closed", "panicked"}
  /\ reason \in {"none", "stale_session", "oversized", "other"}
  /\ sent \in Seq(Msg) /\ outbox \in Seq(Nat) /\ unacked \in Seq(Nat)
  /\ largestAcked \in Nat \cup {-1}

TypeNet ==
  /\ cur \in 0..MaxConns /\ nconn \in 0..MaxConns /\ breaks \in Nat
  /\ intact \subseteq Conn /\ clientEnd \subseteq Conn
  /\ serverEnd \subseteq Conn
  /\ c2s \in [Conn -> Seq(Nat)] /\ s2c \in [Conn -> Seq(Response)]

TypeServer ==
  /\ backlog \subseteq Conn /\ connq \in Seq(Conn)
  /\ proc \in {"none", "waiting", "serving"} /\ serving \in 0..MaxConns
  /\ next \in [seq : Nat, ack : Nat] /\ pendingAck \in Nat
  /\ held \in Nat \cup {-1}
  /\ delivered \in Seq(Msg) /\ everDelivered \subseteq Msg
  /\ consumed \in Nat
  /\ rxOpen \in BOOLEAN /\ cancelled \in BOOLEAN /\ listening \in BOOLEAN

\* Every variable has the type of the field it models; in particular no
\* sequence number and no acknowledgement is ever negative, which the code's
\* `next.seq - 1` on a u64 depends on.
TypeOK == TypeClient /\ TypeNet /\ TypeServer

Reported(m) == outcome[m] \in {"accepted", "dropped"}

\* tx_rx.md, "no duplicates and no reordering per session": what the server
\* puts into the ChannelRx's queue is in the order of the posts, however often
\* the client retransmits and in whatever order connections are dispatched.
DeliveredInOrder ==
  \A i, j \in DOMAIN delivered : i < j => delivered[i] < delivered[j]

\* The application never receives a message twice or out of order, also when
\* a stop races the dispatch of a reconnect.
ReceivedInOrder ==
  \A i, j \in 1..consumed : i < j => delivered[i] < delivered[j]

\* Tx::send resolves Ok only for a message that is in the server's queue: an
\* ack never runs ahead of deliver_tx.send, over any number of connections.
AcceptedWasDelivered ==
  \A m \in Msg : outcome[m] = "accepted" => m \in everDelivered

\* Completions are reported in the order of the posts: a message is accepted
\* only if everything posted before it is, also when the task then closes.
AcceptedInOrder ==
  \A m, n \in Msg : m < n /\ Reported(n) => Reported(m)

\* What the session still owes: unacked, then unsent.
Run == unacked \o outbox

\* Every post is either reported or still owned by the task, in one place:
\* no completion is lost in a requeue, a prune or the final drain.
NoPostLost ==
  LET inHand == InQueue \cup MsgsOf(Run)
  IN  /\ {m \in 1..posted : outcome[m] = "pending"} = inHand
      /\ Len(queue) + Len(Run) = Cardinality(inHand)

\* Every completion is resolved once and in turn, or still owned by the task.
CompletionsExact == NoPostLost /\ AcceptedInOrder

\* The assertions of Outbox::push_back, Outbox::requeue_unacked and
\* Unacked::push_back: what is unacked, then what is unsent, is one ascending
\* run that ends just before the next sequence number.
DequesAscend ==
  ~TaskGone => \A i \in DOMAIN Run : Run[i] = NextSeq - Len(Run) + i - 1

\* No acknowledgement goes backwards: the assertion of Unacked::prune never
\* fires, also when an ack arrives before the redelivery it makes pointless.
NoPanic == phase # "panicked"

\* A running server never sees a gap, whichever of the session's connections
\* it serves and in whatever order: it never answers Reject to its own client.
NeverAhead ==
  /\ proc = "serving" /\ held = -1 /\ c2s[serving] # <<>> =>
       Head(c2s[serving]) <= next.seq
  /\ reason # "stale_session"

\* Whatever happens to the link, every post is eventually reported.
EveryPostResolves ==
  \A m \in Msg : (m <= posted) ~> (outcome[m] # "pending")

\* net_internals.md, "I/O error: recoverable, reconnect, retransmit unacked":
\* once the link stays up, a delivered message is eventually reported, with no
\* help from the delivery timeout.
DeliveredIsReported ==
  \A m \in Msg : (m \in everDelivered) ~> (outcome[m] # "pending")

\* ChannelRx::join returns: after stop() the accept loop ends, unless its
\* process dies first (a new one has a new token).
StopCompletes == cancelled ~> ~listening \/ ~cancelled

\* The session implements the channel it promises.
Channel == INSTANCE ReliableChannel
             WITH arrived <- delivered, open <- ~TaskGone
ImplementsChannel == Channel!Spec

=============================================================================
