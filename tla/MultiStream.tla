----------------------------- MODULE MultiStream -----------------------------
(***************************************************************************)
(* One multi-stream (unordered) network session of hyperactor: the         *)
(* dispatcher and the writers that `net::spawn_unordered` starts, one      *)
(* writer per stream, and the receive loops that                           *)
(* `server::dispatch_multi_stream` runs, one per stream, around a shared   *)
(* AckWatermark.  Nothing is ever retransmitted, and no delivery timeout   *)
(* runs.                                                                   *)
(*                                                                         *)
(* A message is its sequence number, which is the order of the posts.      *)
(* Connections are as in SimplexSession; those of a stream that no receive *)
(* loop has taken up yet are a set, since they are dispatched in any order.*)
(***************************************************************************)
EXTENDS Integers, Sequences, FiniteSets, FiniteSetsExt

CONSTANTS
  Stream,          \* the streams of the session, two at least
  MaxPosts,        \* bound: messages the application posts
  MaxConns,        \* bound: connections the writers open
  MaxBreaks,       \* bound: connections the network breaks
  QueueCap,        \* capacity of the shared work queue
  AckEvery,        \* MESSAGE_ACK_EVERY_N_MESSAGES
  InboxCap,        \* capacity of the bounded channel under the ChannelRx
  Unserializable,  \* messages on which serialize_bincode fails
  Oversized        \* messages whose frame the codec refuses to write

Msg  == 0..(MaxPosts - 1)
Conn == 1..MaxConns

ASSUME MultiStreamAssumption ==
  /\ MaxPosts \in Nat /\ MaxConns \in Nat /\ MaxBreaks \in Nat
  /\ QueueCap \in Nat \ {0} /\ AckEvery \in Nat /\ InboxCap \in Nat \ {0}
  /\ Unserializable \subseteq Msg /\ Oversized \subseteq Msg

VARIABLES
  posted,      \* how many messages were posted
  txOpen,      \* some ChannelTx handle is alive
  outcome,     \* what the completion of each message reported
  dphase,      \* where the dispatcher is
  taken,       \* next_seq: messages it has taken from the ChannelTx's queue
  shared,      \* the work queue the writers share
  unacked,     \* the shared unacked map, as a set of sequence numbers
  ackRead,     \* history: the largest ack any writer has read, -1 for none
  wphase,      \* wphase[s]: where the writer of s is
  hand,        \* hand[s]: the message it is writing, -1 for none
  wconn,       \* wconn[s]: its connection, 0 for none
  nconn,       \* connections opened so far
  breaks,      \* connections broken so far
  intact,      \* connections the network still carries
  clientEnd,   \* connections whose client end is open
  serverEnd,   \* connections whose server end is open
  c2s,         \* c2s[c]: frames the server has not read
  s2c,         \* s2c[c]: responses the client has not read
  waiting,     \* waiting[s]: connections of s that are not taken up yet
  serving,     \* serving[s]: the connection being served, 0 for none
  at,          \* at[s]: where the receive loop of s is
  pendingAck,  \* pendingAck[s]: the ack it is writing, -1 for none
  held,        \* held[s]: the message in deliver_tx.send, -1 for none
  mark,        \* the AckWatermark
  recorded,    \* history: every sequence number that was recorded
  delivered,   \* messages put into the ChannelRx's queue
  consumed,    \* how many of them the application received
  rxOpen,      \* the receiving half is alive
  cancelled,   \* ServerHandle::stop was called
  listening    \* the accept loop holds the listener

sendVars  == <<posted, txOpen, dphase, taken>>
poolVars  == <<outcome, shared, unacked, ackRead>>
writeVars == <<wphase, hand, wconn>>
ends      == <<intact, clientEnd, serverEnd>>
netVars   == <<nconn, ends, c2s, s2c, breaks>>
loopVars  == <<serving, at, pendingAck, held>>
recvVars  == <<waiting, loopVars, mark, recorded>>
rxVars    == <<delivered, consumed, rxOpen, cancelled, listening>>
vars == <<sendVars, poolVars, writeVars, netVars, recvVars, rxVars>>

-----------------------------------------------------------------------------
(* AckWatermark; -1 stands for None.                                       *)

NewMark == [received |-> {}, highest |-> -1, reported |-> -1,
            committed |-> -1, since |-> 0]

\* Mutant of Frontier: what was buffered does not extend the run.
FrontierStuck(w, q) == q

\* AckWatermark::record, the loop that drains what extends the run.
Frontier(w, q) ==
  CHOOSE n \in q..(q + Cardinality(w.received)) :
    (q + 1)..n \subseteq w.received /\ n + 1 \notin w.received

\* AckWatermark::record.
Record(w, q) ==
  LET f == Frontier(w, q)
  IN  CASE q = w.highest + 1 ->
             [w EXCEPT !.highest = f, !.received = @ \ (q..f), !.since = @ + 1]
        [] q > w.highest + 1 /\ q \notin w.received ->
             [w EXCEPT !.received = @ \cup {q}, !.since = @ + 1]
        [] OTHER -> w

\* AckWatermark::poll has something to say, once its time or its count is due.
Advanced(w) == w.since > 0 /\ w.highest > w.reported

CountDue(w) == w.since >= AckEvery

Polled(w) == [w EXCEPT !.reported = w.highest, !.since = 0]

\* AckWatermark::commit.
Commit(w, n) == [w EXCEPT !.committed = IF n > @ THEN n ELSE @]

\* AckWatermark::highest_uncommitted, -1 for None.
HighestSeen(w) == Max(w.received \cup {w.highest})
HighestUncommitted(w) ==
  IF HighestSeen(w) > w.committed THEN HighestSeen(w) ELSE -1

-----------------------------------------------------------------------------
Ack(n) == [type |-> "ack", seq |-> n]
Closed == [type |-> "closed", seq |-> 0]

Resolve(ms, how) == [m \in Msg |-> IF m \in ms THEN how ELSE outcome[m]]
Queued == {shared[i] : i \in DOMAIN shared}

\* The peer still gets what is written on c.
ServerHears(c) == c \in intact /\ c \in serverEnd
ClientHears(c) == c \in intact /\ c \in clientEnd

Init ==
  /\ posted = 0 /\ txOpen = TRUE /\ dphase = "recv" /\ taken = 0
  /\ outcome = [m \in Msg |-> "pending"] /\ shared = <<>> /\ unacked = {}
  /\ ackRead = -1
  /\ wphase = [s \in Stream |-> "connecting"]
  /\ hand = [s \in Stream |-> -1] /\ wconn = [s \in Stream |-> 0]
  /\ nconn = 0 /\ breaks = 0
  /\ intact = {} /\ clientEnd = {} /\ serverEnd = {}
  /\ c2s = [c \in Conn |-> <<>>] /\ s2c = [c \in Conn |-> <<>>]
  /\ waiting = [s \in Stream |-> {}] /\ serving = [s \in Stream |-> 0]
  /\ at = [s \in Stream |-> "idle"] /\ pendingAck = [s \in Stream |-> -1]
  /\ held = [s \in Stream |-> -1] /\ mark = NewMark /\ recorded = {}
  /\ delivered = {} /\ consumed = 0
  /\ rxOpen = TRUE /\ cancelled = FALSE /\ listening = TRUE

-----------------------------------------------------------------------------
(* The application and the dispatcher.                                     *)

\* ChannelTx::do_post.  The dispatcher outlives every ChannelTx, so the send
\* on its queue does not fail.
Post ==
  /\ txOpen /\ posted < MaxPosts
  /\ posted' = posted + 1
  /\ UNCHANGED <<txOpen, dphase, taken, poolVars, writeVars, netVars, recvVars,
                 rxVars>>

\* The last ChannelTx handle goes away.
DropTx ==
  /\ txOpen /\ txOpen' = FALSE
  /\ UNCHANGED <<posted, dphase, taken, poolVars, writeVars, netVars, recvVars,
                 rxVars>>

\* The dispatcher numbers the next message; taken - 1 is in its hand.
DispatcherRecv ==
  /\ dphase = "recv" /\ taken < posted
  /\ taken' = taken + 1 /\ dphase' = "sending"
  /\ UNCHANGED <<posted, txOpen, poolVars, writeVars, netVars, recvVars,
                 rxVars>>

\* queue_tx.send waits for room.  It fails only when the queue has no receiver,
\* and the dispatcher's own cleanup_rx is one.
DispatcherSend ==
  /\ dphase = "sending" /\ Len(shared) < QueueCap
  /\ shared' = Append(shared, taken - 1) /\ dphase' = "recv"
  /\ UNCHANGED <<posted, txOpen, taken, outcome, unacked, ackRead, writeVars,
                 netVars, recvVars, rxVars>>

\* receiver.recv() returns None; the dispatcher drops queue_tx and joins the
\* writers.
DispatcherStops ==
  /\ dphase = "recv" /\ taken = posted /\ ~txOpen
  /\ dphase' = "joining"
  /\ UNCHANGED <<posted, txOpen, taken, poolVars, writeVars, netVars, recvVars,
                 rxVars>>

\* Mutant of QueueClosed: queue_tx is dropped after the writers were joined.
QueueClosedLate == dphase = "closed"

QueueClosed == dphase \in {"joining", "closed"}

\* Mutant of Leftover: the unacked map is forgotten.
LeftoverQueued == Queued

\* What is reported at the end: the rest of the queue and of the map.
Leftover == Queued \cup unacked

AllWritersGone == \A s \in Stream : wphase[s] = "gone"

DispatcherEnds ==
  /\ dphase = "joining" /\ AllWritersGone
  /\ outcome' = Resolve(Leftover, "accepted")
  /\ shared' = <<>> /\ unacked' = {} /\ dphase' = "closed"
  /\ UNCHANGED <<posted, txOpen, taken, ackRead, writeVars, netVars, recvVars,
                 rxVars>>

-----------------------------------------------------------------------------
(* The writer of stream s.                                                 *)

\* Session::connect.
WriterConnects(s) ==
  /\ wphase[s] = "connecting" /\ listening /\ nconn < MaxConns
  /\ nconn' = nconn + 1
  /\ wconn' = [wconn EXCEPT ![s] = nconn + 1]
  /\ wphase' = [wphase EXCEPT ![s] = "connected"]
  /\ intact' = intact \cup {nconn + 1}
  /\ clientEnd' = clientEnd \cup {nconn + 1}
  /\ serverEnd' = serverEnd \cup {nconn + 1}
  /\ waiting' = [waiting EXCEPT ![s] = @ \cup {nconn + 1}]
  /\ UNCHANGED <<sendVars, poolVars, hand, c2s, s2c, breaks, loopVars, mark,
                 recorded, rxVars>>

\* Nobody listens any more, and a TCP link gives up (CHANNEL_RECONNECT_TIMEOUT).
WriterConnectFails(s) ==
  /\ wphase[s] = "connecting" /\ ~listening
  /\ wphase' = [wphase EXCEPT ![s] = "gone"]
  /\ UNCHANGED <<sendVars, poolVars, hand, wconn, netVars, recvVars, rxVars>>

\* What an ack of n covers: split_off(&(ack + 1)).
Covered(n) == {m \in unacked : m <= n}

WriterReadsAck(s) ==
  LET c == wconn[s]
  IN  /\ wphase[s] = "connected" /\ s2c[c] # <<>> /\ Head(s2c[c]).type = "ack"
      /\ outcome' = Resolve(Covered(Head(s2c[c]).seq), "accepted")
      /\ unacked' = unacked \ Covered(Head(s2c[c]).seq)
      /\ ackRead' = Max({ackRead, Head(s2c[c]).seq})
      /\ s2c' = [s2c EXCEPT ![c] = Tail(@)]
      /\ UNCHANGED <<sendVars, shared, writeVars, nconn, ends, c2s, breaks,
                     recvVars, rxVars>>

\* The writer takes a message from the work queue; one that cannot be
\* serialized is accepted and its number never used.
WriterPulls(s) ==
  /\ wphase[s] = "connected" /\ shared # <<>>
  /\ shared' = Tail(shared)
  /\ IF Head(shared) \in Unserializable
       THEN /\ outcome' = Resolve({Head(shared)}, "accepted")
            /\ UNCHANGED <<hand, wphase>>
       ELSE /\ hand' = [hand EXCEPT ![s] = Head(shared)]
            /\ wphase' = [wphase EXCEPT ![s] = "writing"]
            /\ UNCHANGED outcome
  /\ UNCHANGED <<sendVars, unacked, ackRead, wconn, netVars, recvVars, rxVars>>

\* The write completes; on a lost connection it may, too.
WriterWrites(s) ==
  /\ wphase[s] = "writing" /\ hand[s] \notin Oversized
  /\ c2s' = IF ServerHears(wconn[s])
              THEN [c2s EXCEPT ![wconn[s]] = Append(@, hand[s])] ELSE c2s
  /\ wphase' = [wphase EXCEPT ![s] = "inserting"]
  /\ UNCHANGED <<sendVars, poolVars, hand, wconn, nconn, ends, s2c, breaks,
                 recvVars, rxVars>>

\* Only then is the message entered into the unacked map, under its lock.
WriterInserts(s) ==
  /\ wphase[s] = "inserting"
  /\ unacked' = unacked \cup {hand[s]}
  /\ hand' = [hand EXCEPT ![s] = -1]
  /\ wphase' = [wphase EXCEPT ![s] = "connected"]
  /\ UNCHANGED <<sendVars, outcome, shared, ackRead, wconn, netVars, recvVars,
                 rxVars>>

\* Session::release, then on to phase p.  A socket dropped with unread data is
\* reset.
WriterReleases(s, p) ==
  LET c == wconn[s]
  IN  /\ wphase' = [wphase EXCEPT ![s] = p]
      /\ wconn' = [wconn EXCEPT ![s] = 0]
      /\ clientEnd' = clientEnd \ {c}
      /\ intact' = {d \in intact : d = c => s2c[d] = <<>>}
      /\ s2c' = [s2c EXCEPT ![c] = <<>>]
      /\ UNCHANGED <<nconn, serverEnd, c2s, breaks>>

\* The write fails: the message and its completion are dropped with it.
WriteFails(s) ==
  /\ wphase[s] = "writing"
  /\ hand[s] \in Oversized \/ ~ServerHears(wconn[s])
  /\ outcome' = Resolve({hand[s]}, "dropped")
  /\ hand' = [hand EXCEPT ![s] = -1]
  /\ WriterReleases(s, "connecting")
  /\ UNCHANGED <<sendVars, shared, unacked, ackRead, recvVars, rxVars>>

\* NetRxResponse::Closed is terminal for the writer.
WriterReadsClosed(s) ==
  /\ wphase[s] = "connected" /\ s2c[wconn[s]] # <<>>
  /\ Head(s2c[wconn[s]]).type = "closed"
  /\ WriterReleases(s, "gone")
  /\ UNCHANGED <<sendVars, poolVars, hand, recvVars, rxVars>>

\* A read error, which may overtake unread responses: reconnect.
WriterReadFails(s) ==
  /\ wphase[s] = "connected" /\ wconn[s] \notin intact
  /\ WriterReleases(s, "connecting")
  /\ UNCHANGED <<sendVars, poolVars, hand, recvVars, rxVars>>

\* EOF: reconnect, unless the queue is closed.
WriterEof(s) ==
  /\ wphase[s] = "connected" /\ ~ServerHears(wconn[s]) /\ s2c[wconn[s]] = <<>>
  /\ WriterReleases(s, IF QueueClosed THEN "gone" ELSE "connecting")
  /\ UNCHANGED <<sendVars, poolVars, hand, recvVars, rxVars>>

\* queue_rx.recv() fails: the queue is closed and empty.
WriterDone(s) ==
  /\ wphase[s] = "connected" /\ QueueClosed /\ shared = <<>>
  /\ WriterReleases(s, "gone")
  /\ UNCHANGED <<sendVars, poolVars, hand, recvVars, rxVars>>

-----------------------------------------------------------------------------
(* The network.                                                            *)

\* Connection c breaks; any suffix of either direction is lost.
Break(c) ==
  /\ breaks < MaxBreaks /\ breaks' = breaks + 1
  /\ c \in intact /\ c \in clientEnd \cup serverEnd
  /\ intact' = intact \ {c}
  /\ \E i \in 0..Len(c2s[c]), j \in 0..Len(s2c[c]) :
       /\ c2s' = [c2s EXCEPT ![c] = SubSeq(@, 1, i)]
       /\ s2c' = [s2c EXCEPT ![c] = SubSeq(@, 1, j)]
  /\ UNCHANGED <<sendVars, poolVars, writeVars, nconn, clientEnd, serverEnd,
                 recvVars, rxVars>>

-----------------------------------------------------------------------------
(* The receive loop of stream s.                                           *)

Goto(s, where) == at' = [at EXCEPT ![s] = where]

\* dispatch_multi_stream takes up a connection of its stream.
Serve(s, c) ==
  /\ at[s] = "idle" /\ c \in waiting[s] /\ listening
  /\ waiting' = [waiting EXCEPT ![s] = @ \ {c}]
  /\ serving' = [serving EXCEPT ![s] = c] /\ Goto(s, "poll")
  /\ UNCHANGED <<sendVars, poolVars, writeVars, netVars, pendingAck, held,
                 mark, recorded, rxVars>>

\* Mutant of PollValue: one beyond the watermark.
PollValueNext(w) == w.highest + 1

\* The ack that poll hands out.
PollValue(w) == w.highest

\* The loop claims an ack; its time may be due at any moment.
PollAck(s) ==
  /\ at[s] = "poll" /\ pendingAck[s] = -1 /\ Advanced(mark)
  /\ pendingAck' = [pendingAck EXCEPT ![s] = PollValue(mark)]
  /\ mark' = Polled(mark) /\ Goto(s, "select")
  /\ UNCHANGED <<sendVars, poolVars, writeVars, netVars, waiting, serving, held,
                 recorded, rxVars>>

\* No ack is due, or one is being written.
PollNothing(s) ==
  /\ at[s] = "poll"
  /\ ~(pendingAck[s] = -1 /\ Advanced(mark) /\ CountDue(mark))
  /\ Goto(s, "select")
  /\ UNCHANGED <<sendVars, poolVars, writeVars, netVars, waiting, serving,
                 pendingAck, held, mark, recorded, rxVars>>

\* The ack timer, which runs while something was recorded since the last ack.
Tick(s) ==
  /\ at[s] = "select" /\ pendingAck[s] = -1 /\ Advanced(mark)
  /\ Goto(s, "poll")
  /\ UNCHANGED <<sendVars, poolVars, writeVars, netVars, waiting, serving,
                 pendingAck, held, mark, recorded, rxVars>>

\* The ack is written, and committed.  (A commit that comes later only lets the
\* cleanup of another stream repeat the ack.)
AckWritten(s) ==
  /\ at[s] = "select" /\ pendingAck[s] # -1
  /\ s2c' = IF ClientHears(serving[s])
              THEN [s2c EXCEPT ![serving[s]] = Append(@, Ack(pendingAck[s]))]
              ELSE s2c
  /\ mark' = Commit(mark, pendingAck[s])
  /\ pendingAck' = [pendingAck EXCEPT ![s] = -1] /\ Goto(s, "poll")
  /\ UNCHANGED <<sendVars, poolVars, writeVars, nconn, ends, c2s, breaks,
                 waiting, serving, held, recorded, rxVars>>

\* A frame is recorded in the watermark before it is delivered.
ReadFrame(s) ==
  LET c == serving[s]
  IN  /\ at[s] = "select" /\ c2s[c] # <<>>
      /\ mark' = Record(mark, Head(c2s[c]))
      /\ recorded' = recorded \cup {Head(c2s[c])}
      /\ held' = [held EXCEPT ![s] = Head(c2s[c])] /\ Goto(s, "deliver")
      /\ c2s' = [c2s EXCEPT ![c] = Tail(@)]
      /\ UNCHANGED <<sendVars, poolVars, writeVars, nconn, ends, s2c, breaks,
                     waiting, serving, pendingAck, rxVars>>

\* deliver_tx.send completes once the bounded queue has room.
Deliver(s) ==
  /\ at[s] = "deliver" /\ rxOpen
  /\ Cardinality(delivered) - consumed < InboxCap
  /\ delivered' = delivered \cup {held[s]}
  /\ held' = [held EXCEPT ![s] = -1] /\ Goto(s, "poll")
  /\ UNCHANGED <<sendVars, poolVars, writeVars, netVars, waiting, serving,
                 pendingAck, mark, recorded, consumed, rxOpen, cancelled,
                 listening>>

\* The application receives from the ChannelRx.
RxRecv ==
  /\ rxOpen /\ ~cancelled /\ consumed < Cardinality(delivered)
  /\ consumed' = consumed + 1
  /\ UNCHANGED <<sendVars, poolVars, writeVars, netVars, recvVars, delivered,
                 rxOpen, cancelled, listening>>

\* The server drops its end of every connection in cs.
ServerDrops(cs) ==
  /\ serverEnd' = serverEnd \ cs
  /\ intact' = {c \in intact : c \in cs => c2s[c] = <<>>}
  /\ c2s' = [c \in Conn |-> IF c \in cs THEN <<>> ELSE c2s[c]]

FinalAck == IF HighestUncommitted(mark) = -1 THEN <<>>
            ELSE <<Ack(HighestUncommitted(mark))>>

\* What dispatch_multi_stream does when the receive loop ends: ack everything
\* seen, past gaps too, send the terminal response, release.  If the loop ends
\* for good, the connections that were handed to it are dropped.
RecvEnds(s, bye, recoverable) ==
  /\ s2c' = IF ClientHears(serving[s])
              THEN [s2c EXCEPT ![serving[s]] = @ \o FinalAck \o bye] ELSE s2c
  /\ \E n \in IF ClientHears(serving[s]) THEN {HighestSeen(mark)}
              ELSE {mark.committed, HighestSeen(mark)} :
       mark' = Commit(mark, n)
  /\ pendingAck' = [pendingAck EXCEPT ![s] = -1]
  /\ held' = [held EXCEPT ![s] = -1]
  /\ serving' = [serving EXCEPT ![s] = 0] /\ Goto(s, "idle")
  /\ \E lost \in IF recoverable THEN {{}} ELSE SUBSET waiting[s] :
       /\ waiting' = [waiting EXCEPT ![s] = @ \ lost]
       /\ ServerDrops({serving[s]} \cup lost)
  /\ UNCHANGED <<nconn, clientEnd, breaks, recorded>>

\* EOF after the last frame, or a read or write error, which may overtake
\* unread frames.
RecvEof(s) ==
  /\ at[s] = "select" /\ ~ClientHears(serving[s])
  /\ c2s[serving[s]] = <<>> \/ serving[s] \notin intact \/ pendingAck[s] # -1
  /\ RecvEnds(s, <<>>, TRUE)
  /\ UNCHANGED <<sendVars, poolVars, writeVars, rxVars>>

-----------------------------------------------------------------------------
(* Shutdown of the server: ChannelRx::join, drop.                          *)

Stop(dropped) ==
  /\ ~cancelled /\ cancelled' = TRUE
  /\ rxOpen' = ~dropped
  /\ UNCHANGED <<sendVars, poolVars, writeVars, netVars, recvVars, delivered,
                 consumed, listening>>

\* Mutant of RecvCancelled: a loop blocked in deliver_tx.send does not see it.
RecvCancelledIdle(s) ==
  /\ at[s] \in {"poll", "select"} /\ cancelled
  /\ RecvEnds(s, <<Closed>>, FALSE)
  /\ UNCHANGED <<sendVars, poolVars, writeVars, rxVars>>

\* The cancellation branch around the loop; a message in deliver_tx.send is
\* dropped with the future.
RecvCancelled(s) ==
  /\ at[s] # "idle" /\ cancelled
  /\ RecvEnds(s, <<Closed>>, FALSE)
  /\ UNCHANGED <<sendVars, poolVars, writeVars, rxVars>>

\* deliver_tx.send() fails: the ChannelRx is gone.
DeliverFails(s) ==
  /\ at[s] = "deliver" /\ ~rxOpen
  /\ RecvEnds(s, <<>>, TRUE)
  /\ UNCHANGED <<sendVars, poolVars, writeVars, rxVars>>

\* accept_loop returns once every dispatch task has been joined; a task that
\* waits for a connection sees the cancellation.
AcceptLoopEnds ==
  /\ cancelled /\ listening /\ \A s \in Stream : at[s] = "idle"
  /\ listening' = FALSE
  /\ waiting' = [s \in Stream |-> {}]
  /\ ServerDrops(UNION {waiting[s] : s \in Stream})
  /\ UNCHANGED <<sendVars, poolVars, writeVars, nconn, clientEnd, s2c, breaks,
                 loopVars, mark, recorded, delivered, consumed, rxOpen,
                 cancelled>>

-----------------------------------------------------------------------------
Dispatcher ==
  DispatcherRecv \/ DispatcherSend \/ DispatcherStops \/ DispatcherEnds

Writer(s) ==
  \/ WriterConnects(s) \/ WriterReadsAck(s) \/ WriterPulls(s)
  \/ WriterWrites(s) \/ WriterInserts(s) \/ WriteFails(s)
  \/ WriterReadFails(s) \/ WriterEof(s) \/ WriterDone(s)

Receiver(s) ==
  \/ \E c \in Conn : Serve(s, c)
  \/ PollAck(s) \/ PollNothing(s) \/ Tick(s) \/ AckWritten(s)
  \/ ReadFrame(s) \/ Deliver(s) \/ RecvEof(s)

Shutdown ==
  \/ \E dropped \in BOOLEAN : Stop(dropped)
  \/ AcceptLoopEnds
  \/ \E s \in Stream : \/ RecvCancelled(s) \/ DeliverFails(s)
                       \/ WriterConnectFails(s) \/ WriterReadsClosed(s)

\* The server stays up.
Next ==
  \/ Post \/ DropTx \/ Dispatcher \/ RxRecv
  \/ \E s \in Stream : Writer(s) \/ Receiver(s)
  \/ \E c \in Conn : Break(c)

Spec == Init /\ [][Next]_vars

\* The ChannelRx may be joined or dropped.
StopSpec == Init /\ [][Next \/ Shutdown]_vars

\* Tasks that can run do, and a branch of a select! that stays ready is taken.
\* Nothing makes the application post or drop its handle, nor the network fail,
\* nor the server stop.
Fairness ==
  /\ WF_vars(Dispatcher) /\ WF_vars(RxRecv) /\ WF_vars(AcceptLoopEnds)
  /\ \A s \in Stream :
       \* a writer: outside its select!, stream.next(), queue_rx.recv()
       /\ WF_vars(\/ WriterConnects(s) \/ WriterConnectFails(s)
                  \/ WriterWrites(s) \/ WriteFails(s) \/ WriterInserts(s))
       /\ WF_vars(\/ WriterReadsAck(s) \/ WriterReadsClosed(s)
                  \/ WriterReadFails(s) \/ WriterEof(s))
       /\ WF_vars(WriterPulls(s) \/ WriterDone(s))
       \* a receive loop: outside its select!, ack, timer, stream.next(), stop
       /\ WF_vars(\/ \E c \in Conn : Serve(s, c)
                  \/ PollAck(s) \/ PollNothing(s)
                  \/ Deliver(s) \/ DeliverFails(s))
       /\ WF_vars(AckWritten(s)) /\ WF_vars(Tick(s))
       /\ WF_vars(ReadFrame(s) \/ RecvEof(s)) /\ WF_vars(RecvCancelled(s))

FairSpec     == Spec /\ Fairness
FairStopSpec == StopSpec /\ Fairness

-----------------------------------------------------------------------------
\* The fields of the watermark, the deques and the hands keep their ranges.
TypeOK ==
  /\ posted \in 0..MaxPosts /\ taken \in 0..posted
  /\ dphase \in {"recv", "sending", "joining", "closed"}
  /\ outcome \in [Msg -> {"pending", "accepted", "dropped"}]
  /\ Queued \subseteq Msg /\ Len(shared) <= QueueCap /\ unacked \subseteq Msg
  /\ wphase \in [Stream -> {"connecting", "connected", "writing", "inserting",
                            "gone"}]
  /\ hand \in [Stream -> Msg \cup {-1}] /\ wconn \in [Stream -> 0..MaxConns]
  /\ serving \in [Stream -> 0..MaxConns]
  /\ at \in [Stream -> {"idle", "poll", "select", "deliver"}]
  /\ pendingAck \in [Stream -> Msg \cup {-1}]
  /\ mark.received \subseteq Msg
  /\ {mark.highest, mark.reported, mark.committed} \subseteq Msg \cup {-1}
  /\ mark.since \in 0..MaxPosts

\* The watermark is what its field comments say: highest_contiguous is the
\* largest N with all of 0..N recorded, over all streams, and received is what
\* was recorded beyond it.
WatermarkExact ==
  /\ 0..mark.highest \subseteq recorded
  /\ mark.highest + 1 \notin recorded
  /\ mark.received = recorded \ (0..mark.highest)

\* "Receivers ack a cumulative watermark: the highest N such that all of 0..=N
\* have been observed across all streams", whichever stream carries the ack.
AcksContiguous ==
  \A c \in Conn : \A i \in DOMAIN s2c[c] :
    s2c[c][i].type = "ack" => 0..s2c[c][i].seq \subseteq recorded

\* Until the session shuts down, a message is accepted only after the server
\* has seen it, whatever stream it travelled on.
AcceptedWasSeen ==
  dphase # "closed" =>
    \A m \in Msg \ Unserializable : outcome[m] = "accepted" => m \in recorded

\* An ack never lies: neither one that travels nor one that was believed covers
\* a message that no stream has seen, although each connection's cleanup acks
\* past gaps.
AcksHonest == AcksContiguous /\ AcceptedWasSeen

\* Every post is reported or in one place: the dispatcher's queue or hand, the
\* work queue, one writer's hand, or the unacked map.
NoPostLost ==
  LET inHand == {hand[s] : s \in Stream} \ {-1}
      holds  == (taken..(posted - 1))
                \cup (IF dphase = "sending" THEN {taken - 1} ELSE {})
                \cup Queued \cup inHand \cup unacked
  IN  /\ {m \in 0..(posted - 1) : outcome[m] = "pending"} = holds
      /\ Cardinality(inHand) + Len(shared) + Cardinality(unacked)
           = Cardinality(Queued \cup inHand \cup unacked)

\* When the application lets go of the channel the session ends, and with it
\* every post is reported (NoPostLost), reconnecting writers or not, unless the
\* server is stopped meanwhile.
CloseCompletes == ~txOpen ~> (dphase = "closed" \/ cancelled)

\* ChannelRx::join returns: after stop() the accept loop ends, full inbox or
\* not.
StopCompletes == cancelled ~> ~listening

\* "Shared unacked buffer: any writer's ack reader can prune it": what an ack
\* that was read covers is eventually reported.
AckedIsReported ==
  \A m \in Msg : (m <= ackRead) ~> (outcome[m] # "pending")

\* "All writers are gone": the dispatcher that sends a message then gives up.
WritersGoneNoticed ==
  (AllWritersGone /\ dphase = "sending") ~> (dphase = "closed")

=============================================================================
