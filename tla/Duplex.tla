------------------------------- MODULE Duplex -------------------------------
(***************************************************************************)
(* A duplex session: one connection carries the messages of both sides and *)
(* the acks for them, told apart by a tag.  Each side runs a receive loop  *)
(* and a send loop (recv_connected, send_connected) as branches of one     *)
(* select!, over a demultiplexer that buffers one frame and a writer that  *)
(* one loop at a time holds.  When a loop ends, the other is dropped where *)
(* it stands, half-written frame included; the side then flushes its ack,  *)
(* announces its end if it is one, and reconnects or ends.                 *)
(*                                                                         *)
(* I is the initiator (duplex::spawn), A the acceptor                      *)
(* (dispatch_duplex_stream), which first hands its DuplexRx and DuplexTx   *)
(* to the application through a bounded channel.  A connection has room    *)
(* for a few frames: who writes more waits until the peer reads, lets go   *)
(* or is lost.  A connection to a session whose acceptor has ended would   *)
(* begin a new session, or reach nobody if the task panicked; that is      *)
(* outside this module.                                                    *)
(***************************************************************************)
EXTENDS Integers, Sequences, FiniteSets

CONSTANTS
    PostsI, PostsA,     \* how many messages each side posts
    MaxConns,           \* how often the initiator may connect
    MaxEvents,          \* breaks, failed dials, dropped handles and cancellations
    InboxCap,           \* capacity of the channel to a DuplexRx
    WireCap             \* frames that a connection holds while nobody reads

ASSUME BoundsAssumption ==
    /\ PostsI \in Nat /\ PostsA \in Nat /\ MaxEvents \in Nat
    /\ MaxConns \in Nat \ {0} /\ InboxCap \in Nat \ {0} /\ WireCap \in Nat \ {0}

VARIABLES
    ep,             \* Side -> its task: loops, deliveries, Next
    posted,         \* Side -> messages posted
    outcome,        \* Side -> message -> what its completion says
    delivered,      \* Side -> messages delivered to its DuplexRx, in order
    inbox,          \* Side -> how many of them are not received yet
    txOpen, rxOpen, \* Side -> the application holds a DuplexTx, the DuplexRx
    cancelled,      \* Side -> DuplexClient::join; DuplexServer::stop, join
    wire,           \* Conn -> Side -> frames it wrote that are not read
    open,           \* Conn -> Side -> it has not released the connection
    broken,         \* connections the network has failed
    offered,        \* connections that are prepared or wait for the acceptor's link
    conns,          \* connections made
    faults

vars == <<ep, posted, outcome, delivered, inbox, txOpen, rxOpen, cancelled,
          wire, open, broken, offered, conns, faults>>
appVars == <<posted, txOpen, rxOpen, cancelled>>
linkVars == <<open, broken, offered, conns, faults>>

Side == {"I", "A"}
Other(e) == IF e = "I" THEN "A" ELSE "I"
Conn == 1..MaxConns
Posts(e) == IF e = "I" THEN PostsI ELSE PostsA
Msg(e) == 0..(Posts(e) - 1)
None == -1
NoFrame == [type |-> "none"]
Torn == [type |-> "torn"]

\* Data from e and the responses to it carry e's tag.
Data(e, seq) == [type |-> "data", tag |-> e, seq |-> seq]
Ack(e, seq) == [type |-> "ack", tag |-> Other(e), seq |-> seq]
Closed(e) == [type |-> "closed", tag |-> Other(e)]

Fresh ==
    [task |-> "connect", conn |-> 0, queue |-> <<>>, outbox |-> <<>>, unacked |-> <<>>,
     acked |-> None, seq |-> 0, ack |-> 0, pending |-> None, writing |-> "none",
     slot |-> NoFrame, hold |-> None, why |-> "none"]

Init ==
    /\ ep = [e \in Side |-> IF e = "A" THEN [Fresh EXCEPT !.task = "offer"] ELSE Fresh]
    /\ posted = [e \in Side |-> 0]
    /\ outcome = [e \in Side |-> [m \in Msg(e) |-> "none"]]
    /\ delivered = [e \in Side |-> <<>>]
    /\ inbox = [e \in Side |-> 0]
    /\ txOpen = [e \in Side |-> TRUE]
    /\ rxOpen = [e \in Side |-> TRUE]
    /\ cancelled = [e \in Side |-> FALSE]
    /\ wire = [c \in Conn |-> [e \in Side |-> <<>>]]
    /\ open = [c \in Conn |-> [e \in Side |-> FALSE]]
    /\ broken = {} /\ offered = {} /\ conns = 0 /\ faults = 0

-----------------------------------------------------------------------------
(* The application.                                                         *)

\* What the applications have let go of so far; it is bounded together with the faults.
Quits ==
    Cardinality({e \in Side : ~txOpen[e]}) + Cardinality({e \in Side : ~rxOpen[e]})
    + Cardinality({e \in Side : cancelled[e]})
EventLeft == faults + Quits < MaxEvents

\* The acceptor's application has its handles once they are handed off.
Handed(e) == e = "A" => conns > 0 /\ ep["A"].task # "offer"

\* A post to a session that has ended is rejected.
Post(e) ==
    /\ posted[e] < Posts(e) /\ txOpen[e] /\ Handed(e)
    /\ posted' = [posted EXCEPT ![e] = @ + 1]
    /\ IF ep[e].task = "ended"
       THEN outcome' = [outcome EXCEPT ![e][posted[e]] = "rejected"] /\ UNCHANGED ep
       ELSE /\ outcome' = [outcome EXCEPT ![e][posted[e]] = "pending"]
            /\ ep' = [ep EXCEPT ![e].queue = Append(@, posted[e])]
    /\ UNCHANGED <<delivered, inbox, txOpen, rxOpen, cancelled, wire, linkVars>>

DropTx(e) ==
    /\ EventLeft /\ txOpen[e] /\ Handed(e)
    /\ txOpen' = [txOpen EXCEPT ![e] = FALSE]
    /\ UNCHANGED <<ep, posted, outcome, delivered, inbox, rxOpen, cancelled, wire, linkVars>>

DropRx(e) ==
    /\ EventLeft /\ rxOpen[e] /\ Handed(e)
    /\ rxOpen' = [rxOpen EXCEPT ![e] = FALSE]
    /\ UNCHANGED <<ep, posted, outcome, delivered, inbox, txOpen, cancelled, wire, linkVars>>

Cancel(e) ==
    /\ EventLeft /\ ~cancelled[e]
    /\ cancelled' = [cancelled EXCEPT ![e] = TRUE]
    /\ UNCHANGED <<ep, posted, outcome, delivered, inbox, txOpen, rxOpen, wire, linkVars>>

RxRecv(e) ==
    /\ rxOpen[e] /\ inbox[e] > 0
    /\ inbox' = [inbox EXCEPT ![e] = @ - 1]
    /\ UNCHANGED <<ep, appVars, outcome, delivered, wire, linkVars>>

-----------------------------------------------------------------------------
(* Connecting.                                                              *)

\* What was sent is not sent again.
RequeuedNothing(e) == ep[e].outbox

\* What was sent and not acked is queued again in front of the rest.
Requeued(e) == ep[e].unacked \o ep[e].outbox

OnConnection(e, c) ==
    ep' = [ep EXCEPT ![e] = [@ EXCEPT !.task = "run", !.conn = c, !.outbox = Requeued(e),
                                      !.unacked = <<>>]]

\* The deliveries and the queue are dropped with the task; nobody rejects them.  A
\* receipt takes that for an acceptance; any other sink hears nothing.
Dropped(e) ==
    [m \in Msg(e) |-> IF outcome[e][m] = "pending" THEN "dropped" ELSE outcome[e][m]]

\* The task ends: the acceptor's link lets go of the connections it was handed.
Gone(e) ==
    /\ outcome' = [outcome EXCEPT ![e] = Dropped(e)]
    /\ offered' = IF e = "A" THEN {} ELSE offered

Ended(e) == [Fresh EXCEPT !.task = "ended", !.seq = ep[e].seq, !.why = ep[e].why]

Dial ==
    /\ ep["I"].task = "connect" /\ conns < MaxConns
    /\ ep["A"].task # "ended" /\ ~cancelled["A"]
    /\ conns' = conns + 1
    /\ OnConnection("I", conns + 1)
    /\ open' = [open EXCEPT ![conns + 1] = [e \in Side |-> TRUE]]
    /\ offered' = offered \cup {conns + 1}
    /\ UNCHANGED <<appVars, outcome, delivered, inbox, wire, broken, faults>>

\* The link gives up: at once when nobody listens, or for the network's reasons.
DialFails ==
    /\ ep["I"].task = "connect"
    /\ \/ (ep["A"].task = "ended" \/ cancelled["A"] \/ conns = MaxConns) /\ UNCHANGED faults
       \/ EventLeft /\ faults' = faults + 1
    /\ Gone("I")
    /\ ep' = [ep EXCEPT !["I"] = Ended("I")]
    /\ UNCHANGED <<appVars, delivered, inbox, wire, open, broken, conns>>

\* The handles go into the channel that DuplexServer::accept empties, if there is room:
\* the task waits for that and does not look at the token.
HandOff ==
    /\ ep["A"].task = "offer" /\ offered # {}
    /\ ep' = [ep EXCEPT !["A"].task = "connect"]
    /\ UNCHANGED <<appVars, outcome, delivered, inbox, wire, linkVars>>

\* Each connection is prepared in a task of its own, so they come in any order.
Accept(c) ==
    /\ ep["A"].task = "connect" /\ c \in offered
    /\ OnConnection("A", c)
    /\ offered' = offered \ {c}
    /\ UNCHANGED <<appVars, outcome, delivered, inbox, wire, open, broken, conns, faults>>

\* Side e lets go of its connection, and of those its link holds when the task ends.
LetGo(e, ends) ==
    open' = [c \in Conn |->
                IF c = ep[e].conn \/ (ends /\ e = "A" /\ c \in offered)
                THEN [open[c] EXCEPT ![e] = FALSE] ELSE open[c]]

\* Only the initiator watches the token while it has no connection.
ConnectCancelledI(e) ==
    /\ e = "I" /\ ep[e].task = "connect" /\ cancelled[e]
    /\ Gone(e) /\ LetGo(e, TRUE)
    /\ ep' = [ep EXCEPT ![e] = Ended(e)]
    /\ UNCHANGED <<appVars, delivered, inbox, wire, broken, conns, faults>>

\* (An acceptor to which nobody has connected has no session to end.)
ConnectCancelled(e) ==
    /\ cancelled[e]
    /\ ep[e].task = "connect" \/ (ep[e].task = "offer" /\ offered = {})
    /\ Gone(e) /\ LetGo(e, TRUE)
    /\ ep' = [ep EXCEPT ![e] = Ended(e)]
    /\ UNCHANGED <<appVars, delivered, inbox, wire, broken, conns, faults>>

Break(c) ==
    /\ EventLeft /\ c \notin broken /\ \E e \in Side : open[c][e]
    /\ broken' = broken \cup {c} /\ faults' = faults + 1
    /\ UNCHANGED <<ep, appVars, outcome, delivered, inbox, wire, open, offered, conns>>

-----------------------------------------------------------------------------
(* Reading: DemuxFrameReader::next_tagged and what the loops do with a frame. *)

Running(e) == ep[e].task = "run"
Incoming(e) == wire[ep[e].conn][Other(e)]
Idle == UNCHANGED <<appVars, linkVars>>

\* The frame that the loop it is for gets next: the one in the slot, or else the next
\* one of the connection, whichever loop reads it.
Frame(e) ==
    IF ep[e].slot # NoFrame THEN ep[e].slot
    ELSE IF Incoming(e) # <<>> THEN Head(Incoming(e)) ELSE NoFrame

Holds(e, type) == Running(e) /\ Frame(e).type = type

Read(e) ==
    wire' = IF ep[e].slot # NoFrame THEN wire
            ELSE [wire EXCEPT ![ep[e].conn][Other(e)] = Tail(@)]

\* send_connected reads a frame of the other tag while recv_connected is busy: it
\* stays in the slot, and nobody reads on until it is taken.
Fetch(e) ==
    /\ Holds(e, "data") /\ ep[e].slot = NoFrame /\ ep[e].hold # None
    /\ ep' = [ep EXCEPT ![e].slot = Frame(e)]
    /\ Read(e)
    /\ UNCHANGED <<outcome, delivered, inbox>> /\ Idle

Covered(e, seq) == {m \in Msg(e) : \E i \in DOMAIN ep[e].unacked : ep[e].unacked[i] = m /\ m <= seq}

\* Unacked::prune pops the front of the deque while it is acked.
Prune(e, seq) ==
    /\ LET u == ep[e].unacked
       IN  \E n \in 0..Len(u) :
               /\ \A i \in 1..n : u[i] <= seq
               /\ n < Len(u) => u[n + 1] > seq
               /\ ep' = [ep EXCEPT ![e].acked = seq,
                                   ![e].unacked = SubSeq(u, n + 1, Len(u))]
    /\ outcome' = [outcome EXCEPT ![e] =
           [m \in Msg(e) |-> IF m \in Covered(e, seq) THEN "accepted" ELSE @[m]]]
    /\ Read(e)
    /\ UNCHANGED <<delivered, inbox>> /\ Idle

\* The assertion of prune fails: the task is gone without a cleanup.
Panic(e) ==
    /\ Gone(e) /\ LetGo(e, TRUE)
    /\ ep' = [ep EXCEPT ![e] = [Ended(e) EXCEPT !.why = "panic"]]
    /\ wire' = [wire EXCEPT ![ep[e].conn][Other(e)] = <<>>]
    /\ UNCHANGED <<appVars, delivered, inbox, broken, conns, faults>>

\* send_connected: acks must not go back.
TakeAck(e) ==
    /\ Holds(e, "ack")
    /\ IF ep[e].acked <= Frame(e).seq THEN Prune(e, Frame(e).seq) ELSE Panic(e)

\* Every number is taken for the expected one.
IsRetransmitNever(e) == FALSE

IsRetransmit(e) == Frame(e).seq < ep[e].seq

\* recv_connected reads only between two deliveries.
TakeData(e) ==
    /\ Holds(e, "data") /\ ep[e].hold = None
    /\ ep' = [ep EXCEPT ![e].hold = IF IsRetransmit(e) THEN None ELSE Frame(e).seq,
                        ![e].slot = NoFrame]
    /\ Read(e)
    /\ UNCHANGED <<outcome, delivered, inbox>> /\ Idle

Deliver(e) ==
    /\ Running(e) /\ ep[e].hold # None /\ rxOpen[e] /\ inbox[e] < InboxCap
    /\ inbox' = [inbox EXCEPT ![e] = @ + 1]
    /\ delivered' = [delivered EXCEPT ![e] = Append(@, ep[e].hold)]
    /\ ep' = [ep EXCEPT ![e].seq = ep[e].hold + 1, ![e].hold = None]
    /\ UNCHANGED <<wire, outcome>> /\ Idle

-----------------------------------------------------------------------------
(* Writing: Completion::drive.  The writer is one loop's until its frame is  *)
(* complete.                                                                 *)

\* Frames written to c arrive unless the connection is broken, the peer has let go
\* of it, or they follow a frame that was cut off.
Arriving(e, c, frames) ==
    LET q == wire[c][e]
    IN  IF c \in broken \/ ~open[c][Other(e)] \/ (q # <<>> /\ q[Len(q)] = Torn)
        THEN q ELSE q \o frames

\* A write waits: the connection is full, it is up and the peer has not let go of it.
Unread(e) ==
    LET c == ep[e].conn
    IN  Len(wire[c][e]) >= WireCap /\ c \notin broken /\ open[c][Other(e)]

\* The application's message becomes the outbox, when that is empty.
RecvNew(e) ==
    /\ Running(e) /\ ep[e].outbox = <<>> /\ ep[e].queue # <<>>
    /\ ep' = [ep EXCEPT ![e].outbox = <<Head(ep[e].queue)>>, ![e].queue = Tail(@)]
    /\ UNCHANGED <<wire, outcome, delivered, inbox>> /\ Idle

StartData(e) ==
    /\ Running(e) /\ ep[e].outbox # <<>> /\ ep[e].writing = "none"
    /\ ep' = [ep EXCEPT ![e].writing = "data"]
    /\ UNCHANGED <<wire, outcome, delivered, inbox>> /\ Idle

\* The frame is out: Unacked::push_back, which reports what is acked already.
DoneData(e) ==
    /\ Running(e) /\ ep[e].writing = "data" /\ ~Unread(e)
    /\ LET m == Head(ep[e].outbox)
           early == m <= ep[e].acked
       IN  /\ ep' = [ep EXCEPT ![e].writing = "none", ![e].outbox = Tail(@),
                               ![e].unacked = IF early THEN @ ELSE Append(@, m)]
           /\ outcome' = IF early THEN [outcome EXCEPT ![e][m] = "accepted"] ELSE outcome
           /\ wire' = [wire EXCEPT ![ep[e].conn][e] = Arriving(e, ep[e].conn, <<Data(e, m)>>)]
    /\ UNCHANGED <<delivered, inbox>> /\ Idle

\* Acks are due by count or by time: some time after a delivery.
BeginAck(e) ==
    /\ Running(e) /\ ep[e].hold = None /\ ep[e].pending = None /\ ep[e].ack < ep[e].seq
    /\ ep' = [ep EXCEPT ![e].pending = ep[e].seq]
    /\ UNCHANGED <<wire, outcome, delivered, inbox>> /\ Idle

\* While recv_connected waits for room in the inbox it does not drive its ack, even
\* if that has the writer.
StartAck(e) ==
    /\ Running(e) /\ ep[e].hold = None /\ ep[e].pending # None /\ ep[e].writing = "none"
    /\ ep' = [ep EXCEPT ![e].writing = "ack"]
    /\ UNCHANGED <<wire, outcome, delivered, inbox>> /\ Idle

AckSeq(seq) == seq - 1

DoneAck(e) ==
    /\ Running(e) /\ ep[e].hold = None /\ ep[e].writing = "ack" /\ ~Unread(e)
    /\ ep' = [ep EXCEPT ![e].writing = "none", ![e].pending = None, ![e].ack = ep[e].pending]
    /\ wire' = [wire EXCEPT ![ep[e].conn][e] =
                   Arriving(e, ep[e].conn, <<Ack(e, AckSeq(ep[e].pending))>>)]
    /\ UNCHANGED <<outcome, delivered, inbox>> /\ Idle

-----------------------------------------------------------------------------
(* The end of a connection.                                                  *)

\* The select! ends and drops both loops: a frame that is being written may be cut
\* off, and a message in hand or in the slot is gone.
LoopEnds(e, why) ==
    /\ ep' = [ep EXCEPT ![e] = [@ EXCEPT !.task = "clean", !.why = why, !.hold = None,
                                         !.pending = None, !.writing = "none", !.slot = NoFrame]]
    /\ \/ UNCHANGED wire
       \/ /\ ep[e].writing # "none"
          /\ wire' = [wire EXCEPT ![ep[e].conn][e] = Arriving(e, ep[e].conn, <<Torn>>)]
    /\ UNCHANGED <<appVars, linkVars, outcome, delivered, inbox>>

\* The peer has let go, the network fails, or what arrives is no frame.
ConnectionEnds(e) ==
    /\ Running(e) /\ ep[e].slot = NoFrame
    /\ \/ ep[e].conn \in broken
       \/ Incoming(e) = <<>> /\ ~open[ep[e].conn][Other(e)]
       \/ Frame(e) = Torn
    /\ LoopEnds(e, "io")

\* A write may fail as well, before what the peer wrote last is read: recv_connected
\* drives its ack first (biased), and the read of send_connected may wait its turn.
WriteFails(e) ==
    /\ Running(e) /\ ep[e].writing # "none"
    /\ ep[e].conn \in broken \/ ~open[ep[e].conn][Other(e)]
    /\ LoopEnds(e, "io")

\* The DuplexRx is gone: an error of this connection only.
DeliverFails(e) == Running(e) /\ ep[e].hold # None /\ ~rxOpen[e] /\ LoopEnds(e, "io")

TakeClosed(e) == Holds(e, "closed") /\ LoopEnds(e, "closed")

Timeout(e) == Running(e) /\ ep[e].unacked # <<>> /\ LoopEnds(e, "timeout")

AppClosed(e) ==
    /\ Running(e) /\ ~txOpen[e] /\ ep[e].outbox = <<>> /\ ep[e].queue = <<>>
    /\ LoopEnds(e, "appclosed")

Cancelled(e) == Running(e) /\ cancelled[e] /\ LoopEnds(e, "cancelled")

Terminal(why) == why \in {"closed", "timeout", "appclosed", "cancelled"}

\* An end of its own is announced to the peer.
Announced(e) == ep[e].why \in {"appclosed", "cancelled"}

\* The cleanup first writes the ack that is due.  Neither this write nor the next is
\* raced with the token or a timer.
Flush(e) ==
    LET c == ep[e].conn
        due == ep[e].ack < ep[e].seq
    IN  /\ ep[e].task = "clean" /\ (due => ~Unread(e))
        /\ wire' = IF due THEN [wire EXCEPT ![c][e] = Arriving(e, c, <<Ack(e, AckSeq(ep[e].seq))>>)]
                   ELSE wire
        /\ \E written \in IF c \in broken \/ ~open[c][Other(e)] THEN BOOLEAN ELSE {TRUE} :
              ep' = [ep EXCEPT ![e].task = "close",
                               ![e].ack = IF due /\ written THEN ep[e].seq ELSE @]
        /\ UNCHANGED <<outcome, delivered, inbox>> /\ Idle

\* Then Closed, and the release of the connection with what is unread on it.
Release(e) ==
    LET c == ep[e].conn
        last == IF Announced(e) THEN <<Closed(e)>> ELSE <<>>
        ends == Terminal(ep[e].why)
    IN  /\ ep[e].task = "close" /\ (Announced(e) => ~Unread(e))
        /\ wire' = [wire EXCEPT ![c] = [d \in Side |-> IF d = e THEN Arriving(e, c, last) ELSE <<>>]]
        /\ LetGo(e, ends)
        /\ ep' = [ep EXCEPT ![e] = IF ends THEN Ended(e)
                                   ELSE [@ EXCEPT !.task = "connect", !.conn = 0]]
        /\ IF ends THEN Gone(e) ELSE UNCHANGED <<outcome, offered>>
        /\ UNCHANGED <<appVars, delivered, inbox, broken, conns, faults>>

-----------------------------------------------------------------------------
Reads(e) == Fetch(e) \/ TakeAck(e) \/ TakeData(e) \/ TakeClosed(e) \/ ConnectionEnds(e)
Writes(e) == StartData(e) \/ DoneData(e) \/ WriteFails(e)
Acks(e) == BeginAck(e) \/ StartAck(e) \/ DoneAck(e)
Delivers(e) == Deliver(e) \/ DeliverFails(e)
Takes(e) == RecvNew(e) \/ AppClosed(e)
Stops(e) == Cancelled(e) \/ ConnectCancelled(e) \/ Flush(e) \/ Release(e)
Connects == Dial \/ DialFails \/ \E c \in Conn : Accept(c)

Next ==
    \/ \E e \in Side :
         \/ Post(e) \/ DropTx(e) \/ DropRx(e) \/ Cancel(e) \/ RxRecv(e)
         \/ Reads(e) \/ Writes(e) \/ Acks(e) \/ Delivers(e) \/ Takes(e) \/ Stops(e) \/ Timeout(e)
    \/ Connects \/ HandOff
    \/ \E c \in Conn : Break(c)

Spec == Init /\ [][Next]_vars

Task(e) ==
    Reads(e) \/ Writes(e) \/ Acks(e) \/ Delivers(e) \/ Takes(e) \/ Stops(e) \/ Timeout(e)

\* The tasks run, MESSAGE_DELIVERY_TIMEOUT passes, and an application that keeps its
\* DuplexRx receives; whether one ever takes the handles is left open.  No step can be
\* repeated for ever, so it is enough that some step is taken while one can be: no
\* branch of a select! needs to be favoured.
Fairness == WF_vars(Connects \/ \E e \in Side : Task(e) \/ RxRecv(e))

FairSpec == Spec /\ Fairness

-----------------------------------------------------------------------------
(* Properties.                                                              *)

\* The slot, the hands and the counters keep their ranges; no ack is due for what
\* was not delivered.
TypeOK ==
    \A e \in Side :
        /\ ep[e].task \in {"offer", "connect", "run", "clean", "close", "ended"}
        /\ ep[e].conn \in 0..conns /\ ep[e].writing \in {"none", "data", "ack"}
        /\ ep[e].ack \in 0..ep[e].seq /\ ep[e].seq \in 0..posted[Other(e)]
        /\ ep[e].pending \in {None} \cup 1..ep[e].seq
        /\ ep[e].hold \in {None} \cup Msg(Other(e))
        /\ ep[e].slot # NoFrame => ep[e].slot.type = "data"
        /\ inbox[e] \in 0..InboxCap
        /\ \A m \in Msg(e) : outcome[e][m] \in {"none", "pending", "accepted", "rejected", "dropped"}

\* Both directions deliver in order and exactly once, over reconnects and whatever
\* each loop's end cuts off in the other one; a number that is ahead (SequenceError)
\* never turns up.
DeliveredInOrder ==
    \A e \in Side :
        /\ \A i \in DOMAIN delivered[e] : delivered[e][i] = i - 1
        /\ Holds(e, "data") /\ ep[e].hold = None => Frame(e).seq <= ep[e].seq

\* An ack means a delivery: acks that are pending while messages are dropped from a
\* hand, flushed in the cleanup or read out of the slot never cover a message that
\* did not reach the peer's DuplexRx.
AckedWasDelivered ==
    \A e \in Side : \A m \in Msg(e) :
        outcome[e][m] = "accepted" => m < Len(delivered[Other(e)])

\* The assertion of Unacked::prune: the acks that a side reads, pending, flushed or left
\* behind by a reconnect, never go back.
AcksAscend(e) == Holds(e, "ack") => ep[e].acked <= Frame(e).seq

\* Both directions of the link keep the promise of a simplex channel, and the assertion
\* holds for the initiator, which reads no connection but the one it made last.
DeliveredExactly == DeliveredInOrder /\ AckedWasDelivered /\ AcksAscend("I")

\* The same assertion for the acceptor.  It may take an older connection after a newer
\* one, and acks that the initiator left on it.
AcceptorAcksAscend == AcksAscend("A")

\* The application has not taken the handles of the session.
HandOffWaits == ep["A"].task = "offer" /\ offered # {}

\* Both sides wait in their cleanup for the other one to read.
Standoff == \A e \in Side : ep[e].task \in {"clean", "close"} /\ Unread(e)

\* DuplexClient::join and DuplexServer::join return: a cancelled task ends for good, be
\* it connecting, waiting for room in the inbox, in the middle of a frame or writing its
\* last ones to a full connection.  What can keep it is a session whose handles nobody
\* takes, and two cleanups that wait for each other; nothing else.
JoinReturns ==
    <>[](\A e \in Side : cancelled[e] => ep[e].task = "ended" \/ HandOffWaits \/ Standoff)

\* "Callers can deterministically stop the recv/send loop": nothing keeps the task, the
\* session's handles being taken.
JoinAlwaysReturns == <>[](\A e \in Side : cancelled[e] => ep[e].task = "ended" \/ HandOffWaits)

\* "Without it, the peer's server-side dispatch keeps awaiting a reconnect that will
\* never come": when one side ends by itself on a connection and nothing fails, the
\* other ends too.
PeerEnds ==
    <>[](\A e \in Side : ep[e].task = "ended" /\ ep[e].why \in {"appclosed", "cancelled"} =>
                             ep[Other(e)].task = "ended" \/ faults > 0)

\* When posting ceases every post ends up reported, while the peer is there: no frame
\* left in the slot, no writer kept by a loop that waits, starves the other direction;
\* only handles that nobody takes and a standoff of two cleanups do.
EveryPostResolves ==
    <>[](\A e \in Side : ep[Other(e)].task # "ended" /\ ~HandOffWaits /\ ~Standoff =>
                             \A m \in Msg(e) : outcome[e][m] # "pending")

\* "The client closes the channel, returns all queued and unacked messages via their
\* return_channel": what is reported as accepted (as a dropped completion is) was
\* delivered.
ReportedWasDelivered ==
    \A e \in Side : \A m \in Msg(e) :
        outcome[e][m] \in {"accepted", "dropped"} => m < Len(delivered[Other(e)])
=============================================================================
