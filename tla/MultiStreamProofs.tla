-------------------------- MODULE MultiStreamProofs --------------------------
(***************************************************************************)
(* Proofs about MultiStream, for any set of streams, any number of         *)
(* messages and connections and any capacities.                            *)
(*                                                                         *)
(* MultiInv is inductive whether or not the server is stopped: it ties the *)
(* watermark to what was recorded, and follows every message through the   *)
(* one place it is in.  HonestInv adds what the acks promise and is        *)
(* inductive while the server stays up.                                    *)
(***************************************************************************)
EXTENDS MultiStream, FiniteSetTheorems, FunctionTheorems, SequenceTheorems,
        WellFoundedInduction, TLAPS

MsgOrNone == Msg \cup {-1}
Response  == [type : {"ack", "closed"}, seq : Int]
Watermark == [received : SUBSET Msg, highest : MsgOrNone, reported : MsgOrNone,
              committed : MsgOrNone, since : Nat]

\* The types of the dispatcher, the pool and the writers.
TypeSend ==
    /\ posted \in 0..MaxPosts /\ taken \in 0..posted /\ txOpen \in BOOLEAN
    /\ dphase \in {"recv", "sending", "joining", "closed"}
    /\ outcome \in [Msg -> {"pending", "accepted", "dropped"}]
    /\ shared \in Seq(Msg) /\ Len(shared) <= QueueCap /\ unacked \subseteq Msg
    /\ wphase \in [Stream -> {"connecting", "connected", "writing", "inserting", "gone"}]
    /\ hand \in [Stream -> MsgOrNone] /\ wconn \in [Stream -> 0..MaxConns]
    /\ nconn \in 0..MaxConns

\* The types of the connections and the receive loops.
TypeRecv ==
    /\ c2s \in [Conn -> Seq(Msg)]
    /\ waiting \in [Stream -> SUBSET Conn] /\ serving \in [Stream -> 0..MaxConns]
    /\ at \in [Stream -> {"idle", "poll", "select", "deliver"}]
    /\ pendingAck \in [Stream -> MsgOrNone]
    /\ mark \in Watermark /\ recorded \subseteq Msg

\* Where a writer is says what it holds: a message while it writes it, a
\* connection while it is not connecting.
Holding ==
    \A s \in Stream :
        /\ hand[s] = -1 <=> wphase[s] \notin {"writing", "inserting"}
        /\ wphase[s] \in {"connected", "writing", "inserting"} => wconn[s] \in Conn

\* A receive loop that is not idle serves a connection.
Serving == \A s \in Stream : at[s] # "idle" => serving[s] \in Conn

\* No more than every message has been counted since the last ack.
SinceBounded == mark.since <= Cardinality(recorded)

InHand(m) == \E s \in Stream : hand[s] = m
InQueue(m) == \E i \in DOMAIN shared : shared[i] = m

\* A message that was numbered is in one place at most.
OnePlace ==
    /\ \A i, j \in DOMAIN shared : shared[i] = shared[j] => i = j
    /\ \A s, t \in Stream : hand[s] = hand[t] /\ hand[s] # -1 => s = t
    /\ \A m \in Msg : ~(InQueue(m) /\ InHand(m)) /\ (m \in unacked => ~InQueue(m) /\ ~InHand(m))

\* The dispatcher's side: what it has not numbered, what it has in its hand.
Undispatched(m) == m >= taken \/ (dphase = "sending" /\ m = taken - 1)
Dispatching ==
    /\ dphase = "sending" => taken > 0
    /\ dphase \in {"joining", "closed"} => taken = posted /\ ~txOpen
    /\ \A m \in Msg : InQueue(m) \/ InHand(m) \/ m \in unacked => ~Undispatched(m)

\* What is pending is in one of the places, and the other way round.
PendingPlaced ==
    \A m \in Msg :
        outcome[m] = "pending" <=> Undispatched(m) \/ InQueue(m) \/ InHand(m) \/ m \in unacked

SendInv == TypeSend /\ Holding /\ OnePlace /\ Dispatching /\ PendingPlaced
RecvInv == TypeRecv /\ Serving /\ SinceBounded /\ WatermarkExact

MultiInv == SendInv /\ RecvInv

\* An ack that a receive loop is about to write covers only what was recorded.
PendingAcksContiguous == \A s \in Stream : 0..pendingAck[s] \subseteq recorded

HonestInv ==
    /\ MultiInv /\ s2c \in [Conn -> Seq(Response)]
    /\ PendingAcksContiguous /\ AcksContiguous /\ AcceptedWasSeen


-----------------------------------------------------------------------------
(* Facts about sequences.                                                  *)

\* What Append does, index by index.
LEMMA AppendFacts ==
    ASSUME NEW S, NEW q \in Seq(S), NEW e \in S
    PROVE  /\ Append(q, e) \in Seq(S)
           /\ Len(Append(q, e)) = Len(q) + 1 /\ Len(q) \in Nat
           /\ \A i \in 1..Len(q) : Append(q, e)[i] = q[i]
           /\ Append(q, e)[Len(q) + 1] = e
OBVIOUS

\* What Head and Tail do, index by index.
LEMMA TailFacts ==
    ASSUME NEW S, NEW q \in Seq(S), q # <<>>
    PROVE  /\ Tail(q) \in Seq(S) /\ Head(q) \in S /\ Head(q) = q[1]
           /\ Len(Tail(q)) = Len(q) - 1 /\ Len(q) \in Nat \ {0}
           /\ \A i \in 1..(Len(q) - 1) : Tail(q)[i] = q[i + 1]
OBVIOUS

-----------------------------------------------------------------------------
(* The dispatcher and the writers.                                         *)

\* A new message is one the dispatcher has not numbered.
LEMMA PostSend ==
    ASSUME SendInv, Post
    PROVE  SendInv'
<1>1. TypeSend'
  BY MultiStreamAssumption DEF SendInv, TypeSend, MsgOrNone, Msg, Conn, Post, poolVars,
     writeVars, netVars
<1>2. Holding'
  BY MultiStreamAssumption DEF SendInv, TypeSend, Holding, Msg, Conn, Post, poolVars,
     writeVars, netVars
<1>3. OnePlace'
  BY MultiStreamAssumption DEF SendInv, TypeSend, OnePlace, InHand, InQueue, Msg, Post,
     poolVars, writeVars, netVars
<1>4. Dispatching'
  BY MultiStreamAssumption DEF SendInv, TypeSend, Dispatching, Undispatched, InHand,
     InQueue, Msg, Post, poolVars, writeVars, netVars
<1>5. PendingPlaced'
  BY MultiStreamAssumption DEF SendInv, TypeSend, PendingPlaced, OnePlace, Holding,
     Dispatching, Undispatched, InHand, InQueue, Msg, Post, poolVars, writeVars, netVars
<1> QED  BY <1>1, <1>2, <1>3, <1>4, <1>5 DEF SendInv

\* Letting go of the handle moves no message.
LEMMA DropTxSend ==
    ASSUME SendInv, DropTx
    PROVE  SendInv'
<1>1. TypeSend'
  BY MultiStreamAssumption DEF SendInv, TypeSend, MsgOrNone, Msg, Conn, DropTx,
     poolVars, writeVars, netVars
<1>2. Holding'
  BY MultiStreamAssumption DEF SendInv, TypeSend, Holding, Msg, Conn, DropTx, poolVars,
     writeVars, netVars
<1>3. OnePlace'
  BY MultiStreamAssumption DEF SendInv, TypeSend, OnePlace, InHand, InQueue, Msg,
     DropTx, poolVars, writeVars, netVars
<1>4. Dispatching'
  BY MultiStreamAssumption DEF SendInv, TypeSend, Dispatching, Undispatched, InHand,
     InQueue, Msg, DropTx, poolVars, writeVars, netVars
<1>5. PendingPlaced'
  BY MultiStreamAssumption DEF SendInv, TypeSend, PendingPlaced, OnePlace, Holding,
     Dispatching, Undispatched, InHand, InQueue, Msg, DropTx, poolVars, writeVars,
     netVars
<1> QED  BY <1>1, <1>2, <1>3, <1>4, <1>5 DEF SendInv

\* The message that is numbered is in the hand of the dispatcher.
LEMMA DispatcherRecvSend ==
    ASSUME SendInv, DispatcherRecv
    PROVE  SendInv'
<1>1. TypeSend'
  BY MultiStreamAssumption DEF SendInv, TypeSend, MsgOrNone, Msg, Conn, DispatcherRecv,
     poolVars, writeVars, netVars
<1>2. Holding'
  BY MultiStreamAssumption DEF SendInv, TypeSend, Holding, Msg, Conn, DispatcherRecv,
     poolVars, writeVars, netVars
<1>3. OnePlace'
  BY MultiStreamAssumption DEF SendInv, TypeSend, OnePlace, InHand, InQueue, Msg,
     DispatcherRecv, poolVars, writeVars, netVars
<1>4. Dispatching'
  BY MultiStreamAssumption DEF SendInv, TypeSend, Dispatching, Undispatched, InHand,
     InQueue, Msg, DispatcherRecv, poolVars, writeVars, netVars
<1>5. PendingPlaced'
  BY MultiStreamAssumption, SMTT(30) DEF SendInv, TypeSend, PendingPlaced, OnePlace, Holding,
     Dispatching, Undispatched, InHand, InQueue, Msg, DispatcherRecv, poolVars,
     writeVars, netVars
<1> QED  BY <1>1, <1>2, <1>3, <1>4, <1>5 DEF SendInv

\* The dispatcher stops with nothing left to number.
LEMMA DispatcherStopsSend ==
    ASSUME SendInv, DispatcherStops
    PROVE  SendInv'
<1>1. TypeSend'
  BY MultiStreamAssumption DEF SendInv, TypeSend, MsgOrNone, Msg, Conn, DispatcherStops,
     poolVars, writeVars, netVars
<1>2. Holding'
  BY MultiStreamAssumption DEF SendInv, TypeSend, Holding, Msg, Conn, DispatcherStops,
     poolVars, writeVars, netVars
<1>3. OnePlace'
  BY MultiStreamAssumption DEF SendInv, TypeSend, OnePlace, InHand, InQueue, Msg,
     DispatcherStops, poolVars, writeVars, netVars
<1>4. Dispatching'
  BY MultiStreamAssumption DEF SendInv, TypeSend, Dispatching, Undispatched, InHand,
     InQueue, Msg, DispatcherStops, poolVars, writeVars, netVars
<1>5. PendingPlaced'
  BY MultiStreamAssumption DEF SendInv, TypeSend, PendingPlaced, OnePlace, Holding,
     Dispatching, Undispatched, InHand, InQueue, Msg, DispatcherStops, poolVars,
     writeVars, netVars
<1> QED  BY <1>1, <1>2, <1>3, <1>4, <1>5 DEF SendInv

\* The dispatcher ends: nobody holds anything, and what is left is reported.
LEMMA DispatcherEndsSend ==
    ASSUME SendInv, DispatcherEnds
    PROVE  SendInv'
<1>1. TypeSend'
  BY MultiStreamAssumption DEF SendInv, TypeSend, MsgOrNone, Msg, Conn, DispatcherEnds,
     writeVars, netVars, Resolve, Leftover, Queued, AllWritersGone
<1>2. Holding'
  BY MultiStreamAssumption DEF SendInv, TypeSend, Holding, Msg, Conn, DispatcherEnds,
     writeVars, netVars, Resolve, Leftover, Queued, AllWritersGone
<1>3. OnePlace'
  BY MultiStreamAssumption DEF SendInv, TypeSend, OnePlace, InHand, InQueue, Msg,
     DispatcherEnds, writeVars, netVars, Resolve, Leftover, Queued, AllWritersGone
<1>4. Dispatching'
  BY MultiStreamAssumption DEF SendInv, TypeSend, Dispatching, Undispatched, InHand,
     InQueue, Msg, DispatcherEnds, writeVars, netVars, Resolve, Leftover, Queued,
     AllWritersGone
<1>5. PendingPlaced'
  <2>1. /\ dphase = "joining" /\ shared' = <<>> /\ unacked' = {} /\ dphase' = "closed"
        /\ outcome' = Resolve(Leftover, "accepted")
        /\ UNCHANGED <<taken, posted, hand>> /\ \A s \in Stream : wphase[s] = "gone"
    BY DEF DispatcherEnds, writeVars, AllWritersGone
  <2>2. \A m \in Msg : ~InHand(m) /\ ~InHand(m)' /\ ~InQueue(m)' /\ m \notin unacked'
    BY <2>1 DEF SendInv, Holding, InHand, InQueue, Msg
  <2>3. \A m \in Msg : m \in Leftover <=> InQueue(m) \/ m \in unacked
    BY DEF Leftover, Queued, InQueue
  <2>4. \A m \in Msg : Undispatched(m)' <=> Undispatched(m)
    BY <2>1 DEF Undispatched
  <2>5. \A m \in Msg : outcome'[m] = "pending" <=> outcome[m] = "pending" /\ m \notin Leftover
    BY <2>1 DEF Resolve
  <2>6. \A m \in Msg : m \in Leftover => ~Undispatched(m)
    BY <2>3 DEF SendInv, Dispatching
  <2> QED  BY <2>2, <2>3, <2>4, <2>5, <2>6 DEF SendInv, PendingPlaced
<1> QED  BY <1>1, <1>2, <1>3, <1>4, <1>5 DEF SendInv

\* A writer connects.
LEMMA WriterConnectsSend ==
    ASSUME SendInv, NEW s \in Stream, WriterConnects(s)
    PROVE  SendInv'
<1>1. TypeSend'
  BY MultiStreamAssumption DEF SendInv, TypeSend, MsgOrNone, Msg, Conn, WriterConnects,
     sendVars, poolVars
<1>2. Holding'
  BY MultiStreamAssumption DEF SendInv, TypeSend, Holding, Msg, Conn, WriterConnects,
     sendVars, poolVars
<1>3. OnePlace'
  BY MultiStreamAssumption DEF SendInv, TypeSend, OnePlace, InHand, InQueue, Msg,
     WriterConnects, sendVars, poolVars
<1>4. Dispatching'
  BY MultiStreamAssumption DEF SendInv, TypeSend, Dispatching, Undispatched, InHand,
     InQueue, Msg, WriterConnects, sendVars, poolVars
<1>5. PendingPlaced'
  BY MultiStreamAssumption DEF SendInv, TypeSend, PendingPlaced, OnePlace, Holding,
     Dispatching, Undispatched, InHand, InQueue, Msg, WriterConnects, sendVars, poolVars
<1> QED  BY <1>1, <1>2, <1>3, <1>4, <1>5 DEF SendInv

\* A writer gives up connecting.
LEMMA WriterConnectFailsSend ==
    ASSUME SendInv, NEW s \in Stream, WriterConnectFails(s)
    PROVE  SendInv'
<1>1. TypeSend'
  BY MultiStreamAssumption DEF SendInv, TypeSend, MsgOrNone, Msg, Conn,
     WriterConnectFails, sendVars, poolVars, netVars
<1>2. Holding'
  BY MultiStreamAssumption DEF SendInv, TypeSend, Holding, Msg, Conn,
     WriterConnectFails, sendVars, poolVars, netVars
<1>3. OnePlace'
  BY MultiStreamAssumption DEF SendInv, TypeSend, OnePlace, InHand, InQueue, Msg,
     WriterConnectFails, sendVars, poolVars, netVars
<1>4. Dispatching'
  BY MultiStreamAssumption DEF SendInv, TypeSend, Dispatching, Undispatched, InHand,
     InQueue, Msg, WriterConnectFails, sendVars, poolVars, netVars
<1>5. PendingPlaced'
  BY MultiStreamAssumption DEF SendInv, TypeSend, PendingPlaced, OnePlace, Holding,
     Dispatching, Undispatched, InHand, InQueue, Msg, WriterConnectFails, sendVars,
     poolVars, netVars
<1> QED  BY <1>1, <1>2, <1>3, <1>4, <1>5 DEF SendInv

\* What an ack covers leaves the unacked map and is reported.
LEMMA WriterReadsAckSend ==
    ASSUME SendInv, NEW s \in Stream, WriterReadsAck(s)
    PROVE  SendInv'
<1>1. TypeSend'
  BY MultiStreamAssumption DEF SendInv, TypeSend, MsgOrNone, Msg, Conn, WriterReadsAck,
     sendVars, writeVars, Resolve, Covered
<1>2. Holding'
  BY MultiStreamAssumption DEF SendInv, TypeSend, Holding, Msg, Conn, WriterReadsAck,
     sendVars, writeVars, Resolve, Covered
<1>3. OnePlace'
  BY MultiStreamAssumption DEF SendInv, TypeSend, OnePlace, InHand, InQueue, Msg,
     WriterReadsAck, sendVars, writeVars, Resolve, Covered
<1>4. Dispatching'
  BY MultiStreamAssumption DEF SendInv, TypeSend, Dispatching, Undispatched, InHand,
     InQueue, Msg, WriterReadsAck, sendVars, writeVars, Resolve, Covered
<1>5. PendingPlaced'
  BY MultiStreamAssumption DEF SendInv, TypeSend, PendingPlaced, OnePlace, Holding,
     Dispatching, Undispatched, InHand, InQueue, Msg, WriterReadsAck, sendVars,
     writeVars, Resolve, Covered
<1> QED  BY <1>1, <1>2, <1>3, <1>4, <1>5 DEF SendInv

\* A message that was written stays in the hand of its writer.
LEMMA WriterWritesSend ==
    ASSUME SendInv, NEW s \in Stream, WriterWrites(s)
    PROVE  SendInv'
<1>1. TypeSend'
  BY MultiStreamAssumption DEF SendInv, TypeSend, MsgOrNone, Msg, Conn, WriterWrites,
     sendVars, poolVars
<1>2. Holding'
  BY MultiStreamAssumption DEF SendInv, TypeSend, Holding, Msg, Conn, WriterWrites,
     sendVars, poolVars
<1>3. OnePlace'
  BY MultiStreamAssumption DEF SendInv, TypeSend, OnePlace, InHand, InQueue, Msg,
     WriterWrites, sendVars, poolVars
<1>4. Dispatching'
  BY MultiStreamAssumption DEF SendInv, TypeSend, Dispatching, Undispatched, InHand,
     InQueue, Msg, WriterWrites, sendVars, poolVars
<1>5. PendingPlaced'
  BY MultiStreamAssumption DEF SendInv, TypeSend, PendingPlaced, OnePlace, Holding,
     Dispatching, Undispatched, InHand, InQueue, Msg, WriterWrites, sendVars, poolVars
<1> QED  BY <1>1, <1>2, <1>3, <1>4, <1>5 DEF SendInv

\* A release gives up the connection and leaves every message where it is.
LEMMA ReleaseSend ==
    ASSUME SendInv, NEW s \in Stream, NEW p \in {"connecting", "gone"},
           wphase[s] = "connected", WriterReleases(s, p),
           UNCHANGED <<sendVars, poolVars, hand>>
    PROVE  SendInv'
<1>1. TypeSend'
  BY MultiStreamAssumption DEF SendInv, TypeSend, MsgOrNone, Msg, Conn, WriterReleases,
     sendVars, poolVars
<1>2. Holding'
  BY DEF SendInv, TypeSend, Holding, WriterReleases, sendVars, poolVars
<1>3. OnePlace'
  BY DEF SendInv, OnePlace, InHand, InQueue, sendVars, poolVars
<1>4. Dispatching'
  BY DEF SendInv, Dispatching, Undispatched, InHand, InQueue, sendVars, poolVars
<1>5. PendingPlaced'
  BY DEF SendInv, PendingPlaced, Undispatched, InHand, InQueue, sendVars, poolVars
<1> QED  BY <1>1, <1>2, <1>3, <1>4, <1>5 DEF SendInv

\* The dispatcher's message goes from its hand to the end of the work queue.
LEMMA DispatcherSendSend ==
    ASSUME SendInv, DispatcherSend
    PROVE  SendInv'
<1>1. /\ dphase = "sending" /\ Len(shared) < QueueCap /\ dphase' = "recv"
      /\ shared' = Append(shared, taken - 1)
      /\ UNCHANGED <<posted, txOpen, taken, outcome, unacked, hand, wphase, wconn, nconn>>
  BY DEF DispatcherSend, writeVars, netVars
<1>2. taken - 1 \in Msg /\ shared \in Seq(Msg) /\ taken \in Nat
  BY <1>1, MultiStreamAssumption DEF SendInv, TypeSend, Dispatching, Msg
<1>3. /\ shared' \in Seq(Msg) /\ Len(shared') = Len(shared) + 1 /\ Len(shared) \in Nat
      /\ \A i \in 1..Len(shared) : shared'[i] = shared[i]
      /\ shared'[Len(shared) + 1] = taken - 1
  BY <1>1, <1>2, AppendFacts
<1>4. DOMAIN shared = 1..Len(shared) /\ DOMAIN shared' = 1..(Len(shared) + 1)
  BY <1>2, <1>3
<1>5. \A m \in Msg : /\ InHand(m)' <=> InHand(m)
                     /\ InQueue(m)' <=> InQueue(m) \/ m = taken - 1
  BY <1>1, <1>3, <1>4 DEF InHand, InQueue
<1>6. \A m \in Msg : Undispatched(m)' <=> Undispatched(m) /\ m # taken - 1
  BY <1>1, <1>2 DEF Undispatched, Msg
<1>7. ~InQueue(taken - 1) /\ ~InHand(taken - 1) /\ taken - 1 \notin unacked
  BY <1>1, <1>2 DEF SendInv, Dispatching, Undispatched
<1>8. TypeSend'
  BY <1>1, <1>3, MultiStreamAssumption DEF SendInv, TypeSend
<1>9. Holding'
  BY <1>1 DEF SendInv, Holding
<1>10. OnePlace'
  <2>1. \A i, j \in DOMAIN shared' : shared'[i] = shared'[j] => i = j
    BY <1>3, <1>4, <1>7 DEF SendInv, OnePlace, InQueue
  <2> QED  BY <1>1, <1>5, <1>7, <2>1 DEF SendInv, OnePlace
<1>11. Dispatching'
  BY <1>1, <1>5, <1>6 DEF SendInv, Dispatching
<1>12. PendingPlaced'
  <2>1. Undispatched(taken - 1)
    BY <1>1 DEF Undispatched
  <2> QED  BY <1>1, <1>5, <1>6, <2>1 DEF SendInv, PendingPlaced
<1> QED  BY <1>8, <1>9, <1>10, <1>11, <1>12 DEF SendInv

\* The head of the work queue goes to the writer's hand, or is reported.
LEMMA WriterPullsSend ==
    ASSUME SendInv, NEW s \in Stream, WriterPulls(s)
    PROVE  SendInv'
<1> DEFINE h == Head(shared)
<1>1. /\ wphase[s] = "connected" /\ shared # <<>> /\ shared' = Tail(shared)
      /\ \/ /\ h \in Unserializable /\ outcome' = Resolve({h}, "accepted")
            /\ UNCHANGED <<hand, wphase>>
         \/ /\ h \notin Unserializable /\ hand' = [hand EXCEPT ![s] = h]
            /\ wphase' = [wphase EXCEPT ![s] = "writing"] /\ UNCHANGED outcome
      /\ UNCHANGED <<posted, txOpen, dphase, taken, unacked, wconn, nconn>>
  BY DEF WriterPulls, sendVars, netVars
<1>2. /\ h \in Msg /\ h = shared[1] /\ shared' \in Seq(Msg)
      /\ Len(shared') = Len(shared) - 1 /\ Len(shared) \in Nat \ {0}
      /\ \A i \in 1..(Len(shared) - 1) : shared'[i] = shared[i + 1]
      /\ DOMAIN shared = 1..Len(shared) /\ DOMAIN shared' = 1..(Len(shared) - 1)
  BY <1>1, TailFacts DEF SendInv, TypeSend
<1> PICK n \in Msg : n = h
  BY <1>2
<1> HIDE DEF h
<1>3. \A i, j \in 1..Len(shared) : shared[i] = shared[j] => i = j
  BY <1>2 DEF SendInv, OnePlace
<1>4. \A m \in Msg : InQueue(m)' <=> InQueue(m) /\ m # n
  <2>1. ASSUME NEW m \in Msg, InQueue(m)' PROVE InQueue(m) /\ m # n
    <3>1. PICK i \in 1..(Len(shared) - 1) : shared'[i] = m
      BY <1>2, <2>1 DEF InQueue
    <3>2. i + 1 \in 1..Len(shared) /\ 1 \in 1..Len(shared) /\ i + 1 # 1
      BY <1>2
    <3>3. shared[i + 1] = m
      BY <1>2, <3>1
    <3> QED  BY <1>2, <1>3, <3>2, <3>3 DEF InQueue
  <2>2. ASSUME NEW m \in Msg, InQueue(m), m # n PROVE InQueue(m)'
    <3>1. PICK i \in 1..Len(shared) : shared[i] = m
      BY <1>2, <2>2 DEF InQueue
    <3>2. i - 1 \in 1..(Len(shared) - 1) /\ (i - 1) + 1 = i
      BY <1>2, <2>2, <3>1
    <3>3. shared'[i - 1] = m
      BY <1>2, <3>1, <3>2
    <3> QED  BY <1>2, <3>2, <3>3 DEF InQueue
  <2> QED  BY <2>1, <2>2
<1>5. InQueue(n) /\ ~InHand(n) /\ n \notin unacked /\ ~Undispatched(n)
  <2>1. InQueue(n)
    BY <1>2 DEF InQueue
  <2> QED  BY <2>1 DEF SendInv, OnePlace, Dispatching
<1>6. hand[s] = -1 /\ -1 \notin Msg /\ hand \in [Stream -> MsgOrNone]
      /\ wphase \in [Stream -> {"connecting", "connected", "writing", "inserting", "gone"}]
  BY <1>1 DEF SendInv, TypeSend, Holding, Msg
<1>7. \A m \in Msg : InHand(m)' <=> InHand(m) \/ (n \notin Unserializable /\ m = n)
  BY <1>1, <1>6 DEF InHand
<1>8. \A m \in Msg : Undispatched(m)' <=> Undispatched(m)
  BY <1>1 DEF Undispatched
<1>9. TypeSend'
  <2>1. Len(shared') <= QueueCap
    BY <1>2, MultiStreamAssumption DEF SendInv, TypeSend
  <2> QED  BY <1>1, <1>2, <1>6, <2>1, ZenonT(40) DEF SendInv, TypeSend, Resolve, MsgOrNone
<1>10. Holding'
  BY <1>1, <1>6 DEF SendInv, Holding
<1>11. OnePlace'
  <2>1. \A i, j \in DOMAIN shared' : shared'[i] = shared'[j] => i = j
    <3> SUFFICES ASSUME NEW i \in 1..(Len(shared) - 1), NEW j \in 1..(Len(shared) - 1),
                        shared'[i] = shared'[j]
                 PROVE  i = j
      BY <1>2
    <3>1. i + 1 \in 1..Len(shared) /\ j + 1 \in 1..Len(shared)
      BY <1>2
    <3>2. shared[i + 1] = shared[j + 1]
      BY <1>2
    <3> QED  BY <1>3, <3>1, <3>2
  <2>2. \A t \in Stream : hand[t] # n
    BY <1>5 DEF InHand
  <2>3. \A t, u \in Stream : hand'[t] = hand'[u] /\ hand'[t] # -1 => t = u
    BY <1>1, <1>6, <2>2 DEF SendInv, OnePlace
  <2> QED  BY <1>1, <1>4, <1>5, <1>7, <2>1, <2>3 DEF SendInv, OnePlace
<1>12. Dispatching'
  BY <1>1, <1>4, <1>5, <1>7, <1>8 DEF SendInv, Dispatching
<1>13. PendingPlaced'
  <2>1. \A m \in Msg : outcome'[m] = "pending" <=>
                outcome[m] = "pending" /\ ~(n \in Unserializable /\ m = n)
    BY <1>1, MultiStreamAssumption DEF Resolve
  <2> QED  BY <1>1, <1>4, <1>5, <1>7, <1>8, <2>1 DEF SendInv, PendingPlaced
<1> QED  BY <1>9, <1>10, <1>11, <1>12, <1>13 DEF SendInv

\* The hand of a writer is emptied: no other writer held its message.
LEMMA HandEmptied ==
    ASSUME SendInv, NEW s \in Stream, hand[s] # -1, hand' = [hand EXCEPT ![s] = -1]
    PROVE  /\ hand[s] \in Msg /\ InHand(hand[s])
           /\ \A m \in Msg : InHand(m)' <=> InHand(m) /\ m # hand[s]
           /\ hand' \in [Stream -> MsgOrNone]
           /\ \A t, u \in Stream : hand'[t] = hand'[u] /\ hand'[t] # -1 => t = u
<1>1. hand \in [Stream -> MsgOrNone] /\ -1 \notin Msg
  BY DEF SendInv, TypeSend, Msg
<1>2. hand[s] \in Msg /\ \A t \in Stream : hand'[t] = IF t = s THEN -1 ELSE hand[t]
  BY <1>1 DEF MsgOrNone
<1>3. \A t, u \in Stream : hand[t] = hand[u] /\ hand[t] # -1 => t = u
  BY DEF SendInv, OnePlace
<1>4. \A m \in Msg : InHand(m)' <=> InHand(m) /\ m # hand[s]
  BY <1>1, <1>2, <1>3 DEF InHand
<1> QED  BY <1>1, <1>2, <1>3, <1>4 DEF InHand, MsgOrNone

\* A message goes from the hand of its writer into the unacked map.
LEMMA WriterInsertsSend ==
    ASSUME SendInv, NEW s \in Stream, WriterInserts(s)
    PROVE  SendInv'
<1>1. /\ wphase[s] = "inserting" /\ unacked' = unacked \cup {hand[s]}
      /\ hand' = [hand EXCEPT ![s] = -1] /\ wphase' = [wphase EXCEPT ![s] = "connected"]
      /\ UNCHANGED <<posted, txOpen, dphase, taken, outcome, shared, wconn, nconn>>
  BY DEF WriterInserts, sendVars, netVars
<1>2. hand[s] # -1
  BY <1>1 DEF SendInv, Holding
<1>3. PICK n \in Msg : n = hand[s]
  BY <1>1, <1>2, HandEmptied
<1>4. /\ InHand(n) /\ \A m \in Msg : InHand(m)' <=> InHand(m) /\ m # n
      /\ hand' \in [Stream -> MsgOrNone]
      /\ \A t, u \in Stream : hand'[t] = hand'[u] /\ hand'[t] # -1 => t = u
  BY <1>1, <1>2, <1>3, HandEmptied
<1>5. \A m \in Msg : /\ (InQueue(m)' <=> InQueue(m)) /\ (Undispatched(m)' <=> Undispatched(m))
                     /\ m \in unacked' <=> m \in unacked \/ m = n
  BY <1>1, <1>3 DEF InQueue, Undispatched
<1>6. TypeSend'
  BY <1>1, <1>3, <1>4 DEF SendInv, TypeSend
<1>7. Holding'
  BY <1>1, <1>3 DEF SendInv, TypeSend, Holding, Msg
<1>8. OnePlace'
  BY <1>1, <1>4, <1>5 DEF SendInv, OnePlace
<1>9. Dispatching'
  BY <1>1, <1>4, <1>5 DEF SendInv, Dispatching
<1>10. PendingPlaced'
  BY <1>1, <1>4, <1>5 DEF SendInv, PendingPlaced
<1> QED  BY <1>6, <1>7, <1>8, <1>9, <1>10 DEF SendInv

\* A message that was not written leaves its writer and is reported dropped.
LEMMA WriteFailsSend ==
    ASSUME SendInv, NEW s \in Stream, WriteFails(s)
    PROVE  SendInv'
<1>1. /\ wphase[s] = "writing" /\ outcome' = Resolve({hand[s]}, "dropped")
      /\ hand' = [hand EXCEPT ![s] = -1] /\ wphase' = [wphase EXCEPT ![s] = "connecting"]
      /\ wconn' = [wconn EXCEPT ![s] = 0]
      /\ UNCHANGED <<posted, txOpen, dphase, taken, shared, unacked, nconn>>
  BY DEF WriteFails, WriterReleases, sendVars
<1>2. hand[s] # -1
  BY <1>1 DEF SendInv, Holding
<1>3. PICK n \in Msg : n = hand[s]
  BY <1>1, <1>2, HandEmptied
<1>4. /\ InHand(n) /\ \A m \in Msg : InHand(m)' <=> InHand(m) /\ m # n
      /\ hand' \in [Stream -> MsgOrNone]
      /\ \A t, u \in Stream : hand'[t] = hand'[u] /\ hand'[t] # -1 => t = u
  BY <1>1, <1>2, <1>3, HandEmptied
<1>5. /\ outcome' \in [Msg -> {"pending", "accepted", "dropped"}]
      /\ \A m \in Msg : outcome'[m] = "pending" <=> outcome[m] = "pending" /\ m # n
  BY <1>1, <1>3 DEF SendInv, TypeSend, Resolve
<1>6. \A m \in Msg : (InQueue(m)' <=> InQueue(m)) /\ (Undispatched(m)' <=> Undispatched(m))
  BY <1>1 DEF InQueue, Undispatched
<1>7. ~InQueue(n) /\ n \notin unacked /\ ~Undispatched(n)
  BY <1>4 DEF SendInv, OnePlace, Dispatching
<1>8. TypeSend'
  <2>1. /\ wconn' \in [Stream -> 0..MaxConns]
        /\ wphase' \in [Stream -> {"connecting", "connected", "writing", "inserting", "gone"}]
    BY <1>1, MultiStreamAssumption DEF SendInv, TypeSend
  <2> QED  BY <1>1, <1>4, <1>5, <2>1 DEF SendInv, TypeSend
<1>9. Holding'
  BY <1>1, <1>3 DEF SendInv, TypeSend, Holding, Msg
<1>10. OnePlace'
  BY <1>1, <1>4, <1>6 DEF SendInv, OnePlace
<1>11. Dispatching'
  BY <1>1, <1>4, <1>6 DEF SendInv, Dispatching
<1>12. PendingPlaced'
  BY <1>1, <1>4, <1>5, <1>6, <1>7 DEF SendInv, PendingPlaced
<1> QED  BY <1>8, <1>9, <1>10, <1>11, <1>12 DEF SendInv

\* No other step touches what the dispatcher and the writers keep.
LEMMA SendQuiet ==
    ASSUME SendInv,
           UNCHANGED <<sendVars, outcome, shared, unacked, writeVars, nconn>>
    PROVE  SendInv'
BY DEF SendInv, TypeSend, Holding, OnePlace, Dispatching, PendingPlaced, InHand, InQueue,
   Undispatched, sendVars, writeVars

-----------------------------------------------------------------------------
(* The watermark.                                                          *)

LessThan == {ss \in Nat \X Nat : ss[1] < ss[2]}

\* The least-number principle, for a set.
LEMMA LeastElement ==
    ASSUME NEW T \in SUBSET Nat, T # {}
    PROVE  \E x \in T : \A y \in T : x <= y
<1>1. IsWellFoundedOn(LessThan, Nat)
  BY NatLessThanWellFounded DEF OpToRel, LessThan
<1>2. PICK x \in T : \A y \in T : ~(<<y, x>> \in LessThan)
  BY <1>1, WFMin
<1>3. \A y \in T : ~(y < x)
  BY <1>2 DEF LessThan
<1> QED  BY <1>3

\* There are finitely many messages.
LEMMA MsgFinite == IsFiniteSet(Msg) /\ Cardinality(Msg) = MaxPosts
<1>1. MaxPosts \in Nat /\ 0 \in Int /\ MaxPosts - 1 \in Int
  BY MultiStreamAssumption
<1>2. IsFiniteSet(0..(MaxPosts - 1))
      /\ Cardinality(0..(MaxPosts - 1)) = IF 0 > MaxPosts - 1 THEN 0 ELSE MaxPosts - 1 - 0 + 1
  BY <1>1, FS_Interval
<1> QED  BY <1>1, <1>2 DEF Msg

\* The largest number seen is one that was recorded, or the watermark.
LEMMA HighestSeenType ==
    ASSUME NEW w \in Watermark
    PROVE  HighestSeen(w) \in MsgOrNone
<1> DEFINE S == w.received \cup {w.highest}
           T == {n \in Nat : \E x \in S : n = MaxPosts - x}
<1>1. S \subseteq MsgOrNone /\ w.highest \in S /\ MaxPosts \in Nat
  BY MultiStreamAssumption DEF Watermark, MsgOrNone
<1>2. \A x \in S : x \in Int /\ MaxPosts - x \in T
  BY <1>1 DEF MsgOrNone, Msg
<1>3. T \in SUBSET Nat /\ T # {}
  BY <1>1, <1>2
<1>4. PICK n \in T : \A k \in T : n <= k
  <2> HIDE DEF T
  <2> QED  BY <1>3, LeastElement
<1>5. PICK x \in S : n = MaxPosts - x
  BY <1>4
<1>6. \A y \in S : x >= y
  BY <1>1, <1>2, <1>4, <1>5
<1>7. Max(S) \in S
  <2> HIDE DEF S
  <2> QED  BY <1>6 DEF Max
<1> QED  BY <1>1, <1>7 DEF HighestSeen

\* Frontier finds the end of the run that begins at q.
LEMMA FrontierFacts ==
    ASSUME NEW w, w.received \subseteq Msg, NEW q \in Msg
    PROVE  /\ Frontier(w, q) \in Nat /\ Frontier(w, q) >= q
           /\ (q + 1)..Frontier(w, q) \subseteq w.received
           /\ Frontier(w, q) + 1 \notin w.received
<1> DEFINE R == w.received
           T == {n \in Nat : n >= q /\ n + 1 \notin R}
           Ends(n) == (q + 1)..n \subseteq R /\ n + 1 \notin R
<1>1. MaxPosts \in Nat /\ q \in Nat /\ q < MaxPosts
  BY MultiStreamAssumption DEF Msg
<1>2. MaxPosts \in T
  BY <1>1 DEF Msg
<1>3. PICK n \in T : \A k \in T : n <= k
  <2>1. T \in SUBSET Nat /\ T # {}
    BY <1>2
  <2> HIDE DEF T
  <2> QED  BY <2>1, LeastElement
<1>4. n \in Nat /\ n >= q /\ Ends(n)
  <2>1. \A k \in (q + 1)..n : k - 1 \in Nat /\ k - 1 >= q /\ k - 1 < n
    BY <1>1, <1>3
  <2>2. \A k \in (q + 1)..n : (k - 1) + 1 \in R /\ (k - 1) + 1 = k
    BY <1>1, <1>3, <2>1
  <2> QED  BY <1>3, <2>2
<1>5. n - q <= Cardinality(R) /\ Cardinality(R) \in Nat
  <2>1. IsFiniteSet(R)
    BY MsgFinite, FS_Subset
  <2>2. Cardinality((q + 1)..n) <= Cardinality(R)
    BY <1>4, <2>1, FS_Subset
  <2>3. Cardinality((q + 1)..n) = IF q + 1 > n THEN 0 ELSE n - (q + 1) + 1
    BY <1>1, <1>4, FS_Interval
  <2>4. Cardinality(R) \in Nat
    BY <2>1, FS_CardinalityType
  <2> QED  BY <1>1, <1>4, <2>2, <2>3, <2>4
<1>6. n \in q..(q + Cardinality(R))
  BY <1>1, <1>4, <1>5
<1>7. Frontier(w, q) \in q..(q + Cardinality(R)) /\ Ends(Frontier(w, q))
  <2>1. Frontier(w, q) = CHOOSE k \in q..(q + Cardinality(R)) : Ends(k)
    BY DEF Frontier
  <2> HIDE DEF Ends
  <2> QED  BY <1>4, <1>6, <2>1
<1> QED  BY <1>1, <1>5, <1>7

\* AckWatermark::record keeps the watermark exact, whichever number arrives.
LEMMA RecordExact ==
    ASSUME RecvInv, NEW q \in Msg,
           mark' = Record(mark, q), recorded' = recorded \cup {q}
    PROVE  /\ mark' \in Watermark /\ recorded' \subseteq Msg
           /\ SinceBounded' /\ WatermarkExact'
<1>1. /\ mark \in Watermark /\ recorded \subseteq Msg /\ MaxPosts \in Nat
      /\ mark.highest \in Int /\ mark.highest >= -1 /\ mark.received \subseteq Msg
      /\ mark.since \in Nat /\ q \in Nat
  BY MultiStreamAssumption DEF RecvInv, TypeRecv, Watermark, MsgOrNone, Msg
<1>2. /\ 0..mark.highest \subseteq recorded /\ mark.highest + 1 \notin recorded
      /\ mark.received = recorded \ (0..mark.highest)
  BY DEF RecvInv, WatermarkExact
<1>3. /\ IsFiniteSet(recorded) /\ Cardinality(recorded) \in Nat
      /\ q \notin recorded => Cardinality(recorded') = Cardinality(recorded) + 1
  BY <1>1, MsgFinite, FS_Subset, FS_CardinalityType, FS_AddElement
<1>4. mark.since <= Cardinality(recorded)
  BY DEF RecvInv, SinceBounded
<1>5. PICK f \in Nat : /\ f = Frontier(mark, q) /\ f >= q
                       /\ (q + 1)..f \subseteq mark.received /\ f + 1 \notin mark.received
  BY <1>1, FrontierFacts
<1>6. recorded' \subseteq Msg
  BY <1>1
<1>7. CASE q = mark.highest + 1
  <2>1. mark' = [mark EXCEPT !.highest = f, !.received = @ \ (q..f), !.since = @ + 1]
    BY <1>1, <1>5, <1>7 DEF Record
  <2>2. /\ mark'.highest = f /\ mark'.received = mark.received \ (q..f)
        /\ mark'.since = mark.since + 1
    BY <1>1, <2>1 DEF Watermark
  <2>3. f \in Msg
    <3>1. CASE f = q
      BY <3>1
    <3>2. CASE f # q
      BY <1>1, <1>5, <3>2
    <3> QED  BY <3>1, <3>2
  <2>4. mark' \in Watermark
    <3>1. /\ mark.received \ (q..f) \in SUBSET Msg /\ f \in MsgOrNone
          /\ mark.since + 1 \in Nat
      BY <1>1, <2>3 DEF MsgOrNone
    <3> QED  BY <1>1, <2>1, <3>1 DEF Watermark
  <2>5. SinceBounded'
    BY <1>1, <1>2, <1>3, <1>4, <1>7, <2>2 DEF SinceBounded
  <2>6. \A k \in 0..f : k \in recorded'
    BY <1>1, <1>2, <1>5, <1>7
  <2>7. f + 1 \notin recorded'
    BY <1>1, <1>2, <1>5, <1>7
  <2>8. mark.received \ (q..f) = recorded' \ (0..f)
    BY <1>1, <1>2, <1>5, <1>7 DEF Msg
  <2>9. WatermarkExact'
    BY <2>2, <2>6, <2>7, <2>8 DEF WatermarkExact
  <2> QED  BY <1>6, <2>4, <2>5, <2>9
<1>8. CASE q > mark.highest + 1 /\ q \notin mark.received
  <2>1. mark' = [mark EXCEPT !.received = @ \cup {q}, !.since = @ + 1]
    BY <1>1, <1>8 DEF Record
  <2>2. /\ mark'.highest = mark.highest /\ mark'.received = mark.received \cup {q}
        /\ mark'.since = mark.since + 1
    BY <1>1, <2>1 DEF Watermark
  <2>3. mark' \in Watermark
    <3>1. mark.received \cup {q} \in SUBSET Msg /\ mark.since + 1 \in Nat
      BY <1>1
    <3> QED  BY <1>1, <2>1, <3>1 DEF Watermark
  <2>4. q \notin recorded
    BY <1>1, <1>2, <1>8
  <2>5. SinceBounded'
    BY <1>1, <1>3, <1>4, <2>2, <2>4 DEF SinceBounded
  <2>6. WatermarkExact'
    BY <1>1, <1>2, <1>8, <2>2 DEF WatermarkExact
  <2> QED  BY <1>6, <2>3, <2>5, <2>6
<1>9. CASE q < mark.highest + 1 \/ (q > mark.highest + 1 /\ q \in mark.received)
  <2>1. mark' = mark
    BY <1>1, <1>9 DEF Record
  <2>2. recorded' = recorded
    BY <1>1, <1>2, <1>9
  <2> QED  BY <1>1, <2>1, <2>2 DEF RecvInv, SinceBounded, WatermarkExact
<1> QED  BY <1>1, <1>7, <1>8, <1>9

-----------------------------------------------------------------------------
(* The receive loops.                                                      *)

\* The watermark after a poll or a commit: what it says of the recorded
\* numbers is the same.
LEMMA MarkSame ==
    ASSUME RecvInv, UNCHANGED recorded, mark' \in Watermark,
           mark'.received = mark.received, mark'.highest = mark.highest,
           mark'.since = mark.since \/ mark'.since = 0
    PROVE  SinceBounded' /\ WatermarkExact'
<1>1. IsFiniteSet(recorded) /\ Cardinality(recorded) \in Nat
  BY MsgFinite, FS_Subset, FS_CardinalityType DEF RecvInv, TypeRecv
<1> QED  BY <1>1 DEF RecvInv, SinceBounded, WatermarkExact

\* A poll, and a commit of a number that fits, keep the type of the watermark.
LEMMA MarkTypes ==
    ASSUME NEW w \in Watermark, NEW n \in MsgOrNone
    PROVE  /\ Polled(w) \in Watermark /\ Commit(w, n) \in Watermark
           /\ Polled(w).received = w.received /\ Polled(w).highest = w.highest
           /\ Polled(w).since = 0
           /\ Commit(w, n).received = w.received /\ Commit(w, n).highest = w.highest
           /\ Commit(w, n).since = w.since
BY DEF Polled, Commit, Watermark

\* A step that leaves the watermark alone.
LEMMA RecvQuiet ==
    ASSUME RecvInv, TypeRecv', Serving', UNCHANGED <<mark, recorded>>
    PROVE  RecvInv'
BY DEF RecvInv, SinceBounded, WatermarkExact

\* A new connection waits to be taken up.
LEMMA WriterConnectsRecv ==
    ASSUME SendInv, RecvInv, NEW s \in Stream, WriterConnects(s)
    PROVE  RecvInv'
<1>1. nconn + 1 \in Conn
  BY MultiStreamAssumption DEF SendInv, TypeSend, WriterConnects, Conn
<1>2. TypeRecv'
  BY <1>1 DEF RecvInv, TypeRecv, WriterConnects, loopVars
<1>3. Serving'
  BY DEF RecvInv, Serving, WriterConnects, loopVars
<1> QED  BY <1>2, <1>3, RecvQuiet DEF WriterConnects

\* A frame joins the queue of its connection.
LEMMA WriterWritesRecv ==
    ASSUME SendInv, RecvInv, NEW s \in Stream, WriterWrites(s)
    PROVE  RecvInv'
<1>1. hand[s] \in Msg /\ wconn[s] \in Conn
  BY DEF SendInv, TypeSend, Holding, WriterWrites, MsgOrNone
<1>2. c2s[wconn[s]] \in Seq(Msg)
  BY <1>1 DEF RecvInv, TypeRecv
<1>3. Append(c2s[wconn[s]], hand[s]) \in Seq(Msg)
  BY <1>1, <1>2
<1>4. c2s' \in [Conn -> Seq(Msg)]
  BY <1>3 DEF RecvInv, TypeRecv, WriterWrites
<1>5. TypeRecv'
  BY <1>4 DEF RecvInv, TypeRecv, WriterWrites, recvVars, loopVars
<1>6. Serving'
  BY DEF RecvInv, Serving, WriterWrites, recvVars, loopVars
<1> QED  BY <1>5, <1>6, RecvQuiet DEF WriterWrites, recvVars

\* A break loses a suffix of what travels.
LEMMA BreakRecv ==
    ASSUME RecvInv, NEW c \in Conn, Break(c)
    PROVE  RecvInv'
<1>1. PICK i \in 0..Len(c2s[c]) : c2s' = [c2s EXCEPT ![c] = SubSeq(@, 1, i)]
  BY DEF Break
<1>2. c2s[c] \in Seq(Msg) /\ c2s \in [Conn -> Seq(Msg)]
  BY DEF RecvInv, TypeRecv
<1>3. SubSeq(c2s[c], 1, i) \in Seq(Msg)
  BY <1>2
<1>4. c2s' \in [Conn -> Seq(Msg)]
  BY <1>1, <1>2, <1>3
<1>5. TypeRecv'
  BY <1>4 DEF RecvInv, TypeRecv, Break, recvVars, loopVars
<1>6. Serving'
  BY DEF RecvInv, Serving, Break, recvVars, loopVars
<1> QED  BY <1>5, <1>6, RecvQuiet DEF Break, recvVars

\* Taking up a connection, a poll that finds nothing, the timer and a delivery
\* move a loop only.
LEMMA MoveRecv ==
    ASSUME RecvInv, NEW s \in Stream,
           \/ \E c \in Conn : Serve(s, c)
           \/ PollNothing(s) \/ Tick(s) \/ Deliver(s)
    PROVE  RecvInv'
<1>1. TypeRecv'
  <2>1. CASE \E c \in Conn : Serve(s, c)
    BY <2>1 DEF RecvInv, TypeRecv, Serve, Goto, netVars, Conn
  <2>2. CASE PollNothing(s) \/ Tick(s) \/ Deliver(s)
    BY <2>2 DEF RecvInv, TypeRecv, PollNothing, Tick, Deliver, Goto, netVars
  <2> QED  BY <2>1, <2>2
<1>2. Serving'
  BY DEF RecvInv, TypeRecv, Serving, Serve, PollNothing, Tick, Deliver, Goto
<1> QED  BY <1>1, <1>2, RecvQuiet DEF Serve, PollNothing, Tick, Deliver

\* The ack a loop claims is the watermark.
LEMMA PollAckRecv ==
    ASSUME RecvInv, NEW s \in Stream, PollAck(s)
    PROVE  RecvInv'
<1>1. /\ mark \in Watermark /\ mark' = Polled(mark)
      /\ pendingAck' = [pendingAck EXCEPT ![s] = mark.highest] /\ at[s] = "poll"
      /\ at' = [at EXCEPT ![s] = "select"] /\ UNCHANGED <<c2s, waiting, serving, recorded>>
  BY DEF RecvInv, TypeRecv, PollAck, PollValue, Goto, netVars
<1>2. mark' \in Watermark /\ mark.highest \in MsgOrNone
  BY <1>1, MarkTypes DEF Watermark
<1>3. TypeRecv'
  BY <1>1, <1>2 DEF RecvInv, TypeRecv
<1>4. Serving'
  BY <1>1 DEF RecvInv, TypeRecv, Serving
<1>5. SinceBounded' /\ WatermarkExact'
  BY <1>1, <1>2, MarkTypes, MarkSame
<1> QED  BY <1>3, <1>4, <1>5 DEF RecvInv

\* An ack that was written is committed.
LEMMA AckWrittenRecv ==
    ASSUME RecvInv, NEW s \in Stream, AckWritten(s)
    PROVE  RecvInv'
<1>1. /\ mark \in Watermark /\ mark' = Commit(mark, pendingAck[s])
      /\ pendingAck' = [pendingAck EXCEPT ![s] = -1] /\ at[s] = "select"
      /\ at' = [at EXCEPT ![s] = "poll"] /\ UNCHANGED <<c2s, waiting, serving, recorded>>
  BY DEF RecvInv, TypeRecv, AckWritten, Goto
<1>2. pendingAck[s] \in MsgOrNone
  BY DEF RecvInv, TypeRecv
<1>3. mark' \in Watermark
  BY <1>1, <1>2, MarkTypes
<1>4. TypeRecv'
  BY <1>1, <1>3 DEF RecvInv, TypeRecv, MsgOrNone
<1>5. Serving'
  BY <1>1 DEF RecvInv, TypeRecv, Serving
<1>6. SinceBounded' /\ WatermarkExact'
  BY <1>1, <1>2, <1>3, MarkTypes, MarkSame
<1> QED  BY <1>4, <1>5, <1>6 DEF RecvInv

\* A frame is recorded.
LEMMA ReadFrameRecv ==
    ASSUME RecvInv, NEW s \in Stream, ReadFrame(s)
    PROVE  RecvInv'
<1>1. serving[s] \in Conn /\ c2s[serving[s]] # <<>> /\ c2s[serving[s]] \in Seq(Msg)
  BY DEF RecvInv, TypeRecv, Serving, ReadFrame
<1>2. PICK q \in Msg : q = Head(c2s[serving[s]])
  BY <1>1
<1>3. Tail(c2s[serving[s]]) \in Seq(Msg)
  BY <1>1
<1>4. /\ mark' = Record(mark, q) /\ recorded' = recorded \cup {q}
      /\ c2s' = [c2s EXCEPT ![serving[s]] = Tail(@)] /\ at' = [at EXCEPT ![s] = "deliver"]
      /\ UNCHANGED <<waiting, serving, pendingAck>>
  BY <1>2 DEF ReadFrame, Goto
<1>5. /\ mark' \in Watermark /\ recorded' \subseteq Msg /\ SinceBounded' /\ WatermarkExact'
  BY <1>4, RecordExact
<1>6. TypeRecv'
  BY <1>3, <1>4, <1>5 DEF RecvInv, TypeRecv
<1>7. Serving'
  BY <1>1, <1>4 DEF RecvInv, TypeRecv, Serving
<1> QED  BY <1>5, <1>6, <1>7 DEF RecvInv

\* A loop that ends commits what was seen, or nothing new.
LEMMA RecvEndsRecv ==
    ASSUME RecvInv, NEW s \in Stream, NEW bye, NEW recoverable \in BOOLEAN,
           RecvEnds(s, bye, recoverable)
    PROVE  RecvInv'
<1>1. PICK n \in {mark.committed, HighestSeen(mark)} : mark' = Commit(mark, n)
  BY DEF RecvEnds
<1>2. mark \in Watermark /\ n \in MsgOrNone
  BY <1>1, HighestSeenType DEF RecvInv, TypeRecv, Watermark
<1>3. PICK lost \in SUBSET waiting[s] : /\ waiting' = [waiting EXCEPT ![s] = @ \ lost]
                                        /\ ServerDrops({serving[s]} \cup lost)
  BY DEF RecvEnds
<1>4. c2s' \in [Conn -> Seq(Msg)]
  BY <1>3 DEF RecvInv, TypeRecv, ServerDrops
<1>5. /\ pendingAck' = [pendingAck EXCEPT ![s] = -1] /\ at' = [at EXCEPT ![s] = "idle"]
      /\ serving' = [serving EXCEPT ![s] = 0] /\ UNCHANGED recorded
  BY DEF RecvEnds, Goto
<1>6. mark' \in Watermark
  BY <1>1, <1>2, MarkTypes
<1>7. TypeRecv'
  <2>1. waiting' \in [Stream -> SUBSET Conn]
    BY <1>3 DEF RecvInv, TypeRecv
  <2>2. pendingAck' \in [Stream -> MsgOrNone]
    BY <1>5 DEF RecvInv, TypeRecv, MsgOrNone
  <2>3. serving' \in [Stream -> 0..MaxConns]
    BY <1>5, MultiStreamAssumption DEF RecvInv, TypeRecv
  <2>4. at' \in [Stream -> {"idle", "poll", "select", "deliver"}]
    BY <1>5 DEF RecvInv, TypeRecv
  <2> QED  BY <1>4, <1>5, <1>6, <2>1, <2>2, <2>3, <2>4 DEF RecvInv, TypeRecv
<1>8. Serving'
  BY <1>5 DEF RecvInv, TypeRecv, Serving
<1>9. SinceBounded' /\ WatermarkExact'
  BY <1>1, <1>2, <1>5, <1>6, MarkTypes, MarkSame
<1> QED  BY <1>7, <1>8, <1>9 DEF RecvInv

\* The accept loop drops what nobody took up.
LEMMA AcceptLoopEndsRecv ==
    ASSUME RecvInv, AcceptLoopEnds
    PROVE  RecvInv'
<1>1. c2s' \in [Conn -> Seq(Msg)] /\ waiting' \in [Stream -> SUBSET Conn]
  BY DEF RecvInv, TypeRecv, AcceptLoopEnds, ServerDrops
<1>2. TypeRecv'
  BY <1>1 DEF RecvInv, TypeRecv, AcceptLoopEnds, loopVars
<1>3. Serving'
  BY DEF RecvInv, Serving, AcceptLoopEnds, loopVars
<1> QED  BY <1>2, <1>3, RecvQuiet DEF AcceptLoopEnds

\* The steps of the sending side alone.
LEMMA RecvUnchanged ==
    ASSUME RecvInv, UNCHANGED <<c2s, waiting, serving, at, pendingAck, mark, recorded>>
    PROVE  RecvInv'
BY DEF RecvInv, TypeRecv, Serving, SinceBounded, WatermarkExact

-----------------------------------------------------------------------------
(* The invariant.                                                          *)

\* It holds at the start: nothing is posted, written or recorded.
LEMMA MultiInvInit == Init => MultiInv
<1> SUFFICES ASSUME Init PROVE MultiInv
  OBVIOUS
<1>1. MaxPosts \in Nat /\ MaxConns \in Nat /\ QueueCap \in Nat \ {0}
  BY MultiStreamAssumption
<1>2. TypeSend
  BY <1>1 DEF Init, TypeSend, MsgOrNone
<1>3. TypeRecv
  BY <1>1 DEF Init, TypeRecv, NewMark, Watermark, MsgOrNone
<1>4. Holding /\ Serving /\ OnePlace /\ Dispatching /\ PendingPlaced
  BY <1>1 DEF Init, Holding, Serving, OnePlace, Dispatching, PendingPlaced, InHand, InQueue,
     Undispatched, Msg
<1>5. SinceBounded /\ WatermarkExact
  BY FS_EmptySet DEF Init, NewMark, SinceBounded, WatermarkExact
<1> QED  BY <1>2, <1>3, <1>4, <1>5 DEF MultiInv, SendInv, RecvInv

\* The dispatcher and the application.
LEMMA FrontSteps ==
    ASSUME MultiInv, Post \/ DropTx \/ Dispatcher \/ RxRecv
    PROVE  MultiInv'
<1>1. CASE Post \/ DropTx \/ Dispatcher
  <2>1. SendInv'
    BY <1>1, PostSend, DropTxSend, DispatcherRecvSend, DispatcherSendSend,
       DispatcherStopsSend, DispatcherEndsSend DEF MultiInv, Dispatcher
  <2>2. UNCHANGED <<c2s, waiting, serving, at, pendingAck, mark, recorded>>
    BY <1>1 DEF Post, DropTx, Dispatcher, DispatcherRecv, DispatcherSend, DispatcherStops,
       DispatcherEnds, netVars, recvVars, loopVars
  <2> QED  BY <2>1, <2>2, RecvUnchanged DEF MultiInv
<1>2. CASE RxRecv
  BY <1>2, SendQuiet, RecvUnchanged
     DEF MultiInv, RxRecv, poolVars, netVars, recvVars, loopVars
<1> QED  BY <1>1, <1>2

\* The writers.
LEMMA WriterSteps ==
    ASSUME MultiInv, NEW s \in Stream,
           Writer(s) \/ WriterConnectFails(s) \/ WriterReadsClosed(s)
    PROVE  MultiInv'
<1>1. CASE WriterConnects(s) \/ WriterWrites(s)
  BY <1>1, WriterConnectsSend, WriterConnectsRecv, WriterWritesSend, WriterWritesRecv
     DEF MultiInv
<1>2. CASE \/ WriterConnectFails(s) \/ WriterReadsAck(s) \/ WriterPulls(s)
           \/ WriterInserts(s) \/ WriteFails(s)
  <2>1. SendInv'
    BY <1>2, WriterConnectFailsSend, WriterReadsAckSend, WriterPullsSend,
       WriterInsertsSend, WriteFailsSend DEF MultiInv
  <2>2. UNCHANGED <<c2s, waiting, serving, at, pendingAck, mark, recorded>>
    BY <1>2 DEF WriterConnectFails, WriterReadsAck, WriterPulls, WriterInserts, WriteFails,
       WriterReleases, netVars, recvVars, loopVars
  <2> QED  BY <2>1, <2>2, RecvUnchanged DEF MultiInv
<1>3. CASE WriterReadFails(s) \/ WriterEof(s) \/ WriterDone(s) \/ WriterReadsClosed(s)
  <2>1. /\ wphase[s] = "connected" /\ UNCHANGED <<sendVars, poolVars, hand, recvVars>>
        /\ \E p \in {"connecting", "gone"} : WriterReleases(s, p)
    BY <1>3 DEF WriterReadFails, WriterEof, WriterDone, WriterReadsClosed
  <2>2. SendInv'
    BY <2>1, ReleaseSend DEF MultiInv
  <2>3. UNCHANGED <<c2s, waiting, serving, at, pendingAck, mark, recorded>>
    BY <2>1 DEF WriterReleases, recvVars, loopVars
  <2> QED  BY <2>2, <2>3, RecvUnchanged DEF MultiInv
<1> QED  BY <1>1, <1>2, <1>3 DEF Writer

\* The receive loops, the network and the shutdown of the server.
LEMMA ReceiverSteps ==
    ASSUME MultiInv,
           \/ \E s \in Stream : Receiver(s) \/ RecvCancelled(s) \/ DeliverFails(s)
           \/ \E c \in Conn : Break(c)
           \/ \E dropped \in BOOLEAN : Stop(dropped)
           \/ AcceptLoopEnds
    PROVE  MultiInv'
<1>1. ASSUME NEW s \in Stream, Receiver(s)
      PROVE  MultiInv'
  <2>1. CASE RecvEof(s)
    <3>1. RecvEnds(s, <<>>, TRUE) /\ UNCHANGED <<sendVars, poolVars, writeVars>>
      BY <2>1 DEF RecvEof
    <3> QED  BY <3>1, RecvEndsRecv, SendQuiet DEF MultiInv, RecvEnds, poolVars
  <2>2. CASE ~RecvEof(s)
    <3>1. RecvInv'
      BY <1>1, <2>2, MoveRecv, PollAckRecv, AckWrittenRecv, ReadFrameRecv
         DEF MultiInv, Receiver
    <3>2. UNCHANGED <<sendVars, outcome, shared, unacked, writeVars, nconn>>
      BY <1>1, <2>2 DEF Receiver, Serve, PollAck, PollNothing, Tick, AckWritten, ReadFrame,
         Deliver, poolVars, netVars
    <3> QED  BY <3>1, <3>2, SendQuiet DEF MultiInv
  <2> QED  BY <2>1, <2>2
<1>2. ASSUME NEW s \in Stream, RecvCancelled(s) \/ DeliverFails(s)
      PROVE  MultiInv'
  <2>1. /\ UNCHANGED <<sendVars, poolVars, writeVars>>
        /\ RecvEnds(s, <<Closed>>, FALSE) \/ RecvEnds(s, <<>>, TRUE)
    BY <1>2 DEF RecvCancelled, DeliverFails
  <2> QED  BY <2>1, RecvEndsRecv, SendQuiet DEF MultiInv, RecvEnds, poolVars
<1>3. ASSUME NEW c \in Conn, Break(c) PROVE MultiInv'
  BY <1>3, BreakRecv, SendQuiet DEF MultiInv, Break, poolVars
<1>4. ASSUME NEW dropped \in BOOLEAN, Stop(dropped) PROVE MultiInv'
  BY <1>4, RecvUnchanged, SendQuiet
     DEF MultiInv, Stop, poolVars, netVars, recvVars, loopVars
<1>5. CASE AcceptLoopEnds
  BY <1>5, AcceptLoopEndsRecv, SendQuiet DEF MultiInv, AcceptLoopEnds, poolVars
<1> QED  BY <1>1, <1>2, <1>3, <1>4, <1>5

\* Every step keeps it, of the server's shutdown as well.
LEMMA MultiInvStep ==
    ASSUME MultiInv, [Next \/ Shutdown]_vars
    PROVE  MultiInv'
<1>1. CASE UNCHANGED vars
  BY <1>1, SendQuiet, RecvUnchanged
     DEF MultiInv, vars, poolVars, netVars, recvVars, loopVars
<1>2. CASE Next \/ Shutdown
  BY <1>2, FrontSteps, WriterSteps, ReceiverSteps DEF Next, Shutdown
<1> QED  BY <1>1, <1>2

\* The invariant holds in every state, whether or not the server is stopped.
THEOREM MultiInvariant == StopSpec => []MultiInv
<1>1. MultiInv /\ [Next \/ Shutdown]_vars => MultiInv'
  BY MultiInvStep
<1> QED  BY <1>1, MultiInvInit, PTL DEF StopSpec

\* A session whose server stays up is one whose server may be stopped.
LEMMA SpecIsStopSpec == Spec => StopSpec
<1>1. [Next]_vars => [Next \/ Shutdown]_vars
  OBVIOUS
<1> QED  BY <1>1, PTL DEF Spec, StopSpec

\* The types: the hands and the queue hold messages, the work queue keeps its
\* capacity, and the fields of the watermark their ranges.
THEOREM MultiTypes == StopSpec => []TypeOK
<1>1. MultiInv => TypeOK
  <2> SUFFICES ASSUME MultiInv PROVE TypeOK
    OBVIOUS
  <2>1. Queued \subseteq Msg
    BY DEF MultiInv, SendInv, TypeSend, Queued
  <2>2. mark.since \in 0..MaxPosts
    <3>1. Cardinality(recorded) <= MaxPosts /\ Cardinality(recorded) \in Nat
      BY MsgFinite, FS_Subset, FS_CardinalityType DEF MultiInv, RecvInv, TypeRecv
    <3> QED  BY <3>1, MultiStreamAssumption
             DEF MultiInv, RecvInv, TypeRecv, SinceBounded, Watermark
  <2>3. /\ mark.received \subseteq Msg
        /\ {mark.highest, mark.reported, mark.committed} \subseteq Msg \cup {-1}
    BY DEF MultiInv, RecvInv, TypeRecv, Watermark, MsgOrNone
  <2> QED  BY <2>1, <2>2, <2>3
           DEF TypeOK, MultiInv, SendInv, RecvInv, TypeSend, TypeRecv, MsgOrNone
<1> QED  BY <1>1, MultiInvariant, PTL

\* The watermark is exact (AckWatermark): highest_contiguous is the largest N
\* with all of 0..N recorded over all streams, and received what lies beyond.
THEOREM WatermarkIsExact == StopSpec => []WatermarkExact
<1>1. MultiInv => WatermarkExact
  BY DEF MultiInv, RecvInv
<1> QED  BY <1>1, MultiInvariant, PTL

\* The places of a message are counted once each.
LEMMA PlacesCounted ==
    ASSUME MultiInv
    PROVE  LET inHand == {hand[s] : s \in Stream} \ {-1}
           IN  Cardinality(inHand) + Len(shared) + Cardinality(unacked)
                 = Cardinality(Queued \cup inHand \cup unacked)
<1> DEFINE inHand == {hand[s] : s \in Stream} \ {-1}
<1>1. inHand \subseteq Msg /\ Queued \subseteq Msg /\ unacked \subseteq Msg
  BY DEF MultiInv, SendInv, TypeSend, MsgOrNone, Queued
<1>2. /\ IsFiniteSet(inHand) /\ IsFiniteSet(Queued) /\ IsFiniteSet(unacked)
  BY <1>1, MsgFinite, FS_Subset
<1>3. Queued \cap inHand = {} /\ (Queued \cup inHand) \cap unacked = {}
  BY <1>1 DEF MultiInv, SendInv, OnePlace, InHand, InQueue, Queued
<1>4. Cardinality(Queued) = Len(shared)
  <2>1. shared \in Seq(Msg) /\ Len(shared) \in Nat /\ DOMAIN shared = 1..Len(shared)
    BY DEF MultiInv, SendInv, TypeSend
  <2>2. /\ \A i, j \in 1..Len(shared) : shared[i] = shared[j] => i = j
    BY <2>1 DEF MultiInv, SendInv, OnePlace
  <2>3. shared \in [1..Len(shared) -> Queued]
    BY <2>1 DEF Queued
  <2>4. \A m \in Queued : \E i \in 1..Len(shared) : shared[i] = m
    BY <2>1 DEF Queued
  <2>5. ExistsBijection(1..Len(shared), Queued)
    <3>1. shared \in Injection(1..Len(shared), Queued)
      BY <2>2, <2>3 DEF Injection, IsInjective
    <3>2. shared \in Surjection(1..Len(shared), Queued)
      BY <2>3, <2>4 DEF Surjection
    <3> QED  BY <3>1, <3>2 DEF ExistsBijection, Bijection
  <2>6. IsFiniteSet(1..Len(shared)) /\ Cardinality(1..Len(shared)) = Len(shared)
    BY <2>1, FS_Interval
  <2> QED  BY <2>5, <2>6, FS_Bijection
<1> HIDE DEF inHand
<1>5. Cardinality({}) = 0
  BY FS_EmptySet
<1>6. /\ IsFiniteSet(Queued \cup inHand)
      /\ Cardinality(Queued \cup inHand) = Cardinality(Queued) + Cardinality(inHand) - 0
  BY <1>2, <1>3, <1>5, FS_Union
<1>7. Cardinality((Queued \cup inHand) \cup unacked)
        = Cardinality(Queued \cup inHand) + Cardinality(unacked) - 0
  BY <1>2, <1>3, <1>5, <1>6, FS_Union
<1>8. Cardinality(Queued) \in Nat /\ Cardinality(inHand) \in Nat /\ Cardinality(unacked) \in Nat
  BY <1>2, FS_CardinalityType
<1>9. Cardinality(inHand) + Len(shared) + Cardinality(unacked)
        = Cardinality(Queued \cup inHand \cup unacked)
  BY <1>4, <1>6, <1>7, <1>8
<1> QED  BY <1>9 DEF inHand

\* Every post is reported or is in exactly one place, whatever the writers, the
\* network and the server do (the unacked map, the work queue, the hands).
THEOREM PostsAccounted == StopSpec => []NoPostLost
<1>1. MultiInv => NoPostLost
  <2> SUFFICES ASSUME MultiInv PROVE NoPostLost
    OBVIOUS
  <2> DEFINE inHand == {hand[s] : s \in Stream} \ {-1}
             holds == (taken..(posted - 1))
                      \cup (IF dphase = "sending" THEN {taken - 1} ELSE {})
                      \cup Queued \cup inHand \cup unacked
  <2>1. posted \in Nat /\ taken \in Nat /\ posted <= MaxPosts /\ taken <= posted
        /\ MaxPosts \in Nat
    BY MultiStreamAssumption DEF MultiInv, SendInv, TypeSend
  <2>2. \A m \in Msg : (m \in Queued <=> InQueue(m)) /\ (m \in inHand <=> InHand(m))
    BY DEF Queued, InQueue, InHand, Msg
  <2>3. \A m \in Msg : InQueue(m) \/ InHand(m) \/ m \in unacked => ~Undispatched(m)
    BY DEF MultiInv, SendInv, Dispatching
  <2>4. Queued \subseteq Msg /\ inHand \subseteq Msg /\ unacked \subseteq Msg
    BY DEF MultiInv, SendInv, TypeSend, Queued, MsgOrNone
  <2>5. dphase = "sending" => taken > 0
    BY DEF MultiInv, SendInv, Dispatching
  <2>6. \A m \in holds : m \in Msg /\ m < posted
    BY <2>1, <2>2, <2>3, <2>4, <2>5 DEF Undispatched, Msg
  <2>7. \A m \in 0..(posted - 1) : m \in Msg
    BY <2>1 DEF Msg
  <2>8. \A m \in 0..(posted - 1) : outcome[m] = "pending" <=> m \in holds
    <3>1. \A m \in 0..(posted - 1) :
            Undispatched(m) <=> m \in (taken..(posted - 1))
                                      \cup (IF dphase = "sending" THEN {taken - 1} ELSE {})
      BY <2>1 DEF Undispatched
    <3> QED  BY <2>2, <2>7, <3>1 DEF MultiInv, SendInv, PendingPlaced
  <2>9. {m \in 0..(posted - 1) : outcome[m] = "pending"} = holds
    <3>1. \A m \in holds : m \in 0..(posted - 1)
      BY <2>1, <2>6 DEF Msg
    <3> HIDE DEF holds
    <3> QED  BY <2>8, <3>1
  <2> QED  BY <2>9, PlacesCounted DEF NoPostLost
<1> QED  BY <1>1, MultiInvariant, PTL

-----------------------------------------------------------------------------
(* What the acks promise, while the server stays up.                       *)

\* No promise is made: responses are only lost, acks only given up, outcomes
\* are not turned to accepted.
LEMMA HonestKept ==
    ASSUME HonestInv, MultiInv', recorded \subseteq recorded',
           s2c' \in [Conn -> Seq(Response)],
           \A c \in Conn : \A i \in DOMAIN s2c'[c] :
               \E j \in DOMAIN s2c[c] : s2c'[c][i] = s2c[c][j],
           \A s \in Stream : pendingAck'[s] \in {pendingAck[s], -1},
           dphase = "closed" => dphase' = "closed",
           \/ dphase' = "closed"
           \/ \A m \in Msg \ Unserializable :
                outcome'[m] = "accepted" => outcome[m] = "accepted"
    PROVE  HonestInv'
<1>1. PendingAcksContiguous'
  BY DEF HonestInv, PendingAcksContiguous
<1>2. AcksContiguous'
  BY DEF HonestInv, AcksContiguous
<1>3. AcceptedWasSeen'
  BY DEF HonestInv, AcceptedWasSeen
<1> QED  BY <1>1, <1>2, <1>3 DEF HonestInv

\* The same, for a step that touches no response.
LEMMA HonestQuiet ==
    ASSUME HonestInv, MultiInv', recorded \subseteq recorded', UNCHANGED s2c,
           \A s \in Stream : pendingAck'[s] \in {pendingAck[s], -1},
           dphase = "closed" => dphase' = "closed",
           \/ dphase' = "closed"
           \/ \A m \in Msg \ Unserializable :
                outcome'[m] = "accepted" => outcome[m] = "accepted"
    PROVE  HonestInv'
<1>1. s2c' \in [Conn -> Seq(Response)]
  BY DEF HonestInv
<1>2. \A c \in Conn : \A i \in DOMAIN s2c'[c] :
          \E j \in DOMAIN s2c[c] : s2c'[c][i] = s2c[c][j]
  OBVIOUS
<1> QED  BY <1>1, <1>2, HonestKept

\* The dispatcher and the application promise nothing.
LEMMA FrontHonest ==
    ASSUME HonestInv, MultiInv', Post \/ DropTx \/ Dispatcher \/ RxRecv
    PROVE  HonestInv'
<1>1. UNCHANGED <<recorded, s2c, pendingAck>>
  BY DEF Post, DropTx, Dispatcher, DispatcherRecv, DispatcherSend, DispatcherStops,
     DispatcherEnds, RxRecv, netVars, recvVars, loopVars
<1>2. /\ dphase = "closed" => dphase' = "closed"
      /\ dphase' = "closed" \/ UNCHANGED outcome
  BY DEF Post, DropTx, Dispatcher, DispatcherRecv, DispatcherSend, DispatcherStops,
     DispatcherEnds, RxRecv, sendVars, poolVars
<1> QED  BY <1>1, <1>2, HonestQuiet

\* A writer that lets go of its connection loses responses.
LEMMA ReleaseHonest ==
    ASSUME HonestInv, MultiInv', NEW s \in Stream, NEW p, WriterReleases(s, p),
           UNCHANGED <<dphase, recvVars>>,
           \A m \in Msg : outcome'[m] = "accepted" => outcome[m] = "accepted"
    PROVE  HonestInv'
<1>1. s2c' = [s2c EXCEPT ![wconn[s]] = <<>>] /\ s2c \in [Conn -> Seq(Response)]
  BY DEF WriterReleases, HonestInv
<1>2. s2c' \in [Conn -> Seq(Response)]
      /\ \A c \in Conn : s2c'[c] = s2c[c] \/ s2c'[c] = <<>>
  <2>1. <<>> \in Seq(Response)
    OBVIOUS
  <2> QED  BY <1>1, <2>1
<1>3. \A c \in Conn : \A i \in DOMAIN s2c'[c] :
          \E j \in DOMAIN s2c[c] : s2c'[c][i] = s2c[c][j]
  BY <1>2
<1>4. UNCHANGED <<recorded, pendingAck>>
  BY DEF recvVars, loopVars
<1> QED  BY <1>2, <1>3, <1>4, HonestKept

\* A writer reports what an ack covers; all of it was recorded.
LEMMA ReadsAckHonest ==
    ASSUME HonestInv, MultiInv', NEW s \in Stream, WriterReadsAck(s)
    PROVE  HonestInv'
<1>1. PICK c \in Conn : c = wconn[s]
  BY DEF HonestInv, MultiInv, SendInv, Holding, WriterReadsAck
<1>2. PICK q \in Seq(Response) : q = s2c[c]
  BY DEF HonestInv
<1>3. /\ q # <<>> /\ Head(q).type = "ack"
      /\ outcome' = Resolve(Covered(Head(q).seq), "accepted")
      /\ s2c' = [s2c EXCEPT ![c] = Tail(q)] /\ UNCHANGED <<dphase, recorded, pendingAck>>
  BY <1>1, <1>2 DEF WriterReadsAck, sendVars, recvVars, loopVars
<1>4. /\ Tail(q) \in Seq(Response) /\ Head(q) = q[1] /\ Head(q) \in Response
      /\ Len(Tail(q)) = Len(q) - 1 /\ Len(q) \in Nat \ {0}
      /\ \A i \in 1..(Len(q) - 1) : Tail(q)[i] = q[i + 1]
  BY <1>2, <1>3, TailFacts
<1>5. s2c' \in [Conn -> Seq(Response)] /\ s2c'[c] = Tail(q)
      /\ \A d \in Conn \ {c} : s2c'[d] = s2c[d]
  BY <1>3, <1>4 DEF HonestInv
<1>6. \A i \in DOMAIN q : q[i].type = "ack" => 0..q[i].seq \subseteq recorded
  BY <1>2 DEF HonestInv, AcksContiguous
<1>7. AcksContiguous'
  <2>1. \A i \in DOMAIN Tail(q) : i \in 1..(Len(q) - 1) /\ i + 1 \in DOMAIN q
    BY <1>2, <1>4
  <2>2. \A i \in DOMAIN Tail(q) : Tail(q)[i].type = "ack" => 0..Tail(q)[i].seq \subseteq recorded
    BY <1>4, <1>6, <2>1
  <2> QED  BY <1>3, <1>5, <2>2 DEF HonestInv, AcksContiguous
<1>8. 0..Head(q).seq \subseteq recorded /\ Head(q).seq \in Int
  <2>1. 1 \in DOMAIN q
    BY <1>2, <1>4
  <2> QED  BY <1>3, <1>4, <1>6, <2>1 DEF Response
<1>9. \A m \in Covered(Head(q).seq) : m \in recorded
  <2>1. unacked \subseteq Msg
    BY DEF HonestInv, MultiInv, SendInv, TypeSend
  <2> QED  BY <1>8, <2>1 DEF Covered, Msg
<1>10. AcceptedWasSeen'
  <2>1. \A m \in Msg : outcome'[m] = "accepted" => outcome[m] = "accepted" \/ m \in recorded
    BY <1>3, <1>9 DEF Resolve
  <2> QED  BY <1>3, <2>1 DEF HonestInv, AcceptedWasSeen
<1> QED  BY <1>3, <1>5, <1>7, <1>10 DEF HonestInv, PendingAcksContiguous

\* The writers promise nothing else.
LEMMA WriterHonest ==
    ASSUME HonestInv, MultiInv', NEW s \in Stream, Writer(s)
    PROVE  HonestInv'
<1>1. CASE WriterConnects(s) \/ WriterWrites(s) \/ WriterInserts(s)
  <2>1. UNCHANGED <<recorded, s2c, pendingAck, dphase, outcome>>
    BY <1>1 DEF WriterConnects, WriterWrites, WriterInserts, sendVars, poolVars, netVars,
       recvVars, loopVars
  <2> QED  BY <2>1, HonestQuiet
<1>2. CASE WriterPulls(s)
  <2>1. /\ UNCHANGED <<recorded, s2c, pendingAck, dphase>>
        /\ \/ UNCHANGED outcome
           \/ /\ Head(shared) \in Unserializable
              /\ outcome' = Resolve({Head(shared)}, "accepted")
    BY <1>2 DEF WriterPulls, sendVars, netVars, recvVars, loopVars
  <2>2. \A m \in Msg \ Unserializable : outcome'[m] = outcome[m]
    BY <2>1 DEF Resolve
  <2> QED  BY <2>1, <2>2, HonestQuiet
<1>3. CASE WriterReadsAck(s)
  BY <1>3, ReadsAckHonest
<1>4. CASE WriteFails(s)
  <2>1. \A m \in Msg : outcome'[m] = "accepted" => outcome[m] = "accepted"
    BY <1>4 DEF WriteFails, Resolve
  <2> QED  BY <1>4, <2>1, ReleaseHonest DEF WriteFails, sendVars
<1>5. CASE WriterReadFails(s) \/ WriterEof(s) \/ WriterDone(s)
  <2>1. /\ UNCHANGED <<dphase, recvVars, outcome>>
        /\ \E p \in {"connecting", "gone"} : WriterReleases(s, p)
    BY <1>5 DEF WriterReadFails, WriterEof, WriterDone, sendVars, poolVars
  <2> QED  BY <2>1, ReleaseHonest
<1> QED  BY <1>1, <1>2, <1>3, <1>4, <1>5 DEF Writer

\* A broken connection loses responses.
LEMMA BreakHonest ==
    ASSUME HonestInv, MultiInv', NEW c \in Conn, Break(c)
    PROVE  HonestInv'
<1>1. PICK q \in Seq(Response) : q = s2c[c]
  BY DEF HonestInv
<1>2. PICK j \in 0..Len(q) : s2c' = [s2c EXCEPT ![c] = SubSeq(q, 1, j)]
  BY <1>1 DEF Break
<1>3. /\ SubSeq(q, 1, j) \in Seq(Response) /\ DOMAIN SubSeq(q, 1, j) = 1..j
      /\ \A i \in 1..j : SubSeq(q, 1, j)[i] = q[i] /\ i \in DOMAIN q
  BY <1>1
<1>4. s2c' \in [Conn -> Seq(Response)] /\ s2c'[c] = SubSeq(q, 1, j)
      /\ \A d \in Conn \ {c} : s2c'[d] = s2c[d]
  BY <1>2, <1>3 DEF HonestInv
<1>5. \A d \in Conn : \A i \in DOMAIN s2c'[d] :
          \E k \in DOMAIN s2c[d] : s2c'[d][i] = s2c[d][k]
  BY <1>1, <1>3, <1>4
<1>6. UNCHANGED <<recorded, pendingAck, dphase, outcome>>
  BY DEF Break, sendVars, poolVars, recvVars, loopVars
<1> QED  BY <1>4, <1>5, <1>6, HonestKept

\* The ack that is claimed covers what the watermark covers.
LEMMA PollAckHonest ==
    ASSUME HonestInv, MultiInv', NEW s \in Stream, PollAck(s)
    PROVE  HonestInv'
<1>1. /\ pendingAck' = [pendingAck EXCEPT ![s] = mark.highest]
      /\ UNCHANGED <<recorded, s2c, dphase, outcome>>
  BY DEF PollAck, PollValue, sendVars, poolVars, netVars
<1>2. 0..mark.highest \subseteq recorded
  BY DEF HonestInv, MultiInv, RecvInv, WatermarkExact
<1>3. PendingAcksContiguous'
  BY <1>1, <1>2 DEF HonestInv, MultiInv, RecvInv, TypeRecv, PendingAcksContiguous
<1>4. AcksContiguous' /\ AcceptedWasSeen'
  BY <1>1 DEF HonestInv, AcksContiguous, AcceptedWasSeen
<1> QED  BY <1>1, <1>3, <1>4 DEF HonestInv

\* The ack that is written is the one that was claimed.
LEMMA AckWrittenHonest ==
    ASSUME HonestInv, MultiInv', NEW s \in Stream, AckWritten(s)
    PROVE  HonestInv'
<1>1. PICK c \in Conn : c = serving[s]
  BY DEF HonestInv, MultiInv, RecvInv, Serving, AckWritten
<1>2. PICK q \in Seq(Response) : q = s2c[c]
  BY DEF HonestInv
<1>3. PICK a \in Response : a = Ack(pendingAck[s])
  <2>1. pendingAck[s] \in Int
    BY DEF HonestInv, MultiInv, RecvInv, TypeRecv, MsgOrNone, Msg
  <2> QED  BY <2>1 DEF Ack, Response
<1>4. /\ s2c' = s2c \/ s2c' = [s2c EXCEPT ![c] = Append(q, a)]
      /\ pendingAck' = [pendingAck EXCEPT ![s] = -1]
      /\ UNCHANGED <<recorded, dphase, outcome>>
  BY <1>1, <1>2, <1>3 DEF AckWritten, sendVars, poolVars
<1>5. /\ Append(q, a) \in Seq(Response) /\ DOMAIN Append(q, a) = 1..(Len(q) + 1)
      /\ Len(q) \in Nat /\ DOMAIN q = 1..Len(q)
      /\ \A i \in 1..Len(q) : Append(q, a)[i] = q[i]
      /\ Append(q, a)[Len(q) + 1] = a
  BY <1>2, AppendFacts
<1>6. /\ s2c' \in [Conn -> Seq(Response)] /\ s2c'[c] \in {q, Append(q, a)}
      /\ \A d \in Conn \ {c} : s2c'[d] = s2c[d]
  BY <1>2, <1>4, <1>5 DEF HonestInv
<1>7. a.type = "ack" => 0..a.seq \subseteq recorded
  BY <1>3 DEF HonestInv, PendingAcksContiguous, Ack
<1>8. \A i \in DOMAIN q : q[i].type = "ack" => 0..q[i].seq \subseteq recorded
  BY <1>2 DEF HonestInv, AcksContiguous
<1>9. \A i \in DOMAIN s2c'[c] : s2c'[c][i].type = "ack" => 0..s2c'[c][i].seq \subseteq recorded
  BY <1>5, <1>6, <1>7, <1>8
<1>10. AcksContiguous'
  BY <1>4, <1>6, <1>9 DEF HonestInv, AcksContiguous
<1>11. PendingAcksContiguous'
  <2>1. \A t \in Stream : pendingAck'[t] = IF t = s THEN -1 ELSE pendingAck[t]
    BY <1>4 DEF HonestInv, MultiInv, RecvInv, TypeRecv
  <2> QED  BY <1>4, <2>1 DEF HonestInv, PendingAcksContiguous
<1> QED  BY <1>4, <1>6, <1>10, <1>11 DEF HonestInv, AcceptedWasSeen

\* The other steps of a receive loop promise nothing: one that ends while the
\* server stays up finds nobody to send its last ack to.
LEMMA ReceiverHonest ==
    ASSUME HonestInv, MultiInv', NEW s \in Stream, Receiver(s)
    PROVE  HonestInv'
<1>1. CASE (\E c \in Conn : Serve(s, c)) \/ PollNothing(s) \/ Tick(s) \/ ReadFrame(s) \/ Deliver(s)
  <2>1. recorded \subseteq recorded' /\ UNCHANGED <<s2c, pendingAck, dphase, outcome>>
    BY <1>1 DEF Serve, PollNothing, Tick, ReadFrame, Deliver, sendVars, poolVars, netVars
  <2> QED  BY <2>1, HonestQuiet
<1>2. CASE PollAck(s)
  BY <1>2, PollAckHonest
<1>3. CASE AckWritten(s)
  BY <1>3, AckWrittenHonest
<1>4. CASE RecvEof(s)
  <2>1. /\ pendingAck' = [pendingAck EXCEPT ![s] = -1]
        /\ UNCHANGED <<recorded, s2c, dphase, outcome>>
    BY <1>4 DEF RecvEof, RecvEnds, sendVars, poolVars
  <2>2. \A t \in Stream : pendingAck'[t] \in {pendingAck[t], -1}
    BY <2>1 DEF HonestInv, MultiInv, RecvInv, TypeRecv
  <2> QED  BY <2>1, <2>2, HonestQuiet
<1> QED  BY <1>1, <1>2, <1>3, <1>4 DEF Receiver

\* Every step of a session whose server stays up keeps the promises.
LEMMA HonestInvStep ==
    ASSUME HonestInv, [Next]_vars
    PROVE  HonestInv'
<1>1. MultiInv'
  BY MultiInvStep DEF HonestInv
<1>2. CASE UNCHANGED vars
  <2>1. UNCHANGED <<recorded, s2c, pendingAck, dphase, outcome>>
    BY <1>2 DEF vars, sendVars, poolVars, netVars, recvVars, loopVars
  <2> QED  BY <1>1, <2>1, HonestQuiet
<1>3. CASE Next
  BY <1>1, <1>3, FrontHonest, WriterHonest, ReceiverHonest, BreakHonest DEF Next
<1> QED  BY <1>2, <1>3

\* The invariant about the acks holds in every state.
THEOREM HonestInvariant == Spec => []HonestInv
<1>1. Init => HonestInv
  <2> SUFFICES ASSUME Init PROVE HonestInv
    OBVIOUS
  <2>1. s2c = [c \in Conn |-> <<>>] /\ s2c \in [Conn -> Seq(Response)]
    BY DEF Init
  <2>2. PendingAcksContiguous /\ AcksContiguous /\ AcceptedWasSeen
    BY <2>1 DEF Init, PendingAcksContiguous, AcksContiguous, AcceptedWasSeen
  <2> QED  BY <2>1, <2>2, MultiInvInit DEF HonestInv
<1>2. HonestInv /\ [Next]_vars => HonestInv'
  BY HonestInvStep
<1> QED  BY <1>1, <1>2, PTL DEF Spec

\* While the server stays up no ack lies: what travels and what was believed
\* covers only what some stream has seen (AckWatermark::poll, the ack reader).
THEOREM AcksAreHonest == Spec => []AcksHonest
<1>1. HonestInv => AcksHonest
  BY DEF HonestInv, AcksHonest
<1> QED  BY <1>1, HonestInvariant, PTL

=============================================================================
