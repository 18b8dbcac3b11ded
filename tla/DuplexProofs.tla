---------------------------- MODULE DuplexProofs ----------------------------
(***************************************************************************)
(* Proofs about Duplex, for any number of posts on either side, of         *)
(* connections and of events, a channel and a wire of any capacity.        *)
(*                                                                         *)
(* The argument.  What a side has not had acked is one ascending run:      *)
(* unacked, then outbox, then queue, up to the last message posted (Runs), *)
(* and the run begins at or below the number the other side expects.  A    *)
(* side delivers a message only when its number is the expected one, so    *)
(* what is left to show is that no number ever comes that is ahead: such a *)
(* frame would end the connection as out of sequence, or be a message that *)
(* is skipped.  Flow says so of every connection that still has a reader:  *)
(* each data frame on the wire, and the next message to be written, either *)
(* is not ahead of what the reader has, or has its predecessor before it   *)
(* on the same wire.  A new connection begins with the first message that  *)
(* is not acked, which is why Runs is needed; a frame that was cut off     *)
(* keeps everything behind it from arriving, which is why a message that   *)
(* was half written may go to outbox again.  Acks are for delivered        *)
(* messages only (Acked), on the wire, in the pending ack and in the       *)
(* sender's records.                                                       *)
(*                                                                         *)
(* That the acks the initiator reads never go back needs a second          *)
(* invariant, AckInv.  The acceptor writes an ack only when it is newer    *)
(* than its last one, so the acks on one connection ascend; the initiator  *)
(* keeps no connection but its own and drops what is unread on it, so none *)
(* is left elsewhere to turn up later, whichever of the prepared           *)
(* connections the acceptor takes.  For the acceptor the statement is      *)
(* false: it takes them in any order.                                      *)
(***************************************************************************)
EXTENDS Duplex, SequenceTheorems, TLAPS

-----------------------------------------------------------------------------
(* The inductive invariant.                                                *)

\* What a side keeps.
DataFrame(e) == {Data(e, m) : m \in Nat}
AckFrame(e)  == {Ack(e, k) : k \in Nat}
AnyFrame(e)  == DataFrame(e) \cup AckFrame(e) \cup {Closed(e), Torn}

Endpoint(e) ==
  [task : {"offer", "connect", "run", "clean", "close", "ended"}, conn : Nat, queue : Seq(Nat),
   outbox : Seq(Nat), unacked : Seq(Nat), acked : {None} \cup Nat, seq : Nat, ack : Nat,
   pending : {None} \cup Nat, writing : {"none", "data", "ack"},
   slot : {NoFrame} \cup DataFrame(Other(e)), hold : {None} \cup Nat,
   why : {"none", "io", "closed", "timeout", "appclosed", "cancelled", "panic"}]

Outcomes == {"none", "pending", "accepted", "rejected", "dropped"}

\* The variables as domains.
TypeDup ==
  /\ DOMAIN ep = Side /\ \A e \in Side : ep[e] \in Endpoint(e)
  /\ posted \in [Side -> Nat] /\ \A e \in Side : posted[e] <= Posts(e)
  /\ DOMAIN outcome = Side /\ \A e \in Side : outcome[e] \in [Msg(e) -> Outcomes]
  /\ delivered \in [Side -> Seq(Nat)] /\ inbox \in [Side -> 0..InboxCap]
  /\ DOMAIN wire = Conn
  /\ \A c \in Conn : DOMAIN wire[c] = Side /\ \A e \in Side : wire[c][e] \in Seq(AnyFrame(e))
  /\ open \in [Conn -> [Side -> BOOLEAN]]
  /\ offered \in SUBSET Conn /\ conns \in 0..MaxConns

\* Where a side is, its hands are empty or full.
Local(e) ==
  LET s == ep[e]
  IN  /\ s.task \in {"offer", "connect", "ended"} => s.conn = 0
      /\ s.task \in {"run", "clean", "close"} => s.conn \in 1..conns /\ open[s.conn][e]
      /\ s.task # "run" => /\ s.hold = None /\ s.slot = NoFrame /\ s.pending = None
                           /\ s.writing = "none"
      /\ s.writing = "data" => s.outbox # <<>>
      /\ s.writing = "ack" => s.pending # None
      /\ s.ack <= s.seq /\ (s.pending # None => s.pending \in 1..s.seq)

\* What was delivered to a side.
Ordered(e) == /\ ep[e].seq = Len(delivered[e])
              /\ \A i \in 1..Len(delivered[e]) : delivered[e][i] = i - 1

\* A connection that was not made carries nothing; those that wait for the acceptor's
\* link are open and not its own.
Links ==
  /\ \A c \in Conn, e \in Side : c > conns => wire[c][e] = <<>>
  /\ \A c \in offered : c <= conns /\ c # ep["A"].conn /\ open[c]["A"]

\* The number of e's first message that is not acked, and of the next to be written.
First(e) == posted[e] - Len(ep[e].queue) - Len(ep[e].outbox) - Len(ep[e].unacked)
Write(e) == posted[e] - Len(ep[e].queue) - Len(ep[e].outbox)

\* unacked, outbox and queue are one ascending run, up to the last message posted.
Runs(e) ==
  ep[e].task # "ended" =>
    LET s == ep[e]
    IN  /\ First(e) \in 0..ep[Other(e)].seq
        /\ \A i \in 1..Len(s.unacked) : s.unacked[i] = First(e) + i - 1 /\ s.unacked[i] > s.acked
        /\ \A i \in 1..Len(s.outbox) : s.outbox[i] = Write(e) + i - 1
        /\ \A i \in 1..Len(s.queue) : s.queue[i] = Write(e) + Len(s.outbox) + i - 1

\* Only what was delivered is acked.
Acked(e) ==
  /\ ep[e].acked < ep[Other(e)].seq
  /\ \A c \in Conn : \A i \in 1..Len(wire[c][Other(e)]) :
       wire[c][Other(e)][i].type = "ack" => wire[c][Other(e)][i].seq < ep[Other(e)].seq
  /\ \A m \in Msg(e) : outcome[e][m] = "accepted" => m < ep[Other(e)].seq

\* What e wrote was posted; the other side has its next message in hand, and the slot
\* has that one's successor or an older one.
Arrived(e) ==
  LET r == ep[Other(e)]
  IN  /\ r.seq <= posted[e]
      /\ \A c \in Conn : \A i \in 1..Len(wire[c][e]) :
           wire[c][e][i].type = "data" => wire[c][e][i].seq < posted[e]
      /\ r.hold # None => r.hold = r.seq /\ r.seq < posted[e]
      /\ r.slot # NoFrame => /\ r.slot.seq < posted[e]
                             /\ r.slot.seq <= r.seq + (IF r.hold = None THEN 0 ELSE 1)

\* Side r will read connection c, or goes on reading it.
Live(r, c) == open[c][r] /\ (ep[r].conn = c => ep[r].task = "run")

\* The numbers that do not run ahead of what r has from connection c.
Due(r, c) ==
  {x \in Int :
     \/ x <= ep[r].seq
     \/ /\ ep[r].conn = c
        /\ \/ ep[r].hold # None /\ x <= ep[r].seq + 1
           \/ ep[r].slot # NoFrame /\ x <= ep[r].slot.seq + 1}

\* x is due, or the first n of the frames w have the message before it.
Follows(w, n, due, x) ==
  x \in due \/ \E j \in 1..n : w[j].type = "data" /\ w[j].seq = x - 1

\* Every data frame follows the ones before it.
Stepwise(w, due) ==
  \A i \in 1..Len(w) : w[i].type = "data" => Follows(w, i - 1, due, w[i].seq)

\* What e writes on c arrives.
Reaches(e, c) ==
  c \notin broken /\ (wire[c][e] # <<>> => wire[c][e][Len(wire[c][e])] # Torn)

\* No number is ahead: not among the frames on their way, nor the next one that is
\* written.
FlowOn(e, c) ==
  Live(Other(e), c) =>
    /\ Stepwise(wire[c][e], Due(Other(e), c))
    /\ ep[e].task = "run" /\ ep[e].conn = c /\ Reaches(e, c) =>
         Follows(wire[c][e], Len(wire[c][e]), Due(Other(e), c), Write(e))

Flow(e) == \A c \in Conn : FlowOn(e, c)

\* The inductive invariant.
DupInv ==
  /\ TypeDup /\ Links
  /\ \A e \in Side : Local(e) /\ Ordered(e) /\ Runs(e) /\ Acked(e) /\ Arrived(e) /\ Flow(e)

-----------------------------------------------------------------------------
(* Sides, frames and sequences.                                            *)

\* There are two sides, each the other's other.
LEMMA Sides ==
  \A e \in Side : /\ Other(e) \in Side /\ Other(e) # e /\ Other(Other(e)) = e
                  /\ \A d \in Side : d = e \/ d = Other(e)
BY DEF Side, Other

\* What a frame says.
LEMMA FrameFacts ==
  ASSUME NEW e \in Side, NEW f \in AnyFrame(e)
  PROVE  /\ f.type \in {"data", "ack", "closed", "torn"}
         /\ f.type = "data" => f = Data(e, f.seq) /\ f.seq \in Nat /\ f \in DataFrame(e)
         /\ f.type = "ack" => f = Ack(e, f.seq) /\ f.seq \in Nat
         /\ f # NoFrame
<1>1. CASE f \in DataFrame(e)
  <2>1. PICK m \in Nat : f = [type |-> "data", tag |-> e, seq |-> m]
    BY <1>1 DEF DataFrame, Data
  <2>2. f.type = "data" /\ f.seq = m
    BY <2>1
  <2> QED  BY <1>1, <2>1, <2>2 DEF Data, NoFrame
<1>2. CASE f \in AckFrame(e)
  <2>1. PICK m \in Nat : f = [type |-> "ack", tag |-> Other(e), seq |-> m]
    BY <1>2 DEF AckFrame, Ack
  <2>2. f.type = "ack" /\ f.seq = m
    BY <2>1
  <2> QED  BY <2>1, <2>2 DEF Ack, NoFrame
<1>3. CASE f = Closed(e)
  <2>1. f.type = "closed"
    BY <1>3 DEF Closed
  <2> QED  BY <2>1 DEF NoFrame
<1>4. CASE f = Torn
  <2>1. f.type = "torn"
    BY <1>4 DEF Torn
  <2> QED  BY <2>1 DEF NoFrame
<1> QED  BY <1>1, <1>2, <1>3, <1>4 DEF AnyFrame

\* The kinds of frames are told apart by their type.
LEMMA FrameTypes ==
  ASSUME NEW e \in Side
  PROVE  /\ \A m \in Nat : Data(e, m) \in AnyFrame(e) /\ Data(e, m).type = "data"
                           /\ Data(e, m).seq = m /\ Data(e, m) # Torn
         /\ \A k \in Nat : Ack(e, k) \in AnyFrame(e) /\ Ack(e, k).type = "ack"
                           /\ Ack(e, k).seq = k /\ Ack(e, k) # Torn
         /\ Closed(e) \in AnyFrame(e) /\ Closed(e).type = "closed" /\ Closed(e) # Torn
         /\ Torn \in AnyFrame(e) /\ Torn.type = "torn" /\ NoFrame.type = "none"
<1>1. ASSUME NEW m \in Nat
      PROVE  Data(e, m) \in AnyFrame(e) /\ Data(e, m).type = "data" /\ Data(e, m).seq = m
             /\ Data(e, m) # Torn
  <2>1. Data(e, m).type = "data" /\ Data(e, m).seq = m /\ Torn.type = "torn"
    BY DEF Data, Torn
  <2>2. Data(e, m) \in AnyFrame(e)
    BY DEF AnyFrame, DataFrame
  <2> QED  BY <2>1, <2>2
<1>2. ASSUME NEW k \in Nat
      PROVE  Ack(e, k) \in AnyFrame(e) /\ Ack(e, k).type = "ack" /\ Ack(e, k).seq = k
             /\ Ack(e, k) # Torn
  <2>1. Ack(e, k).type = "ack" /\ Ack(e, k).seq = k /\ Torn.type = "torn"
    BY DEF Ack, Torn
  <2>2. Ack(e, k) \in AnyFrame(e)
    BY DEF AnyFrame, AckFrame
  <2> QED  BY <2>1, <2>2
<1>3. Closed(e).type = "closed" /\ Torn.type = "torn" /\ NoFrame.type = "none"
  BY DEF Closed, Torn, NoFrame
<1>4. Closed(e) \in AnyFrame(e) /\ Torn \in AnyFrame(e) /\ Closed(e) # Torn
  BY <1>3 DEF AnyFrame
<1> QED  BY <1>1, <1>2, <1>3, <1>4

\* A sequence with one more element, and without its first, as indices.
LEMMA Appended ==
  ASSUME NEW S, NEW u \in Seq(S), NEW x \in S
  PROVE  /\ u \o <<x>> = Append(u, x) /\ Append(u, x) \in Seq(S)
         /\ Len(u) \in Nat /\ Len(Append(u, x)) = Len(u) + 1
         /\ \A i \in 1..Len(u) : Append(u, x)[i] = u[i]
         /\ Append(u, x)[Len(u) + 1] = x /\ Append(u, x) # <<>>
OBVIOUS

LEMMA Tailed ==
  ASSUME NEW S, NEW u \in Seq(S), u # <<>>
  PROVE  /\ Tail(u) \in Seq(S) /\ Len(u) \in Nat \ {0} /\ Len(Tail(u)) = Len(u) - 1
         /\ \A i \in 1..(Len(u) - 1) : Tail(u)[i] = u[i + 1]
         /\ Head(u) = u[1] /\ u[1] \in S /\ 1 \in 1..Len(u)
OBVIOUS

\* What is due may only grow.
LEMMA StepwiseMore ==
  ASSUME NEW w, NEW due, NEW more, due \subseteq more
  PROVE  /\ Stepwise(w, due) => Stepwise(w, more)
         /\ \A n, x : Follows(w, n, due, x) => Follows(w, n, more, x)
BY DEF Stepwise, Follows

\* A frame is read.
LEMMA StepwiseTail ==
  ASSUME NEW e \in Side, NEW w \in Seq(AnyFrame(e)), w # <<>>, NEW due, NEW more,
         due \subseteq more, w[1].type = "data" => w[1].seq + 1 \in more
  PROVE  /\ Stepwise(w, due) => Stepwise(Tail(w), more)
         /\ \A x \in Nat : Follows(w, Len(w), due, x) =>
                             Follows(Tail(w), Len(Tail(w)), more, x)
<1> DEFINE v == Tail(w)
<1>1. /\ v \in Seq(AnyFrame(e)) /\ Len(w) \in Nat \ {0} /\ Len(v) = Len(w) - 1
      /\ \A i \in 1..(Len(w) - 1) : v[i] = w[i + 1]
  BY Tailed
<1>2. \A i \in 1..Len(w) : w[i].type = "data" => w[i].seq \in Nat
  BY FrameFacts
<1> HIDE DEF v
<1>3. ASSUME NEW n \in 1..Len(w), NEW x \in Nat, Follows(w, n, due, x)
      PROVE  Follows(v, n - 1, more, x)
  <2>1. CASE x \in due
    BY <2>1 DEF Follows
  <2>2. ASSUME NEW j \in 1..n, w[j].type = "data", w[j].seq = x - 1
        PROVE  Follows(v, n - 1, more, x)
    <3>1. CASE j = 1
      <4>0. w[1].type = "data" /\ w[1].seq = x - 1
        BY <2>2, <3>1
      <4>1. w[1].seq + 1 \in more /\ w[1].seq + 1 = x
        BY <4>0
      <4> QED  BY <4>1 DEF Follows
    <3>2. CASE j # 1
      <4>1. j - 1 \in 1..(n - 1) /\ j - 1 \in 1..(Len(w) - 1) /\ (j - 1) + 1 = j
        BY <3>2, <1>1
      <4>2. v[j - 1] = w[j]
        BY <4>1, <1>1
      <4> QED  BY <2>2, <4>1, <4>2 DEF Follows
    <3> QED  BY <3>1, <3>2
  <2> QED  BY <1>3, <2>1, <2>2 DEF Follows
<1>4. ASSUME Stepwise(w, due) PROVE Stepwise(v, more)
  <2> SUFFICES ASSUME NEW i \in 1..Len(v), v[i].type = "data"
               PROVE  Follows(v, i - 1, more, v[i].seq)
    BY DEF Stepwise
  <2>1. i + 1 \in 1..Len(w) /\ i \in 1..(Len(w) - 1) /\ i \in 1..Len(w) /\ (i + 1) - 1 = i
    BY <1>1
  <2>2. v[i] = w[i + 1]
    BY <2>1, <1>1
  <2>3. Follows(w, i, due, w[i + 1].seq) /\ w[i + 1].seq \in Nat
    BY <2>1, <2>2, <1>2, <1>4 DEF Stepwise
  <2> QED  BY <2>1, <2>2, <2>3, <1>3
<1>5. ASSUME NEW x \in Nat, Follows(w, Len(w), due, x) PROVE Follows(v, Len(v), more, x)
  BY <1>1, <1>3, <1>5
<1> QED  BY <1>4, <1>5 DEF v

\* A frame is written.
LEMMA StepwiseAppend ==
  ASSUME NEW e \in Side, NEW w \in Seq(AnyFrame(e)), NEW due, NEW f \in AnyFrame(e),
         Stepwise(w, due), f.type = "data" => Follows(w, Len(w), due, f.seq)
  PROVE  /\ Stepwise(Append(w, f), due)
         /\ \A x \in Nat : Follows(w, Len(w), due, x) =>
                             Follows(Append(w, f), Len(Append(w, f)), due, x)
         /\ f.type = "data" => Follows(Append(w, f), Len(Append(w, f)), due, f.seq + 1)
<1> DEFINE v == Append(w, f)
<1>1. /\ v \in Seq(AnyFrame(e)) /\ Len(w) \in Nat /\ Len(v) = Len(w) + 1
      /\ \A i \in 1..Len(w) : v[i] = w[i]
      /\ v[Len(w) + 1] = f
  BY Appended
<1> HIDE DEF v
<1>2. ASSUME NEW n \in 0..Len(w), NEW x, Follows(w, n, due, x) PROVE Follows(v, n, due, x)
  <2>1. \A j \in 1..n : j \in 1..Len(w)
    BY <1>1
  <2> QED  BY <2>1, <1>1, <1>2 DEF Follows
<1>3. ASSUME NEW i \in 1..Len(v), v[i].type = "data" PROVE Follows(v, i - 1, due, v[i].seq)
  <2>1. CASE i = Len(w) + 1
    <3>1. i - 1 = Len(w) /\ Len(w) \in 0..Len(w)
      BY <2>1, <1>1
    <3> QED  BY <2>1, <3>1, <1>1, <1>2, <1>3
  <2>2. CASE i # Len(w) + 1
    <3>1. i \in 1..Len(w) /\ i - 1 \in 0..Len(w)
      BY <2>2, <1>1
    <3>2. Follows(w, i - 1, due, w[i].seq)
      BY <3>1, <1>1, <1>3 DEF Stepwise
    <3> QED  BY <3>1, <3>2, <1>1, <1>2
  <2> QED  BY <2>1, <2>2
<1>4. ASSUME NEW x \in Nat, Follows(w, Len(w), due, x) PROVE Follows(v, Len(v), due, x)
  <2>1. Follows(v, Len(w), due, x) /\ \A j \in 1..Len(w) : j \in 1..Len(v)
    BY <1>1, <1>2, <1>4
  <2> QED  BY <2>1 DEF Follows
<1>5. ASSUME f.type = "data" PROVE Follows(v, Len(v), due, f.seq + 1)
  <2>1. Len(v) \in 1..Len(v) /\ v[Len(v)] = f /\ f.seq \in Nat
    BY <1>1, <1>5, FrameFacts
  <2>2. f.seq = (f.seq + 1) - 1
    BY <2>1
  <2> QED  BY <2>1, <2>2, <1>5 DEF Follows
<1>6. Stepwise(v, due)
  BY <1>3 DEF Stepwise
<1> QED  BY <1>4, <1>5, <1>6 DEF v

-----------------------------------------------------------------------------
(* What a step keeps.                                                      *)

\* The numbers of a side, typed.
LEMMA EndpointFacts ==
  ASSUME TypeDup, NEW e \in Side
  PROVE  /\ ep[e].seq \in Nat /\ ep[e].ack \in Nat /\ ep[e].conn \in Nat
         /\ ep[e].task \in {"offer", "connect", "run", "clean", "close", "ended"}
         /\ ep[e].writing \in {"none", "data", "ack"}
         /\ ep[e].acked \in {None} \cup Nat /\ ep[e].acked \in Int
         /\ ep[e].pending \in {None} \cup Nat /\ ep[e].hold \in {None} \cup Nat
         /\ ep[e].queue \in Seq(Nat) /\ ep[e].outbox \in Seq(Nat) /\ ep[e].unacked \in Seq(Nat)
         /\ Len(ep[e].queue) \in Nat /\ Len(ep[e].outbox) \in Nat /\ Len(ep[e].unacked) \in Nat
         /\ ep[e].slot # NoFrame => ep[e].slot \in DataFrame(Other(e))
         /\ ep[e].slot # NoFrame => ep[e].slot.seq \in Nat /\ ep[e].slot.type = "data"
         /\ posted[e] \in Nat /\ First(e) \in Int /\ Write(e) \in Int
<1>1. ep[e] \in Endpoint(e) /\ posted[e] \in Nat
  BY DEF TypeDup
<1>2. /\ ep[e].seq \in Nat /\ ep[e].ack \in Nat /\ ep[e].conn \in Nat
      /\ ep[e].task \in {"offer", "connect", "run", "clean", "close", "ended"}
      /\ ep[e].writing \in {"none", "data", "ack"}
      /\ ep[e].acked \in {None} \cup Nat
      /\ ep[e].pending \in {None} \cup Nat /\ ep[e].hold \in {None} \cup Nat
      /\ ep[e].queue \in Seq(Nat) /\ ep[e].outbox \in Seq(Nat) /\ ep[e].unacked \in Seq(Nat)
      /\ ep[e].slot \in {NoFrame} \cup DataFrame(Other(e))
  BY <1>1 DEF Endpoint
<1>3. Len(ep[e].queue) \in Nat /\ Len(ep[e].outbox) \in Nat /\ Len(ep[e].unacked) \in Nat
      /\ ep[e].acked \in Int
  <2>1. ep[e].acked \in {-1} \cup Nat
    BY <1>2 DEF None
  <2>2. ep[e].acked \in Int
    BY <2>1
  <2>3. \A q \in Seq(Nat) : Len(q) \in Nat
    OBVIOUS
  <2> QED  BY <1>2, <2>2, <2>3, Zenon
<1>4. ep[e].slot # NoFrame => ep[e].slot \in DataFrame(Other(e))
  BY <1>2
<1>5. ep[e].slot # NoFrame => ep[e].slot.seq \in Nat /\ ep[e].slot.type = "data"
  BY <1>4 DEF DataFrame, Data
<1>6. First(e) \in Int /\ Write(e) \in Int
  <2> DEFINE p == posted[e]
             q == Len(ep[e].queue)
             x == Len(ep[e].outbox)
             u == Len(ep[e].unacked)
  <2>1. p \in Nat /\ q \in Nat /\ x \in Nat /\ u \in Nat
    BY <1>1, <1>3
  <2> HIDE DEF p, q, x, u
  <2>2. p - q - x - u \in Int /\ p - q - x \in Int
    BY <2>1
  <2> QED  BY <2>2 DEF First, Write, p, q, x, u
<1> QED  BY <1>1, <1>2, <1>3, <1>4, <1>5, <1>6

\* The sender's part of a side does not change, unless the side ends.
SameTx(e) ==
  /\ posted'[e] = posted[e] /\ (ep[e].task = "ended" => ep'[e].task = "ended")
  /\ ep'[e].queue = ep[e].queue /\ ep'[e].outbox = ep[e].outbox
  /\ ep'[e].unacked = ep[e].unacked /\ ep'[e].acked = ep[e].acked

\* The receiver's part does not change.
SameRx(e) ==
  /\ ep'[e].task = ep[e].task /\ ep'[e].conn = ep[e].conn /\ ep'[e].seq = ep[e].seq
  /\ ep'[e].hold = ep[e].hold /\ ep'[e].slot = ep[e].slot

\* The runs of a side that keeps its deques.
LEMMA RunsKept ==
  ASSUME TypeDup, TypeDup', NEW e \in Side, Runs(e), SameTx(e),
         ep'[Other(e)].seq >= ep[Other(e)].seq
  PROVE  Runs(e)'
<1>1. First(e)' = First(e) /\ Write(e)' = Write(e) /\ First(e) \in Int
  BY EndpointFacts DEF SameTx, First, Write
<1>2. ep'[Other(e)].seq \in Nat /\ ep[Other(e)].seq \in Nat
  <2>1. ep[Other(e)].seq \in Nat
    BY Sides, EndpointFacts
  <2>2. ep'[Other(e)] \in Endpoint(Other(e))
    BY Sides DEF TypeDup
  <2> QED  BY <2>1, <2>2 DEF Endpoint
<1>3. First(e) \in 0..ep[Other(e)].seq => First(e) \in 0..ep'[Other(e)].seq
  BY <1>1, <1>2
<1> QED  BY <1>1, <1>3 DEF Runs, SameTx

\* No frame comes to wire w from v but such as f.
LEMMA AckedKept ==
  ASSUME TypeDup, TypeDup', NEW e \in Side, Acked(e),
         ep'[e].acked = ep[e].acked, outcome'[e] = outcome[e],
         ep'[Other(e)].seq >= ep[Other(e)].seq,
         \A c \in Conn : \A i \in 1..Len(wire'[c][Other(e)]) :
           \/ \E j \in 1..Len(wire[c][Other(e)]) : wire'[c][Other(e)][i] = wire[c][Other(e)][j]
           \/ wire'[c][Other(e)][i].type = "ack" =>
                wire'[c][Other(e)][i].seq < ep[Other(e)].seq
  PROVE  Acked(e)'
<1> DEFINE o == Other(e)
<1>0. o \in Side
  BY Sides
<1>1. ep'[o].seq \in Nat /\ ep[o].seq \in Nat /\ ep[e].acked \in Int
  <2>1. ep[o].seq \in Nat /\ ep[e].acked \in Int
    BY <1>0, EndpointFacts
  <2>2. ep'[o] \in Endpoint(o)
    BY <1>0 DEF TypeDup
  <2> QED  BY <2>1, <2>2 DEF Endpoint
<1>2. ep'[e].acked < ep'[o].seq
  BY <1>1 DEF Acked
<1>3. ASSUME NEW c \in Conn, NEW i \in 1..Len(wire'[c][o]), wire'[c][o][i].type = "ack"
      PROVE  wire'[c][o][i].seq < ep'[o].seq
  <2>1. wire'[c][o][i].seq < ep[o].seq
    BY <1>3 DEF Acked
  <2>2. wire'[c][o][i] \in AnyFrame(o)
    <3>1. wire'[c][o] \in Seq(AnyFrame(o))
      BY <1>0, Zenon DEF TypeDup
    <3> HIDE DEF o
    <3> QED  BY <3>1
  <2>3. wire'[c][o][i].seq \in Nat
    BY <1>0, <1>3, <2>2, FrameFacts
  <2> QED  BY <1>1, <2>1, <2>3
<1>4. ASSUME NEW m \in Msg(e), outcome'[e][m] = "accepted" PROVE m < ep'[o].seq
  <2>1. m \in Int
    BY DEF Msg
  <2>2. m < ep[o].seq
    BY <1>4 DEF Acked
  <2> QED  BY <1>1, <2>1, <2>2
<1> QED  BY <1>2, <1>3, <1>4 DEF Acked

\* What arrived stays, while the wires get no message.
LEMMA ArrivedKept ==
  ASSUME TypeDup, NEW e \in Side, Arrived(e), SameRx(Other(e)), posted'[e] = posted[e],
         \A c \in Conn : \A i \in 1..Len(wire'[c][e]) :
           \/ \E j \in 1..Len(wire[c][e]) : wire'[c][e][i] = wire[c][e][j]
           \/ wire'[c][e][i].type = "data" => wire'[c][e][i].seq < posted[e]
  PROVE  Arrived(e)'
<1>1. \A c \in Conn : \A i \in 1..Len(wire'[c][e]) :
        wire'[c][e][i].type = "data" => wire'[c][e][i].seq < posted'[e]
  BY DEF Arrived
<1> QED  BY <1>1 DEF Arrived, SameRx

\* Nothing happens on connection c in direction e that could put a number ahead.
LEMMA FlowKept ==
  ASSUME NEW e \in Side, NEW c \in Conn, FlowOn(e, c),
         Live(Other(e), c)' => Live(Other(e), c) /\ Due(Other(e), c) \subseteq Due(Other(e), c)',
         wire'[c][e] = wire[c][e],
         ep'[e].task = "run" /\ ep'[e].conn = c =>
           ep[e].task = "run" /\ ep[e].conn = c /\ Write(e)' = Write(e),
         broken \subseteq broken'
  PROVE  FlowOn(e, c)'
<1> SUFFICES ASSUME Live(Other(e), c)'
             PROVE  /\ Stepwise(wire'[c][e], Due(Other(e), c)')
                    /\ ep'[e].task = "run" /\ ep'[e].conn = c /\ Reaches(e, c)' =>
                         Follows(wire'[c][e], Len(wire'[c][e]), Due(Other(e), c)', Write(e)')
  BY DEF FlowOn
<1>1. Stepwise(wire[c][e], Due(Other(e), c))
  BY DEF FlowOn
<1>2. Stepwise(wire[c][e], Due(Other(e), c)')
  BY <1>1, StepwiseMore
<1>3. ASSUME ep'[e].task = "run", ep'[e].conn = c, Reaches(e, c)'
      PROVE  Follows(wire'[c][e], Len(wire'[c][e]), Due(Other(e), c)', Write(e)')
  <2>1. Reaches(e, c)
    BY <1>3 DEF Reaches
  <2>2. Follows(wire[c][e], Len(wire[c][e]), Due(Other(e), c), Write(e))
    BY <1>3, <2>1 DEF FlowOn
  <2>3. Follows(wire[c][e], Len(wire[c][e]), Due(Other(e), c)', Write(e))
    BY <2>2, StepwiseMore
  <2>4. Write(e)' = Write(e)
    BY <1>3
  <2> QED  BY <2>3, <2>4
<1> QED  BY <1>2, <1>3

\* What is due on a connection is decided by the reader alone.
LEMMA DueKept ==
  ASSUME NEW e \in Side, NEW c \in Conn, SameRx(e), open'[c][e] <=> open[c][e]
  PROVE  Due(e, c)' = Due(e, c) /\ (Live(e, c)' <=> Live(e, c))
<1>1. Due(e, c)' = Due(e, c)
  BY DEF Due, SameRx
<1>2. Live(e, c)' <=> Live(e, c)
  BY DEF Live, SameRx
<1> QED  BY <1>1, <1>2

\* The sender goes on where it was.
SameWrite(e) ==
  /\ ep'[e].task = ep[e].task /\ ep'[e].conn = ep[e].conn /\ Write(e)' = Write(e)

\* A step that touches neither what e has on the wire nor what the loops go by.
LEMMA FlowSame ==
  ASSUME NEW e \in Side, Flow(e), SameWrite(e), SameRx(Other(e)),
         \A c \in Conn : wire'[c][e] = wire[c][e] /\ (open'[c][Other(e)] <=> open[c][Other(e)]),
         broken \subseteq broken'
  PROVE  Flow(e)'
<1> SUFFICES ASSUME NEW c \in Conn PROVE FlowOn(e, c)'
  BY DEF Flow
<1>1. Due(Other(e), c)' = Due(Other(e), c) /\ (Live(Other(e), c)' <=> Live(Other(e), c))
  BY Sides, DueKept
<1> QED  BY <1>1, FlowKept DEF Flow, SameWrite

-----------------------------------------------------------------------------
(* Steps that touch no connection.                                         *)

\* A side in all that the other conjuncts go by.
SameSide(e) == SameTx(e) /\ SameRx(e)

\* The conjuncts about a side that the step does not touch.
LEMMA SideKept ==
  ASSUME DupInv, TypeDup', \A e \in Side : SameSide(e),
         UNCHANGED <<outcome, delivered, wire, open>>, broken \subseteq broken'
  PROVE  \A e \in Side : Ordered(e)' /\ Runs(e)' /\ Acked(e)' /\ Arrived(e)' /\ Flow(e)'
<1> SUFFICES ASSUME NEW e \in Side
             PROVE  Ordered(e)' /\ Runs(e)' /\ Acked(e)' /\ Arrived(e)' /\ Flow(e)'
  OBVIOUS
<1> DEFINE o == Other(e)
<1>1. /\ o \in Side /\ TypeDup /\ Ordered(e) /\ Runs(e) /\ Acked(e) /\ Arrived(e) /\ Flow(e)
      /\ SameTx(e) /\ SameRx(e) /\ SameRx(o)
  BY Sides DEF DupInv, SameSide
<1>2. ep'[o].seq = ep[o].seq /\ ep[o].seq \in Nat
  BY <1>1, EndpointFacts DEF SameRx
<1>3. Ordered(e)'
  BY <1>1 DEF Ordered, SameRx
<1>4. Runs(e)'
  BY <1>1, <1>2, RunsKept
<1>5. Acked(e)'
  <2>1. ep'[e].acked = ep[e].acked
    BY <1>1 DEF SameTx
  <2> QED  BY <1>1, <1>2, <2>1, AckedKept
<1>6. Arrived(e)'
  <2>1. posted'[e] = posted[e]
    BY <1>1 DEF SameTx
  <2> QED  BY <1>1, <2>1, ArrivedKept
<1>7. Flow(e)'
  <2>1. SameWrite(e)
    BY <1>1 DEF SameWrite, SameTx, SameRx, Write
  <2> QED  BY <1>1, <2>1, FlowSame
<1> QED  BY <1>3, <1>4, <1>5, <1>6, <1>7

\* The application lets go of a handle or receives, the network fails, or nothing.
LEMMA QuietStep ==
  ASSUME DupInv, UNCHANGED <<ep, posted, outcome, delivered, wire, open, offered, conns>>,
         inbox' \in [Side -> 0..InboxCap], broken \subseteq broken'
  PROVE  DupInv'
<1>1. TypeDup'
  BY DEF DupInv, TypeDup, Endpoint
<1>2. \A e \in Side : SameSide(e)
  BY DEF SameSide, SameTx, SameRx
<1>3. \A e \in Side : Ordered(e)' /\ Runs(e)' /\ Acked(e)' /\ Arrived(e)' /\ Flow(e)'
  BY <1>1, <1>2, SideKept
<1>4. Links'
  BY DEF DupInv, Links
<1>5. \A e \in Side : Local(e)'
  BY DEF DupInv, Local
<1> QED  BY <1>1, <1>3, <1>4, <1>5 DEF DupInv

\* A side's writer and its pending ack.
LEMMA HandStep ==
  ASSUME DupInv, NEW a \in Side, NEW p \in {None} \cup Nat, NEW w \in {"none", "data", "ack"},
         ep' = [ep EXCEPT ![a] = [@ EXCEPT !.pending = p, !.writing = w]],
         ep[a].task = "run", w = "data" => ep[a].outbox # <<>>, w = "ack" => p # None,
         p # None => p \in 1..ep[a].seq,
         UNCHANGED <<posted, outcome, delivered, inbox, wire, open, broken, offered, conns>>
  PROVE  DupInv'
<1> DEFINE s == [ep[a] EXCEPT !.pending = p, !.writing = w]
<1>1. TypeDup /\ ep[a] \in Endpoint(a) /\ DOMAIN ep = Side
  BY DEF DupInv, TypeDup
<1>2. s \in Endpoint(a)
  BY <1>1 DEF Endpoint
<1>3. /\ s.task = ep[a].task /\ s.conn = ep[a].conn /\ s.queue = ep[a].queue
      /\ s.outbox = ep[a].outbox /\ s.unacked = ep[a].unacked /\ s.acked = ep[a].acked
      /\ s.seq = ep[a].seq /\ s.ack = ep[a].ack /\ s.slot = ep[a].slot /\ s.hold = ep[a].hold
      /\ s.pending = p /\ s.writing = w
  BY <1>1 DEF Endpoint
<1>4. ep' = [ep EXCEPT ![a] = s]
  OBVIOUS
<1> HIDE DEF s
<1>5. DOMAIN ep' = Side /\ ep'[a] = s /\ \A e \in Side : e # a => ep'[e] = ep[e]
  BY <1>1, <1>4
<1>6. TypeDup'
  <2>1. \A e \in Side : ep'[e] \in Endpoint(e)
    BY <1>1, <1>2, <1>5 DEF TypeDup
  <2>2. Endpoint(a)' = Endpoint(a)
    BY DEF Endpoint
  <2> QED  BY <1>1, <1>5, <2>1 DEF TypeDup
<1>7. \A e \in Side : SameSide(e)
  BY <1>3, <1>5 DEF SameSide, SameTx, SameRx
<1>8. \A e \in Side : Ordered(e)' /\ Runs(e)' /\ Acked(e)' /\ Arrived(e)' /\ Flow(e)'
  BY <1>6, <1>7, SideKept
<1>9. Links'
  <2>1. ep'["A"].conn = ep["A"].conn
    BY <1>7 DEF SameSide, SameRx, Side
  <2> QED  BY <2>1 DEF DupInv, Links
<1>10. ASSUME NEW e \in Side PROVE Local(e)'
  <2>1. CASE e = a
    BY <2>1, <1>3, <1>5 DEF DupInv, Local
  <2>2. CASE e # a
    BY <2>2, <1>5 DEF DupInv, Local
  <2> QED  BY <2>1, <2>2
<1> QED  BY <1>6, <1>8, <1>9, <1>10 DEF DupInv

-----------------------------------------------------------------------------
(* The effect of a step on a side and on a connection.                     *)

\* The record of one side is replaced.
LEMMA SideSet ==
  ASSUME TypeDup, NEW a \in Side, NEW s \in Endpoint(a), ep' = [ep EXCEPT ![a] = s]
  PROVE  /\ DOMAIN ep' = Side /\ ep'[a] = s /\ ep'[Other(a)] = ep[Other(a)]
         /\ \A e \in Side : ep'[e] \in Endpoint(e)
<1>1. DOMAIN ep = Side /\ \A e \in Side : ep[e] \in Endpoint(e)
  BY DEF TypeDup
<1>2. ep'[a] = s /\ \A e \in Side : e # a => ep'[e] = ep[e]
  BY <1>1
<1>3. Other(a) \in Side /\ Other(a) # a
  BY Sides
<1>4. DOMAIN ep' = Side
  BY <1>1
<1>5. \A e \in Side : ep'[e] \in Endpoint(e)
  BY <1>1, <1>2
<1> QED  BY <1>2, <1>3, <1>4, <1>5

\* All the wires but one.
OtherWires(c, e) == \A d \in Conn, x \in Side : d # c \/ x # e => wire'[d][x] = wire[d][x]

TypeWire == /\ DOMAIN wire = Conn
            /\ \A c \in Conn : /\ DOMAIN wire[c] = Side
                               /\ \A e \in Side : wire[c][e] \in Seq(AnyFrame(e))

\* The content of one direction of a connection is replaced.
LEMMA WireSet ==
  ASSUME TypeDup, NEW c \in Conn, NEW e \in Side, NEW w \in Seq(AnyFrame(e)),
         wire' = [wire EXCEPT ![c][e] = w]
  PROVE  TypeWire' /\ wire'[c][e] = w /\ OtherWires(c, e)
<1>1. DOMAIN wire = Conn
      /\ \A d \in Conn : DOMAIN wire[d] = Side /\ \A x \in Side : wire[d][x] \in Seq(AnyFrame(x))
  BY DEF TypeDup
<1>2. DOMAIN wire' = Conn /\ wire'[c] = [wire[c] EXCEPT ![e] = w]
      /\ \A d \in Conn : d # c => wire'[d] = wire[d]
  BY <1>1
<1>3. DOMAIN wire'[c] = Side /\ wire'[c][e] = w /\ \A x \in Side : x # e => wire'[c][x] = wire[c][x]
  BY <1>1, <1>2
<1>4. OtherWires(c, e)
  BY <1>2, <1>3 DEF OtherWires
<1>5. ASSUME NEW d \in Conn
      PROVE  DOMAIN wire'[d] = Side /\ \A x \in Side : wire'[d][x] \in Seq(AnyFrame(x))
  <2>1. CASE d = c
    BY <2>1, <1>1, <1>3
  <2>2. CASE d # c
    BY <2>2, <1>1, <1>2
  <2> QED  BY <2>1, <2>2
<1> QED  BY <1>2, <1>3, <1>4, <1>5 DEF TypeWire

\* A frame of side b is read from c.
ReadFrom(c, b) == /\ wire[c][b] # <<>> /\ wire[c][b][1] # Torn
                  /\ wire' = [wire EXCEPT ![c][b] = Tail(@)]

LEMMA WireRead ==
  ASSUME TypeDup, NEW c \in Conn, NEW b \in Side, ReadFrom(c, b)
  PROVE  /\ TypeWire' /\ OtherWires(c, b) /\ wire'[c][b] = Tail(wire[c][b])
         /\ wire[c][b] \in Seq(AnyFrame(b)) /\ wire[c][b][1] \in AnyFrame(b)
         /\ Reaches(b, c)' => Reaches(b, c) \/ c \in broken
         /\ \A d \in Conn, x \in Side : \A i \in 1..Len(wire'[d][x]) :
              \E j \in 1..Len(wire[d][x]) : wire'[d][x][i] = wire[d][x][j]
<1> DEFINE w == wire[c][b]
<1>1. w \in Seq(AnyFrame(b)) /\ w # <<>> /\ w[1] # Torn /\ wire' = [wire EXCEPT ![c][b] = Tail(w)]
  BY DEF TypeDup, ReadFrom
<1>2. /\ Tail(w) \in Seq(AnyFrame(b)) /\ Len(w) \in Nat \ {0} /\ Len(Tail(w)) = Len(w) - 1
      /\ \A i \in 1..(Len(w) - 1) : Tail(w)[i] = w[i + 1]
      /\ w[1] \in AnyFrame(b)
  BY <1>1, Tailed
<1>3. TypeWire' /\ OtherWires(c, b) /\ wire'[c][b] = Tail(w)
  BY <1>1, <1>2, WireSet
<1>4. ASSUME NEW d \in Conn, NEW x \in Side, NEW i \in 1..Len(wire'[d][x])
      PROVE  \E j \in 1..Len(wire[d][x]) : wire'[d][x][i] = wire[d][x][j]
  <2>1. CASE d = c /\ x = b
    <3>1. i \in 1..(Len(w) - 1) /\ i + 1 \in 1..Len(w)
      BY <2>1, <1>2, <1>3
    <3>2. wire'[d][x][i] = w[i + 1]
      BY <2>1, <3>1, <1>2, <1>3
    <3> QED  BY <2>1, <3>1, <3>2
  <2>2. CASE ~(d = c /\ x = b)
    BY <2>2, <1>3 DEF OtherWires
  <2> QED  BY <2>1, <2>2
<1>5. ASSUME w[Len(w)] = Torn PROVE Tail(w) # <<>> /\ Tail(w)[Len(Tail(w))] = Torn
  <2>1. Len(w) # 1
    BY <1>1, <1>5
  <2>2. Len(w) - 1 \in 1..(Len(w) - 1) /\ (Len(w) - 1) + 1 = Len(w) /\ Len(w) - 1 # 0
    <3> DEFINE n == Len(w)
    <3>1. n \in Nat \ {0} /\ n # 1
      BY <2>1, <1>2
    <3> HIDE DEF n
    <3>2. n - 1 \in 1..(n - 1) /\ (n - 1) + 1 = n /\ n - 1 # 0
      BY <3>1
    <3> QED  BY <3>2 DEF n
  <2>3. Tail(w)[Len(w) - 1] = w[Len(w)]
    BY <2>2, <1>2
  <2>4. Tail(w) # <<>>
    <3> DEFINE v == Tail(w)
    <3>1. Len(v) # 0
      BY <2>2, <1>2
    <3> HIDE DEF v
    <3>2. v # <<>>
      BY <3>1
    <3> QED  BY <3>2 DEF v
  <2> QED  BY <2>3, <2>4, <1>2, <1>5
<1>6. Reaches(b, c)' => Reaches(b, c) \/ c \in broken
  BY <1>3, <1>5 DEF Reaches
<1> QED  BY <1>1, <1>2, <1>3, <1>4, <1>6

\* Side a writes a frame to c.
Wrote(a, c, f) == wire' = [wire EXCEPT ![c][a] = Arriving(a, c, <<f>>)]

LEMMA WireWritten ==
  ASSUME TypeDup, NEW c \in Conn, NEW a \in Side, NEW f \in AnyFrame(a), Wrote(a, c, f)
  PROVE  /\ TypeWire' /\ OtherWires(c, a) /\ wire[c][a] \in Seq(AnyFrame(a))
         /\ \/ wire'[c][a] = wire[c][a] /\ (open[c][Other(a)] => ~Reaches(a, c))
            \/ wire'[c][a] = Append(wire[c][a], f) /\ Reaches(a, c)
         /\ \A d \in Conn, x \in Side : \A i \in 1..Len(wire'[d][x]) :
              \/ \E j \in 1..Len(wire[d][x]) : wire'[d][x][i] = wire[d][x][j]
              \/ d = c /\ x = a /\ wire'[d][x][i] = f
<1> DEFINE w == wire[c][a]
           v == Arriving(a, c, <<f>>)
<1>1. w \in Seq(AnyFrame(a))
  BY DEF TypeDup
<1>2. /\ w \o <<f>> = Append(w, f) /\ Append(w, f) \in Seq(AnyFrame(a))
      /\ Len(w) \in Nat /\ Len(Append(w, f)) = Len(w) + 1
      /\ \A i \in 1..Len(w) : Append(w, f)[i] = w[i]
      /\ Append(w, f)[Len(w) + 1] = f
  BY <1>1, Appended
<1>3. \/ v = w /\ (open[c][Other(a)] => ~Reaches(a, c))
      \/ v = Append(w, f) /\ Reaches(a, c)
  BY <1>2 DEF Arriving, Reaches
<1>4. v \in Seq(AnyFrame(a))
  BY <1>1, <1>2, <1>3
<1>5. TypeWire' /\ OtherWires(c, a) /\ wire'[c][a] = v
  BY <1>4, WireSet DEF Wrote
<1> HIDE DEF v
<1>6. ASSUME NEW d \in Conn, NEW x \in Side, NEW i \in 1..Len(wire'[d][x])
      PROVE  \/ \E j \in 1..Len(wire[d][x]) : wire'[d][x][i] = wire[d][x][j]
             \/ d = c /\ x = a /\ wire'[d][x][i] = f
  <2>1. CASE d = c /\ x = a /\ v = Append(w, f)
    <3>1. i \in 1..Len(w) \/ i = Len(w) + 1
      BY <2>1, <1>2, <1>5
    <3> QED  BY <2>1, <3>1, <1>2, <1>5
  <2>2. CASE ~(d = c /\ x = a /\ v = Append(w, f))
    BY <2>2, <1>3, <1>5 DEF OtherWires
  <2> QED  BY <2>1, <2>2
<1> QED  BY <1>1, <1>3, <1>5, <1>6

\* What e wrote is read: what follows it is due.
LEMMA FlowRead ==
  ASSUME TypeDup, NEW e \in Side, NEW c \in Conn, FlowOn(e, c), ReadFrom(c, e), SameWrite(e),
         Live(Other(e), c)' => Live(Other(e), c) /\ Due(Other(e), c) \subseteq Due(Other(e), c)',
         wire[c][e][1].type = "data" => wire[c][e][1].seq + 1 \in Due(Other(e), c)',
         UNCHANGED broken, ep[e].task = "run" => Write(e) \in Nat
  PROVE  FlowOn(e, c)'
<1> DEFINE w == wire[c][e]
           due == Due(Other(e), c)
           more == Due(Other(e), c)'
<1> SUFFICES ASSUME Live(Other(e), c)'
             PROVE  /\ Stepwise(wire'[c][e], more)
                    /\ ep'[e].task = "run" /\ ep'[e].conn = c /\ Reaches(e, c)' =>
                         Follows(wire'[c][e], Len(wire'[c][e]), more, Write(e)')
  BY DEF FlowOn
<1>1. wire'[c][e] = Tail(w) /\ w \in Seq(AnyFrame(e)) /\ w # <<>> /\ due \subseteq more
      /\ (Reaches(e, c)' => Reaches(e, c) \/ c \in broken)
  BY WireRead DEF ReadFrom
<1>2. Stepwise(w, due) /\ (ep[e].task = "run" /\ ep[e].conn = c /\ Reaches(e, c) =>
                             Follows(w, Len(w), due, Write(e)))
  BY DEF FlowOn
<1> HIDE DEF w, due, more
<1>3. Stepwise(Tail(w), more)
      /\ (ep[e].task = "run" /\ Follows(w, Len(w), due, Write(e)) =>
            Follows(Tail(w), Len(Tail(w)), more, Write(e)))
  <2>1. w[1].type = "data" => w[1].seq + 1 \in more
    BY DEF w, more
  <2> QED  BY <2>1, <1>1, <1>2, StepwiseTail
<1>4. Reaches(e, c)' => Reaches(e, c)
  BY <1>1 DEF Reaches
<1> QED  BY <1>1, <1>2, <1>3, <1>4 DEF SameWrite

\* Side e writes a frame that is no message.
LEMMA FlowWritten ==
  ASSUME TypeDup, NEW e \in Side, NEW c \in Conn, FlowOn(e, c), NEW f \in AnyFrame(e),
         f.type # "data", SameRx(Other(e)),
         open'[c][Other(e)] <=> open[c][Other(e)],
         ep'[e].task = "run" => SameWrite(e) /\ Write(e) \in Nat, UNCHANGED broken,
         \/ wire'[c][e] = wire[c][e]
         \/ wire'[c][e] = Append(wire[c][e], f) /\ Reaches(e, c)
  PROVE  FlowOn(e, c)'
<1> DEFINE w == wire[c][e]
           due == Due(Other(e), c)
<1>1. Due(Other(e), c)' = due /\ (Live(Other(e), c)' <=> Live(Other(e), c))
  BY Sides, DueKept
<1> SUFFICES ASSUME Live(Other(e), c)'
             PROVE  /\ Stepwise(wire'[c][e], due)
                    /\ ep'[e].task = "run" /\ ep'[e].conn = c /\ Reaches(e, c)' =>
                         Follows(wire'[c][e], Len(wire'[c][e]), due, Write(e)')
  BY <1>1 DEF FlowOn
<1>2. Stepwise(w, due) /\ (ep[e].task = "run" /\ ep[e].conn = c /\ Reaches(e, c) =>
                             Follows(w, Len(w), due, Write(e)))
  BY <1>1 DEF FlowOn
<1>3. w \in Seq(AnyFrame(e))
  BY DEF TypeDup
<1>4. CASE wire'[c][e] = w
  <2>1. Reaches(e, c)' => Reaches(e, c)
    BY <1>4 DEF Reaches
  <2> QED  BY <2>1, <1>2, <1>4 DEF SameWrite
<1>5. CASE wire'[c][e] = Append(w, f) /\ Reaches(e, c)
  <2> HIDE DEF w, due
  <2>1. Stepwise(Append(w, f), due)
        /\ (Write(e) \in Nat /\ Follows(w, Len(w), due, Write(e)) =>
              Follows(Append(w, f), Len(Append(w, f)), due, Write(e)))
    BY <1>2, <1>3, StepwiseAppend
  <2> QED  BY <2>1, <1>2, <1>5 DEF SameWrite
<1> QED  BY <1>4, <1>5

-----------------------------------------------------------------------------
(* Reading.                                                                *)

\* The connection of a side that runs.
LEMMA RunFacts ==
  ASSUME DupInv, NEW a \in Side, ep[a].task \in {"run", "clean", "close"}
  PROVE  /\ ep[a].conn \in Conn /\ ep[a].conn \in 1..conns /\ open[ep[a].conn][a]
         /\ ep[a].task = "run" => Live(a, ep[a].conn)
         /\ wire[ep[a].conn][Other(a)] \in Seq(AnyFrame(Other(a)))
<1>1. ep[a].conn \in 1..conns /\ open[ep[a].conn][a] /\ conns \in 0..MaxConns
  BY DEF DupInv, TypeDup, Local
<1>2. ep[a].conn \in Conn
  BY <1>1, BoundsAssumption DEF Conn
<1>3. wire[ep[a].conn][Other(a)] \in Seq(AnyFrame(Other(a)))
  BY <1>2, Sides DEF DupInv, TypeDup
<1> QED  BY <1>1, <1>2, <1>3 DEF Live

\* The next number a running side writes is a number.
LEMMA WriteNat ==
  ASSUME DupInv, NEW e \in Side, ep[e].task # "ended"
  PROVE  /\ Write(e) \in Nat /\ First(e) \in Nat /\ Write(e) = First(e) + Len(ep[e].unacked)
         /\ Write(e) + Len(ep[e].outbox) + Len(ep[e].queue) = posted[e]
<1>1. First(e) \in Nat
  <2>1. First(e) \in 0..ep[Other(e)].seq /\ ep[Other(e)].seq \in Nat
    BY Sides, EndpointFacts DEF DupInv, Runs
  <2> QED  BY <2>1
<1> DEFINE p == posted[e]
           q == Len(ep[e].queue)
           x == Len(ep[e].outbox)
           u == Len(ep[e].unacked)
<1>2. p \in Nat /\ q \in Nat /\ x \in Nat /\ u \in Nat
  BY EndpointFacts DEF DupInv
<1>3. First(e) = p - q - x - u /\ Write(e) = p - q - x
  BY DEF First, Write
<1> HIDE DEF p, q, x, u
<1>4. Write(e) \in Nat /\ Write(e) = First(e) + u /\ Write(e) + x + q = p
  BY <1>1, <1>2, <1>3
<1> QED  BY <1>1, <1>4 DEF p, q, x, u

\* The frame that is read is the head of what the other side wrote, or in the slot.
LEMMA FrameRead ==
  ASSUME DupInv, NEW a \in Side, Running(a), Frame(a) # NoFrame, Frame(a) # Torn, Read(a)
  PROVE  LET b == Other(a)
             c == ep[a].conn
         IN  \/ /\ ep[a].slot = NoFrame /\ ReadFrom(c, b) /\ Frame(a) = wire[c][b][1]
                /\ Frame(a) \in AnyFrame(b) /\ wire[c][b] # <<>>
             \/ /\ ep[a].slot # NoFrame /\ UNCHANGED wire /\ Frame(a) = ep[a].slot
                /\ Frame(a) \in DataFrame(b) /\ Frame(a).type = "data"
<1> DEFINE b == Other(a)
           c == ep[a].conn
           w == wire[c][b]
<1>1. c \in Conn /\ w \in Seq(AnyFrame(b)) /\ b \in Side
  BY RunFacts, Sides DEF Running
<1>2. CASE ep[a].slot = NoFrame
  <2>1. w # <<>> /\ Frame(a) = Head(w)
    BY <1>2 DEF Frame, Incoming
  <2>2. Head(w) = w[1] /\ w[1] \in AnyFrame(b)
    BY <1>1, <2>1, Tailed
  <2>3. wire' = [wire EXCEPT ![c][b] = Tail(@)]
    BY <1>2 DEF Read
  <2> QED  BY <1>2, <2>1, <2>2, <2>3 DEF ReadFrom
<1>3. CASE ep[a].slot # NoFrame
  <2>1. Frame(a) = ep[a].slot /\ wire' = wire
    BY <1>3 DEF Frame, Read
  <2>2. ep[a].slot \in DataFrame(b) /\ ep[a].slot.type = "data"
    BY <1>3, EndpointFacts DEF DupInv
  <2> QED  BY <1>3, <2>1, <2>2
<1> QED  BY <1>2, <1>3

\* No number is ahead of a side whose hand is empty.
LEMMA FrameDue ==
  ASSUME DupInv, NEW a \in Side, Running(a), Frame(a).type = "data", Frame(a) # NoFrame,
         ep[a].slot = NoFrame => wire[ep[a].conn][Other(a)] # <<>>
  PROVE  /\ Frame(a).seq \in Nat /\ Frame(a).seq < posted[Other(a)]
         /\ Frame(a).seq <= ep[a].seq + (IF ep[a].hold = None THEN 0 ELSE 1)
<1> DEFINE b == Other(a)
           c == ep[a].conn
           w == wire[c][b]
<1>1. /\ c \in Conn /\ w \in Seq(AnyFrame(b)) /\ b \in Side /\ Live(a, c) /\ Other(b) = a
      /\ ep[a].seq \in Nat
  BY RunFacts, Sides, EndpointFacts DEF Running, DupInv
<1>2. Arrived(b) /\ Flow(b)
  BY <1>1 DEF DupInv
<1>3. CASE ep[a].slot # NoFrame
  <2>1. Frame(a) = ep[a].slot /\ ep[a].slot.seq \in Nat
    BY <1>3, EndpointFacts DEF Frame, DupInv
  <2> QED  BY <1>1, <1>2, <1>3, <2>1 DEF Arrived
<1>4. CASE ep[a].slot = NoFrame
  <2>1. w # <<>> /\ Frame(a) = w[1] /\ w[1] \in AnyFrame(b) /\ 1 \in 1..Len(w)
    BY <1>1, <1>4, Tailed DEF Frame, Incoming
  <2>2. w[1].seq \in Nat /\ w[1].type = "data"
    BY <1>1, <2>1, FrameFacts
  <2>3. w[1].seq < posted[b]
    BY <1>1, <1>2, <2>1, <2>2 DEF Arrived
  <2>4. Stepwise(w, Due(a, c))
    BY <1>1, <1>2 DEF Flow, FlowOn
  <2>5. Follows(w, 1 - 1, Due(a, c), w[1].seq)
    BY <2>1, <2>2, <2>4 DEF Stepwise
  <2>6. w[1].seq \in Due(a, c)
    BY <2>5 DEF Follows
  <2>7. w[1].seq <= ep[a].seq \/ (ep[a].hold # None /\ w[1].seq <= ep[a].seq + 1)
    BY <1>4, <2>6 DEF Due
  <2> QED  BY <1>1, <2>1, <2>2, <2>3, <2>7
<1> QED  BY <1>3, <1>4

\* What side a has in hand and in the slot, and the number it expects, from now on.
Took(a, h, sl, n) == ep' = [ep EXCEPT ![a] = [@ EXCEPT !.hold = h, !.slot = sl, !.seq = n]]

\* A side that runs takes a frame, or has its message delivered.
LEMMA RxStep ==
  ASSUME DupInv, NEW a \in Side, ep[a].task = "run", NEW h \in {None} \cup Nat,
         NEW sl \in {NoFrame} \cup DataFrame(Other(a)), NEW n \in Nat,
         Took(a, h, sl, n),
         n >= ep[a].seq, n <= posted[Other(a)], h # None => h = n /\ n < posted[Other(a)],
         sl # NoFrame => /\ sl.seq < posted[Other(a)]
                         /\ sl.seq <= n + (IF h = None THEN 0 ELSE 1),
         \/ UNCHANGED wire
         \/ /\ ReadFrom(ep[a].conn, Other(a))
            /\ wire[ep[a].conn][Other(a)][1].type = "data" =>
                 wire[ep[a].conn][Other(a)][1].seq + 1 \in Due(a, ep[a].conn)',
         Due(a, ep[a].conn) \subseteq Due(a, ep[a].conn)',
         delivered' \in [Side -> Seq(Nat)], delivered'[Other(a)] = delivered[Other(a)],
         n = Len(delivered'[a]), \A i \in 1..Len(delivered'[a]) : delivered'[a][i] = i - 1,
         inbox' \in [Side -> 0..InboxCap],
         UNCHANGED <<posted, outcome, open, broken, offered, conns>>
  PROVE  DupInv'
<1> DEFINE b == Other(a)
           c == ep[a].conn
           s == [ep[a] EXCEPT !.hold = h, !.slot = sl, !.seq = n]
<1>1. /\ b \in Side /\ b # a /\ Other(b) = a /\ (\A d \in Side : d = a \/ d = b)
      /\ c \in Conn /\ Live(a, c)
  BY Sides, RunFacts
<1>2. /\ TypeDup /\ Links /\ ep[a] \in Endpoint(a) /\ ep[a].seq \in Nat
      /\ Local(a) /\ Ordered(a) /\ Runs(a) /\ Acked(a) /\ Arrived(a) /\ Flow(a)
      /\ Local(b) /\ Ordered(b) /\ Runs(b) /\ Acked(b) /\ Arrived(b) /\ Flow(b)
  BY <1>1, EndpointFacts DEF DupInv, TypeDup
<1>3. s \in Endpoint(a)
  BY <1>2 DEF Endpoint
<1>4. /\ s.task = ep[a].task /\ s.conn = ep[a].conn /\ s.queue = ep[a].queue
      /\ s.outbox = ep[a].outbox /\ s.unacked = ep[a].unacked /\ s.acked = ep[a].acked
      /\ s.ack = ep[a].ack /\ s.pending = ep[a].pending /\ s.writing = ep[a].writing
      /\ s.hold = h /\ s.slot = sl /\ s.seq = n
  BY <1>2 DEF Endpoint
<1>5. ep' = [ep EXCEPT ![a] = s]
  BY DEF Took
<1> HIDE DEF s
<1>6. DOMAIN ep' = Side /\ ep'[a] = s /\ ep'[b] = ep[b] /\ \A e \in Side : ep'[e] \in Endpoint(e)
  BY <1>2, <1>3, <1>5, SideSet
<1>7. /\ TypeWire' /\ (\A d \in Conn : wire'[d][a] = wire[d][a])
      /\ (\A d \in Conn : d # c => wire'[d][b] = wire[d][b])
      /\ \A d \in Conn, x \in Side : \A i \in 1..Len(wire'[d][x]) :
           \E j \in 1..Len(wire[d][x]) : wire'[d][x][i] = wire[d][x][j]
  <2>1. CASE UNCHANGED wire
    BY <2>1, <1>2 DEF TypeWire, TypeDup
  <2>2. CASE ReadFrom(c, b)
    <3>1. OtherWires(c, b) /\ TypeWire'
          /\ \A d \in Conn, x \in Side : \A i \in 1..Len(wire'[d][x]) :
               \E j \in 1..Len(wire[d][x]) : wire'[d][x][i] = wire[d][x][j]
      BY <2>2, <1>1, <1>2, WireRead
    <3> QED  BY <3>1, <1>1 DEF OtherWires
  <2> QED  BY <2>1, <2>2
<1>8. TypeDup'
  BY <1>2, <1>6, <1>7 DEF TypeDup, TypeWire
<1>9. SameTx(a) /\ SameTx(b) /\ SameRx(b) /\ SameWrite(a) /\ SameWrite(b)
  BY <1>4, <1>6 DEF SameTx, SameRx, SameWrite, Write
<1>10. ep'[a].seq = n /\ ep'[b].seq = ep[b].seq /\ ep[b].seq \in Nat
  BY <1>1, <1>2, <1>4, <1>6, EndpointFacts
<1>11. Links'
  <2>1. ep'["A"].conn = ep["A"].conn
    BY <1>1, <1>4, <1>6 DEF Side
  <2>2. \A d \in Conn, e \in Side : d > conns => wire'[d][e] = <<>>
    <3> SUFFICES ASSUME NEW d \in Conn, NEW e \in Side, d > conns PROVE wire'[d][e] = <<>>
      OBVIOUS
    <3>1. wire[d][e] = <<>>
      BY <1>2 DEF Links
    <3>2. d # c
      <4>1. c \in 1..conns /\ conns \in Nat /\ d \in Nat
        <5>1. c \in 1..conns
          BY RunFacts
        <5>2. conns \in 0..MaxConns /\ d \in 1..MaxConns
          BY <1>2 DEF TypeDup, Conn
        <5> QED  BY <5>1, <5>2, BoundsAssumption
      <4> QED  BY <4>1
    <3> QED  BY <3>1, <3>2, <1>1, <1>7
  <2> QED  BY <2>1, <2>2, <1>2 DEF Links
<1>12. Local(a)' /\ Local(b)'
  <2>1. Local(b)'
    BY <1>2, <1>6 DEF Local
  <2>2. ep[a].ack <= n /\ (ep[a].pending # None => ep[a].pending \in 1..n)
    <3>1. /\ ep[a].ack <= ep[a].seq
          /\ ep[a].pending # None => ep[a].pending \in 1..ep[a].seq
      BY <1>2 DEF Local
    <3>2. ep[a].ack \in Nat /\ ep[a].seq \in Nat
      BY EndpointFacts, <1>2
    <3> QED  BY <3>1, <3>2
  <2> QED  BY <2>1, <2>2, <1>2, <1>4, <1>6 DEF Local
<1>13. Ordered(a)' /\ Ordered(b)'
  BY <1>2, <1>4, <1>6 DEF Ordered
<1>14. Runs(a)' /\ Runs(b)'
  <2>1. Runs(a)'
    BY <1>2, <1>8, <1>9, <1>10, RunsKept
  <2>2. Runs(b)'
    BY <1>1, <1>2, <1>8, <1>9, <1>10, RunsKept
  <2> QED  BY <2>1, <2>2
<1>15. Acked(a)' /\ Acked(b)'
  <2>1. ep'[a].acked = ep[a].acked /\ ep'[b].acked = ep[b].acked /\ outcome' = outcome
    BY <1>9 DEF SameTx
  <2>2. Acked(a)'
    <3>1. \A d \in Conn : \A i \in 1..Len(wire'[d][b]) :
            \E j \in 1..Len(wire[d][b]) : wire'[d][b][i] = wire[d][b][j]
      BY <1>1, <1>7
    <3>2. ep'[b].seq >= ep[b].seq
      BY <1>10
    <3> QED  BY <1>1, <1>2, <1>8, <2>1, <3>1, <3>2, AckedKept
  <2>3. Acked(b)'
    BY <1>1, <1>2, <1>7, <1>8, <1>10, <2>1, AckedKept
  <2> QED  BY <2>2, <2>3
<1>16. Arrived(a)'
  BY <1>1, <1>2, <1>7, <1>9, ArrivedKept
<1>17. Arrived(b)'
  <2>1. ASSUME NEW d \in Conn, NEW i \in 1..Len(wire'[d][b]), wire'[d][b][i].type = "data"
        PROVE  wire'[d][b][i].seq < posted[b]
    <3>1. PICK j \in 1..Len(wire[d][b]) : wire'[d][b][i] = wire[d][b][j]
      BY <1>1, <1>7
    <3> QED  BY <3>1, <1>2, <2>1 DEF Arrived
  <2> QED  BY <2>1, <1>1, <1>4, <1>6 DEF Arrived
<1>18. Flow(a)'
  BY <1>1, <1>2, <1>7, <1>9, FlowSame
<1>19. Flow(b)'
  <2> SUFFICES ASSUME NEW d \in Conn PROVE FlowOn(b, d)'
    BY DEF Flow
  <2>1. FlowOn(b, d)
    BY <1>2 DEF Flow
  <2>2. Live(a, d)' => Live(a, d)
    BY <1>4, <1>6 DEF Live
  <2>3. Due(a, d) \subseteq Due(a, d)'
    <3>1. CASE d = c
      <4>1. ep'[a].conn = ep[a].conn
        BY <1>4, <1>6
      <4> QED  BY <3>1, <4>1
    <3>2. CASE d # c
      <4>1. \A x \in Int : x <= ep[a].seq => x <= n
        BY <1>2
      <4> QED  BY <3>2, <4>1, <1>4, <1>6 DEF Due
    <3> QED  BY <3>1, <3>2
  <2>4. CASE wire'[d][b] = wire[d][b]
    BY <2>1, <2>2, <2>3, <2>4, <1>1, <1>9, FlowKept DEF SameWrite
  <2>5. CASE wire'[d][b] # wire[d][b]
    <3>1. d = c /\ ReadFrom(c, b) /\ (wire[c][b][1].type = "data" =>
                                        wire[c][b][1].seq + 1 \in Due(a, c)')
      BY <2>5, <1>7
    <3>2. ep[b].task = "run" => Write(b) \in Nat
      BY <1>1, WriteNat
    <3>3. ep'[a].conn = ep[a].conn /\ UNCHANGED broken
      BY <1>4, <1>6
    <3>4. wire[d][b][1].type = "data" => wire[d][b][1].seq + 1 \in Due(a, d)'
      BY <3>1, <3>3
    <3>5. ReadFrom(d, b) /\ SameWrite(b) /\ TypeDup
      BY <3>1, <1>2, <1>9
    <3> QED  BY <3>2, <3>3, <3>4, <3>5, <2>1, <2>2, <2>3, <1>1, FlowRead
  <2> QED  BY <2>4, <2>5
<1> QED  BY <1>1, <1>8, <1>11, <1>12, <1>13, <1>14, <1>15, <1>16, <1>17, <1>18, <1>19 DEF DupInv


\* A frame goes into the slot while the hand is full.
LEMMA FetchStep ==
  ASSUME DupInv, NEW a \in Side, Fetch(a) PROVE DupInv'
<1> DEFINE b == Other(a)
           c == ep[a].conn
           f == Frame(a)
<1>1. Running(a) /\ f.type = "data" /\ ep[a].slot = NoFrame /\ ep[a].hold # None /\ Read(a)
      /\ ep' = [ep EXCEPT ![a].slot = f]
      /\ UNCHANGED <<posted, outcome, delivered, inbox, open, broken, offered, conns>>
  BY DEF Fetch, Holds, Idle, appVars, linkVars
<1>2. f # NoFrame /\ f # Torn
  BY <1>1, FrameTypes
<1>3. /\ ReadFrom(c, b) /\ f = wire[c][b][1] /\ f \in AnyFrame(b) /\ wire[c][b] # <<>>
  BY <1>1, <1>2, FrameRead
<1>4. f.seq \in Nat /\ f.seq < posted[b] /\ f.seq <= ep[a].seq + 1
  BY <1>1, <1>2, <1>3, FrameDue
<1>5. f \in DataFrame(b) /\ b \in Side
  BY <1>1, <1>3, Sides, FrameFacts
<1> HIDE DEF f
<1>6. /\ TypeDup /\ ep[a] \in Endpoint(a) /\ DOMAIN ep = Side /\ ep[a].seq \in Nat
      /\ ep[a].hold \in {None} \cup Nat /\ Arrived(b) /\ Ordered(a) /\ Other(b) = a
  BY <1>5, Sides, EndpointFacts DEF DupInv, TypeDup
<1>7. ep' = [ep EXCEPT ![a] = [@ EXCEPT !.hold = ep[a].hold, !.slot = f, !.seq = ep[a].seq]]
  <2>1. [ep[a] EXCEPT !.hold = ep[a].hold, !.slot = f, !.seq = ep[a].seq] = [ep[a] EXCEPT !.slot = f]
    BY <1>6 DEF Endpoint
  <2> QED  BY <1>1, <2>1
<1>8. ep'[a].conn = c /\ ep'[a].hold = ep[a].hold /\ ep'[a].slot = f /\ ep'[a].seq = ep[a].seq
  BY <1>1, <1>6 DEF Endpoint
<1>9. Due(a, c) \subseteq Due(a, c)' /\ f.seq + 1 \in Due(a, c)'
  <2>1. Due(a, c) \subseteq Due(a, c)'
    BY <1>1, <1>8 DEF Due
  <2>2. f.seq + 1 \in Int /\ f.seq + 1 <= f.seq + 1
    BY <1>4
  <2>3. f.seq + 1 \in Due(a, c)'
    BY <1>2, <1>8, <2>2 DEF Due
  <2> QED  BY <2>1, <2>3
<1>10. ep[a].seq <= posted[b] /\ ep[a].hold = ep[a].seq /\ ep[a].seq < posted[b]
  BY <1>1, <1>6 DEF Arrived
<1>11. /\ delivered' \in [Side -> Seq(Nat)] /\ inbox' \in [Side -> 0..InboxCap]
       /\ ep[a].seq = Len(delivered'[a]) /\ \A i \in 1..Len(delivered'[a]) : delivered'[a][i] = i - 1
  BY <1>1, <1>6 DEF TypeDup, Ordered
<1>12. ep[a].task = "run" /\ f \in {NoFrame} \cup DataFrame(b) /\ ep[a].seq >= ep[a].seq
       /\ delivered'[b] = delivered[b] /\ ep[a].seq \in Nat /\ ep[a].hold \in {None} \cup Nat
  BY <1>1, <1>5, <1>6 DEF Running
<1>13. ep[a].hold # None => ep[a].hold = ep[a].seq /\ ep[a].seq < posted[b]
  BY <1>10
<1>14. f # NoFrame => /\ f.seq < posted[b]
                      /\ f.seq <= ep[a].seq + (IF ep[a].hold = None THEN 0 ELSE 1)
  BY <1>1, <1>4
<1>15. ReadFrom(c, b) /\ (wire[c][b][1].type = "data" => wire[c][b][1].seq + 1 \in Due(a, c)')
  BY <1>3, <1>9
<1>16. UNCHANGED <<posted, outcome, open, broken, offered, conns>> /\ ep[a].seq <= posted[b]
       /\ Due(a, c) \subseteq Due(a, c)'
  BY <1>1, <1>9, <1>10
<1>17. Took(a, ep[a].hold, f, ep[a].seq)
  BY <1>7 DEF Took
<1> QED  BY <1>11, <1>12, <1>13, <1>14, <1>15, <1>16, <1>17, RxStep

\* A message is taken in hand, or a retransmission is left.
LEMMA TakeDataStep ==
  ASSUME DupInv, NEW a \in Side, TakeData(a) PROVE DupInv'
<1> DEFINE b == Other(a)
           c == ep[a].conn
           f == Frame(a)
           h == IF f.seq < ep[a].seq THEN None ELSE f.seq
<1>1. Running(a) /\ f.type = "data" /\ ep[a].hold = None /\ Read(a)
      /\ ep' = [ep EXCEPT ![a].hold = h, ![a].slot = NoFrame]
      /\ UNCHANGED <<posted, outcome, delivered, inbox, open, broken, offered, conns>>
  BY DEF TakeData, Holds, IsRetransmit, Idle, appVars, linkVars
<1>2. f # NoFrame /\ f # Torn /\ ep[a].task = "run"
  BY <1>1, FrameTypes DEF Running
<1>3. \/ ep[a].slot = NoFrame /\ ReadFrom(c, b) /\ f = wire[c][b][1] /\ wire[c][b] # <<>>
      \/ ep[a].slot # NoFrame /\ UNCHANGED wire /\ f = ep[a].slot
  BY <1>1, <1>2, FrameRead
<1>4. f.seq \in Nat /\ f.seq < posted[b] /\ f.seq <= ep[a].seq
  <2>1. f.seq \in Nat /\ f.seq < posted[b] /\ f.seq <= ep[a].seq + 0
    BY <1>1, <1>2, <1>3, FrameDue
  <2>2. ep[a].seq \in Nat
    BY EndpointFacts DEF DupInv
  <2> QED  BY <2>1, <2>2
<1> HIDE DEF f
<1>5. /\ TypeDup /\ ep[a] \in Endpoint(a) /\ DOMAIN ep = Side /\ ep[a].seq \in Nat
      /\ Arrived(b) /\ Ordered(a) /\ Other(b) = a /\ b \in Side
  BY Sides, EndpointFacts DEF DupInv, TypeDup
<1>6. h \in {None} \cup Nat /\ (h # None => h = ep[a].seq /\ ep[a].seq < posted[b] /\ f.seq = ep[a].seq)
      /\ (h = None => f.seq < ep[a].seq)
  BY <1>4, <1>5 DEF None
<1> HIDE DEF h
<1>7. ep' = [ep EXCEPT ![a] = [@ EXCEPT !.hold = h, !.slot = NoFrame, !.seq = ep[a].seq]]
  <2>1. [ep[a] EXCEPT !.hold = h, !.slot = NoFrame, !.seq = ep[a].seq]
          = [ep[a] EXCEPT !.hold = h, !.slot = NoFrame]
    BY <1>5 DEF Endpoint
  <2>2. ep' = [ep EXCEPT ![a] = [ep[a] EXCEPT !.hold = h, !.slot = NoFrame]]
    BY <1>1, <1>5
  <2> QED  BY <2>1, <2>2
<1>8. ep'[a].conn = c /\ ep'[a].hold = h /\ ep'[a].slot = NoFrame /\ ep'[a].seq = ep[a].seq
  BY <1>5, <1>7 DEF Endpoint
<1>9. f.seq + 1 \in Due(a, c)'
  <2>1. CASE h = None
    <3>1. f.seq + 1 <= ep[a].seq /\ f.seq + 1 \in Int
      BY <2>1, <1>4, <1>5, <1>6
    <3> QED  BY <3>1, <1>8 DEF Due
  <2>2. CASE h # None
    <3>1. f.seq + 1 <= ep[a].seq + 1 /\ f.seq + 1 \in Int
      BY <2>2, <1>4, <1>5, <1>6
    <3> QED  BY <2>2, <3>1, <1>8 DEF Due
  <2> QED  BY <2>1, <2>2
<1>10. Due(a, c) \subseteq Due(a, c)'
  <2> SUFFICES ASSUME NEW x \in Due(a, c) PROVE x \in Due(a, c)'
    OBVIOUS
  <2>1. CASE x <= ep[a].seq
    BY <2>1, <1>8 DEF Due
  <2>2. CASE ~(x <= ep[a].seq)
    <3>1. ep[a].slot # NoFrame /\ x <= ep[a].slot.seq + 1 /\ x \in Int
      BY <2>2, <1>1 DEF Due
    <3>2. f = ep[a].slot /\ x <= f.seq + 1
      BY <3>1, <1>3
    <3>3. h # None /\ x <= ep[a].seq + 1
      BY <2>2, <3>1, <3>2, <1>4, <1>5, <1>6
    <3> QED  BY <3>1, <3>3, <1>8 DEF Due
  <2> QED  BY <2>1, <2>2
<1>11. ep[a].seq <= posted[b] /\ delivered'[b] = delivered[b]
  BY <1>1, <1>5 DEF Arrived
<1>12. /\ delivered' \in [Side -> Seq(Nat)] /\ inbox' \in [Side -> 0..InboxCap]
       /\ ep[a].seq = Len(delivered'[a]) /\ \A i \in 1..Len(delivered'[a]) : delivered'[a][i] = i - 1
  BY <1>1, <1>5 DEF TypeDup, Ordered
<1>13. \/ UNCHANGED wire
       \/ ReadFrom(c, b) /\ (wire[c][b][1].type = "data" => wire[c][b][1].seq + 1 \in Due(a, c)')
  BY <1>3, <1>9
<1>14. ep[a].seq >= ep[a].seq /\ NoFrame \in {NoFrame} \cup DataFrame(b) /\ ep[a].seq \in Nat
       /\ h \in {None} \cup Nat
  BY <1>5, <1>6
<1>15. h # None => h = ep[a].seq /\ ep[a].seq < posted[b]
  BY <1>6
<1>16. NoFrame # NoFrame => /\ NoFrame.seq < posted[b]
                            /\ NoFrame.seq <= ep[a].seq + (IF h = None THEN 0 ELSE 1)
  OBVIOUS
<1>17. ep[a].task = "run" /\ UNCHANGED <<posted, outcome, open, broken, offered, conns>>
  BY <1>1, <1>2
<1>18. Took(a, h, NoFrame, ep[a].seq)
  BY <1>7 DEF Took
<1> QED  BY <1>10, <1>11, <1>12, <1>13, <1>14, <1>15, <1>16, <1>17, <1>18, RxStep

\* The message in hand is delivered.

LEMMA DeliverStep ==
  ASSUME DupInv, NEW a \in Side, Deliver(a) PROVE DupInv'
<1> DEFINE b == Other(a)
           c == ep[a].conn
           n == ep[a].seq + 1
<1>1. Running(a) /\ ep[a].hold # None /\ inbox[a] < InboxCap
      /\ inbox' = [inbox EXCEPT ![a] = @ + 1]
      /\ delivered' = [delivered EXCEPT ![a] = Append(@, ep[a].hold)]
      /\ ep' = [ep EXCEPT ![a].seq = ep[a].hold + 1, ![a].hold = None]
      /\ UNCHANGED <<wire, posted, outcome, open, broken, offered, conns>>
  BY DEF Deliver, Idle, appVars, linkVars
<1>2. /\ TypeDup /\ ep[a] \in Endpoint(a) /\ DOMAIN ep = Side /\ ep[a].seq \in Nat
      /\ Arrived(b) /\ Ordered(a) /\ Other(b) = a /\ b \in Side /\ b # a /\ posted[b] \in Nat
      /\ ep[a].slot \in {NoFrame} \cup DataFrame(b)
      /\ (ep[a].slot # NoFrame => ep[a].slot.seq \in Nat)
  BY Sides, EndpointFacts DEF DupInv, TypeDup
<1>3. /\ ep[a].hold = ep[a].seq /\ ep[a].seq < posted[b]
      /\ (ep[a].slot # NoFrame => ep[a].slot.seq < posted[b] /\ ep[a].slot.seq <= ep[a].seq + 1)
  BY <1>1, <1>2 DEF Arrived
<1>4. n \in Nat /\ n >= ep[a].seq /\ n <= posted[b]
      /\ (ep[a].slot # NoFrame => ep[a].slot.seq <= n + 0)
  BY <1>2, <1>3
<1>5. ep' = [ep EXCEPT ![a] = [@ EXCEPT !.hold = None, !.slot = ep[a].slot, !.seq = n]]
  <2>1. [ep[a] EXCEPT !.hold = None, !.slot = ep[a].slot, !.seq = n]
          = [ep[a] EXCEPT !.seq = n, !.hold = None]
    BY <1>2 DEF Endpoint
  <2>2. ep' = [ep EXCEPT ![a] = [ep[a] EXCEPT !.seq = n, !.hold = None]]
    BY <1>1, <1>2, <1>3
  <2> QED  BY <2>1, <2>2
<1>6. ep'[a].conn = c /\ ep'[a].hold = None /\ ep'[a].slot = ep[a].slot /\ ep'[a].seq = n
  BY <1>2, <1>5 DEF Endpoint
<1>7. Due(a, c) \subseteq Due(a, c)'
  <2> SUFFICES ASSUME NEW x \in Due(a, c) PROVE x \in Due(a, c)'
    OBVIOUS
  <2>1. x \in Int /\ (x <= ep[a].seq => x <= n)
    BY <1>2 DEF Due
  <2> QED  BY <2>1, <1>6 DEF Due
<1>8. /\ delivered \in [Side -> Seq(Nat)] /\ inbox \in [Side -> 0..InboxCap]
      /\ ep[a].seq = Len(delivered[a]) /\ \A i \in 1..Len(delivered[a]) : delivered[a][i] = i - 1
  BY <1>2 DEF TypeDup, Ordered
<1>9. inbox' \in [Side -> 0..InboxCap]
  <2>1. inbox[a] + 1 \in 0..InboxCap
    BY <1>1, <1>8, BoundsAssumption
  <2> QED  BY <1>1, <1>8, <2>1
<1>10. delivered'[a] = Append(delivered[a], ep[a].seq) /\ delivered'[b] = delivered[b]
  BY <1>1, <1>2, <1>3, <1>8
<1>11. delivered' \in [Side -> Seq(Nat)]
  BY <1>1, <1>2, <1>3, <1>8
<1>12. n = Len(delivered'[a]) /\ \A i \in 1..Len(delivered'[a]) : delivered'[a][i] = i - 1
  <2> DEFINE u == delivered[a]
             v == Append(u, ep[a].seq)
  <2>1. /\ Len(v) = Len(u) + 1 /\ v[Len(u) + 1] = ep[a].seq /\ Len(u) \in Nat
        /\ \A i \in 1..Len(u) : v[i] = u[i]
    BY <1>2, <1>8, Appended
  <2> HIDE DEF v
  <2>2. ASSUME NEW i \in 1..Len(v) PROVE v[i] = i - 1
    <3>1. i \in 1..Len(u) \/ i = Len(u) + 1
      BY <2>1
    <3>2. CASE i \in 1..Len(u)
      BY <3>2, <2>1, <1>8
    <3>3. CASE i = Len(u) + 1
      BY <3>3, <2>1, <1>8
    <3> QED  BY <3>1, <3>2, <3>3
  <2>3. n = Len(v)
    BY <2>1, <1>8
  <2> QED  BY <2>2, <2>3, <1>10 DEF v
<1>13. ep[a].task = "run" /\ None \in {None} \cup Nat
  BY <1>1 DEF Running
<1> HIDE DEF n
<1>14. ep[a].slot # NoFrame => /\ ep[a].slot.seq < posted[b]
                               /\ ep[a].slot.seq <= n + (IF None = None THEN 0 ELSE 1)
  BY <1>3, <1>4
<1>15. Took(a, None, ep[a].slot, n)
  BY <1>5 DEF Took
<1>16. UNCHANGED wire /\ UNCHANGED <<posted, outcome, open, broken, offered, conns>>
  BY <1>1
<1> QED  BY <1>2, <1>4, <1>7, <1>9, <1>10, <1>11, <1>12, <1>13, <1>14, <1>15, <1>16, RxStep

-----------------------------------------------------------------------------
(* Posting and the writer.                                                 *)

\* What a step of side a leaves to the other conjuncts, when it changes neither what
\* a has read nor the connections.
LEMMA OtherKept ==
  ASSUME DupInv, TypeDup', NEW a \in Side, SameRx(a), ep'[Other(a)] = ep[Other(a)],
         posted'[Other(a)] = posted[Other(a)], UNCHANGED <<delivered, open, offered, conns>>,
         \A c \in Conn, e \in Side : c > conns => wire'[c][e] = wire[c][e]
  PROVE  /\ Links' /\ Local(Other(a))' /\ Ordered(a)' /\ Ordered(Other(a))' /\ Runs(Other(a))'
         /\ SameRx(Other(a)) /\ SameTx(Other(a)) /\ SameWrite(Other(a))
<1> DEFINE b == Other(a)
<1>1. /\ b \in Side /\ b # a /\ Other(b) = a /\ \A d \in Side : d = a \/ d = b
  BY Sides
<1>2. TypeDup /\ Links /\ Local(b) /\ Ordered(a) /\ Ordered(b) /\ Runs(b) /\ ep[a].seq \in Nat
  BY <1>1, EndpointFacts DEF DupInv
<1>3. SameRx(b) /\ SameTx(b) /\ SameWrite(b)
  BY <1>1 DEF SameRx, SameTx, SameWrite, Write
<1>4. Links'
  <2>1. ep'["A"].conn = ep["A"].conn
    BY <1>1 DEF Side, SameRx
  <2> QED  BY <1>2, <2>1 DEF Links
<1>5. Local(b)'
  BY <1>2 DEF Local
<1>6. Ordered(a)' /\ Ordered(b)'
  BY <1>2, <1>3 DEF Ordered, SameRx
<1>7. Runs(b)'
  <2>1. ep'[a].seq >= ep[a].seq
    BY <1>2 DEF SameRx
  <2> QED  BY <1>1, <1>2, <1>3, <2>1, RunsKept
<1> QED  BY <1>3, <1>4, <1>5, <1>6, <1>7

\* The outcomes of a side, when one of them changes.
LEMMA OutcomeSet ==
  ASSUME TypeDup, NEW a \in Side, NEW o \in [Msg(a) -> Outcomes],
         outcome' = [outcome EXCEPT ![a] = o]
  PROVE  /\ DOMAIN outcome' = Side /\ outcome'[a] = o /\ outcome'[Other(a)] = outcome[Other(a)]
         /\ \A e \in Side : outcome'[e] \in [Msg(e) -> Outcomes]
<1>1. DOMAIN outcome = Side /\ \A e \in Side : outcome[e] \in [Msg(e) -> Outcomes]
  BY DEF TypeDup
<1>2. DOMAIN outcome' = Side /\ outcome'[a] = o /\ \A e \in Side : e # a => outcome'[e] = outcome[e]
  BY <1>1
<1>3. Other(a) \in Side /\ Other(a) # a
  BY Sides
<1>4. \A e \in Side : outcome'[e] \in [Msg(e) -> Outcomes]
  BY <1>1, <1>2
<1> QED  BY <1>2, <1>3, <1>4

\* q and x go on from the next message side a writes, up to the message p.
InRun(a, p, q, x) ==
  ep[a].task # "ended" =>
    /\ p - Len(q) - Len(x) = Write(a)
    /\ \A i \in 1..Len(x) : x[i] = Write(a) + i - 1
    /\ \A i \in 1..Len(q) : q[i] = Write(a) + Len(x) + i - 1

Queued(a, q, x) == ep'[a] = [ep[a] EXCEPT !.queue = q, !.outbox = x]

\* Side a posts a message, or takes one from its queue.
LEMMA QueueStep ==
  ASSUME DupInv, NEW a \in Side, NEW q \in Seq(Nat), NEW x \in Seq(Nat), NEW p \in Nat,
         DOMAIN ep' = Side, Queued(a, q, x),
         ep'[Other(a)] = ep[Other(a)],
         posted' \in [Side -> Nat], posted'[a] = p, posted'[Other(a)] = posted[Other(a)],
         p >= posted[a], p <= Posts(a), InRun(a, p, q, x),
         ep[a].outbox # <<>> => x # <<>>,
         NEW o \in [Msg(a) -> Outcomes], DOMAIN outcome' = Side, outcome'[a] = o,
         outcome'[Other(a)] = outcome[Other(a)],
         \A m \in Msg(a) : o[m] = "accepted" => outcome[a][m] = "accepted",
         UNCHANGED <<delivered, inbox, wire, open, broken, offered, conns>>
  PROVE  DupInv'
<1> DEFINE b == Other(a)
           s == [ep[a] EXCEPT !.queue = q, !.outbox = x]
<1>1. /\ b \in Side /\ b # a /\ Other(b) = a /\ \A d \in Side : d = a \/ d = b
  BY Sides
<1>2. /\ TypeDup /\ Links /\ ep[a] \in Endpoint(a)
      /\ Local(a) /\ Ordered(a) /\ Runs(a) /\ Acked(a) /\ Arrived(a) /\ Flow(a)
      /\ Local(b) /\ Ordered(b) /\ Runs(b) /\ Acked(b) /\ Arrived(b) /\ Flow(b)
  BY <1>1 DEF DupInv, TypeDup
<1>3. s \in Endpoint(a)
  BY <1>2 DEF Endpoint
<1>4. /\ s.task = ep[a].task /\ s.conn = ep[a].conn /\ s.queue = q
      /\ s.outbox = x /\ s.unacked = ep[a].unacked /\ s.acked = ep[a].acked
      /\ s.ack = ep[a].ack /\ s.pending = ep[a].pending /\ s.writing = ep[a].writing
      /\ s.hold = ep[a].hold /\ s.slot = ep[a].slot /\ s.seq = ep[a].seq
  BY <1>2 DEF Endpoint
<1>5. ep'[a] = s
  BY DEF Queued
<1> HIDE DEF s
<1>6. ep'[a] = s /\ ep'[b] = ep[b] /\ \A e \in Side : ep'[e] \in Endpoint(e)
  BY <1>1, <1>2, <1>3, <1>5 DEF TypeDup
<1>7. posted'[a] = p /\ posted'[b] = posted[b] /\ posted' \in [Side -> Nat] /\ posted[a] \in Nat
      /\ \A e \in Side : posted'[e] <= Posts(e)
  BY <1>1, <1>2 DEF TypeDup
<1>8. /\ DOMAIN outcome' = Side /\ outcome'[a] = o /\ outcome'[b] = outcome[b]
      /\ \A e \in Side : outcome'[e] \in [Msg(e) -> Outcomes]
  BY <1>1, <1>2 DEF TypeDup
<1>9. TypeDup'
  BY <1>2, <1>6, <1>7, <1>8 DEF TypeDup
<1>10. SameRx(a)
  BY <1>4, <1>6 DEF SameRx
<1>11. /\ Links' /\ Local(b)' /\ Ordered(a)' /\ Ordered(b)' /\ Runs(b)'
       /\ SameRx(b) /\ SameTx(b) /\ SameWrite(b)
  BY <1>6, <1>7, <1>9, <1>10, OtherKept
<1>12. Local(a)'
  BY <1>2, <1>4, <1>6 DEF Local
<1>13. ep[a].task # "ended" => Write(a)' = Write(a) /\ First(a)' = First(a)
  <2> SUFFICES ASSUME ep[a].task # "ended" PROVE Write(a)' = Write(a) /\ First(a)' = First(a)
    OBVIOUS
  <2>1. Write(a)' = p - Len(q) - Len(x)
    BY <1>4, <1>6, <1>7 DEF Write
  <2>2. First(a)' = p - Len(q) - Len(x) - Len(ep[a].unacked)
    BY <1>4, <1>6, <1>7 DEF First
  <2>3. First(a) = Write(a) - Len(ep[a].unacked)
    BY DEF First, Write
  <2> QED  BY <2>1, <2>2, <2>3 DEF InRun
<1>14. Runs(a)'
  <2> SUFFICES ASSUME ep[a].task # "ended" PROVE Runs(a)'
    BY <1>4, <1>6 DEF Runs
  <2>1. First(a)' = First(a) /\ Write(a)' = Write(a)
    BY <1>13
  <2>2. /\ ep'[a].unacked = ep[a].unacked /\ ep'[a].acked = ep[a].acked
        /\ ep'[a].queue = q /\ ep'[a].outbox = x /\ ep'[b].seq = ep[b].seq
    BY <1>4, <1>6
  <2>3. /\ \A i \in 1..Len(x) : x[i] = Write(a) + i - 1
        /\ \A i \in 1..Len(q) : q[i] = Write(a) + Len(x) + i - 1
    BY DEF InRun
  <2> QED  BY <1>2, <2>1, <2>2, <2>3 DEF Runs
<1>15. Acked(a)'
  BY <1>2, <1>4, <1>6, <1>8 DEF Acked
<1>16. Acked(b)'
  BY <1>1, <1>2, <1>4, <1>6, <1>8 DEF Acked
<1>17. Arrived(a)'
  <2>1. ep[b].seq \in Nat /\ (ep[b].slot # NoFrame => ep[b].slot.seq \in Nat)
    BY <1>1, <1>2, EndpointFacts
  <2>2. \A y \in Nat : (y < posted[a] => y < p) /\ (y <= posted[a] => y <= p)
    BY <1>7
  <2>3. ASSUME NEW c \in Conn, NEW i \in 1..Len(wire[c][a]), wire[c][a][i].type = "data"
        PROVE  wire[c][a][i].seq < p
    <3>1. wire[c][a][i] \in AnyFrame(a)
      BY <1>2 DEF TypeDup
    <3>2. wire[c][a][i].seq \in Nat /\ wire[c][a][i].seq < posted[a]
      BY <3>1, <2>3, <1>2, FrameFacts DEF Arrived
    <3> QED  BY <3>2, <2>2
  <2>4. ep[b].hold # None => ep[b].hold = ep[b].seq /\ ep[b].seq < p
    BY <1>2, <2>1, <2>2 DEF Arrived
  <2>5. ep[b].slot # NoFrame => /\ ep[b].slot.seq < p
                                /\ ep[b].slot.seq <= ep[b].seq + (IF ep[b].hold = None THEN 0 ELSE 1)
    BY <1>2, <2>1, <2>2 DEF Arrived
  <2>6. ep[b].seq <= p
    BY <1>2, <2>1, <2>2 DEF Arrived
  <2> QED  BY <2>3, <2>4, <2>5, <2>6, <1>6, <1>7 DEF Arrived
<1>18. Arrived(b)'
  <2>1. SameRx(Other(b)) /\ posted'[b] = posted[b]
    BY <1>1, <1>7, <1>10
  <2> QED  BY <1>1, <1>2, <2>1, ArrivedKept
<1>19. Flow(b)'
  <2>1. SameRx(Other(b))
    BY <1>1, <1>10
  <2> QED  BY <1>1, <1>2, <1>11, <2>1, FlowSame
<1>20. Flow(a)'
  <2>1. CASE ep[a].task = "ended"
    <3> SUFFICES ASSUME NEW c \in Conn PROVE FlowOn(a, c)'
      BY DEF Flow
    <3>1. Due(b, c)' = Due(b, c) /\ (Live(b, c)' <=> Live(b, c))
      BY <1>1, <1>11, DueKept
    <3>2. ep'[a].task # "run"
      BY <2>1, <1>4, <1>6
    <3> QED  BY <3>1, <3>2, <1>2, FlowKept DEF Flow
  <2>2. CASE ep[a].task # "ended"
    <3>1. SameWrite(a)
      BY <2>2, <1>4, <1>6, <1>13 DEF SameWrite
    <3> QED  BY <3>1, <1>2, <1>11, FlowSame
  <2> QED  BY <2>1, <2>2
<1> QED  BY <1>1, <1>9, <1>11, <1>12, <1>14, <1>15, <1>16, <1>17, <1>18, <1>19, <1>20 DEF DupInv

\* A completion is put down for one message.
LEMMA OutcomeOne ==
  ASSUME TypeDup, NEW a \in Side, NEW m \in Msg(a), NEW v \in Outcomes
  PROVE  /\ [outcome EXCEPT ![a][m] = v] = [outcome EXCEPT ![a] = [outcome[a] EXCEPT ![m] = v]]
         /\ [outcome[a] EXCEPT ![m] = v] \in [Msg(a) -> Outcomes]
         /\ \A k \in Msg(a) : [outcome[a] EXCEPT ![m] = v][k] = IF k = m THEN v ELSE outcome[a][k]
<1>1. outcome[a] \in [Msg(a) -> Outcomes]
  BY DEF TypeDup
<1> QED  BY <1>1

\* DuplexTx::do_post: the message is queued, or refused at once.
LEMMA PostStep ==
  ASSUME DupInv, NEW a \in Side, Post(a) PROVE DupInv'
<1> DEFINE p == posted[a]
<1>1. TypeDup /\ ep[a] \in Endpoint(a) /\ DOMAIN ep = Side /\ p \in Nat /\ Runs(a)
      /\ ep[a].queue \in Seq(Nat) /\ ep[a].outbox \in Seq(Nat) /\ posted \in [Side -> Nat]
  BY EndpointFacts DEF DupInv, TypeDup
<1>2. /\ p < Posts(a) /\ posted' = [posted EXCEPT ![a] = p + 1]
      /\ UNCHANGED <<delivered, inbox, wire, open, broken, offered, conns>>
  BY <1>1 DEF Post, linkVars
<1>3. p \in Msg(a) /\ p + 1 \in Nat /\ p + 1 >= p /\ p + 1 <= Posts(a)
  BY <1>1, <1>2, BoundsAssumption DEF Msg, Posts
<1>p. posted' \in [Side -> Nat] /\ posted'[a] = p + 1 /\ posted'[Other(a)] = posted[Other(a)]
  BY <1>1, <1>2, <1>3, Sides
<1>4. CASE ep[a].task = "ended"
  <2> DEFINE o == [outcome[a] EXCEPT ![p] = "rejected"]
             q == ep[a].queue
             x == ep[a].outbox
  <2>1. outcome' = [outcome EXCEPT ![a][p] = "rejected"] /\ ep' = ep
    BY <1>4 DEF Post
  <2>2. /\ outcome' = [outcome EXCEPT ![a] = o] /\ o \in [Msg(a) -> Outcomes]
        /\ \A m \in Msg(a) : o[m] = "accepted" => outcome[a][m] = "accepted"
    BY <1>1, <1>3, <2>1, OutcomeOne DEF Outcomes
  <2>o. DOMAIN outcome' = Side /\ outcome'[a] = o /\ outcome'[Other(a)] = outcome[Other(a)]
    BY <1>1, <2>2, OutcomeSet
  <2> HIDE DEF o
  <2>3. /\ DOMAIN ep' = Side /\ Queued(a, q, x)
        /\ ep'[Other(a)] = ep[Other(a)]
    <3>1. [ep[a] EXCEPT !.queue = q, !.outbox = x] = ep[a]
      BY <1>1 DEF Endpoint
    <3> QED  BY <1>1, <2>1, <3>1 DEF Queued
  <2>4. InRun(a, p + 1, q, x) /\ (ep[a].outbox # <<>> => x # <<>>)
    BY <1>4 DEF InRun
  <2>5. q \in Seq(Nat) /\ x \in Seq(Nat)
    BY <1>1
  <2> HIDE DEF q, x
  <2> QED  BY <1>2, <1>p, <1>3, <2>2, <2>o, <2>3, <2>4, <2>5, QueueStep
<1>5. CASE ep[a].task # "ended"
  <2> DEFINE o == [outcome[a] EXCEPT ![p] = "pending"]
             u == ep[a].queue
             q == Append(u, p)
             x == ep[a].outbox
  <2>1. outcome' = [outcome EXCEPT ![a][p] = "pending"]
        /\ ep' = [ep EXCEPT ![a].queue = Append(@, p)]
    BY <1>5 DEF Post
  <2>2. /\ outcome' = [outcome EXCEPT ![a] = o] /\ o \in [Msg(a) -> Outcomes]
        /\ \A m \in Msg(a) : o[m] = "accepted" => outcome[a][m] = "accepted"
    BY <1>1, <1>3, <2>1, OutcomeOne DEF Outcomes
  <2>o. DOMAIN outcome' = Side /\ outcome'[a] = o /\ outcome'[Other(a)] = outcome[Other(a)]
    BY <1>1, <2>2, OutcomeSet
  <2> HIDE DEF o
  <2>3. /\ DOMAIN ep' = Side /\ Queued(a, q, x)
        /\ ep'[Other(a)] = ep[Other(a)]
    <3>1. [ep[a] EXCEPT !.queue = q, !.outbox = x] = [ep[a] EXCEPT !.queue = q]
      BY <1>1 DEF Endpoint
    <3> QED  BY <1>1, <2>1, <3>1, Sides DEF Queued
  <2>4. /\ q \in Seq(Nat) /\ Len(q) = Len(u) + 1 /\ Len(u) \in Nat /\ q[Len(u) + 1] = p
        /\ \A i \in 1..Len(u) : q[i] = u[i]
    BY <1>1, Appended
  <2>5. /\ Write(a) \in Nat /\ Len(x) \in Nat /\ Write(a) + Len(x) + Len(u) = p
    BY <1>1, <1>5, WriteNat, EndpointFacts
  <2>6. /\ \A i \in 1..Len(x) : x[i] = Write(a) + i - 1
        /\ \A i \in 1..Len(u) : u[i] = Write(a) + Len(x) + i - 1
    BY <1>1, <1>5 DEF Runs
  <2> HIDE DEF p, q, x, u
  <2>p. p \in Nat
    BY <1>1
  <2>7. (p + 1) - Len(q) - Len(x) = Write(a)
    BY <2>4, <2>5, <2>p
  <2>8. ASSUME NEW i \in 1..Len(q) PROVE q[i] = Write(a) + Len(x) + i - 1
    <3>1. i \in 1..Len(u) \/ i = Len(u) + 1
      BY <2>4
    <3>2. CASE i \in 1..Len(u)
      BY <3>2, <2>4, <2>6
    <3>3. CASE i = Len(u) + 1
      BY <3>3, <2>4, <2>5, <1>1
    <3> QED  BY <3>1, <3>2, <3>3
  <2>9. x \in Seq(Nat) /\ (ep[a].outbox # <<>> => x # <<>>)
        /\ p + 1 >= posted[a] /\ posted'[a] = p + 1
    BY <1>1, <1>p, <1>3 DEF x, p
  <2>10. InRun(a, p + 1, q, x) /\ q \in Seq(Nat)
    BY <2>4, <2>6, <2>7, <2>8 DEF InRun
  <2> QED  BY <1>2, <1>p, <1>3, <2>2, <2>o, <2>3, <2>9, <2>10, QueueStep
<1> QED  BY <1>4, <1>5

\* A message goes from the queue to the outbox.
LEMMA RecvNewStep ==
  ASSUME DupInv, NEW a \in Side, RecvNew(a) PROVE DupInv'
<1> DEFINE u == ep[a].queue
           q == Tail(u)
           x == <<Head(u)>>
           o == outcome[a]
<1>1. TypeDup /\ ep[a] \in Endpoint(a) /\ DOMAIN ep = Side /\ Runs(a) /\ posted \in [Side -> Nat]
      /\ u \in Seq(Nat) /\ posted[a] <= Posts(a) /\ DOMAIN outcome = Side
      /\ o \in [Msg(a) -> Outcomes]
  BY EndpointFacts DEF DupInv, TypeDup
<1>2. /\ Running(a) /\ ep[a].outbox = <<>> /\ u # <<>>
      /\ ep' = [ep EXCEPT ![a].outbox = <<Head(u)>>, ![a].queue = Tail(@)]
      /\ UNCHANGED <<posted, outcome, delivered, inbox, wire, open, broken, offered, conns>>
  BY DEF RecvNew, Idle, appVars, linkVars
<1>3. /\ DOMAIN ep' = Side /\ Queued(a, q, x)
      /\ ep'[Other(a)] = ep[Other(a)]
  <2>1. [ep[a] EXCEPT !.queue = q, !.outbox = x] = [ep[a] EXCEPT !.outbox = x, !.queue = q]
    BY <1>1 DEF Endpoint
  <2>2. ep' = [ep EXCEPT ![a] = [ep[a] EXCEPT !.outbox = x, !.queue = q]]
    BY <1>1, <1>2
  <2> QED  BY <1>1, <2>1, <2>2, Sides DEF Queued
<1>4. DOMAIN outcome' = Side /\ outcome'[a] = o
      /\ outcome'[Other(a)] = outcome[Other(a)]
      /\ posted[a] \in Nat /\ posted[a] >= posted[a]
  BY <1>1, <1>2
<1>5. /\ q \in Seq(Nat) /\ Len(u) \in Nat \ {0} /\ Len(q) = Len(u) - 1
      /\ (\A i \in 1..(Len(u) - 1) : q[i] = u[i + 1])
      /\ Head(u) = u[1] /\ u[1] \in Nat /\ 1 \in 1..Len(u)
  BY <1>1, <1>2, Tailed
<1>6. x \in Seq(Nat) /\ Len(x) = 1 /\ x[1] = u[1] /\ x # <<>>
  BY <1>5
<1>7. ep[a].task # "ended" /\ Len(ep[a].outbox) = 0
  BY <1>2 DEF Running
<1>8. Write(a) \in Nat /\ Write(a) + 0 + Len(u) = posted[a]
      /\ \A i \in 1..Len(u) : u[i] = Write(a) + 0 + i - 1
  BY <1>1, <1>7, WriteNat DEF Runs
<1> HIDE DEF u, q, x, o
<1>9. posted[a] - Len(q) - Len(x) = Write(a)
  BY <1>4, <1>5, <1>6, <1>8
<1>10. ASSUME NEW i \in 1..Len(q) PROVE q[i] = Write(a) + Len(x) + i - 1
  <2>1. i \in 1..(Len(u) - 1) /\ i + 1 \in 1..Len(u) /\ i \in Int
    BY <1>5
  <2>2. q[i] = u[i + 1] /\ u[i + 1] = Write(a) + 0 + (i + 1) - 1
    BY <2>1, <1>5, <1>8
  <2> QED  BY <2>1, <2>2, <1>6, <1>8
<1>11. \A i \in 1..Len(x) : x[i] = Write(a) + i - 1
  <2>1. \A i \in 1..Len(x) : i = 1
    BY <1>6
  <2>2. x[1] = Write(a) + 0 + 1 - 1
    BY <1>5, <1>6, <1>8
  <2> QED  BY <2>1, <2>2, <1>8
<1>12. \A m \in Msg(a) : o[m] = "accepted" => outcome[a][m] = "accepted"
  BY DEF o
<1>13. UNCHANGED <<delivered, inbox, wire, open, broken, offered, conns>>
  BY <1>2
<1>14. InRun(a, posted[a], q, x) /\ q \in Seq(Nat) /\ x \in Seq(Nat)
       /\ (ep[a].outbox # <<>> => x # <<>>)
  BY <1>5, <1>6, <1>9, <1>10, <1>11 DEF InRun
<1>15. posted[a] <= Posts(a) /\ o \in [Msg(a) -> Outcomes]
  BY <1>1
<1> DEFINE p == posted[a]
<1>16. /\ p \in Nat /\ posted' \in [Side -> Nat] /\ posted'[a] = p
       /\ posted'[Other(a)] = posted[Other(a)] /\ p >= posted[a] /\ p <= Posts(a)
       /\ InRun(a, p, q, x)
  BY <1>1, <1>2, <1>4, <1>14, <1>15
<1> HIDE DEF p
<1>17. DOMAIN outcome' = Side /\ outcome'[a] = o /\ outcome'[Other(a)] = outcome[Other(a)]
  BY <1>4
<1>18. q \in Seq(Nat) /\ x \in Seq(Nat) /\ (ep[a].outbox # <<>> => x # <<>>)
  BY <1>14
<1> QED  BY <1>3, <1>12, <1>13, <1>15, <1>16, <1>17, <1>18, QueueStep

\* The writer is taken, or an ack is due.
LEMMA StartStep ==
  ASSUME DupInv, NEW a \in Side, StartData(a) \/ BeginAck(a) \/ StartAck(a) PROVE DupInv'
<1>1. TypeDup /\ ep[a] \in Endpoint(a) /\ DOMAIN ep = Side /\ Local(a)
      /\ ep[a].writing \in {"none", "data", "ack"} /\ ep[a].pending \in {None} \cup Nat
      /\ ep[a].seq \in Nat /\ ep[a].ack \in Nat
  BY EndpointFacts DEF DupInv, TypeDup
<1>2. Running(a) /\ UNCHANGED <<posted, outcome, delivered, inbox, wire, open, broken, offered, conns>>
  BY DEF StartData, BeginAck, StartAck, Idle, appVars, linkVars
<1>3. ep[a].task = "run" /\ (ep[a].pending # None => ep[a].pending \in 1..ep[a].seq)
      /\ (ep[a].writing = "data" => ep[a].outbox # <<>>)
      /\ (ep[a].writing = "ack" => ep[a].pending # None)
  BY <1>1, <1>2 DEF Running, Local
<1>4. CASE StartData(a)
  <2>1. ep' = [ep EXCEPT ![a].writing = "data"] /\ ep[a].outbox # <<>>
    BY <1>4 DEF StartData
  <2>2. ep' = [ep EXCEPT ![a] = [@ EXCEPT !.pending = ep[a].pending, !.writing = "data"]]
    <3>1. [ep[a] EXCEPT !.pending = ep[a].pending, !.writing = "data"]
            = [ep[a] EXCEPT !.writing = "data"]
      BY <1>1 DEF Endpoint
    <3> QED  BY <2>1, <3>1
  <2> QED  BY <1>1, <1>2, <1>3, <2>1, <2>2, HandStep
<1>5. CASE BeginAck(a)
  <2> DEFINE p == ep[a].seq
             w == ep[a].writing
  <2>1. ep' = [ep EXCEPT ![a].pending = p] /\ ep[a].ack < p
    BY <1>5 DEF BeginAck
  <2>2. ep' = [ep EXCEPT ![a] = [@ EXCEPT !.pending = p, !.writing = w]]
    <3>1. [ep[a] EXCEPT !.pending = p, !.writing = w] = [ep[a] EXCEPT !.pending = p]
      BY <1>1 DEF Endpoint
    <3> QED  BY <2>1, <3>1
  <2>3. p \in Nat /\ p \in 1..ep[a].seq /\ p # None
    BY <1>1, <2>1 DEF None
  <2>4. p \in {None} \cup Nat /\ w \in {"none", "data", "ack"} /\ (w = "data" => ep[a].outbox # <<>>)
        /\ (w = "ack" => p # None) /\ (p # None => p \in 1..ep[a].seq)
    BY <1>1, <1>3, <2>3
  <2> HIDE DEF p, w
  <2> QED  BY <1>2, <1>3, <2>2, <2>4, HandStep
<1>6. CASE StartAck(a)
  <2> DEFINE p == ep[a].pending
  <2>1. ep' = [ep EXCEPT ![a].writing = "ack"] /\ p # None
    BY <1>6 DEF StartAck
  <2>2. ep' = [ep EXCEPT ![a] = [@ EXCEPT !.pending = p, !.writing = "ack"]]
    <3>1. [ep[a] EXCEPT !.pending = p, !.writing = "ack"] = [ep[a] EXCEPT !.writing = "ack"]
      BY <1>1 DEF Endpoint
    <3> QED  BY <2>1, <3>1
  <2>3. p \in {None} \cup Nat /\ p \in 1..ep[a].seq
    BY <1>1, <1>3, <2>1
  <2> HIDE DEF p
  <2> QED  BY <1>2, <1>3, <2>1, <2>2, <2>3, HandStep
<1> QED  BY <1>4, <1>5, <1>6

-----------------------------------------------------------------------------
(* Acks and the writer's frames.                                           *)

\* A step of side a's loops keeps to its connection.
LEMMA WireKept ==
  ASSUME DupInv, NEW a \in Side, ep[a].task \in {"run", "clean", "close"}, NEW x \in Side,
         OtherWires(ep[a].conn, x)
  PROVE  /\ \A d \in Conn, e \in Side : d > conns => wire'[d][e] = wire[d][e]
         /\ \A d \in Conn : wire'[d][Other(x)] = wire[d][Other(x)]
         /\ \A d \in Conn : d # ep[a].conn => wire'[d][x] = wire[d][x]
<1>1. ep[a].conn \in 1..conns /\ conns \in 0..MaxConns
  BY RunFacts DEF DupInv, TypeDup
<1>2. ASSUME NEW d \in Conn, d > conns PROVE d # ep[a].conn
  BY <1>1, <1>2, BoundsAssumption DEF Conn
<1> QED  BY <1>2, Sides DEF OtherWires

\* The effect of a step of side a's loops on all that is typed.
LEMMA TypeStep ==
  ASSUME TypeDup, DOMAIN ep' = Side, \A e \in Side : ep'[e] \in Endpoint(e), TypeWire',
         DOMAIN outcome' = Side, \A e \in Side : outcome'[e] \in [Msg(e) -> Outcomes],
         UNCHANGED <<posted, delivered, inbox, open, offered, conns>>
  PROVE  TypeDup'
BY DEF TypeDup, TypeWire

\* The front of the deque that an ack pops.
LEMMA Popped ==
  ASSUME NEW u \in Seq(Nat), NEW n \in 0..Len(u), NEW first \in Nat, NEW k \in Nat,
         \A i \in 1..Len(u) : u[i] = first + i - 1,
         \A i \in 1..n : u[i] <= k, n < Len(u) => u[n + 1] > k
  PROVE  LET v == SubSeq(u, n + 1, Len(u))
         IN  /\ v \in Seq(Nat) /\ Len(v) = Len(u) - n
             /\ \A i \in 1..Len(v) : v[i] = (first + n) + i - 1 /\ v[i] > k
             /\ n = 0 \/ first + n <= k + 1
<1> DEFINE v == SubSeq(u, n + 1, Len(u))
<1>1. Len(u) \in Nat /\ n \in Nat /\ n <= Len(u)
  OBVIOUS
<1>2. v \in Seq(Nat) /\ Len(v) = Len(u) - n
  <2>1. \A i \in (n + 1)..Len(u) : u[i] \in Nat
    BY <1>1
  <2>2. v \in Seq(Nat)
    BY <1>1, <2>1, SubSeqProperties
  <2>3. Len(v) = IF n + 1 <= Len(u) THEN Len(u) - (n + 1) + 1 ELSE 0
    BY <1>1, SubSeqProperties
  <2> HIDE DEF v
  <2> QED  BY <1>1, <2>2, <2>3
<1>3. \A i \in 1..(Len(u) - n) : v[i] = u[n + i]
  <2>1. ASSUME NEW i \in 1..(Len(u) - n) PROVE v[i] = u[n + i]
    BY <1>1
  <2> QED  BY <2>1
<1> HIDE DEF v
<1>4. ASSUME NEW i \in 1..Len(v) PROVE v[i] = (first + n) + i - 1 /\ v[i] > k
  <2>1. i \in Nat /\ i >= 1 /\ n + i \in 1..Len(u) /\ i \in 1..(Len(u) - n)
    BY <1>1, <1>2
  <2>2. v[i] = first + (n + i) - 1
    BY <2>1, <1>3
  <2>3. n + 1 \in 1..Len(u) /\ n < Len(u)
    BY <2>1, <1>1
  <2>4. u[n + 1] = first + (n + 1) - 1
    BY <2>3
  <2>5. first + (n + 1) - 1 > k
    BY <2>3, <2>4
  <2> QED  BY <2>1, <2>2, <2>5, <1>1
<1>5. n = 0 \/ first + n <= k + 1
  <2> SUFFICES ASSUME n # 0 PROVE first + n <= k + 1
    OBVIOUS
  <2>1. n \in 1..n /\ n \in 1..Len(u)
    BY <1>1
  <2>2. u[n] <= k /\ u[n] = first + n - 1
    BY <2>1
  <2> QED  BY <2>2, <1>1
<1> QED  BY <1>2, <1>4, <1>5 DEF v

\* An ack is taken: nothing is acked that was not delivered.
LEMMA PruneStep ==
  ASSUME DupInv, NEW a \in Side, Holds(a, "ack"), Prune(a, Frame(a).seq) PROVE DupInv'
<1> DEFINE b == Other(a)
           c == ep[a].conn
           f == Frame(a)
           k == f.seq
           u == ep[a].unacked
           o == [m \in Msg(a) |-> IF m \in Covered(a, k) THEN "accepted" ELSE outcome[a][m]]
<1>1. /\ Running(a) /\ f.type = "ack" /\ Read(a)
      /\ outcome' = [outcome EXCEPT ![a] = [m \in Msg(a) |-> IF m \in Covered(a, k) THEN "accepted" ELSE @[m]]]
      /\ UNCHANGED <<posted, delivered, inbox, open, broken, offered, conns>>
  BY DEF Prune, Holds, Idle, appVars, linkVars
<1>2. PICK n \in 0..Len(u) :
        /\ \A i \in 1..n : u[i] <= k
        /\ n < Len(u) => u[n + 1] > k
        /\ ep' = [ep EXCEPT ![a].acked = k, ![a].unacked = SubSeq(u, n + 1, Len(u))]
  BY DEF Prune
<1> DEFINE v == SubSeq(u, n + 1, Len(u))
           s == [ep[a] EXCEPT !.acked = k, !.unacked = v]
<1>3. /\ b \in Side /\ b # a /\ Other(b) = a /\ \A d \in Side : d = a \/ d = b
  BY Sides
<1>4. /\ TypeDup /\ Links /\ ep[a] \in Endpoint(a) /\ DOMAIN ep = Side /\ ep[a].task = "run"
      /\ Local(a) /\ Ordered(a) /\ Runs(a) /\ Acked(a) /\ Arrived(a) /\ Flow(a)
      /\ Local(b) /\ Ordered(b) /\ Runs(b) /\ Acked(b) /\ Arrived(b) /\ Flow(b)
      /\ u \in Seq(Nat) /\ ep[b].seq \in Nat /\ outcome[a] \in [Msg(a) -> Outcomes]
  BY <1>1, <1>3, EndpointFacts DEF DupInv, TypeDup, Running
<1>5. f # NoFrame /\ f # Torn
  BY <1>1, FrameTypes
<1>6. /\ ReadFrom(c, b) /\ f = wire[c][b][1] /\ f \in AnyFrame(b) /\ wire[c][b] # <<>>
  BY <1>1, <1>5, FrameRead
<1>7. c \in Conn /\ wire[c][b] \in Seq(AnyFrame(b)) /\ 1 \in 1..Len(wire[c][b])
  BY <1>4, <1>6, RunFacts
<1>8. k \in Nat /\ k < ep[b].seq
  <2>1. k \in Nat
    BY <1>1, <1>3, <1>6, FrameFacts
  <2>2. k < ep[b].seq
    BY <1>1, <1>4, <1>6, <1>7 DEF Acked
  <2> QED  BY <2>1, <2>2
<1> HIDE DEF f, k
<1>9. /\ First(a) \in Nat /\ First(a) <= ep[b].seq
      /\ \A i \in 1..Len(u) : u[i] = First(a) + i - 1
  <2>1. First(a) \in 0..ep[b].seq
    BY <1>4 DEF Runs
  <2> QED  BY <1>4, <2>1 DEF Runs
<1>10. /\ v \in Seq(Nat) /\ Len(v) = Len(u) - n
       /\ \A i \in 1..Len(v) : v[i] = (First(a) + n) + i - 1 /\ v[i] > k
       /\ n = 0 \/ First(a) + n <= k + 1
  <2> DEFINE first == First(a)
  <2>1. first \in Nat /\ \A i \in 1..Len(u) : u[i] = first + i - 1
    BY <1>9
  <2> HIDE DEF first
  <2>2. /\ v \in Seq(Nat) /\ Len(v) = Len(u) - n
        /\ \A i \in 1..Len(v) : v[i] = (first + n) + i - 1 /\ v[i] > k
        /\ n = 0 \/ first + n <= k + 1
    BY <1>2, <1>4, <1>8, <2>1, Popped
  <2> QED  BY <2>2 DEF first
<1> HIDE DEF v
<1>11. /\ s \in Endpoint(a) /\ ep' = [ep EXCEPT ![a] = s]
       /\ s.task = ep[a].task /\ s.conn = ep[a].conn /\ s.queue = ep[a].queue
       /\ s.outbox = ep[a].outbox /\ s.unacked = v /\ s.acked = k
       /\ s.ack = ep[a].ack /\ s.pending = ep[a].pending /\ s.writing = ep[a].writing
       /\ s.hold = ep[a].hold /\ s.slot = ep[a].slot /\ s.seq = ep[a].seq
  <2>1. ep' = [ep EXCEPT ![a] = s]
    BY <1>2, <1>4 DEF v
  <2>2. s \in Endpoint(a)
    BY <1>4, <1>8, <1>10 DEF Endpoint
  <2> QED  BY <1>4, <2>1, <2>2 DEF Endpoint
<1> HIDE DEF s
<1>12. DOMAIN ep' = Side /\ ep'[a] = s /\ ep'[b] = ep[b] /\ \A e \in Side : ep'[e] \in Endpoint(e)
  BY <1>4, <1>11, SideSet
<1>13. /\ o \in [Msg(a) -> Outcomes] /\ outcome' = [outcome EXCEPT ![a] = o]
       /\ \A m \in Msg(a) : o[m] = "accepted" => outcome[a][m] = "accepted" \/ m <= k
  BY <1>1, <1>4 DEF Outcomes, Covered, TypeDup
<1> HIDE DEF o
<1>14. /\ DOMAIN outcome' = Side /\ outcome'[a] = o /\ outcome'[b] = outcome[b]
       /\ \A e \in Side : outcome'[e] \in [Msg(e) -> Outcomes]
  BY <1>4, <1>13, OutcomeSet
<1>15. /\ TypeWire' /\ OtherWires(c, b)
       /\ \A d \in Conn, x \in Side : \A i \in 1..Len(wire'[d][x]) :
            \E j \in 1..Len(wire[d][x]) : wire'[d][x][i] = wire[d][x][j]
  BY <1>3, <1>4, <1>6, <1>7, WireRead
<1>16. /\ \A d \in Conn, e \in Side : d > conns => wire'[d][e] = wire[d][e]
       /\ \A d \in Conn : wire'[d][a] = wire[d][a]
       /\ \A d \in Conn : d # c => wire'[d][b] = wire[d][b]
  BY <1>3, <1>4, <1>15, WireKept
<1>17. TypeDup'
  BY <1>1, <1>4, <1>12, <1>14, <1>15, TypeStep
<1>18. SameRx(a)
  BY <1>11, <1>12 DEF SameRx
<1>19. /\ Links' /\ Local(b)' /\ Ordered(a)' /\ Ordered(b)' /\ Runs(b)'
       /\ SameRx(b) /\ SameTx(b) /\ SameWrite(b)
  BY <1>1, <1>12, <1>16, <1>17, <1>18, OtherKept
<1>20. Local(a)'
  BY <1>1, <1>4, <1>11, <1>12 DEF Local
<1>21. Write(a)' = Write(a) /\ First(a)' = First(a) + n /\ SameWrite(a)
  <2>1. Write(a)' = Write(a)
    BY <1>1, <1>11, <1>12 DEF Write
  <2>2. First(a)' = Write(a) - Len(v)
    BY <1>1, <1>11, <1>12 DEF First, Write
  <2>3. First(a) = Write(a) - Len(u) /\ Write(a) \in Int /\ Len(u) \in Nat
    BY <1>4, EndpointFacts DEF First, Write
  <2>4. First(a)' = First(a) + n
    BY <2>2, <2>3, <1>2, <1>10
  <2> QED  BY <2>1, <2>4, <1>11, <1>12 DEF SameWrite
<1>22. Runs(a)'
  <2>1. First(a) + n \in 0..ep[b].seq
    BY <1>2, <1>4, <1>8, <1>9, <1>10
  <2>2. \A i \in 1..Len(v) : v[i] = First(a)' + i - 1 /\ v[i] > k
    BY <1>10, <1>21
  <2> QED  BY <1>4, <1>11, <1>12, <1>21, <2>1, <2>2 DEF Runs
<1>23. Acked(a)'
  <2>1. ASSUME NEW d \in Conn, NEW i \in 1..Len(wire'[d][b]), wire'[d][b][i].type = "ack"
        PROVE  wire'[d][b][i].seq < ep[b].seq
    <3>1. PICK j \in 1..Len(wire[d][b]) : wire'[d][b][i] = wire[d][b][j]
      BY <1>3, <1>15
    <3> QED  BY <3>1, <2>1, <1>4 DEF Acked
  <2>2. ASSUME NEW m \in Msg(a), o[m] = "accepted" PROVE m < ep[b].seq
    <3>1. m \in Int
      BY DEF Msg
    <3> QED  BY <3>1, <2>2, <1>4, <1>8, <1>13 DEF Acked
  <2> QED  BY <2>1, <2>2, <1>8, <1>11, <1>12, <1>14 DEF Acked
<1>24. Acked(b)'
  <2>1. s.seq = ep[a].seq /\ ep'[a] = s /\ ep'[b] = ep[b] /\ outcome'[b] = outcome[b]
    BY <1>11, <1>12, <1>14
  <2> HIDE DEF b
  <2> QED  BY <1>3, <1>4, <1>16, <2>1 DEF Acked
<1>25. Arrived(a)'
  BY <1>1, <1>4, <1>16, <1>19, ArrivedKept
<1>26. Arrived(b)'
  <2>1. SameRx(Other(b)) /\ posted'[b] = posted[b]
    BY <1>1, <1>3, <1>18
  <2> QED  BY <1>3, <1>4, <1>15, <2>1, ArrivedKept
<1>27. Flow(a)'
  BY <1>1, <1>4, <1>16, <1>19, <1>21, FlowSame
<1>28. Flow(b)'
  <2> SUFFICES ASSUME NEW d \in Conn PROVE FlowOn(b, d)'
    BY DEF Flow
  <2>1. FlowOn(b, d) /\ Due(a, d)' = Due(a, d) /\ (Live(a, d)' <=> Live(a, d))
    BY <1>1, <1>4, <1>18, DueKept DEF Flow
  <2>2. CASE d # c
    BY <2>1, <2>2, <1>1, <1>3, <1>16, <1>19, FlowKept DEF SameWrite
  <2>3. CASE d = c
    <3>1. ep[b].task = "run" => Write(b) \in Nat
      BY <1>3, WriteNat
    <3>2. wire[c][b][1].type # "data"
      BY <1>1, <1>6
    <3> QED  BY <3>1, <3>2, <2>1, <2>3, <1>1, <1>3, <1>4, <1>6, <1>7, <1>19, FlowRead
  <2> QED  BY <2>2, <2>3
<1> QED  BY <1>3, <1>17, <1>19, <1>20, <1>22, <1>23, <1>24, <1>25, <1>26, <1>27, <1>28 DEF DupInv

\* An ack is out.
LEMMA DoneAckStep ==
  ASSUME DupInv, NEW a \in Side, DoneAck(a) PROVE DupInv'
<1> DEFINE b == Other(a)
           c == ep[a].conn
           p == ep[a].pending
           f == Ack(a, p - 1)
           s == [ep[a] EXCEPT !.writing = "none", !.pending = None, !.ack = p]
<1>1. /\ Running(a) /\ ep[a].writing = "ack"
      /\ ep' = [ep EXCEPT ![a].writing = "none", ![a].pending = None, ![a].ack = p]
      /\ wire' = [wire EXCEPT ![c][a] = Arriving(a, c, <<f>>)]
      /\ UNCHANGED <<posted, outcome, delivered, inbox, open, broken, offered, conns>>
  BY DEF DoneAck, AckSeq, Idle, appVars, linkVars
<1>2. /\ b \in Side /\ b # a /\ Other(b) = a /\ \A d \in Side : d = a \/ d = b
  BY Sides
<1>3. /\ TypeDup /\ Links /\ ep[a] \in Endpoint(a) /\ DOMAIN ep = Side /\ ep[a].task = "run"
      /\ Local(a) /\ Ordered(a) /\ Runs(a) /\ Acked(a) /\ Arrived(a) /\ Flow(a)
      /\ Local(b) /\ Ordered(b) /\ Runs(b) /\ Acked(b) /\ Arrived(b) /\ Flow(b)
      /\ ep[b].seq \in Nat /\ ep[a].seq \in Nat
  BY <1>1, <1>2, EndpointFacts DEF DupInv, TypeDup, Running
<1>4. p \in Nat /\ p - 1 \in Nat /\ p - 1 < ep[a].seq /\ p <= ep[a].seq /\ c \in Conn
  <2>1. p \in 1..ep[a].seq
    BY <1>1, <1>3 DEF Local
  <2> QED  BY <1>3, <2>1, RunFacts
<1>5. f \in AnyFrame(a) /\ f.type = "ack" /\ f.seq = p - 1
  BY <1>4, FrameTypes
<1> HIDE DEF f
<1>6. /\ s \in Endpoint(a) /\ ep' = [ep EXCEPT ![a] = s]
      /\ s.task = ep[a].task /\ s.conn = ep[a].conn /\ s.queue = ep[a].queue
      /\ s.outbox = ep[a].outbox /\ s.unacked = ep[a].unacked /\ s.acked = ep[a].acked
      /\ s.ack = p /\ s.pending = None /\ s.writing = "none"
      /\ s.hold = ep[a].hold /\ s.slot = ep[a].slot /\ s.seq = ep[a].seq
  <2>1. ep' = [ep EXCEPT ![a] = s]
    BY <1>1, <1>3
  <2>2. s \in Endpoint(a)
    BY <1>3, <1>4 DEF Endpoint
  <2> QED  BY <1>3, <2>1, <2>2 DEF Endpoint
<1> HIDE DEF s
<1>7. DOMAIN ep' = Side /\ ep'[a] = s /\ ep'[b] = ep[b] /\ \A e \in Side : ep'[e] \in Endpoint(e)
  BY <1>3, <1>6, SideSet
<1>8. /\ TypeWire' /\ OtherWires(c, a) /\ wire[c][a] \in Seq(AnyFrame(a))
      /\ \/ wire'[c][a] = wire[c][a]
         \/ wire'[c][a] = Append(wire[c][a], f) /\ Reaches(a, c)
      /\ \A d \in Conn, x \in Side : \A i \in 1..Len(wire'[d][x]) :
           \/ \E j \in 1..Len(wire[d][x]) : wire'[d][x][i] = wire[d][x][j]
           \/ d = c /\ x = a /\ wire'[d][x][i] = f
  <2>1. TypeDup /\ c \in Conn /\ Wrote(a, c, f)
    BY <1>1, <1>3, <1>4 DEF Wrote
  <2> HIDE DEF c
  <2> QED  BY <2>1, <1>5, WireWritten
<1>9. /\ \A d \in Conn, e \in Side : d > conns => wire'[d][e] = wire[d][e]
      /\ \A d \in Conn : wire'[d][b] = wire[d][b]
      /\ \A d \in Conn : d # c => wire'[d][a] = wire[d][a]
  BY <1>3, <1>8, WireKept
<1>10. TypeDup'
  <2>1. DOMAIN outcome' = Side /\ \A e \in Side : outcome'[e] \in [Msg(e) -> Outcomes]
    BY <1>1, <1>3 DEF TypeDup
  <2> QED  BY <2>1, <1>1, <1>3, <1>7, <1>8, TypeStep
<1>11. SameRx(a) /\ SameTx(a) /\ SameWrite(a)
  BY <1>1, <1>6, <1>7 DEF SameRx, SameTx, SameWrite, Write
<1>12. /\ Links' /\ Local(b)' /\ Ordered(a)' /\ Ordered(b)' /\ Runs(b)'
       /\ SameRx(b) /\ SameTx(b) /\ SameWrite(b)
  BY <1>1, <1>7, <1>9, <1>10, <1>11, OtherKept
<1>13. Local(a)'
  BY <1>1, <1>3, <1>4, <1>6, <1>7 DEF Local
<1>14. Runs(a)'
  <2>1. ep'[b].seq >= ep[b].seq
    BY <1>3, <1>7
  <2> QED  BY <1>3, <1>10, <1>11, <2>1, RunsKept
<1>q. /\ ep'[a].acked = ep[a].acked /\ ep'[b].acked = ep[b].acked /\ outcome' = outcome
      /\ ep'[a].seq = ep[a].seq /\ ep'[b].seq = ep[b].seq
  BY <1>1, <1>6, <1>7
<1>15. Acked(a)'
  <2>1. Acked(a)
    BY <1>3
  <2> QED  BY <2>1, <1>q, <1>9 DEF Acked
<1>16. Acked(b)'
  <2>1. ASSUME NEW d \in Conn, NEW i \in 1..Len(wire'[d][a])
        PROVE  \/ \E j \in 1..Len(wire[d][a]) : wire'[d][a][i] = wire[d][a][j]
               \/ wire'[d][a][i].type = "ack" => wire'[d][a][i].seq < ep[a].seq
    <3>1. f.seq < ep[a].seq
      BY <1>4, <1>5
    <3> QED  BY <3>1, <1>8
  <2>2. ep'[b].acked = ep[b].acked /\ outcome'[b] = outcome[b] /\ ep'[a].seq >= ep[a].seq
    <3>1. ep[a].seq \in Nat
      BY <1>3
    <3> QED  BY <3>1, <1>q
  <2> QED  BY <2>1, <2>2, <1>2, <1>3, <1>10, AckedKept
<1>17. Arrived(a)'
  <2>1. ASSUME NEW d \in Conn, NEW i \in 1..Len(wire'[d][a])
        PROVE  \/ \E j \in 1..Len(wire[d][a]) : wire'[d][a][i] = wire[d][a][j]
               \/ wire'[d][a][i].type = "data" => wire'[d][a][i].seq < posted[a]
    BY <1>5, <1>8
  <2> QED  BY <2>1, <1>1, <1>3, <1>12, ArrivedKept
<1>18. Arrived(b)'
  <2>1. SameRx(Other(b)) /\ posted'[b] = posted[b]
    BY <1>1, <1>2, <1>11
  <2> QED  BY <1>2, <1>3, <1>9, <2>1, ArrivedKept
<1>19. Flow(b)'
  <2>1. SameRx(Other(b))
    BY <1>2, <1>11
  <2> QED  BY <2>1, <1>1, <1>2, <1>3, <1>9, <1>12, FlowSame
<1>20. Flow(a)'
  <2> SUFFICES ASSUME NEW d \in Conn PROVE FlowOn(a, d)'
    BY DEF Flow
  <2>1. FlowOn(a, d) /\ Due(b, d)' = Due(b, d) /\ (Live(b, d)' <=> Live(b, d))
    BY <1>1, <1>2, <1>3, <1>12, DueKept DEF Flow
  <2>2. CASE d # c
    BY <2>1, <2>2, <1>1, <1>9, <1>11, FlowKept DEF SameWrite
  <2>3. CASE d = c
    <3>1. Write(a) \in Nat
      BY <1>3, WriteNat
    <3> QED  BY <3>1, <2>1, <2>3, <1>1, <1>3, <1>5, <1>8, <1>11, <1>12, FlowWritten
  <2> QED  BY <2>2, <2>3
<1> QED  BY <1>2, <1>10, <1>12, <1>13, <1>14, <1>15, <1>16, <1>17, <1>18, <1>19, <1>20 DEF DupInv

\* Where a message goes that was written: to the end of the deque, or nowhere when it is
\* acked already; nothing else is in the deque then.
LEMMA Pushed ==
  ASSUME NEW u \in Seq(Nat), NEW x \in Seq(Nat), x # <<>>, NEW first \in Nat, NEW acked \in Int,
         NEW top \in Nat, first <= top, acked < top,
         \A i \in 1..Len(u) : u[i] = first + i - 1 /\ u[i] > acked,
         \A i \in 1..Len(x) : x[i] = (first + Len(u)) + i - 1
  PROVE  LET m == Head(x)
             v == IF m <= acked THEN u ELSE Append(u, m)
             new == IF m <= acked THEN first + 1 ELSE first
         IN  /\ m = first + Len(u) /\ Tail(x) \in Seq(Nat) /\ Len(Tail(x)) = Len(x) - 1
             /\ v \in Seq(Nat) /\ new \in 0..top
             /\ new + Len(v) = first + Len(u) + 1
             /\ \A i \in 1..Len(v) : v[i] = new + i - 1 /\ v[i] > acked
             /\ \A i \in 1..Len(Tail(x)) : Tail(x)[i] = (first + Len(u) + 1) + i - 1
<1> DEFINE m == Head(x)
           n == Len(u)
           t == Tail(x)
<1>1. /\ t \in Seq(Nat) /\ Len(x) \in Nat \ {0} /\ Len(t) = Len(x) - 1
      /\ (\A i \in 1..(Len(x) - 1) : t[i] = x[i + 1])
      /\ m = x[1] /\ x[1] \in Nat /\ 1 \in 1..Len(x)
  BY Tailed
<1>2. n \in Nat
  OBVIOUS
<1>3. m = first + n
  <2>1. x[1] = (first + n) + 1 - 1
    BY <1>1
  <2> QED  BY <1>1, <1>2, <2>1
<1> HIDE DEF t, n
<1>4. ASSUME NEW i \in 1..Len(t) PROVE t[i] = (first + n + 1) + i - 1
  <2>1. i \in 1..(Len(x) - 1) /\ i + 1 \in 1..Len(x) /\ i \in Int
    BY <1>1
  <2>2. t[i] = x[i + 1] /\ x[i + 1] = (first + n) + (i + 1) - 1
    BY <2>1, <1>1 DEF n
  <2> QED  BY <2>1, <2>2, <1>2
<1> HIDE DEF m
<1>5. CASE m <= acked
  <2>1. n = 0
    <3> SUFFICES ASSUME n # 0 PROVE FALSE
      OBVIOUS
    <3>1. 1 \in 1..n
      BY <1>2
    <3>2. u[1] = first + 1 - 1 /\ u[1] > acked
      BY <3>1 DEF n
    <3> QED  BY <3>1, <3>2, <1>2, <1>3, <1>5
  <2>2. first + 1 \in 0..top /\ (first + 1) + n = first + n + 1
    BY <2>1, <1>2, <1>3, <1>5
  <2>3. \A i \in 1..Len(u) : FALSE
    BY <2>1 DEF n
  <2> QED  BY <2>2, <2>3, <1>1, <1>3, <1>4, <1>5 DEF m, n, t
<1>6. CASE ~(m <= acked)
  <2> DEFINE v == Append(u, m)
  <2>1. /\ v \in Seq(Nat) /\ Len(v) = n + 1 /\ v[n + 1] = m /\ \A i \in 1..n : v[i] = u[i]
    BY <1>1, Appended DEF m, n
  <2> HIDE DEF v
  <2>2. ASSUME NEW i \in 1..Len(v) PROVE v[i] = first + i - 1 /\ v[i] > acked
    <3>1. i \in 1..n \/ i = n + 1
      BY <2>1, <1>2
    <3>2. CASE i \in 1..n
      BY <3>2, <2>1 DEF n
    <3>3. CASE i = n + 1
      BY <3>3, <2>1, <1>2, <1>3, <1>6
    <3> QED  BY <3>1, <3>2, <3>3
  <2>3. first \in 0..top /\ first + Len(v) = first + n + 1
    BY <2>1, <1>2
  <2> QED  BY <2>1, <2>2, <2>3, <1>1, <1>3, <1>4, <1>6 DEF m, n, t, v
<1> QED  BY <1>5, <1>6

\* A message is out: it is the next one, and no number is ahead of it.
LEMMA DoneDataStep ==
  ASSUME DupInv, NEW a \in Side, DoneData(a) PROVE DupInv'
<1> DEFINE b == Other(a)
           c == ep[a].conn
           m == Head(ep[a].outbox)
           t == Tail(ep[a].outbox)
           u == ep[a].unacked
           early == m <= ep[a].acked
           v == IF early THEN u ELSE Append(u, m)
           new == IF early THEN First(a) + 1 ELSE First(a)
           f == Data(a, m)
           s == [ep[a] EXCEPT !.writing = "none", !.outbox = t, !.unacked = v]
<1>1. /\ Running(a) /\ ep[a].writing = "data"
      /\ ep' = [ep EXCEPT ![a].writing = "none", ![a].outbox = Tail(@),
                          ![a].unacked = IF early THEN @ ELSE Append(@, m)]
      /\ outcome' = IF early THEN [outcome EXCEPT ![a][m] = "accepted"] ELSE outcome
      /\ wire' = [wire EXCEPT ![c][a] = Arriving(a, c, <<f>>)]
      /\ UNCHANGED <<posted, delivered, inbox, open, broken, offered, conns>>
  BY DEF DoneData, Idle, appVars, linkVars
<1>2. /\ b \in Side /\ b # a /\ Other(b) = a /\ \A d \in Side : d = a \/ d = b
  BY Sides
<1>3. /\ TypeDup /\ Links /\ ep[a] \in Endpoint(a) /\ DOMAIN ep = Side /\ ep[a].task = "run"
      /\ Local(a) /\ Ordered(a) /\ Runs(a) /\ Acked(a) /\ Arrived(a) /\ Flow(a)
      /\ Local(b) /\ Ordered(b) /\ Runs(b) /\ Acked(b) /\ Arrived(b) /\ Flow(b)
  BY <1>1, <1>2 DEF DupInv, TypeDup, Running
<1>4. /\ ep[b].seq \in Nat /\ ep[a].seq \in Nat /\ ep[a].acked \in Int /\ u \in Seq(Nat)
      /\ ep[a].outbox \in Seq(Nat) /\ ep[a].outbox # <<>> /\ c \in Conn
      /\ Len(ep[a].outbox) \in Nat /\ Len(ep[a].queue) \in Nat
  BY <1>1, <1>2, <1>3, EndpointFacts, RunFacts DEF Local
<1>5. /\ Write(a) \in Nat /\ First(a) \in Nat /\ Write(a) = First(a) + Len(u)
      /\ Write(a) + Len(ep[a].outbox) + Len(ep[a].queue) = posted[a]
  BY <1>3, WriteNat
<1>6. /\ First(a) <= ep[b].seq /\ ep[a].acked < ep[b].seq
      /\ \A i \in 1..Len(u) : u[i] = First(a) + i - 1 /\ u[i] > ep[a].acked
      /\ \A i \in 1..Len(ep[a].outbox) : ep[a].outbox[i] = (First(a) + Len(u)) + i - 1
      /\ \A i \in 1..Len(ep[a].queue) :
           ep[a].queue[i] = Write(a) + Len(ep[a].outbox) + i - 1
  <2>1. First(a) \in 0..ep[b].seq
    BY <1>3 DEF Runs
  <2>2. First(a) <= ep[b].seq
    BY <2>1, <1>4
  <2>3. /\ \A i \in 1..Len(u) : u[i] = First(a) + i - 1 /\ u[i] > ep[a].acked
        /\ \A i \in 1..Len(ep[a].outbox) : ep[a].outbox[i] = Write(a) + i - 1
        /\ \A i \in 1..Len(ep[a].queue) :
             ep[a].queue[i] = Write(a) + Len(ep[a].outbox) + i - 1
    BY <1>3 DEF Runs
  <2>4. ep[a].acked < ep[b].seq
    BY <1>3 DEF Acked
  <2> QED  BY <2>2, <2>3, <2>4, <1>5
<1>7. /\ m = Write(a) /\ t \in Seq(Nat) /\ Len(t) = Len(ep[a].outbox) - 1
      /\ v \in Seq(Nat) /\ new \in 0..ep[b].seq /\ new + Len(v) = Write(a) + 1
      /\ \A i \in 1..Len(v) : v[i] = new + i - 1 /\ v[i] > ep[a].acked
      /\ \A i \in 1..Len(t) : t[i] = (Write(a) + 1) + i - 1
  <2> DEFINE first == First(a)
             x == ep[a].outbox
             top == ep[b].seq
             acked == ep[a].acked
  <2>1. /\ u \in Seq(Nat) /\ x \in Seq(Nat) /\ x # <<>> /\ first \in Nat /\ acked \in Int
        /\ top \in Nat /\ first <= top /\ acked < top
        /\ \A i \in 1..Len(u) : u[i] = first + i - 1 /\ u[i] > acked
        /\ \A i \in 1..Len(x) : x[i] = (first + Len(u)) + i - 1
    BY <1>4, <1>5, <1>6
  <2> HIDE DEF first, x, top, acked, u
  <2>2. LET mm == Head(x)
            vv == IF mm <= acked THEN u ELSE Append(u, mm)
            nn == IF mm <= acked THEN first + 1 ELSE first
        IN  /\ mm = first + Len(u) /\ Tail(x) \in Seq(Nat) /\ Len(Tail(x)) = Len(x) - 1
            /\ vv \in Seq(Nat) /\ nn \in 0..top
            /\ nn + Len(vv) = first + Len(u) + 1
            /\ \A i \in 1..Len(vv) : vv[i] = nn + i - 1 /\ vv[i] > acked
            /\ \A i \in 1..Len(Tail(x)) : Tail(x)[i] = (first + Len(u) + 1) + i - 1
    BY <2>1, Pushed
  <2>3. first + Len(u) = Write(a) /\ first + Len(u) + 1 = Write(a) + 1
    BY <1>5 DEF first
  <2> QED  BY <2>2, <2>3 DEF first, x, top, acked
<1>8. m \in Nat /\ m < posted[a] /\ m \in Msg(a) /\ (early => m < ep[b].seq)
  <2>1. Len(ep[a].outbox) # 0 /\ posted[a] <= Posts(a) /\ Posts(a) \in Nat /\ posted[a] \in Nat
    BY <1>3, <1>4, BoundsAssumption DEF TypeDup, Posts
  <2>2. m \in Nat /\ m < posted[a]
    <3> DEFINE x == Len(ep[a].outbox)
               q == Len(ep[a].queue)
               p == posted[a]
    <3>1. x \in Nat /\ x # 0 /\ q \in Nat /\ p \in Nat /\ Write(a) \in Nat
          /\ Write(a) + x + q = p /\ m = Write(a)
      BY <2>1, <1>4, <1>5, <1>7
    <3> HIDE DEF x, q, p, m
    <3>2. m \in Nat /\ m < p
      BY <3>1
    <3> QED  BY <3>2 DEF p
  <2>3. m \in Msg(a)
    BY <2>1, <2>2 DEF Msg
  <2>4. early => m < ep[b].seq
    BY <2>2, <1>4, <1>6
  <2> QED  BY <2>2, <2>3, <2>4
<1>9. f \in AnyFrame(a) /\ f.type = "data" /\ f.seq = m /\ f # Torn
  BY <1>8, FrameTypes
<1>10. /\ s \in Endpoint(a) /\ ep' = [ep EXCEPT ![a] = s]
       /\ s.task = ep[a].task /\ s.conn = ep[a].conn /\ s.queue = ep[a].queue
       /\ s.outbox = t /\ s.unacked = v /\ s.acked = ep[a].acked
       /\ s.ack = ep[a].ack /\ s.pending = ep[a].pending /\ s.writing = "none"
       /\ s.hold = ep[a].hold /\ s.slot = ep[a].slot /\ s.seq = ep[a].seq
  <2>1. ep' = [ep EXCEPT ![a] = s]
    BY <1>1, <1>3
  <2> HIDE DEF v, t
  <2>2. s \in Endpoint(a)
    BY <1>3, <1>7 DEF Endpoint
  <2> QED  BY <1>3, <2>1, <2>2 DEF Endpoint
<1>o. /\ DOMAIN outcome' = Side /\ (\A e \in Side : outcome'[e] \in [Msg(e) -> Outcomes])
      /\ outcome'[b] = outcome[b]
      /\ \A k \in Msg(a) : outcome'[a][k] = "accepted" =>
                             outcome[a][k] = "accepted" \/ k < ep[b].seq
  <2>1. DOMAIN outcome = Side /\ \A e \in Side : outcome[e] \in [Msg(e) -> Outcomes]
    BY <1>3 DEF TypeDup
  <2>2. CASE ~early
    <3>1. outcome' = outcome
      BY <1>1, <2>2
    <3> QED  BY <2>1, <3>1
  <2>3. CASE early
    <3> DEFINE o == [outcome[a] EXCEPT ![m] = "accepted"]
    <3>1. outcome' = [outcome EXCEPT ![a][m] = "accepted"] /\ m \in Msg(a) /\ m < ep[b].seq
      BY <1>1, <1>8, <2>3
    <3> HIDE DEF m
    <3>2. /\ outcome' = [outcome EXCEPT ![a] = o] /\ o \in [Msg(a) -> Outcomes]
          /\ \A k \in Msg(a) : o[k] = IF k = m THEN "accepted" ELSE outcome[a][k]
      BY <3>1, <1>3, OutcomeOne DEF Outcomes
    <3> HIDE DEF o
    <3>3. /\ DOMAIN outcome' = Side /\ outcome'[a] = o /\ outcome'[b] = outcome[b]
          /\ \A e \in Side : outcome'[e] \in [Msg(e) -> Outcomes]
      BY <3>2, <1>3, OutcomeSet
    <3> QED  BY <3>1, <3>2, <3>3
  <2> QED  BY <2>2, <2>3
<1>w. wire' = [wire EXCEPT ![c][a] = Arriving(a, c, <<f>>)]
      /\ UNCHANGED <<posted, delivered, inbox, open, broken, offered, conns>>
  BY <1>1
<1> HIDE DEF s, f, v, t, m, new, early
<1>11. DOMAIN ep' = Side /\ ep'[a] = s /\ ep'[b] = ep[b] /\ \A e \in Side : ep'[e] \in Endpoint(e)
  BY <1>3, <1>10, SideSet
<1>12. /\ TypeWire' /\ OtherWires(c, a) /\ wire[c][a] \in Seq(AnyFrame(a))
       /\ \/ wire'[c][a] = wire[c][a] /\ (open[c][b] => ~Reaches(a, c))
          \/ wire'[c][a] = Append(wire[c][a], f) /\ Reaches(a, c)
       /\ \A d \in Conn, x \in Side : \A i \in 1..Len(wire'[d][x]) :
            \/ \E j \in 1..Len(wire[d][x]) : wire'[d][x][i] = wire[d][x][j]
            \/ d = c /\ x = a /\ wire'[d][x][i] = f
  <2>1. TypeDup /\ c \in Conn /\ Wrote(a, c, f)
    BY <1>w, <1>3, <1>4 DEF Wrote
  <2> HIDE DEF c
  <2> QED  BY <2>1, <1>9, WireWritten
<1>13. /\ \A d \in Conn, e \in Side : d > conns => wire'[d][e] = wire[d][e]
       /\ \A d \in Conn : wire'[d][b] = wire[d][b]
       /\ \A d \in Conn : d # c => wire'[d][a] = wire[d][a]
  BY <1>3, <1>12, WireKept
<1>14. TypeDup'
  BY <1>w, <1>o, <1>3, <1>11, <1>12, TypeStep
<1>15. SameRx(a)
  BY <1>10, <1>11 DEF SameRx
<1>16. /\ Links' /\ Local(b)' /\ Ordered(a)' /\ Ordered(b)' /\ Runs(b)'
       /\ SameRx(b) /\ SameTx(b) /\ SameWrite(b)
  BY <1>w, <1>11, <1>13, <1>14, <1>15, OtherKept
<1>17. Local(a)'
  BY <1>w, <1>3, <1>10, <1>11 DEF Local
<1>18. Write(a)' = Write(a) + 1 /\ First(a)' = new
  <2> DEFINE p == posted[a]
             q == Len(ep[a].queue)
             x == Len(ep[a].outbox)
  <2>1. Write(a)' = p - q - Len(t) /\ First(a)' = p - q - Len(t) - Len(v) /\ Write(a) = p - q - x
    BY <1>w, <1>10, <1>11 DEF Write, First
  <2>2. p \in Nat /\ q \in Nat /\ x \in Nat /\ Len(t) = x - 1 /\ Len(v) \in Nat
        /\ new \in Nat /\ new + Len(v) = Write(a) + 1
    BY <1>3, <1>4, <1>7, EndpointFacts
  <2> HIDE DEF p, q, x
  <2> QED  BY <2>1, <2>2
<1>19. Runs(a)'
  <2>1. \A i \in 1..Len(ep[a].queue) : ep[a].queue[i] = (Write(a) + 1) + Len(t) + i - 1
    <3> SUFFICES ASSUME NEW i \in 1..Len(ep[a].queue)
                 PROVE  ep[a].queue[i] = (Write(a) + 1) + Len(t) + i - 1
      OBVIOUS
    <3>1. ep[a].queue[i] = Write(a) + Len(ep[a].outbox) + i - 1
      BY <1>6
    <3>2. Len(t) = Len(ep[a].outbox) - 1
      BY <1>7
    <3> DEFINE x == Len(ep[a].outbox)
               y == Len(t)
               z == ep[a].queue[i]
    <3>3. /\ x \in Nat /\ y = x - 1 /\ Write(a) \in Nat /\ z = Write(a) + x + i - 1 /\ i \in Int
      BY <3>1, <3>2, <1>4, <1>5
    <3> HIDE DEF x, y, z
    <3>4. z = (Write(a) + 1) + y + i - 1
      BY <3>3
    <3> QED  BY <3>4 DEF y, z
  <2>2. \A i \in 1..Len(v) : v[i] = First(a)' + i - 1 /\ v[i] > ep[a].acked
    BY <1>7, <1>18
  <2>3. \A i \in 1..Len(t) : t[i] = Write(a)' + i - 1
    BY <1>7, <1>18
  <2>4. First(a)' \in 0..ep[b].seq
    BY <1>7, <1>18
  <2>5. \A i \in 1..Len(ep[a].queue) : ep[a].queue[i] = Write(a)' + Len(t) + i - 1
    BY <2>1, <1>18
  <2> QED  BY <1>10, <1>11, <2>2, <2>3, <2>4, <2>5 DEF Runs
<1>20. Acked(a)'
  <2>1. Acked(a) /\ ep'[a].acked = ep[a].acked /\ ep'[b].seq = ep[b].seq
    BY <1>3, <1>10, <1>11
  <2> QED  BY <2>1, <1>o, <1>13 DEF Acked
<1>21. Acked(b)'
  <2>1. ASSUME NEW d \in Conn, NEW i \in 1..Len(wire'[d][a])
        PROVE  \/ \E j \in 1..Len(wire[d][a]) : wire'[d][a][i] = wire[d][a][j]
               \/ wire'[d][a][i].type = "ack" => wire'[d][a][i].seq < ep[a].seq
    BY <1>9, <1>12
  <2>2. ep'[b].acked = ep[b].acked /\ outcome'[b] = outcome[b] /\ ep'[a].seq = ep[a].seq
    BY <1>o, <1>10, <1>11
  <2>3. ep'[a].seq >= ep[a].seq
    BY <2>2, <1>4
  <2> QED  BY <2>1, <2>2, <2>3, <1>2, <1>3, <1>14, AckedKept
<1>22. Arrived(a)'
  <2>1. ASSUME NEW d \in Conn, NEW i \in 1..Len(wire'[d][a])
        PROVE  \/ \E j \in 1..Len(wire[d][a]) : wire'[d][a][i] = wire[d][a][j]
               \/ wire'[d][a][i].type = "data" => wire'[d][a][i].seq < posted[a]
    BY <1>8, <1>9, <1>12
  <2> QED  BY <2>1, <1>w, <1>3, <1>16, ArrivedKept
<1>23. Arrived(b)'
  <2>1. SameRx(Other(b)) /\ posted'[b] = posted[b]
    BY <1>w, <1>2, <1>15
  <2> QED  BY <1>2, <1>3, <1>13, <2>1, ArrivedKept
<1>24. Flow(b)'
  <2>1. SameRx(Other(b))
    BY <1>2, <1>15
  <2> QED  BY <2>1, <1>w, <1>2, <1>3, <1>13, <1>16, FlowSame
<1>25. Flow(a)'
  <2> SUFFICES ASSUME NEW d \in Conn PROVE FlowOn(a, d)'
    BY DEF Flow
  <2>1. FlowOn(a, d) /\ Due(b, d)' = Due(b, d) /\ (Live(b, d)' <=> Live(b, d))
    BY <1>w, <1>2, <1>3, <1>16, DueKept DEF Flow
  <2>2. CASE d # c
    <3>1. ep'[a].conn # d /\ wire'[d][a] = wire[d][a]
      BY <2>2, <1>10, <1>11, <1>13
    <3> QED  BY <3>1, <2>1, <1>w, FlowKept
  <2>3. CASE d = c
    <3> DEFINE w == wire[d][a]
               due == Due(b, d)
    <3> SUFFICES ASSUME Live(b, d)
                 PROVE  /\ Stepwise(wire'[d][a], due)
                        /\ Reaches(a, d)' =>
                             Follows(wire'[d][a], Len(wire'[d][a]), due, Write(a) + 1)
      BY <2>1, <2>3, <1>18 DEF FlowOn
    <3>1. open[d][b] /\ Stepwise(w, due)
          /\ (Reaches(a, d) => Follows(w, Len(w), due, Write(a)))
      BY <2>1, <2>3, <1>3 DEF Live, FlowOn
    <3>2. CASE wire'[d][a] = w /\ ~Reaches(a, d)
      <4>1. ~Reaches(a, d)'
        BY <3>2, <1>w DEF Reaches
      <4> QED  BY <3>1, <3>2, <4>1
    <3>3. CASE wire'[d][a] = Append(w, f) /\ Reaches(a, d)
      <4> HIDE DEF w, due
      <4>1. Follows(w, Len(w), due, f.seq) /\ f.seq + 1 = Write(a) + 1 /\ w \in Seq(AnyFrame(a))
        BY <3>1, <3>3, <2>3, <1>7, <1>9, <1>12 DEF w
      <4>2. Stepwise(Append(w, f), due)
            /\ Follows(Append(w, f), Len(Append(w, f)), due, f.seq + 1)
        BY <3>1, <4>1, <1>9, StepwiseAppend
      <4> QED  BY <4>1, <4>2, <3>3
    <3> QED  BY <3>1, <3>2, <3>3, <2>3, <1>12
  <2> QED  BY <2>2, <2>3
<1> QED  BY <1>2, <1>14, <1>16, <1>17, <1>19, <1>20, <1>21, <1>22, <1>23, <1>24, <1>25 DEF DupInv

-----------------------------------------------------------------------------
(* The end of a connection.                                                *)

Reasons == {"io", "closed", "timeout", "appclosed", "cancelled"}

\* A loop ends: what the side had in hand will be sent again, and a frame that was cut
\* off keeps the ones after it from arriving.
LEMMA LoopEndsStep ==
  ASSUME DupInv, NEW a \in Side, Running(a), NEW why \in Reasons, LoopEnds(a, why)
  PROVE  DupInv'
<1> DEFINE b == Other(a)
           c == ep[a].conn
           s == [ep[a] EXCEPT !.task = "clean", !.why = why, !.hold = None, !.pending = None,
                              !.writing = "none", !.slot = NoFrame]
<1>1. /\ ep' = [ep EXCEPT ![a] = s] /\ (UNCHANGED wire \/ Wrote(a, c, Torn))
      /\ UNCHANGED <<posted, outcome, delivered, inbox, open, broken, offered, conns>>
  BY DEF LoopEnds, appVars, linkVars, Wrote
<1>2. /\ b \in Side /\ b # a /\ Other(b) = a /\ \A d \in Side : d = a \/ d = b
  BY Sides
<1>3. /\ TypeDup /\ Links /\ ep[a] \in Endpoint(a) /\ DOMAIN ep = Side /\ ep[a].task = "run"
      /\ Local(a) /\ Ordered(a) /\ Runs(a) /\ Acked(a) /\ Arrived(a) /\ Flow(a)
      /\ Local(b) /\ Ordered(b) /\ Runs(b) /\ Acked(b) /\ Arrived(b) /\ Flow(b)
  BY <1>2 DEF DupInv, TypeDup, Running
<1>4. ep[b].seq \in Nat /\ ep[a].seq \in Nat /\ c \in Conn
  BY <1>2, <1>3, EndpointFacts, RunFacts
<1>5. /\ s \in Endpoint(a)
      /\ s.task = "clean" /\ s.conn = ep[a].conn /\ s.queue = ep[a].queue
      /\ s.outbox = ep[a].outbox /\ s.unacked = ep[a].unacked /\ s.acked = ep[a].acked
      /\ s.ack = ep[a].ack /\ s.pending = None /\ s.writing = "none"
      /\ s.hold = None /\ s.slot = NoFrame /\ s.seq = ep[a].seq
  BY <1>3 DEF Endpoint, Reasons
<1> HIDE DEF s
<1>6. DOMAIN ep' = Side /\ ep'[a] = s /\ ep'[b] = ep[b] /\ \A e \in Side : ep'[e] \in Endpoint(e)
  BY <1>1, <1>3, <1>5, SideSet
<1>7. Torn \in AnyFrame(a) /\ Torn.type = "torn"
  BY FrameTypes
<1>8. /\ TypeWire' /\ OtherWires(c, a)
      /\ \/ wire'[c][a] = wire[c][a]
         \/ wire'[c][a] = Append(wire[c][a], Torn) /\ Reaches(a, c)
      /\ \A d \in Conn, x \in Side : \A i \in 1..Len(wire'[d][x]) :
           \/ \E j \in 1..Len(wire[d][x]) : wire'[d][x][i] = wire[d][x][j]
           \/ wire'[d][x][i] = Torn
  <2>1. CASE UNCHANGED wire
    BY <2>1, <1>3 DEF TypeDup, TypeWire, OtherWires
  <2>2. CASE Wrote(a, c, Torn)
    <3>1. TypeDup /\ c \in Conn
      BY <1>3, <1>4
    <3> HIDE DEF c
    <3> QED  BY <3>1, <2>2, <1>7, WireWritten
  <2> QED  BY <2>1, <2>2, <1>1
<1>9. /\ \A d \in Conn, e \in Side : d > conns => wire'[d][e] = wire[d][e]
      /\ \A d \in Conn : wire'[d][b] = wire[d][b]
      /\ \A d \in Conn : d # c => wire'[d][a] = wire[d][a]
  BY <1>3, <1>8, WireKept
<1>10. TypeDup'
  <2>1. DOMAIN outcome' = Side /\ \A e \in Side : outcome'[e] \in [Msg(e) -> Outcomes]
    BY <1>1, <1>3 DEF TypeDup
  <2> QED  BY <2>1, <1>1, <1>3, <1>6, <1>8, TypeStep
<1>11. /\ SameTx(a) /\ SameTx(b) /\ SameRx(b) /\ SameWrite(b)
       /\ ep'[a].seq = ep[a].seq /\ ep'[b].seq = ep[b].seq
  <2>1. posted' = posted /\ ep[a].task # "ended"
    BY <1>1, <1>3
  <2> QED  BY <2>1, <1>5, <1>6 DEF SameTx, SameRx, SameWrite, Write
<1>12. Links'
  <2>1. ep'["A"].conn = ep["A"].conn
    BY <1>2, <1>5, <1>6 DEF Side
  <2>2. Links /\ UNCHANGED <<open, offered, conns>>
    BY <1>1, <1>3
  <2> QED  BY <2>1, <2>2, <1>9 DEF Links
<1>13. Local(a)' /\ Local(b)'
  <2>1. UNCHANGED <<open, conns>> /\ Local(a) /\ Local(b) /\ ep[a].task = "run"
    BY <1>1, <1>3
  <2> QED  BY <2>1, <1>5, <1>6 DEF Local
<1>14. Ordered(a)' /\ Ordered(b)'
  <2>1. UNCHANGED delivered /\ Ordered(a) /\ Ordered(b)
    BY <1>1, <1>3
  <2> QED  BY <2>1, <1>11 DEF Ordered
<1>15. Runs(a)' /\ Runs(b)'
  <2>1. ep'[b].seq >= ep[b].seq /\ ep'[a].seq >= ep[a].seq
    BY <1>4, <1>11
  <2>2. Runs(a)'
    BY <2>1, <1>3, <1>10, <1>11, RunsKept
  <2>3. Runs(b)'
    BY <2>1, <1>2, <1>3, <1>10, <1>11, RunsKept
  <2> QED  BY <2>2, <2>3
<1>q. /\ ep'[a].acked = ep[a].acked /\ ep'[b].acked = ep[b].acked /\ outcome' = outcome
      /\ ep'[a].seq >= ep[a].seq /\ posted' = posted
  <2>1. ep'[a].seq >= ep[a].seq
    BY <1>4, <1>11
  <2> QED  BY <2>1, <1>1, <1>5, <1>6
<1>16. Acked(a)'
  <2>1. Acked(a)
    BY <1>3
  <2> QED  BY <2>1, <1>q, <1>9, <1>11 DEF Acked
<1>17. Acked(b)'
  <2>1. ASSUME NEW d \in Conn, NEW i \in 1..Len(wire'[d][a])
        PROVE  \/ \E j \in 1..Len(wire[d][a]) : wire'[d][a][i] = wire[d][a][j]
               \/ wire'[d][a][i].type = "ack" => wire'[d][a][i].seq < ep[a].seq
    BY <1>7, <1>8
  <2> QED  BY <2>1, <1>q, <1>2, <1>3, <1>10, AckedKept
<1>18. Arrived(a)'
  <2>1. ASSUME NEW d \in Conn, NEW i \in 1..Len(wire'[d][a])
        PROVE  \/ \E j \in 1..Len(wire[d][a]) : wire'[d][a][i] = wire[d][a][j]
               \/ wire'[d][a][i].type = "data" => wire'[d][a][i].seq < posted[a]
    BY <1>7, <1>8
  <2> QED  BY <2>1, <1>q, <1>3, <1>11, ArrivedKept
<1>19. Arrived(b)'
  <2>1. Arrived(b) /\ posted' = posted
    BY <1>q, <1>3
  <2> QED  BY <2>1, <1>2, <1>5, <1>6, <1>9 DEF Arrived
<1>20. Flow(a)'
  <2> SUFFICES ASSUME NEW d \in Conn PROVE FlowOn(a, d)'
    BY DEF Flow
  <2>1. FlowOn(a, d) /\ Due(b, d)' = Due(b, d) /\ (Live(b, d)' <=> Live(b, d))
    BY <1>1, <1>2, <1>3, <1>11, DueKept DEF Flow
  <2>2. ep'[a].task # "run" /\ UNCHANGED <<broken, open>>
    BY <1>1, <1>5, <1>6
  <2>3. CASE d # c
    BY <2>1, <2>2, <2>3, <1>9, FlowKept
  <2>4. CASE d = c
    BY <2>1, <2>2, <2>4, <1>3, <1>7, <1>8, <1>11, FlowWritten
  <2> QED  BY <2>3, <2>4
<1>21. Flow(b)'
  <2> SUFFICES ASSUME NEW d \in Conn PROVE FlowOn(b, d)'
    BY DEF Flow
  <2>1. FlowOn(b, d) /\ UNCHANGED <<broken, open>>
    BY <1>1, <1>3 DEF Flow
  <2>2. CASE d = c
    <3>1. ~Live(a, d)'
      BY <2>2, <1>5, <1>6 DEF Live
    <3> QED  BY <3>1, <1>2 DEF FlowOn
  <2>3. CASE d # c
    <3>1. Live(a, d)' => Live(a, d)
      BY <2>1, <2>3 DEF Live
    <3>2. Due(a, d) \subseteq Due(a, d)'
      BY <2>3, <1>11 DEF Due
    <3> QED  BY <3>1, <3>2, <2>1, <1>2, <1>9, <1>11, FlowKept DEF SameWrite
  <2> QED  BY <2>2, <2>3
<1> QED  BY <1>2, <1>10, <1>12, <1>13, <1>14, <1>15, <1>16, <1>17, <1>18, <1>19, <1>20, <1>21 DEF DupInv

\* Frames that are no messages follow anything.
LEMMA StepwiseQuiet ==
  ASSUME NEW e \in Side, NEW w \in Seq(AnyFrame(e)), NEW v \in Seq(AnyFrame(e)), NEW due,
         \A i \in 1..Len(v) : v[i].type # "data"
  PROVE  /\ \A i \in 1..Len(w \o v) : \/ \E j \in 1..Len(w) : (w \o v)[i] = w[j]
                                      \/ \E j \in 1..Len(v) : (w \o v)[i] = v[j]
         /\ Stepwise(w, due) => Stepwise(w \o v, due)
<1> DEFINE x == w \o v
<1>1. /\ Len(w) \in Nat /\ Len(v) \in Nat /\ Len(x) = Len(w) + Len(v)
      /\ \A i \in 1..Len(w) : x[i] = w[i]
      /\ \A i \in 1..Len(x) : i \notin 1..Len(w) => x[i] = v[i - Len(w)]
  OBVIOUS
<1> HIDE DEF x
<1>2. ASSUME NEW i \in 1..Len(x), i \notin 1..Len(w) PROVE x[i] = v[i - Len(w)] /\ i - Len(w) \in 1..Len(v)
  <2>1. i - Len(w) \in 1..Len(v)
    BY <1>1, <1>2
  <2> QED  BY <2>1, <1>1, <1>2
<1>3. ASSUME NEW i \in 1..Len(x)
      PROVE  (\E j \in 1..Len(w) : x[i] = w[j]) \/ (\E j \in 1..Len(v) : x[i] = v[j])
  <2>1. CASE i \in 1..Len(w)
    BY <2>1, <1>1
  <2>2. CASE i \notin 1..Len(w)
    BY <2>2, <1>2
  <2> QED  BY <2>1, <2>2
<1>4. ASSUME Stepwise(w, due), NEW i \in 1..Len(x), x[i].type = "data"
      PROVE  Follows(x, i - 1, due, x[i].seq)
  <2>1. i \in 1..Len(w)
    BY <1>2, <1>4
  <2>2. Follows(w, i - 1, due, w[i].seq) /\ x[i] = w[i]
    BY <2>1, <1>1, <1>4 DEF Stepwise
  <2>3. \A j \in 1..(i - 1) : j \in 1..Len(w)
    BY <2>1, <1>1
  <2> QED  BY <2>2, <2>3, <1>1 DEF Follows
<1> QED  BY <1>3, <1>4 DEF Stepwise, x

\* Side a is done with its connection: its hands are empty, and it keeps what was not
\* acked or has ended.
Left(a) ==
  /\ \/ ep'[a].task \in {"connect", "ended"} /\ ep'[a].conn = 0
     \/ ep'[a].task = "close" /\ ep'[a].conn = ep[a].conn /\ ep[a].task = "clean"
  /\ ep'[a].hold = None
  /\ ep'[a].slot = NoFrame /\ ep'[a].pending = None /\ ep'[a].writing = "none"
  /\ ep'[a].seq = ep[a].seq /\ ep'[a].ack <= ep[a].seq /\ ep'[a].acked \in {None, ep[a].acked}
  /\ ep'[a].task # "ended" => SameTx(a)

\* Frames that a writes in its cleanup.
Last(a, v) == \A i \in 1..Len(v) : /\ v[i].type # "data"
                                   /\ v[i].type = "ack" => v[i].seq < ep[a].seq

LeftWires(a) ==
  \A c \in Conn :
    /\ wire'[c][Other(a)] = wire[c][Other(a)] \/ (wire'[c][Other(a)] = <<>> /\ ~open'[c][a])
    /\ \/ wire'[c][a] = wire[c][a]
       \/ /\ c <= conns
          /\ \E v \in Seq(AnyFrame(a)) : Last(a, v) /\ wire'[c][a] = wire[c][a] \o v

LeftOpen(a) ==
  /\ \A c \in Conn : /\ open'[c][Other(a)] <=> open[c][Other(a)]
                     /\ open'[c][a] => open[c][a] /\ (c = ep[a].conn => ep'[a].task = "close")
                     /\ ep'[a].task = "close" /\ open[c][a] => open'[c][a]
  /\ offered' = {} \/ (offered' = offered /\ \A c \in offered : open'[c]["A"])

\* All that a side does in its cleanup and when it lets go of its connection.
LEMMA LeaveStep ==
  ASSUME DupInv, TypeDup', NEW a \in Side, Left(a), LeftWires(a), LeftOpen(a),
         ep'[Other(a)] = ep[Other(a)], outcome'[Other(a)] = outcome[Other(a)],
         \A m \in Msg(a) : outcome'[a][m] = "accepted" => outcome[a][m] = "accepted",
         UNCHANGED <<posted, delivered, broken, conns>>
  PROVE  DupInv'
<1> DEFINE b == Other(a)
<1>1. /\ b \in Side /\ b # a /\ Other(b) = a /\ \A d \in Side : d = a \/ d = b
  BY Sides
<1>2. /\ TypeDup /\ Links
      /\ Local(a) /\ Ordered(a) /\ Runs(a) /\ Acked(a) /\ Arrived(a) /\ Flow(a)
      /\ Local(b) /\ Ordered(b) /\ Runs(b) /\ Acked(b) /\ Arrived(b) /\ Flow(b)
  BY <1>1 DEF DupInv
<1>3. ep[b].seq \in Nat /\ ep[a].seq \in Nat /\ conns \in Nat
  <2>1. ep[b].seq \in Nat /\ ep[a].seq \in Nat
    BY <1>1, <1>2, EndpointFacts
  <2>2. conns \in 0..MaxConns
    BY <1>2 DEF TypeDup
  <2>3. MaxConns \in Nat
    BY BoundsAssumption
  <2> QED  BY <2>1, <2>2, <2>3
<1>4. SameTx(b) /\ SameRx(b) /\ SameWrite(b) /\ ep'[b].seq >= ep[b].seq /\ ep'[a].seq >= ep[a].seq
  <2>1. ep'[b].seq >= ep[b].seq /\ ep'[a].seq >= ep[a].seq
    BY <1>3 DEF Left
  <2> QED  BY <2>1 DEF SameTx, SameRx, SameWrite, Write
<1>5. ASSUME NEW d \in Conn, NEW i \in 1..Len(wire'[d][a])
      PROVE  \/ \E j \in 1..Len(wire[d][a]) : wire'[d][a][i] = wire[d][a][j]
             \/ /\ wire'[d][a][i].type # "data"
                /\ wire'[d][a][i].type = "ack" => wire'[d][a][i].seq < ep[a].seq
  <2>1. CASE wire'[d][a] = wire[d][a]
    BY <2>1
  <2>2. CASE wire'[d][a] # wire[d][a]
    <3>1. PICK v \in Seq(AnyFrame(a)) : Last(a, v) /\ wire'[d][a] = wire[d][a] \o v
      BY <2>2 DEF LeftWires
    <3>2. wire[d][a] \in Seq(AnyFrame(a)) /\ \A j \in 1..Len(v) : v[j].type # "data"
      BY <3>1, <1>2 DEF TypeDup, Last
    <3>3. \/ \E j \in 1..Len(wire[d][a]) : wire'[d][a][i] = wire[d][a][j]
          \/ \E j \in 1..Len(v) : wire'[d][a][i] = v[j]
      <4> DEFINE w == wire[d][a]
                 u == wire'[d][a]
      <4>1. u = w \o v /\ i \in 1..Len(u) /\ w \in Seq(AnyFrame(a))
        BY <3>1, <3>2
      <4> HIDE DEF w, u
      <4>2. \A k \in 1..Len(w \o v) : \/ \E j \in 1..Len(w) : (w \o v)[k] = w[j]
                                      \/ \E j \in 1..Len(v) : (w \o v)[k] = v[j]
        BY <3>2, <4>1, StepwiseQuiet
      <4>3. (\E j \in 1..Len(w) : u[i] = w[j]) \/ \E j \in 1..Len(v) : u[i] = v[j]
        BY <4>1, <4>2, Zenon
      <4> QED  BY <4>3 DEF w, u
    <3> QED  BY <3>1, <3>3 DEF Last
  <2> QED  BY <2>1, <2>2
<1>6. ASSUME NEW d \in Conn, NEW i \in 1..Len(wire'[d][b])
      PROVE  \E j \in 1..Len(wire[d][b]) : wire'[d][b][i] = wire[d][b][j]
  <2>1. CASE wire'[d][b] = wire[d][b]
    BY <2>1
  <2>2. CASE wire'[d][b] = <<>>
    BY <2>2
  <2> QED  BY <2>1, <2>2 DEF LeftWires
<1>7. Links'
  <2>1. ASSUME NEW d \in Conn, NEW e \in Side, d > conns PROVE wire'[d][e] = <<>>
    <3>1. wire[d][e] = <<>> /\ ~(d <= conns)
      BY <2>1, <1>2, <1>3 DEF Links, Conn
    <3> QED  BY <3>1, <1>1 DEF LeftWires
  <2>2. ASSUME offered' = offered, NEW c \in offered
        PROVE  c <= conns /\ c # ep'["A"].conn
    <3>1. c <= conns /\ c # ep["A"].conn /\ c \in Conn
      BY <1>2 DEF TypeDup, Links
    <3>2. c # 0
      BY <3>1 DEF Conn
    <3>3. ep'["A"].conn \in {0, ep["A"].conn}
      BY <1>1 DEF Left, Side
    <3> QED  BY <3>1, <3>2, <3>3
  <2>3. CASE offered' = {}
    BY <2>1, <2>3 DEF Links
  <2>4. CASE offered' = offered /\ \A c \in offered : open'[c]["A"]
    BY <2>1, <2>2, <2>4 DEF Links
  <2> QED  BY <2>3, <2>4 DEF LeftOpen
<1>8. Local(a)' /\ Local(b)'
  <2>1. Local(a)'
    <3>1. CASE ep'[a].task = "close"
      <4>1. ep[a].conn \in Conn /\ ep[a].conn \in 1..conns /\ open[ep[a].conn][a]
        BY <3>1, RunFacts DEF Left
      <4> QED  BY <3>1, <4>1 DEF Local, Left, LeftOpen
    <3>2. CASE ep'[a].task # "close"
      BY <3>2 DEF Local, Left
    <3> QED  BY <3>1, <3>2
  <2>2. ep[b].task \in {"run", "clean", "close"} => ep[b].conn \in Conn
    BY <1>1, RunFacts
  <2>3. Local(b)'
    BY <2>2, <1>2 DEF Local, LeftOpen
  <2> QED  BY <2>1, <2>3
<1>9. Ordered(a)' /\ Ordered(b)'
  BY <1>2 DEF Ordered, Left
<1>10. Runs(a)'
  <2>1. CASE ep'[a].task = "ended"
    BY <2>1 DEF Runs
  <2>2. CASE ep'[a].task # "ended"
    BY <2>2, <1>2, <1>4, RunsKept DEF Left
  <2> QED  BY <2>1, <2>2 DEF Left
<1>11. Runs(b)'
  BY <1>1, <1>2, <1>4, RunsKept
<1>12. Acked(a)'
  <2>1. ep'[a].acked < ep[b].seq
    BY <1>2, <1>3 DEF Acked, Left, None
  <2>2. ASSUME NEW d \in Conn, NEW i \in 1..Len(wire'[d][b]), wire'[d][b][i].type = "ack"
        PROVE  wire'[d][b][i].seq < ep[b].seq
    BY <2>2, <1>2, <1>6 DEF Acked
  <2> QED  BY <2>1, <2>2, <1>2 DEF Acked
<1>13. Acked(b)'
  <2>1. ep'[b].acked = ep[b].acked
    OBVIOUS
  <2> QED  BY <2>1, <1>1, <1>2, <1>4, <1>5, AckedKept
<1>14. Arrived(a)'
  <2>1. posted'[a] = posted[a]
    OBVIOUS
  <2> QED  BY <2>1, <1>2, <1>4, <1>5, ArrivedKept
<1>15. Arrived(b)'
  <2>1. ASSUME NEW d \in Conn, NEW i \in 1..Len(wire'[d][b]), wire'[d][b][i].type = "data"
        PROVE  wire'[d][b][i].seq < posted[b]
    BY <2>1, <1>2, <1>6 DEF Arrived
  <2> QED  BY <2>1, <1>1, <1>2 DEF Arrived, Left
<1>16. Flow(a)'
  <2> SUFFICES ASSUME NEW d \in Conn PROVE FlowOn(a, d)'
    BY DEF Flow
  <2>1. FlowOn(a, d) /\ Due(b, d)' = Due(b, d) /\ (Live(b, d)' <=> Live(b, d))
    BY <1>1, <1>2, <1>4, DueKept DEF Flow, LeftOpen
  <2>2. ep'[a].task # "run"
    BY DEF Left
  <2>3. CASE wire'[d][a] = wire[d][a]
    BY <2>1, <2>2, <2>3, FlowKept
  <2>4. CASE wire'[d][a] # wire[d][a]
    <3>1. PICK v \in Seq(AnyFrame(a)) : Last(a, v) /\ wire'[d][a] = wire[d][a] \o v
      BY <2>4 DEF LeftWires
    <3>2. wire[d][a] \in Seq(AnyFrame(a)) /\ \A j \in 1..Len(v) : v[j].type # "data"
      BY <3>1, <1>2 DEF TypeDup, Last
    <3>3. Live(b, d) => Stepwise(wire[d][a], Due(b, d))
      BY <2>1 DEF FlowOn
    <3>4. Live(b, d) => Stepwise(wire'[d][a], Due(b, d))
      BY <3>1, <3>2, <3>3, StepwiseQuiet
    <3> QED  BY <3>4, <2>1, <2>2 DEF FlowOn
  <2> QED  BY <2>3, <2>4
<1>17. Flow(b)'
  <2> SUFFICES ASSUME NEW d \in Conn PROVE FlowOn(b, d)'
    BY DEF Flow
  <2>1. FlowOn(b, d)
    BY <1>2 DEF Flow
  <2>2. CASE ~open'[d][a] \/ d = ep[a].conn
    <3>1. ~Live(a, d)'
      BY <2>2 DEF Live, LeftOpen, Left
    <3> QED  BY <3>1, <1>1 DEF FlowOn
  <2>3. CASE open'[d][a] /\ d # ep[a].conn
    <3>1. Live(a, d) /\ wire'[d][b] = wire[d][b]
      BY <2>3 DEF Live, LeftOpen, LeftWires
    <3>2. Due(a, d) \subseteq Due(a, d)'
      BY <2>3 DEF Due, Left
    <3> QED  BY <3>1, <3>2, <2>1, <1>1, <1>4, FlowKept DEF SameWrite
  <2> QED  BY <2>2, <2>3
<1> QED  BY <1>1, <1>7, <1>8, <1>9, <1>10, <1>11, <1>12, <1>13, <1>14, <1>15, <1>16, <1>17 DEF DupInv

\* The record of a side that has ended.
LEMMA EndedFacts ==
  ASSUME TypeDup, NEW a \in Side
  PROVE  /\ Ended(a) \in Endpoint(a) /\ Ended(a).task = "ended" /\ Ended(a).conn = 0
         /\ Ended(a).hold = None /\ Ended(a).slot = NoFrame /\ Ended(a).pending = None
         /\ Ended(a).writing = "none" /\ Ended(a).seq = ep[a].seq /\ Ended(a).ack = 0
         /\ Ended(a).acked = None
<1>1. ep[a].seq \in Nat /\ ep[a].why \in {"none", "io", "closed", "timeout", "appclosed", "cancelled", "panic"}
  BY DEF TypeDup, Endpoint
<1>2. <<>> \in Seq(Nat)
  OBVIOUS
<1> QED  BY <1>1, <1>2 DEF Ended, Fresh, Endpoint

\* The completions of a side that ends.
LEMMA GoneFacts ==
  ASSUME TypeDup, NEW a \in Side, Gone(a)
  PROVE  /\ DOMAIN outcome' = Side /\ outcome'[Other(a)] = outcome[Other(a)]
         /\ \A e \in Side : outcome'[e] \in [Msg(e) -> Outcomes]
         /\ \A m \in Msg(a) : outcome'[a][m] = "accepted" => outcome[a][m] = "accepted"
         /\ offered' = IF a = "A" THEN {} ELSE offered
<1>1. outcome[a] \in [Msg(a) -> Outcomes] /\ outcome' = [outcome EXCEPT ![a] = Dropped(a)]
      /\ offered' = IF a = "A" THEN {} ELSE offered
  BY DEF TypeDup, Gone
<1>2. Dropped(a) \in [Msg(a) -> Outcomes]
      /\ \A m \in Msg(a) : Dropped(a)[m] = "accepted" => outcome[a][m] = "accepted"
  BY <1>1 DEF Dropped, Outcomes
<1>3. /\ DOMAIN outcome' = Side /\ outcome'[a] = Dropped(a) /\ outcome'[Other(a)] = outcome[Other(a)]
      /\ \A e \in Side : outcome'[e] \in [Msg(e) -> Outcomes]
  BY <1>1, <1>2, OutcomeSet
<1> QED  BY <1>1, <1>2, <1>3

\* The connections a side lets go of.
LEMMA LetGoFacts ==
  ASSUME DupInv, NEW a \in Side, NEW ends \in BOOLEAN, LetGo(a, ends),
         offered' = IF ends /\ a = "A" THEN {} ELSE offered, ep'[a].task # "close"
  PROVE  LeftOpen(a) /\ open' \in [Conn -> [Side -> BOOLEAN]] /\ offered' \in SUBSET Conn
         /\ \A c \in Conn : c = ep[a].conn => ~open'[c][a]
<1> DEFINE b == Other(a)
           Let(c) == c = ep[a].conn \/ (ends /\ a = "A" /\ c \in offered)
<1>1. open \in [Conn -> [Side -> BOOLEAN]] /\ offered \in SUBSET Conn /\ b \in Side /\ b # a
  BY Sides DEF DupInv, TypeDup
<1>2. open' = [c \in Conn |-> IF Let(c) THEN [open[c] EXCEPT ![a] = FALSE] ELSE open[c]]
  BY DEF LetGo
<1> HIDE DEF Let
<1>3. open' \in [Conn -> [Side -> BOOLEAN]]
  BY <1>1, <1>2
<1>4. ASSUME NEW c \in Conn
      PROVE  /\ open'[c][b] <=> open[c][b]
             /\ open'[c][a] => open[c][a] /\ ~Let(c)
             /\ Let(c) \/ open'[c] = open[c]
  BY <1>1, <1>2
<1>5. \A c \in Conn : c = ep[a].conn => Let(c)
  BY DEF Let
<1>6. ASSUME NEW c \in offered, ~(ends /\ a = "A") PROVE open'[c]["A"]
  <2>1. c \in Conn /\ open[c]["A"] /\ c # ep["A"].conn
    BY <1>1 DEF DupInv, Links
  <2>3. CASE a = "A"
    <3>1. ~Let(c)
      BY <2>1, <2>3, <1>6 DEF Let
    <3> QED  BY <3>1, <2>1, <1>4
  <2>4. CASE a # "A"
    <3>1. b = "A"
      BY <2>4 DEF Side, Other
    <3> QED  BY <3>1, <2>1, <1>4
  <2> QED  BY <2>3, <2>4
<1>7. LeftOpen(a)
  BY <1>4, <1>5, <1>6 DEF LeftOpen
<1>8. offered' \in SUBSET Conn
  BY <1>1
<1> QED  BY <1>3, <1>4, <1>5, <1>7, <1>8

\* A side that has no connection ends.
LEMMA GiveUpStep ==
  ASSUME DupInv, NEW a \in Side, ep[a].task \in {"offer", "connect"}, Gone(a),
         ep' = [ep EXCEPT ![a] = Ended(a)], LetGo(a, TRUE) \/ (a = "I" /\ UNCHANGED open),
         UNCHANGED <<posted, delivered, inbox, wire, broken, conns>>
  PROVE  DupInv'
<1> DEFINE b == Other(a)
           s == Ended(a)
<1>1. TypeDup /\ Local(a) /\ b \in Side /\ ep[a].seq \in Nat /\ ep[a].conn = 0
  BY Sides, EndpointFacts DEF DupInv, Local
<1>2. /\ s \in Endpoint(a) /\ s.task = "ended" /\ s.conn = 0
      /\ s.hold = None /\ s.slot = NoFrame /\ s.pending = None
      /\ s.writing = "none" /\ s.seq = ep[a].seq /\ s.ack = 0 /\ s.acked = None
  BY <1>1, EndedFacts
<1> HIDE DEF s
<1>3. DOMAIN ep' = Side /\ ep'[a] = s /\ ep'[b] = ep[b] /\ \A e \in Side : ep'[e] \in Endpoint(e)
  BY <1>1, <1>2, SideSet DEF s
<1>4. /\ DOMAIN outcome' = Side /\ outcome'[b] = outcome[b]
      /\ \A e \in Side : outcome'[e] \in [Msg(e) -> Outcomes]
      /\ \A m \in Msg(a) : outcome'[a][m] = "accepted" => outcome[a][m] = "accepted"
      /\ offered' = IF a = "A" THEN {} ELSE offered
  BY <1>1, GoneFacts
<1>5. LeftOpen(a) /\ open' \in [Conn -> [Side -> BOOLEAN]] /\ offered' \in SUBSET Conn
  <2>1. CASE LetGo(a, TRUE)
    BY <2>1, <1>2, <1>3, <1>4, LetGoFacts
  <2>2. CASE a = "I" /\ UNCHANGED open
    <3>1. offered' = offered /\ open' = open /\ open \in [Conn -> [Side -> BOOLEAN]]
          /\ offered \in SUBSET Conn
      BY <2>2, <1>1, <1>4 DEF TypeDup
    <3>2. \A c \in Conn : c # ep[a].conn
      BY <1>1 DEF Conn
    <3>3. \A c \in offered : open[c]["A"]
      BY DEF DupInv, Links
    <3> QED  BY <3>1, <3>2, <3>3, <1>2, <1>3 DEF LeftOpen
  <2> QED  BY <2>1, <2>2
<1>6. TypeDup'
  BY <1>1, <1>3, <1>4, <1>5 DEF TypeDup
<1>7. Left(a)
  <2>1. 0 <= ep[a].seq
    BY <1>1
  <2> QED  BY <2>1, <1>2, <1>3 DEF Left
<1>8. LeftWires(a)
  BY DEF LeftWires
<1> QED  BY <1>3, <1>4, <1>5, <1>6, <1>7, <1>8, LeaveStep

\* One last frame.
LEMMA LastFrame ==
  ASSUME NEW a \in Side, NEW f \in AnyFrame(a), f.type # "data", f.type = "ack" => f.seq < ep[a].seq
  PROVE  <<f>> \in Seq(AnyFrame(a)) /\ Last(a, <<f>>)
BY DEF Last

\* The connection's wires after the cleanup.
LEMMA ReleasedWires ==
  ASSUME DupInv, NEW a \in Side, ep[a].task \in {"run", "close"}, NEW last \in Seq(AnyFrame(a)), Last(a, last),
         wire' = [wire EXCEPT ![ep[a].conn] =
                    [d \in Side |-> IF d = a THEN Arriving(a, ep[a].conn, last) ELSE <<>>]],
         ~open'[ep[a].conn][a]
  PROVE  TypeWire' /\ LeftWires(a)
<1> DEFINE b == Other(a)
           c == ep[a].conn
           w == wire[c][a]
           v == Arriving(a, c, last)
<1>1. b \in Side /\ b # a /\ c \in Conn /\ c \in 1..conns /\ conns \in Nat /\ TypeWire
  BY Sides, RunFacts DEF DupInv, TypeDup, TypeWire
<1>2. v = w \/ v = w \o last
  BY DEF Arriving
<1>3. w \in Seq(AnyFrame(a)) /\ w \o last \in Seq(AnyFrame(a))
  BY <1>1 DEF TypeWire
<1>4. wire' = [wire EXCEPT ![c] = [d \in Side |-> IF d = a THEN v ELSE <<>>]] /\ ~open'[c][a]
  OBVIOUS
<1> DEFINE g == [d \in Side |-> IF d = a THEN v ELSE <<>>]
<1>g. DOMAIN g = Side /\ g[a] = v /\ g[b] = <<>>
  BY <1>1
<1> HIDE DEF v, c, g
<1>5. /\ DOMAIN wire' = Conn /\ DOMAIN wire'[c] = Side /\ wire'[c][a] = v /\ wire'[c][b] = <<>>
      /\ \A d \in Conn : d # c => wire'[d] = wire[d]
  <2>1. wire' = [wire EXCEPT ![c] = g]
    BY <1>4 DEF g
  <2> QED  BY <2>1, <1>1, <1>g DEF TypeWire
<1>6. TypeWire'
  <2> SUFFICES ASSUME NEW d \in Conn
               PROVE  DOMAIN wire'[d] = Side /\ \A e \in Side : wire'[d][e] \in Seq(AnyFrame(e))
    BY <1>5 DEF TypeWire
  <2>1. CASE d # c
    BY <2>1, <1>1, <1>5 DEF TypeWire
  <2>2. CASE d = c
    <3>1. \A e \in Side : e = a \/ e = b
      BY Sides
    <3>2. wire'[c][a] \in Seq(AnyFrame(a)) /\ wire'[c][b] \in Seq(AnyFrame(b))
      <4>1. v \in Seq(AnyFrame(a))
        BY <1>2, <1>3
      <4>2. <<>> \in Seq(AnyFrame(b))
        OBVIOUS
      <4> QED  BY <4>1, <4>2, <1>5
    <3> QED  BY <2>2, <3>1, <3>2, <1>5
  <2> QED  BY <2>1, <2>2
<1>7. LeftWires(a)
  <2> SUFFICES ASSUME NEW d \in Conn
               PROVE  /\ wire'[d][b] = wire[d][b] \/ (wire'[d][b] = <<>> /\ ~open'[d][a])
                      /\ \/ wire'[d][a] = wire[d][a]
                         \/ /\ d <= conns
                            /\ \E z \in Seq(AnyFrame(a)) : Last(a, z) /\ wire'[d][a] = wire[d][a] \o z
    BY DEF LeftWires
  <2>1. CASE d # c
    BY <2>1, <1>5
  <2>2. CASE d = c
    <3>1. d <= conns
      BY <2>2, <1>1
    <3> QED  BY <2>2, <3>1, <1>2, <1>4, <1>5
  <2> QED  BY <2>1, <2>2
<1> QED  BY <1>6, <1>7

\* The cleanup's ack is out, or was not due.
LEMMA FlushStep ==
  ASSUME DupInv, NEW a \in Side, Flush(a) PROVE DupInv'
<1> DEFINE b == Other(a)
           c == ep[a].conn
           due == ep[a].ack < ep[a].seq
           f == Ack(a, AckSeq(ep[a].seq))
<1>1. /\ ep[a].task = "clean"
      /\ wire' = IF due THEN [wire EXCEPT ![c][a] = Arriving(a, c, <<f>>)] ELSE wire
      /\ UNCHANGED <<posted, outcome, delivered, inbox, open, broken, offered, conns>>
  BY DEF Flush, Idle, appVars, linkVars
<1>2. PICK written \in BOOLEAN :
        ep' = [ep EXCEPT ![a].task = "close",
                         ![a].ack = IF due /\ written THEN ep[a].seq ELSE @]
  BY DEF Flush
<1> DEFINE k == IF due /\ written THEN ep[a].seq ELSE ep[a].ack
           s == [ep[a] EXCEPT !.task = "close", !.ack = k]
<1>3. /\ TypeDup /\ Links /\ Local(a) /\ ep[a] \in Endpoint(a) /\ DOMAIN ep = Side
      /\ ep[a].seq \in Nat /\ ep[a].ack \in Nat /\ ep[a].ack <= ep[a].seq
      /\ b \in Side /\ c \in Conn /\ c \in 1..conns
  BY <1>1, Sides, EndpointFacts, RunFacts DEF DupInv, TypeDup, Local
<1>4. k \in Nat /\ k <= ep[a].seq
  BY <1>3
<1>5. /\ s \in Endpoint(a) /\ ep' = [ep EXCEPT ![a] = s]
      /\ s.task = "close" /\ s.conn = ep[a].conn /\ s.queue = ep[a].queue
      /\ s.outbox = ep[a].outbox /\ s.unacked = ep[a].unacked /\ s.acked = ep[a].acked
      /\ s.ack = k /\ s.pending = ep[a].pending /\ s.writing = ep[a].writing
      /\ s.hold = ep[a].hold /\ s.slot = ep[a].slot /\ s.seq = ep[a].seq
  <2>1. ep' = [ep EXCEPT ![a] = s]
    BY <1>2, <1>3
  <2> HIDE DEF k
  <2>2. s \in Endpoint(a)
    BY <1>3, <1>4 DEF Endpoint
  <2> QED  BY <1>3, <2>1, <2>2 DEF Endpoint
<1> HIDE DEF s, k
<1>6. DOMAIN ep' = Side /\ ep'[a] = s /\ ep'[b] = ep[b] /\ \A e \in Side : ep'[e] \in Endpoint(e)
  BY <1>3, <1>5, SideSet
<1>7. TypeWire' /\ LeftWires(a)
  <2>1. CASE ~due
    BY <2>1, <1>1, <1>3 DEF TypeDup, TypeWire, LeftWires
  <2>2. CASE due
    <3>1. f \in AnyFrame(a) /\ f.type = "ack" /\ f.seq = ep[a].seq - 1 /\ f.seq < ep[a].seq
      <4>1. AckSeq(ep[a].seq) \in Nat /\ AckSeq(ep[a].seq) = ep[a].seq - 1
        BY <2>2, <1>3 DEF AckSeq
      <4> QED  BY <4>1, <1>3, FrameTypes
    <3>2. <<f>> \in Seq(AnyFrame(a)) /\ Last(a, <<f>>)
      BY <3>1, LastFrame
    <3>3. /\ TypeWire' /\ OtherWires(c, a)
          /\ \/ wire'[c][a] = wire[c][a]
             \/ wire'[c][a] = Append(wire[c][a], f)
      <4>1. TypeDup /\ c \in Conn /\ Wrote(a, c, f)
        BY <2>2, <1>1, <1>3 DEF Wrote
      <4> HIDE DEF c, f
      <4> QED  BY <4>1, <3>1, WireWritten
    <3>4. wire'[c][a] = wire[c][a] \/ wire'[c][a] = wire[c][a] \o <<f>>
      <4> DEFINE w == wire[c][a]
      <4>1. w \in Seq(AnyFrame(a))
        BY <1>3 DEF TypeDup
      <4> HIDE DEF w, f
      <4>2. Append(w, f) = w \o <<f>>
        BY <4>1, <3>1
      <4> QED  BY <4>2, <3>3 DEF w
    <3>5. b # a /\ c <= conns
      BY <1>3, Sides
    <3> HIDE DEF f, c
    <3> QED  BY <3>2, <3>3, <3>4, <3>5, <1>3 DEF LeftWires, OtherWires
  <2> QED  BY <2>1, <2>2
<1>8. LeftOpen(a)
  BY <1>1, <1>3, <1>5, <1>6 DEF LeftOpen, Links
<1>9. Left(a)
  BY <1>1, <1>3, <1>4, <1>5, <1>6 DEF Left, SameTx, Local
<1>10. TypeDup'
  <2>1. DOMAIN outcome' = Side /\ \A e \in Side : outcome'[e] \in [Msg(e) -> Outcomes]
    BY <1>1, <1>3 DEF TypeDup
  <2> QED  BY <2>1, <1>1, <1>3, <1>6, <1>7, TypeStep
<1> QED  BY <1>1, <1>6, <1>7, <1>8, <1>9, <1>10, LeaveStep

\* The end of a session's connection: the announcement, the next connection or the end.
LEMMA ReleaseStep ==
  ASSUME DupInv, NEW a \in Side, Release(a) PROVE DupInv'
<1> DEFINE b == Other(a)
           c == ep[a].conn
           last == IF Announced(a) THEN <<Closed(a)>> ELSE <<>>
           ends == Terminal(ep[a].why)
           r == [ep[a] EXCEPT !.task = "connect", !.conn = 0]
<1>1. /\ ep[a].task = "close" /\ LetGo(a, ends)
      /\ wire' = [wire EXCEPT ![c] = [d \in Side |-> IF d = a THEN Arriving(a, c, last) ELSE <<>>]]
      /\ ep' = [ep EXCEPT ![a] = IF ends THEN Ended(a) ELSE r]
      /\ IF ends THEN Gone(a) ELSE UNCHANGED <<outcome, offered>>
      /\ UNCHANGED <<posted, delivered, inbox, broken, conns>>
  BY DEF Release, appVars
<1>3. /\ TypeDup /\ Local(a) /\ b \in Side /\ ep[a] \in Endpoint(a) /\ c \in Conn
      /\ ep[a].seq \in Nat /\ ep[a].ack \in Nat /\ ep[a].ack <= ep[a].seq /\ ends \in BOOLEAN
  <2>1. ends \in BOOLEAN
    BY DEF Terminal
  <2>2. TypeDup /\ Local(a) /\ ep[a] \in Endpoint(a)
    BY DEF DupInv, TypeDup
  <2>3. c \in Conn /\ b \in Side
    BY <1>1, Sides, RunFacts
  <2> QED  BY <2>1, <2>2, <2>3, EndpointFacts DEF Local
<1>4. last \in Seq(AnyFrame(a)) /\ Last(a, last)
  <2>1. CASE Announced(a)
    <3>1. Closed(a) \in AnyFrame(a) /\ Closed(a).type = "closed"
      BY FrameTypes
    <3> QED  BY <2>1, <3>1, LastFrame
  <2>2. CASE ~Announced(a)
    BY <2>2 DEF Last
  <2> QED  BY <2>1, <2>2
<1>5. wire' = [wire EXCEPT ![c] = [d \in Side |-> IF d = a THEN Arriving(a, c, last) ELSE <<>>]]
  BY <1>1
<1> HIDE DEF last
<1>9. PICK s \in Endpoint(a) :
        /\ ep' = [ep EXCEPT ![a] = s]
        /\ s.task \in {"connect", "ended"} /\ s.conn = 0 /\ s.hold = None
        /\ s.slot = NoFrame /\ s.pending = None /\ s.writing = "none"
        /\ s.seq = ep[a].seq /\ s.ack <= ep[a].seq /\ s.acked \in {None, ep[a].acked}
        /\ s.task = "connect" => /\ s.queue = ep[a].queue /\ s.outbox = ep[a].outbox
                                 /\ s.unacked = ep[a].unacked /\ s.acked = ep[a].acked
  <2>1. CASE ends
    <3>1. ep' = [ep EXCEPT ![a] = Ended(a)]
      BY <2>1, <1>1
    <3>2. 0 <= ep[a].seq
      BY <1>3
    <3> QED  BY <3>1, <3>2, <1>3, EndedFacts
  <2>2. CASE ~ends
    <3>2. ep' = [ep EXCEPT ![a] = r]
      <4> HIDE DEF r, ends
      <4> QED  BY <2>2, <1>1
    <3>3. r \in Endpoint(a)
      BY <1>3 DEF Endpoint
    <3>4. /\ ep[a].hold = None /\ ep[a].slot = NoFrame /\ ep[a].pending = None
          /\ ep[a].writing = "none"
      BY <1>1, <1>3 DEF Local
    <3>5. /\ r.task = "connect" /\ r.conn = 0 /\ r.hold = None
          /\ r.slot = NoFrame /\ r.pending = None /\ r.writing = "none"
          /\ r.seq = ep[a].seq /\ r.ack = ep[a].ack /\ r.acked = ep[a].acked
          /\ r.queue = ep[a].queue /\ r.outbox = ep[a].outbox /\ r.unacked = ep[a].unacked
      BY <1>3, <3>4 DEF Endpoint
    <3> HIDE DEF r
    <3> QED  BY <1>3, <3>2, <3>3, <3>5
  <2> QED  BY <2>1, <2>2
<1>10. DOMAIN ep' = Side /\ ep'[a] = s /\ ep'[b] = ep[b] /\ \A e \in Side : ep'[e] \in Endpoint(e)
  BY <1>3, <1>9, SideSet
<1>6. /\ DOMAIN outcome' = Side /\ outcome'[b] = outcome[b]
      /\ \A e \in Side : outcome'[e] \in [Msg(e) -> Outcomes]
      /\ \A m \in Msg(a) : outcome'[a][m] = "accepted" => outcome[a][m] = "accepted"
      /\ offered' = IF ends /\ a = "A" THEN {} ELSE offered
  <2>1. CASE ends
    BY <2>1, <1>1, <1>3, GoneFacts
  <2>2. CASE ~ends
    BY <2>2, <1>1, <1>3 DEF TypeDup
  <2> QED  BY <2>1, <2>2
<1>7. /\ LeftOpen(a) /\ open' \in [Conn -> [Side -> BOOLEAN]] /\ offered' \in SUBSET Conn
      /\ ~open'[c][a]
  <2>1. LetGo(a, ends) /\ ends \in BOOLEAN /\ ep'[a].task # "close"
    BY <1>1, <1>3, <1>9, <1>10
  <2> HIDE DEF ends
  <2> QED  BY <2>1, <1>3, <1>6, LetGoFacts
<1>8. TypeWire' /\ LeftWires(a)
  BY <1>1, <1>4, <1>5, <1>7, ReleasedWires
<1>11. TypeDup'
  <2>1. UNCHANGED <<posted, delivered, inbox, conns>>
    BY <1>1
  <2> QED  BY <2>1, <1>3, <1>6, <1>7, <1>8, <1>10 DEF TypeDup, TypeWire
<1>12. Left(a)
  <2>1. posted' = posted /\ ep[a].task # "ended"
    BY <1>1
  <2> QED  BY <2>1, <1>9, <1>10 DEF Left, SameTx
<1>13. UNCHANGED <<posted, delivered, broken, conns>>
  BY <1>1
<1> QED  BY <1>6, <1>7, <1>8, <1>10, <1>11, <1>12, <1>13, LeaveStep

\* The task is gone without a cleanup.
LEMMA PanicStep ==
  ASSUME DupInv, NEW a \in Side, Running(a), Panic(a) PROVE DupInv'
<1> DEFINE b == Other(a)
           c == ep[a].conn
           s == [Ended(a) EXCEPT !.why = "panic"]
<1>1. /\ ep[a].task = "run" /\ LetGo(a, TRUE) /\ Gone(a) /\ ep' = [ep EXCEPT ![a] = s]
      /\ wire' = [wire EXCEPT ![c][b] = <<>>]
      /\ UNCHANGED <<posted, delivered, inbox, broken, conns>>
  BY DEF Panic, appVars, Running
<1>2. /\ TypeDup /\ b \in Side /\ b # a /\ c \in Conn /\ ep[a].seq \in Nat
  BY <1>1, Sides, EndpointFacts, RunFacts DEF DupInv
<1>3. /\ s \in Endpoint(a) /\ s.task = "ended" /\ s.conn = 0 /\ s.hold = None
      /\ s.slot = NoFrame /\ s.pending = None /\ s.writing = "none"
      /\ s.seq = ep[a].seq /\ s.ack = 0 /\ s.acked = None
  <2> DEFINE z == Ended(a)
  <2>1. /\ z \in Endpoint(a) /\ z.task = "ended" /\ z.conn = 0
        /\ z.hold = None /\ z.slot = NoFrame /\ z.pending = None
        /\ z.writing = "none" /\ z.seq = ep[a].seq /\ z.ack = 0 /\ z.acked = None
    BY <1>2, EndedFacts
  <2> HIDE DEF z
  <2>2. [z EXCEPT !.why = "panic"] \in Endpoint(a)
    BY <2>1 DEF Endpoint
  <2>3. s = [z EXCEPT !.why = "panic"]
    BY DEF z
  <2> HIDE DEF s
  <2> QED  BY <2>1, <2>2, <2>3 DEF Endpoint
<1> HIDE DEF s
<1>4. DOMAIN ep' = Side /\ ep'[a] = s /\ ep'[b] = ep[b] /\ \A e \in Side : ep'[e] \in Endpoint(e)
  BY <1>1, <1>2, <1>3, SideSet
<1>5. /\ DOMAIN outcome' = Side /\ outcome'[b] = outcome[b]
      /\ \A e \in Side : outcome'[e] \in [Msg(e) -> Outcomes]
      /\ \A m \in Msg(a) : outcome'[a][m] = "accepted" => outcome[a][m] = "accepted"
      /\ offered' = IF a = "A" THEN {} ELSE offered
  BY <1>1, <1>2, GoneFacts
<1>6. /\ LeftOpen(a) /\ open' \in [Conn -> [Side -> BOOLEAN]] /\ offered' \in SUBSET Conn
      /\ ~open'[c][a]
  BY <1>1, <1>2, <1>3, <1>4, <1>5, LetGoFacts
<1>7. TypeWire' /\ LeftWires(a)
  <2>1. <<>> \in Seq(AnyFrame(b)) /\ TypeWire
    BY <1>2 DEF TypeDup, TypeWire
  <2> HIDE DEF c
  <2>2. /\ wire'[c][b] = <<>> /\ TypeWire'
        /\ \A d \in Conn, x \in Side : d # c \/ x # b => wire'[d][x] = wire[d][x]
    BY <2>1, <1>1, <1>2 DEF TypeWire
  <2> QED  BY <2>2, <1>2, <1>6 DEF LeftWires
<1>8. TypeDup'
  BY <1>1, <1>2, <1>4, <1>5, <1>6, <1>7 DEF TypeDup, TypeWire
<1>9. Left(a)
  <2>1. 0 <= ep[a].seq
    BY <1>2
  <2> QED  BY <2>1, <1>3, <1>4 DEF Left
<1> QED  BY <1>1, <1>4, <1>5, <1>6, <1>7, <1>8, <1>9, LeaveStep

\* An ack is taken.
LEMMA TakeAckStep ==
  ASSUME DupInv, NEW a \in Side, TakeAck(a) PROVE DupInv'
<1>1. CASE ep[a].acked <= Frame(a).seq
  BY <1>1, PruneStep DEF TakeAck
<1>2. CASE ~(ep[a].acked <= Frame(a).seq)
  BY <1>2, PanicStep DEF TakeAck, Holds
<1> QED  BY <1>1, <1>2

-----------------------------------------------------------------------------
(* Connecting.                                                             *)

\* Two runs, one after the other.
LEMMA Joined ==
  ASSUME NEW u \in Seq(Nat), NEW x \in Seq(Nat), NEW first \in Nat,
         \A i \in 1..Len(u) : u[i] = first + i - 1,
         \A i \in 1..Len(x) : x[i] = (first + Len(u)) + i - 1
  PROVE  /\ u \o x \in Seq(Nat) /\ Len(u \o x) = Len(u) + Len(x)
         /\ \A i \in 1..Len(u \o x) : (u \o x)[i] = first + i - 1
<1> DEFINE v == u \o x
           n == Len(u)
<1>1. /\ v \in Seq(Nat) /\ Len(v) = n + Len(x) /\ n \in Nat /\ Len(x) \in Nat
      /\ \A i \in 1..Len(v) : v[i] = IF i <= n THEN u[i] ELSE x[i - n]
  OBVIOUS
<1> HIDE DEF v
<1>2. ASSUME NEW i \in 1..Len(v) PROVE v[i] = first + i - 1
  <2>1. CASE i <= n
    <3>1. i \in 1..n /\ v[i] = u[i]
      BY <2>1, <1>1
    <3> QED  BY <3>1
  <2>2. CASE ~(i <= n)
    <3>1. i - n \in 1..Len(x) /\ v[i] = x[i - n]
      BY <2>2, <1>1
    <3>2. x[i - n] = (first + n) + (i - n) - 1
      BY <3>1
    <3> HIDE DEF n
    <3> QED  BY <3>1, <3>2, <1>1
  <2> QED  BY <2>1, <2>2
<1> QED  BY <1>1, <1>2 DEF v

\* What was not acked is the outbox again, and begins with the first that was not.
LEMMA OnConnectionFacts ==
  ASSUME DupInv, NEW a \in Side, ep[a].task = "connect", NEW k \in Conn, OnConnection(a, k),
         UNCHANGED posted
  PROVE  /\ DOMAIN ep' = Side /\ ep'[Other(a)] = ep[Other(a)] /\ \A e \in Side : ep'[e] \in Endpoint(e)
         /\ ep'[a].task = "run" /\ ep'[a].conn = k /\ ep'[a].seq = ep[a].seq /\ ep'[a].ack = ep[a].ack
         /\ ep'[a].hold = None /\ ep'[a].slot = NoFrame /\ ep'[a].pending = None
         /\ ep'[a].writing = "none" /\ ep'[a].acked = ep[a].acked
         /\ Write(a)' = First(a) /\ First(a) \in 0..ep[Other(a)].seq /\ Runs(a)'
<1> DEFINE b == Other(a)
           u == ep[a].unacked
           x == ep[a].outbox
           q == ep[a].queue
           v == u \o x
           s == [ep[a] EXCEPT !.task = "run", !.conn = k, !.outbox = v, !.unacked = <<>>]
<1>1. /\ TypeDup /\ Local(a) /\ Runs(a) /\ ep[a] \in Endpoint(a)
      /\ u \in Seq(Nat) /\ x \in Seq(Nat) /\ q \in Seq(Nat) /\ b \in Side
  BY Sides, EndpointFacts DEF DupInv, TypeDup
<1>2. ep' = [ep EXCEPT ![a] = s]
  BY DEF OnConnection, Requeued
<1>4. First(a) \in 0..ep[b].seq /\ First(a) \in Nat /\ Write(a) = First(a) + Len(u)
      /\ (\A i \in 1..Len(u) : u[i] = First(a) + i - 1)
      /\ (\A i \in 1..Len(x) : x[i] = Write(a) + i - 1)
      /\ (\A i \in 1..Len(q) : q[i] = Write(a) + Len(x) + i - 1)
      /\ Write(a) + Len(x) + Len(q) = posted[a] /\ Len(q) \in Nat
  <2>1. ep[a].task # "ended"
    OBVIOUS
  <2> QED  BY <1>1, <2>1, WriteNat, EndpointFacts DEF Runs
<1>3. /\ v \in Seq(Nat) /\ Len(v) = Len(u) + Len(x) /\ Len(u) \in Nat /\ Len(x) \in Nat
      /\ \A i \in 1..Len(v) : v[i] = First(a) + i - 1
  <2> DEFINE first == First(a)
  <2>1. /\ u \in Seq(Nat) /\ x \in Seq(Nat) /\ first \in Nat
        /\ \A i \in 1..Len(u) : u[i] = first + i - 1
        /\ \A i \in 1..Len(x) : x[i] = (first + Len(u)) + i - 1
    BY <1>1, <1>4
  <2> HIDE DEF first, u, x
  <2>2. /\ u \o x \in Seq(Nat) /\ Len(u \o x) = Len(u) + Len(x)
        /\ \A i \in 1..Len(u \o x) : (u \o x)[i] = first + i - 1
    BY <2>1, Joined
  <2>3. Len(u) \in Nat /\ Len(x) \in Nat
    BY <2>1
  <2> QED  BY <2>2, <2>3 DEF first
<1>5. /\ ep[a].hold = None /\ ep[a].slot = NoFrame /\ ep[a].pending = None /\ ep[a].writing = "none"
  BY <1>1 DEF Local
<1> HIDE DEF v
<1>6. /\ s \in Endpoint(a) /\ s.task = "run" /\ s.conn = k /\ s.outbox = v /\ s.unacked = <<>>
      /\ s.queue = q /\ s.acked = ep[a].acked /\ s.seq = ep[a].seq /\ s.ack = ep[a].ack
      /\ s.hold = None /\ s.slot = NoFrame /\ s.pending = None /\ s.writing = "none"
  <2>1. k \in Nat /\ <<>> \in Seq(Nat)
    BY DEF Conn
  <2> QED  BY <2>1, <1>1, <1>3, <1>5 DEF Endpoint
<1> HIDE DEF s
<1>7. DOMAIN ep' = Side /\ ep'[a] = s /\ ep'[b] = ep[b] /\ \A e \in Side : ep'[e] \in Endpoint(e)
  BY <1>1, <1>2, <1>6, SideSet
<1> DEFINE p == posted[a]
           n == Len(u)
           y == Len(x)
           z == Len(q)
           first == First(a)
<1>8. Write(a)' = p - z - Len(v) /\ First(a)' = p - z - Len(v) - Len(<<>>)
  BY <1>6, <1>7 DEF Write, First
<1>9. /\ n \in Nat /\ y \in Nat /\ z \in Nat /\ first \in Nat /\ Len(v) = n + y
      /\ first + n + y + z = p /\ Write(a) = first + n
  BY <1>3, <1>4
<1>10. \A i \in 1..Len(v) : v[i] = first + i - 1
  BY <1>3
<1>11. \A i \in 1..z : q[i] = first + Len(v) + i - 1
  <2> SUFFICES ASSUME NEW i \in 1..z PROVE q[i] = first + Len(v) + i - 1
    OBVIOUS
  <2>1. q[i] = Write(a) + y + i - 1
    BY <1>4
  <2> HIDE DEF n, first, y, z
  <2> QED  BY <2>1, <1>9
<1> HIDE DEF p, n, y, z, first
<1>12. Write(a)' = first /\ First(a)' = first
  <2>1. Len(<<>>) = 0
    OBVIOUS
  <2>2. p - z - Len(v) = first /\ p - z - Len(v) - 0 = first
    BY <1>9
  <2> QED  BY <2>1, <2>2, <1>8
<1>13. Runs(a)'
  <2>1. ep'[a].unacked = <<>> /\ ep'[a].outbox = v /\ ep'[a].queue = q /\ ep'[b].seq = ep[b].seq
    BY <1>6, <1>7
  <2>2. First(a)' \in 0..ep'[b].seq
    BY <2>1, <1>4, <1>12 DEF first
  <2>3. \A i \in 1..Len(ep'[a].outbox) : ep'[a].outbox[i] = Write(a)' + i - 1
    BY <2>1, <1>10, <1>12
  <2>4. \A i \in 1..Len(ep'[a].queue) :
          ep'[a].queue[i] = Write(a)' + Len(ep'[a].outbox) + i - 1
    BY <2>1, <1>11, <1>12 DEF z
  <2>5. \A i \in 1..Len(ep'[a].unacked) : FALSE
    BY <2>1
  <2> QED  BY <2>2, <2>3, <2>4, <2>5 DEF Runs
<1> QED  BY <1>4, <1>6, <1>7, <1>12, <1>13 DEF first

\* A connection is opened that nobody has used, or none is.
Opened(a) ==
  \A c \in Conn, e \in Side :
    /\ open[c][e] => open'[c][e]
    /\ open'[c][e] => \/ open[c][e]
                      \/ \A d \in Side : wire[c][d] = <<>> /\ ep[d].conn # c

\* A side begins to run on a connection.
LEMMA ConnectStep ==
  ASSUME DupInv, NEW a \in Side, ep[a].task = "connect", NEW k \in Conn, OnConnection(a, k),
         Links', Opened(a), open' \in [Conn -> [Side -> BOOLEAN]], open'[k][a],
         offered' \in SUBSET Conn, conns' \in 0..MaxConns, conns' >= conns, k <= conns',
         UNCHANGED <<posted, outcome, delivered, inbox, wire, broken>>
  PROVE  DupInv'
<1> DEFINE b == Other(a)
<1>1. /\ b \in Side /\ b # a /\ Other(b) = a /\ \A d \in Side : d = a \/ d = b
  BY Sides
<1>2. /\ TypeDup
      /\ Local(a) /\ Ordered(a) /\ Runs(a) /\ Acked(a) /\ Arrived(a) /\ Flow(a)
      /\ Local(b) /\ Ordered(b) /\ Runs(b) /\ Acked(b) /\ Arrived(b) /\ Flow(b)
      /\ ep[b].seq \in Nat /\ ep[a].seq \in Nat /\ ep[a].conn = 0
  BY <1>1, EndpointFacts DEF DupInv, Local
<1>3. /\ DOMAIN ep' = Side /\ ep'[b] = ep[b] /\ \A e \in Side : ep'[e] \in Endpoint(e)
      /\ ep'[a].task = "run" /\ ep'[a].conn = k /\ ep'[a].seq = ep[a].seq /\ ep'[a].ack = ep[a].ack
      /\ ep'[a].hold = None /\ ep'[a].slot = NoFrame /\ ep'[a].pending = None
      /\ ep'[a].writing = "none" /\ ep'[a].acked = ep[a].acked
      /\ Write(a)' = First(a) /\ First(a) \in 0..ep[b].seq /\ Runs(a)'
  BY OnConnectionFacts
<1>4. TypeDup'
  BY <1>2, <1>3 DEF TypeDup
<1>5. SameTx(b) /\ SameRx(b) /\ SameWrite(b) /\ ep'[a].seq >= ep[a].seq
  <2>1. ep'[a].seq >= ep[a].seq
    BY <1>2, <1>3
  <2> QED  BY <2>1, <1>3 DEF SameTx, SameRx, SameWrite, Write
<1>6. Local(a)'
  <2>1. k \in 1..conns'
    BY DEF Conn
  <2>2. ep[a].ack <= ep[a].seq
    BY <1>2 DEF Local
  <2> QED  BY <2>1, <2>2, <1>3 DEF Local
<1>7. Local(b)'
  <2>1. ASSUME ep[b].task \in {"run", "clean", "close"} PROVE ep[b].conn \in 1..conns' /\ open'[ep[b].conn][b]
    <3>1. ep[b].conn \in Conn /\ ep[b].conn \in 1..conns /\ open[ep[b].conn][b] /\ conns \in Nat
      BY <2>1, <1>1, <1>2, RunFacts DEF TypeDup
    <3>2. ep[b].conn \in 1..conns'
      BY <3>1
    <3> QED  BY <3>1, <3>2, <1>1 DEF Opened
  <2> QED  BY <2>1, <1>2, <1>3 DEF Local
<1>8. Ordered(a)' /\ Ordered(b)'
  BY <1>2, <1>3 DEF Ordered
<1>9. Runs(b)'
  BY <1>1, <1>2, <1>4, <1>5, RunsKept
<1>10. Acked(a)' /\ Acked(b)'
  BY <1>1, <1>2, <1>3 DEF Acked
<1>11. Arrived(a)' /\ Arrived(b)'
  <2>1. Arrived(a)'
    BY <1>2, <1>3 DEF Arrived
  <2>2. Arrived(b)'
    BY <1>1, <1>2, <1>3 DEF Arrived
  <2> QED  BY <2>1, <2>2
<1>12. Flow(a)'
  <2> SUFFICES ASSUME NEW d \in Conn, Live(b, d)'
               PROVE  /\ Stepwise(wire[d][a], Due(b, d)')
                      /\ d = k => Follows(wire[d][a], Len(wire[d][a]), Due(b, d)', First(a))
    BY <1>3 DEF Flow, FlowOn
  <2>1. Due(b, d)' = Due(b, d)
    BY <1>3 DEF Due
  <2>2. First(a) \in Due(b, d)
    BY <1>2, <1>3 DEF Due
  <2>3. CASE open[d][b]
    <3>1. Live(b, d)
      BY <2>3, <1>3 DEF Live
    <3>2. Stepwise(wire[d][a], Due(b, d))
      BY <3>1, <1>2 DEF Flow, FlowOn
    <3> QED  BY <3>2, <2>1, <2>2 DEF Follows
  <2>4. CASE ~open[d][b]
    <3>1. wire[d][a] = <<>>
      BY <2>4, <1>1 DEF Live, Opened
    <3>2. \A i \in 1..Len(wire[d][a]) : FALSE
      BY <3>1
    <3> QED  BY <3>2, <2>1, <2>2 DEF Stepwise, Follows
  <2> QED  BY <2>3, <2>4
<1>13. Flow(b)'
  <2> SUFFICES ASSUME NEW d \in Conn PROVE FlowOn(b, d)'
    BY DEF Flow
  <2>1. FlowOn(b, d)
    BY <1>2 DEF Flow
  <2>2. d # 0
    BY DEF Conn
  <2>3. CASE open[d][a]
    <3>1. Live(a, d)
      BY <2>2, <2>3, <1>2 DEF Live
    <3>2. Due(a, d) \subseteq Due(a, d)'
      BY <2>2, <1>2, <1>3 DEF Due
    <3> QED  BY <3>1, <3>2, <2>1, <1>1, <1>5, FlowKept DEF SameWrite
  <2>4. CASE ~open[d][a] /\ open'[d][a]
    <3>1. wire[d][b] = <<>> /\ ep[b].conn # d
      BY <2>4, <1>1 DEF Opened
    <3>2. Stepwise(<<>>, Due(a, d)')
      BY DEF Stepwise
    <3> QED  BY <3>1, <3>2, <1>1, <1>3 DEF FlowOn
  <2>5. CASE ~open'[d][a]
    <3>1. ~Live(a, d)'
      BY <2>5 DEF Live
    <3> QED  BY <3>1, <1>1 DEF FlowOn
  <2> QED  BY <2>3, <2>4, <2>5
<1> QED  BY <1>1, <1>3, <1>4, <1>6, <1>7, <1>8, <1>9, <1>10, <1>11, <1>12, <1>13 DEF DupInv

\* The initiator makes a connection.
LEMMA DialStep ==
  ASSUME DupInv, Dial PROVE DupInv'
<1> DEFINE k == conns + 1
<1>1. /\ ep["I"].task = "connect" /\ conns < MaxConns /\ conns' = k /\ OnConnection("I", k)
      /\ open' = [open EXCEPT ![k] = [e \in Side |-> TRUE]]
      /\ offered' = offered \cup {k}
      /\ UNCHANGED <<posted, outcome, delivered, inbox, wire, broken>>
  BY DEF Dial, appVars
<1>2. /\ TypeDup /\ Links /\ conns \in Nat /\ offered \in SUBSET Conn /\ "I" \in Side /\ "A" \in Side
      /\ open \in [Conn -> [Side -> BOOLEAN]]
  BY DEF DupInv, TypeDup, Side
<1>3. k \in Conn /\ k \in 0..MaxConns /\ k >= conns /\ k > conns
  BY <1>1, <1>2, BoundsAssumption DEF Conn
<1>4. open' \in [Conn -> [Side -> BOOLEAN]]
      /\ \A c \in Conn, e \in Side : open'[c][e] <=> (c = k \/ open[c][e])
  BY <1>1, <1>2, <1>3
<1>5. \A d \in Side : ep[d].conn # k
  <2> SUFFICES ASSUME NEW d \in Side PROVE ep[d].conn # k
    OBVIOUS
  <2>1. Local(d) /\ ep[d].task \in {"offer", "connect", "run", "clean", "close", "ended"}
    BY <1>2, EndpointFacts DEF DupInv
  <2>2. ep[d].conn = 0 \/ ep[d].conn \in 1..conns
    BY <2>1 DEF Local
  <2> QED  BY <2>2, <1>2
<1>6. \A d \in Side : wire[k][d] = <<>>
  BY <1>2, <1>3 DEF Links
<1>7. Opened("I")
  BY <1>4, <1>5, <1>6 DEF Opened
<1>8. offered' \in SUBSET Conn
  BY <1>1, <1>2, <1>3
<1>10. \A c \in offered : c <= conns /\ c <= k
  <2> SUFFICES ASSUME NEW c \in offered PROVE c <= conns /\ c <= k
    OBVIOUS
  <2>1. c <= conns /\ c \in Nat
    BY <1>2 DEF Links, Conn
  <2> QED  BY <2>1, <1>2
<1>11. ep'["A"].conn = ep["A"].conn
  <2>1. Other("I") = "A"
    BY DEF Other
  <2> QED  BY <2>1, <1>1, <1>2, <1>3, OnConnectionFacts
<1> HIDE DEF k
<1>12. Links'
  <2>1. \A c \in Conn, e \in Side : c > conns' => wire'[c][e] = <<>>
    <3> SUFFICES ASSUME NEW c \in Conn, NEW e \in Side, c > k PROVE wire[c][e] = <<>>
      BY <1>1
    <3>1. c > conns
      BY <1>2, <1>3 DEF Conn
    <3> QED  BY <3>1, <1>2 DEF Links
  <2>2. ASSUME NEW c \in offered'
        PROVE  c <= k /\ c # ep["A"].conn /\ open'[c]["A"]
    <3>1. CASE c \in offered
      <4>1. c # ep["A"].conn /\ open[c]["A"] /\ c \in Conn
        BY <3>1, <1>2 DEF Links
      <4> QED  BY <3>1, <4>1, <1>2, <1>4, <1>10
    <3>2. CASE c = k
      <4>1. k <= k
        BY <1>3
      <4> QED  BY <3>2, <4>1, <1>2, <1>3, <1>4, <1>5
    <3> QED  BY <3>1, <3>2, <1>1
  <2> QED  BY <2>1, <2>2, <1>1, <1>11 DEF Links
<1>13. open'[k]["I"] /\ conns' \in 0..MaxConns /\ conns' >= conns /\ k <= conns'
  BY <1>1, <1>2, <1>3, <1>4
<1> QED  BY <1>1, <1>2, <1>3, <1>4, <1>7, <1>8, <1>12, <1>13, ConnectStep

\* The acceptor's link takes one of the connections that are prepared.
LEMMA AcceptStep ==
  ASSUME DupInv, NEW k \in Conn, Accept(k) PROVE DupInv'
<1>1. /\ ep["A"].task = "connect" /\ k \in offered /\ OnConnection("A", k)
      /\ offered' = offered \ {k}
      /\ UNCHANGED <<posted, outcome, delivered, inbox, wire, open, broken, conns>>
  BY DEF Accept, appVars
<1>2. /\ TypeDup /\ Links /\ conns \in 0..MaxConns /\ offered \in SUBSET Conn /\ "A" \in Side
      /\ open \in [Conn -> [Side -> BOOLEAN]] /\ conns \in Nat
  BY DEF DupInv, TypeDup, Side
<1>4. k <= conns /\ open[k]["A"]
  BY <1>1, <1>2 DEF Links
<1>5. ep'["A"].conn = k
  BY <1>1, <1>2, OnConnectionFacts
<1>7. Links'
  <2>1. ASSUME NEW c \in offered' PROVE c <= conns /\ c # k /\ open[c]["A"]
    BY <1>1, <1>2 DEF Links
  <2>3. \A c \in Conn, e \in Side : c > conns => wire[c][e] = <<>>
    BY <1>2 DEF Links
  <2> QED  BY <2>1, <2>3, <1>1, <1>5 DEF Links
<1>8. Opened("A") /\ open' \in [Conn -> [Side -> BOOLEAN]] /\ open'[k]["A"]
      /\ conns' \in 0..MaxConns /\ conns' >= conns /\ k <= conns' /\ offered' \in SUBSET Conn
  BY <1>1, <1>2, <1>4 DEF Opened
<1> QED  BY <1>1, <1>2, <1>7, <1>8, ConnectStep

\* The acceptor's handles are taken.
LEMMA HandOffStep ==
  ASSUME DupInv, HandOff PROVE DupInv'
<1> DEFINE s == [ep["A"] EXCEPT !.task = "connect"]
<1>1. /\ ep["A"].task = "offer" /\ ep' = [ep EXCEPT !["A"] = s]
      /\ UNCHANGED <<posted, outcome, delivered, inbox, wire, open, broken, offered, conns>>
  BY DEF HandOff, appVars, linkVars, DupInv, TypeDup
<1>2. /\ "A" \in Side /\ Other("A") = "I" /\ TypeDup /\ Links /\ Local("A") /\ ep["A"] \in Endpoint("A")
      /\ ep["A"].seq \in Nat
  BY EndpointFacts DEF DupInv, TypeDup, Side, Other
<1>3. /\ s \in Endpoint("A") /\ s.task = "connect" /\ s.conn = ep["A"].conn
      /\ s.queue = ep["A"].queue /\ s.outbox = ep["A"].outbox /\ s.unacked = ep["A"].unacked
      /\ s.acked = ep["A"].acked /\ s.seq = ep["A"].seq /\ s.ack = ep["A"].ack
      /\ s.pending = ep["A"].pending /\ s.writing = ep["A"].writing
      /\ s.hold = ep["A"].hold /\ s.slot = ep["A"].slot
  BY <1>2 DEF Endpoint
<1> HIDE DEF s
<1>4. DOMAIN ep' = Side /\ ep'["A"] = s /\ ep'["I"] = ep["I"] /\ \A e \in Side : ep'[e] \in Endpoint(e)
  BY <1>1, <1>2, <1>3, SideSet
<1>5. TypeDup'
  BY <1>1, <1>2, <1>4 DEF TypeDup
<1>6. Left("A")
  BY <1>1, <1>2, <1>3, <1>4 DEF Left, SameTx, Local
<1>7. LeftWires("A")
  BY <1>1 DEF LeftWires
<1>8. LeftOpen("A")
  <2>1. \A c \in Conn : c # ep["A"].conn
    BY <1>1, <1>2 DEF Local, Conn
  <2> QED  BY <2>1, <1>1, <1>2, <1>3, <1>4 DEF LeftOpen, Links
<1> QED  BY <1>1, <1>2, <1>4, <1>5, <1>6, <1>7, <1>8, LeaveStep

-----------------------------------------------------------------------------
(* The invariant, and what it is for.                                      *)

\* It holds when both ends have been spawned.
LEMMA DupInvInit ==
  ASSUME Init PROVE DupInv
<1>1. \A e \in Side : ep[e] \in {Fresh, [Fresh EXCEPT !.task = "offer"]}
  BY DEF Init
<1>2. ASSUME NEW e \in Side
      PROVE  /\ ep[e].task \in {"offer", "connect"} /\ ep[e].conn = 0 /\ ep[e].queue = <<>>
             /\ ep[e].outbox = <<>> /\ ep[e].unacked = <<>> /\ ep[e].acked = None
             /\ ep[e].seq = 0 /\ ep[e].ack = 0 /\ ep[e].pending = None
             /\ ep[e].writing = "none" /\ ep[e].slot = NoFrame /\ ep[e].hold = None
             /\ ep[e] \in Endpoint(e)
  <2>1. <<>> \in Seq(Nat)
    OBVIOUS
  <2>2. Fresh \in Endpoint(e)
    BY <2>1 DEF Fresh, Endpoint
  <2>3. /\ Fresh.task = "connect" /\ Fresh.conn = 0 /\ Fresh.queue = <<>> /\ Fresh.outbox = <<>>
        /\ Fresh.unacked = <<>> /\ Fresh.acked = None /\ Fresh.seq = 0 /\ Fresh.ack = 0
        /\ Fresh.pending = None /\ Fresh.writing = "none" /\ Fresh.slot = NoFrame
        /\ Fresh.hold = None
    BY DEF Fresh
  <2>4. CASE ep[e] = Fresh
    BY <2>2, <2>3, <2>4
  <2>5. CASE ep[e] = [Fresh EXCEPT !.task = "offer"]
    BY <2>2, <2>3, <2>5 DEF Endpoint
  <2> QED  BY <1>1, <2>4, <2>5
<1>3. /\ posted = [e \in Side |-> 0] /\ outcome = [e \in Side |-> [m \in Msg(e) |-> "none"]]
      /\ delivered = [e \in Side |-> <<>>] /\ inbox = [e \in Side |-> 0]
      /\ wire = [c \in Conn |-> [e \in Side |-> <<>>]]
      /\ open = [c \in Conn |-> [e \in Side |-> FALSE]]
      /\ offered = {} /\ conns = 0 /\ DOMAIN ep = Side
  BY DEF Init
<1>4. TypeDup
  <2>1. \A e \in Side : ep[e] \in Endpoint(e)
    BY <1>2
  <2>2. posted \in [Side -> Nat] /\ \A e \in Side : posted[e] <= Posts(e)
    BY <1>3, BoundsAssumption DEF Posts
  <2>3. DOMAIN outcome = Side /\ \A e \in Side : outcome[e] \in [Msg(e) -> Outcomes]
    BY <1>3 DEF Outcomes
  <2>4. delivered \in [Side -> Seq(Nat)] /\ inbox \in [Side -> 0..InboxCap]
    BY <1>3, BoundsAssumption
  <2>5. TypeWire
    BY <1>3 DEF TypeWire
  <2>6. open \in [Conn -> [Side -> BOOLEAN]] /\ offered \in SUBSET Conn /\ conns \in 0..MaxConns
    BY <1>3, BoundsAssumption
  <2> QED  BY <2>1, <2>2, <2>3, <2>4, <2>5, <2>6, <1>3 DEF TypeDup, TypeWire
<1>5. Links
  BY <1>3 DEF Links
<1> SUFFICES ASSUME NEW e \in Side
             PROVE  Local(e) /\ Ordered(e) /\ Runs(e) /\ Acked(e) /\ Arrived(e) /\ Flow(e)
  BY <1>4, <1>5 DEF DupInv
<1>6. Other(e) \in Side
  BY Sides
<1>7. Local(e)
  BY <1>2, <1>6 DEF Local
<1>8. Ordered(e)
  BY <1>2, <1>3, <1>6 DEF Ordered
<1>9. First(e) = 0 /\ Write(e) = 0
  <2>1. posted[e] = 0 /\ Len(ep[e].queue) = 0 /\ Len(ep[e].outbox) = 0 /\ Len(ep[e].unacked) = 0
    BY <1>2, <1>3, <1>6
  <2> QED  BY <2>1 DEF First, Write
<1>10. Runs(e)
  BY <1>2, <1>6, <1>9 DEF Runs
<1>11. Acked(e)
  BY <1>2, <1>3, <1>6 DEF Acked, None
<1>12. Arrived(e)
  BY <1>2, <1>3, <1>6 DEF Arrived
<1>13. Flow(e)
  BY <1>3, <1>6 DEF Flow, FlowOn, Live
<1> QED  BY <1>7, <1>8, <1>10, <1>11, <1>12, <1>13

\* Each way a loop ends.
LEMMA EndsStep ==
  ASSUME DupInv, NEW a \in Side,
         \/ ConnectionEnds(a) \/ WriteFails(a) \/ DeliverFails(a) \/ TakeClosed(a)
         \/ Timeout(a) \/ AppClosed(a) \/ Cancelled(a)
  PROVE  DupInv'
<1>1. Running(a) /\ \E why \in Reasons : LoopEnds(a, why)
  BY DEF ConnectionEnds, WriteFails, DeliverFails, TakeClosed, Holds, Timeout, AppClosed,
         Cancelled, Reasons
<1> QED  BY <1>1, LoopEndsStep

\* Steps that change what no conjunct speaks of, but for the inbox.
LEMMA QuietActions ==
  ASSUME DupInv, NEW a \in Side, DropTx(a) \/ DropRx(a) \/ Cancel(a) \/ RxRecv(a)
  PROVE  DupInv'
<1>1. UNCHANGED <<ep, posted, outcome, delivered, wire, open, broken, offered, conns>>
  BY DEF DropTx, DropRx, Cancel, RxRecv, linkVars, appVars
<1>2. inbox' \in [Side -> 0..InboxCap]
  <2>1. inbox \in [Side -> 0..InboxCap]
    BY DEF DupInv, TypeDup
  <2>2. CASE RxRecv(a)
    <3>1. inbox' = [inbox EXCEPT ![a] = @ - 1] /\ inbox[a] - 1 \in 0..InboxCap
      BY <2>1, <2>2, BoundsAssumption DEF RxRecv
    <3> QED  BY <2>1, <3>1
  <2>3. CASE UNCHANGED inbox
    BY <2>1, <2>3
  <2> QED  BY <2>2, <2>3 DEF DropTx, DropRx, Cancel
<1> QED  BY <1>1, <1>2, QuietStep

\* Every step keeps it.
LEMMA DupInvStep ==
  ASSUME DupInv, [Next]_vars PROVE DupInv'
<1>1. CASE UNCHANGED vars
  <2>1. UNCHANGED <<ep, posted, outcome, delivered, wire, open, offered, conns, inbox, broken>>
    BY <1>1 DEF vars
  <2>2. inbox' \in [Side -> 0..InboxCap]
    BY <2>1 DEF DupInv, TypeDup
  <2> QED  BY <2>1, <2>2, QuietStep
<1>2. CASE Connects
  <2>1. CASE Dial
    BY <2>1, DialStep
  <2>2. CASE DialFails
    <3>1. /\ ep["I"].task = "connect" /\ Gone("I") /\ ep' = [ep EXCEPT !["I"] = Ended("I")]
          /\ UNCHANGED <<posted, delivered, inbox, wire, open, broken, conns>> /\ "I" \in Side
      BY <2>2 DEF DialFails, appVars, Side
    <3> QED  BY <3>1, GiveUpStep
  <2>3. ASSUME NEW c \in Conn, Accept(c) PROVE DupInv'
    BY <2>3, AcceptStep
  <2> QED  BY <1>2, <2>1, <2>2, <2>3 DEF Connects
<1>3. ASSUME NEW c \in Conn, Break(c) PROVE DupInv'
  <2>1. UNCHANGED <<ep, posted, outcome, delivered, wire, open, offered, conns, inbox>>
        /\ broken \subseteq broken'
    BY <1>3 DEF Break, appVars
  <2>2. inbox' \in [Side -> 0..InboxCap]
    BY <2>1 DEF DupInv, TypeDup
  <2> QED  BY <2>1, <2>2, QuietStep
<1>4. ASSUME NEW a \in Side,
             \/ Post(a) \/ DropTx(a) \/ DropRx(a) \/ Cancel(a) \/ RxRecv(a)
             \/ Reads(a) \/ Writes(a) \/ Acks(a) \/ Delivers(a) \/ Takes(a) \/ Stops(a) \/ Timeout(a)
      PROVE  DupInv'
  <2>1. CASE Post(a)
    BY <2>1, PostStep
  <2>2. CASE DropTx(a) \/ DropRx(a) \/ Cancel(a) \/ RxRecv(a)
    BY <2>2, QuietActions
  <2>3. CASE Reads(a)
    BY <2>3, FetchStep, TakeAckStep, TakeDataStep, EndsStep DEF Reads
  <2>4. CASE Writes(a)
    BY <2>4, StartStep, DoneDataStep, EndsStep DEF Writes
  <2>5. CASE Acks(a)
    BY <2>5, StartStep, DoneAckStep DEF Acks
  <2>6. CASE Delivers(a)
    BY <2>6, DeliverStep, EndsStep DEF Delivers
  <2>7. CASE Takes(a)
    BY <2>7, RecvNewStep, EndsStep DEF Takes
  <2>8. CASE Stops(a)
    <3>1. CASE ConnectCancelled(a)
      <4>1. /\ ep[a].task \in {"offer", "connect"} /\ Gone(a) /\ ep' = [ep EXCEPT ![a] = Ended(a)]
            /\ LetGo(a, TRUE) /\ UNCHANGED <<posted, delivered, inbox, wire, broken, conns>>
        BY <3>1 DEF ConnectCancelled, appVars
      <4> QED  BY <4>1, GiveUpStep
    <3> QED  BY <2>8, <3>1, FlushStep, ReleaseStep, EndsStep DEF Stops
  <2>9. CASE Timeout(a)
    BY <2>9, EndsStep
  <2> QED  BY <1>4, <2>1, <2>2, <2>3, <2>4, <2>5, <2>6, <2>7, <2>8, <2>9
<1> QED  BY <1>1, <1>2, <1>3, <1>4, HandOffStep DEF Next

\* Every behaviour of the two ends keeps the invariant: the deques of spawn's session are
\* one run, acks are for delivered messages, and no data frame is ahead of its reader on
\* any connection, whatever breaks and wherever a frame is cut off.
THEOREM DuplexInvariant == Spec => []DupInv
<1>1. Init => DupInv
  BY DupInvInit
<1>2. DupInv /\ [Next]_vars => DupInv'
  BY DupInvStep
<1> QED  BY <1>1, <1>2, PTL DEF Spec

\* It gives the type invariant that TLC checks.
LEMMA DupInvTypes ==
  ASSUME DupInv PROVE TypeOK
<1> SUFFICES ASSUME NEW e \in Side
             PROVE  /\ ep[e].task \in {"offer", "connect", "run", "clean", "close", "ended"}
                    /\ ep[e].conn \in 0..conns /\ ep[e].writing \in {"none", "data", "ack"}
                    /\ ep[e].ack \in 0..ep[e].seq /\ ep[e].seq \in 0..posted[Other(e)]
                    /\ ep[e].pending \in {None} \cup 1..ep[e].seq
                    /\ ep[e].hold \in {None} \cup Msg(Other(e))
                    /\ ep[e].slot # NoFrame => ep[e].slot.type = "data"
                    /\ inbox[e] \in 0..InboxCap
                    /\ \A m \in Msg(e) : outcome[e][m] \in {"none", "pending", "accepted", "rejected", "dropped"}
  BY DEF TypeOK
<1> DEFINE o == Other(e)
<1>1. /\ TypeDup /\ Local(e) /\ Arrived(o) /\ o \in Side /\ Other(o) = e
  BY Sides DEF DupInv
<1>2. /\ ep[e].task \in {"offer", "connect", "run", "clean", "close", "ended"} /\ ep[e].writing \in {"none", "data", "ack"}
      /\ ep[e].seq \in Nat /\ ep[e].ack \in Nat /\ ep[e].pending \in {None} \cup Nat
      /\ ep[e].hold \in {None} \cup Nat /\ (ep[e].slot # NoFrame => ep[e].slot.type = "data")
      /\ posted[o] \in Nat /\ posted[o] <= Posts(o) /\ conns \in Nat
      /\ inbox[e] \in 0..InboxCap /\ outcome[e] \in [Msg(e) -> Outcomes]
  <2>1. /\ posted \in [Side -> Nat] /\ posted[o] <= Posts(o) /\ conns \in 0..MaxConns
        /\ inbox \in [Side -> 0..InboxCap] /\ outcome[e] \in [Msg(e) -> Outcomes]
        /\ ep[e] \in Endpoint(e)
    BY <1>1, Zenon DEF TypeDup
  <2>2. conns \in Nat
    BY <2>1, BoundsAssumption
  <2>3. ep[e].slot # NoFrame => ep[e].slot.type = "data"
    BY <1>1, EndpointFacts
  <2> HIDE DEF o
  <2> QED  BY <1>1, <2>1, <2>2, <2>3 DEF Endpoint
<1>3. ep[e].conn \in 0..conns
  <2>1. ep[e].conn = 0 \/ ep[e].conn \in 1..conns
    BY <1>1, <1>2 DEF Local
  <2> QED  BY <2>1, <1>2
<1>4. ep[e].ack \in 0..ep[e].seq /\ ep[e].pending \in {None} \cup 1..ep[e].seq
  BY <1>1, <1>2 DEF Local
<1>5. ep[e].seq \in 0..posted[o] /\ (ep[e].hold # None => ep[e].hold < posted[o])
  BY <1>1, <1>2 DEF Arrived
<1>6. ep[e].hold \in {None} \cup Msg(o)
  <2>1. Posts(o) \in Nat
    BY BoundsAssumption DEF Posts
  <2> QED  BY <2>1, <1>2, <1>5 DEF Msg
<1> QED  BY <1>2, <1>3, <1>4, <1>5, <1>6 DEF Outcomes

\* Queues, wires, slots and completions keep their types; in particular the hand of the
\* receiving branch only ever has a message the peer has posted.
THEOREM DuplexTypes == Spec => []TypeOK
BY DuplexInvariant, DupInvTypes, PTL

-----------------------------------------------------------------------------
(* The order of the acks that the initiator reads.                         *)

\* Acks are in ascending order.
Sorted(w) == \A i, j \in 1..Len(w) :
               i < j /\ w[i].type = "ack" /\ w[j].type = "ack" => w[i].seq <= w[j].seq

\* The acks among the acceptor's frames w: none is older than the last one that was
\* read, and all are older than the next one that will be written.
Recent(w) == \A i \in 1..Len(w) :
               w[i].type = "ack" => /\ ep["I"].acked <= w[i].seq
                                    /\ ep["A"].task # "ended" => w[i].seq < ep["A"].ack

\* The initiator has no connection but its own, nothing waits for it on another one, and
\* what waits there is in order.
AckInv ==
  /\ \A c \in Conn : /\ open[c]["I"] => c = ep["I"].conn
                     /\ ~open[c]["I"] => wire[c]["A"] = <<>>
                     /\ Sorted(wire[c]["A"]) /\ Recent(wire[c]["A"])
  /\ ep["A"].task # "ended" => /\ ep["I"].acked < ep["A"].ack
                               /\ ep["A"].pending # None => ep["A"].ack < ep["A"].pending

\* Acks stay in order when the first frame is read.
LEMMA SortedTail ==
  ASSUME NEW S, NEW w \in Seq(S), w # <<>>, Sorted(w) PROVE Sorted(Tail(w))
<1> DEFINE v == Tail(w)
<1>1. /\ Len(w) \in Nat \ {0} /\ Len(v) = Len(w) - 1 /\ \A i \in 1..(Len(w) - 1) : v[i] = w[i + 1]
  BY Tailed
<1> HIDE DEF v
<1>2. ASSUME NEW i \in 1..Len(v), NEW j \in 1..Len(v), i < j, v[i].type = "ack", v[j].type = "ack"
      PROVE  v[i].seq <= v[j].seq
  <2>1. /\ i + 1 \in 1..Len(w) /\ j + 1 \in 1..Len(w) /\ i + 1 < j + 1
        /\ v[i] = w[i + 1] /\ v[j] = w[j + 1]
    BY <1>1, <1>2
  <2> QED  BY <2>1, <1>2 DEF Sorted
<1> QED  BY <1>2 DEF Sorted, v

\* Acks stay in order when a frame is written that is no older ack.
LEMMA SortedMore ==
  ASSUME NEW S, NEW w \in Seq(S), NEW f \in S, Sorted(w),
         f.type = "ack" => \A i \in 1..Len(w) : w[i].type = "ack" => w[i].seq <= f.seq,
         f.type = "ack" => f.seq \in Nat
  PROVE  Sorted(Append(w, f))
<1> DEFINE u == Append(w, f)
<1>1. /\ Len(w) \in Nat /\ Len(u) = Len(w) + 1 /\ u[Len(w) + 1] = f
      /\ \A i \in 1..Len(w) : u[i] = w[i]
  BY Appended
<1> HIDE DEF u
<1>2. ASSUME NEW i \in 1..Len(u)
      PROVE  (i \in 1..Len(w) /\ u[i] = w[i]) \/ (i = Len(w) + 1 /\ u[i] = f)
  BY <1>1
<1>3. ASSUME NEW i \in 1..Len(u), NEW j \in 1..Len(u), i < j, u[i].type = "ack", u[j].type = "ack"
      PROVE  u[i].seq <= u[j].seq
  <2>1. i \in 1..Len(w) /\ u[i] = w[i]
    BY <1>1, <1>2, <1>3
  <2> QED  BY <2>1, <1>2, <1>3 DEF Sorted
<1> QED  BY <1>3 DEF Sorted, u

\* What is open after a side has let go.
LEMMA OpenLeft ==
  ASSUME TypeDup, NEW a \in Side, NEW ends, LetGo(a, ends) \/ UNCHANGED open
  PROVE  /\ \A c \in Conn, e \in Side : open'[c][e] => open[c][e]
         /\ \A c \in Conn : c = ep[a].conn /\ LetGo(a, ends) => ~open'[c][a]
<1>1. open \in [Conn -> [Side -> BOOLEAN]]
  BY DEF TypeDup
<1> QED  BY <1>1 DEF LetGo

LEMMA OpenKept ==
  ASSUME TypeDup, NEW a \in Side, NEW ends, LetGo(a, ends) \/ UNCHANGED open
  PROVE  \A c \in Conn : open'[c][Other(a)] <=> open[c][Other(a)]
<1>1. open \in [Conn -> [Side -> BOOLEAN]] /\ Other(a) # a /\ Other(a) \in Side
  BY Sides DEF TypeDup
<1> QED  BY <1>1 DEF LetGo

\* A frame that is written arrives only where somebody may read it.
LEMMA WrittenTo ==
  ASSUME TypeDup, NEW c \in Conn, NEW a \in Side, NEW f \in AnyFrame(a), Wrote(a, c, f)
  PROVE  /\ OtherWires(c, a)
         /\ \/ wire'[c][a] = wire[c][a]
            \/ wire'[c][a] = Append(wire[c][a], f) /\ open[c][Other(a)] /\ c \notin broken
<1> DEFINE w == wire[c][a]
           v == Arriving(a, c, <<f>>)
<1>1. w \in Seq(AnyFrame(a))
  BY DEF TypeDup
<1>2. w \o <<f>> = Append(w, f) /\ Append(w, f) \in Seq(AnyFrame(a))
  BY <1>1
<1>3. v = w \/ (v = Append(w, f) /\ open[c][Other(a)] /\ c \notin broken)
  BY <1>2 DEF Arriving
<1>4. v \in Seq(AnyFrame(a)) /\ wire' = [wire EXCEPT ![c][a] = v]
  BY <1>1, <1>2, <1>3 DEF Wrote
<1> HIDE DEF v
<1>5. wire'[c][a] = v /\ OtherWires(c, a)
  BY <1>4, WireSet
<1> QED  BY <1>3, <1>5

\* What was on its way from the acceptor is what is, or less, or a frame more that is no
\* ack and will be read.
Thinner(c) ==
  LET w == wire[c]["A"]
      v == wire'[c]["A"]
  IN  \/ v = w \/ (w # <<>> /\ v = Tail(w))
      \/ open[c]["I"] /\ \E f \in AnyFrame("A") : f.type # "ack" /\ v = Append(w, f)

\* The acks of a connection after such a step.
LEMMA ThinnerAcks ==
  ASSUME TypeDup, NEW c \in Conn, Thinner(c), Sorted(wire[c]["A"])
  PROVE  /\ Sorted(wire'[c]["A"])
         /\ wire[c]["A"] = <<>> /\ ~open[c]["I"] => wire'[c]["A"] = <<>>
         /\ \A i \in 1..Len(wire'[c]["A"]) :
              wire'[c]["A"][i].type = "ack" =>
                \E j \in 1..Len(wire[c]["A"]) : wire'[c]["A"][i] = wire[c]["A"][j]
<1> DEFINE w == wire[c]["A"]
           v == wire'[c]["A"]
<1>1. w \in Seq(AnyFrame("A"))
  BY DEF TypeDup, Side
<1>2. Sorted(w) /\ \/ v = w \/ (w # <<>> /\ v = Tail(w))
                   \/ open[c]["I"] /\ \E f \in AnyFrame("A") : f.type # "ack" /\ v = Append(w, f)
  BY DEF Thinner
<1> HIDE DEF w, v
<1>3. CASE v = w
  BY <1>2, <1>3 DEF w, v
<1>4. CASE w # <<>> /\ v = Tail(w)
  <2>1. /\ Len(w) \in Nat \ {0} /\ Len(v) = Len(w) - 1
        /\ \A i \in 1..(Len(w) - 1) : v[i] = w[i + 1]
    BY <1>1, <1>4, Tailed
  <2>2. ASSUME NEW i \in 1..Len(v) PROVE \E j \in 1..Len(w) : v[i] = w[j]
    <3>1. i + 1 \in 1..Len(w) /\ v[i] = w[i + 1]
      BY <2>1
    <3> QED  BY <3>1
  <2>3. Sorted(v)
    BY <1>1, <1>2, <1>4, SortedTail
  <2> QED  BY <2>2, <2>3, <1>4 DEF w, v
<1>5. CASE open[c]["I"] /\ \E f \in AnyFrame("A") : f.type # "ack" /\ v = Append(w, f)
  <2>1. PICK f \in AnyFrame("A") : f.type # "ack" /\ v = Append(w, f)
    BY <1>5
  <2>2. /\ Len(w) \in Nat /\ Len(v) = Len(w) + 1 /\ v[Len(w) + 1] = f
        /\ \A i \in 1..Len(w) : v[i] = w[i]
    BY <1>1, <2>1, Appended
  <2>3. ASSUME NEW i \in 1..Len(v), v[i].type = "ack" PROVE \E j \in 1..Len(w) : v[i] = w[j]
    <3>1. i \in 1..Len(w)
      BY <2>1, <2>2, <2>3
    <3> QED  BY <3>1, <2>2
  <2>4. Sorted(v)
    BY <1>1, <1>2, <2>1, SortedMore
  <2> QED  BY <2>3, <2>4, <1>5 DEF w, v
<1> QED  BY <1>2, <1>3, <1>4, <1>5

\* The numbers that acks are about.
LEMMA AckNumbers ==
  ASSUME TypeDup
  PROVE  /\ ep["I"].acked \in Int /\ ep["I"].acked >= None /\ ep["A"].ack \in Nat
         /\ "I" \in Side /\ "A" \in Side /\ Other("I") = "A" /\ Other("A") = "I"
         /\ \A c \in Conn : wire[c]["A"] \in Seq(AnyFrame("A"))
         /\ \A c \in Conn : \A i \in 1..Len(wire[c]["A"]) :
              wire[c]["A"][i].type = "ack" => wire[c]["A"][i].seq \in Nat
<1>1. "I" \in Side /\ "A" \in Side /\ Other("I") = "A" /\ Other("A") = "I"
  BY DEF Side, Other
<1>2. ep["I"].acked \in {None} \cup Nat /\ ep["A"].ack \in Nat
  BY <1>1, EndpointFacts
<1>3. ep["I"].acked \in Int /\ ep["I"].acked >= None
  BY <1>2 DEF None
<1>4. \A c \in Conn : wire[c]["A"] \in Seq(AnyFrame("A"))
  BY <1>1 DEF TypeDup
<1>5. ASSUME NEW c \in Conn, NEW i \in 1..Len(wire[c]["A"]), wire[c]["A"][i].type = "ack"
      PROVE  wire[c]["A"][i].seq \in Nat
  <2>1. wire[c]["A"][i] \in AnyFrame("A")
    BY <1>4
  <2> QED  BY <2>1, <1>1, <1>5, FrameFacts
<1> QED  BY <1>1, <1>2, <1>3, <1>4, <1>5

\* A step that writes no ack and reads none.
LEMMA NoAckStep ==
  ASSUME TypeDup, TypeDup', AckInv,
         \A c \in Conn : \/ wire'[c]["A"] = <<>> /\ (open'[c]["I"] => c = ep'["I"].conn)
                         \/ /\ open'[c]["I"] <=> open[c]["I"]
                            /\ ep'["I"].conn = ep["I"].conn /\ Thinner(c),
         ep'["I"].acked \in {None, ep["I"].acked},
         ep'["A"].task # "ended" =>
           /\ ep["A"].task # "ended" /\ ep'["A"].ack = ep["A"].ack
           /\ \/ ep'["A"].pending \in {None, ep["A"].pending}
              \/ ep'["A"].ack < ep'["A"].pending
  PROVE  AckInv'
<1>1. /\ ep["I"].acked \in Int /\ ep["A"].ack \in Nat /\ ep'["I"].acked \in Int
      /\ ep'["I"].acked <= ep["I"].acked
  <2>1. ep["I"].acked \in Int /\ ep["I"].acked >= None /\ ep["A"].ack \in Nat
    BY AckNumbers
  <2> QED  BY <2>1 DEF None
<1>2. ep'["A"].task # "ended" => /\ ep'["I"].acked < ep'["A"].ack
                                 /\ ep'["A"].pending # None => ep'["A"].ack < ep'["A"].pending
  <2> SUFFICES ASSUME ep'["A"].task # "ended"
               PROVE  /\ ep'["I"].acked < ep'["A"].ack
                      /\ ep'["A"].pending # None => ep'["A"].ack < ep'["A"].pending
    OBVIOUS
  <2>1. ep["I"].acked < ep["A"].ack /\ (ep["A"].pending # None => ep["A"].ack < ep["A"].pending)
    BY DEF AckInv
  <2>2. ep'["I"].acked < ep'["A"].ack
    BY <2>1, <1>1
  <2> QED  BY <2>1, <2>2
<1>3. ASSUME NEW c \in Conn
      PROVE  /\ open'[c]["I"] => c = ep'["I"].conn
             /\ ~open'[c]["I"] => wire'[c]["A"] = <<>>
             /\ Sorted(wire'[c]["A"]) /\ Recent(wire[c]["A"])'
  <2>1. CASE wire'[c]["A"] = <<>> /\ (open'[c]["I"] => c = ep'["I"].conn)
    <3>1. \A i \in 1..Len(wire'[c]["A"]) : FALSE
      BY <2>1
    <3> QED  BY <2>1, <3>1 DEF Sorted, Recent
  <2>2. CASE (open'[c]["I"] <=> open[c]["I"]) /\ ep'["I"].conn = ep["I"].conn /\ Thinner(c)
    <3>1. /\ open[c]["I"] => c = ep["I"].conn
          /\ ~open[c]["I"] => wire[c]["A"] = <<>>
          /\ Sorted(wire[c]["A"]) /\ Recent(wire[c]["A"])
      BY DEF AckInv
    <3>2. /\ Sorted(wire'[c]["A"])
          /\ wire[c]["A"] = <<>> /\ ~open[c]["I"] => wire'[c]["A"] = <<>>
          /\ \A i \in 1..Len(wire'[c]["A"]) :
               wire'[c]["A"][i].type = "ack" =>
                 \E j \in 1..Len(wire[c]["A"]) : wire'[c]["A"][i] = wire[c]["A"][j]
      BY <2>2, <3>1, ThinnerAcks
    <3>3. ASSUME NEW i \in 1..Len(wire'[c]["A"]), wire'[c]["A"][i].type = "ack"
          PROVE  /\ ep'["I"].acked <= wire'[c]["A"][i].seq
                 /\ ep'["A"].task # "ended" => wire'[c]["A"][i].seq < ep'["A"].ack
      <4>1. PICK j \in 1..Len(wire[c]["A"]) : wire'[c]["A"][i] = wire[c]["A"][j]
        BY <3>2, <3>3
      <4>2. wire[c]["A"][j].seq \in Nat
        BY <3>3, <4>1, AckNumbers
      <4>3. /\ ep["I"].acked <= wire[c]["A"][j].seq
            /\ ep["A"].task # "ended" => wire[c]["A"][j].seq < ep["A"].ack
        BY <3>1, <3>3, <4>1 DEF Recent
      <4>4. ep'["I"].acked <= wire[c]["A"][j].seq
        BY <4>2, <4>3, <1>1
      <4> QED  BY <4>1, <4>3, <4>4
    <3>4. Recent(wire[c]["A"])'
      BY <3>3 DEF Recent
    <3> QED  BY <2>2, <3>1, <3>2, <3>4
  <2> QED  BY <2>1, <2>2
<1> QED  BY <1>2, <1>3 DEF AckInv

\* Side a's own records: its connection, the acks it has read, sent and will send.
Goes(a) ==
  /\ ep'[Other(a)] = ep[Other(a)]
  /\ ep'[a].conn = ep[a].conn /\ ep'[a].acked = ep[a].acked /\ ep'[a].ack = ep[a].ack
  /\ ep[a].task = "ended" => ep'[a].task = "ended"
  /\ ep'[a].pending \in {None, ep[a].pending} \/ ep'[a].ack < ep'[a].pending

\* A step of side a that leaves them alone.
LEMMA GoesOn ==
  ASSUME TypeDup, TypeDup', AckInv, NEW a \in Side, Goes(a), UNCHANGED open, \A c \in Conn : Thinner(c)
  PROVE  AckInv'
<1>1. CASE a = "I"
  <2>1. ep'["A"] = ep["A"] /\ ep'["I"].conn = ep["I"].conn /\ ep'["I"].acked = ep["I"].acked
    BY <1>1 DEF Goes, Other
  <2> QED  BY <2>1, NoAckStep
<1>2. CASE a = "A"
  <2>1. /\ ep'["I"] = ep["I"] /\ ep'["A"].ack = ep["A"].ack
        /\ ep["A"].task = "ended" => ep'["A"].task = "ended"
        /\ ep'["A"].pending \in {None, ep["A"].pending} \/ ep'["A"].ack < ep'["A"].pending
    BY <1>2 DEF Goes, Other
  <2> QED  BY <2>1, NoAckStep
<1> QED  BY <1>1, <1>2 DEF Side

\* A frame is read, or one is written that is no ack.
LEMMA ThinnerWires ==
  ASSUME TypeDup, NEW a \in Side, NEW c \in Conn,
         \/ UNCHANGED wire \/ ReadFrom(c, a)
         \/ \E f \in AnyFrame(a) : f.type # "ack" /\ Wrote(a, c, f)
  PROVE  \A d \in Conn : Thinner(d)
<1>1. CASE UNCHANGED wire
  BY <1>1 DEF Thinner
<1>2. CASE ReadFrom(c, a)
  <2>1. OtherWires(c, a) /\ wire'[c][a] = Tail(wire[c][a]) /\ wire[c][a] # <<>>
    BY <1>2, WireRead DEF ReadFrom
  <2> QED  BY <2>1 DEF OtherWires, Thinner, Side
<1>3. CASE \E f \in AnyFrame(a) : f.type # "ack" /\ Wrote(a, c, f)
  <2>1. PICK f \in AnyFrame(a) : f.type # "ack" /\ Wrote(a, c, f)
    BY <1>3
  <2>2. /\ OtherWires(c, a)
        /\ wire'[c][a] = wire[c][a] \/ (wire'[c][a] = Append(wire[c][a], f) /\ open[c][Other(a)])
    BY <2>1, WrittenTo
  <2>3. a = "A" => Other(a) = "I"
    BY DEF Other
  <2> QED  BY <2>1, <2>2, <2>3 DEF OtherWires, Thinner, Side
<1> QED  BY <1>1, <1>2, <1>3

\* The actions of side a that leave the wires alone.
LEMMA SilentActions ==
  ASSUME TypeDup, TypeDup', AckInv, NEW a \in Side,
         Post(a) \/ RecvNew(a) \/ StartData(a) \/ StartAck(a) \/ BeginAck(a) \/ Deliver(a)
  PROVE  AckInv'
<1>1. DOMAIN ep = Side /\ ep[a] \in Endpoint(a) /\ Other(a) # a /\ Other(a) \in Side
  BY Sides DEF TypeDup
<1>2. UNCHANGED <<wire, open>>
  BY DEF Post, RecvNew, StartData, StartAck, BeginAck, Deliver, Idle, linkVars
<1>3. Goes(a)
  <2>1. CASE Post(a)
    BY <1>1, <2>1 DEF Post, Goes, Endpoint
  <2>2. CASE RecvNew(a)
    BY <1>1, <2>2 DEF RecvNew, Goes, Endpoint
  <2>3. CASE StartData(a)
    BY <1>1, <2>3 DEF StartData, Goes, Endpoint
  <2>4. CASE StartAck(a)
    BY <1>1, <2>4 DEF StartAck, Goes, Endpoint
  <2>5. CASE BeginAck(a)
    BY <1>1, <2>5 DEF BeginAck, Goes, Endpoint
  <2>6. CASE Deliver(a)
    BY <1>1, <2>6 DEF Deliver, Goes, Endpoint
  <2> QED  BY <2>1, <2>2, <2>3, <2>4, <2>5, <2>6
<1>4. \A c \in Conn : Thinner(c)
  BY <1>2 DEF Thinner
<1> QED  BY <1>2, <1>3, <1>4, GoesOn

\* The application, the network, or nothing.
LEMMA StillStep ==
  ASSUME TypeDup, TypeDup', AckInv, UNCHANGED <<ep, wire, open>>
  PROVE  AckInv'
<1>1. "I" \in Side /\ Goes("I") /\ \A c \in Conn : Thinner(c)
  BY DEF Goes, Side, Thinner
<1> QED  BY <1>1, GoesOn

\* A message is read.
LEMMA DataReadStep ==
  ASSUME DupInv, TypeDup', AckInv, NEW a \in Side, Fetch(a) \/ TakeData(a)
  PROVE  AckInv'
<1>1. TypeDup /\ DOMAIN ep = Side /\ ep[a] \in Endpoint(a) /\ Other(a) # a /\ Other(a) \in Side
  BY Sides DEF DupInv, TypeDup
<1>2. /\ Running(a) /\ Frame(a).type = "data" /\ Read(a) /\ UNCHANGED open
  BY DEF Fetch, TakeData, Holds, Idle, linkVars
<1>3. Goes(a)
  <2>1. CASE Fetch(a)
    BY <1>1, <2>1 DEF Fetch, Goes, Endpoint
  <2>2. CASE TakeData(a)
    BY <1>1, <2>2 DEF TakeData, Goes, Endpoint
  <2> QED  BY <2>1, <2>2
<1>4. Frame(a) # NoFrame /\ Frame(a) # Torn
  BY <1>2, FrameTypes
<1>5. ReadFrom(ep[a].conn, Other(a)) \/ UNCHANGED wire
  BY <1>2, <1>4, FrameRead
<1>6. ep[a].conn \in Conn
  BY <1>2, RunFacts DEF Running
<1>7. \A d \in Conn : Thinner(d)
  BY <1>1, <1>5, <1>6, ThinnerWires
<1> QED  BY <1>1, <1>2, <1>3, <1>7, GoesOn

\* A message is written.
LEMMA DataWrittenStep ==
  ASSUME DupInv, TypeDup', AckInv, NEW a \in Side, DoneData(a)
  PROVE  AckInv'
<1> DEFINE m == Head(ep[a].outbox)
<1>1. /\ TypeDup /\ DOMAIN ep = Side /\ ep[a] \in Endpoint(a) /\ Other(a) # a /\ Other(a) \in Side
      /\ Local(a)
  BY Sides DEF DupInv, TypeDup
<1>2. /\ Running(a) /\ ep[a].writing = "data" /\ UNCHANGED open
      /\ Wrote(a, ep[a].conn, Data(a, m))
  BY DEF DoneData, Idle, linkVars, Wrote
<1>3. m \in Nat
  <2>1. ep[a].outbox \in Seq(Nat) /\ ep[a].outbox # <<>>
    BY <1>1, <1>2, EndpointFacts DEF Local
  <2> QED  BY <2>1
<1>4. Data(a, m) \in AnyFrame(a) /\ Data(a, m).type # "ack"
  BY <1>3, FrameTypes
<1>5. Goes(a)
  BY <1>1 DEF DoneData, Goes, Endpoint
<1>6. ep[a].conn \in Conn
  BY <1>2, RunFacts DEF Running
<1> HIDE DEF m
<1>7. \A d \in Conn : Thinner(d)
  BY <1>1, <1>2, <1>4, <1>6, ThinnerWires
<1> QED  BY <1>1, <1>2, <1>5, <1>7, GoesOn

\* A loop ends.
LEMMA LoopLeftStep ==
  ASSUME DupInv, TypeDup', AckInv, NEW a \in Side, Running(a), NEW why \in Reasons, LoopEnds(a, why)
  PROVE  AckInv'
<1>1. TypeDup /\ DOMAIN ep = Side /\ ep[a] \in Endpoint(a) /\ Other(a) # a /\ Other(a) \in Side
  BY Sides DEF DupInv, TypeDup
<1>2. /\ UNCHANGED open /\ (UNCHANGED wire \/ Wrote(a, ep[a].conn, Torn))
  BY DEF LoopEnds, linkVars, Wrote
<1>3. Goes(a)
  BY <1>1 DEF LoopEnds, Goes, Endpoint, Running
<1>4. Torn \in AnyFrame(a) /\ Torn.type # "ack"
  BY FrameTypes
<1>5. ep[a].conn \in Conn
  BY RunFacts DEF Running
<1>6. \A d \in Conn : Thinner(d)
  BY <1>1, <1>2, <1>4, <1>5, ThinnerWires
<1> QED  BY <1>1, <1>2, <1>3, <1>6, GoesOn

\* The assertion of prune holds for the initiator.
LEMMA AckInvAscends ==
  ASSUME DupInv, AckInv PROVE AcksAscend("I")
<1> SUFFICES ASSUME Holds("I", "ack") PROVE ep["I"].acked <= Frame("I").seq
  BY DEF AcksAscend
<1>1. /\ Running("I") /\ Frame("I").type = "ack" /\ TypeDup /\ "I" \in Side /\ Other("I") = "A"
  BY DEF Holds, DupInv, Side, Other
<1>2. ep["I"].conn \in Conn /\ Incoming("I") \in Seq(AnyFrame("A")) /\ Incoming("I") = wire[ep["I"].conn]["A"]
  BY <1>1, RunFacts DEF Running, Incoming
<1>3. ep["I"].slot = NoFrame
  BY <1>1, EndpointFacts DEF Frame
<1>4. Incoming("I") # <<>> /\ Frame("I") = Head(Incoming("I"))
  BY <1>1, <1>3, FrameTypes DEF Frame
<1>5. Frame("I") = Incoming("I")[1] /\ 1 \in 1..Len(Incoming("I"))
  BY <1>2, <1>4, Tailed
<1> QED  BY <1>1, <1>2, <1>5 DEF AckInv, Recent

\* The initiator reads an ack: those behind it are not older.
LEMMA InitiatorAckStep ==
  ASSUME DupInv, TypeDup', AckInv, TakeAck("I")
  PROVE  AckInv'
<1> DEFINE c == ep["I"].conn
           f == Frame("I")
           k == f.seq
           w == wire[c]["A"]
           v == wire'[c]["A"]
<1>1. TypeDup /\ "I" \in Side /\ "A" \in Side /\ Other("I") = "A" /\ DOMAIN ep = Side /\ ep["I"] \in Endpoint("I")
  BY DEF DupInv, TypeDup, Side, Other
<1>2. Holds("I", "ack") /\ Prune("I", k)
  <2>1. Holds("I", "ack")
    BY DEF TakeAck
  <2>2. ep["I"].acked <= k
    BY <2>1, AckInvAscends DEF AcksAscend
  <2> QED  BY <2>1, <2>2 DEF TakeAck
<1>3. Running("I") /\ f.type = "ack" /\ Read("I") /\ UNCHANGED open
  BY <1>2 DEF Holds, Prune, Idle, linkVars
<1>4. ep'["A"] = ep["A"] /\ ep'["I"].conn = c /\ ep'["I"].acked = k
  BY <1>1, <1>2 DEF Prune, Endpoint
<1>5. f # NoFrame /\ f # Torn
  BY <1>1, <1>3, FrameTypes
<1>6. ReadFrom(c, "A") /\ f = w[1] /\ w # <<>> /\ c \in Conn
  BY <1>1, <1>3, <1>5, FrameRead, RunFacts DEF Running
<1>7. /\ OtherWires(c, "A") /\ v = Tail(w) /\ w \in Seq(AnyFrame("A"))
  BY <1>1, <1>6, WireRead
<1>8. /\ Len(w) \in Nat \ {0} /\ Len(v) = Len(w) - 1 /\ \A i \in 1..(Len(w) - 1) : v[i] = w[i + 1]
      /\ 1 \in 1..Len(w)
  BY <1>6, <1>7, Tailed
<1>9. Sorted(w) /\ Recent(w) /\ ep["I"].acked \in Int /\ ep["A"].ack \in Nat
  BY <1>1, <1>6, AckNumbers DEF AckInv
<1>10. k \in Nat /\ (ep["A"].task # "ended" => k < ep["A"].ack)
  BY <1>1, <1>3, <1>6, <1>8, <1>9, AckNumbers DEF Recent
<1>11. Sorted(v)
  BY <1>6, <1>7, <1>9, SortedTail
<1>12. ASSUME NEW i \in 1..Len(v), v[i].type = "ack"
       PROVE  k <= v[i].seq /\ (ep["A"].task # "ended" => v[i].seq < ep["A"].ack)
  <2>1. i + 1 \in 1..Len(w) /\ 1 < i + 1 /\ v[i] = w[i + 1]
    BY <1>8
  <2>2. w[i + 1].type = "ack" /\ w[1].type = "ack" /\ w[1].seq = k
    BY <2>1, <1>3, <1>6, <1>12
  <2>3. w[1].seq <= w[i + 1].seq
    BY <2>1, <2>2, <1>8, <1>9 DEF Sorted
  <2>4. ep["A"].task # "ended" => w[i + 1].seq < ep["A"].ack
    BY <2>1, <2>2, <1>9 DEF Recent
  <2> QED  BY <2>1, <2>2, <2>3, <2>4
<1>13. Recent(wire[c]["A"])'
  BY <1>4, <1>12 DEF Recent
<1>14. ASSUME NEW d \in Conn
       PROVE  /\ open'[d]["I"] => d = ep'["I"].conn
              /\ ~open'[d]["I"] => wire'[d]["A"] = <<>>
              /\ Sorted(wire'[d]["A"]) /\ Recent(wire[d]["A"])'
  <2>0. /\ open[d]["I"] => d = ep["I"].conn
        /\ ~open[d]["I"] => wire[d]["A"] = <<>>
    BY DEF AckInv
  <2>1. CASE d = c
    <3>1. open[c]["I"]
      BY <2>0, <2>1, <1>6
    <3> QED  BY <2>1, <3>1, <1>3, <1>4, <1>11, <1>13
  <2>2. CASE d # c
    <3>1. wire'[d]["A"] = <<>>
      BY <2>0, <2>2, <1>1, <1>7 DEF OtherWires
    <3>2. \A i \in 1..Len(wire'[d]["A"]) : FALSE
      BY <3>1
    <3> QED  BY <2>0, <3>1, <3>2, <1>3, <1>4 DEF Sorted, Recent
  <2> QED  BY <2>1, <2>2
<1>15. ep["A"].task # "ended" => (ep["A"].pending # None => ep["A"].ack < ep["A"].pending)
  BY DEF AckInv
<1> QED  BY <1>4, <1>10, <1>14, <1>15 DEF AckInv

\* The acceptor reads an ack, or none that it should.
LEMMA AcceptorAckStep ==
  ASSUME DupInv, TypeDup', AckInv, TakeAck("A")
  PROVE  AckInv'
<1> DEFINE c == ep["A"].conn
           f == Frame("A")
           k == f.seq
<1>1. TypeDup /\ "I" \in Side /\ "A" \in Side /\ Other("A") = "I" /\ DOMAIN ep = Side /\ ep["A"] \in Endpoint("A")
  BY DEF DupInv, TypeDup, Side, Other
<1>2. Running("A") /\ f.type = "ack" /\ c \in Conn
  BY <1>1, RunFacts DEF TakeAck, Holds, Running
<1>3. CASE Prune("A", k)
  <2>1. Read("A") /\ UNCHANGED open
    BY <1>3 DEF Prune, Idle, linkVars
  <2>2. ep'["I"] = ep["I"] /\ ep'["A"].ack = ep["A"].ack /\ ep'["A"].pending = ep["A"].pending
        /\ ep'["A"].task = ep["A"].task
    BY <1>1, <1>3 DEF Prune, Endpoint
  <2>3. f # NoFrame /\ f # Torn
    BY <1>1, <1>2, FrameTypes
  <2>4. ReadFrom(c, "I")
    BY <1>1, <1>2, <2>1, <2>3, FrameRead
  <2>5. \A d \in Conn : Thinner(d)
    BY <1>1, <1>2, <2>4, ThinnerWires
  <2> QED  BY <1>1, <2>1, <2>2, <2>5, NoAckStep
<1>4. CASE Panic("A")
  <2>1. /\ LetGo("A", TRUE) /\ ep' = [ep EXCEPT !["A"] = [Ended("A") EXCEPT !.why = "panic"]]
        /\ wire' = [wire EXCEPT ![c]["I"] = <<>>]
    BY <1>1, <1>4 DEF Panic
  <2>2. ep'["I"] = ep["I"] /\ ep'["A"].task = "ended"
    BY <1>1, <2>1 DEF Ended, Fresh
  <2>3. \A d \in Conn : open'[d]["I"] <=> open[d]["I"]
    BY <1>1, <2>1, OpenKept
  <2>4. \A d \in Conn : wire'[d]["A"] = wire[d]["A"]
    <3>1. <<>> \in Seq(AnyFrame("I"))
      OBVIOUS
    <3>2. OtherWires(c, "I")
      <4> HIDE DEF c
      <4> QED  BY <1>1, <1>2, <2>1, <3>1, WireSet
    <3> QED  BY <3>2, <1>1 DEF OtherWires
  <2>5. \A d \in Conn : Thinner(d)
    BY <2>4 DEF Thinner
  <2> QED  BY <1>1, <2>2, <2>3, <2>5, NoAckStep
<1> QED  BY <1>3, <1>4 DEF TakeAck

\* The acceptor writes an ack that is newer than its last one, or none.
LEMMA NewAckStep ==
  ASSUME DupInv, TypeDup', AckInv, NEW c \in Conn, NEW k \in Nat, ep["A"].task # "ended",
         ep["A"].ack <= k, Wrote("A", c, Ack("A", k)), UNCHANGED open,
         ep'["I"] = ep["I"], ep'["A"].pending = None,
         \/ ep'["A"].ack = k + 1
         \/ ep'["A"].ack = ep["A"].ack /\ (c \in broken \/ ~open[c]["I"])
  PROVE  AckInv'
<1> DEFINE f == Ack("A", k)
           w == wire[c]["A"]
           v == wire'[c]["A"]
<1>1. /\ TypeDup /\ "A" \in Side /\ Other("A") = "I" /\ ep["I"].acked \in Int /\ ep["A"].ack \in Nat
      /\ ep["I"].acked < ep["A"].ack /\ w \in Seq(AnyFrame("A")) /\ Sorted(w) /\ Recent(w)
  BY AckNumbers DEF DupInv, AckInv
<1>2. f \in AnyFrame("A") /\ f.type = "ack" /\ f.seq = k
  BY <1>1, FrameTypes
<1> HIDE DEF f
<1>3. /\ OtherWires(c, "A")
      /\ v = w \/ (v = Append(w, f) /\ open[c]["I"] /\ c \notin broken)
  <2>1. Wrote("A", c, f)
    BY DEF f
  <2> QED  BY <2>1, <1>1, <1>2, WrittenTo
<1>4. ep'["A"].ack \in Nat /\ ep["A"].ack <= ep'["A"].ack /\ ep["I"].acked < ep'["A"].ack
      /\ (v # w => k < ep'["A"].ack)
  BY <1>1, <1>3
<1>5. ASSUME NEW i \in 1..Len(w), w[i].type = "ack"
      PROVE  w[i].seq \in Nat /\ ep["I"].acked <= w[i].seq /\ w[i].seq < ep["A"].ack /\ w[i].seq <= k
  <2>1. w[i].seq \in Nat
    BY <1>1, <1>5, AckNumbers
  <2>2. ep["I"].acked <= w[i].seq /\ w[i].seq < ep["A"].ack
    BY <1>1, <1>5 DEF Recent
  <2> QED  BY <2>1, <2>2, <1>1
<1> HIDE DEF w, v
<1>6. Sorted(v) /\ \A i \in 1..Len(v) : v[i].type = "ack" =>
                       ep["I"].acked <= v[i].seq /\ v[i].seq < ep'["A"].ack
  <2>1. CASE v = w
    <3>1. ASSUME NEW i \in 1..Len(w), w[i].type = "ack"
          PROVE  ep["I"].acked <= w[i].seq /\ w[i].seq < ep'["A"].ack
      <4>1. w[i].seq \in Nat /\ ep["I"].acked <= w[i].seq /\ w[i].seq < ep["A"].ack
        BY <3>1, <1>5
      <4> QED  BY <4>1, <1>1, <1>4
    <3> QED  BY <2>1, <3>1, <1>1
  <2>2. CASE v # w
    <3>1. v = Append(w, f) /\ k < ep'["A"].ack /\ ep["I"].acked <= k
      BY <2>2, <1>1, <1>3, <1>4
    <3>2. /\ Len(w) \in Nat /\ Len(v) = Len(w) + 1 /\ v[Len(w) + 1] = f
          /\ \A i \in 1..Len(w) : v[i] = w[i]
      BY <3>1, <1>1, <1>2, Appended
    <3>3. Sorted(v)
      BY <3>1, <1>1, <1>2, <1>5, SortedMore
    <3>4. ASSUME NEW i \in 1..Len(v), v[i].type = "ack"
          PROVE  ep["I"].acked <= v[i].seq /\ v[i].seq < ep'["A"].ack
      <4>1. CASE i \in 1..Len(w)
        <5>1. v[i] = w[i]
          BY <4>1, <3>2
        <5>2. w[i].seq \in Nat /\ ep["I"].acked <= w[i].seq /\ w[i].seq < ep["A"].ack
          BY <4>1, <5>1, <3>4, <1>5
        <5> QED  BY <5>1, <5>2, <1>1, <1>4
      <4>2. CASE i \notin 1..Len(w)
        <5>1. v[i] = f
          BY <4>2, <3>2
        <5> QED  BY <5>1, <3>1, <1>2
      <4> QED  BY <4>1, <4>2
    <3> QED  BY <3>3, <3>4
  <2> QED  BY <2>1, <2>2
<1>7. ASSUME NEW d \in Conn
      PROVE  /\ open'[d]["I"] => d = ep'["I"].conn
             /\ ~open'[d]["I"] => wire'[d]["A"] = <<>>
             /\ Sorted(wire'[d]["A"]) /\ Recent(wire[d]["A"])'
  <2>0. /\ open[d]["I"] => d = ep["I"].conn
        /\ ~open[d]["I"] => wire[d]["A"] = <<>>
        /\ Sorted(wire[d]["A"]) /\ Recent(wire[d]["A"])
    BY DEF AckInv
  <2>1. CASE d = c
    <3>1. Recent(wire[c]["A"])'
      BY <1>6 DEF Recent, v
    <3> QED  BY <2>0, <2>1, <3>1, <1>3, <1>6 DEF w, v
  <2>2. CASE d # c
    <3>1. wire'[d]["A"] = wire[d]["A"]
      BY <2>2, <1>1, <1>3 DEF OtherWires
    <3>2. ASSUME NEW i \in 1..Len(wire[d]["A"]), wire[d]["A"][i].type = "ack"
          PROVE  ep["I"].acked <= wire[d]["A"][i].seq /\ wire[d]["A"][i].seq < ep'["A"].ack
      <4>1. wire[d]["A"][i].seq \in Nat
        BY <3>2, <1>1, AckNumbers
      <4>2. ep["I"].acked <= wire[d]["A"][i].seq /\ wire[d]["A"][i].seq < ep["A"].ack
        BY <2>0, <3>2 DEF Recent
      <4> QED  BY <4>1, <4>2, <1>1, <1>4
    <3>3. Recent(wire[d]["A"])'
      BY <3>1, <3>2 DEF Recent
    <3> QED  BY <2>0, <3>1, <3>3
  <2> QED  BY <2>1, <2>2
<1> QED  BY <1>4, <1>7 DEF AckInv

\* An ack is written, by either side.
LEMMA AckWrittenStep ==
  ASSUME DupInv, TypeDup', AckInv, NEW a \in Side, DoneAck(a)
  PROVE  AckInv'
<1> DEFINE c == ep[a].conn
           p == ep[a].pending
<1>1. TypeDup /\ Local(a) /\ DOMAIN ep = Side /\ ep[a] \in Endpoint(a) /\ Other(a) # a /\ Other(a) \in Side
  BY Sides DEF DupInv, TypeDup
<1>2. /\ ep[a].task = "run" /\ ep[a].writing = "ack" /\ UNCHANGED open
      /\ Wrote(a, c, Ack(a, p - 1))
      /\ ep' = [ep EXCEPT ![a].writing = "none", ![a].pending = None, ![a].ack = p]
  BY DEF DoneAck, Running, AckSeq, Idle, linkVars, Wrote
<1>3. p \in Nat /\ p - 1 \in Nat /\ (p - 1) + 1 = p /\ c \in Conn
  <2>1. p \in 1..ep[a].seq /\ p # None /\ ep[a].seq \in Nat
    BY <1>1, <1>2, EndpointFacts DEF Local
  <2> QED  BY <2>1, <1>2, RunFacts
<1>4. /\ ep'[Other(a)] = ep[Other(a)] /\ ep'[a].pending = None /\ ep'[a].ack = p
      /\ ep'[a].conn = ep[a].conn /\ ep'[a].acked = ep[a].acked
  BY <1>1, <1>2 DEF Endpoint
<1>5. CASE a = "I"
  <2>1. /\ ep'["A"] = ep["A"] /\ ep'["I"].conn = ep["I"].conn /\ ep'["I"].acked = ep["I"].acked
        /\ "A" \in Side /\ "I" \in Side
    BY <1>4, <1>5 DEF Other, Side
  <2>2. Ack(a, p - 1) \in AnyFrame(a)
    BY <1>3, FrameTypes
  <2>3. OtherWires(c, a)
    BY <1>1, <1>2, <1>3, <2>2, WireWritten
  <2>4. \A d \in Conn : Thinner(d)
    BY <2>1, <2>3, <1>5 DEF OtherWires, Thinner
  <2> QED  BY <1>1, <1>2, <2>1, <2>4, NoAckStep
<1>6. CASE a = "A"
  <2>1. ep'["I"] = ep["I"] /\ Other(a) = "I"
    BY <1>4, <1>6 DEF Other
  <2>2. ep["A"].ack < p /\ ep["A"].ack \in Nat
    <3>1. p # None
      BY <1>3 DEF None
    <3> QED  BY <3>1, <1>1, <1>2, <1>6, EndpointFacts DEF AckInv
  <2>3. ep["A"].ack <= p - 1
    BY <2>2, <1>3
  <2> HIDE DEF c, p
  <2> QED  BY <2>1, <2>3, <1>2, <1>3, <1>4, <1>6, NewAckStep
<1> QED  BY <1>5, <1>6 DEF Side

\* The cleanup's ack.
LEMMA FlushedStep ==
  ASSUME DupInv, TypeDup', AckInv, NEW a \in Side, Flush(a)
  PROVE  AckInv'
<1> DEFINE c == ep[a].conn
           due == ep[a].ack < ep[a].seq
           k == ep[a].seq - 1
<1>1. /\ TypeDup /\ Local(a) /\ DOMAIN ep = Side /\ ep[a] \in Endpoint(a) /\ Other(a) # a /\ Other(a) \in Side
      /\ ep[a].seq \in Nat /\ ep[a].ack \in Nat
  BY Sides, EndpointFacts DEF DupInv, TypeDup
<1>2. /\ ep[a].task = "clean" /\ UNCHANGED open
      /\ IF due THEN Wrote(a, c, Ack(a, k)) ELSE UNCHANGED wire
  BY DEF Flush, AckSeq, Idle, linkVars, Wrote
<1>3. PICK written \in IF c \in broken \/ ~open[c][Other(a)] THEN BOOLEAN ELSE {TRUE} :
        ep' = [ep EXCEPT ![a].task = "close",
                         ![a].ack = IF due /\ written THEN ep[a].seq ELSE @]
  BY DEF Flush
<1>4. /\ ep'[Other(a)] = ep[Other(a)] /\ ep'[a].pending = ep[a].pending
      /\ ep'[a].ack = IF due /\ written THEN ep[a].seq ELSE ep[a].ack
      /\ ep'[a].conn = ep[a].conn /\ ep'[a].acked = ep[a].acked /\ ep'[a].task = "close"
  BY <1>1, <1>3 DEF Endpoint
<1>5. ep[a].pending = None /\ c \in Conn
  BY <1>1, <1>2, RunFacts DEF Local
<1>6. CASE ~due
  <2>1. Goes(a) /\ \A d \in Conn : Thinner(d)
    BY <1>2, <1>4, <1>6 DEF Goes, Thinner
  <2> QED  BY <1>1, <1>2, <2>1, GoesOn
<1>7. CASE due
  <2>0. k \in Nat /\ k + 1 = ep[a].seq /\ ep[a].ack <= k
    BY <1>1, <1>7
  <2>1. CASE a = "I"
    <3>1. /\ ep'["A"] = ep["A"] /\ ep'["I"].conn = ep["I"].conn /\ ep'["I"].acked = ep["I"].acked
          /\ "A" \in Side /\ "I" \in Side
      BY <1>4, <2>1 DEF Other, Side
    <3>2. Ack(a, k) \in AnyFrame(a)
      BY <2>0, FrameTypes
    <3>3. OtherWires(c, a)
      <4> HIDE DEF k, c
      <4> QED  BY <1>1, <1>2, <1>5, <1>7, <3>2, WireWritten
    <3>4. \A d \in Conn : Thinner(d)
      BY <3>1, <3>3, <2>1 DEF OtherWires, Thinner
    <3> QED  BY <1>1, <1>2, <3>1, <3>4, NoAckStep
  <2>2. CASE a = "A"
    <3>1. ep'["I"] = ep["I"] /\ Other(a) = "I"
      BY <1>4, <2>2 DEF Other
    <3>2. \/ ep'["A"].ack = k + 1
          \/ ep'["A"].ack = ep["A"].ack /\ (c \in broken \/ ~open[c]["I"])
      BY <2>0, <2>2, <3>1, <1>3, <1>4, <1>7
    <3> HIDE DEF c, k
    <3> QED  BY <2>0, <2>2, <3>1, <3>2, <1>2, <1>4, <1>5, <1>7, NewAckStep
  <2> QED  BY <2>1, <2>2 DEF Side
<1> QED  BY <1>6, <1>7

\* A connection is let go.
LEMMA ReleasedStep ==
  ASSUME DupInv, TypeDup', AckInv, NEW a \in Side, Release(a)
  PROVE  AckInv'
<1> DEFINE b == Other(a)
           c == ep[a].conn
           last == IF Announced(a) THEN <<Closed(a)>> ELSE <<>>
           ends == Terminal(ep[a].why)
           r == [ep[a] EXCEPT !.task = "connect", !.conn = 0]
           v == Arriving(a, c, last)
<1>1. TypeDup /\ Local(a) /\ DOMAIN ep = Side /\ ep[a] \in Endpoint(a) /\ b # a /\ b \in Side
  BY Sides DEF DupInv, TypeDup
<1>2. /\ ep[a].task = "close" /\ LetGo(a, ends) /\ c \in Conn /\ open[c][a]
      /\ wire' = [wire EXCEPT ![c] = [d \in Side |-> IF d = a THEN v ELSE <<>>]]
      /\ ep' = [ep EXCEPT ![a] = IF ends THEN Ended(a) ELSE r]
  BY RunFacts DEF Release
<1>3. /\ ep'[b] = ep[b] /\ ep'[a].conn = 0 /\ ep'[a].acked \in {None, ep[a].acked}
      /\ ep'[a].pending = None
      /\ ep'[a].task # "ended" => ep'[a].ack = ep[a].ack
  <2>1. ep'[b] = ep[b] /\ ep'[a] = IF ends THEN Ended(a) ELSE r
    BY <1>1, <1>2
  <2>2. /\ Ended(a).conn = 0 /\ Ended(a).acked = None /\ Ended(a).pending = None
        /\ Ended(a).task = "ended"
    BY DEF Ended, Fresh
  <2>3. /\ r.conn = 0 /\ r.acked = ep[a].acked /\ r.pending = ep[a].pending /\ r.ack = ep[a].ack
        /\ ep[a].pending = None
    BY <1>1, <1>2 DEF Endpoint, Local
  <2> HIDE DEF r, ends
  <2> QED  BY <2>1, <2>2, <2>3
<1>4. /\ wire'[c][a] = v /\ wire'[c][b] = <<>>
      /\ \A d \in Conn : d # c => wire'[d] = wire[d]
  <2> DEFINE g == [d \in Side |-> IF d = a THEN v ELSE <<>>]
  <2>1. g[a] = v /\ g[b] = <<>>
    BY <1>1
  <2>2. wire' = [wire EXCEPT ![c] = g] /\ DOMAIN wire = Conn
    BY <1>1, <1>2 DEF TypeDup
  <2> HIDE DEF g, v, c
  <2> QED  BY <2>1, <2>2, <1>2
<1>5. CASE a = "I"
  <2>1. b = "A" /\ ep'["A"] = ep["A"] /\ "I" \in Side /\ "A" \in Side
    BY <1>3, <1>5 DEF Other, Side
  <2>2. ASSUME NEW d \in Conn PROVE wire'[d]["A"] = <<>> /\ ~open'[d]["I"]
    <3>1. CASE d = c
      <4>1. ~open'[c]["I"]
        <5> HIDE DEF ends, c
        <5> QED  BY <1>1, <1>2, <1>5, OpenLeft DEF c
      <4> QED  BY <4>1, <3>1, <2>1, <1>4
    <3>2. CASE d # c
      <4>1. ~open[d]["I"] /\ wire[d]["A"] = <<>>
        BY <3>2, <1>5 DEF AckInv
      <4>2. open'[d]["I"] => open[d]["I"]
        BY <1>1, <1>2, <1>5, OpenLeft
      <4> QED  BY <4>1, <4>2, <3>2, <1>4
    <3> QED  BY <3>1, <3>2
  <2> QED  BY <1>1, <1>3, <1>5, <2>1, <2>2, NoAckStep
<1>6. CASE a = "A"
  <2>1. b = "I" /\ ep'["I"] = ep["I"] /\ "I" \in Side /\ "A" \in Side /\ ep["A"].task # "ended"
    BY <1>2, <1>3, <1>6 DEF Other, Side
  <2>2. \A d \in Conn : open'[d]["I"] <=> open[d]["I"]
    BY <1>1, <1>2, <1>6, <2>1, OpenKept
  <2>3. ASSUME NEW d \in Conn PROVE Thinner(d)
    <3>1. CASE d # c
      BY <3>1, <1>4 DEF Thinner
    <3>2. CASE d = c
      <4>1. Closed("A") \in AnyFrame("A") /\ Closed("A").type # "ack"
        BY <2>1, FrameTypes
      <4> DEFINE w == wire[c]["A"]
      <4>2. w \in Seq(AnyFrame("A"))
        BY <1>1, <1>2, <2>1 DEF TypeDup
      <4> HIDE DEF w
      <4>3. w \o <<>> = w /\ w \o <<Closed("A")>> = Append(w, Closed("A"))
        BY <4>1, <4>2
      <4>4. v = w \/ (open[c]["I"] /\ v = Append(w, Closed("A")))
        <5>1. v = w \/ (open[c]["I"] /\ v = w \o last)
          BY <1>6, <2>1 DEF Arriving, w
        <5>2. last = <<>> \/ last = <<Closed("A")>>
          BY <1>6
        <5> HIDE DEF last, v
        <5> QED  BY <5>1, <5>2, <4>3
      <4>5. wire'[d]["A"] = v /\ wire[d]["A"] = w
        BY <3>2, <1>4, <1>6 DEF w
      <4> HIDE DEF v
      <4> QED  BY <3>2, <4>1, <4>4, <4>5 DEF Thinner
    <3> QED  BY <3>1, <3>2
  <2> QED  BY <1>1, <1>3, <1>6, <2>1, <2>2, <2>3, NoAckStep
<1> QED  BY <1>5, <1>6 DEF Side

\* A side that has no connection ends.
LEMMA GivenUpStep ==
  ASSUME DupInv, TypeDup', AckInv, NEW a \in Side, ep[a].task \in {"offer", "connect"},
         ep' = [ep EXCEPT ![a] = Ended(a)], LetGo(a, TRUE) \/ UNCHANGED open, UNCHANGED wire
  PROVE  AckInv'
<1>1. TypeDup /\ Local(a) /\ DOMAIN ep = Side /\ Other(a) # a /\ Other(a) \in Side /\ ep[a].conn = 0
  BY Sides DEF DupInv, TypeDup, Local
<1>2. /\ ep'[Other(a)] = ep[Other(a)] /\ ep'[a].conn = 0 /\ ep'[a].acked = None
      /\ ep'[a].task = "ended"
  BY <1>1 DEF Ended, Fresh
<1>3. \A c \in Conn : Thinner(c)
  BY DEF Thinner
<1>4. CASE a = "I"
  <2>1. ep'["A"] = ep["A"]
    BY <1>2, <1>4 DEF Other
  <2>2. ASSUME NEW c \in Conn PROVE wire'[c]["A"] = <<>> /\ ~open'[c]["I"]
    <3>1. ~open[c]["I"] /\ wire[c]["A"] = <<>>
      BY <1>1, <1>4 DEF AckInv, Conn
    <3>2. open'[c]["I"] => open[c]["I"]
      BY <1>1, <1>4, OpenLeft
    <3> QED  BY <3>1, <3>2
  <2> QED  BY <1>1, <1>2, <1>4, <2>1, <2>2, NoAckStep
<1>5. CASE a = "A"
  <2>1. ep'["I"] = ep["I"] /\ Other(a) = "I"
    BY <1>2, <1>5 DEF Other
  <2>2. \A c \in Conn : open'[c]["I"] <=> open[c]["I"]
    BY <1>1, <2>1, OpenKept
  <2> QED  BY <1>1, <1>2, <1>3, <1>5, <2>1, <2>2, NoAckStep
<1> QED  BY <1>4, <1>5 DEF Side

\* The initiator connects: nothing waits for it anywhere.
LEMMA DialledStep ==
  ASSUME DupInv, TypeDup', AckInv, Dial
  PROVE  AckInv'
<1> DEFINE k == conns + 1
<1>1. /\ ep["I"].task = "connect" /\ OnConnection("I", k) /\ UNCHANGED <<posted, wire>> /\ conns < MaxConns
      /\ open' = [open EXCEPT ![k] = [e \in Side |-> TRUE]]
  BY DEF Dial, appVars
<1>2. /\ TypeDup /\ Links /\ Local("I") /\ "I" \in Side /\ "A" \in Side /\ Other("I") = "A" /\ conns \in Nat
      /\ open \in [Conn -> [Side -> BOOLEAN]]
  BY DEF DupInv, TypeDup, Side, Other
<1>3. k \in Conn /\ ep["I"].conn = 0 /\ k > conns
  BY <1>1, <1>2, BoundsAssumption DEF Conn, Local
<1>4. ep'["A"] = ep["A"] /\ ep'["I"].conn = k /\ ep'["I"].acked = ep["I"].acked
  BY <1>1, <1>2, <1>3, OnConnectionFacts
<1> HIDE DEF k
<1>5. ASSUME NEW c \in Conn
      PROVE  wire'[c]["A"] = <<>> /\ (open'[c]["I"] => c = ep'["I"].conn)
  <2>1. c # 0
    BY DEF Conn
  <2>2. ~open[c]["I"] /\ wire[c]["A"] = <<>>
    BY <2>1, <1>3 DEF AckInv
  <2> QED  BY <2>2, <1>1, <1>2, <1>3, <1>4
<1> QED  BY <1>2, <1>4, <1>5, NoAckStep

\* The acceptor takes any connection, or the handles are taken.
LEMMA AcceptedStep ==
  ASSUME DupInv, TypeDup', AckInv, HandOff \/ \E k \in Conn : Accept(k)
  PROVE  AckInv'
<1>1. TypeDup /\ DOMAIN ep = Side /\ "A" \in Side /\ "I" \in Side /\ Other("A") = "I" /\ ep["A"] \in Endpoint("A")
  BY DEF DupInv, TypeDup, Side, Other
<1>2. UNCHANGED <<wire, open>>
  BY DEF HandOff, Accept, linkVars
<1>3. ep'["I"] = ep["I"] /\ ep'["A"].ack = ep["A"].ack /\ ep["A"].task # "ended"
      /\ ep'["A"].pending \in {None, ep["A"].pending}
  <2>1. CASE HandOff
    BY <2>1, <1>1 DEF HandOff, Endpoint
  <2>2. CASE \E k \in Conn : Accept(k)
    <3>1. PICK k \in Conn : ep["A"].task = "connect" /\ OnConnection("A", k) /\ UNCHANGED posted
      BY <2>2 DEF Accept, appVars
    <3> QED  BY <3>1, <1>1, OnConnectionFacts
  <2> QED  BY <2>1, <2>2
<1>4. \A c \in Conn : Thinner(c)
  BY <1>2 DEF Thinner
<1> QED  BY <1>1, <1>2, <1>3, <1>4, NoAckStep

\* The acks are in order when both ends have been spawned.
LEMMA AckInvInit ==
  ASSUME Init PROVE AckInv
<1>1. /\ \A e \in Side : ep[e].acked = None /\ ep[e].ack = 0 /\ ep[e].pending = None
      /\ "I" \in Side /\ "A" \in Side
  BY DEF Init, Fresh, Side
<1>2. \A c \in Conn, e \in Side : wire[c][e] = <<>> /\ ~open[c][e]
  BY DEF Init
<1>3. \A c \in Conn : \A i \in 1..Len(wire[c]["A"]) : FALSE
  BY <1>1, <1>2
<1>4. ep["I"].acked < ep["A"].ack
  BY <1>1 DEF None
<1> QED  BY <1>1, <1>2, <1>3, <1>4 DEF AckInv, Sorted, Recent

\* Every step keeps them in order.
LEMMA AckInvStep ==
  ASSUME DupInv, DupInv', AckInv, [Next]_vars PROVE AckInv'
<1>1. TypeDup /\ TypeDup'
  BY DEF DupInv
<1>2. ASSUME NEW a \in Side,
             \/ ConnectionEnds(a) \/ WriteFails(a) \/ DeliverFails(a) \/ TakeClosed(a)
             \/ Timeout(a) \/ AppClosed(a) \/ Cancelled(a)
      PROVE  AckInv'
  <2>1. Running(a) /\ \E why \in Reasons : LoopEnds(a, why)
    BY <1>2 DEF ConnectionEnds, WriteFails, DeliverFails, TakeClosed, Holds, Timeout, AppClosed,
                Cancelled, Reasons
  <2> QED  BY <1>1, <2>1, LoopLeftStep
<1>3. CASE UNCHANGED vars
  BY <1>1, <1>3, StillStep DEF vars
<1>4. CASE Connects \/ HandOff
  <2>1. CASE DialFails
    <3>1. /\ "I" \in Side /\ ep["I"].task = "connect" /\ ep' = [ep EXCEPT !["I"] = Ended("I")]
          /\ UNCHANGED <<open, wire>>
      BY <2>1 DEF DialFails, Side
    <3> QED  BY <1>1, <3>1, GivenUpStep
  <2> QED  BY <1>1, <1>4, <2>1, DialledStep, AcceptedStep DEF Connects
<1>5. ASSUME NEW c \in Conn, Break(c) PROVE AckInv'
  BY <1>1, <1>5, StillStep DEF Break
<1>6. ASSUME NEW a \in Side,
             \/ Post(a) \/ DropTx(a) \/ DropRx(a) \/ Cancel(a) \/ RxRecv(a)
             \/ Reads(a) \/ Writes(a) \/ Acks(a) \/ Delivers(a) \/ Takes(a) \/ Stops(a) \/ Timeout(a)
      PROVE  AckInv'
  <2>1. CASE Post(a)
    BY <2>1, <1>1, SilentActions
  <2>2. CASE DropTx(a) \/ DropRx(a) \/ Cancel(a) \/ RxRecv(a)
    <3>1. UNCHANGED <<ep, wire, open>>
      BY <2>2 DEF DropTx, DropRx, Cancel, RxRecv, linkVars
    <3> QED  BY <3>1, <1>1, StillStep
  <2>3. CASE Reads(a)
    <3>1. CASE TakeAck(a)
      BY <3>1, <1>1, InitiatorAckStep, AcceptorAckStep DEF Side
    <3> QED  BY <2>3, <3>1, <1>1, <1>2, DataReadStep DEF Reads
  <2>4. CASE Writes(a)
    BY <2>4, <1>1, <1>2, SilentActions, DataWrittenStep DEF Writes
  <2>5. CASE Acks(a)
    BY <2>5, <1>1, SilentActions, AckWrittenStep DEF Acks
  <2>6. CASE Delivers(a)
    BY <2>6, <1>1, <1>2, SilentActions DEF Delivers
  <2>7. CASE Takes(a)
    BY <2>7, <1>1, <1>2, SilentActions DEF Takes
  <2>8. CASE Stops(a)
    <3>1. CASE ConnectCancelled(a)
      <4>1. /\ ep[a].task \in {"offer", "connect"} /\ ep' = [ep EXCEPT ![a] = Ended(a)]
            /\ LetGo(a, TRUE) /\ UNCHANGED wire
        BY <3>1 DEF ConnectCancelled
      <4> QED  BY <4>1, <1>1, GivenUpStep
    <3> QED  BY <2>8, <3>1, <1>1, <1>2, FlushedStep, ReleasedStep DEF Stops
  <2>9. CASE Timeout(a)
    BY <2>9, <1>2
  <2> QED  BY <1>6, <2>1, <2>2, <2>3, <2>4, <2>5, <2>6, <2>7, <2>8, <2>9
<1> QED  BY <1>3, <1>4, <1>5, <1>6 DEF Next

\* The acks that the initiator reads ascend, whichever prepared connection the acceptor
\* takes and in whatever order: the acceptor writes an ack only when it is newer than its
\* last one, and the initiator keeps one connection open and drops what is unread on it
\* (spawn's loop), so nothing older can turn up later.  The acceptor has no such theorem:
\* it may take an old connection late (AcceptorAcksAscend is refuted).
THEOREM AcksInOrder == Spec => []AckInv
<1>1. Init => AckInv
  BY AckInvInit
<1>2. DupInv /\ DupInv' /\ AckInv /\ [Next]_vars => AckInv'
  BY AckInvStep
<1> QED  BY <1>1, <1>2, DuplexInvariant, PTL DEF Spec

-----------------------------------------------------------------------------
(* The safety property that TLC checks.                                    *)

\* What is delivered, and what is accepted, by the first invariant.
LEMMA DupInvDelivered ==
  ASSUME DupInv PROVE DeliveredInOrder /\ AckedWasDelivered
<1>1. ASSUME NEW e \in Side PROVE \A i \in DOMAIN delivered[e] : delivered[e][i] = i - 1
  <2>1. delivered[e] \in Seq(Nat) /\ Ordered(e)
    BY DEF DupInv, TypeDup
  <2>2. DOMAIN delivered[e] = 1..Len(delivered[e])
    BY <2>1
  <2> QED  BY <2>1, <2>2 DEF Ordered
<1>2. ASSUME NEW e \in Side, Holds(e, "data"), ep[e].hold = None PROVE Frame(e).seq <= ep[e].seq
  <2>1. Running(e) /\ Frame(e).type = "data" /\ ep[e].seq \in Nat
    BY <1>2, EndpointFacts DEF Holds, DupInv
  <2>2. Frame(e) # NoFrame
    BY <2>1, FrameTypes
  <2>3. ep[e].slot = NoFrame => wire[ep[e].conn][Other(e)] # <<>>
    BY <2>2 DEF Frame, Incoming
  <2>4. Frame(e).seq \in Nat /\ Frame(e).seq <= ep[e].seq + (IF ep[e].hold = None THEN 0 ELSE 1)
    BY <2>1, <2>2, <2>3, FrameDue
  <2> QED  BY <2>1, <2>4, <1>2
<1>3. ASSUME NEW e \in Side, NEW m \in Msg(e), outcome[e][m] = "accepted"
      PROVE  m < Len(delivered[Other(e)])
  <2>1. m < ep[Other(e)].seq
    BY <1>3 DEF DupInv, Acked
  <2>2. ep[Other(e)].seq = Len(delivered[Other(e)])
    BY Sides DEF DupInv, Ordered
  <2> QED  BY <2>1, <2>2
<1> QED  BY <1>1, <1>2, <1>3 DEF DeliveredInOrder, AckedWasDelivered

\* Each direction delivers 0, 1, 2, ... without loss, duplication or reordering over any
\* number of reconnections; no frame makes recv_connected see a number out of sequence; a
\* post whose completion is accepted was delivered to the peer, even if the acceptor takes
\* stale connections and panics on one; and the assertion of Unacked::prune, that the acks
\* a sender reads never go back, never fails in the initiator.
THEOREM DuplexDeliversExactly == Spec => []DeliveredExactly
<1>1. DupInv /\ AckInv => DeliveredExactly
  BY DupInvDelivered, AckInvAscends DEF DeliveredExactly
<1> QED  BY <1>1, DuplexInvariant, AcksInOrder, PTL
=============================================================================
