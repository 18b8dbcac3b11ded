---------------------------- MODULE SimplexProofs ----------------------------
(***************************************************************************)
(* Proofs about SimplexSession, for every value of its constants.          *)
(*                                                                         *)
(* The argument.  Let lo be the oldest sequence number the client still    *)
(* owns.  Whatever connection the server takes up, the first frame it has  *)
(* not read there is at most next.seq, because every connection starts at  *)
(* lo and lo never passes next.seq: it only moves when an ack does, and an *)
(* ack names a sequence number below next.seq.  So the server never sees a *)
(* gap, and what it delivers is a prefix of what was sent.  Acks on one    *)
(* connection ascend, and the client's current connection is the only one  *)
(* it reads, so no ack it reads is below the largest it has read.          *)
(*                                                                         *)
(* For the refinement: what the client was given is one run of messages,   *)
(* 1 to posted, namely those it has accepted, those it owns as unacked or  *)
(* unsent, and those in its queue, in this order.  An ack, or a rewrite    *)
(* that an ack made pointless, moves the first boundary, and the invariant *)
(* keeps it at or below what was delivered.  So SimplexSession implements  *)
(* ReliableChannel when every message can be serialized and the server     *)
(* stays up, and every completion is accounted for.                        *)
(*                                                                         *)
(* With stops and restarts a session may start over in the middle of what  *)
(* was sent, and the argument is another one: the server delivers nothing  *)
(* on a session before number 0.  A client that has no ack yet finds a new *)
(* process as it found the first one.  A client that has one writes number *)
(* 0 once at most, for it moves what it writes out of the outbox and never *)
(* requeues what was acked; so only one session of the process delivers,   *)
(* and what the application receives is a prefix of what was sent.         *)
(***************************************************************************)
EXTENDS SimplexSession, FiniteSetTheorems, TLAPS

\* Where the outbox starts, and where the client's run starts.
OutboxStart == NextSeq - Len(outbox)
RunStart    == OutboxStart - Len(unacked)

\* The server has taken c's frames up to here, the one it holds included.
Taken(c) == IF c = serving /\ held # -1 THEN next.seq + 1 ELSE next.seq

\* The deques hold one run of sequence numbers that ends at the next one, and
\* nothing acked stays in the unacked deque.
InvDeques ==
  /\ Len(outbox) + Len(unacked) <= NextSeq
  /\ \A i \in 1..Len(outbox) : outbox[i] = OutboxStart + i - 1
  /\ \A i \in 1..Len(unacked) : unacked[i] = RunStart + i - 1
  /\ \A i \in 1..Len(unacked) : unacked[i] > largestAcked

\* The client's run starts at or below what the server waits for.
InvClient ==
  /\ largestAcked < next.seq
  /\ phase # "panicked" /\ reason # "stale_session"
  /\ phase # "closed" => RunStart <= next.seq
  /\ phase = "connected" => cur \in 1..nconn
  /\ phase # "connected" => cur = 0

\* Frames on a connection are consecutive sequence numbers.
Consecutive(s, n) ==
  \A i \in 1..Len(s) : s[i] = s[1] + i - 1 /\ s[i] < n

\* No connection, old or new, has a first frame the server cannot take.
InvFrames ==
  \A c \in Conn :
    /\ Consecutive(c2s[c], NextSeq)
    /\ c2s[c] # <<>> => c2s[c][1] <= Taken(c)
    /\ c > nconn => /\ c2s[c] = <<>> /\ s2c[c] = <<>>
                    /\ c \notin intact

\* The client's connection carries everything up to where the outbox starts.
InvCur ==
  phase = "connected" /\ ServerHears(cur) =>
    IF c2s[cur] = <<>> THEN OutboxStart <= Taken(cur)
                       ELSE c2s[cur][1] + Len(c2s[cur]) = OutboxStart

\* Acks in flight name delivered frames and ascend, from the largest the
\* client has read to the one being written.
InvAcks ==
  \A c \in Conn :
    /\ \A i \in 1..Len(s2c[c]) :
         /\ s2c[c][i].type = "ack" /\ s2c[c][i].seq < next.seq
         /\ c = cur => largestAcked <= s2c[c][i].seq
         /\ pendingAck # 0 /\ c = serving => s2c[c][i].seq < pendingAck
    /\ \A i, j \in 1..Len(s2c[c]) :
         i <= j => s2c[c][i].seq <= s2c[c][j].seq

\* The counters belong to the dispatch task; it holds the frame it waits for.
InvServer ==
  /\ proc = "none" => next.seq = 0 /\ next.ack = 0
  /\ proc = "serving" => serving \in 1..nconn
  /\ held # -1 => proc = "serving" /\ held = next.seq /\ held < NextSeq
  /\ pendingAck # 0 =>
       /\ proc = "serving" /\ pendingAck <= next.seq
       /\ serving = cur => largestAcked < pendingAck
  /\ \A i \in 1..Len(connq) : connq[i] <= nconn
  /\ \A c \in backlog : c <= nconn

\* What was delivered is a prefix of what was sent.
InvDelivered ==
  /\ Len(delivered) = next.seq /\ next.seq <= NextSeq
  /\ \A i \in 1..Len(delivered) : /\ delivered[i] = sent[i]
                                  /\ sent[i] \in everDelivered

\* Sequence numbers follow the order of the posts.
InvOrder ==
  /\ \A i, j \in 1..Len(sent) : i < j => sent[i] < sent[j]
  /\ \A i \in 1..Len(sent), j \in 1..Len(queue) : sent[i] < queue[j]
  /\ \A i, j \in 1..Len(queue) : i < j => queue[i] < queue[j]
  /\ \A i \in 1..Len(sent) : sent[i] <= posted
  /\ \A i \in 1..Len(queue) : queue[i] <= posted

\* An accepted message was delivered, unless serialization failed.
InvAccepted == Unserializable = {} => AcceptedWasDelivered

\* The inductive invariant.
Inv == /\ TypeClient /\ TypeNet /\ TypeServer
       /\ InvDeques /\ InvClient /\ InvFrames /\ InvCur /\ InvAcks
       /\ InvServer /\ InvDelivered /\ InvOrder /\ InvAccepted

-----------------------------------------------------------------------------
(* Sequences and frames.                                                   *)

\* What Tail leaves of a deque whose front is popped.
LEMMA TailFacts ==
  ASSUME NEW S, NEW s \in Seq(S), s # <<>>
  PROVE  /\ Tail(s) \in Seq(S) /\ Len(Tail(s)) = Len(s) - 1
         /\ \A i \in 1..Len(Tail(s)) : Tail(s)[i] = s[i + 1]
         /\ Head(s) = s[1] /\ Head(s) \in S /\ Len(s) \in Nat /\ Len(s) >= 1
  OBVIOUS

\* What Append adds to a deque.
LEMMA AppendFacts ==
  ASSUME NEW S, NEW s \in Seq(S), NEW e \in S
  PROVE  /\ Append(s, e) \in Seq(S) /\ Len(Append(s, e)) = Len(s) + 1
         /\ \A i \in 1..Len(s) : Append(s, e)[i] = s[i]
         /\ Append(s, e)[Len(s) + 1] = e /\ Append(s, e) # <<>>
         /\ Len(s) \in Nat
         /\ \A i \in 1..(Len(s) + 1) :
              \/ i \in 1..Len(s) /\ Append(s, e)[i] = s[i]
              \/ i = Len(s) + 1 /\ Append(s, e)[i] = e
  OBVIOUS

\* What concatenation does, for the requeue of the unacked deque.
LEMMA CatFacts ==
  ASSUME NEW S, NEW s \in Seq(S), NEW t \in Seq(S)
  PROVE  /\ s \o t \in Seq(S) /\ Len(s \o t) = Len(s) + Len(t)
         /\ \A i \in 1..(Len(s) + Len(t)) :
              (s \o t)[i] = IF i <= Len(s) THEN s[i] ELSE t[i - Len(s)]
         /\ Len(s) \in Nat /\ Len(t) \in Nat
  OBVIOUS

\* What is left when a prefix is pruned or a suffix lost.
LEMMA SubSeqFacts ==
  ASSUME NEW S, NEW s \in Seq(S), NEW m \in Nat, NEW n \in Nat,
         1 <= m, m <= n + 1, n <= Len(s)
  PROVE  /\ SubSeq(s, m, n) \in Seq(S) /\ Len(SubSeq(s, m, n)) = n - m + 1
         /\ \A i \in 1..(n - m + 1) : SubSeq(s, m, n)[i] = s[m + i - 1]
         /\ Len(s) \in Nat
  OBVIOUS

\* The empty deque.
LEMMA EmptyFacts ==
  ASSUME NEW S, NEW s \in Seq(S)
  PROVE  /\ <<>> \in Seq(S) /\ Len(<<>>) = 0 /\ Len(s) \in Nat
         /\ s = <<>> <=> Len(s) = 0
         /\ \A i \in 1..Len(s) : s[i] \in S
  OBVIOUS

\* Appending the frame that comes next keeps them so.
LEMMA ConsecutiveAppend ==
  ASSUME NEW s \in Seq(Nat), NEW h \in Nat, NEW n \in Nat, h < n,
         Consecutive(s, n), s # <<>> => s[1] + Len(s) = h
  PROVE  /\ Append(s, h) \in Seq(Nat) /\ Append(s, h) # <<>>
         /\ Append(s, h)[1] = IF s = <<>> THEN h ELSE s[1]
         /\ Append(s, h)[1] + Len(Append(s, h)) = h + 1
         /\ Consecutive(Append(s, h), n)
<1> DEFINE t == Append(s, h)
<1>1. /\ t \in Seq(Nat) /\ Len(t) = Len(s) + 1 /\ t # <<>> /\ Len(s) \in Nat
      /\ \A i \in 1..Len(s) : t[i] = s[i]
      /\ t[Len(s) + 1] = h
  BY AppendFacts
<1> HIDE DEF t
<1>2. CASE s = <<>>
  <2>1. Len(s) = 0
    BY <1>2
  <2> QED BY <1>1, <1>2, <2>1 DEF Consecutive, t
<1>3. CASE s # <<>>
  <2>1. \A i \in 1..Len(t) :
          \/ i \in 1..Len(s) /\ t[i] = s[i]
          \/ i = Len(s) + 1 /\ t[i] = h
    BY <1>1
  <2>2. Len(s) >= 1 /\ s[1] \in Nat
    BY <1>3, EmptyFacts
  <2>3. t[1] = s[1] /\ t[1] + Len(t) = h + 1
    BY <1>1, <1>3, <2>2, SMTT(30)
  <2>4. Consecutive(t, n)
    <3>1. \A i \in 1..Len(s) : s[i] = s[1] + i - 1 /\ s[i] < n
      BY DEF Consecutive
    <3>2. h = s[1] + (Len(s) + 1) - 1
      BY <1>3, <2>2, <1>1
    <3>3. \A i \in 1..Len(t) : t[i] = s[1] + i - 1 /\ t[i] < n
      BY <2>1, <3>1, <3>2
    <3> QED BY <2>3, <3>3 DEF Consecutive
  <2> QED BY <1>1, <1>3, <2>3, <2>4 DEF t
<1> QED BY <1>2, <1>3

\* Reading the first frame leaves consecutive frames.
LEMMA ConsecutiveTail ==
  ASSUME NEW s \in Seq(Nat), NEW n \in Nat, Consecutive(s, n), s # <<>>
  PROVE  /\ Tail(s) \in Seq(Nat) /\ Consecutive(Tail(s), n)
         /\ Len(Tail(s)) = Len(s) - 1 /\ Len(s) \in Nat
         /\ Tail(s) # <<>> => Tail(s)[1] = s[1] + 1
         /\ Head(s) = s[1] /\ s[1] \in Nat /\ s[1] < n
<1> DEFINE t == Tail(s)
<1>1. /\ t \in Seq(Nat) /\ Len(t) = Len(s) - 1
      /\ \A i \in 1..Len(t) : t[i] = s[i + 1]
      /\ Head(s) = s[1] /\ Head(s) \in Nat /\ Len(s) \in Nat /\ Len(s) >= 1
  BY TailFacts
<1>2. t # <<>> => Len(t) >= 1
  BY <1>1, EmptyFacts
<1> HIDE DEF t
<1>3. \A i \in 1..Len(s) : s[i] = s[1] + i - 1 /\ s[i] < n
  BY DEF Consecutive
<1>4. \A i \in 1..Len(t) : t[i] = s[1] + i /\ t[i] < n
  <2> SUFFICES ASSUME NEW i \in 1..Len(t)
               PROVE  t[i] = s[1] + i /\ t[i] < n
    OBVIOUS
  <2>1. i + 1 \in 1..Len(s) /\ t[i] = s[i + 1] /\ s[1] \in Nat
    BY <1>1
  <2>2. s[i + 1] = s[1] + (i + 1) - 1 /\ s[i + 1] < n
    BY <2>1, <1>3
  <2> QED BY <2>1, <2>2
<1>5. s[1] < n
  BY <1>1, <1>3
<1>6. t # <<>> => t[1] = s[1] + 1
  BY <1>1, <1>2, <1>4
<1>7. Consecutive(t, n)
  BY <1>1, <1>2, <1>4, <1>6, EmptyFacts, SMTT(30) DEF Consecutive
<1> QED BY <1>1, <1>5, <1>6, <1>7 DEF t

\* A prefix of consecutive frames is consecutive.
LEMMA ConsecutivePrefix ==
  ASSUME NEW s \in Seq(Nat), NEW n \in Nat, NEW k \in 0..Len(s),
         Consecutive(s, n)
  PROVE  /\ SubSeq(s, 1, k) \in Seq(Nat) /\ Consecutive(SubSeq(s, 1, k), n)
         /\ SubSeq(s, 1, k) # <<>> => s # <<>> /\ SubSeq(s, 1, k)[1] = s[1]
         /\ s = <<>> => SubSeq(s, 1, k) = <<>>
<1> DEFINE t == SubSeq(s, 1, k)
<1>1. /\ t \in Seq(Nat) /\ Len(t) = k /\ k <= Len(s) /\ Len(s) \in Nat
      /\ \A i \in 1..k : t[i] = s[i]
  OBVIOUS
<1>2. (t = <<>> <=> k = 0) /\ (s = <<>> <=> Len(s) = 0)
  BY <1>1, EmptyFacts
<1> HIDE DEF t
<1>3. \A i \in 1..Len(s) : s[i] = s[1] + i - 1 /\ s[i] < n
  BY DEF Consecutive
<1>4. \A i \in 1..k : t[i] = s[1] + i - 1 /\ t[i] < n
  <2>1. \A i \in 1..k : i \in 1..Len(s)
    BY <1>1
  <2> QED BY <2>1, <1>1, <1>3
<1>5. t # <<>> => t[1] = s[1] /\ s # <<>>
  BY <1>1, <1>2
<1>6. Consecutive(t, n)
  BY <1>1, <1>2, <1>4, <1>5 DEF Consecutive
<1> QED BY <1>1, <1>2, <1>5, <1>6 DEF t

\* Messages are numbers.
LEMMA MsgFacts ==
  ASSUME NEW s \in Seq(Msg)
  PROVE  Len(s) \in Nat /\ \A i \in 1..Len(s) : s[i] \in Msg /\ s[i] \in Nat
  BY EmptyFacts, ConstantAssumption DEF Msg

\* Each part of the invariant depends only on the variables it names.
LEMMA Frames ==
  /\ InvDeques /\ UNCHANGED <<sent, outbox, unacked, largestAcked>>
       => InvDeques'
  /\ InvClient /\ UNCHANGED <<sent, outbox, unacked, largestAcked, next, phase,
                              reason, cur, nconn>>
       => InvClient'
  /\ InvFrames /\ UNCHANGED <<c2s, s2c, sent, serving, held, next, nconn,
                              intact>>
       => InvFrames'
  /\ InvCur /\ UNCHANGED <<phase, cur, intact, serverEnd, c2s, sent, outbox,
                           serving, held, next>>
       => InvCur'
  /\ InvAcks /\ UNCHANGED <<s2c, next, cur, largestAcked, pendingAck, serving>>
       => InvAcks'
  /\ InvServer /\ UNCHANGED <<proc, connq, backlog, serving, held, next,
                              pendingAck, sent, nconn, cur, largestAcked>>
       => InvServer'
  /\ InvDelivered /\ UNCHANGED <<delivered, everDelivered, next, sent>>
       => InvDelivered'
  /\ InvOrder /\ UNCHANGED <<sent, queue, posted>> => InvOrder'
  /\ InvAccepted /\ UNCHANGED <<outcome, everDelivered>> => InvAccepted'
<1> USE DEF OutboxStart, RunStart, NextSeq, Taken
<1>1. InvDeques /\ UNCHANGED <<sent, outbox, unacked, largestAcked>>
        => InvDeques'
  BY DEF InvDeques
<1>2. InvClient /\ UNCHANGED <<sent, outbox, unacked, largestAcked, next,
                               phase, reason, cur, nconn>>
        => InvClient'
  BY DEF InvClient
<1>3. InvFrames /\ UNCHANGED <<c2s, s2c, sent, serving, held, next, nconn,
                               intact>>
        => InvFrames'
  BY DEF InvFrames
<1>4. InvCur /\ UNCHANGED <<phase, cur, intact, serverEnd, c2s, sent, outbox,
                            serving, held, next>>
        => InvCur'
  BY DEF InvCur, ServerHears
<1>5. InvAcks /\ UNCHANGED <<s2c, next, cur, largestAcked, pendingAck, serving>>
        => InvAcks'
  BY DEF InvAcks
<1>6. InvServer /\ UNCHANGED <<proc, connq, backlog, serving, held, next,
                               pendingAck, sent, nconn, cur, largestAcked>>
        => InvServer'
  BY DEF InvServer
<1>7. InvDelivered /\ UNCHANGED <<delivered, everDelivered, next, sent>>
        => InvDelivered'
  BY DEF InvDelivered
<1>8. InvOrder /\ UNCHANGED <<sent, queue, posted>> => InvOrder'
  BY DEF InvOrder
<1>9. InvAccepted /\ UNCHANGED <<outcome, everDelivered>> => InvAccepted'
  BY DEF InvAccepted, AcceptedWasDelivered
<1> QED BY <1>1, <1>2, <1>3, <1>4, <1>5, <1>6, <1>7, <1>8, <1>9

-----------------------------------------------------------------------------
(* The application's steps.                                                *)

\* ChannelTx::do_post preserves the invariant.
LEMMA PostStep == ASSUME Inv, Post PROVE Inv'
<1> USE DEF appVars, clientVars, netVars, ends, procVars, rxVars, srvVars
<1>1. /\ posted + 1 \in Msg /\ posted' = posted + 1 /\ posted \in Nat
      /\ queue \in Seq(Msg) /\ sent \in Seq(Msg) /\ sent' = sent
      /\ queue' = queue \/ queue' = Append(queue, posted + 1)
  BY ConstantAssumption DEF Inv, TypeClient, Post, Msg
<1>2. queue' \in Seq(Msg)
  BY <1>1, AppendFacts
<1>3. /\ outcome' \in [Msg -> {"pending", "accepted", "rejected", "dropped"}]
      /\ \A m \in Msg : outcome'[m] = "accepted" => outcome[m] = "accepted"
  BY <1>1 DEF Inv, TypeClient, Post, Resolve
<1>4. TypeClient'
  BY <1>1, <1>2, <1>3 DEF Inv, TypeClient, Post, Msg
<1>5. TypeNet' /\ TypeServer'
  BY DEF Inv, TypeNet, TypeServer, Post
<1>6. InvOrder'
  <2>1. InvOrder /\ \A i \in 1..Len(sent) : sent[i] \in Nat
    BY <1>1, MsgFacts DEF Inv
  <2>2. CASE queue' = queue
    <3>1. \A i \in 1..Len(queue) : queue[i] \in Nat
      BY <1>1, MsgFacts
    <3> QED BY <1>1, <2>1, <2>2, <3>1 DEF InvOrder
  <2>3. CASE queue' = Append(queue, posted + 1)
    <3>1. /\ Len(queue') = Len(queue) + 1 /\ queue'[Len(queue) + 1] = posted + 1
          /\ \A i \in 1..Len(queue) : queue'[i] = queue[i]
      BY <1>1, <2>3, AppendFacts
    <3>2. Len(queue) \in Nat /\ \A i \in 1..Len(queue) : queue[i] \in Nat
      BY <1>1, MsgFacts
    <3>3. \A i \in 1..Len(queue') :
            \/ i \in 1..Len(queue) /\ queue'[i] = queue[i] /\ queue[i] <= posted
            \/ i = Len(queue) + 1 /\ queue'[i] = posted + 1
      BY <2>1, <3>1, <3>2 DEF InvOrder
    <3>4. \A i, j \in 1..Len(queue') : i < j => queue'[i] < queue'[j]
      BY <1>1, <2>1, <3>2, <3>3 DEF InvOrder
    <3>5. \A i \in 1..Len(sent), j \in 1..Len(queue') : sent[i] < queue'[j]
      BY <1>1, <2>1, <3>2, <3>3 DEF InvOrder
    <3> QED BY <1>1, <2>1, <3>2, <3>3, <3>4, <3>5 DEF InvOrder
  <2> QED BY <1>1, <2>2, <2>3
<1>7. InvAccepted'
  BY <1>3 DEF Inv, InvAccepted, AcceptedWasDelivered, Post
<1>8. /\ InvDeques' /\ InvClient' /\ InvFrames' /\ InvCur' /\ InvAcks'
      /\ InvServer' /\ InvDelivered'
  BY Frames DEF Inv, Post
<1> QED BY <1>4, <1>5, <1>6, <1>7, <1>8 DEF Inv

\* Dropping the last ChannelTx handle preserves the invariant.
LEMMA DropTxStep == ASSUME Inv, DropTx PROVE Inv'
<1> USE DEF appVars, clientVars, netVars, ends, procVars, rxVars, srvVars
<1>1. TypeClient' /\ TypeNet' /\ TypeServer'
  BY ZenonT(40) DEF Inv, TypeClient, TypeNet, TypeServer, DropTx
<1> QED BY <1>1, Frames DEF Inv, DropTx

\* ChannelRx::recv preserves the invariant.
LEMMA RxRecvStep == ASSUME Inv, RxRecv PROVE Inv'
<1> USE DEF appVars, clientVars, netVars, ends, procVars, rxVars, srvVars
<1>1. TypeClient' /\ TypeNet' 
  BY DEF Inv, TypeClient, TypeNet, RxRecv
<1>2. TypeServer' 
  BY DEF Inv, TypeServer, RxRecv
<1> QED BY <1>1, <1>2, Frames DEF Inv, RxRecv

-----------------------------------------------------------------------------
(* The client task's steps.                                                *)

\* Outbox::push_back extends the run by the next sequence number, and keeps
\* the posts in order.
LEMMA Pushed ==
  ASSUME TypeClient, InvDeques, InvOrder, queue # <<>>, PushBack,
         UNCHANGED <<posted, unacked, largestAcked>>
  PROVE  /\ sent' \in Seq(Msg) /\ queue' \in Seq(Msg) /\ outbox' \in Seq(Nat)
         /\ NextSeq' = NextSeq + 1 /\ NextSeq \in Nat
         /\ OutboxStart' = OutboxStart /\ RunStart' = RunStart
         /\ outcome' = outcome
         /\ InvDeques' /\ InvOrder'
<1>1. /\ sent' = Append(sent, Head(queue)) /\ queue' = Tail(queue)
      /\ outbox' = Append(outbox, Len(sent)) /\ outcome' = outcome
      /\ sent \in Seq(Msg) /\ queue \in Seq(Msg) /\ outbox \in Seq(Nat)
      /\ unacked \in Seq(Nat) /\ posted \in Nat
  BY DEF PushBack, NextSeq, TypeClient
<1>2. /\ queue' \in Seq(Msg) /\ Len(queue') = Len(queue) - 1
      /\ \A i \in 1..Len(queue') : queue'[i] = queue[i + 1]
      /\ Head(queue) = queue[1] /\ Head(queue) \in Msg
      /\ Len(queue) \in Nat /\ Len(queue) >= 1
  BY <1>1, TailFacts
<1>3. /\ sent' \in Seq(Msg) /\ Len(sent') = Len(sent) + 1
      /\ \A i \in 1..Len(sent) : sent'[i] = sent[i]
      /\ sent'[Len(sent) + 1] = queue[1] /\ Len(sent) \in Nat
  BY <1>1, <1>2, AppendFacts
<1>4. /\ outbox' \in Seq(Nat) /\ Len(outbox') = Len(outbox) + 1
      /\ \A i \in 1..Len(outbox) : outbox'[i] = outbox[i]
      /\ outbox'[Len(outbox) + 1] = Len(sent) /\ Len(outbox) \in Nat
  BY <1>1, <1>3, AppendFacts
<1>5. Len(unacked) \in Nat
  BY <1>1, EmptyFacts
<1>6. /\ NextSeq' = NextSeq + 1 /\ NextSeq \in Nat
      /\ OutboxStart' = OutboxStart /\ RunStart' = RunStart
  BY <1>3, <1>4, <1>5 DEF NextSeq, OutboxStart, RunStart
<1>7. InvDeques'
  <2>1. InvDeques
    OBVIOUS
  <2>2. Len(outbox') + Len(unacked') <= NextSeq'
    BY <2>1, <1>3, <1>4, <1>5 DEF InvDeques, NextSeq
  <2>3. \A i \in 1..Len(outbox') : outbox'[i] = OutboxStart + i - 1
    <3>1. \A i \in 1..Len(outbox') :
            \/ i \in 1..Len(outbox) /\ outbox'[i] = outbox[i]
            \/ i = Len(outbox) + 1 /\ outbox'[i] = Len(sent)
      BY <1>4
    <3>2. OutboxStart = Len(sent) - Len(outbox)
      BY DEF OutboxStart, NextSeq
    <3>3. \A i \in 1..Len(outbox) : outbox[i] = OutboxStart + i - 1
      BY <2>1 DEF InvDeques
    <3>4. Len(sent) = OutboxStart + (Len(outbox) + 1) - 1
      BY <3>2, <1>3, <1>4
    <3> QED BY <3>1, <3>3, <3>4
  <2> QED BY <2>1, <2>2, <2>3, <1>6 DEF InvDeques
<1>8. InvOrder'
  <2>1. InvOrder
    OBVIOUS
  <2>2. /\ \A i \in 1..Len(sent) : sent[i] \in Nat
        /\ \A i \in 1..Len(queue) : queue[i] \in Nat
    BY <1>1, MsgFacts
  <2>3. \A i \in 1..Len(sent') :
          \/ i \in 1..Len(sent) /\ sent'[i] = sent[i]
          \/ i = Len(sent) + 1 /\ sent'[i] = queue[1]
    BY <1>3
  <2>4. \A i \in 1..Len(queue') : i + 1 \in 1..Len(queue) /\ queue'[i] = queue[i + 1]
    BY <1>2
  <2>5. 1 \in 1..Len(queue)
    BY <1>2
  <2>6. \A i, j \in 1..Len(sent') : i < j => sent'[i] < sent'[j]
    BY <2>1, <2>2, <2>3, <2>5, <1>3 DEF InvOrder
  <2>7. \A i \in 1..Len(sent'), j \in 1..Len(queue') : sent'[i] < queue'[j]
    BY <2>1, <2>2, <2>3, <2>4, <2>5, <1>2, SMTT(30) DEF InvOrder
  <2>8. \A i, j \in 1..Len(queue') : i < j => queue'[i] < queue'[j]
    BY <2>1, <2>2, <2>4 DEF InvOrder
  <2>9. \A i \in 1..Len(sent') : sent'[i] <= posted
    BY <2>1, <2>3, <2>5 DEF InvOrder
  <2>10. \A i \in 1..Len(queue') : queue'[i] <= posted
    BY <2>1, <2>4 DEF InvOrder
  <2> QED BY <2>6, <2>7, <2>8, <2>9, <2>10 DEF InvOrder
<1> QED BY <1>1, <1>2, <1>3, <1>4, <1>6, <1>7, <1>8

\* The rest of the invariant does not mind.
LEMMA PushBackFacts ==
  ASSUME Inv, queue # <<>>, PushBack,
         UNCHANGED <<posted, unacked, largestAcked, delivered, everDelivered,
                     next>>
  PROVE  /\ sent' \in Seq(Msg) /\ queue' \in Seq(Msg) /\ outbox' \in Seq(Nat)
         /\ NextSeq' = NextSeq + 1 /\ NextSeq \in Nat
         /\ OutboxStart' = OutboxStart /\ RunStart' = RunStart
         /\ outcome' = outcome
         /\ InvDeques' /\ InvOrder' /\ InvDelivered'
<1>1. /\ sent' \in Seq(Msg) /\ queue' \in Seq(Msg) /\ outbox' \in Seq(Nat)
      /\ NextSeq' = NextSeq + 1 /\ NextSeq \in Nat
      /\ OutboxStart' = OutboxStart /\ RunStart' = RunStart
      /\ outcome' = outcome /\ InvDeques' /\ InvOrder'
  BY Pushed DEF Inv
<1>2. \A i \in 1..Len(sent) : sent'[i] = sent[i]
  <2>1. sent \in Seq(Msg) /\ queue \in Seq(Msg) /\ sent' = Append(sent, Head(queue))
    BY DEF Inv, TypeClient, PushBack
  <2>2. Head(queue) \in Msg
    BY <2>1, TailFacts
  <2> QED BY <2>1, <2>2, AppendFacts
<1>3. InvDelivered /\ delivered \in Seq(Msg) /\ next \in [seq : Nat, ack : Nat]
  BY DEF Inv, TypeServer
<1>4. Len(delivered) \in Nat /\ Len(delivered) <= Len(sent) /\ Len(sent) \in Nat
  BY <1>1, <1>3, EmptyFacts DEF InvDelivered, NextSeq
<1>5. InvDelivered'
  <2>1. Len(delivered) = next.seq /\ next.seq <= NextSeq + 1
    BY <1>1, <1>3 DEF InvDelivered
  <2>2. \A i \in 1..Len(delivered) : i \in 1..Len(sent)
    BY <1>4
  <2>3. \A i \in 1..Len(delivered) : delivered[i] = sent'[i] /\ sent'[i] \in everDelivered
    BY <1>2, <1>3, <2>2 DEF InvDelivered
  <2> QED BY <1>1, <2>1, <2>3 DEF InvDelivered
<1> QED BY <1>1, <1>5

\* Sequence numbers already on the wire stay below the next one.
LEMMA MoreSent ==
  ASSUME Inv, NextSeq \in Nat, NextSeq' = NextSeq + 1
  PROVE  /\ UNCHANGED <<c2s, s2c, serving, held, next, nconn, intact>>
              => InvFrames'
         /\ UNCHANGED <<proc, connq, backlog, serving, held, next, pendingAck,
                        nconn, cur, largestAcked>> => InvServer'
<1>1. /\ c2s \in [Conn -> Seq(Nat)] /\ held \in Nat \cup {-1}
      /\ \A c \in Conn : \A i \in 1..Len(c2s[c]) : c2s[c][i] \in Nat
  BY DEF Inv, TypeNet, TypeServer
<1>2. UNCHANGED <<c2s, s2c, serving, held, next, nconn, intact>> => InvFrames'
  BY <1>1 DEF Inv, InvFrames, Taken, Consecutive
<1>3. UNCHANGED <<proc, connq, backlog, serving, held, next, pendingAck, nconn,
                  cur, largestAcked>> => InvServer'
  BY <1>1 DEF Inv, InvServer
<1> QED BY <1>2, <1>3

\* Session::release only forgets responses of the connection it gives up.
LEMMA HangUpFacts ==
  ASSUME Inv, HangUp, phase' # "connected",
         UNCHANGED <<sent, largestAcked, breaks, proc, connq, backlog, serving,
                     held, next, pendingAck>>
  PROVE  TypeNet' /\ InvFrames' /\ InvCur' /\ InvAcks' /\ InvServer'
<1>1. /\ s2c \in [Conn -> Seq(Response)]
      /\ s2c' = [c \in Conn |-> IF c = cur THEN <<>> ELSE s2c[c]]
      /\ intact' \subseteq intact /\ intact \subseteq Conn
      /\ cur' = 0 /\ nconn' = nconn /\ c2s' = c2s
  BY DEF Inv, TypeNet, HangUp
<1>2. /\ s2c' \in [Conn -> Seq(Response)]
      /\ \A c \in Conn : s2c'[c] = s2c[c] \/ Len(s2c'[c]) = 0
      /\ \A c \in Conn : s2c[c] = <<>> => s2c'[c] = <<>>
  BY <1>1, EmptyFacts
<1>3. 0 \notin Conn
  BY DEF Conn
<1>4. TypeNet'
  BY <1>1, <1>2, ConstantAssumption DEF Inv, TypeNet, HangUp
<1>5. InvFrames'
  BY <1>1, <1>2 DEF Inv, InvFrames, Taken, NextSeq
<1>6. InvCur'
  BY DEF InvCur
<1>7. InvAcks'
  BY <1>1, <1>2, <1>3 DEF Inv, InvAcks
<1>8. InvServer'
  <2>1. proc = "serving" => serving # 0
    BY <1>1 DEF Inv, InvServer
  <2> QED BY <1>1, <2>1 DEF Inv, InvServer, NextSeq
<1> QED BY <1>4, <1>5, <1>6, <1>7, <1>8

\* The first message is taken up: the invariant is preserved.
LEMMA LazyRecvStep == ASSUME Inv, LazyRecv PROVE Inv'
<1> USE DEF appVars, clientVars, netVars, ends, procVars, rxVars, srvVars
<1>1. /\ queue # <<>> /\ phase = "lazy"
      /\ UNCHANGED <<posted, txOpen, unacked, largestAcked>>
      /\ UNCHANGED <<cur, nconn, ends, c2s, s2c, breaks>>
      /\ UNCHANGED <<procVars, rxVars, srvVars>>
  BY DEF LazyRecv
<1>2. TypeNet' /\ TypeServer' /\ InvAcks'
  BY <1>1, Frames DEF Inv, TypeNet, TypeServer
<1>3. CASE Head(queue) \in Unserializable
  <2>1. /\ queue' = <<>> /\ phase' = "closed" /\ reason' = "other"
        /\ UNCHANGED <<sent, outbox>>
        /\ outcome' = [m \in Msg |-> IF m = Head(queue) THEN "accepted"
                                     ELSE IF m \in InQueue THEN "dropped"
                                     ELSE outcome[m]]
    BY <1>3 DEF LazyRecv
  <2>2. queue' \in Seq(Msg) /\ Len(queue') = 0
    BY <2>1, EmptyFacts DEF Inv, TypeClient
  <2>3. TypeClient'
    BY <1>1, <2>1, <2>2 DEF Inv, TypeClient
  <2>4. InvClient'
    BY <1>1, <2>1 DEF Inv, InvClient
  <2>5. InvCur'
    BY <2>1 DEF InvCur
  <2>6. InvOrder'
    BY <1>1, <2>1, <2>2 DEF Inv, InvOrder
  <2>7. InvAccepted'
    BY <1>3 DEF InvAccepted
  <2>8. InvDeques' /\ InvFrames' /\ InvServer' /\ InvDelivered'
    BY <1>1, <2>1, Frames DEF Inv
  <2> QED BY <1>2, <2>3, <2>4, <2>5, <2>6, <2>7, <2>8 DEF Inv
<1>4. CASE Head(queue) \notin Unserializable
  <2>1. PushBack /\ phase' = "connecting" /\ reason' = reason
    BY <1>4 DEF LazyRecv
  <2>2. /\ sent' \in Seq(Msg) /\ queue' \in Seq(Msg) /\ outbox' \in Seq(Nat)
        /\ NextSeq' = NextSeq + 1 /\ NextSeq \in Nat
        /\ OutboxStart' = OutboxStart /\ RunStart' = RunStart
        /\ outcome' = outcome
        /\ InvDeques' /\ InvOrder' /\ InvDelivered'
    BY <1>1, <2>1, PushBackFacts
  <2>3. TypeClient'
    BY <1>1, <2>1, <2>2 DEF Inv, TypeClient
  <2>4. InvClient' /\ InvCur'
    BY <1>1, <2>1, <2>2 DEF Inv, InvClient, InvCur
  <2>5. InvFrames' /\ InvServer'
    BY <1>1, <2>2, MoreSent DEF Inv
  <2>6. InvAccepted'
    BY <1>1, <2>2, Frames DEF Inv
  <2> QED BY <1>2, <2>2, <2>3, <2>4, <2>5, <2>6 DEF Inv
<1> QED BY <1>3, <1>4

\* Ending before the first message preserves the invariant.
LEMMA LazyClosedStep == ASSUME Inv, LazyClosed PROVE Inv'
<1> USE DEF appVars, clientVars, netVars, ends, procVars, rxVars, srvVars
<1>1. TypeClient' /\ TypeNet' /\ TypeServer'
  BY DEF Inv, TypeClient, TypeNet, TypeServer, LazyClosed
<1>2. InvClient' /\ InvCur'
  BY DEF Inv, InvClient, InvCur, LazyClosed, OutboxStart, RunStart, NextSeq
<1> QED BY <1>1, <1>2, Frames DEF Inv, LazyClosed

\* The code after spawn_inner's loop preserves the invariant.
LEMMA CloseTxStep ==
  ASSUME Inv, NEW why \in {"oversized", "other"}, CloseTx(why),
         UNCHANGED <<appVars, procVars, rxVars, srvVars, breaks>>
  PROVE  Inv'
<1> USE DEF appVars, procVars, rxVars, srvVars
<1>1. /\ unacked' = <<>> /\ outbox' = <<>> /\ queue' = <<>>
      /\ phase' = "closed" /\ reason' = why /\ HangUp
      /\ UNCHANGED <<sent, largestAcked>> /\ cur' = 0
  BY DEF CloseTx, HangUp
<1>2. /\ unacked' \in Seq(Nat) /\ outbox' \in Seq(Nat) /\ queue' \in Seq(Msg)
      /\ Len(unacked') = 0 /\ Len(outbox') = 0 /\ Len(queue') = 0
  BY <1>1
<1>3. /\ outcome' \in [Msg -> {"pending", "accepted", "rejected", "dropped"}]
      /\ \A m \in Msg : outcome'[m] = "accepted" => outcome[m] = "accepted"
  BY DEF Inv, TypeClient, CloseTx, Resolve
<1>4. TypeClient'
  BY <1>1, <1>2, <1>3 DEF Inv, TypeClient
<1>5. TypeServer'
  BY DEF Inv, TypeServer
<1>6. TypeNet' /\ InvFrames' /\ InvCur' /\ InvAcks' /\ InvServer'
  BY <1>1, HangUpFacts
<1>7. InvDeques'
  BY <1>1, <1>2, MsgFacts DEF Inv, TypeClient, InvDeques, NextSeq
<1>8. InvClient'
  BY <1>1 DEF Inv, InvClient
<1>9. InvOrder'
  BY <1>1, <1>2 DEF Inv, InvOrder
<1>10. InvAccepted'
  BY <1>3 DEF Inv, InvAccepted, AcceptedWasDelivered
<1>11. InvDelivered'
  BY <1>1, Frames DEF Inv
<1> QED BY <1>4, <1>5, <1>6, <1>7, <1>8, <1>9, <1>10, <1>11 DEF Inv

\* Every way the client gives up on the session preserves the invariant.
LEMMA ClosingSteps ==
  ASSUME Inv, \/ ConnectDeadline \/ ConnectFails \/ SendOversized
              \/ DeliveryTimeout \/ AppClosed
  PROVE  Inv'
  BY CloseTxStep DEF ConnectDeadline, ConnectFails, SendOversized,
     DeliveryTimeout, AppClosed

\* The server never answers Reject or Closed while it stays up.
LEMMA ReadTerminalStep == ASSUME Inv, ReadTerminal PROVE FALSE
<1>1. /\ phase = "connected" /\ s2c[cur] # <<>> /\ Head(s2c[cur]).type # "ack"
  BY DEF ReadTerminal, Selecting
<1>2. cur \in Conn
  BY <1>1, ConstantAssumption DEF Inv, InvClient, TypeNet, Conn
<1>3. s2c[cur] \in Seq(Response)
  BY <1>2 DEF Inv, TypeNet
<1>4. 1 \in 1..Len(s2c[cur]) /\ Head(s2c[cur]) = s2c[cur][1]
  BY <1>1, <1>3, TailFacts
<1> QED BY <1>1, <1>2, <1>4 DEF Inv, InvAcks

\* Losing the connection preserves the invariant.
LEMMA DisconnectStep == ASSUME Inv, Disconnect PROVE Inv'
<1> USE DEF appVars, procVars, rxVars, srvVars
<1>1. /\ HangUp /\ phase' = "connecting" /\ cur' = 0 /\ nconn' = nconn
      /\ phase = "connected"
      /\ UNCHANGED <<reason, sent, outbox, unacked, largestAcked, outcome, queue,
                     posted, txOpen>>
      /\ UNCHANGED <<procVars, rxVars, srvVars, breaks>>
  BY DEF Disconnect, HangUp, Selecting
<1>2. TypeClient' /\ TypeServer'
  BY <1>1 DEF Inv, TypeClient, TypeServer
<1>3. TypeNet' /\ InvFrames' /\ InvCur' /\ InvAcks' /\ InvServer'
  BY <1>1, HangUpFacts
<1>4. InvClient'
  BY <1>1 DEF Inv, InvClient, RunStart, OutboxStart, NextSeq
<1>5. InvDeques' /\ InvDelivered' /\ InvOrder' /\ InvAccepted'
  BY <1>1, Frames DEF Inv
<1> QED BY <1>2, <1>3, <1>4, <1>5 DEF Inv

\* Taking up a further message preserves the invariant; so does giving the
\* connection up over one that cannot be serialized.
LEMMA RecvNewStep == ASSUME Inv, RecvNew PROVE Inv'
<1> USE DEF appVars, procVars, rxVars, srvVars
<1>1. /\ queue # <<>> /\ outbox = <<>> /\ phase = "connected"
      /\ UNCHANGED <<posted, txOpen, unacked, largestAcked, reason>>
      /\ UNCHANGED <<procVars, rxVars, srvVars, breaks>>
  BY DEF RecvNew, Selecting
<1>2. TypeServer'
  BY <1>1 DEF Inv, TypeServer
<1>3. CASE Head(queue) \in Unserializable
  <2>1. /\ queue' = Tail(queue) /\ phase' = "connecting" /\ HangUp
        /\ UNCHANGED <<sent, outbox>> /\ cur' = 0
        /\ outcome' = Resolve({Head(queue)}, "accepted")
    BY <1>3 DEF RecvNew, HangUp
  <2>2. queue \in Seq(Msg)
    BY DEF Inv, TypeClient
  <2>3. /\ queue' \in Seq(Msg) /\ Len(queue') = Len(queue) - 1
        /\ \A i \in 1..Len(queue') : queue'[i] = queue[i + 1]
        /\ Len(queue) \in Nat
    BY <1>1, <2>1, <2>2, TailFacts
  <2>4. TypeClient'
    BY <1>1, <2>1, <2>3 DEF Inv, TypeClient, Resolve
  <2>5. TypeNet' /\ InvFrames' /\ InvCur' /\ InvAcks' /\ InvServer'
    BY <1>1, <2>1, HangUpFacts
  <2>6. InvClient'
    BY <1>1, <2>1 DEF Inv, InvClient, RunStart, OutboxStart, NextSeq
  <2>7. InvOrder'
    <3>1. \A i \in 1..Len(queue') :
            i + 1 \in 1..Len(queue) /\ queue'[i] = queue[i + 1]
      BY <2>3
    <3> QED BY <1>1, <2>1, <3>1 DEF Inv, InvOrder
  <2>8. InvAccepted'
    BY <1>3 DEF InvAccepted
  <2>9. InvDeques' /\ InvDelivered'
    BY <1>1, <2>1, Frames DEF Inv
  <2> QED BY <1>2, <2>4, <2>5, <2>6, <2>7, <2>8, <2>9 DEF Inv
<1>4. CASE Head(queue) \notin Unserializable
  <2>1. PushBack /\ phase' = phase /\ UNCHANGED <<cur, nconn, ends, c2s, s2c>>
    BY <1>4 DEF RecvNew, netVars
  <2>2. /\ sent' \in Seq(Msg) /\ queue' \in Seq(Msg) /\ outbox' \in Seq(Nat)
        /\ NextSeq' = NextSeq + 1 /\ NextSeq \in Nat
        /\ OutboxStart' = OutboxStart /\ RunStart' = RunStart
        /\ outcome' = outcome
        /\ InvDeques' /\ InvOrder' /\ InvDelivered'
    BY <1>1, <2>1, PushBackFacts
  <2>3. TypeClient' /\ TypeNet'
    BY <1>1, <2>1, <2>2 DEF Inv, TypeClient, TypeNet, ends
  <2>4. InvClient'
    BY <1>1, <2>1, <2>2 DEF Inv, InvClient
  <2>5. InvCur'
    BY <1>1, <2>1, <2>2 DEF Inv, InvCur, ServerHears, Taken, ends
  <2>6. InvFrames' /\ InvServer' /\ InvAcks'
    BY <1>1, <2>1, <2>2, MoreSent, Frames DEF Inv, ends
  <2>7. InvAccepted'
    BY <1>1, <2>2, Frames DEF Inv
  <2> QED BY <1>2, <2>2, <2>3, <2>4, <2>5, <2>6, <2>7 DEF Inv
<1> QED BY <1>3, <1>4

\* A new connection starts where the client's run starts.
LEMMA ConnectStep == ASSUME Inv, Connect PROVE Inv'
<1> USE DEF appVars, procVars, rxVars
<1>1. /\ nconn' = nconn + 1 /\ cur' = nconn + 1 /\ nconn + 1 \in Conn
      /\ nconn \in Nat /\ phase = "connecting" /\ phase' = "connected"
      /\ intact' = intact \cup {nconn + 1} /\ backlog' = backlog \cup {nconn + 1}
      /\ outbox' = unacked \o outbox /\ unacked' = <<>>
      /\ UNCHANGED <<reason, sent, largestAcked, c2s, s2c, outcome, queue, breaks>>
      /\ UNCHANGED <<posted, txOpen, rxOpen, cancelled, listening>>
      /\ UNCHANGED <<procVars, rxVars>>
  BY ConstantAssumption DEF Connect, Requeued, Inv, TypeNet, Conn
<1>2. /\ outbox \in Seq(Nat) /\ unacked \in Seq(Nat) /\ sent \in Seq(Msg)
      /\ next \in [seq : Nat, ack : Nat] /\ c2s \in [Conn -> Seq(Nat)]
      /\ s2c \in [Conn -> Seq(Response)]
  BY DEF Inv, TypeClient, TypeServer, TypeNet
<1>3. /\ outbox' \in Seq(Nat) /\ Len(outbox') = Len(unacked) + Len(outbox)
      /\ \A i \in 1..(Len(unacked) + Len(outbox)) : outbox'[i] =
           IF i <= Len(unacked) THEN unacked[i] ELSE outbox[i - Len(unacked)]
      /\ Len(unacked) \in Nat /\ Len(outbox) \in Nat
  BY <1>1, <1>2, CatFacts
<1>4. unacked' \in Seq(Nat) /\ Len(unacked') = 0 /\ Len(sent) \in Nat
  BY <1>1, <1>2, EmptyFacts
<1>5. NextSeq' = NextSeq /\ OutboxStart' = RunStart /\ RunStart' = RunStart
  BY <1>1, <1>3, <1>4 DEF NextSeq, OutboxStart, RunStart
<1>6. TypeClient'
  BY <1>1, <1>3, <1>4 DEF Inv, TypeClient
<1>7. TypeNet' /\ TypeServer'
  <2>1. /\ nconn + 1 \in 0..MaxConns
        /\ clientEnd' = clientEnd \cup {nconn + 1} /\ serverEnd' = serverEnd \cup {nconn + 1}
    BY <1>1, ConstantAssumption DEF Connect, Conn
  <2>2. TypeNet'
    BY <1>1, <2>1 DEF Inv, TypeNet
  <2>3. TypeServer'
    BY <1>1 DEF Inv, TypeServer
  <2> QED BY <2>2, <2>3
<1>8. InvDeques'
  <2>1. InvDeques
    BY DEF Inv
  <2>2. \A i \in 1..Len(outbox') : outbox'[i] = RunStart + i - 1
    <3> SUFFICES ASSUME NEW i \in 1..Len(outbox')
                 PROVE  outbox'[i] = RunStart + i - 1
      OBVIOUS
    <3>1. CASE i <= Len(unacked)
      <4>1. i \in 1..Len(unacked) /\ outbox'[i] = unacked[i]
        BY <3>1, <1>3
      <4> QED BY <4>1, <2>1 DEF InvDeques
    <3>2. CASE ~(i <= Len(unacked))
      <4>1. i - Len(unacked) \in 1..Len(outbox)
        BY <3>2, <1>3
      <4>2. outbox'[i] = OutboxStart + (i - Len(unacked)) - 1
        BY <3>2, <4>1, <2>1, <1>3 DEF InvDeques
      <4> QED BY <4>2, <1>3, <1>4 DEF RunStart, OutboxStart, NextSeq
    <3> QED BY <3>1, <3>2
  <2> QED BY <2>1, <2>2, <1>3, <1>4, <1>5 DEF InvDeques
<1>9. c2s[nconn + 1] = <<>> /\ s2c[nconn + 1] = <<>>
  BY <1>1 DEF Inv, InvFrames
<1>10. InvClient'
  BY <1>1, <1>5 DEF Inv, InvClient
<1>11. InvFrames'
  BY <1>1, <1>5 DEF Inv, InvFrames, Taken, Conn
<1>12. InvCur'
  BY <1>1, <1>2, <1>5, <1>9, <1>3, <1>4
  DEF Inv, InvCur, InvClient, Taken, RunStart, OutboxStart, NextSeq
<1>13. InvAcks'
  BY <1>1, <1>9 DEF Inv, InvAcks
<1>14. InvServer'
  <2>1. InvServer /\ connq \in Seq(Conn) /\ backlog \subseteq Conn
    BY DEF Inv, TypeServer
  <2>2. \A i \in 1..Len(connq) : connq[i] \in Int /\ connq[i] <= nconn + 1
    <3>1. \A i \in 1..Len(connq) : connq[i] \in Conn
      BY <2>1, EmptyFacts
    <3> QED BY <3>1, <2>1, <1>1 DEF InvServer, Conn
  <2>3. \A c \in backlog' : c <= nconn + 1
    BY <2>1, <1>1 DEF InvServer, Conn
  <2>4. proc = "serving" => serving \in 1..(nconn + 1) /\ serving # nconn + 1
    BY <2>1, <1>1 DEF InvServer
  <2> QED BY <2>1, <2>2, <2>3, <2>4, <1>1, <1>5 DEF InvServer
<1>15. InvDelivered' /\ InvOrder' /\ InvAccepted'
  BY <1>1, Frames DEF Inv
<1> QED BY <1>6, <1>7, <1>8, <1>10, <1>11, <1>12, <1>13, <1>14, <1>15 DEF Inv

\* A completed write moves the front of the outbox to the wire and to the
\* unacked deque, or past it when it was acked early.
LEMMA WriteFrameStep == ASSUME Inv, WriteFrame PROVE Inv'
<1> USE DEF appVars, procVars, rxVars, srvVars, ends
<1> DEFINE h == Head(outbox)
<1>1. /\ phase = "connected" /\ outbox # <<>> /\ outbox' = Tail(outbox)
      /\ Moved(h)
      /\ c2s' = IF ServerHears(cur)
                  THEN [c2s EXCEPT ![cur] = Append(@, h)] ELSE c2s
      /\ UNCHANGED <<phase, reason, sent, largestAcked, cur, nconn, s2c, queue>>
      /\ UNCHANGED <<ends, posted, txOpen, procVars, rxVars, srvVars, breaks>>
  BY DEF WriteFrame, Selecting
<1>2. /\ outbox \in Seq(Nat) /\ unacked \in Seq(Nat) /\ sent \in Seq(Msg)
      /\ next \in [seq : Nat, ack : Nat] /\ c2s \in [Conn -> Seq(Nat)]
      /\ largestAcked \in Int /\ next.seq \in Nat
  BY DEF Inv, TypeClient, TypeServer, TypeNet
<1>3. /\ outbox' \in Seq(Nat) /\ Len(outbox') = Len(outbox) - 1
      /\ \A i \in 1..Len(outbox') : outbox'[i] = outbox[i + 1]
      /\ h = outbox[1] /\ h \in Nat /\ Len(outbox) \in Nat /\ Len(outbox) >= 1
  BY <1>1, <1>2, TailFacts
<1> HIDE DEF h
<1>4. Len(sent) \in Nat /\ Len(unacked) \in Nat
  BY <1>2, EmptyFacts
<1>5. InvDeques /\ InvClient
  BY DEF Inv
<1>6. /\ NextSeq' = NextSeq /\ NextSeq \in Nat
      /\ OutboxStart' = OutboxStart + 1 /\ OutboxStart \in Int
      /\ RunStart = OutboxStart - Len(unacked)
  BY <1>1, <1>3, <1>4 DEF NextSeq, OutboxStart, RunStart
<1>7. h = OutboxStart /\ h < NextSeq
  BY <1>3, <1>5, <1>6, <1>4 DEF InvDeques, OutboxStart, NextSeq
<1>8. /\ unacked' \in Seq(Nat) /\ Len(unacked') \in Nat
      /\ Len(unacked') <= Len(unacked) + 1
      /\ RunStart' \in Int /\ RunStart' = OutboxStart' - Len(unacked')
      /\ RunStart' <= next.seq
      /\ \A i \in 1..Len(unacked') :
           unacked'[i] = RunStart' + i - 1 /\ unacked'[i] > largestAcked
  <2>1. CASE h <= largestAcked
    <3>1. unacked' = unacked
      BY <1>1, <2>1 DEF Moved, AckedEarly
    <3>2. \A i \in 1..Len(unacked) : unacked[i] = RunStart + i - 1 /\ unacked[i] > largestAcked
      BY <1>5 DEF InvDeques
    <3>3. Len(unacked) = 0
      <4>1. SUFFICES ASSUME Len(unacked) # 0 PROVE FALSE
        OBVIOUS
      <4>2. Len(unacked) \in 1..Len(unacked)
        BY <4>1, <1>4
      <4>3. RunStart + Len(unacked) - 1 > largestAcked
        BY <4>2, <3>2
      <4> QED BY <4>3, <2>1, <1>2, <1>4, <1>6, <1>7
    <3>4. RunStart' = OutboxStart' - Len(unacked')
      BY DEF RunStart
    <3> QED BY <1>2, <1>5, <1>6, <1>7, <2>1, <3>1, <3>3, <3>4 DEF InvClient
  <2>2. CASE ~(h <= largestAcked)
    <3>1. unacked' = Append(unacked, h)
      BY <1>1, <2>2 DEF Moved, AckedEarly
    <3>2. /\ unacked' \in Seq(Nat) /\ Len(unacked') = Len(unacked) + 1
          /\ \A i \in 1..Len(unacked') :
               \/ i \in 1..Len(unacked) /\ unacked'[i] = unacked[i]
               \/ i = Len(unacked) + 1 /\ unacked'[i] = h
      BY <3>1, <1>2, <1>3, AppendFacts
    <3>3. RunStart' = OutboxStart' - Len(unacked')
      BY DEF RunStart
    <3>4. RunStart' = RunStart /\ RunStart \in Int
      BY <3>2, <3>3, <1>4, <1>6
    <3>5. RunStart <= next.seq
      BY <1>1, <1>5 DEF InvClient
    <3>6. \A i \in 1..Len(unacked) : unacked[i] = RunStart + i - 1 /\ unacked[i] > largestAcked
      BY <1>5 DEF InvDeques
    <3>7. \A i \in 1..Len(unacked') :
            unacked'[i] = RunStart' + i - 1 /\ unacked'[i] > largestAcked
      <4>1. h > largestAcked /\ h = RunStart + (Len(unacked) + 1) - 1
        BY <2>2, <1>2, <1>3, <1>4, <1>6, <1>7
      <4> QED BY <4>1, <3>2, <3>4, <3>6
    <3> QED BY <3>2, <3>3, <3>4, <3>5, <3>7, <1>4
  <2> QED BY <2>1, <2>2
<1>9. InvDeques'
  <2>1. Len(outbox') + Len(unacked') <= NextSeq'
    BY <1>3, <1>4, <1>5, <1>6, <1>8 DEF InvDeques
  <2>2. \A i \in 1..Len(outbox') : outbox'[i] = OutboxStart' + i - 1
    <3>1. \A i \in 1..Len(outbox') : i + 1 \in 1..Len(outbox)
      BY <1>3
    <3> QED BY <3>1, <1>3, <1>5, <1>6 DEF InvDeques
  <2> QED BY <2>1, <2>2, <1>1, <1>8 DEF InvDeques
<1>10. InvClient'
  BY <1>1, <1>5, <1>8 DEF InvClient
<1>11. cur \in Conn
  BY <1>1, <1>5, ConstantAssumption DEF Inv, InvClient, TypeNet, Conn
<1>12. /\ outcome' \in [Msg -> {"pending", "accepted", "rejected", "dropped"}]
       /\ \A m \in Msg : outcome'[m] = "accepted" =>
            outcome[m] = "accepted" \/ (h <= largestAcked /\ m = sent[h + 1])
  <2>1. outcome \in [Msg -> {"pending", "accepted", "rejected", "dropped"}]
    BY DEF Inv, TypeClient
  <2>2. \/ outcome' = outcome
        \/ /\ h <= largestAcked
           /\ outcome' = [m \in Msg |-> IF m \in {sent[h + 1]} THEN "accepted"
                                                           ELSE outcome[m]]
    BY <1>1 DEF Moved, AckedEarly, Resolve
  <2>3. CASE outcome' = outcome
    BY <2>1, <2>3
  <2>4. CASE outcome' # outcome
    <3> DEFINE e == sent[h + 1]
    <3>1. /\ h <= largestAcked
          /\ outcome' = [m \in Msg |-> IF m \in {e} THEN "accepted"
                                                    ELSE outcome[m]]
      BY <2>2, <2>4
    <3> HIDE DEF e
    <3>2. /\ outcome' \in [Msg -> {"pending", "accepted", "rejected", "dropped"}]
          /\ \A m \in Msg : outcome'[m] = "accepted" =>
               outcome[m] = "accepted" \/ m = e
      BY <2>1, <3>1
    <3> QED BY <3>1, <3>2 DEF e
  <2> QED BY <2>3, <2>4
<1>13. TypeClient' /\ TypeServer'
  BY <1>1, <1>3, <1>8, <1>12 DEF Inv, TypeClient, TypeServer
<1>14. c2s[cur] \in Seq(Nat)
  BY <1>2, <1>11
<1>15. InvFrames /\ InvCur
  BY DEF Inv
<1>16. /\ Append(c2s[cur], h) \in Seq(Nat) /\ Append(c2s[cur], h) # <<>>
       /\ ServerHears(cur) =>
            /\ Append(c2s[cur], h)[1] = IF c2s[cur] = <<>> THEN h ELSE c2s[cur][1]
            /\ Append(c2s[cur], h)[1] + Len(Append(c2s[cur], h)) = h + 1
            /\ Consecutive(Append(c2s[cur], h), NextSeq)
  <2>1. ServerHears(cur) /\ c2s[cur] # <<>> => c2s[cur][1] + Len(c2s[cur]) = h
    BY <1>1, <1>7, <1>15 DEF InvCur
  <2>2. Consecutive(c2s[cur], NextSeq)
    BY <1>11, <1>15 DEF InvFrames
  <2>3. h \in Nat
    BY <1>3
  <2> QED BY <2>1, <2>2, <2>3, <1>6, <1>7, <1>14, ConsecutiveAppend, AppendFacts
<1>17. TypeNet'
  <2>1. c2s' \in [Conn -> Seq(Nat)]
    BY <1>1, <1>2, <1>11, <1>16
  <2> QED BY <2>1, <1>1 DEF Inv, TypeNet
<1>18. /\ InvFrames' /\ InvCur'
  <2>1. CASE ~ServerHears(cur)
    <3>1. c2s' = c2s /\ ~ServerHears(cur)'
      BY <1>1, <2>1 DEF ServerHears
    <3> QED BY <1>1, <3>1, <1>15, Frames DEF InvCur
  <2>2. CASE ServerHears(cur)
    <3> DEFINE t == Append(c2s[cur], h)
    <3>1. c2s'[cur] = t /\ \A c \in Conn : c # cur => c2s'[c] = c2s[c]
      BY <1>1, <1>2, <1>11, <2>2
    <3>2. t # <<>> /\ t[1] + Len(t) = h + 1 /\ Consecutive(t, NextSeq)
      BY <1>16, <2>2
    <3>3. t[1] <= Taken(cur)
      BY <1>1, <1>7, <1>11, <1>15, <1>16, <2>2 DEF InvCur, InvFrames
    <3> HIDE DEF t
    <3>4. cur <= nconn /\ \A c \in Conn : Taken(c)' = Taken(c)
      BY <1>1, <1>5 DEF InvClient, Taken
    <3>5. InvCur'
      BY <1>1, <1>6, <1>7, <3>1, <3>2 DEF InvCur
    <3>6. ASSUME NEW c \in Conn
          PROVE  /\ Consecutive(c2s'[c], NextSeq)
                 /\ c2s'[c] # <<>> => c2s'[c][1] <= Taken(c)
                 /\ c > nconn => /\ c2s'[c] = <<>> /\ s2c[c] = <<>>
                                 /\ c \notin intact
      <4>1. CASE c = cur
        <5>1. nconn \in Nat /\ cur \in Nat
          BY <1>11, ConstantAssumption DEF Inv, TypeNet, Conn
        <5> QED BY <4>1, <5>1, <3>1, <3>2, <3>3, <3>4
      <4>2. CASE c # cur
        BY <4>2, <3>1, <1>15 DEF InvFrames
      <4> QED BY <4>1, <4>2
    <3>7. InvFrames'
      BY <3>4, <3>6, <1>1, <1>6 DEF InvFrames
    <3> QED BY <3>5, <3>7
  <2> QED BY <2>1, <2>2
<1>19. InvAccepted'
  <2>1. h <= largestAcked => sent[h + 1] \in everDelivered
    BY <1>2, <1>3, <1>5 DEF Inv, InvDelivered, InvClient
  <2> QED BY <2>1, <1>1, <1>12 DEF Inv, InvAccepted, AcceptedWasDelivered
<1>20. InvAcks' /\ InvServer' /\ InvDelivered' /\ InvOrder'
  BY <1>1, Frames DEF Inv
<1> QED BY <1>9, <1>10, <1>13, <1>17, <1>18, <1>19, <1>20 DEF Inv

\* An ack that is read prunes the deque; it never fires the assertion.
LEMMA ReadAckStep == ASSUME Inv, ReadAck PROVE Inv'
<1> USE DEF appVars, procVars, rxVars, srvVars, ends
<1> DEFINE a == Head(s2c[cur]).seq
<1>1. phase = "connected" /\ s2c[cur] # <<>>
  BY DEF ReadAck, Selecting
<1>2. /\ cur \in Conn /\ s2c \in [Conn -> Seq(Response)]
      /\ s2c[cur] \in Seq(Response)
  BY <1>1, ConstantAssumption DEF Inv, InvClient, TypeNet, Conn
<1>3. /\ Tail(s2c[cur]) \in Seq(Response)
      /\ Len(Tail(s2c[cur])) = Len(s2c[cur]) - 1
      /\ \A i \in 1..Len(Tail(s2c[cur])) : Tail(s2c[cur])[i] = s2c[cur][i + 1]
      /\ Head(s2c[cur]) = s2c[cur][1] /\ Head(s2c[cur]) \in Response
      /\ Len(s2c[cur]) \in Nat /\ Len(s2c[cur]) >= 1
  BY <1>1, <1>2, TailFacts
<1>4. /\ a \in Nat /\ a < next.seq /\ largestAcked <= a
      /\ pendingAck # 0 /\ cur = serving => a < pendingAck
  BY <1>2, <1>3 DEF Inv, InvAcks, Response
<1>5. /\ Prune(a) /\ s2c' = [s2c EXCEPT ![cur] = Tail(@)]
      /\ UNCHANGED <<phase, reason, sent, outbox, queue, cur, nconn, c2s>>
      /\ UNCHANGED <<ends, posted, txOpen, procVars, rxVars, srvVars, breaks>>
  BY <1>4 DEF ReadAck, AckInOrder
<1> HIDE DEF a
<1>6. PICK n \in 0..Len(unacked) :
        /\ \A i \in 1..n : unacked[i] <= a
        /\ n < Len(unacked) => unacked[n + 1] > a
        /\ unacked' = SubSeq(unacked, n + 1, Len(unacked))
        /\ outcome' = Resolve({sent[unacked[i] + 1] : i \in 1..n}, "accepted")
  BY <1>5 DEF Prune
<1>7. /\ largestAcked' = a /\ unacked \in Seq(Nat) /\ sent \in Seq(Msg)
      /\ outbox \in Seq(Nat) /\ next \in [seq : Nat, ack : Nat]
      /\ Len(unacked) \in Nat /\ Len(sent) \in Nat /\ Len(outbox) \in Nat
      /\ next.seq \in Nat /\ n \in Nat /\ n <= Len(unacked)
  BY <1>5, <1>6 DEF Prune, Inv, TypeClient, TypeServer
<1>8. /\ unacked' \in Seq(Nat) /\ Len(unacked') = Len(unacked) - n
      /\ \A i \in 1..Len(unacked') : unacked'[i] = unacked[n + i]
  BY <1>6, <1>7, SMTT(30)
<1>9. InvDeques /\ InvClient
  BY DEF Inv
<1>10. \A i \in 1..Len(unacked) : unacked[i] = RunStart + i - 1
  BY <1>9 DEF InvDeques
<1>11. /\ NextSeq' = NextSeq /\ OutboxStart' = OutboxStart
       /\ RunStart' = RunStart + n /\ RunStart \in Int
  BY <1>5, <1>7, <1>8 DEF NextSeq, OutboxStart, RunStart
<1>12. RunStart + n <= next.seq
  <2>1. CASE n = 0
    BY <2>1, <1>1, <1>9, <1>11 DEF InvClient
  <2>2. CASE n # 0
    <3>1. n \in 1..n /\ n \in 1..Len(unacked)
      BY <2>2, <1>7
    <3>2. unacked[n] <= a /\ unacked[n] = RunStart + n - 1
      BY <3>1, <1>6, <1>10
    <3> QED BY <3>2, <1>4, <1>7, <1>11
  <2> QED BY <2>1, <2>2
<1>13. InvClient'
  BY <1>4, <1>5, <1>7, <1>9, <1>11, <1>12 DEF InvClient
<1>14. InvDeques'
  <2>1. \A i \in 1..Len(unacked') : n + i \in 1..Len(unacked)
    BY <1>7, <1>8
  <2>2. \A i \in 1..Len(unacked') : unacked'[i] = (RunStart + n) + i - 1
    BY <2>1, <1>7, <1>8, <1>10, <1>11
  <2>3. Len(unacked') # 0 => n + 1 \in 1..Len(unacked) /\ RunStart + n > a
    BY <1>6, <1>7, <1>8, <1>10, <1>11
  <2>4. \A i \in 1..Len(unacked') : unacked'[i] > a
    <3> SUFFICES ASSUME NEW i \in 1..Len(unacked') PROVE unacked'[i] > a
      OBVIOUS
    <3>1. RunStart + n > a /\ unacked'[i] = (RunStart + n) + i - 1
      BY <2>2, <2>3, <1>7, <1>8, SMTT(30)
    <3> QED BY <3>1, <1>4, <1>7, <1>11
  <2>5. Len(outbox) + Len(unacked') <= NextSeq
    BY <1>7, <1>8, <1>9 DEF InvDeques, NextSeq
  <2> QED BY <2>2, <2>4, <2>5, <1>5, <1>7, <1>9, <1>11 DEF InvDeques
<1>15. /\ outcome' \in [Msg -> {"pending", "accepted", "rejected", "dropped"}]
       /\ \A m \in Msg : outcome'[m] = "accepted" =>
            outcome[m] = "accepted" \/ m \in {sent[unacked[i] + 1] : i \in 1..n}
  BY <1>6 DEF Inv, TypeClient, Resolve
<1>16. \A i \in 1..n : sent[unacked[i] + 1] \in everDelivered
  <2> SUFFICES ASSUME NEW i \in 1..n PROVE sent[unacked[i] + 1] \in everDelivered
    OBVIOUS
  <2>1. unacked[i] \in Nat /\ unacked[i] < next.seq
    BY <1>4, <1>6, <1>7, EmptyFacts, SMTT(30)
  <2> QED BY <2>1, <1>7 DEF Inv, InvDelivered
<1>17. InvAccepted'
  BY <1>5, <1>15, <1>16 DEF Inv, InvAccepted, AcceptedWasDelivered
<1>18. TypeClient' /\ TypeServer'
  BY <1>4, <1>5, <1>7, <1>8, <1>15 DEF Inv, TypeClient, TypeServer
<1>19. /\ s2c' \in [Conn -> Seq(Response)] /\ s2c'[cur] = Tail(s2c[cur])
       /\ \A c \in Conn : c # cur => s2c'[c] = s2c[c]
  BY <1>2, <1>3, <1>5
<1>20. TypeNet'
  BY <1>5, <1>19 DEF Inv, TypeNet
<1>21. InvFrames'
  <2>1. \A c \in Conn : s2c[c] = <<>> => s2c'[c] = <<>>
    BY <1>1, <1>19
  <2> QED BY <2>1, <1>5, <1>11 DEF Inv, InvFrames, Taken
<1>22. InvAcks'
  <2> SUFFICES ASSUME NEW c \in Conn
        PROVE /\ \A i \in 1..Len(s2c'[c]) :
                   /\ s2c'[c][i].type = "ack" /\ s2c'[c][i].seq < next.seq
                   /\ c = cur => a <= s2c'[c][i].seq
                   /\ pendingAck # 0 /\ c = serving => s2c'[c][i].seq < pendingAck
              /\ \A i, j \in 1..Len(s2c'[c]) :
                   i <= j => s2c'[c][i].seq <= s2c'[c][j].seq
    BY <1>5, <1>7 DEF InvAcks
  <2>1. InvAcks
    BY DEF Inv
  <2>2. CASE c # cur
    BY <2>1, <2>2, <1>19 DEF InvAcks
  <2>3. CASE c = cur
    <3>1. \A i \in 1..Len(s2c'[c]) :
            /\ i + 1 \in 1..Len(s2c[c]) /\ 1 \in 1..Len(s2c[c])
            /\ s2c'[c][i] = s2c[c][i + 1]
      BY <2>3, <1>3, <1>19
    <3>2. a = s2c[c][1].seq
      BY <2>3, <1>3 DEF a
    <3>3. \A i, j \in 1..Len(s2c[c]) : i <= j => s2c[c][i].seq <= s2c[c][j].seq
      BY <2>1 DEF InvAcks
    <3>4. \A i \in 1..Len(s2c'[c]) : a <= s2c'[c][i].seq
      BY <3>1, <3>2, <3>3, SMTT(30)
    <3>5. \A i, j \in 1..Len(s2c'[c]) : i <= j => s2c'[c][i].seq <= s2c'[c][j].seq
      <4> SUFFICES ASSUME NEW i \in 1..Len(s2c'[c]), NEW j \in 1..Len(s2c'[c]),
                          i <= j
                   PROVE  s2c'[c][i].seq <= s2c'[c][j].seq
        OBVIOUS
      <4>1. /\ i + 1 \in 1..Len(s2c[c]) /\ j + 1 \in 1..Len(s2c[c])
            /\ i + 1 <= j + 1
            /\ s2c'[c][i] = s2c[c][i + 1] /\ s2c'[c][j] = s2c[c][j + 1]
        BY <3>1
      <4> QED BY <4>1, <3>3
    <3> QED BY <2>1, <3>1, <3>4, <3>5 DEF InvAcks
  <2> QED BY <2>2, <2>3
<1>23. InvServer'
  BY <1>4, <1>5, <1>7, <1>11 DEF Inv, InvServer
<1>24. InvCur' /\ InvDelivered' /\ InvOrder'
  BY <1>5, Frames DEF Inv
<1> QED BY <1>13, <1>14, <1>17, <1>18, <1>20, <1>21, <1>22, <1>23, <1>24 DEF Inv

\* A connection that breaks loses the end of what is in flight.
LEMMA BreakStep == ASSUME Inv, NEW c \in Conn, Break(c) PROVE Inv'
<1> USE DEF appVars, clientVars, procVars, rxVars, srvVars
<1>1. /\ c \in intact /\ intact' = intact \ {c} /\ breaks' = breaks + 1
      /\ UNCHANGED <<cur, nconn, clientEnd, serverEnd, outcome, queue>>
      /\ UNCHANGED <<posted, txOpen, clientVars, procVars, rxVars, srvVars>>
  BY DEF Break
<1>2. /\ c2s \in [Conn -> Seq(Nat)] /\ s2c \in [Conn -> Seq(Response)]
      /\ c2s[c] \in Seq(Nat) /\ s2c[c] \in Seq(Response) /\ NextSeq \in Nat
  BY EmptyFacts DEF Inv, TypeNet, TypeClient, NextSeq
<1>3. PICK i \in 0..Len(c2s[c]), j \in 0..Len(s2c[c]) :
        /\ c2s' = [c2s EXCEPT ![c] = SubSeq(@, 1, i)]
        /\ s2c' = [s2c EXCEPT ![c] = SubSeq(@, 1, j)]
  BY DEF Break
<1>4. Consecutive(c2s[c], NextSeq)
  BY DEF Inv, InvFrames
<1>5. /\ c2s'[c] \in Seq(Nat) /\ Consecutive(c2s'[c], NextSeq)
      /\ c2s'[c] # <<>> => c2s[c] # <<>> /\ c2s'[c][1] = c2s[c][1]
      /\ \A d \in Conn : d # c => c2s'[d] = c2s[d]
  BY <1>2, <1>3, <1>4, ConsecutivePrefix
<1>6. /\ s2c'[c] \in Seq(Response) /\ Len(s2c'[c]) = j /\ j <= Len(s2c[c])
      /\ Len(s2c[c]) \in Nat /\ j \in Nat
      /\ \A k \in 1..j : s2c'[c][k] = s2c[c][k]
      /\ \A d \in Conn : d # c => s2c'[d] = s2c[d]
  BY <1>2, <1>3
<1>7. c2s' \in [Conn -> Seq(Nat)] /\ s2c' \in [Conn -> Seq(Response)]
  BY <1>2, <1>3, <1>5, <1>6
<1>8. TypeClient' /\ TypeNet' /\ TypeServer'
  BY <1>1, <1>7 DEF Inv, TypeClient, TypeNet, TypeServer
<1>9. NextSeq' = NextSeq /\ \A d \in Conn : Taken(d)' = Taken(d)
  BY <1>1 DEF NextSeq, Taken
<1>10. InvFrames'
  <2>1. InvFrames
    BY DEF Inv
  <2>2. c <= nconn
    BY <2>1, <1>1, ConstantAssumption DEF InvFrames, Inv, TypeNet, Conn
  <2> SUFFICES ASSUME NEW d \in Conn
        PROVE /\ Consecutive(c2s'[d], NextSeq)
              /\ c2s'[d] # <<>> => c2s'[d][1] <= Taken(d)
              /\ d > nconn => /\ c2s'[d] = <<>> /\ s2c'[d] = <<>>
                              /\ d \notin intact'
    BY <1>1, <1>9 DEF InvFrames
  <2>3. CASE d = c
    <3>1. ~(d > nconn)
      BY <2>2, <2>3, ConstantAssumption DEF Inv, TypeNet, Conn
    <3> QED BY <2>1, <2>3, <3>1, <1>5 DEF InvFrames
  <2>4. CASE d # c
    BY <2>1, <2>4, <1>1, <1>5, <1>6 DEF InvFrames
  <2> QED BY <2>3, <2>4
<1>11. InvCur'
  <2>1. OutboxStart' = OutboxStart
    BY <1>1 DEF OutboxStart, NextSeq
  <2>2. ServerHears(cur)' => cur # c /\ cur \in Conn /\ ServerHears(cur)
    BY <1>1 DEF ServerHears, Inv, TypeNet
  <2> QED BY <2>1, <2>2, <1>1, <1>5, <1>9 DEF Inv, InvCur
<1>12. InvAcks'
  <2>1. \A d \in Conn : \A k \in 1..Len(s2c'[d]) :
          k \in 1..Len(s2c[d]) /\ s2c'[d][k] = s2c[d][k]
    BY <1>6
  <2>2. InvAcks /\ UNCHANGED <<next, cur, largestAcked, pendingAck, serving>>
    BY <1>1 DEF Inv
  <2>3. \A d \in Conn : \A k \in 1..Len(s2c'[d]) :
          /\ s2c'[d][k].type = "ack" /\ s2c'[d][k].seq < next.seq
          /\ d = cur => largestAcked <= s2c'[d][k].seq
          /\ pendingAck # 0 /\ d = serving => s2c'[d][k].seq < pendingAck
    <3> SUFFICES ASSUME NEW d \in Conn, NEW k \in 1..Len(s2c'[d])
                 PROVE  /\ s2c[d][k].type = "ack" /\ s2c[d][k].seq < next.seq
                        /\ d = cur => largestAcked <= s2c[d][k].seq
                        /\ pendingAck # 0 /\ d = serving => s2c[d][k].seq < pendingAck
      BY <2>1
    <3>1. k \in 1..Len(s2c[d])
      BY <2>1
    <3> QED BY <2>2, <3>1 DEF InvAcks
  <2>4. \A d \in Conn : \A k, l \in 1..Len(s2c'[d]) :
          k <= l => s2c'[d][k].seq <= s2c'[d][l].seq
    BY <2>1, <2>2 DEF InvAcks
  <2> QED BY <2>2, <2>3, <2>4 DEF InvAcks
<1>13. InvDeques' /\ InvClient' /\ InvServer' /\ InvDelivered' /\ InvOrder' /\ InvAccepted'
  BY <1>1, Frames DEF Inv
<1> QED BY <1>8, <1>10, <1>11, <1>12, <1>13 DEF Inv

-----------------------------------------------------------------------------
(* The server's steps.                                                     *)

\* A dispatched connection keeps the counters of the session's task.
LEMMA DispatchStep == ASSUME Inv, NEW c \in Conn, Dispatch(c) PROVE Inv'
<1> USE DEF appVars, clientVars, netVars, ends, procVars, rxVars, srvVars
<1>1. /\ c \in backlog /\ backlog' = backlog \ {c}
      /\ UNCHANGED <<serving, pendingAck, held, rxOpen, cancelled, listening>>
      /\ UNCHANGED <<appVars, clientVars, netVars, rxVars, outcome, queue, breaks>>
      /\ \/ proc = "none" /\ proc' = "waiting" /\ connq' = <<c>>
         \/ proc # "none" /\ proc' = proc /\ connq' = Append(connq, c)
  BY DEF Dispatch
<1>2. next' = next
  BY DEF Dispatch, NextAtDispatch, Inv, InvServer, TypeServer
<1>3. c <= nconn /\ connq \in Seq(Conn) /\ proc \in {"none", "waiting", "serving"}
  BY <1>1 DEF Inv, InvServer, TypeServer
<1>4. /\ connq' \in Seq(Conn)
      /\ \A i \in 1..Len(connq') : connq'[i] <= nconn
  <2>1. CASE connq' = <<c>>
    BY <1>3, <2>1
  <2>2. CASE connq' = Append(connq, c)
    <3>1. /\ connq' \in Seq(Conn) /\ Len(connq') = Len(connq) + 1
          /\ \A i \in 1..Len(connq') :
               \/ i \in 1..Len(connq) /\ connq'[i] = connq[i]
               \/ i = Len(connq) + 1 /\ connq'[i] = c
      BY <1>3, <2>2, AppendFacts
    <3> QED BY <1>3, <3>1 DEF Inv, InvServer
  <2> QED BY <1>1, <2>1, <2>2
<1>5. TypeClient' /\ TypeNet'
  BY <1>1 DEF Inv, TypeClient, TypeNet
<1>6. TypeServer'
  BY <1>1, <1>2, <1>4 DEF Inv, TypeServer
<1>7. InvServer'
  BY <1>1, <1>2, <1>3, <1>4 DEF Inv, InvServer, NextSeq
<1>8. /\ InvDeques' /\ InvClient' /\ InvFrames' /\ InvCur' /\ InvAcks'
      /\ InvDelivered' /\ InvOrder' /\ InvAccepted'
  BY <1>1, <1>2, Frames DEF Inv
<1> QED BY <1>5, <1>6, <1>7, <1>8 DEF Inv

\* Taking up a connection preserves the invariant: whatever its order, its
\* first frame is not ahead.
LEMMA ServeNextStep == ASSUME Inv, ServeNext PROVE Inv'
<1> USE DEF appVars, clientVars, netVars, ends, procVars, rxVars, srvVars
<1>1. /\ proc = "waiting" /\ connq # <<>> /\ proc' = "serving"
      /\ serving' = Head(connq) /\ connq' = Tail(connq)
      /\ UNCHANGED <<next, pendingAck, held, outcome, queue, breaks>>
      /\ UNCHANGED <<appVars, clientVars, netVars, rxVars, srvVars>>
  BY DEF ServeNext
<1>2. /\ connq \in Seq(Conn) /\ nconn \in 0..MaxConns
      /\ held = -1 /\ pendingAck = 0
  BY <1>1 DEF Inv, TypeNet, TypeServer, InvServer
<1>3. /\ connq' \in Seq(Conn) /\ Len(connq') = Len(connq) - 1
      /\ \A i \in 1..Len(connq') : connq'[i] = connq[i + 1]
      /\ Head(connq) = connq[1] /\ Head(connq) \in Conn
      /\ Len(connq) \in Nat /\ Len(connq) >= 1
  BY <1>1, <1>2, TailFacts
<1>4. /\ \A i \in 1..Len(connq') : connq'[i] <= nconn
      /\ serving' \in 1..nconn /\ serving' \in 0..MaxConns
  BY <1>1, <1>2, <1>3, ConstantAssumption DEF Inv, InvServer, Conn
<1>5. TypeClient' /\ TypeNet'
  BY <1>1 DEF Inv, TypeClient, TypeNet
<1>6. TypeServer'
  BY <1>1, <1>3, <1>4 DEF Inv, TypeServer
<1>7. InvServer'
  BY <1>1, <1>2, <1>4 DEF Inv, InvServer, NextSeq
<1>8. InvFrames' /\ InvCur' /\ InvAcks'
  BY <1>1, <1>2
  DEF Inv, InvFrames, InvCur, InvAcks, Taken, NextSeq, OutboxStart, ServerHears
<1>9. InvDeques' /\ InvClient' /\ InvDelivered' /\ InvOrder' /\ InvAccepted'
  BY <1>1, Frames DEF Inv
<1> QED BY <1>5, <1>6, <1>7, <1>8, <1>9 DEF Inv

\* An ack that is begun is above every ack written on the connection.
LEMMA BeginAckStep == ASSUME Inv, BeginAck PROVE Inv'
<1> USE DEF appVars, clientVars, netVars, ends, procVars, rxVars, srvVars
<1>1. /\ proc = "serving" /\ pendingAck' = next.seq
      /\ UNCHANGED <<proc, connq, serving, next, held, outcome, queue, breaks>>
      /\ UNCHANGED <<appVars, clientVars, netVars, rxVars, srvVars>>
  BY DEF BeginAck
<1>2. TypeClient' /\ TypeNet' /\ TypeServer'
  BY <1>1 DEF Inv, TypeClient, TypeNet, TypeServer
<1>3. InvServer'
  BY <1>1 DEF Inv, InvServer, InvClient, TypeServer, NextSeq
<1>4. InvAcks'
  BY <1>1 DEF Inv, InvAcks
<1>5. /\ InvDeques' /\ InvClient' /\ InvFrames' /\ InvCur' /\ InvDelivered'
      /\ InvOrder' /\ InvAccepted'
  BY <1>1, Frames DEF Inv
<1> QED BY <1>2, <1>3, <1>4, <1>5 DEF Inv

\* A response that is written keeps the acks of its connection ascending.
LEMMA AckAppended ==
  ASSUME Inv, NEW a \in Nat, a < next.seq, serving \in Conn,
         serving = cur => largestAcked <= a,
         \A i \in 1..Len(s2c[serving]) : s2c[serving][i].seq <= a,
         \/ s2c' = s2c
         \/ s2c' = [s2c EXCEPT ![serving] = Append(@, Ack(a))],
         pendingAck' = 0, UNCHANGED <<cur, largestAcked>>,
         next'.seq = next.seq
  PROVE  s2c' \in [Conn -> Seq(Response)] /\ InvAcks'
<1>1. /\ s2c \in [Conn -> Seq(Response)] /\ s2c[serving] \in Seq(Response)
      /\ InvAcks
  BY DEF Inv, TypeNet
<1>2. CASE s2c' = s2c
  BY <1>1, <1>2 DEF InvAcks
<1>3. CASE s2c' = [s2c EXCEPT ![serving] = Append(@, Ack(a))]
  <2> DEFINE q == s2c[serving]
             t == Append(q, Ack(a))
  <2>1. Ack(a) \in Response
    BY DEF Ack, Response
  <2>2. /\ t \in Seq(Response) /\ Len(t) = Len(q) + 1 /\ Len(q) \in Nat
        /\ \A i \in 1..Len(t) : \/ i \in 1..Len(q) /\ t[i] = q[i]
                                \/ i = Len(q) + 1 /\ t[i] = Ack(a)
    BY <1>1, <2>1, AppendFacts
  <2>3. Ack(a).type = "ack" /\ Ack(a).seq = a
    BY DEF Ack
  <2> HIDE DEF t
  <2>4. /\ s2c' \in [Conn -> Seq(Response)] /\ s2c'[serving] = t
        /\ \A c \in Conn : c # serving => s2c'[c] = s2c[c]
    BY <1>1, <1>3, <2>2 DEF t
  <2>5. /\ \A i \in 1..Len(q) : /\ q[i].type = "ack" /\ q[i].seq < next.seq
                                /\ serving = cur => largestAcked <= q[i].seq
                                /\ q[i].seq <= a
        /\ \A i, j \in 1..Len(q) : i <= j => q[i].seq <= q[j].seq
    BY <1>1 DEF InvAcks
  <2> HIDE DEF q
  <2>6. \A i \in 1..Len(t) : /\ t[i].type = "ack" /\ t[i].seq < next.seq
                             /\ serving = cur => largestAcked <= t[i].seq
    BY <2>2, <2>3, <2>5
  <2>7. \A i, j \in 1..Len(t) : i <= j => t[i].seq <= t[j].seq
    BY <2>2, <2>3, <2>5
  <2>8. InvAcks'
    <3> SUFFICES ASSUME NEW c \in Conn
          PROVE /\ \A i \in 1..Len(s2c'[c]) :
                     /\ s2c'[c][i].type = "ack" /\ s2c'[c][i].seq < next.seq
                     /\ c = cur => largestAcked <= s2c'[c][i].seq
                /\ \A i, j \in 1..Len(s2c'[c]) :
                     i <= j => s2c'[c][i].seq <= s2c'[c][j].seq
      BY DEF InvAcks
    <3>1. CASE c = serving
      BY <3>1, <2>4, <2>6, <2>7
    <3>2. CASE c # serving
      BY <3>2, <1>1, <2>4 DEF InvAcks
    <3> QED BY <3>1, <3>2
  <2> QED BY <2>4, <2>8
<1> QED BY <1>2, <1>3

\* A pending ack that is written preserves the invariant.
LEMMA AckWrittenStep == ASSUME Inv, AckWritten PROVE Inv'
<1> USE DEF appVars, clientVars, netVars, ends, procVars, rxVars, srvVars
<1>1. /\ proc = "serving" /\ pendingAck # 0 /\ pendingAck' = 0
      /\ next' = [next EXCEPT !.ack = pendingAck]
      /\ UNCHANGED <<proc, connq, serving, held, cur, nconn, ends, c2s>>
      /\ UNCHANGED <<appVars, clientVars, rxVars, srvVars, outcome, queue, breaks>>
      /\ \/ s2c' = s2c
         \/ s2c' = [s2c EXCEPT ![serving] = Append(@, Ack(pendingAck - 1))]
  BY DEF AckWritten, AckValue
<1>2. /\ pendingAck \in Nat /\ next \in [seq : Nat, ack : Nat]
      /\ pendingAck <= next.seq /\ serving \in Conn
      /\ serving = cur => largestAcked < pendingAck
      /\ largestAcked \in Int
  BY <1>1, ConstantAssumption
  DEF Inv, InvServer, TypeClient, TypeServer, TypeNet, Conn
<1>3. next' \in [seq : Nat, ack : Nat] /\ next'.seq = next.seq
  BY <1>1, <1>2
<1>4. \A i \in 1..Len(s2c[serving]) : s2c[serving][i].seq <= pendingAck - 1
  <2>1. \A i \in 1..Len(s2c[serving]) : s2c[serving][i] \in Response
    BY <1>2, EmptyFacts DEF Inv, TypeNet
  <2> QED BY <2>1, <1>1, <1>2 DEF Inv, InvAcks, Response
<1>5. s2c' \in [Conn -> Seq(Response)] /\ InvAcks'
  <2>1. pendingAck - 1 \in Nat /\ pendingAck - 1 < next.seq
    BY <1>1, <1>2
  <2>2. serving = cur => largestAcked <= pendingAck - 1
    BY <1>2
  <2> QED BY <2>1, <2>2, <1>1, <1>2, <1>3, <1>4, AckAppended
<1>6. TypeClient' /\ TypeNet'
  BY <1>1, <1>5 DEF Inv, TypeClient, TypeNet
<1>7. TypeServer'
  BY <1>1, <1>3 DEF Inv, TypeServer
<1>8. InvClient' /\ InvServer' /\ InvDelivered' /\ InvCur'
  BY <1>1, <1>3
  DEF Inv, InvClient, InvServer, InvDelivered, InvCur, Taken, OutboxStart,
      RunStart, NextSeq, ServerHears
<1>9. InvFrames'
  <2>1. \A c \in Conn : c > nconn => s2c'[c] = s2c[c]
    BY <1>1, ConstantAssumption DEF Inv, InvServer, TypeNet, Conn
  <2> QED BY <2>1, <1>1, <1>3 DEF Inv, InvFrames, Taken, NextSeq
<1>10. InvDeques' /\ InvOrder' /\ InvAccepted'
  BY <1>1, Frames DEF Inv
<1> QED BY <1>5, <1>6, <1>7, <1>8, <1>9, <1>10 DEF Inv

\* What reading the first frame of the served connection leaves behind.
LEMMA ReadFacts ==
  ASSUME Inv, Reading, c2s' = [c2s EXCEPT ![serving] = Tail(@)]
  PROVE  /\ serving \in Conn /\ c2s[serving] \in Seq(Nat) /\ held = -1
         /\ c2s[serving] # <<>> /\ c2s' \in [Conn -> Seq(Nat)]
         /\ c2s'[serving] \in Seq(Nat) /\ Consecutive(c2s'[serving], NextSeq)
         /\ Len(c2s'[serving]) = Len(c2s[serving]) - 1
         /\ Len(c2s[serving]) \in Nat /\ NextSeq \in Nat
         /\ c2s'[serving] # <<>> => c2s'[serving][1] = c2s[serving][1] + 1
         /\ Head(c2s[serving]) = c2s[serving][1] /\ c2s[serving][1] \in Nat
         /\ c2s[serving][1] < NextSeq /\ c2s[serving][1] <= next.seq
         /\ \A c \in Conn : c # serving => c2s'[c] = c2s[c]
<1>1. proc = "serving" /\ held = -1 /\ c2s[serving] # <<>>
  BY DEF Reading
<1>2. /\ serving \in Conn /\ c2s \in [Conn -> Seq(Nat)]
      /\ c2s[serving] \in Seq(Nat)
  BY <1>1, ConstantAssumption DEF Inv, InvServer, TypeNet, Conn
<1>3. NextSeq \in Nat
  BY EmptyFacts DEF Inv, TypeClient, NextSeq
<1>4. Consecutive(c2s[serving], NextSeq) /\ c2s[serving][1] <= next.seq
  BY <1>1, <1>2 DEF Inv, InvFrames, Taken
<1>5. /\ Tail(c2s[serving]) \in Seq(Nat)
      /\ Consecutive(Tail(c2s[serving]), NextSeq)
      /\ Len(Tail(c2s[serving])) = Len(c2s[serving]) - 1
      /\ Len(c2s[serving]) \in Nat
      /\ Tail(c2s[serving]) # <<>> => Tail(c2s[serving])[1] = c2s[serving][1] + 1
      /\ Head(c2s[serving]) = c2s[serving][1] /\ c2s[serving][1] \in Nat
      /\ c2s[serving][1] < NextSeq
  BY <1>1, <1>2, <1>3, <1>4, ConsecutiveTail
<1>6. /\ c2s'[serving] = Tail(c2s[serving]) /\ c2s' \in [Conn -> Seq(Nat)]
      /\ \A c \in Conn : c # serving => c2s'[c] = c2s[c]
  BY <1>2, <1>5
<1> QED BY <1>1, <1>2, <1>3, <1>4, <1>5, <1>6

\* Reading a frame keeps the connection's place, if the server has then taken
\* everything up to it.
LEMMA ReadKeepsPlace ==
  ASSUME Inv, Reading, c2s' = [c2s EXCEPT ![serving] = Tail(@)],
         UNCHANGED <<serving, next, sent, outbox, phase, cur, nconn, s2c,
                     intact, serverEnd>>,
         held' = -1 \/ held' = next.seq,
         c2s[serving][1] + 1 <= Taken(serving)'
  PROVE  InvFrames' /\ InvCur'
<1>1. /\ serving \in Conn /\ c2s[serving] \in Seq(Nat) /\ held = -1
      /\ c2s[serving] # <<>> /\ Consecutive(c2s'[serving], NextSeq)
      /\ c2s'[serving] \in Seq(Nat)
      /\ Len(c2s'[serving]) = Len(c2s[serving]) - 1
      /\ Len(c2s[serving]) \in Nat /\ NextSeq \in Nat
      /\ c2s'[serving] # <<>> => c2s'[serving][1] = c2s[serving][1] + 1
      /\ c2s[serving][1] \in Nat
      /\ \A c \in Conn : c # serving => c2s'[c] = c2s[c]
  BY ReadFacts
<1>2. /\ NextSeq' = NextSeq /\ OutboxStart' = OutboxStart
      /\ \A c \in Conn : c # serving => Taken(c)' = Taken(c)
      /\ next.seq \in Nat /\ \A c : ServerHears(c)' = ServerHears(c)
  BY DEF NextSeq, OutboxStart, Taken, Inv, TypeServer, ServerHears
<1>3. InvFrames'
  <2> SUFFICES ASSUME NEW c \in Conn
        PROVE /\ Consecutive(c2s'[c], NextSeq)
              /\ c2s'[c] # <<>> => c2s'[c][1] <= Taken(c)'
              /\ c > nconn => /\ c2s'[c] = <<>> /\ s2c[c] = <<>>
                              /\ c \notin intact
    BY <1>2 DEF InvFrames
  <2>1. CASE c = serving
    <3>1. ~(c > nconn)
      BY <2>1, <1>1 DEF Inv, InvFrames
    <3> QED BY <3>1, <2>1, <1>1
  <2>2. CASE c # serving
    BY <2>2, <1>1, <1>2 DEF Inv, InvFrames
  <2> QED BY <2>1, <2>2
<1>4. InvCur'
  <2>1. CASE cur = serving
    <3>1. phase = "connected" /\ ServerHears(cur) =>
            c2s[cur][1] + Len(c2s[cur]) = OutboxStart
      BY <2>1, <1>1 DEF Inv, InvCur
    <3>2. /\ c2s'[serving] = <<>> =>
               c2s[serving][1] + Len(c2s[serving]) <= Taken(serving)'
          /\ c2s'[serving] # <<>> =>
               c2s'[serving][1] + Len(c2s'[serving])
                 = c2s[serving][1] + Len(c2s[serving])
      <4>1. c2s'[serving] = <<>> => Len(c2s'[serving]) = 0
        OBVIOUS
      <4>2. c2s'[serving] = <<>> => Len(c2s[serving]) = 1
        BY <4>1, <1>1
      <4>3. c2s'[serving] = <<>> =>
              c2s[serving][1] + Len(c2s[serving]) <= Taken(serving)'
        BY <4>2
      <4>4. c2s'[serving] # <<>> =>
              c2s'[serving][1] + Len(c2s'[serving])
                = c2s[serving][1] + Len(c2s[serving])
        <5> SUFFICES ASSUME c2s'[serving] # <<>>
                     PROVE  c2s'[serving][1] + Len(c2s'[serving])
                              = c2s[serving][1] + Len(c2s[serving])
          OBVIOUS
        <5>1. /\ c2s'[serving][1] = c2s[serving][1] + 1
              /\ Len(c2s'[serving]) = Len(c2s[serving]) - 1
          BY <1>1
        <5>2. c2s[serving][1] \in Nat /\ Len(c2s[serving]) \in Nat
          BY <1>1
        <5>3. \A x, n \in Nat : (x + 1) + (n - 1) = x + n
          OBVIOUS
        <5> QED BY <5>1, <5>2, <5>3
      <4> QED BY <4>3, <4>4
    <3>3. c2s'[cur] = <<>> /\ phase = "connected" /\ ServerHears(cur)
            => OutboxStart <= Taken(cur)'
      BY <2>1, <3>1, <3>2
    <3>4. c2s'[cur] # <<>> /\ phase = "connected" /\ ServerHears(cur)
            => c2s'[cur][1] + Len(c2s'[cur]) = OutboxStart
      BY <2>1, <3>1, <3>2
    <3> QED BY <2>1, <3>3, <3>4, <1>2 DEF InvCur, Taken
  <2>2. CASE cur # serving
    <3>1. phase = "connected" => cur \in Conn
      BY ConstantAssumption DEF Inv, InvClient, TypeNet, Conn
    <3> QED BY <2>2, <3>1, <1>1, <1>2 DEF Inv, InvCur
  <2> QED BY <2>1, <2>2
<1> QED BY <1>3, <1>4

\* A retransmit is skipped.
LEMMA ReadRetransmitStep == ASSUME Inv, ReadRetransmit PROVE Inv'
<1> USE DEF appVars, clientVars, netVars, ends, procVars, rxVars, srvVars
<1>1. /\ Reading /\ c2s' = [c2s EXCEPT ![serving] = Tail(@)]
      /\ Head(c2s[serving]) < next.seq
      /\ UNCHANGED <<cur, nconn, ends, s2c, appVars, clientVars, procVars>>
      /\ UNCHANGED <<rxVars, srvVars, outcome, queue, breaks>>
  BY DEF ReadRetransmit, IsRetransmit
<1>2. /\ held = -1 /\ c2s' \in [Conn -> Seq(Nat)]
      /\ Head(c2s[serving]) = c2s[serving][1] /\ c2s[serving][1] \in Nat
  BY <1>1, ReadFacts
<1>3. TypeClient' /\ TypeNet' /\ TypeServer'
  BY <1>1, <1>2, SMTT(30) DEF Inv, TypeClient, TypeNet, TypeServer
<1>4. c2s[serving][1] + 1 <= Taken(serving)'
  BY <1>1, <1>2 DEF Taken, Inv, TypeServer
<1>5. InvFrames' /\ InvCur'
  BY <1>1, <1>2, <1>4, ReadKeepsPlace
<1>6. /\ InvDeques' /\ InvClient' /\ InvAcks' /\ InvServer' /\ InvDelivered'
      /\ InvOrder' /\ InvAccepted'
  BY <1>1, Frames DEF Inv
<1> QED BY <1>3, <1>5, <1>6 DEF Inv

\* The frame that comes next is held until it is delivered.
LEMMA ReadNextStep == ASSUME Inv, ReadNext PROVE Inv'
<1> USE DEF appVars, clientVars, netVars, ends, procVars, rxVars, srvVars
<1>1. /\ Reading /\ c2s' = [c2s EXCEPT ![serving] = Tail(@)]
      /\ ~(Head(c2s[serving]) < next.seq) /\ held' = Head(c2s[serving])
      /\ UNCHANGED <<proc, connq, serving, next, pendingAck>>
      /\ UNCHANGED <<cur, nconn, ends, s2c, appVars, clientVars>>
      /\ UNCHANGED <<rxVars, srvVars, outcome, queue, breaks>>
  BY DEF ReadNext, IsRetransmit
<1>2. /\ held = -1 /\ c2s' \in [Conn -> Seq(Nat)] /\ NextSeq \in Nat
      /\ Head(c2s[serving]) = c2s[serving][1] /\ c2s[serving][1] \in Nat
      /\ c2s[serving][1] < NextSeq /\ c2s[serving][1] <= next.seq
  BY <1>1, ReadFacts
<1>3. next.seq \in Nat /\ proc = "serving"
  BY <1>1 DEF Inv, TypeServer, Reading
<1>4. held' = next.seq /\ held' = c2s[serving][1] /\ held' # -1
  BY <1>1, <1>2, <1>3
<1>5. TypeClient' /\ TypeNet' /\ TypeServer'
  BY <1>1, <1>2, <1>3, <1>4 DEF Inv, TypeClient, TypeNet, TypeServer
<1>6. c2s[serving][1] + 1 <= Taken(serving)'
  BY <1>1, <1>3, <1>4 DEF Taken
<1>7. InvFrames' /\ InvCur'
  BY <1>1, <1>4, <1>6, ReadKeepsPlace
<1>8. InvServer'
  BY <1>1, <1>2, <1>3, <1>4 DEF Inv, InvServer, NextSeq
<1>9. /\ InvDeques' /\ InvClient' /\ InvAcks' /\ InvDelivered' /\ InvOrder'
      /\ InvAccepted'
  BY <1>1, Frames DEF Inv
<1> QED BY <1>5, <1>7, <1>8, <1>9 DEF Inv

\* A running server never sees a gap in the sequence numbers.
LEMMA ReadAheadStep == ASSUME Inv, ReadAhead PROVE FALSE
<1>1. Reading /\ Head(c2s[serving]) > next.seq
  BY DEF ReadAhead, IsAhead
<1>2. /\ proc = "serving" /\ held = -1 /\ c2s[serving] # <<>>
      /\ next.seq \in Nat
  BY <1>1 DEF Reading, Inv, TypeServer
<1>3. serving \in Conn /\ c2s[serving] \in Seq(Nat)
  BY <1>2, ConstantAssumption DEF Inv, InvServer, TypeNet, Conn
<1>4. Head(c2s[serving]) = c2s[serving][1] /\ Head(c2s[serving]) \in Nat
  BY <1>2, <1>3, TailFacts
<1> QED BY <1>1, <1>2, <1>3, <1>4 DEF Inv, InvFrames, Taken

\* A delivery extends what the application can receive by the next message.
LEMMA DeliverStep == ASSUME Inv, Deliver PROVE Inv'
<1> USE DEF appVars, clientVars, netVars, ends, srvVars
<1>1. /\ proc = "serving" /\ held # -1
      /\ delivered' = Append(delivered, sent[held + 1])
      /\ everDelivered' = everDelivered \cup {sent[held + 1]}
      /\ next' = [next EXCEPT !.seq = held + 1] /\ held' = -1
      /\ UNCHANGED <<proc, connq, serving, pendingAck, consumed>>
      /\ UNCHANGED <<appVars, clientVars, netVars, srvVars, outcome, queue, breaks>>
  BY DEF Deliver
<1>2. /\ held = next.seq /\ held < NextSeq /\ next \in [seq : Nat, ack : Nat]
      /\ delivered \in Seq(Msg) /\ sent \in Seq(Msg) /\ everDelivered \subseteq Msg
      /\ next.seq \in Nat /\ NextSeq = Len(sent) /\ Len(sent) \in Nat
  BY <1>1 DEF Inv, InvServer, TypeServer, TypeClient, NextSeq
<1>3. sent[next.seq + 1] \in Msg /\ next.seq + 1 \in 1..Len(sent)
  BY <1>2, EmptyFacts
<1>4. /\ next' \in [seq : Nat, ack : Nat] /\ next'.seq = next.seq + 1
      /\ next'.ack = next.ack
  BY <1>1, <1>2
<1>5. /\ delivered' \in Seq(Msg) /\ Len(delivered') = Len(delivered) + 1
      /\ Len(delivered) \in Nat
      /\ \A i \in 1..Len(delivered') :
           \/ i \in 1..Len(delivered) /\ delivered'[i] = delivered[i]
           \/ i = Len(delivered) + 1 /\ delivered'[i] = sent[next.seq + 1]
  BY <1>1, <1>2, <1>3, AppendFacts
<1>6. everDelivered' \subseteq Msg /\ everDelivered \subseteq everDelivered'
  BY <1>1, <1>2, <1>3
<1>7. TypeClient' /\ TypeNet'
  BY <1>1 DEF Inv, TypeClient, TypeNet
<1>8. TypeServer'
  BY <1>1, <1>4, <1>5, <1>6 DEF Inv, TypeServer
<1>9. InvDelivered'
  <2>1. /\ Len(delivered) = next.seq
        /\ \A i \in 1..Len(delivered) : /\ delivered[i] = sent[i]
                                        /\ sent[i] \in everDelivered
    BY DEF Inv, InvDelivered
  <2>2. \A i \in 1..Len(delivered') : /\ delivered'[i] = sent[i]
                                      /\ sent[i] \in everDelivered'
    BY <2>1, <1>1, <1>2, <1>5, <1>6
  <2> QED BY <2>1, <2>2, <1>1, <1>2, <1>4, <1>5 DEF InvDelivered, NextSeq
<1>10. InvClient'
  <2>1. largestAcked \in Int /\ RunStart \in Int
    BY <1>2, EmptyFacts DEF Inv, TypeClient, RunStart, OutboxStart, NextSeq
  <2>2. RunStart' = RunStart
    BY <1>1 DEF RunStart, OutboxStart, NextSeq
  <2> QED BY <2>1, <2>2, <1>1, <1>2, <1>4 DEF Inv, InvClient
<1>11. /\ \A c \in Conn : Taken(c) <= Taken(c)' /\ Taken(c) \in Nat /\ Taken(c)' \in Nat
       /\ NextSeq' = NextSeq /\ OutboxStart' = OutboxStart /\ OutboxStart \in Int
  BY <1>1, <1>2, <1>4, EmptyFacts
  DEF Taken, NextSeq, OutboxStart, Inv, TypeClient
<1>12. InvFrames'
  <2>1. \A c \in Conn : c2s[c] # <<>> => c2s[c][1] \in Nat /\ c2s[c][1] <= Taken(c)
    BY DEF Inv, InvFrames, TypeNet
  <2> QED BY <2>1, <1>1, <1>11 DEF Inv, InvFrames
<1>13. InvCur'
  <2>1. phase = "connected" => cur \in Conn
    BY ConstantAssumption DEF Inv, InvClient, TypeNet, Conn
  <2> QED BY <2>1, <1>1, <1>11 DEF Inv, InvCur, ServerHears
<1>14. InvAcks'
  <2>1. \A c \in Conn : \A i \in 1..Len(s2c[c]) :
          s2c[c][i].seq \in Nat /\ s2c[c][i].seq < next.seq + 1
    <3>1. \A c \in Conn : \A i \in 1..Len(s2c[c]) : s2c[c][i] \in Response
      BY EmptyFacts DEF Inv, TypeNet
    <3> QED BY <3>1, <1>2 DEF Inv, InvAcks, Response
  <2> QED BY <2>1, <1>1, <1>4 DEF Inv, InvAcks
<1>15. InvServer'
  BY <1>1, <1>2, <1>4 DEF Inv, InvServer, NextSeq, TypeServer
<1>16. InvAccepted'
  BY <1>1, <1>6 DEF Inv, InvAccepted, AcceptedWasDelivered
<1>17. InvDeques' /\ InvOrder'
  BY <1>1, Frames DEF Inv
<1> QED BY <1>7, <1>8, <1>9, <1>10, <1>12, <1>13, <1>14, <1>15, <1>16, <1>17 DEF Inv

\* The end of a connection, with its final ack, preserves the invariant.
LEMMA RecvEofStep == ASSUME Inv, RecvEof PROVE Inv'
<1> USE DEF appVars, clientVars, rxVars, srvVars
<1>1. /\ proc = "serving" /\ held = -1 /\ ~ClientHears(serving)
      /\ UNCHANGED <<appVars, clientVars, rxVars, srvVars, outcome, queue, breaks>>
      /\ s2c' = s2c /\ pendingAck' = 0 /\ held' = -1 /\ serving' = 0
      /\ proc' = "waiting" /\ connq' = connq /\ ServerDrops({serving})
      /\ UNCHANGED <<cur, nconn, clientEnd>>
      /\ \E a \in {next.ack, next.seq} : next' = [next EXCEPT !.ack = a]
  BY DEF RecvEof, RecvEnds
<1>2. next \in [seq : Nat, ack : Nat] /\ c2s \in [Conn -> Seq(Nat)]
  BY DEF Inv, TypeServer, TypeNet
<1>3. next' \in [seq : Nat, ack : Nat] /\ next'.seq = next.seq
  BY <1>1, <1>2
<1>4. /\ serverEnd' = serverEnd \ {serving} /\ intact' \subseteq intact
      /\ c2s' \in [Conn -> Seq(Nat)]
      /\ \A c \in Conn : c2s'[c] = IF c = serving THEN <<>> ELSE c2s[c]
  BY <1>1, <1>2, EmptyFacts DEF ServerDrops
<1>5. TypeClient' /\ TypeNet'
  BY <1>1, <1>4 DEF Inv, TypeClient, TypeNet
<1>6. TypeServer'
  BY <1>1, <1>3, ConstantAssumption DEF Inv, TypeServer
<1>7. /\ \A c \in Conn : Taken(c)' = Taken(c)
      /\ NextSeq' = NextSeq /\ OutboxStart' = OutboxStart /\ RunStart' = RunStart
  BY <1>1, <1>3 DEF Taken, NextSeq, OutboxStart, RunStart
<1>8. InvClient' /\ InvServer' /\ InvDelivered' /\ InvAcks'
  BY <1>1, <1>3, <1>7 DEF Inv, InvClient, InvServer, InvDelivered, InvAcks
<1>9. InvFrames'
  <2>1. Consecutive(<<>>, NextSeq)
    BY DEF Consecutive
  <2>2. \A c \in Conn : c2s'[c] = <<>> \/ c2s'[c] = c2s[c]
    BY <1>4
  <2> QED BY <2>1, <2>2, <1>1, <1>4, <1>7 DEF Inv, InvFrames
<1>10. InvCur'
  <2>1. ServerHears(cur)' => ServerHears(cur) /\ cur # serving /\ cur \in Conn
    BY <1>1, <1>4 DEF ServerHears, Inv, TypeNet
  <2> QED BY <2>1, <1>1, <1>4, <1>7 DEF Inv, InvCur
<1>11. InvDeques' /\ InvOrder' /\ InvAccepted'
  BY <1>1, Frames DEF Inv
<1> QED BY <1>5, <1>6, <1>8, <1>9, <1>10, <1>11 DEF Inv

-----------------------------------------------------------------------------
(* The theorems.                                                           *)

\* The initial state satisfies the invariant.
LEMMA InitInv == ASSUME Init PROVE Inv
<1> USE DEF Init
<1>1. TypeClient /\ TypeNet /\ TypeServer
  <2>1. TypeClient
    BY ConstantAssumption DEF TypeClient
  <2>2. TypeNet
    BY ConstantAssumption DEF TypeNet
  <2>3. TypeServer
    <3>1. next \in [seq : Nat, ack : Nat] /\ serving \in 0..MaxConns
      BY ConstantAssumption
    <3>2. connq \in Seq(Conn) /\ delivered \in Seq(Msg)
      OBVIOUS
    <3> QED BY <3>1, <3>2 DEF TypeServer
  <2> QED BY <2>1, <2>2, <2>3
<1>2. InvDeques /\ InvClient /\ InvCur /\ InvServer /\ InvDelivered /\ InvOrder
  BY DEF InvDeques, InvClient, InvCur, InvServer, InvDelivered, InvOrder,
         RunStart, OutboxStart, NextSeq
<1>3. InvFrames /\ InvAcks
  BY DEF InvFrames, InvAcks, Consecutive, Conn
<1>4. InvAccepted
  BY DEF InvAccepted, AcceptedWasDelivered
<1> QED BY <1>1, <1>2, <1>3, <1>4 DEF Inv

\* Nothing is disturbed when nothing changes.
LEMMA StutterInv == ASSUME Inv, UNCHANGED vars PROVE Inv'
<1> USE DEF vars, appVars, clientVars, netVars, ends, procVars, rxVars, srvVars
<1>1. TypeClient' /\ TypeNet' /\ TypeServer'
  BY DEF Inv, TypeClient, TypeNet, TypeServer
<1> QED BY <1>1, Frames DEF Inv

\* Every step of the session preserves the invariant.
LEMMA NextInv == ASSUME Inv, [Next]_vars PROVE Inv'
<1>1. CASE Post
  BY <1>1, PostStep
<1>2. CASE DropTx
  BY <1>2, DropTxStep
<1>3. CASE ClientNext
  <2>1. CASE LazyRecv
    BY <2>1, LazyRecvStep
  <2>2. CASE LazyClosed
    BY <2>2, LazyClosedStep
  <2>3. CASE Connect
    BY <2>3, ConnectStep
  <2>4. CASE ConnectFails \/ SendOversized \/ AppClosed
    BY <2>4, ClosingSteps
  <2>5. CASE WriteFrame
    BY <2>5, WriteFrameStep
  <2>6. CASE ReadAck
    BY <2>6, ReadAckStep
  <2>7. CASE ReadTerminal
    BY <2>7, ReadTerminalStep
  <2>8. CASE Disconnect
    BY <2>8, DisconnectStep
  <2>9. CASE RecvNew
    BY <2>9, RecvNewStep
  <2> QED BY <1>3, <2>1, <2>2, <2>3, <2>4, <2>5, <2>6, <2>7, <2>8, <2>9
      DEF ClientNext
<1>4. CASE ServerNext
  <2>1. CASE \E c \in Conn : Dispatch(c)
    BY <2>1, DispatchStep
  <2>2. CASE ServeNext
    BY <2>2, ServeNextStep
  <2>3. CASE BeginAck
    BY <2>3, BeginAckStep
  <2>4. CASE AckWritten
    BY <2>4, AckWrittenStep
  <2>5. CASE ReadRetransmit
    BY <2>5, ReadRetransmitStep
  <2>6. CASE ReadNext
    BY <2>6, ReadNextStep
  <2>7. CASE Deliver
    BY <2>7, DeliverStep
  <2>8. CASE RecvEof
    BY <2>8, RecvEofStep
  <2>9. CASE ReadAhead
    BY <2>9, ReadAheadStep
  <2>10. CASE RxRecv
    BY <2>10, RxRecvStep
  <2> QED BY <1>4, <2>1, <2>2, <2>3, <2>4, <2>5, <2>6, <2>7, <2>8, <2>9, <2>10
      DEF ServerNext
<1>5. CASE \E c \in Conn : Break(c)
  BY <1>5, BreakStep
<1>6. CASE TimerNext
  BY <1>6, ClosingSteps DEF TimerNext
<1>7. CASE UNCHANGED vars
  BY <1>7, StutterInv
<1> QED BY <1>1, <1>2, <1>3, <1>4, <1>5, <1>6, <1>7 DEF Next, PatientNext

\* The inductive invariant holds in every state of a session whose server
\* stays up.
THEOREM Invariance == Spec => []Inv
<1>1. Init => Inv
  BY InitInv
<1>2. Inv /\ [Next]_vars => Inv'
  BY NextInv
<1> QED BY <1>1, <1>2, PTL DEF Spec

\* Every variable of the session keeps its type: no sequence number or ack
\* computed by the client or the server is ever negative.
THEOREM TypeCorrect == Spec => []TypeOK
<1>1. Inv => TypeOK
  BY DEF Inv, TypeOK
<1> QED BY <1>1, Invariance, PTL

\* The deques of the client ascend: the assertions of Outbox::push_back,
\* Outbox::requeue_unacked and Unacked::push_back never fail.
THEOREM Ascending == Spec => []DequesAscend
<1>1. Inv => DequesAscend
  <2> SUFFICES ASSUME Inv, NEW i \in DOMAIN Run
               PROVE  Run[i] = NextSeq - Len(Run) + i - 1
    BY DEF DequesAscend
  <2>1. unacked \in Seq(Nat) /\ outbox \in Seq(Nat) /\ sent \in Seq(Msg)
    BY DEF Inv, TypeClient
  <2>2. /\ Run \in Seq(Nat) /\ Len(Run) = Len(unacked) + Len(outbox)
        /\ \A k \in 1..(Len(unacked) + Len(outbox)) : Run[k] =
             IF k <= Len(unacked) THEN unacked[k] ELSE outbox[k - Len(unacked)]
        /\ Len(unacked) \in Nat /\ Len(outbox) \in Nat
    BY <2>1, CatFacts DEF Run
  <2>3. i \in 1..(Len(unacked) + Len(outbox)) /\ Len(sent) \in Nat
    BY <2>1, <2>2, EmptyFacts
  <2>4. CASE i <= Len(unacked)
    <3>1. i \in 1..Len(unacked) /\ Run[i] = unacked[i]
      BY <2>2, <2>3, <2>4
    <3>2. Run[i] = RunStart + i - 1
      BY <3>1 DEF Inv, InvDeques
    <3> QED BY <3>2, <2>2, <2>3 DEF RunStart, OutboxStart, NextSeq
  <2>5. CASE ~(i <= Len(unacked))
    <3>1. i - Len(unacked) \in 1..Len(outbox) /\ Run[i] = outbox[i - Len(unacked)]
      BY <2>2, <2>3, <2>5
    <3>2. Run[i] = OutboxStart + (i - Len(unacked)) - 1
      BY <3>1 DEF Inv, InvDeques
    <3> QED BY <3>2, <2>2, <2>3 DEF OutboxStart, NextSeq
  <2> QED BY <2>4, <2>5
<1> QED BY <1>1, Invariance, PTL

\* The server puts messages into the ChannelRx's queue in the order of the
\* posts, each at most once, for any number of connections and whatever their
\* order of dispatch.
THEOREM InOrder == Spec => []DeliveredInOrder
<1>1. Inv => DeliveredInOrder
  <2> SUFFICES ASSUME Inv, NEW i \in DOMAIN delivered, NEW j \in DOMAIN delivered,
                      i < j
               PROVE  delivered[i] < delivered[j]
    BY DEF DeliveredInOrder
  <2>1. delivered \in Seq(Msg) /\ sent \in Seq(Msg)
    BY DEF Inv, TypeClient, TypeServer
  <2>2. /\ i \in 1..Len(delivered) /\ j \in 1..Len(delivered)
        /\ Len(delivered) \in Nat /\ Len(sent) \in Nat
    BY <2>1, EmptyFacts
  <2>3. /\ Len(delivered) <= Len(sent)
        /\ delivered[i] = sent[i] /\ delivered[j] = sent[j]
    BY <2>2 DEF Inv, InvDelivered, NextSeq
  <2>4. i \in 1..Len(sent) /\ j \in 1..Len(sent)
    BY <2>2, <2>3
  <2> QED BY <2>3, <2>4 DEF Inv, InvOrder
<1> QED BY <1>1, Invariance, PTL

\* Acks never go backwards for the client: the assertion of Unacked::prune
\* does not fail, so the client task never panics.
THEOREM Panicless == Spec => []NoPanic
<1>1. Inv => NoPanic
  BY DEF Inv, InvClient, NoPanic
<1> QED BY <1>1, Invariance, PTL

\* Whichever connection of the session the server takes up, it never finds a
\* gap, and so never rejects its own client.
THEOREM NoGap == Spec => []NeverAhead
<1>1. Inv => NeverAhead
  <2> SUFFICES ASSUME Inv
               PROVE  /\ proc = "serving" /\ held = -1 /\ c2s[serving] # <<>>
                           => Head(c2s[serving]) <= next.seq
                      /\ reason # "stale_session"
    BY DEF NeverAhead
  <2>1. reason # "stale_session"
    BY DEF Inv, InvClient
  <2>2. ASSUME proc = "serving", held = -1, c2s[serving] # <<>>
        PROVE  Head(c2s[serving]) <= next.seq
    <3>1. serving \in Conn /\ c2s[serving] \in Seq(Nat)
      BY <2>2, ConstantAssumption DEF Inv, InvServer, TypeNet, Conn
    <3>2. Head(c2s[serving]) = c2s[serving][1]
      BY <2>2, <3>1, TailFacts
    <3> QED BY <2>2, <3>1, <3>2 DEF Inv, InvFrames, Taken
  <2> QED BY <2>1, <2>2
<1> QED BY <1>1, Invariance, PTL

\* When every message can be serialized, Tx::send resolves Ok only for a
\* message that the server has put into the ChannelRx's queue.
THEOREM AckMeansDelivered ==
  ASSUME Unserializable = {}
  PROVE  Spec => []AcceptedWasDelivered
<1>1. Inv => AcceptedWasDelivered
  BY DEF Inv, InvAccepted
<1> QED BY <1>1, Invariance, PTL

------------------------------------------------------------------------------
(* Completions, and the refinement of ReliableChannel.                      *)

\* While the task runs, the first boundary is the start of its run: everything
\* before it is accepted, nothing behind it is reported.
Running ==
  /\ \A j \in 1..Len(queue) : queue[j] = Len(sent) + j
  /\ posted = Len(sent) + Len(queue)
  /\ \A m \in Msg : outcome[m] = IF m <= RunStart THEN "accepted" ELSE "pending"

\* After it closed, the boundary stays and the rest is rejected.
Gone ==
  /\ queue = <<>> /\ outbox = <<>> /\ unacked = <<>>
  /\ \E n \in 0..posted : \A m \in Msg :
       outcome[m] = IF m <= n THEN "accepted"
                    ELSE IF m <= posted THEN "rejected" ELSE "pending"

\* Message m has sequence number m - 1, and the completions follow the boundary.
Reporting ==
  /\ \A i \in 1..Len(sent) : sent[i] = i
  /\ phase = "lazy" => sent = <<>>
  /\ IF phase = "closed" THEN Gone ELSE Running

\* The inductive invariant.
ReportInv == Inv /\ Reporting

\* A step of the abstract channel, or a stutter.
ChannelStep == Channel!Next \/ UNCHANGED <<posted, delivered, outcome, TaskGone>>

-----------------------------------------------------------------------------
(* What the task owns.                                                     *)

\* The boundaries are numbers in order.
LEMMA Boundaries ==
  ASSUME Inv
  PROVE  /\ RunStart \in Nat /\ OutboxStart \in Nat /\ NextSeq \in Nat /\ posted \in Nat
         /\ RunStart <= OutboxStart /\ OutboxStart <= NextSeq
         /\ Len(unacked) \in Nat /\ Len(outbox) \in Nat /\ Len(queue) \in Nat
         /\ OutboxStart = RunStart + Len(unacked) /\ NextSeq = OutboxStart + Len(outbox)
         /\ NextSeq = Len(sent) /\ posted <= MaxPosts /\ MaxPosts \in Nat
<1>1. /\ Len(unacked) \in Nat /\ Len(outbox) \in Nat /\ Len(queue) \in Nat
      /\ Len(sent) \in Nat /\ posted \in Nat /\ posted <= MaxPosts /\ MaxPosts \in Nat
  BY ConstantAssumption DEF Inv, TypeClient
<1>2. Len(outbox) + Len(unacked) <= Len(sent)
  BY DEF Inv, InvDeques, NextSeq
<1> QED  BY <1>1, <1>2 DEF RunStart, OutboxStart, NextSeq

\* Where the messages of the deques and of the queue lie.
LEMMA OwnedExact ==
  ASSUME Inv, Reporting, phase # "closed"
  PROVE  /\ \A m : m \in MsgsOf(unacked) <=> m \in (RunStart + 1)..OutboxStart
         /\ \A m : m \in MsgsOf(outbox) <=> m \in (OutboxStart + 1)..NextSeq
         /\ \A m : m \in InQueue <=> m \in (NextSeq + 1)..posted
         /\ \A m : m \in Owned <=> m \in (RunStart + 1)..posted
<1>1. /\ RunStart \in Nat /\ OutboxStart \in Nat /\ NextSeq \in Nat /\ posted \in Nat
      /\ RunStart <= OutboxStart /\ OutboxStart <= NextSeq
      /\ Len(unacked) \in Nat /\ Len(outbox) \in Nat /\ Len(queue) \in Nat
      /\ OutboxStart = RunStart + Len(unacked) /\ NextSeq = OutboxStart + Len(outbox)
      /\ NextSeq = Len(sent)
  BY Boundaries
<1>2. /\ \A i \in 1..Len(sent) : sent[i] = i
      /\ \A j \in 1..Len(queue) : queue[j] = NextSeq + j
      /\ posted = NextSeq + Len(queue)
  BY <1>1 DEF Reporting, Running
<1>3. /\ DOMAIN unacked = 1..Len(unacked) /\ DOMAIN outbox = 1..Len(outbox)
      /\ DOMAIN queue = 1..Len(queue)
  BY DEF Inv, TypeClient
<1>4. /\ \A i \in 1..Len(outbox) : outbox[i] = OutboxStart + i - 1
      /\ \A i \in 1..Len(unacked) : unacked[i] = RunStart + i - 1
  BY DEF Inv, InvDeques
<1>5. ASSUME NEW m PROVE m \in MsgsOf(unacked) <=> m \in (RunStart + 1)..OutboxStart
  <2>1. \A i \in 1..Len(unacked) : RunStart + i \in 1..Len(sent) /\ unacked[i] + 1 = RunStart + i
    BY <1>1, <1>4
  <2>2. \A i \in 1..Len(unacked) : sent[unacked[i] + 1] = RunStart + i
    BY <1>2, <2>1
  <2>3. m \in MsgsOf(unacked) <=> \E i \in 1..Len(unacked) : m = RunStart + i
    BY <1>3, <2>2 DEF MsgsOf
  <2>4. ASSUME m \in (RunStart + 1)..OutboxStart
        PROVE  m - RunStart \in 1..Len(unacked) /\ m = RunStart + (m - RunStart)
    BY <1>1, <2>4
  <2> QED  BY <1>1, <2>3, <2>4
<1>6. ASSUME NEW m PROVE m \in MsgsOf(outbox) <=> m \in (OutboxStart + 1)..NextSeq
  <2>1. \A i \in 1..Len(outbox) : OutboxStart + i \in 1..Len(sent) /\ outbox[i] + 1 = OutboxStart + i
    BY <1>1, <1>4
  <2>2. \A i \in 1..Len(outbox) : sent[outbox[i] + 1] = OutboxStart + i
    BY <1>2, <2>1
  <2>3. m \in MsgsOf(outbox) <=> \E i \in 1..Len(outbox) : m = OutboxStart + i
    BY <1>3, <2>2 DEF MsgsOf
  <2>4. ASSUME m \in (OutboxStart + 1)..NextSeq
        PROVE  m - OutboxStart \in 1..Len(outbox) /\ m = OutboxStart + (m - OutboxStart)
    BY <1>1, <2>4
  <2>5. \A i \in 1..Len(outbox) : OutboxStart + i \in (OutboxStart + 1)..NextSeq
    BY <1>1
  <2> QED  BY <2>3, <2>4, <2>5
<1>7. ASSUME NEW m PROVE m \in InQueue <=> m \in (NextSeq + 1)..posted
  <2>3. m \in InQueue <=> \E i \in 1..Len(queue) : m = NextSeq + i
    BY <1>2, <1>3 DEF InQueue
  <2>4. ASSUME m \in (NextSeq + 1)..posted
        PROVE  m - NextSeq \in 1..Len(queue) /\ m = NextSeq + (m - NextSeq)
    BY <1>1, <1>2, <2>4
  <2>5. \A i \in 1..Len(queue) : NextSeq + i \in (NextSeq + 1)..posted
    BY <1>1, <1>2
  <2> QED  BY <2>3, <2>4, <2>5
<1>8. ASSUME NEW m PROVE m \in Owned <=> m \in (RunStart + 1)..posted
  <2>1. m \in Owned <=> \/ m \in (RunStart + 1)..OutboxStart
                        \/ m \in (OutboxStart + 1)..NextSeq
                        \/ m \in (NextSeq + 1)..posted
    BY <1>5, <1>6, <1>7 DEF Owned
  <2>2. RunStart <= OutboxStart /\ OutboxStart <= NextSeq /\ NextSeq <= posted
    BY <1>1, <1>2
  <2>3. RunStart \in Nat /\ OutboxStart \in Nat /\ NextSeq \in Nat /\ posted \in Nat
    BY <1>1
  <2> QED  BY <2>1, <2>2, <2>3
<1> QED  BY <1>5, <1>6, <1>7, <1>8

-----------------------------------------------------------------------------
(* The steps, as steps of the channel.                                     *)

\* Steps that leave the completions, the deques and the queue alone.
LEMMA QuietRefines ==
  ASSUME Inv, Reporting,
         UNCHANGED <<posted, outcome, queue, sent, outbox, unacked, delivered>>,
         \/ phase' = phase
         \/ phase \in {"connecting", "connected"} /\ phase' \in {"connecting", "connected"}
  PROVE  Reporting' /\ ChannelStep
<1>1. Reporting'
  BY DEF Reporting, Running, Gone, RunStart, OutboxStart, NextSeq
<1>2. UNCHANGED TaskGone
  BY DEF TaskGone
<1> QED  BY <1>1, <1>2 DEF ChannelStep

\* ChannelTx::do_post is the channel's Post.
LEMMA PostRefines ==
  ASSUME Inv, Reporting, Post
  PROVE  Reporting' /\ ChannelStep
<1> USE DEF clientVars, netVars, procVars, rxVars, srvVars
<1>1. /\ posted < MaxPosts /\ posted' = posted + 1 /\ posted \in Nat /\ MaxPosts \in Nat
      /\ UNCHANGED <<phase, sent, outbox, unacked, delivered>>
      /\ outcome \in [Msg -> {"pending", "accepted", "rejected", "dropped"}]
  BY Boundaries DEF Post, Inv, TypeClient
<1>2. UNCHANGED TaskGone /\ UNCHANGED RunStart /\ phase # "panicked"
  BY <1>1 DEF TaskGone, RunStart, OutboxStart, NextSeq, Inv, InvClient
<1>3. CASE phase = "closed"
  <2>1. outcome' = Resolve({posted + 1}, "rejected") /\ UNCHANGED queue /\ TaskGone
    BY <1>3 DEF Post, TaskGone
  <2>2. \A m \in Msg : outcome'[m] = IF m = posted + 1 THEN "rejected" ELSE outcome[m]
    BY <2>1 DEF Resolve
  <2>3. Gone'
    <3>1. PICK n \in 0..posted : \A m \in Msg :
            outcome[m] = IF m <= n THEN "accepted"
                         ELSE IF m <= posted THEN "rejected" ELSE "pending"
      BY <1>3 DEF Reporting, Gone
    <3>2. n \in 0..posted'
      BY <1>1
    <3>3. \A m \in Msg : outcome'[m] = IF m <= n THEN "accepted"
                                       ELSE IF m <= posted' THEN "rejected" ELSE "pending"
      BY <1>1, <2>2, <3>1 DEF Msg
    <3> QED  BY <1>1, <1>3, <2>1, <3>2, <3>3 DEF Reporting, Gone
  <2>4. Reporting'
    BY <1>1, <1>3, <2>3 DEF Reporting
  <2>5. outcome' = [outcome EXCEPT ![posted + 1] = "rejected"]
    BY <1>1, <2>1 DEF Resolve
  <2>6. Channel!Post
    BY <1>1, <1>2, <2>1, <2>5 DEF Channel!Post
  <2> QED  BY <2>4, <2>6 DEF ChannelStep, Channel!Next
<1>4. CASE phase # "closed"
  <2>1. queue' = Append(queue, posted + 1) /\ UNCHANGED outcome /\ ~TaskGone
    BY <1>2, <1>4 DEF Post, TaskGone
  <2>2. queue \in Seq(Msg) /\ posted + 1 \in Msg /\ Len(queue) \in Nat /\ Len(sent) \in Nat
    BY <1>1 DEF Inv, TypeClient, Msg
  <2>3. /\ Len(queue') = Len(queue) + 1
        /\ \A i \in 1..(Len(queue) + 1) :
             \/ i \in 1..Len(queue) /\ queue'[i] = queue[i]
             \/ i = Len(queue) + 1 /\ queue'[i] = posted + 1
    BY <2>1, <2>2, AppendFacts
  <2>4. Running'
    <3>1. Running
      BY <1>4 DEF Reporting
    <3>2. posted' = Len(sent) + Len(queue')
      BY <1>1, <2>2, <2>3, <3>1 DEF Running
    <3>3. ASSUME NEW j \in 1..Len(queue') PROVE queue'[j] = Len(sent) + j
      <4>1. CASE j \in 1..Len(queue) /\ queue'[j] = queue[j]
        BY <3>1, <4>1 DEF Running
      <4>2. CASE j = Len(queue) + 1 /\ queue'[j] = posted + 1
        <5>1. posted = Len(sent) + Len(queue)
          BY <3>1 DEF Running
        <5> QED  BY <2>2, <4>2, <5>1
      <4> QED  BY <2>3, <4>1, <4>2
    <3>4. \A m \in Msg : outcome'[m] = IF m <= RunStart' THEN "accepted" ELSE "pending"
      BY <1>2, <2>1, <3>1 DEF Running
    <3> QED  BY <1>1, <3>2, <3>3, <3>4 DEF Running
  <2>5. Reporting'
    BY <1>1, <1>4, <2>4 DEF Reporting
  <2>6. Channel!Post
    BY <1>1, <1>2, <2>1 DEF Channel!Post
  <2> QED  BY <2>5, <2>6 DEF ChannelStep, Channel!Next
<1> QED  BY <1>3, <1>4

\* The code after the loop of spawn_inner is the channel's Close: what is returned is
\* what has no report.
LEMMA CloseRefines ==
  ASSUME Inv, Reporting, phase # "closed", NEW why, CloseTx(why),
         UNCHANGED <<posted, delivered>>
  PROVE  Reporting' /\ ChannelStep
<1>1. /\ outcome' = Resolve(Owned, "rejected") /\ phase' = "closed"
      /\ unacked' = <<>> /\ outbox' = <<>> /\ queue' = <<>> /\ UNCHANGED sent
  BY DEF CloseTx
<1>2. ~TaskGone /\ TaskGone'
  BY <1>1 DEF TaskGone, Inv, InvClient
<1>3. RunStart \in Nat /\ posted \in Nat /\ NextSeq = Len(sent) /\ RunStart <= posted
  BY Boundaries DEF Reporting, Running
<1>4. \A m \in Msg : m \in Owned <=> m > RunStart /\ m <= posted
  <2>1. \A m : m \in Owned <=> m \in (RunStart + 1)..posted
    BY OwnedExact
  <2>2. \A m \in Msg : m \in Int
    BY DEF Msg
  <2> QED  BY <1>3, <2>1, <2>2
<1>5. \A m \in Msg : outcome[m] = IF m <= RunStart THEN "accepted" ELSE "pending"
  BY DEF Reporting, Running
<1>6. \A m \in Msg : outcome'[m] = IF m \in Owned THEN "rejected" ELSE outcome[m]
  BY <1>1 DEF Resolve
<1>7. \A m \in Msg : outcome'[m] = IF m <= RunStart THEN "accepted"
                                   ELSE IF m <= posted THEN "rejected" ELSE "pending"
  BY <1>3, <1>4, <1>5, <1>6 DEF Msg
<1>8. Gone'
  <2>1. RunStart \in 0..posted
    BY <1>3
  <2> QED  BY <1>1, <1>7, <2>1 DEF Gone
<1>9. Reporting'
  BY <1>1, <1>8 DEF Reporting
<1>10. outcome' = [m \in Msg |-> IF m <= posted /\ outcome[m] = "pending"
                                   THEN "rejected" ELSE outcome[m]]
  <2>1. \A m \in Msg : m \in Owned <=> m <= posted /\ outcome[m] = "pending"
    BY <1>3, <1>4, <1>5 DEF Msg
  <2> QED  BY <1>1, <2>1 DEF Resolve
<1>11. Channel!Close
  BY <1>2, <1>10 DEF Channel!Close, Channel!Msg, Msg
<1> QED  BY <1>9, <1>11 DEF ChannelStep, Channel!Next

\* A task that never had a message closes with nothing to return.
LEMMA LazyClosedRefines ==
  ASSUME Inv, Reporting, LazyClosed
  PROVE  Reporting' /\ ChannelStep
<1> USE DEF appVars, rxVars
<1>1. /\ phase = "lazy" /\ queue = <<>> /\ sent = <<>> /\ phase' = "closed"
      /\ UNCHANGED <<posted, sent, outbox, unacked, outcome, queue, delivered>>
  BY DEF LazyClosed, Reporting
<1>2. /\ RunStart \in Nat /\ OutboxStart \in Nat /\ NextSeq = 0
      /\ RunStart <= OutboxStart /\ OutboxStart <= NextSeq /\ Len(sent) = 0 /\ Len(queue) = 0
      /\ OutboxStart = RunStart + Len(unacked) /\ NextSeq = OutboxStart + Len(outbox)
      /\ Len(unacked) \in Nat /\ Len(outbox) \in Nat
  BY <1>1, Boundaries
<1>3. RunStart = 0 /\ Len(unacked) = 0 /\ Len(outbox) = 0
  BY <1>2
<1>4. posted = 0 /\ \A m \in Msg : outcome[m] = "pending"
  BY <1>1, <1>2, <1>3 DEF Reporting, Running, Msg
<1>5. unacked = <<>> /\ outbox = <<>>
  BY <1>3 DEF Inv, TypeClient
<1>6. Gone'
  <2>1. \A m \in Msg : outcome'[m] = IF m <= 0 THEN "accepted"
                                     ELSE IF m <= posted THEN "rejected" ELSE "pending"
    BY <1>1, <1>4 DEF Msg
  <2>2. 0 \in 0..posted
    BY <1>4
  <2> QED  BY <1>1, <1>5, <2>1, <2>2 DEF Gone
<1>7. Reporting'
  BY <1>1, <1>6 DEF Reporting
<1>8. outcome' = [m \in Msg |-> IF m <= posted /\ outcome[m] = "pending"
                                  THEN "rejected" ELSE outcome[m]]
  <2>1. \A m \in Msg : ~(m <= posted)
    BY <1>4 DEF Msg
  <2> QED  BY <1>1, <2>1 DEF Inv, TypeClient
<1>9. ~TaskGone /\ TaskGone'
  BY <1>1 DEF TaskGone
<1>10. Channel!Close
  BY <1>1, <1>8, <1>9 DEF Channel!Close, Channel!Msg, Msg
<1> QED  BY <1>7, <1>10 DEF ChannelStep, Channel!Next

\* A message goes from the queue to the outbox: nobody outside sees it.
LEMMA PushBackRefines ==
  ASSUME Inv, Reporting, queue # <<>>, PushBack, phase \notin {"closed", "panicked"},
         phase' \in {"connecting", "connected"},
         UNCHANGED <<posted, unacked, largestAcked, delivered, everDelivered, next>>
  PROVE  Reporting' /\ ChannelStep
<1>1. /\ sent' = Append(sent, Head(queue)) /\ queue' = Tail(queue) /\ UNCHANGED outcome
      /\ sent \in Seq(Msg) /\ queue \in Seq(Msg)
  BY DEF PushBack, Inv, TypeClient
<1>2. /\ Len(queue') = Len(queue) - 1 /\ Len(queue) \in Nat /\ Len(queue) >= 1
      /\ \A i \in 1..Len(queue') : queue'[i] = queue[i + 1]
      /\ Head(queue) = queue[1] /\ Head(queue) \in Msg
  BY <1>1, TailFacts
<1>3. /\ Len(sent') = Len(sent) + 1 /\ Len(sent) \in Nat
      /\ \A i \in 1..(Len(sent) + 1) :
           \/ i \in 1..Len(sent) /\ sent'[i] = sent[i]
           \/ i = Len(sent) + 1 /\ sent'[i] = Head(queue)
  BY <1>1, <1>2, AppendFacts
<1>4. RunStart' = RunStart
  BY PushBackFacts
<1>5. Running /\ \A i \in 1..Len(sent) : sent[i] = i
  BY DEF Reporting
<1>6. Head(queue) = Len(sent) + 1
  BY <1>2, <1>5 DEF Running
<1>7. \A i \in 1..Len(sent') : sent'[i] = i
  BY <1>3, <1>5, <1>6
<1>8. Running'
  <2>1. \A j \in 1..Len(queue') : queue'[j] = Len(sent') + j
    <3> SUFFICES ASSUME NEW j \in 1..Len(queue') PROVE queue'[j] = Len(sent') + j
      OBVIOUS
    <3>1. j + 1 \in 1..Len(queue)
      BY <1>2
    <3>2. queue[j + 1] = Len(sent) + (j + 1)
      BY <1>5, <3>1 DEF Running
    <3> QED  BY <1>2, <1>3, <3>2
  <2>2. posted' = Len(sent') + Len(queue')
    BY <1>2, <1>3, <1>5 DEF Running
  <2>3. \A m \in Msg : outcome'[m] = IF m <= RunStart' THEN "accepted" ELSE "pending"
    BY <1>1, <1>4, <1>5 DEF Running
  <2> QED  BY <2>1, <2>2, <2>3 DEF Running
<1>9. Reporting'
  BY <1>7, <1>8 DEF Reporting
<1>10. UNCHANGED TaskGone
  BY DEF TaskGone
<1> QED  BY <1>1, <1>9, <1>10 DEF ChannelStep

\* Deliveries::requeue_unacked: the run is the same, all of it unsent.
LEMMA ConnectRefines ==
  ASSUME Inv, Reporting, Connect
  PROVE  Reporting' /\ ChannelStep
<1> USE DEF appVars, rxVars
<1>1. /\ phase = "connecting" /\ phase' = "connected"
      /\ outbox' = unacked \o outbox /\ unacked' = <<>>
      /\ UNCHANGED <<posted, sent, outcome, queue, delivered>>
  BY DEF Connect, Requeued
<1>2. unacked \in Seq(Nat) /\ outbox \in Seq(Nat)
  BY DEF Inv, TypeClient
<1>3. Len(outbox') = Len(unacked) + Len(outbox) /\ Len(unacked') = 0
      /\ Len(unacked) \in Nat /\ Len(outbox) \in Nat
  BY <1>1, <1>2, CatFacts
<1>4. RunStart' = RunStart
  <2>1. Len(sent) \in Nat /\ Len(sent') = Len(sent)
    BY <1>1, Boundaries
  <2> QED  BY <1>3, <2>1 DEF RunStart, OutboxStart, NextSeq
<1>5. Running'
  BY <1>1, <1>4 DEF Reporting, Running
<1>6. Reporting'
  BY <1>1, <1>5 DEF Reporting
<1>7. UNCHANGED TaskGone
  BY <1>1 DEF TaskGone
<1> QED  BY <1>1, <1>6, <1>7 DEF ChannelStep

\* When the start of the run moves up by k and just the messages it passes are
\* accepted, the channel has accepted: what the run starts at was delivered.
LEMMA AcceptRefines ==
  ASSUME Inv, Inv', Reporting, phase = "connected",
         UNCHANGED <<phase, posted, sent, queue, delivered>>,
         NEW k \in Nat, RunStart' = RunStart + k,
         outcome' = Resolve((RunStart + 1)..(RunStart + k), "accepted")
  PROVE  Reporting' /\ ChannelStep
<1>1. RunStart \in Nat /\ RunStart' \in Nat
  BY Boundaries
<1>2. \A m \in Msg : m \in Int /\ outcome[m] = IF m <= RunStart THEN "accepted" ELSE "pending"
  BY DEF Reporting, Running, Msg
<1>3. \A m \in Msg :
        outcome'[m] = IF m \in (RunStart + 1)..(RunStart + k) THEN "accepted" ELSE outcome[m]
  BY DEF Resolve
<1>4. \A m \in Msg : outcome'[m] = IF m <= RunStart' THEN "accepted" ELSE "pending"
  BY <1>1, <1>2, <1>3
<1>5. Reporting'
  BY <1>4 DEF Reporting, Running
<1>6. RunStart' <= Len(delivered)
  BY DEF Inv, InvClient, InvDelivered
<1>7. RunStart' \in 0..Len(delivered)
  <2>1. Len(delivered) \in Nat
    BY DEF Inv, TypeServer
  <2> QED  BY <1>1, <1>6, <2>1
<1>8. outcome' = [m \in Msg |-> IF m <= RunStart' THEN "accepted" ELSE outcome[m]]
  <2>1. \A m \in Msg : outcome'[m] = IF m <= RunStart' THEN "accepted" ELSE outcome[m]
    BY <1>1, <1>2, <1>4
  <2>2. outcome' = [m \in Msg |-> outcome'[m]]
    BY DEF Resolve
  <2> QED  BY <2>1, <2>2
<1>9. ~TaskGone /\ UNCHANGED TaskGone
  BY DEF TaskGone
<1>10. Channel!Accept
  BY <1>7, <1>8, <1>9 DEF Channel!Accept, Channel!Msg, Msg
<1> QED  BY <1>5, <1>10 DEF ChannelStep, Channel!Next

\* A frame is written; a message acked before its rewrite is accepted then.
LEMMA WriteFrameRefines ==
  ASSUME Inv, Inv', Reporting, WriteFrame
  PROVE  Reporting' /\ ChannelStep
<1> USE DEF appVars, rxVars
<1>1. /\ phase = "connected" /\ outbox # <<>> /\ outbox' = Tail(outbox) /\ Moved(Head(outbox))
      /\ UNCHANGED <<phase, posted, sent, queue, delivered>>
  BY DEF WriteFrame, Selecting
<1>2. /\ Len(outbox') = Len(outbox) - 1 /\ Head(outbox) = outbox[1] /\ Len(outbox) >= 1
      /\ outbox[1] \in Nat
  BY <1>1, TailFacts DEF Inv, TypeClient
<1>3. /\ RunStart \in Nat /\ OutboxStart \in Nat /\ NextSeq \in Nat
      /\ Len(unacked) \in Nat /\ Len(outbox) \in Nat
      /\ OutboxStart = RunStart + Len(unacked) /\ NextSeq = OutboxStart + Len(outbox)
      /\ NextSeq = Len(sent)
  BY Boundaries
<1>4. Head(outbox) = OutboxStart
  <2>1. 1 \in 1..Len(outbox)
    BY <1>2, <1>3
  <2>2. outbox[1] = OutboxStart + 1 - 1
    BY <2>1 DEF Inv, InvDeques
  <2> QED  BY <1>2, <1>3, <2>2
<1>5. NextSeq' = NextSeq /\ OutboxStart' = OutboxStart + 1
  BY <1>1, <1>2, <1>3 DEF NextSeq, OutboxStart
<1>6. CASE OutboxStart <= largestAcked
  <2>1. outcome' = Resolve({sent[OutboxStart + 1]}, "accepted") /\ UNCHANGED unacked
    BY <1>1, <1>4, <1>6 DEF Moved, AckedEarly
  <2>2. Len(unacked) = 0
    <3> SUFFICES ASSUME Len(unacked) # 0 PROVE FALSE
      OBVIOUS
    <3>1. Len(unacked) \in 1..Len(unacked)
      BY <1>3
    <3>2. unacked[Len(unacked)] = RunStart + Len(unacked) - 1
          /\ unacked[Len(unacked)] > largestAcked
      BY <3>1 DEF Inv, InvDeques
    <3>3. largestAcked \in Int
      BY DEF Inv, TypeClient
    <3> QED  BY <1>3, <1>6, <3>2, <3>3
  <2>3. RunStart' = RunStart + 1 /\ RunStart = OutboxStart
    BY <1>3, <1>5, <2>1, <2>2 DEF RunStart
  <2>4. sent[OutboxStart + 1] = RunStart + 1
    <3>1. OutboxStart + 1 \in 1..Len(sent)
      BY <1>2, <1>3
    <3> QED  BY <2>3, <3>1 DEF Reporting
  <2>5. {sent[OutboxStart + 1]} = (RunStart + 1)..(RunStart + 1)
    BY <1>3, <2>4
  <2> QED  BY <1>1, <2>1, <2>3, <2>5, AcceptRefines
<1>7. CASE ~(OutboxStart <= largestAcked)
  <2>1. unacked' = Append(unacked, Head(outbox)) /\ UNCHANGED outcome
    BY <1>1, <1>4, <1>7 DEF Moved, AckedEarly
  <2>2. Len(unacked') = Len(unacked) + 1
    BY <2>1, <1>2, AppendFacts DEF Inv, TypeClient
  <2>3. RunStart' = RunStart
    BY <1>3, <1>5, <2>2 DEF RunStart
  <2>4. Reporting'
    BY <1>1, <2>1, <2>3 DEF Reporting, Running
  <2>5. UNCHANGED TaskGone
    BY <1>1 DEF TaskGone
  <2> QED  BY <1>1, <2>1, <2>4, <2>5 DEF ChannelStep
<1> QED  BY <1>6, <1>7

\* An ack is read: Unacked::prune pops, and accepts, a prefix of the run.
LEMMA ReadAckRefines ==
  ASSUME Inv, Inv', Reporting, ReadAck
  PROVE  Reporting' /\ ChannelStep
<1> USE DEF appVars, rxVars
<1>1. phase = "connected" /\ UNCHANGED <<posted, delivered>>
  BY DEF ReadAck, Selecting
<1>2. phase' # "panicked"
  BY DEF Inv, InvClient
<1>3. PICK a : Prune(a) /\ UNCHANGED <<phase, sent, outbox, queue>>
  BY <1>2 DEF ReadAck, Panic
<1>4. PICK n \in 0..Len(unacked) :
        /\ unacked' = SubSeq(unacked, n + 1, Len(unacked))
        /\ outcome' = Resolve({sent[unacked[i] + 1] : i \in 1..n}, "accepted")
  BY <1>3 DEF Prune
<1>5. /\ RunStart \in Nat /\ OutboxStart \in Nat /\ NextSeq \in Nat
      /\ Len(unacked) \in Nat /\ Len(outbox) \in Nat
      /\ OutboxStart = RunStart + Len(unacked) /\ NextSeq = OutboxStart + Len(outbox)
      /\ NextSeq = Len(sent)
  BY Boundaries
<1>6. n \in Nat /\ n <= Len(unacked) /\ Len(unacked') = Len(unacked) - n
  <2>1. unacked \in Seq(Nat) /\ n \in Nat /\ n <= Len(unacked)
    BY <1>5 DEF Inv, TypeClient
  <2> QED  BY <1>4, <1>5, <2>1
<1>7. RunStart' = RunStart + n
  BY <1>3, <1>5, <1>6 DEF RunStart, OutboxStart, NextSeq
<1>8. \A i \in 1..n : sent[unacked[i] + 1] = RunStart + i
  <2> SUFFICES ASSUME NEW i \in 1..n PROVE sent[unacked[i] + 1] = RunStart + i
    OBVIOUS
  <2>1. i \in 1..Len(unacked) /\ RunStart + i \in 1..Len(sent)
    BY <1>5, <1>6
  <2>2. unacked[i] = RunStart + i - 1
    BY <2>1 DEF Inv, InvDeques
  <2>3. unacked[i] + 1 = RunStart + i
    BY <1>5, <2>2
  <2> QED  BY <2>1, <2>3 DEF Reporting
<1>9. {sent[unacked[i] + 1] : i \in 1..n} = (RunStart + 1)..(RunStart + n)
  <2>1. \A m \in (RunStart + 1)..(RunStart + n) : m - RunStart \in 1..n /\ m = RunStart + (m - RunStart)
    BY <1>5, <1>6
  <2>2. \A i \in 1..n : RunStart + i \in (RunStart + 1)..(RunStart + n)
    BY <1>5, <1>6
  <2> QED  BY <1>8, <2>1, <2>2
<1> QED  BY <1>1, <1>3, <1>4, <1>6, <1>7, <1>9, AcceptRefines

\* deliver_tx.send() is the arrival of the next message.
LEMMA DeliverRefines ==
  ASSUME Inv, Reporting, Deliver
  PROVE  Reporting' /\ ChannelStep
<1> USE DEF appVars, clientVars
<1>1. /\ held # -1 /\ delivered' = Append(delivered, sent[held + 1])
      /\ UNCHANGED <<posted, phase, sent, outbox, unacked, outcome, queue>>
  BY DEF Deliver
<1>2. Reporting'
  BY <1>1 DEF Reporting, Running, Gone, RunStart, OutboxStart, NextSeq
<1>3. held = Len(delivered) /\ held < Len(sent) /\ Len(delivered) \in Nat /\ Len(sent) \in Nat
  BY <1>1 DEF Inv, InvServer, InvDelivered, NextSeq, TypeServer, TypeClient
<1>4. sent[held + 1] = Len(delivered) + 1
  <2>1. held + 1 \in 1..Len(sent)
    BY <1>3
  <2> QED  BY <1>3, <2>1 DEF Reporting
<1>5. Len(delivered) < posted
  <2>1. Len(sent) \in 1..Len(sent)
    BY <1>3
  <2>2. sent[Len(sent)] = Len(sent) /\ sent[Len(sent)] <= posted
    BY <2>1 DEF Reporting, Inv, InvOrder
  <2>3. posted \in Nat
    BY Boundaries
  <2> QED  BY <1>3, <2>2, <2>3
<1>6. UNCHANGED TaskGone
  BY <1>1 DEF TaskGone
<1>7. Channel!Arrive
  BY <1>1, <1>4, <1>5, <1>6 DEF Channel!Arrive
<1> QED  BY <1>2, <1>7 DEF ChannelStep, Channel!Next

-----------------------------------------------------------------------------
(* The theorems about the channel.                                         *)

\* No message has been posted.
LEMMA InitRefines ==
  ASSUME Init
  PROVE  Reporting /\ Channel!Init
<1>1. RunStart = 0
  <2>1. Len(sent) = 0 /\ Len(outbox) = 0 /\ Len(unacked) = 0
    BY DEF Init
  <2> QED  BY <2>1 DEF RunStart, OutboxStart, NextSeq
<1>2. Reporting
  BY <1>1 DEF Init, Reporting, Running, Msg
<1>3. Channel!Init
  BY DEF Init, Channel!Init, Channel!Msg, Msg, TaskGone
<1> QED  BY <1>2, <1>3

\* Every step of the session is a step of the channel or hidden from its users.
LEMMA StepRefines ==
  ASSUME Unserializable = {}, Inv, Reporting, [Next]_vars
  PROVE  Reporting' /\ ChannelStep
<1> USE DEF appVars, clientVars, netVars, procVars, rxVars, srvVars
<1>0. Inv'
  BY NextInv
<1>1. CASE Post
  BY <1>1, PostRefines
<1>2. CASE DropTx
  BY <1>2, QuietRefines DEF DropTx
<1>3. CASE ClientNext
  <2>1. CASE LazyRecv
    BY <2>1, PushBackRefines DEF LazyRecv
  <2>2. CASE LazyClosed
    BY <2>2, LazyClosedRefines
  <2>3. CASE Connect
    BY <2>3, ConnectRefines
  <2>4. CASE ConnectFails \/ SendOversized \/ AppClosed
    BY <2>4, CloseRefines DEF ConnectFails, SendOversized, AppClosed, Selecting
  <2>5. CASE WriteFrame
    BY <1>0, <2>5, WriteFrameRefines
  <2>6. CASE ReadAck
    BY <1>0, <2>6, ReadAckRefines
  <2>7. CASE ReadTerminal
    BY <2>7, ReadTerminalStep
  <2>8. CASE Disconnect
    BY <2>8, QuietRefines DEF Disconnect, Selecting
  <2>9. CASE RecvNew
    BY <2>9, PushBackRefines DEF RecvNew, Selecting
  <2> QED  BY <1>3, <2>1, <2>2, <2>3, <2>4, <2>5, <2>6, <2>7, <2>8, <2>9 DEF ClientNext
<1>4. CASE ServerNext
  <2>1. CASE Deliver
    BY <2>1, DeliverRefines
  <2>2. CASE ~Deliver
    BY <1>4, <2>2, QuietRefines
       DEF ServerNext, Dispatch, ServeNext, BeginAck, AckWritten, ReadRetransmit, ReadNext,
           RecvEof, ReadAhead, RxRecv
  <2> QED  BY <2>1, <2>2
<1>5. CASE \E c \in Conn : Break(c)
  BY <1>5, QuietRefines DEF Break
<1>6. CASE TimerNext
  BY <1>6, CloseRefines DEF TimerNext, ConnectDeadline, DeliveryTimeout, Selecting
<1>7. CASE UNCHANGED vars
  BY <1>7, QuietRefines DEF vars
<1> QED  BY <1>1, <1>2, <1>3, <1>4, <1>5, <1>6, <1>7 DEF Next, PatientNext

\* The boundary between the accepted messages and the rest is where the task's run
\* starts, in every state of a session whose server stays up.
THEOREM ReportInvariant ==
  ASSUME Unserializable = {}
  PROVE  Spec => []ReportInv
<1>1. Init => ReportInv
  BY InitInv, InitRefines DEF ReportInv
<1>2. ReportInv /\ [Next]_vars => ReportInv'
  BY NextInv, StepRefines DEF ReportInv
<1> QED  BY <1>1, <1>2, PTL DEF Spec

\* The session implements the channel it promises: in order, at most once, none left
\* out, accepted only after arrival, and the rest rejected when it closes; through any
\* number of connections, breaks, retransmissions and early acks.
THEOREM SessionImplementsChannel ==
  ASSUME Unserializable = {}
  PROVE  Spec => ImplementsChannel
<1>1. Init => Channel!Init
  BY InitRefines
<1>2. ReportInv /\ [Next]_vars => [Channel!Next]_<<posted, delivered, outcome, ~TaskGone>>
  BY StepRefines DEF ReportInv, ChannelStep
<1> QED  BY <1>1, <1>2, ReportInvariant, PTL DEF Spec, ImplementsChannel, Channel!Spec

\* Every completion is resolved once and in the order of the posts, or is in one place
\* in the task's hands: none is lost in a requeue, a prune or the final drain.
THEOREM CompletionsAreExact ==
  ASSUME Unserializable = {}
  PROVE  Spec => []CompletionsExact
<1>1. ReportInv => CompletionsExact
  <2> SUFFICES ASSUME Inv, Reporting PROVE NoPostLost /\ AcceptedInOrder
    BY DEF ReportInv, CompletionsExact
  <2>1. PICK hand : hand = InQueue \cup MsgsOf(Run)
    OBVIOUS
  <2>2. /\ RunStart \in Nat /\ OutboxStart \in Nat /\ NextSeq \in Nat /\ posted \in Nat
        /\ Len(unacked) \in Nat /\ Len(outbox) \in Nat /\ Len(queue) \in Nat
        /\ OutboxStart = RunStart + Len(unacked) /\ NextSeq = OutboxStart + Len(outbox)
        /\ NextSeq = Len(sent) /\ posted <= MaxPosts /\ MaxPosts \in Nat
    BY Boundaries
  <2>3. /\ Run \in Seq(Nat) /\ Len(Run) = Len(unacked) + Len(outbox)
        /\ \A i \in 1..(Len(unacked) + Len(outbox)) :
             Run[i] = IF i <= Len(unacked) THEN unacked[i] ELSE outbox[i - Len(unacked)]
    BY CatFacts DEF Run, Inv, TypeClient
  <2>4. CASE phase = "closed"
    <3>1. /\ queue = <<>> /\ outbox = <<>> /\ unacked = <<>>
          /\ \E n \in 0..posted : \A m \in Msg :
               outcome[m] = IF m <= n THEN "accepted"
                            ELSE IF m <= posted THEN "rejected" ELSE "pending"
      BY <2>4 DEF Reporting, Gone
    <3>2. Len(queue) = 0 /\ Len(Run) = 0 /\ DOMAIN queue = {} /\ DOMAIN Run = {}
      BY <2>3, <3>1
    <3>3. hand = {}
      BY <2>1, <3>2 DEF InQueue, MsgsOf
    <3>4. \A m \in 1..posted : m \in Msg /\ outcome[m] # "pending"
      BY <2>2, <3>1 DEF Msg
    <3>5. NoPostLost
      BY <2>1, <3>2, <3>3, <3>4, FS_EmptySet DEF NoPostLost
    <3>6. AcceptedInOrder
      BY <2>2, <3>1 DEF AcceptedInOrder, Reported, Msg
    <3> QED  BY <3>5, <3>6
  <2>5. CASE phase # "closed"
    <3>1. \A m \in Msg : m \in Nat /\ outcome[m] = IF m <= RunStart THEN "accepted" ELSE "pending"
      BY <2>5 DEF Reporting, Running, Msg
    <3>2. posted = NextSeq + Len(queue)
      BY <2>2, <2>5 DEF Reporting, Running
    <3>3. \A m : m \in MsgsOf(Run) <=> m \in MsgsOf(unacked) \cup MsgsOf(outbox)
      <4>1. DOMAIN unacked = 1..Len(unacked) /\ DOMAIN outbox = 1..Len(outbox)
            /\ DOMAIN Run = 1..(Len(unacked) + Len(outbox))
        BY <2>3 DEF Inv, TypeClient
      <4>2. \A i \in DOMAIN unacked : i \in DOMAIN Run /\ Run[i] = unacked[i]
        BY <2>2, <2>3, <4>1
      <4>3. \A i \in DOMAIN outbox :
              i + Len(unacked) \in DOMAIN Run /\ Run[i + Len(unacked)] = outbox[i]
        <5> SUFFICES ASSUME NEW i \in 1..Len(outbox)
                     PROVE  /\ i + Len(unacked) \in 1..(Len(unacked) + Len(outbox))
                            /\ Run[i + Len(unacked)] = outbox[i]
          BY <4>1
        <5>1. PICK k \in Nat : k = i + Len(unacked)
          BY <2>2
        <5>2. k \in 1..(Len(unacked) + Len(outbox)) /\ ~(k <= Len(unacked)) /\ k - Len(unacked) = i
          BY <2>2, <5>1
        <5> QED  BY <2>3, <5>1, <5>2
      <4>4. \A i \in DOMAIN Run :
              \/ i \in DOMAIN unacked /\ Run[i] = unacked[i]
              \/ i - Len(unacked) \in DOMAIN outbox /\ Run[i] = outbox[i - Len(unacked)]
        <5> SUFFICES ASSUME NEW i \in 1..(Len(unacked) + Len(outbox))
                     PROVE  \/ i \in 1..Len(unacked) /\ Run[i] = unacked[i]
                            \/ /\ i - Len(unacked) \in 1..Len(outbox)
                               /\ Run[i] = outbox[i - Len(unacked)]
          BY <4>1
        <5>1. CASE i <= Len(unacked)
          <6>1. i \in 1..Len(unacked)
            BY <2>2, <5>1
          <6> QED  BY <2>3, <5>1, <6>1
        <5>2. CASE ~(i <= Len(unacked))
          <6>1. i - Len(unacked) \in 1..Len(outbox)
            BY <2>2, <5>2
          <6> QED  BY <2>3, <5>2, <6>1
        <5> QED  BY <5>1, <5>2
      <4> QED  BY <4>2, <4>3, <4>4 DEF MsgsOf
    <3>4. \A m : m \in hand <=> m \in (RunStart + 1)..posted
      <4>1. \A m : m \in hand <=> m \in Owned
        BY <2>1, <3>3 DEF Owned
      <4> QED  BY <2>5, <4>1, OwnedExact
    <3>5. hand = (RunStart + 1)..posted
      BY <3>4
    <3>6. Cardinality(hand) = posted - RunStart
      <4>1. RunStart + 1 \in Int /\ posted \in Int /\ RunStart <= posted
        BY <2>2, <3>2
      <4>2. Cardinality((RunStart + 1)..posted)
            = IF RunStart + 1 > posted THEN 0 ELSE posted - (RunStart + 1) + 1
        BY <4>1, FS_Interval
      <4> QED  BY <2>2, <3>5, <4>1, <4>2
    <3>7. Len(queue) + Len(Run) = Cardinality(hand)
      <4>1. posted - RunStart = Len(queue) + (Len(unacked) + Len(outbox))
        BY <2>2, <3>2
      <4> QED  BY <2>3, <3>6, <4>1
    <3>8. {m \in 1..posted : outcome[m] = "pending"} = hand
      <4>1. \A m \in 1..posted : m \in Msg
        BY <2>2 DEF Msg
      <4>2. \A m : m \in 1..posted /\ outcome[m] = "pending" <=> m \in (RunStart + 1)..posted
        BY <2>2, <3>1, <4>1
      <4> QED  BY <3>5, <4>2
    <3>9. NoPostLost
      BY <2>1, <3>7, <3>8 DEF NoPostLost
    <3>10. AcceptedInOrder
      BY <2>2, <3>1 DEF AcceptedInOrder, Reported
    <3> QED  BY <3>9, <3>10
  <2> QED  BY <2>4, <2>5
<1> QED  BY <1>1, ReportInvariant, PTL

-----------------------------------------------------------------------------
(* Faults: the server is stopped, and its process dies and comes back.     *)

\* A client whatever the server does: a message leaves its run only through an ack.
ClientSide ==
  /\ TypeClient /\ InvDeques /\ InvOrder
  /\ ~TaskGone => reason = "none" /\ RunStart <= largestAcked + 1
  /\ phase \in {"connecting", "connected"} => NextSeq > 0
  /\ Unserializable = {} /\ largestAcked = -1 => \A m \in Msg : outcome[m] # "accepted"

\* It has let go of every connection but its own, and frames are numbers it has given.
Wires ==
  /\ TypeNet
  /\ IF phase = "connected" THEN cur \in 1..nconn ELSE cur = 0
  /\ clientEnd \subseteq {cur} /\ \A c \in Conn : c # cur => s2c[c] = <<>>
  /\ \A c \in Conn : c > nconn => c2s[c] = <<>> /\ c \notin intact
  /\ \A c \in Conn : \A i \in 1..Len(c2s[c]) : c2s[c][i] < NextSeq

\* A server, stopped or not.
ServerSide ==
  /\ TypeServer
  /\ proc = "serving" => serving \in Conn
  /\ held # -1 => proc = "serving" /\ held < NextSeq
  /\ consumed <= Len(delivered)

\* The two ends and what is between them.
Sides == ClientSide /\ Wires /\ ServerSide

\* A process of the server that no client has connected to yet.
Untouched ==
  /\ backlog = {} /\ proc = "none" /\ connq = <<>> /\ serving = 0 /\ serverEnd = {}
  /\ next = [seq |-> 0, ack |-> 0] /\ pendingAck = 0 /\ held = -1
  /\ delivered = <<>> /\ consumed = 0
  /\ \A c \in Conn : c2s[c] = <<>>

\* How often number 0 is in a queue of frames.
NoZero(w)  == \A i \in 1..Len(w) : w[i] # 0
OneZero(w) == \A i, j \in 1..Len(w) : w[i] = 0 /\ w[j] = 0 => i = j

\* The frame with number 0 is in one place: with the client, on a connection, in the hands
\* of the server, or delivered.
ZeroOnce ==
  /\ \A c \in Conn : OneZero(c2s[c])
  /\ \A c, d \in Conn : c # d => NoZero(c2s[c]) \/ NoZero(c2s[d])
  /\ held = 0 \/ ~NoZero(outbox) \/ delivered # <<>> => \A c \in Conn : NoZero(c2s[c])
  /\ held = 0 => NoZero(outbox)
  /\ delivered # <<>> => held # 0 /\ NoZero(outbox)

\* A client that has acks of an earlier process writes number 0 once at most, and no
\* session delivers anything before it: only one session of this process does.
Once ==
  /\ largestAcked >= 0 /\ NextSeq > 0 /\ ZeroOnce
  /\ proc # "none" => next.seq \in {0, Len(delivered)}
  /\ held # -1 => held = next.seq
  /\ Len(delivered) <= NextSeq
  /\ \A i \in 1..Len(delivered) : delivered[i] = sent[i]

\* Until it is stopped, a server is untouched, or everything is as without faults, or its
\* client has acks of an earlier one.  After the stop nobody reads.
FaultInv ==
  /\ Sides /\ ReceivedInOrder
  /\ ~cancelled => rxOpen /\ (Inv \/ Untouched \/ Once)

\* A step of the client that writes nothing: it may number one more message.
ClientMoved ==
  /\ Sides' /\ UNCHANGED <<c2s, serverEnd, procVars, rxVars, srvVars>>
  /\ largestAcked >= 0 => largestAcked' >= 0
  /\ NextSeq > 0 /\ NoZero(outbox) => NoZero(outbox')
  /\ NextSeq \in Nat /\ NextSeq' \in Nat /\ NextSeq' >= NextSeq
  /\ \A i \in 1..NextSeq : sent'[i] = sent[i]

\* The client's own variables.
txVars == <<posted, txOpen, outcome, queue, phase, reason, sent, outbox, unacked, largestAcked>>

\* A step that leaves them alone.
LEMMA ClientSideKept ==
  ASSUME ClientSide, UNCHANGED txVars PROVE ClientSide'
BY DEF txVars, ClientSide, TypeClient, InvDeques, InvOrder, TaskGone, RunStart, OutboxStart, NextSeq

\* do_post, and the end of the handles.
LEMMA ClientPosts ==
  ASSUME ClientSide, Post \/ DropTx PROVE ClientSide' /\ NextSeq' = NextSeq
<1> USE DEF clientVars, appVars
<1>1. CASE DropTx
  BY <1>1 DEF DropTx, ClientSide, TypeClient, InvDeques, InvOrder, TaskGone, RunStart, OutboxStart,
     NextSeq
<1>2. CASE Post
  <2>1. /\ posted' = posted + 1 /\ posted < MaxPosts /\ posted \in Nat /\ MaxPosts \in Nat
        /\ UNCHANGED <<txOpen, phase, reason, sent, outbox, unacked, largestAcked>>
    BY <1>2, ConstantAssumption DEF Post, ClientSide, TypeClient
  <2>2. queue \in Seq(Msg) /\ sent \in Seq(Msg) /\ posted + 1 \in Msg
    BY <2>1 DEF ClientSide, TypeClient, Msg
  <2>3. /\ \A i \in 1..Len(queue) : queue[i] \in Nat
        /\ \A i \in 1..Len(sent) : sent[i] \in Nat
    BY <2>2, MsgFacts
  <2>4. /\ outcome' \in [Msg -> {"pending", "accepted", "rejected", "dropped"}]
        /\ \A m \in Msg : outcome'[m] = "accepted" => outcome[m] = "accepted"
    BY <1>2 DEF Post, Resolve, ClientSide, TypeClient
  <2>5. queue' \in Seq(Msg) /\ InvOrder'
    <3>1. InvOrder
      BY DEF ClientSide
    <3>2. CASE queue' = queue
      BY <2>1, <2>2, <2>3, <3>1, <3>2 DEF InvOrder
    <3>3. CASE queue' # queue
      <4>1. queue' = Append(queue, posted + 1)
        BY <1>2, <3>3 DEF Post
      <4>2. /\ queue' \in Seq(Msg) /\ Len(queue') = Len(queue) + 1 /\ Len(queue) \in Nat
            /\ \A i \in 1..Len(queue') : \/ i \in 1..Len(queue) /\ queue'[i] = queue[i]
                                         \/ i = Len(queue) + 1 /\ queue'[i] = posted + 1
        BY <2>2, <4>1, AppendFacts
      <4>3. \A i, j \in 1..Len(queue') : i < j => queue'[i] < queue'[j]
        BY <2>1, <2>3, <3>1, <4>2 DEF InvOrder
      <4>4. \A i \in 1..Len(sent'), j \in 1..Len(queue') : sent'[i] < queue'[j]
        BY <2>1, <2>3, <3>1, <4>2 DEF InvOrder
      <4>5. /\ \A i \in 1..Len(sent') : sent'[i] <= posted'
            /\ \A i \in 1..Len(queue') : queue'[i] <= posted'
        BY <2>1, <2>3, <3>1, <4>2 DEF InvOrder
      <4>6. \A i, j \in 1..Len(sent') : i < j => sent'[i] < sent'[j]
        BY <2>1, <3>1 DEF InvOrder
      <4> QED  BY <4>2, <4>3, <4>4, <4>5, <4>6 DEF InvOrder
    <3> QED  BY <3>2, <3>3
  <2>6. TypeClient'
    BY <2>1, <2>4, <2>5 DEF ClientSide, TypeClient
  <2>7. InvDeques'
    BY <2>1, Frames DEF ClientSide
  <2> QED  BY <2>1, <2>4, <2>5, <2>6, <2>7 DEF ClientSide, TaskGone, RunStart, OutboxStart, NextSeq
<1> QED  BY <1>1, <1>2

\* The task ends, in order or in a panic.
LEMMA ClientEnds ==
  ASSUME ClientSide, NEW why \in {"stale_session", "oversized", "other"}, CloseTx(why) \/ Panic,
         UNCHANGED appVars
  PROVE  ClientSide' /\ NextSeq' = NextSeq
<1>1. /\ unacked' = <<>> /\ outbox' = <<>> /\ queue' = <<>>
      /\ UNCHANGED <<sent, largestAcked, posted, txOpen>>
      /\ phase' \in {"closed", "panicked"} /\ reason' \in {"none", why}
      /\ outcome' \in [Msg -> {"pending", "accepted", "rejected", "dropped"}]
      /\ \A m \in Msg : outcome'[m] = "accepted" => outcome[m] = "accepted"
  <2>1. \E how \in {"rejected", "dropped"} : outcome' = Resolve(Owned, how)
    BY DEF CloseTx, Panic
  <2>2. PICK how \in {"rejected", "dropped"} : outcome' = Resolve(Owned, how)
    BY <2>1
  <2>3. /\ outcome' \in [Msg -> {"pending", "accepted", "rejected", "dropped"}]
        /\ \A m \in Msg : outcome'[m] = "accepted" => outcome[m] = "accepted"
    BY <2>2 DEF Resolve, ClientSide, TypeClient
  <2> QED  BY <2>3 DEF CloseTx, Panic, appVars
<1>2. /\ unacked' \in Seq(Nat) /\ outbox' \in Seq(Nat) /\ queue' \in Seq(Msg)
      /\ Len(unacked') = 0 /\ Len(outbox') = 0 /\ Len(queue') = 0
  BY <1>1
<1>3. TypeClient'
  BY <1>1, <1>2 DEF ClientSide, TypeClient
<1>4. InvDeques'
  BY <1>1, <1>2, MsgFacts DEF ClientSide, TypeClient, InvDeques, NextSeq
<1>5. InvOrder'
  BY <1>1, <1>2 DEF ClientSide, InvOrder
<1>6. TaskGone' /\ phase' \notin {"connecting", "connected"} /\ NextSeq' = NextSeq
  BY <1>1 DEF TaskGone, NextSeq
<1> QED  BY <1>1, <1>3, <1>4, <1>5, <1>6 DEF ClientSide

\* Outbox::push_back.
LEMMA ClientPushes ==
  ASSUME ClientSide, ~TaskGone, queue # <<>>, PushBack,
         UNCHANGED <<posted, txOpen, unacked, largestAcked, reason>>,
         phase' \in {"connecting", "connected"}
  PROVE  ClientSide' /\ NextSeq \in Nat /\ NextSeq' = NextSeq + 1
<1>1. /\ sent' \in Seq(Msg) /\ queue' \in Seq(Msg) /\ outbox' \in Seq(Nat)
      /\ NextSeq' = NextSeq + 1 /\ NextSeq \in Nat /\ RunStart' = RunStart
      /\ outcome' = outcome /\ InvDeques' /\ InvOrder'
  BY Pushed DEF ClientSide
<1>2. TypeClient'
  BY <1>1 DEF ClientSide, TypeClient
<1> QED  BY <1>1, <1>2 DEF ClientSide, TaskGone

\* A message that cannot be serialized ends the lazy task or the connection; the first
\* connection may not be needed at all.
LEMMA ClientSkips ==
  ASSUME ClientSide, ~TaskGone, UNCHANGED <<posted, txOpen, unacked, largestAcked, sent, outbox>>,
         \/ /\ phase' = "closed" /\ reason' = "other" /\ queue' = <<>>
            /\ Head(queue) \in Unserializable
            /\ outcome' = [m \in Msg |-> IF m = Head(queue) THEN "accepted"
                                         ELSE IF m \in InQueue THEN "dropped" ELSE outcome[m]]
         \/ /\ phase = "connected" /\ phase' = "connecting" /\ UNCHANGED reason
            /\ queue # <<>> /\ queue' = Tail(queue)
            /\ Head(queue) \in Unserializable /\ outcome' = Resolve({Head(queue)}, "accepted")
         \/ phase' = "closed" /\ reason' = "other" /\ UNCHANGED <<queue, outcome>>
         \/ phase = "connected" /\ phase' = "connecting" /\ UNCHANGED <<reason, queue, outcome>>
  PROVE  ClientSide' /\ NextSeq' = NextSeq
<1>1. /\ queue \in Seq(Msg) /\ outcome \in [Msg -> {"pending", "accepted", "rejected", "dropped"}]
      /\ InvOrder
  BY DEF ClientSide, TypeClient
<1>2. /\ outcome' \in [Msg -> {"pending", "accepted", "rejected", "dropped"}]
      /\ Unserializable = {} => outcome' = outcome
  BY <1>1 DEF Resolve
<1>3. queue' \in Seq(Msg) /\ InvOrder'
  <2>1. CASE queue' = queue
    BY <1>1, <2>1, Frames DEF InvOrder
  <2>2. CASE queue' = <<>>
    BY <1>1, <2>2, EmptyFacts DEF InvOrder
  <2>3. CASE queue # <<>> /\ queue' = Tail(queue)
    <3>1. /\ queue' \in Seq(Msg) /\ Len(queue') = Len(queue) - 1 /\ Len(queue) \in Nat
          /\ \A i \in 1..Len(queue') : queue'[i] = queue[i + 1]
      BY <1>1, <2>3, TailFacts
    <3>2. \A i \in 1..Len(queue') : i + 1 \in 1..Len(queue) /\ queue'[i] = queue[i + 1]
      BY <3>1
    <3>3. \A i, j \in 1..Len(queue') : i < j => queue'[i] < queue'[j]
      <4> SUFFICES ASSUME NEW i \in 1..Len(queue'), NEW j \in 1..Len(queue'), i < j
                   PROVE  queue'[i] < queue'[j]
        OBVIOUS
      <4>1. i + 1 < j + 1 /\ i + 1 \in 1..Len(queue) /\ j + 1 \in 1..Len(queue)
        BY <3>1
      <4> QED  BY <1>1, <3>2, <4>1 DEF InvOrder
    <3>4. /\ \A i \in 1..Len(sent'), j \in 1..Len(queue') : sent'[i] < queue'[j]
          /\ \A i \in 1..Len(queue') : queue'[i] <= posted'
      BY <1>1, <3>2 DEF InvOrder
    <3> QED  BY <1>1, <3>1, <3>3, <3>4 DEF InvOrder
  <2> QED  BY <2>1, <2>2, <2>3
<1>4. TypeClient' /\ InvDeques'
  BY <1>2, <1>3, Frames DEF ClientSide, TypeClient
<1>5. NextSeq' = NextSeq /\ RunStart' = RunStart
  BY DEF NextSeq, RunStart, OutboxStart
<1> QED  BY <1>2, <1>3, <1>4, <1>5 DEF ClientSide, TaskGone

\* requeue_unacked makes one run of both deques.
LEMMA ClientConnects ==
  ASSUME ClientSide, phase = "connecting", phase' = "connected", outbox' = unacked \o outbox,
         unacked' = <<>>, UNCHANGED <<posted, txOpen, outcome, queue, reason, sent, largestAcked>>
  PROVE  /\ ClientSide' /\ NextSeq' = NextSeq /\ NextSeq > 0
         /\ OutboxStart' = RunStart /\ RunStart' = RunStart
<1>1. outbox \in Seq(Nat) /\ unacked \in Seq(Nat) /\ sent \in Seq(Msg) /\ InvDeques
  BY DEF ClientSide, TypeClient
<1>2. /\ outbox' \in Seq(Nat) /\ Len(outbox') = Len(unacked) + Len(outbox)
      /\ \A i \in 1..(Len(unacked) + Len(outbox)) : outbox'[i] =
           IF i <= Len(unacked) THEN unacked[i] ELSE outbox[i - Len(unacked)]
      /\ Len(unacked) \in Nat /\ Len(outbox) \in Nat
  BY <1>1, CatFacts
<1>3. unacked' \in Seq(Nat) /\ Len(unacked') = 0 /\ Len(sent) \in Nat
  BY <1>1, EmptyFacts
<1>4. NextSeq' = NextSeq /\ OutboxStart' = RunStart /\ RunStart' = RunStart
  BY <1>2, <1>3 DEF NextSeq, OutboxStart, RunStart
<1>5. \A i \in 1..Len(outbox') : outbox'[i] = RunStart + i - 1
  <2> SUFFICES ASSUME NEW i \in 1..Len(outbox') PROVE outbox'[i] = RunStart + i - 1
    OBVIOUS
  <2>1. CASE i <= Len(unacked)
    <3>1. i \in 1..Len(unacked) /\ outbox'[i] = unacked[i]
      BY <2>1, <1>2
    <3> QED  BY <3>1, <1>1 DEF InvDeques
  <2>2. CASE ~(i <= Len(unacked))
    <3>1. i - Len(unacked) \in 1..Len(outbox)
      BY <2>2, <1>2
    <3>2. outbox'[i] = OutboxStart + (i - Len(unacked)) - 1
      BY <2>2, <3>1, <1>1, <1>2 DEF InvDeques
    <3> QED  BY <3>2, <1>2, <1>3 DEF RunStart, OutboxStart, NextSeq
  <2> QED  BY <2>1, <2>2
<1>6. InvDeques'
  BY <1>1, <1>2, <1>3, <1>4, <1>5 DEF InvDeques
<1>7. TypeClient' /\ InvOrder'
  BY <1>2, <1>3, Frames DEF ClientSide, TypeClient
<1> QED  BY <1>4, <1>6, <1>7 DEF ClientSide, TaskGone

\* A write moves the front of the outbox to unacked, unless it is acked already.
LEMMA ClientWrites ==
  ASSUME ClientSide, WriteFrame
  PROVE  /\ ClientSide' /\ NextSeq' = NextSeq /\ Head(outbox) \in Nat /\ Head(outbox) < NextSeq
         /\ NextSeq \in Nat
<1> DEFINE h == Head(outbox)
<1>1. /\ phase = "connected" /\ outbox # <<>> /\ outbox' = Tail(outbox) /\ Moved(h)
      /\ UNCHANGED <<posted, txOpen, queue, phase, reason, sent, largestAcked>>
  BY DEF WriteFrame, Selecting, appVars
<1>2. /\ outbox \in Seq(Nat) /\ unacked \in Seq(Nat) /\ sent \in Seq(Msg) /\ largestAcked \in Int
      /\ InvDeques /\ RunStart <= largestAcked + 1
  BY <1>1 DEF ClientSide, TypeClient, TaskGone
<1>3. /\ outbox' \in Seq(Nat) /\ Len(outbox') = Len(outbox) - 1
      /\ \A i \in 1..Len(outbox') : outbox'[i] = outbox[i + 1]
      /\ h = outbox[1] /\ h \in Nat /\ Len(outbox) \in Nat /\ Len(outbox) >= 1
  BY <1>1, <1>2, TailFacts
<1> HIDE DEF h
<1>4. Len(sent) \in Nat /\ Len(unacked) \in Nat
  BY <1>2, EmptyFacts
<1>5. /\ NextSeq' = NextSeq /\ NextSeq \in Nat /\ OutboxStart' = OutboxStart + 1
      /\ OutboxStart \in Int /\ RunStart = OutboxStart - Len(unacked)
      /\ RunStart' = OutboxStart' - Len(unacked')
  BY <1>1, <1>3, <1>4 DEF NextSeq, OutboxStart, RunStart
<1>6. h = OutboxStart /\ h < NextSeq
  <2>1. outbox[1] = OutboxStart + 1 - 1 /\ Len(outbox) + Len(unacked) <= NextSeq
    BY <1>2, <1>3 DEF InvDeques
  <2> QED  BY <2>1, <1>3, <1>4, <1>5 DEF OutboxStart
<1>7. \A i \in 1..Len(unacked) : unacked[i] = RunStart + i - 1 /\ unacked[i] > largestAcked
  BY <1>2 DEF InvDeques
<1>8. /\ unacked' \in Seq(Nat) /\ Len(unacked') \in Nat /\ Len(unacked') <= Len(unacked) + 1
      /\ RunStart' \in Int /\ RunStart' <= largestAcked + 1
      /\ \A i \in 1..Len(unacked') : unacked'[i] = RunStart' + i - 1 /\ unacked'[i] > largestAcked
  <2>1. CASE h <= largestAcked
    <3>1. unacked' = unacked
      BY <1>1, <2>1 DEF Moved, AckedEarly
    <3>2. Len(unacked) = 0
      <4>1. SUFFICES ASSUME Len(unacked) # 0 PROVE FALSE
        OBVIOUS
      <4>2. Len(unacked) \in 1..Len(unacked)
        BY <4>1, <1>4
      <4>3. RunStart + Len(unacked) - 1 > largestAcked
        BY <4>2, <1>7
      <4> QED  BY <4>3, <2>1, <1>2, <1>4, <1>5, <1>6
    <3> QED  BY <1>2, <1>3, <1>5, <1>6, <2>1, <3>1, <3>2
  <2>2. CASE ~(h <= largestAcked)
    <3>1. unacked' = Append(unacked, h)
      BY <1>1, <2>2 DEF Moved, AckedEarly
    <3>2. /\ unacked' \in Seq(Nat) /\ Len(unacked') = Len(unacked) + 1
          /\ \A i \in 1..Len(unacked') : \/ i \in 1..Len(unacked) /\ unacked'[i] = unacked[i]
                                         \/ i = Len(unacked) + 1 /\ unacked'[i] = h
      BY <3>1, <1>2, <1>3, AppendFacts
    <3>3. RunStart' = RunStart /\ RunStart \in Int
      BY <3>2, <1>4, <1>5
    <3>4. h > largestAcked /\ h = RunStart + (Len(unacked) + 1) - 1
      BY <2>2, <1>2, <1>3, <1>4, <1>5, <1>6
    <3>5. \A i \in 1..Len(unacked') : unacked'[i] = RunStart' + i - 1 /\ unacked'[i] > largestAcked
      BY <3>2, <3>3, <3>4, <1>7
    <3> QED  BY <3>2, <3>3, <3>5, <1>2, <1>4
  <2> QED  BY <2>1, <2>2
<1>9. InvDeques'
  <2>1. Len(outbox') + Len(unacked') <= NextSeq'
    BY <1>2, <1>3, <1>4, <1>5, <1>8 DEF InvDeques
  <2>2. \A i \in 1..Len(outbox) : outbox[i] = OutboxStart + i - 1
    BY <1>2 DEF InvDeques
  <2>3. \A i \in 1..Len(outbox') : outbox'[i] = OutboxStart' + i - 1
    <3>1. \A i \in 1..Len(outbox') : i + 1 \in 1..Len(outbox)
      BY <1>3
    <3> QED  BY <3>1, <2>2, <1>3, <1>5
  <2> QED  BY <2>1, <2>3, <1>1, <1>8 DEF InvDeques
<1>10. /\ outcome' \in [Msg -> {"pending", "accepted", "rejected", "dropped"}]
       /\ largestAcked = -1 => outcome' = outcome
  <2>1. outcome \in [Msg -> {"pending", "accepted", "rejected", "dropped"}]
    BY DEF ClientSide, TypeClient
  <2>2. CASE h <= largestAcked
    <3>1. outcome' = Resolve({sent[h + 1]}, "accepted")
      BY <1>1, <2>2 DEF Moved, AckedEarly
    <3> QED  BY <3>1, <2>1, <2>2, <1>3 DEF Resolve
  <2>3. CASE ~(h <= largestAcked)
    BY <1>1, <2>1, <2>3 DEF Moved, AckedEarly
  <2> QED  BY <2>2, <2>3
<1>11. TypeClient' /\ InvOrder'
  BY <1>1, <1>3, <1>8, <1>10, Frames DEF ClientSide, TypeClient
<1>12. ClientSide'
  BY <1>1, <1>5, <1>8, <1>9, <1>10, <1>11 DEF ClientSide, TaskGone
<1> QED  BY <1>3, <1>5, <1>6, <1>12 DEF h

\* An ack takes the front of unacked away, as far as it reaches.
LEMMA ClientPrunes ==
  ASSUME ClientSide, NEW a \in Nat, largestAcked <= a, Prune(a), phase = "connected",
         UNCHANGED <<posted, txOpen, phase, reason, sent, outbox, queue>>
  PROVE  ClientSide' /\ NextSeq' = NextSeq
<1>1. PICK n \in 0..Len(unacked) :
        /\ \A i \in 1..n : unacked[i] <= a
        /\ n < Len(unacked) => unacked[n + 1] > a
        /\ unacked' = SubSeq(unacked, n + 1, Len(unacked))
        /\ outcome' = Resolve({sent[unacked[i] + 1] : i \in 1..n}, "accepted")
  BY DEF Prune
<1>2. /\ largestAcked' = a /\ unacked \in Seq(Nat) /\ sent \in Seq(Msg) /\ outbox \in Seq(Nat)
      /\ Len(unacked) \in Nat /\ Len(sent) \in Nat /\ Len(outbox) \in Nat /\ largestAcked \in Int
      /\ n \in Nat /\ n <= Len(unacked) /\ InvDeques /\ RunStart <= largestAcked + 1
  BY <1>1 DEF Prune, ClientSide, TypeClient, TaskGone
<1>3. /\ unacked' \in Seq(Nat) /\ Len(unacked') = Len(unacked) - n
      /\ \A i \in 1..Len(unacked') : unacked'[i] = unacked[n + i]
  BY <1>1, <1>2, SMTT(30)
<1>4. \A i \in 1..Len(unacked) : unacked[i] = RunStart + i - 1
  BY <1>2 DEF InvDeques
<1>5. /\ NextSeq' = NextSeq /\ OutboxStart' = OutboxStart
      /\ RunStart' = RunStart + n /\ RunStart \in Int
  BY <1>2, <1>3 DEF NextSeq, OutboxStart, RunStart
<1>6. RunStart + n <= a + 1
  <2>1. CASE n = 0
    BY <2>1, <1>2, <1>5
  <2>2. CASE n # 0
    <3>1. n \in 1..n /\ n \in 1..Len(unacked)
      BY <2>2, <1>2
    <3>2. unacked[n] <= a /\ unacked[n] = RunStart + n - 1
      BY <3>1, <1>1, <1>4
    <3> QED  BY <3>2, <1>2, <1>5
  <2> QED  BY <2>1, <2>2
<1>7. InvDeques'
  <2>1. ASSUME NEW i \in 1..Len(unacked') PROVE n + i \in 1..Len(unacked)
    <3>1. i \in Nat /\ 1 <= i /\ i <= Len(unacked) - n
      BY <1>2, <1>3
    <3> QED  BY <1>2, <3>1
  <2>2. \A i \in 1..Len(unacked') : unacked'[i] = (RunStart + n) + i - 1
    BY <2>1, <1>2, <1>3, <1>4, <1>5
  <2>3. Len(unacked') # 0 => n + 1 \in 1..Len(unacked) /\ RunStart + n > a
    BY <1>1, <1>2, <1>3, <1>4, <1>5
  <2>4. ASSUME NEW i \in 1..Len(unacked') PROVE unacked'[i] > a
    <3>1. Len(unacked') # 0 /\ i \in Nat /\ i >= 1
      BY <1>2, <1>3
    <3> QED  BY <3>1, <2>2, <2>3, <1>2, <1>5
  <2>5. Len(outbox) + Len(unacked') <= NextSeq
    BY <1>2, <1>3 DEF InvDeques, NextSeq
  <2> QED  BY <2>2, <2>4, <2>5, <1>2, <1>5 DEF InvDeques
<1>8. outcome' \in [Msg -> {"pending", "accepted", "rejected", "dropped"}]
  BY <1>1 DEF ClientSide, TypeClient, Resolve
<1>9. TypeClient' /\ InvOrder'
  BY <1>2, <1>3, <1>8, Frames DEF ClientSide, TypeClient
<1>10. largestAcked' # -1
  BY <1>2
<1> QED  BY <1>2, <1>5, <1>6, <1>7, <1>9, <1>10 DEF ClientSide, TaskGone

\* What a step may do to the connections without opening or leaving one.
LEMMA WiresKept ==
  ASSUME Wires, NextSeq \in Nat, NextSeq' \in Nat, NextSeq' >= NextSeq, breaks' \in Nat,
         UNCHANGED <<cur, nconn, clientEnd>>, phase' = "connected" <=> phase = "connected",
         intact' \subseteq intact, serverEnd' \subseteq serverEnd,
         c2s' \in [Conn -> Seq(Nat)], s2c' \in [Conn -> Seq(Response)],
         \A c \in Conn : c # cur /\ s2c[c] = <<>> => s2c'[c] = <<>>,
         \A c \in Conn : c > nconn /\ c2s[c] = <<>> => c2s'[c] = <<>>,
         \A c \in Conn : \A i \in 1..Len(c2s'[c]) : c2s'[c][i] < NextSeq'
  PROVE  Wires'
<1>1. TypeNet'
  BY DEF Wires, TypeNet
<1> QED  BY <1>1 DEF Wires

\* Numbers that were given stay given.
LEMMA FramesBelow ==
  ASSUME Wires, NextSeq \in Nat, NextSeq' \in Nat, NextSeq' >= NextSeq
  PROVE  \A c \in Conn : \A i \in 1..Len(c2s[c]) : c2s[c][i] < NextSeq'
<1> SUFFICES ASSUME NEW c \in Conn, NEW i \in 1..Len(c2s[c]) PROVE c2s[c][i] < NextSeq'
  OBVIOUS
<1>1. c2s[c] \in Seq(Nat) /\ c2s[c][i] < NextSeq
  BY DEF Wires, TypeNet
<1>2. c2s[c][i] \in Nat
  BY <1>1, EmptyFacts
<1> QED  BY <1>1, <1>2

\* The connections are left alone.
LEMMA WiresSame ==
  ASSUME Wires, NextSeq \in Nat, NextSeq' \in Nat, NextSeq' >= NextSeq,
         UNCHANGED <<netVars, breaks>>, phase' = "connected" <=> phase = "connected"
  PROVE  Wires'
<1>1. UNCHANGED <<cur, nconn, intact, clientEnd, serverEnd, c2s, s2c, breaks>>
  BY DEF netVars, ends
<1>2. \A c \in Conn : \A i \in 1..Len(c2s[c]) : c2s[c][i] < NextSeq'
  BY FramesBelow
<1>3. c2s \in [Conn -> Seq(Nat)] /\ s2c \in [Conn -> Seq(Response)] /\ breaks \in Nat
  BY DEF Wires, TypeNet
<1> QED  BY <1>1, <1>2, <1>3, WiresKept

\* The client lets go of its connection.
LEMMA WiresHungUp ==
  ASSUME Wires, HangUp, phase' # "connected", UNCHANGED breaks, NextSeq' = NextSeq
  PROVE  Wires'
<1>1. /\ s2c \in [Conn -> Seq(Response)] /\ clientEnd \subseteq {cur}
      /\ s2c' = [c \in Conn |-> IF c = cur THEN <<>> ELSE s2c[c]]
      /\ intact' \subseteq intact /\ cur' = 0 /\ clientEnd' = clientEnd \ {cur}
      /\ UNCHANGED <<nconn, serverEnd, c2s>>
  BY DEF Wires, TypeNet, HangUp
<1>2. s2c' \in [Conn -> Seq(Response)] /\ \A c \in Conn : s2c'[c] = <<>>
  BY <1>1, EmptyFacts DEF Wires
<1>3. clientEnd' = {}
  BY <1>1
<1>4. TypeNet'
  BY <1>1, <1>2, <1>3, ConstantAssumption DEF Wires, TypeNet
<1> QED  BY <1>1, <1>2, <1>3, <1>4 DEF Wires

\* The client makes a connection.
LEMMA WiresDialled ==
  ASSUME Wires, Connect, NextSeq' = NextSeq
  PROVE  Wires' /\ \A c \in Conn : s2c'[c] = <<>>
<1>1. /\ nconn \in Nat /\ nconn < MaxConns /\ MaxConns \in Nat /\ cur = 0 /\ clientEnd = {}
      /\ \A c \in Conn : s2c[c] = <<>>
  <2>1. phase = "connecting" /\ nconn < MaxConns /\ cur = 0
    BY DEF Connect, Wires
  <2>2. clientEnd \subseteq Conn /\ clientEnd \subseteq {0} /\ 0 \notin Conn
    BY <2>1 DEF Wires, TypeNet, Conn
  <2>3. \A c \in Conn : s2c[c] = <<>>
    BY <2>1, <2>2 DEF Wires
  <2> QED  BY <2>1, <2>2, <2>3, ConstantAssumption DEF Wires, TypeNet
<1>2. /\ nconn' = nconn + 1 /\ cur' = nconn + 1 /\ phase' = "connected"
      /\ intact' = intact \cup {nconn + 1} /\ clientEnd' = {nconn + 1}
      /\ serverEnd' = serverEnd \cup {nconn + 1} /\ UNCHANGED <<c2s, s2c, breaks>>
  BY <1>1 DEF Connect
<1>3. nconn + 1 \in Conn
  BY <1>1 DEF Conn
<1>4. TypeNet'
  BY <1>1, <1>2, <1>3 DEF Wires, TypeNet
<1>5. \A c \in Conn : c > nconn + 1 => c > nconn /\ c # nconn + 1
  BY <1>1 DEF Conn
<1>6. cur' \in 1..nconn'
  BY <1>1, <1>2
<1> QED  BY <1>1, <1>2, <1>4, <1>5, <1>6 DEF Wires

\* The connection of a client that is connected.
LEMMA OwnConn ==
  ASSUME Wires, phase = "connected" PROVE cur \in Conn /\ ~(cur > nconn)
BY ConstantAssumption DEF Wires, TypeNet, Conn

\* A frame is written.
LEMMA WiresWritten ==
  ASSUME ClientSide, Wires, WriteFrame, NextSeq' = NextSeq, NextSeq \in Nat,
         Head(outbox) \in Nat, Head(outbox) < NextSeq
  PROVE  Wires'
<1> DEFINE h == Head(outbox)
           t == Append(c2s[cur], h)
<1>1. /\ phase = "connected" /\ UNCHANGED <<phase, cur, nconn, intact, clientEnd, serverEnd, s2c, breaks>>
      /\ c2s' = IF ServerHears(cur) THEN [c2s EXCEPT ![cur] = Append(@, h)] ELSE c2s
  BY DEF WriteFrame, Selecting, ends
<1>2. cur \in Conn /\ ~(cur > nconn)
  BY <1>1, OwnConn
<1>3. c2s \in [Conn -> Seq(Nat)] /\ s2c \in [Conn -> Seq(Response)] /\ breaks \in Nat /\ h \in Nat
  BY DEF Wires, TypeNet
<1>4. c2s[cur] \in Seq(Nat)
  BY <1>2, <1>3
<1>5. \A c \in Conn : \A i \in 1..Len(c2s[c]) : c2s[c][i] < NextSeq
  BY DEF Wires
<1>6. h < NextSeq
  OBVIOUS
<1> HIDE DEF h
<1>7. /\ t \in Seq(Nat) /\ Len(t) = Len(c2s[cur]) + 1
      /\ \A i \in 1..(Len(c2s[cur]) + 1) : \/ i \in 1..Len(c2s[cur]) /\ t[i] = c2s[cur][i]
                                           \/ i = Len(c2s[cur]) + 1 /\ t[i] = h
  BY <1>3, <1>4, AppendFacts
<1>8. \A i \in 1..Len(t) : t[i] < NextSeq
  BY <1>2, <1>5, <1>6, <1>7
<1>9. \A c \in Conn : c2s'[c] = c2s[c] \/ (c = cur /\ c2s'[c] = t)
  BY <1>1, <1>2, <1>3
<1>10. c2s' \in [Conn -> Seq(Nat)]
  BY <1>1, <1>2, <1>3, <1>7
<1> HIDE DEF t
<1>11. \A c \in Conn : \A i \in 1..Len(c2s'[c]) : c2s'[c][i] < NextSeq
  BY <1>5, <1>8, <1>9
<1>12. \A c \in Conn : c > nconn /\ c2s[c] = <<>> => c2s'[c] = <<>>
  BY <1>2, <1>9
<1> QED  BY <1>1, <1>3, <1>10, <1>11, <1>12, WiresKept

\* A response is read.
LEMMA WiresHeard ==
  ASSUME Wires, phase = "connected", s2c[cur] # <<>>, s2c' = [s2c EXCEPT ![cur] = Tail(@)],
         UNCHANGED <<phase, cur, nconn, ends, c2s, breaks>>, NextSeq' = NextSeq, NextSeq \in Nat
  PROVE  Wires'
<1>1. UNCHANGED <<intact, clientEnd, serverEnd>>
  BY DEF ends
<1>2. cur \in Conn /\ ~(cur > nconn)
  BY OwnConn
<1>3. c2s \in [Conn -> Seq(Nat)] /\ s2c \in [Conn -> Seq(Response)] /\ breaks \in Nat
  BY DEF Wires, TypeNet
<1>4. Tail(s2c[cur]) \in Seq(Response)
  BY <1>2, <1>3, TailFacts
<1>5. s2c' \in [Conn -> Seq(Response)] /\ \A c \in Conn : c # cur => s2c'[c] = s2c[c]
  BY <1>2, <1>3, <1>4
<1>6. \A c \in Conn : \A i \in 1..Len(c2s[c]) : c2s[c][i] < NextSeq'
  BY FramesBelow
<1> QED  BY <1>1, <1>3, <1>5, <1>6, WiresKept

\* A connection breaks.
LEMMA WiresBroken ==
  ASSUME Wires, NEW c \in Conn, Break(c), NextSeq \in Nat
  PROVE  /\ Wires' /\ NextSeq' = NextSeq
         /\ \E k \in 0..Len(c2s[c]) : c2s' = [c2s EXCEPT ![c] = SubSeq(@, 1, k)]
<1>1. /\ intact' = intact \ {c} /\ breaks' = breaks + 1
      /\ UNCHANGED <<cur, nconn, clientEnd, serverEnd, phase, sent>>
  BY DEF Break, clientVars
<1>2. /\ c2s \in [Conn -> Seq(Nat)] /\ s2c \in [Conn -> Seq(Response)]
      /\ c2s[c] \in Seq(Nat) /\ s2c[c] \in Seq(Response) /\ breaks' \in Nat /\ NextSeq' = NextSeq
  BY <1>1 DEF Wires, TypeNet, NextSeq
<1>3. PICK k \in 0..Len(c2s[c]), j \in 0..Len(s2c[c]) :
        /\ c2s' = [c2s EXCEPT ![c] = SubSeq(@, 1, k)]
        /\ s2c' = [s2c EXCEPT ![c] = SubSeq(@, 1, j)]
  BY DEF Break
<1>4. /\ c2s'[c] \in Seq(Nat) /\ Len(c2s'[c]) = k /\ k \in Nat /\ k <= Len(c2s[c]) /\ Len(c2s[c]) \in Nat
      /\ \A i \in 1..k : c2s'[c][i] = c2s[c][i]
      /\ \A d \in Conn : d # c => c2s'[d] = c2s[d]
  BY <1>2, <1>3
<1>5. /\ s2c'[c] \in Seq(Response) /\ Len(s2c'[c]) = j /\ j <= Len(s2c[c]) /\ Len(s2c[c]) \in Nat
      /\ j \in Nat /\ \A d \in Conn : d # c => s2c'[d] = s2c[d]
  BY <1>2, <1>3
<1>6. c2s' \in [Conn -> Seq(Nat)] /\ s2c' \in [Conn -> Seq(Response)]
  BY <1>2, <1>3, <1>4, <1>5
<1>7. \A d \in Conn : (c2s[d] = <<>> => c2s'[d] = <<>>) /\ (s2c[d] = <<>> => s2c'[d] = <<>>)
  <2>1. c2s[c] = <<>> => c2s'[c] = <<>>
    BY <1>2, <1>4, EmptyFacts
  <2>2. s2c[c] = <<>> => s2c'[c] = <<>>
    BY <1>2, <1>5, EmptyFacts
  <2> QED  BY <2>1, <2>2, <1>4, <1>5
<1>8. \A d \in Conn : \A i \in 1..Len(c2s'[d]) : i \in 1..Len(c2s[d]) /\ c2s'[d][i] = c2s[d][i]
  BY <1>4
<1>9. \A d \in Conn : \A i \in 1..Len(c2s'[d]) : c2s'[d][i] < NextSeq'
  BY <1>2, <1>8 DEF Wires
<1>10. Wires'
  BY <1>1, <1>2, <1>6, <1>7, <1>9, WiresKept
<1> QED  BY <1>2, <1>3, <1>10

\* How many numbers were given.
LEMMA Given == ASSUME ClientSide PROVE NextSeq \in Nat
BY MsgFacts DEF ClientSide, TypeClient, NextSeq

\* The server reads a frame.
LEMMA WiresRead ==
  ASSUME Wires, NextSeq \in Nat, serving \in Conn, c2s[serving] # <<>>,
         c2s' = [c2s EXCEPT ![serving] = Tail(@)],
         UNCHANGED <<phase, sent, cur, nconn, ends, s2c, breaks>>
  PROVE  Wires' /\ Head(c2s[serving]) \in Nat /\ Head(c2s[serving]) < NextSeq
<1> DEFINE w == c2s[serving]
           t == Tail(w)
<1>1. UNCHANGED <<intact, clientEnd, serverEnd>> /\ NextSeq' = NextSeq
  BY DEF ends, NextSeq
<1>2. /\ c2s \in [Conn -> Seq(Nat)] /\ s2c \in [Conn -> Seq(Response)] /\ breaks \in Nat
      /\ \A c \in Conn : \A i \in 1..Len(c2s[c]) : c2s[c][i] < NextSeq
  BY DEF Wires, TypeNet
<1>3. w \in Seq(Nat) /\ w # <<>> /\ \A i \in 1..Len(w) : w[i] < NextSeq
  BY <1>2
<1>4. \A c \in Conn : c2s'[c] = IF c = serving THEN t ELSE c2s[c]
  BY <1>2
<1> HIDE DEF w
<1>5. /\ t \in Seq(Nat) /\ Len(t) = Len(w) - 1 /\ \A i \in 1..Len(t) : t[i] = w[i + 1]
      /\ Head(w) = w[1] /\ Head(w) \in Nat /\ Len(w) \in Nat /\ Len(w) >= 1
  BY <1>3, TailFacts
<1> HIDE DEF t
<1>6. \A i \in 1..Len(t) : t[i] < NextSeq
  <2>1. \A i \in 1..Len(t) : i + 1 \in 1..Len(w)
    BY <1>5
  <2> QED  BY <2>1, <1>3, <1>5
<1>7. c2s' \in [Conn -> Seq(Nat)]
  BY <1>2, <1>5 DEF w, t
<1>8. \A c \in Conn : \A i \in 1..Len(c2s'[c]) : c2s'[c][i] < NextSeq'
  BY <1>1, <1>2, <1>4, <1>6
<1>9. \A c \in Conn : c2s[c] = <<>> => c2s'[c] = <<>>
  BY <1>3, <1>4 DEF w
<1>10. Wires'
  BY <1>1, <1>2, <1>7, <1>8, <1>9, WiresKept
<1>11. 1 \in 1..Len(w)
  BY <1>5
<1> QED  BY <1>3, <1>5, <1>10, <1>11 DEF w

\* What the server writes reaches the client's own connection or nobody.
LEMMA Answered ==
  ASSUME Wires, NEW r \in Seq(Response), NEW c \in Conn,
         s2c' = IF ClientHears(c) THEN [s2c EXCEPT ![c] = r] ELSE s2c
  PROVE  /\ s2c' \in [Conn -> Seq(Response)]
         /\ \A d \in Conn : d # cur /\ s2c[d] = <<>> => s2c'[d] = <<>>
BY DEF Wires, TypeNet, ClientHears

\* The server lets go of connections.
LEMMA WiresDropped ==
  ASSUME Wires, NextSeq \in Nat, NEW cs, ServerDrops(cs),
         UNCHANGED <<phase, sent, cur, nconn, clientEnd>>, breaks' \in Nat,
         s2c' \in [Conn -> Seq(Response)],
         \A d \in Conn : d # cur /\ s2c[d] = <<>> => s2c'[d] = <<>>
  PROVE  Wires'
<1>1. /\ c2s \in [Conn -> Seq(Nat)] /\ NextSeq' = NextSeq
      /\ \A c \in Conn : \A i \in 1..Len(c2s[c]) : c2s[c][i] < NextSeq
  BY DEF Wires, TypeNet, NextSeq
<1>2. /\ intact' \subseteq intact /\ serverEnd' \subseteq serverEnd
      /\ c2s' = [c \in Conn |-> IF c \in cs THEN <<>> ELSE c2s[c]]
  BY DEF ServerDrops
<1>3. <<>> \in Seq(Nat) /\ Len(<<>>) = 0
  OBVIOUS
<1>4. /\ c2s' \in [Conn -> Seq(Nat)]
      /\ \A c \in Conn : c2s'[c] = c2s[c] \/ c2s'[c] = <<>>
  BY <1>1, <1>2, <1>3
<1>5. \A c \in Conn : \A i \in 1..Len(c2s'[c]) : c2s'[c][i] < NextSeq'
  <2> SUFFICES ASSUME NEW c \in Conn, NEW i \in 1..Len(c2s'[c]) PROVE c2s'[c][i] < NextSeq'
    OBVIOUS
  <2>1. CASE c2s'[c] = <<>>
    BY <2>1, <1>3
  <2>2. CASE c2s'[c] = c2s[c]
    BY <2>2, <1>1
  <2> QED  BY <2>1, <2>2, <1>4
<1> QED  BY <1>1, <1>2, <1>4, <1>5, WiresKept

\* The end of a connection on the server's side: the last ack and the goodbye.
LEMMA WiresLeft ==
  ASSUME Wires, ServerSide, ClientSide, proc = "serving", NEW bye \in Seq(Response), NEW ok \in BOOLEAN,
         RecvEnds(bye, ok), UNCHANGED <<clientVars, breaks>>
  PROVE  Wires' /\ \A c \in Conn : c2s'[c] = c2s[c] \/ c2s'[c] = <<>>
<1>1. serving \in Conn /\ next \in [seq : Nat, ack : Nat]
  BY DEF ServerSide, TypeServer
<1>2. s2c[serving] \in Seq(Response) /\ breaks \in Nat
  BY <1>1 DEF Wires, TypeNet
<1>3. FinalAck \in Seq(Response)
  <2>1. CASE next.ack < next.seq
    <3>1. next.seq - 1 \in Nat
      BY <1>1, <2>1
    <3>2. Ack(AckValue(next.seq)) \in Response
      BY <3>1 DEF Ack, AckValue, Response
    <3> QED  BY <2>1, <3>2 DEF FinalAck
  <2>2. CASE ~(next.ack < next.seq)
    BY <2>2 DEF FinalAck
  <2> QED  BY <2>1, <2>2
<1>4. s2c[serving] \o FinalAck \in Seq(Response)
  BY <1>2, <1>3, CatFacts
<1>5. s2c[serving] \o FinalAck \o bye \in Seq(Response)
  BY <1>4, CatFacts
<1>6. s2c' = IF ClientHears(serving) THEN [s2c EXCEPT ![serving] = s2c[serving] \o FinalAck \o bye]
             ELSE s2c
  BY DEF RecvEnds
<1>7. /\ s2c' \in [Conn -> Seq(Response)]
      /\ \A d \in Conn : d # cur /\ s2c[d] = <<>> => s2c'[d] = <<>>
  BY <1>1, <1>5, <1>6, Answered
<1>8. PICK cs : ServerDrops(cs)
  BY DEF RecvEnds
<1>9. UNCHANGED <<phase, sent, cur, nconn, clientEnd, breaks>>
  BY DEF RecvEnds, clientVars
<1>10. Wires'
  BY <1>2, <1>7, <1>8, <1>9, Given, WiresDropped
<1> QED  BY <1>8, <1>10 DEF ServerDrops

\* The server's variables are left alone, but for connections it has not seen.
LEMMA ServerSideKept ==
  ASSUME ServerSide, NextSeq \in Nat, NextSeq' \in Nat, NextSeq' >= NextSeq,
         UNCHANGED <<procVars, rxVars, rxOpen, cancelled, listening>>, backlog' \subseteq Conn
  PROVE  ServerSide'
<1> USE DEF procVars, rxVars
<1>1. TypeServer'
  BY DEF ServerSide, TypeServer
<1>2. held \in Nat \cup {-1}
  BY DEF ServerSide, TypeServer
<1> QED  BY <1>1, <1>2 DEF ServerSide

\* The end of a connection leaves a server that holds nothing.
LEMMA ServerLeaves ==
  ASSUME ServerSide, NEW bye, NEW ok \in BOOLEAN, RecvEnds(bye, ok), UNCHANGED <<rxVars, srvVars>>
  PROVE  ServerSide' /\ held' = -1 /\ next'.seq = next.seq
<1> USE DEF rxVars, srvVars
<1>1. connq' \in Seq(Conn)
  <2>1. connq \in Seq(Conn) /\ <<>> \in Seq(Conn)
    BY DEF ServerSide, TypeServer
  <2>2. connq' = connq \/ connq' = <<>>
    BY DEF RecvEnds
  <2> QED  BY <2>1, <2>2
<1>2. proc' \in {"none", "waiting"} /\ serving' = 0 /\ held' = -1 /\ pendingAck' = 0
  BY DEF RecvEnds
<1>3. next \in [seq : Nat, ack : Nat]
  BY DEF ServerSide, TypeServer
<1>4. \E a \in {next.ack, next.seq} : next' = [next EXCEPT !.ack = a]
  BY DEF RecvEnds
<1>5. next' \in [seq : Nat, ack : Nat] /\ next'.seq = next.seq
  BY <1>3, <1>4
<1>6. TypeServer'
  BY <1>1, <1>2, <1>5, ConstantAssumption DEF ServerSide, TypeServer
<1> QED  BY <1>1, <1>2, <1>5, <1>6 DEF ServerSide

\* What a popped frame, a further frame, a lost suffix do to number 0.
LEMMA ZerosTail ==
  ASSUME NEW s \in Seq(Nat), s # <<>>
  PROVE  /\ NoZero(s) => NoZero(Tail(s)) /\ Head(s) # 0
         /\ OneZero(s) => OneZero(Tail(s))
         /\ OneZero(s) /\ Head(s) = 0 => NoZero(Tail(s))
<1> DEFINE t == Tail(s)
<1>1. /\ Len(t) = Len(s) - 1 /\ \A i \in 1..Len(t) : t[i] = s[i + 1]
      /\ Head(s) = s[1] /\ Len(s) \in Nat /\ Len(s) >= 1
  BY TailFacts
<1> HIDE DEF t
<1>2. \A i \in 1..Len(t) : i + 1 \in 1..Len(s) /\ i + 1 # 1
  BY <1>1
<1>3. 1 \in 1..Len(s)
  BY <1>1
<1>4. NoZero(s) => NoZero(t) /\ s[1] # 0
  BY <1>1, <1>2, <1>3 DEF NoZero
<1>5. OneZero(s) => OneZero(t)
  <2> SUFFICES ASSUME OneZero(s), NEW i \in 1..Len(t), NEW j \in 1..Len(t), t[i] = 0, t[j] = 0
               PROVE  i = j
    BY DEF OneZero
  <2>1. i + 1 = j + 1
    BY <1>1, <1>2 DEF OneZero
  <2> QED  BY <2>1, <1>1
<1>6. OneZero(s) /\ s[1] = 0 => NoZero(t)
  BY <1>1, <1>2, <1>3 DEF OneZero, NoZero
<1> QED  BY <1>1, <1>4, <1>5, <1>6 DEF t

LEMMA ZerosAppend ==
  ASSUME NEW s \in Seq(Nat), NEW h \in Nat
  PROVE  /\ NoZero(s) => OneZero(Append(s, h))
         /\ NoZero(s) /\ h # 0 => NoZero(Append(s, h))
         /\ OneZero(s) /\ h # 0 => OneZero(Append(s, h))
<1> DEFINE t == Append(s, h)
<1>1. /\ t \in Seq(Nat) /\ Len(t) = Len(s) + 1 /\ Len(s) \in Nat
      /\ \A i \in 1..Len(s) : t[i] = s[i]
      /\ t[Len(s) + 1] = h
  BY AppendFacts
<1> HIDE DEF t
<1>2. \A i \in 1..Len(t) : \/ i \in 1..Len(s) /\ t[i] = s[i]
                           \/ i = Len(s) + 1 /\ t[i] = h
  BY <1>1
<1>3. NoZero(s) => OneZero(t)
  BY <1>1, <1>2 DEF NoZero, OneZero
<1>4. NoZero(s) /\ h # 0 => NoZero(t)
  BY <1>1, <1>2 DEF NoZero
<1>5. OneZero(s) /\ h # 0 => OneZero(t)
  BY <1>1, <1>2 DEF OneZero
<1> QED  BY <1>3, <1>4, <1>5 DEF t

\* A step of the client that leaves the server and the connections alone.
LEMMA QuietMove ==
  ASSUME Sides, ClientSide', Wires', UNCHANGED <<c2s, serverEnd, procVars, rxVars, srvVars, sent>>,
         largestAcked >= 0 => largestAcked' >= 0, outbox' = outbox \/ outbox' = <<>>
  PROVE  ClientMoved
<1>1. NextSeq \in Nat /\ NextSeq' = NextSeq
  BY Given DEF Sides, NextSeq
<1>2. ServerSide'
  <2>1. backlog' \subseteq Conn
    BY DEF Sides, ServerSide, TypeServer, srvVars
  <2> QED  BY <1>1, <2>1, ServerSideKept DEF Sides, srvVars
<1>3. NoZero(outbox) => NoZero(outbox')
  <2>1. Len(<<>>) = 0
    OBVIOUS
  <2> QED  BY <2>1 DEF NoZero
<1> QED  BY <1>1, <1>2, <1>3 DEF ClientMoved, Sides

\* do_post, and the end of the handles.
LEMMA PostMoves == ASSUME Sides, Post \/ DropTx PROVE ClientMoved
<1>1. /\ UNCHANGED <<clientVars, netVars, breaks>> /\ UNCHANGED <<procVars, rxVars, srvVars>>
  BY DEF Post, DropTx
<1>2. UNCHANGED <<phase, sent, outbox, largestAcked, c2s, serverEnd>>
  BY <1>1 DEF clientVars, netVars, ends
<1>3. ClientSide' /\ NextSeq' = NextSeq /\ NextSeq \in Nat
  BY ClientPosts, Given DEF Sides
<1>4. Wires'
  BY <1>1, <1>2, <1>3, WiresSame DEF Sides
<1> QED  BY <1>1, <1>2, <1>3, <1>4, QuietMove

\* The task ends.
LEMMA EndMoves ==
  ASSUME Sides, NEW why \in {"stale_session", "oversized", "other"}, CloseTx(why) \/ Panic,
         UNCHANGED <<appVars, procVars, rxVars, srvVars, breaks>>
  PROVE  ClientMoved
<1>1. ClientSide' /\ NextSeq' = NextSeq
  BY ClientEnds DEF Sides
<1>2. /\ HangUp /\ phase' # "connected" /\ outbox' = <<>> /\ UNCHANGED <<sent, largestAcked>>
      /\ UNCHANGED breaks
  BY DEF CloseTx, Panic
<1>3. Wires'
  BY <1>1, <1>2, WiresHungUp DEF Sides
<1>4. UNCHANGED <<c2s, serverEnd>>
  BY <1>2 DEF HangUp
<1> QED  BY <1>1, <1>2, <1>3, <1>4, QuietMove

\* A message gets its number.
LEMMA PushMoves ==
  ASSUME Sides, ~TaskGone, queue # <<>>, PushBack, phase' \in {"connecting", "connected"},
         phase' = "connected" <=> phase = "connected",
         UNCHANGED <<reason, unacked, largestAcked, appVars, netVars, procVars, rxVars, srvVars, breaks>>
  PROVE  ClientMoved
<1>1. ClientSide' /\ NextSeq \in Nat /\ NextSeq' = NextSeq + 1
  BY ClientPushes DEF Sides, appVars
<1>2. Wires'
  BY <1>1, WiresSame DEF Sides
<1>3. ServerSide'
  <2>1. backlog' \subseteq Conn
    BY DEF Sides, ServerSide, TypeServer, srvVars
  <2> QED  BY <1>1, <2>1, ServerSideKept DEF Sides, srvVars
<1>4. sent \in Seq(Msg) /\ queue \in Seq(Msg) /\ outbox \in Seq(Nat)
  BY DEF Sides, ClientSide, TypeClient
<1>5. \A i \in 1..NextSeq : sent'[i] = sent[i]
  <2>1. Head(queue) \in Msg
    BY <1>4, TailFacts
  <2> QED  BY <1>4, <2>1, AppendFacts DEF PushBack, NextSeq
<1>6. NextSeq > 0 /\ NoZero(outbox) => NoZero(outbox')
  <2>1. outbox' = Append(outbox, NextSeq)
    BY DEF PushBack
  <2>2. NextSeq > 0 => NextSeq # 0
    BY <1>1
  <2> QED  BY <1>1, <1>4, <2>1, <2>2, ZerosAppend
<1> QED  BY <1>1, <1>2, <1>3, <1>5, <1>6 DEF ClientMoved, Sides, netVars, ends

\* The lazy start, and new messages.
LEMMA TakeMoves ==
  ASSUME Sides, LazyRecv \/ LazyClosed \/ RecvNew PROVE ClientMoved
<1>1. CASE LazyClosed
  <2>1. /\ ~TaskGone /\ phase # "connected" /\ phase' = "closed" /\ reason' = "other"
        /\ UNCHANGED <<queue, outcome>>
        /\ UNCHANGED <<sent, outbox, unacked, largestAcked, appVars, netVars, breaks>>
        /\ UNCHANGED <<procVars, rxVars, srvVars>>
    BY <1>1 DEF LazyClosed, TaskGone
  <2>2. ClientSide' /\ NextSeq' = NextSeq /\ NextSeq \in Nat
    BY <2>1, ClientSkips, Given DEF Sides, appVars
  <2>3. Wires'
    BY <2>1, <2>2, WiresSame DEF Sides
  <2> QED  BY <2>1, <2>2, <2>3, QuietMove DEF netVars, ends
<1>2. CASE LazyRecv /\ Head(queue) \in Unserializable
  <2>1. /\ ~TaskGone /\ phase # "connected" /\ phase' = "closed" /\ reason' = "other" /\ queue' = <<>>
        /\ outcome' = [m \in Msg |-> IF m = Head(queue) THEN "accepted"
                                     ELSE IF m \in InQueue THEN "dropped" ELSE outcome[m]]
        /\ UNCHANGED <<sent, outbox, unacked, largestAcked, appVars, netVars, breaks>>
        /\ UNCHANGED <<procVars, rxVars, srvVars>>
    BY <1>2 DEF LazyRecv, TaskGone
  <2>2. ClientSide' /\ NextSeq' = NextSeq /\ NextSeq \in Nat
    BY <1>2, <2>1, ClientSkips, Given DEF Sides, appVars
  <2>3. Wires'
    BY <2>1, <2>2, WiresSame DEF Sides
  <2> QED  BY <2>1, <2>2, <2>3, QuietMove DEF netVars, ends
<1>3. CASE LazyRecv /\ Head(queue) \notin Unserializable
  <2>1. /\ ~TaskGone /\ queue # <<>> /\ PushBack
        /\ phase # "connected" /\ phase' = "connecting" /\ UNCHANGED reason
    BY <1>3 DEF LazyRecv, TaskGone
  <2> QED  BY <1>3, <2>1, PushMoves DEF LazyRecv
<1>4. CASE RecvNew /\ Head(queue) \in Unserializable
  <2>1. /\ ~TaskGone /\ phase = "connected" /\ phase' = "connecting"
        /\ queue # <<>> /\ queue' = Tail(queue)
        /\ outcome' = Resolve({Head(queue)}, "accepted") /\ HangUp
        /\ UNCHANGED <<reason, sent, outbox, unacked, largestAcked, appVars, breaks>>
        /\ UNCHANGED <<procVars, rxVars, srvVars>>
    BY <1>4 DEF RecvNew, Selecting, TaskGone
  <2>2. ClientSide' /\ NextSeq' = NextSeq
    BY <1>4, <2>1, ClientSkips DEF Sides, appVars
  <2>3. Wires'
    BY <2>1, <2>2, WiresHungUp DEF Sides
  <2> QED  BY <2>1, <2>2, <2>3, QuietMove DEF HangUp
<1>5. CASE RecvNew /\ Head(queue) \notin Unserializable
  <2>1. /\ ~TaskGone /\ queue # <<>> /\ PushBack /\ phase = "connected" /\ phase' = phase
        /\ UNCHANGED <<reason, netVars>>
    BY <1>5 DEF RecvNew, Selecting, TaskGone
  <2> QED  BY <1>5, <2>1, PushMoves DEF RecvNew
<1> QED  BY <1>1, <1>2, <1>3, <1>4, <1>5

\* The connection is lost.
LEMMA LossMoves == ASSUME Sides, Disconnect PROVE ClientMoved
<1>1. /\ ~TaskGone /\ phase = "connected" /\ phase' = "connecting" /\ HangUp
      /\ UNCHANGED <<reason, queue, outcome>>
      /\ UNCHANGED <<sent, outbox, unacked, largestAcked, appVars, breaks>>
      /\ UNCHANGED <<procVars, rxVars, srvVars>>
  BY DEF Disconnect, Selecting, TaskGone
<1>2. ClientSide' /\ NextSeq' = NextSeq
  BY <1>1, ClientSkips DEF Sides, appVars
<1>3. Wires'
  BY <1>1, <1>2, WiresHungUp DEF Sides
<1> QED  BY <1>1, <1>2, <1>3, QuietMove DEF HangUp

\* An ack arrives, from this process of the server or from an earlier one.
LEMMA AckMoves == ASSUME Sides, ReadAck PROVE ClientMoved
<1> DEFINE a == Head(s2c[cur]).seq
<1>1. /\ phase = "connected" /\ s2c[cur] # <<>>
      /\ UNCHANGED <<appVars, procVars, rxVars, srvVars, breaks>>
  BY DEF ReadAck, Selecting
<1>2. a \in Nat
  <2>1. cur \in Conn
    BY <1>1, OwnConn DEF Sides
  <2>2. s2c[cur] \in Seq(Response)
    BY <2>1 DEF Sides, Wires, TypeNet
  <2>3. Head(s2c[cur]) \in Response
    BY <1>1, <2>2, TailFacts
  <2> QED  BY <2>3 DEF Response
<1>3. CASE AckInOrder(a)
  <2>1. /\ Prune(a) /\ s2c' = [s2c EXCEPT ![cur] = Tail(@)]
        /\ UNCHANGED <<phase, reason, sent, outbox, queue, cur, nconn, ends, c2s>>
    BY <1>3 DEF ReadAck
  <2> HIDE DEF a
  <2>2. largestAcked <= a /\ largestAcked' = a
    BY <1>3, <2>1 DEF AckInOrder, Prune
  <2>3. ClientSide' /\ NextSeq' = NextSeq /\ NextSeq \in Nat
    BY <1>1, <1>2, <2>1, <2>2, ClientPrunes, Given DEF Sides, appVars
  <2>4. Wires'
    BY <1>1, <2>1, <2>3, WiresHeard DEF Sides
  <2>5. largestAcked' >= 0
    BY <1>2, <2>2
  <2> QED  BY <1>1, <2>1, <2>3, <2>4, <2>5, QuietMove DEF ends
<1>4. CASE ~AckInOrder(a)
  <2>1. Panic
    BY <1>4 DEF ReadAck
  <2> QED  BY <1>1, <2>1, EndMoves
<1> QED  BY <1>3, <1>4

\* Every step of the client but a connection and a write.
LEMMA ClientSteps ==
  ASSUME Sides, \/ Post \/ DropTx \/ LazyRecv \/ LazyClosed \/ ConnectFails \/ SendOversized
                \/ ReadAck \/ ReadTerminal \/ Disconnect \/ RecvNew \/ AppClosed \/ TimerNext
  PROVE  ClientMoved
<1>1. CASE ConnectFails \/ AppClosed \/ TimerNext
  BY <1>1, EndMoves DEF ConnectFails, AppClosed, TimerNext, ConnectDeadline, DeliveryTimeout
<1>2. CASE SendOversized
  BY <1>2, EndMoves DEF SendOversized
<1>3. CASE ReadTerminal
  BY <1>3, EndMoves DEF ReadTerminal
<1> QED  BY <1>1, <1>2, <1>3, PostMoves, TakeMoves, LossMoves, AckMoves

\* The client makes a connection: what it owns is unsent again.
LEMMA ConnectSides ==
  ASSUME Sides, Connect
  PROVE  /\ Sides' /\ NextSeq \in Nat /\ NextSeq' = NextSeq /\ NextSeq > 0
         /\ OutboxStart' = RunStart /\ RunStart' = RunStart /\ RunStart <= largestAcked + 1
         /\ reason = "none" /\ \A c \in Conn : s2c'[c] = <<>>
         /\ UNCHANGED <<sent, outcome, largestAcked, c2s, procVars, rxVars, rxOpen, cancelled>>
<1>1. /\ phase = "connecting" /\ phase' = "connected" /\ outbox' = unacked \o outbox /\ unacked' = <<>>
      /\ UNCHANGED <<posted, txOpen, outcome, queue, reason, sent, largestAcked>>
      /\ UNCHANGED <<c2s, procVars, rxVars, rxOpen, cancelled, listening>>
      /\ backlog' = backlog \cup {nconn + 1} /\ nconn < MaxConns
  BY DEF Connect, Requeued, appVars
<1>2. /\ ClientSide' /\ NextSeq' = NextSeq /\ NextSeq > 0
      /\ OutboxStart' = RunStart /\ RunStart' = RunStart
  BY <1>1, ClientConnects DEF Sides
<1>3. Wires' /\ \A c \in Conn : s2c'[c] = <<>>
  BY <1>2, WiresDialled DEF Sides
<1>4. NextSeq \in Nat /\ RunStart <= largestAcked + 1 /\ reason = "none"
  BY <1>1, Given DEF Sides, ClientSide, TaskGone
<1>5. backlog' \subseteq Conn
  <2>1. nconn + 1 \in Conn
    BY <1>1, ConstantAssumption DEF Sides, Wires, TypeNet, Conn
  <2> QED  BY <1>1, <2>1 DEF Sides, ServerSide, TypeServer
<1>6. ServerSide'
  BY <1>1, <1>2, <1>4, <1>5, ServerSideKept DEF Sides
<1> QED  BY <1>1, <1>2, <1>3, <1>4, <1>6 DEF Sides

\* A frame is written.
LEMMA WriteSides ==
  ASSUME Sides, WriteFrame
  PROVE  /\ Sides' /\ NextSeq \in Nat
         /\ UNCHANGED <<sent, largestAcked, serverEnd, procVars, rxVars, srvVars>>
<1>1. UNCHANGED <<sent, largestAcked, ends, procVars, rxVars, srvVars>>
  BY DEF WriteFrame
<1>2. /\ ClientSide' /\ NextSeq' = NextSeq /\ Head(outbox) \in Nat /\ Head(outbox) < NextSeq
      /\ NextSeq \in Nat
  BY ClientWrites DEF Sides
<1>3. Wires'
  BY <1>2, WiresWritten DEF Sides
<1>4. ServerSide'
  <2>1. backlog' \subseteq Conn
    BY <1>1 DEF Sides, ServerSide, TypeServer, srvVars
  <2> QED  BY <1>1, <1>2, <2>1, ServerSideKept DEF Sides, srvVars
<1> QED  BY <1>1, <1>2, <1>3, <1>4 DEF Sides, ends

\* A connection breaks.
LEMMA BreakSides ==
  ASSUME Sides, NEW c \in Conn, Break(c)
  PROVE  /\ Sides' /\ UNCHANGED <<clientVars, serverEnd, procVars, rxVars, srvVars>>
         /\ c2s \in [Conn -> Seq(Nat)]
         /\ \E k \in 0..Len(c2s[c]) : c2s' = [c2s EXCEPT ![c] = SubSeq(@, 1, k)]
<1>1. UNCHANGED <<clientVars, appVars, outcome, queue, serverEnd, procVars, rxVars, srvVars>>
  BY DEF Break
<1>2. NextSeq \in Nat
  BY Given DEF Sides
<1>3. /\ Wires' /\ NextSeq' = NextSeq
      /\ \E k \in 0..Len(c2s[c]) : c2s' = [c2s EXCEPT ![c] = SubSeq(@, 1, k)]
  BY <1>2, WiresBroken DEF Sides
<1>4. ClientSide'
  BY <1>1, ClientSideKept DEF Sides, txVars, clientVars, appVars
<1>5. ServerSide'
  <2>1. backlog' \subseteq Conn
    BY <1>1 DEF Sides, ServerSide, TypeServer, srvVars
  <2> QED  BY <1>1, <1>2, <1>3, <2>1, ServerSideKept DEF Sides, srvVars
<1> QED  BY <1>1, <1>3, <1>4, <1>5 DEF Sides, Wires, TypeNet

\* A step of the server leaves the client alone.
LEMMA ServerAlone ==
  ASSUME Sides, UNCHANGED <<appVars, clientVars, outcome, queue>>, Wires', ServerSide'
  PROVE  Sides'
BY ClientSideKept DEF Sides, txVars, appVars, clientVars

\* Connections are handed over and taken up, an ack is due.
LEMMA HandSides ==
  ASSUME Sides, (\E c \in Conn : Dispatch(c)) \/ ServeNext \/ BeginAck \/ RxRecv
  PROVE  Sides'
<1> USE DEF procVars, rxVars, srvVars
<1>1. /\ UNCHANGED <<appVars, clientVars, outcome, queue>> /\ UNCHANGED <<netVars, breaks>>
  BY DEF Dispatch, ServeNext, BeginAck, RxRecv
<1>2. NextSeq \in Nat /\ UNCHANGED <<phase, sent>> /\ NextSeq' = NextSeq
  BY <1>1, Given DEF Sides, clientVars, NextSeq
<1>3. Wires'
  BY <1>1, <1>2, WiresSame DEF Sides
<1>4. ServerSide /\ TypeServer
  BY DEF Sides, ServerSide
<1>5. ASSUME NEW c \in Conn, Dispatch(c) PROVE ServerSide'
  <2>1. /\ backlog' \subseteq backlog /\ next' = NextAtDispatch
        /\ UNCHANGED <<serving, pendingAck, held, rxVars, rxOpen, cancelled, listening>>
        /\ IF proc = "none" THEN proc' = "waiting" /\ connq' = <<c>>
                           ELSE connq' = Append(connq, c) /\ UNCHANGED proc
    BY <1>5 DEF Dispatch
  <2>2. connq' \in Seq(Conn)
    <3>1. connq \in Seq(Conn) /\ <<c>> \in Seq(Conn)
      BY <1>4 DEF TypeServer
    <3>2. Append(connq, c) \in Seq(Conn)
      BY <3>1, AppendFacts
    <3> QED  BY <2>1, <3>1, <3>2
  <2>3. next' \in [seq : Nat, ack : Nat]
    BY <1>4, <2>1 DEF TypeServer, NextAtDispatch
  <2>4. TypeServer'
    BY <1>4, <2>1, <2>2, <2>3 DEF TypeServer
  <2> QED  BY <1>2, <1>4, <2>1, <2>4 DEF ServerSide
<1>6. ASSUME ServeNext PROVE ServerSide'
  <2>1. /\ proc = "waiting" /\ connq # <<>> /\ proc' = "serving"
        /\ serving' = Head(connq) /\ connq' = Tail(connq)
        /\ UNCHANGED <<next, pendingAck, held, rxVars, srvVars>>
    BY <1>6 DEF ServeNext
  <2>2. connq' \in Seq(Conn) /\ serving' \in Conn
    BY <1>4, <2>1, TailFacts DEF TypeServer
  <2>3. serving' \in 0..MaxConns
    BY <2>2, ConstantAssumption DEF Conn
  <2>4. TypeServer'
    BY <1>4, <2>1, <2>2, <2>3 DEF TypeServer
  <2> QED  BY <1>2, <1>4, <2>1, <2>2, <2>4 DEF ServerSide
<1>7. ASSUME BeginAck PROVE ServerSide'
  <2>1. pendingAck' \in Nat /\ UNCHANGED <<proc, connq, serving, next, held, rxVars, srvVars>>
    BY <1>4, <1>7 DEF BeginAck, TypeServer
  <2>2. TypeServer'
    BY <1>4, <2>1 DEF TypeServer
  <2> QED  BY <1>2, <1>4, <2>1, <2>2 DEF ServerSide
<1>8. ASSUME RxRecv PROVE ServerSide'
  <2>1. /\ consumed < Len(delivered) /\ consumed' = consumed + 1
        /\ UNCHANGED <<delivered, everDelivered, procVars, srvVars>>
    BY <1>8 DEF RxRecv
  <2>2. consumed \in Nat /\ Len(delivered) \in Nat
    BY <1>4, EmptyFacts DEF TypeServer
  <2>3. TypeServer' /\ consumed' <= Len(delivered')
    BY <1>4, <2>1, <2>2 DEF TypeServer
  <2> QED  BY <1>2, <1>4, <2>1, <2>3 DEF ServerSide
<1> QED  BY <1>1, <1>3, <1>5, <1>6, <1>7, <1>8, ServerAlone

\* An ack is written.
LEMMA AckSides == ASSUME Sides, AckWritten PROVE Sides' /\ next'.seq = next.seq
<1> USE DEF procVars, rxVars, srvVars
<1>1. /\ proc = "serving" /\ pendingAck # 0 /\ pendingAck' = 0
      /\ next' = [next EXCEPT !.ack = pendingAck]
      /\ UNCHANGED <<proc, connq, serving, held, rxVars, srvVars>>
      /\ UNCHANGED <<cur, nconn, ends, c2s, breaks>>
      /\ UNCHANGED <<appVars, clientVars, outcome, queue>>
  BY DEF AckWritten
<1>2. TypeServer /\ serving \in Conn /\ NextSeq \in Nat /\ NextSeq' = NextSeq /\ UNCHANGED <<phase, sent>>
  BY <1>1, Given DEF Sides, ServerSide, clientVars, NextSeq
<1>3. s2c[serving] \in Seq(Response) /\ Ack(AckValue(pendingAck)) \in Response
  <2>1. pendingAck - 1 \in Nat
    BY <1>1, <1>2 DEF TypeServer
  <2>2. Ack(AckValue(pendingAck)) \in Response
    BY <2>1 DEF Ack, AckValue, Response
  <2> QED  BY <1>2, <2>2 DEF Sides, Wires, TypeNet
<1>4. Append(s2c[serving], Ack(AckValue(pendingAck))) \in Seq(Response)
  BY <1>3, AppendFacts
<1>5. s2c' = IF ClientHears(serving)
               THEN [s2c EXCEPT ![serving] = Append(s2c[serving], Ack(AckValue(pendingAck)))] ELSE s2c
  BY DEF AckWritten
<1>6. /\ s2c' \in [Conn -> Seq(Response)]
      /\ \A d \in Conn : d # cur /\ s2c[d] = <<>> => s2c'[d] = <<>>
  BY <1>2, <1>4, <1>5, Answered DEF Sides
<1>7. Wires'
  <2>1. c2s \in [Conn -> Seq(Nat)] /\ breaks \in Nat
    BY DEF Sides, Wires, TypeNet
  <2>2. \A c \in Conn : \A i \in 1..Len(c2s[c]) : c2s[c][i] < NextSeq'
    BY <1>2, FramesBelow DEF Sides
  <2>3. UNCHANGED <<intact, clientEnd, serverEnd>>
    BY <1>1 DEF ends
  <2> QED  BY <1>1, <1>2, <1>6, <2>1, <2>2, <2>3, WiresKept DEF Sides
<1>8. next' \in [seq : Nat, ack : Nat] /\ next'.seq = next.seq
  BY <1>1, <1>2 DEF TypeServer
<1>9. TypeServer'
  BY <1>1, <1>2, <1>8 DEF TypeServer
<1>10. ServerSide'
  BY <1>1, <1>2, <1>9 DEF Sides, ServerSide
<1> QED  BY <1>1, <1>7, <1>8, <1>10, ServerAlone

\* A frame is read, taken or not.
LEMMA ReadSides ==
  ASSUME Sides, ReadRetransmit \/ ReadNext
  PROVE  Sides' /\ serving \in Conn /\ c2s \in [Conn -> Seq(Nat)]
<1> USE DEF procVars, rxVars, srvVars
<1>1. /\ proc = "serving" /\ c2s[serving] # <<>> /\ c2s' = [c2s EXCEPT ![serving] = Tail(@)]
      /\ held' = held \/ held' = Head(c2s[serving])
      /\ UNCHANGED <<proc, connq, serving, next, pendingAck, rxVars, srvVars>>
      /\ UNCHANGED <<cur, nconn, ends, s2c, breaks>>
      /\ UNCHANGED <<appVars, clientVars, outcome, queue>>
  BY DEF ReadRetransmit, ReadNext, Reading
<1>2. /\ TypeServer /\ serving \in Conn /\ NextSeq \in Nat /\ NextSeq' = NextSeq /\ UNCHANGED <<phase, sent>>
      /\ c2s \in [Conn -> Seq(Nat)]
  BY <1>1, Given DEF Sides, ServerSide, clientVars, NextSeq, Wires, TypeNet
<1>3. Wires' /\ Head(c2s[serving]) \in Nat /\ Head(c2s[serving]) < NextSeq
  BY <1>1, <1>2, WiresRead DEF Sides
<1>4. held' \in Nat \cup {-1} /\ (held' # -1 => held' < NextSeq)
  BY <1>1, <1>2, <1>3 DEF TypeServer, Sides, ServerSide
<1>5. TypeServer'
  BY <1>1, <1>2, <1>4 DEF TypeServer
<1>6. ServerSide'
  BY <1>1, <1>2, <1>4, <1>5 DEF Sides, ServerSide
<1> QED  BY <1>1, <1>2, <1>3, <1>6, ServerAlone

\* A message is delivered.
LEMMA DeliverSides ==
  ASSUME Sides, Deliver
  PROVE  /\ Sides' /\ delivered \in Seq(Msg) /\ sent[held + 1] \in Msg
         /\ held \in Nat /\ held < NextSeq /\ NextSeq \in Nat /\ NextSeq' = NextSeq
         /\ next' = [next EXCEPT !.seq = held + 1] /\ next \in [seq : Nat, ack : Nat]
<1> USE DEF procVars, rxVars, srvVars
<1>1. /\ proc = "serving" /\ held # -1 /\ held' = -1 /\ delivered' = Append(delivered, sent[held + 1])
      /\ everDelivered' = everDelivered \cup {sent[held + 1]} /\ next' = [next EXCEPT !.seq = held + 1]
      /\ UNCHANGED <<proc, connq, serving, pendingAck, consumed, srvVars>>
      /\ UNCHANGED <<netVars, breaks>> /\ UNCHANGED <<appVars, clientVars, outcome, queue>>
  BY DEF Deliver
<1>2. /\ TypeServer /\ NextSeq \in Nat /\ NextSeq' = NextSeq /\ UNCHANGED <<phase, sent>>
      /\ held < NextSeq /\ sent \in Seq(Msg)
  BY <1>1, Given DEF Sides, ServerSide, clientVars, NextSeq, ClientSide, TypeClient
<1>3. held \in Nat /\ delivered \in Seq(Msg) /\ next \in [seq : Nat, ack : Nat] /\ consumed \in Nat
  BY <1>1, <1>2 DEF TypeServer
<1>4. held + 1 \in 1..Len(sent)
  BY <1>2, <1>3 DEF NextSeq
<1>5. sent[held + 1] \in Msg
  BY <1>2, <1>4, EmptyFacts
<1>6. delivered' \in Seq(Msg) /\ Len(delivered') = Len(delivered) + 1 /\ Len(delivered) \in Nat
  BY <1>1, <1>3, <1>5, AppendFacts
<1>7. next' \in [seq : Nat, ack : Nat]
  BY <1>1, <1>3
<1>8. everDelivered' \subseteq Msg
  BY <1>1, <1>2, <1>5 DEF TypeServer
<1>9. TypeServer'
  BY <1>1, <1>2, <1>6, <1>7, <1>8 DEF TypeServer
<1>10. consumed' <= Len(delivered')
  BY <1>1, <1>3, <1>6 DEF Sides, ServerSide
<1>11. ServerSide'
  BY <1>1, <1>9, <1>10 DEF Sides, ServerSide
<1>12. Wires'
  BY <1>1, <1>2, WiresSame DEF Sides
<1>13. Sides'
  BY <1>1, <1>11, <1>12, ServerAlone
<1> QED  BY <1>1, <1>2, <1>3, <1>5, <1>13

\* The server's side of a connection ends, for whatever reason.
LEMMA LeaveSides ==
  ASSUME Sides, RecvEof \/ ReadAhead \/ RecvCancelled \/ DeliverFails
  PROVE  /\ Sides' /\ held' = -1 /\ next'.seq = next.seq /\ UNCHANGED <<clientVars, rxVars, srvVars>>
         /\ \A c \in Conn : c2s'[c] = c2s[c] \/ c2s'[c] = <<>>
<1>1. /\ \E bye \in Seq(Response), ok \in BOOLEAN : RecvEnds(bye, ok)
      /\ proc = "serving" /\ UNCHANGED <<appVars, clientVars, rxVars, srvVars, outcome, queue, breaks>>
  <2>1. <<>> \in Seq(Response) /\ <<Reject>> \in Seq(Response) /\ <<Closed>> \in Seq(Response)
    <3>1. Reject \in Response /\ Closed \in Response
      BY DEF Reject, Closed, Response
    <3> QED  BY <3>1
  <2>2. \E bye \in {<<>>, <<Reject>>, <<Closed>>}, ok \in BOOLEAN : RecvEnds(bye, ok)
    BY DEF RecvEof, ReadAhead, RecvCancelled, DeliverFails
  <2>3. proc = "serving" /\ UNCHANGED <<appVars, clientVars, rxVars, srvVars, outcome, queue, breaks>>
    BY DEF RecvEof, ReadAhead, RecvCancelled, DeliverFails, Reading
  <2> QED  BY <2>1, <2>2, <2>3
<1>2. PICK bye \in Seq(Response), ok \in BOOLEAN : RecvEnds(bye, ok)
  BY <1>1
<1>3. Wires' /\ \A c \in Conn : c2s'[c] = c2s[c] \/ c2s'[c] = <<>>
  BY <1>1, <1>2, WiresLeft DEF Sides
<1>4. ServerSide' /\ held' = -1 /\ next'.seq = next.seq
  BY <1>1, <1>2, ServerLeaves DEF Sides
<1> QED  BY <1>1, <1>3, <1>4, ServerAlone

\* The server is stopped.
LEMMA StopSides ==
  ASSUME Sides, (\E dropped \in BOOLEAN : Stop(dropped)) \/ WaitCancelled \/ AcceptLoopEnds
  PROVE  Sides' /\ UNCHANGED rxVars
<1> USE DEF procVars, rxVars, srvVars
<1>1. NextSeq \in Nat /\ TypeServer /\ ServerSide
  BY Given DEF Sides, ServerSide
<1>2. ASSUME NEW dropped \in BOOLEAN, Stop(dropped) PROVE Sides' /\ UNCHANGED rxVars
  <2>1. /\ UNCHANGED <<appVars, clientVars, outcome, queue>> /\ UNCHANGED <<netVars, breaks>>
        /\ UNCHANGED <<backlog, listening, procVars, rxVars>>
        /\ cancelled' \in BOOLEAN /\ rxOpen' \in BOOLEAN
    BY <1>2 DEF Stop
  <2>2. UNCHANGED <<phase, sent>> /\ NextSeq' = NextSeq
    BY <2>1 DEF clientVars, NextSeq
  <2>3. Wires'
    BY <1>1, <2>1, <2>2, WiresSame DEF Sides
  <2>4. TypeServer'
    BY <1>1, <2>1 DEF TypeServer
  <2>5. ServerSide'
    BY <1>1, <2>1, <2>2, <2>4 DEF ServerSide
  <2> QED  BY <2>1, <2>3, <2>5, ServerAlone
<1>3. CASE WaitCancelled
  <2>1. /\ UNCHANGED <<appVars, clientVars, outcome, queue>>
        /\ UNCHANGED <<cur, nconn, clientEnd, s2c, breaks>>
        /\ UNCHANGED <<serving, next, pendingAck, held, rxVars, srvVars>>
        /\ proc = "waiting" /\ proc' = "none"
        /\ connq' = <<>> /\ ServerDrops(Handed)
    BY <1>3 DEF WaitCancelled
  <2>2. UNCHANGED <<phase, sent>> /\ NextSeq' = NextSeq
    BY <2>1 DEF clientVars, NextSeq
  <2>3. breaks' \in Nat /\ s2c' \in [Conn -> Seq(Response)]
    BY <2>1 DEF Sides, Wires, TypeNet
  <2>4. Wires'
    BY <1>1, <2>1, <2>2, <2>3, WiresDropped DEF Sides
  <2>5. TypeServer'
    BY <1>1, <2>1 DEF TypeServer
  <2>6. ServerSide'
    BY <1>1, <2>1, <2>2, <2>5 DEF ServerSide
  <2> QED  BY <2>1, <2>4, <2>6, ServerAlone
<1>4. CASE AcceptLoopEnds
  <2>1. /\ UNCHANGED <<appVars, clientVars, outcome, queue>>
        /\ UNCHANGED <<cur, nconn, clientEnd, s2c, breaks>>
        /\ UNCHANGED <<procVars, rxVars, rxOpen, cancelled>> /\ listening' = FALSE /\ backlog' = {}
        /\ ServerDrops(backlog)
    BY <1>4 DEF AcceptLoopEnds
  <2>2. UNCHANGED <<phase, sent>> /\ NextSeq' = NextSeq
    BY <2>1 DEF clientVars, NextSeq
  <2>3. breaks' \in Nat /\ s2c' \in [Conn -> Seq(Response)]
    BY <2>1 DEF Sides, Wires, TypeNet
  <2>4. Wires'
    BY <1>1, <2>1, <2>2, <2>3, WiresDropped DEF Sides
  <2>5. TypeServer'
    BY <1>1, <2>1 DEF TypeServer
  <2>6. ServerSide'
    BY <1>1, <2>1, <2>2, <2>5 DEF ServerSide
  <2> QED  BY <2>1, <2>4, <2>6, ServerAlone
<1> QED  BY <1>2, <1>3, <1>4

\* A new process of the server is as no client has seen it.
LEMMA RestartSides == ASSUME Sides, Restart PROVE Sides' /\ Untouched' /\ rxOpen' /\ consumed' = 0
<1>1. /\ UNCHANGED <<appVars, clientVars, outcome, queue>>
      /\ UNCHANGED <<cur, nconn, clientEnd, s2c, everDelivered>>
      /\ ServerDrops(Conn) /\ breaks' = breaks + 1
      /\ backlog' = {} /\ proc' = "none" /\ connq' = <<>> /\ serving' = 0
      /\ next' = [seq |-> 0, ack |-> 0] /\ pendingAck' = 0 /\ held' = -1
      /\ delivered' = <<>> /\ consumed' = 0 /\ rxOpen' = TRUE /\ cancelled' = FALSE /\ listening' = TRUE
  BY DEF Restart
<1>2. UNCHANGED <<phase, sent>> /\ NextSeq' = NextSeq /\ NextSeq \in Nat
  BY <1>1, Given DEF clientVars, NextSeq, Sides
<1>3. breaks' \in Nat /\ s2c' \in [Conn -> Seq(Response)]
  BY <1>1 DEF Sides, Wires, TypeNet
<1>4. Wires'
  BY <1>1, <1>2, <1>3, WiresDropped DEF Sides
<1>5. TypeServer'
  <2>1. 0 \in 0..MaxConns /\ <<>> \in Seq(Conn) /\ <<>> \in Seq(Msg)
    BY ConstantAssumption
  <2>2. next' \in [seq : Nat, ack : Nat]
    BY <1>1
  <2> QED  BY <1>1, <2>1, <2>2 DEF Sides, ServerSide, TypeServer
<1>6. ServerSide'
  BY <1>1, <1>5 DEF ServerSide
<1>7. Untouched'
  <2>1. \A c \in Conn : c2s'[c] = <<>>
    BY <1>1 DEF ServerDrops
  <2>2. serverEnd' = {}
    BY <1>1 DEF ServerDrops, Sides, Wires, TypeNet
  <2> QED  BY <1>1, <2>1, <2>2 DEF Untouched
<1> QED  BY <1>1, <1>4, <1>6, <1>7, ServerAlone

\* A process no client has connected to waits for the first connection.
LEMMA UntouchedStep ==
  ASSUME Sides, Untouched, Next PROVE Untouched' \/ Inv' \/ Once'
<1> USE DEF procVars, rxVars, srvVars
<1>1. ~ServerNext
  <2>1. ~(consumed < Len(delivered))
    BY DEF Untouched
  <2> QED  BY <2>1 DEF Untouched, ServerNext, Dispatch, ServeNext, BeginAck, AckWritten,
              Reading, ReadRetransmit,
              ReadNext, Deliver, RecvEof, ReadAhead, RxRecv
<1>2. CASE \/ Post \/ DropTx \/ LazyRecv \/ LazyClosed \/ ConnectFails \/ SendOversized
           \/ ReadAck \/ ReadTerminal \/ Disconnect \/ RecvNew \/ AppClosed \/ TimerNext
  <2>1. ClientMoved
    BY <1>2, ClientSteps
  <2> QED  BY <2>1 DEF ClientMoved, Untouched
<1>3. CASE WriteFrame
  <2>1. UNCHANGED <<c2s, serverEnd>> /\ UNCHANGED <<procVars, rxVars, srvVars>>
    BY <1>3 DEF WriteFrame, ServerHears, Untouched, ends
  <2> QED  BY <2>1 DEF Untouched
<1>4. ASSUME NEW c \in Conn, Break(c) PROVE Untouched'
  <2>1. /\ UNCHANGED <<serverEnd, procVars, rxVars, srvVars>> /\ c2s \in [Conn -> Seq(Nat)]
        /\ \E k \in 0..Len(c2s[c]) : c2s' = [c2s EXCEPT ![c] = SubSeq(@, 1, k)]
    BY <1>4, BreakSides
  <2>2. c2s[c] = <<>> /\ Len(<<>>) = 0 /\ SubSeq(<<>>, 1, 0) = <<>>
    BY DEF Untouched
  <2>3. \A d \in Conn : c2s'[d] = <<>>
    <3>1. PICK k \in 0..Len(c2s[c]) : c2s' = [c2s EXCEPT ![c] = SubSeq(@, 1, k)]
      BY <2>1
    <3>2. k = 0
      BY <2>2
    <3> QED  BY <2>1, <2>2, <3>1, <3>2 DEF Untouched
  <2> QED  BY <2>1, <2>3 DEF Untouched
<1>5. CASE Connect
  <2>1. /\ Sides' /\ NextSeq \in Nat /\ NextSeq' = NextSeq /\ NextSeq > 0
        /\ OutboxStart' = RunStart /\ RunStart' = RunStart /\ RunStart <= largestAcked + 1
        /\ reason = "none" /\ \A c \in Conn : s2c'[c] = <<>>
        /\ UNCHANGED <<sent, outcome, largestAcked, c2s, procVars, rxVars, rxOpen, cancelled>>
    BY <1>5, ConnectSides
  <2>2. /\ phase' = "connected" /\ reason' = reason /\ backlog' = {nconn + 1} /\ nconn' = nconn + 1
        /\ cur' = nconn + 1
    BY <1>5 DEF Connect, Untouched
  <2>3. /\ proc' = "none" /\ connq' = <<>> /\ serving' = 0 /\ next' = [seq |-> 0, ack |-> 0]
        /\ pendingAck' = 0 /\ held' = -1 /\ delivered' = <<>>
        /\ \A c \in Conn : c2s'[c] = <<>>
    BY <2>1 DEF Untouched
  <2>4. largestAcked \in Nat \cup {-1} /\ Len(<<>>) = 0
    BY DEF Sides, ClientSide, TypeClient
  <2>5. CASE largestAcked = -1
    <3>1. /\ TypeClient' /\ TypeNet' /\ TypeServer' /\ InvDeques' /\ InvOrder'
          /\ cur' \in 1..nconn' /\ \A c \in Conn : c > nconn' => c \notin intact'
      BY <2>1, <2>2 DEF Sides, ClientSide, Wires, ServerSide
    <3>2. OutboxStart' \in Int /\ OutboxStart' <= 0 /\ RunStart' <= 0
      <4>1. sent' \in Seq(Msg) /\ outbox' \in Seq(Nat)
        BY <3>1 DEF TypeClient
      <4>2. OutboxStart' \in Int
        BY <4>1, EmptyFacts DEF OutboxStart, NextSeq
      <4>3. largestAcked + 1 = 0
        BY <2>5
      <4> QED  BY <2>1, <4>2, <4>3
    <3>3. InvClient'
      BY <2>1, <2>2, <2>3, <2>5, <3>1, <3>2 DEF InvClient
    <3>4. InvFrames'
      BY <2>1, <2>3, <2>4, <3>1 DEF InvFrames, Consecutive
    <3>5. InvCur'
      <4>1. cur' \in Conn
        BY <3>1, ConstantAssumption DEF TypeNet, Conn
      <4>2. c2s'[cur'] = <<>>
        BY <2>3, <4>1
      <4>3. Taken(cur)' = 0
        BY <2>3 DEF Taken
      <4> QED  BY <3>2, <4>2, <4>3 DEF InvCur
    <3>6. InvAcks'
      BY <2>1, <2>4 DEF InvAcks
    <3>7. InvServer'
      <4>1. nconn' \in Nat
        BY <3>1 DEF TypeNet
      <4> QED  BY <2>2, <2>3, <2>4, <4>1 DEF InvServer
    <3>8. InvDelivered'
      BY <2>1, <2>3, <2>4 DEF InvDelivered
    <3>9. InvAccepted'
      <4>1. Unserializable = {} => \A m \in Msg : outcome'[m] # "accepted"
        BY <2>1, <2>5 DEF Sides, ClientSide
      <4> QED  BY <4>1 DEF InvAccepted, AcceptedWasDelivered
    <3> QED  BY <3>1, <3>3, <3>4, <3>5, <3>6, <3>7, <3>8, <3>9 DEF Inv
  <2>6. CASE largestAcked # -1
    <3>1. largestAcked' >= 0 /\ NextSeq' > 0 /\ Len(delivered') = 0 /\ NextSeq' \in Nat
      BY <2>1, <2>3, <2>4, <2>6
    <3>2. \A c \in Conn : NoZero(c2s'[c]) /\ OneZero(c2s'[c])
      BY <2>3, <2>4 DEF NoZero, OneZero
    <3>3. ZeroOnce'
      BY <2>3, <3>2 DEF ZeroOnce
    <3>4. \A i \in 1..Len(delivered') : delivered'[i] = sent'[i]
      BY <3>1
    <3> QED  BY <2>3, <3>1, <3>3, <3>4 DEF Once
  <2> QED  BY <2>5, <2>6
<1> QED  BY <1>1, <1>2, <1>3, <1>4, <1>5 DEF Next, PatientNext, ClientNext

\* A step that puts number 0 nowhere.
LEMMA FewerZeros ==
  ASSUME Sides, Once, largestAcked' >= 0, NextSeq \in Nat, NextSeq' \in Nat, NextSeq' >= NextSeq,
         \A i \in 1..NextSeq : sent'[i] = sent[i], UNCHANGED delivered,
         \A c \in Conn : /\ NoZero(c2s[c]) => NoZero(c2s'[c])
                         /\ OneZero(c2s[c]) => OneZero(c2s'[c]),
         NoZero(outbox) => NoZero(outbox'), held' = 0 => held = 0,
         proc' # "none" => next'.seq \in {0, Len(delivered)},
         held' # -1 => held' = next'.seq
  PROVE  Once'
<1>1. ZeroOnce'
  BY DEF Once, ZeroOnce
<1>2. delivered \in Seq(Msg)
  BY DEF Sides, ServerSide, TypeServer
<1>3. /\ Len(delivered) \in Nat /\ Len(delivered) <= NextSeq
      /\ \A i \in 1..Len(delivered) : delivered[i] = sent[i]
  BY <1>2, EmptyFacts DEF Once
<1>4. \A i \in 1..Len(delivered) : i \in 1..NextSeq /\ delivered[i] = sent'[i]
  BY <1>3
<1>5. NextSeq' > 0 /\ Len(delivered') <= NextSeq'
  BY <1>3 DEF Once
<1> QED  BY <1>1, <1>4, <1>5 DEF Once

\* The frame with number 0 is written, or another one.
LEMMA OnceWrites == ASSUME Sides, Once, WriteFrame PROVE Once'
<1> DEFINE h == Head(outbox)
<1>1. NextSeq \in Nat /\ UNCHANGED <<sent, largestAcked, procVars, rxVars, srvVars>>
  BY WriteSides
<1>2. UNCHANGED <<proc, next, held, delivered>> /\ NextSeq' = NextSeq /\ Len(delivered') = Len(delivered)
  BY <1>1 DEF procVars, rxVars, NextSeq
<1>3. phase = "connected" /\ outbox # <<>> /\ outbox' = Tail(outbox) /\ outbox \in Seq(Nat)
  BY DEF WriteFrame, Selecting, Sides, ClientSide, TypeClient
<1>4. cur \in Conn /\ c2s \in [Conn -> Seq(Nat)]
  BY <1>3, OwnConn DEF Sides, Wires, TypeNet
<1>5. c2s' = IF ServerHears(cur) THEN [c2s EXCEPT ![cur] = Append(@, h)] ELSE c2s
  BY DEF WriteFrame
<1>6. \A c \in Conn : c2s'[c] = c2s[c] \/ (c = cur /\ c2s'[c] = Append(c2s[cur], h))
  BY <1>4, <1>5
<1>7. /\ h \in Nat
      /\ NoZero(outbox) => NoZero(outbox') /\ h # 0
      /\ OneZero(outbox) /\ h = 0 => NoZero(outbox')
  <2>1. h \in Nat
    BY <1>3, TailFacts
  <2> QED  BY <1>3, <2>1, ZerosTail
<1>8. c2s[cur] \in Seq(Nat)
  BY <1>4
<1> HIDE DEF h
<1>9. CASE h # 0
  <2>1. \A c \in Conn : /\ NoZero(c2s[c]) => NoZero(c2s'[c])
                        /\ OneZero(c2s[c]) => OneZero(c2s'[c])
    BY <1>6, <1>7, <1>8, <1>9, ZerosAppend
  <2>2. /\ largestAcked' >= 0 /\ NextSeq' >= NextSeq /\ \A i \in 1..NextSeq : sent'[i] = sent[i]
        /\ proc' # "none" => next'.seq \in {0, Len(delivered)}
        /\ held' # -1 => held' = next'.seq
    BY <1>1, <1>2 DEF Once
  <2> QED  BY <1>1, <1>2, <1>7, <2>1, <2>2, FewerZeros
<1>10. CASE h = 0
  <2>1. ~NoZero(outbox)
    BY <1>7, <1>10
  <2>2. /\ \A c \in Conn : NoZero(c2s[c])
        /\ held # 0 /\ delivered = <<>>
    BY <2>1 DEF Once, ZeroOnce
  <2>3. OneZero(outbox)
    <3>1. \A i \in 1..Len(outbox) : outbox[i] = OutboxStart + i - 1
      BY DEF Sides, ClientSide, InvDeques
    <3>2. OutboxStart \in Int
      BY <1>1, <1>3, EmptyFacts DEF OutboxStart
    <3> QED  BY <3>1, <3>2 DEF OneZero
  <2>4. NoZero(outbox')
    BY <1>7, <1>10, <2>3
  <2>5. /\ \A c \in Conn : OneZero(c2s'[c])
        /\ \A c \in Conn : c # cur => NoZero(c2s'[c])
    <3>1. \A c \in Conn : OneZero(c2s[c])
      BY DEF Once, ZeroOnce
    <3> QED  BY <1>6, <1>7, <1>8, <2>2, <3>1, ZerosAppend
  <2>6. ZeroOnce'
    BY <1>2, <2>2, <2>4, <2>5 DEF ZeroOnce
  <2> QED  BY <1>1, <1>2, <2>6 DEF Once
<1> QED  BY <1>9, <1>10

\* The frame with number 0 is taken, or another one.
LEMMA OnceReads == ASSUME Sides, Once, ReadRetransmit \/ ReadNext PROVE Once'
<1> DEFINE h == Head(c2s[serving])
<1>1. /\ serving \in Conn /\ c2s \in [Conn -> Seq(Nat)] /\ NextSeq \in Nat
  BY ReadSides, Given DEF Sides
<1>2. /\ UNCHANGED <<proc, next, delivered, sent, outbox, largestAcked>> /\ NextSeq' = NextSeq
      /\ c2s[serving] # <<>> /\ c2s' = [c2s EXCEPT ![serving] = Tail(@)] /\ proc = "serving"
      /\ held' = held \/ (held' = h /\ h = next.seq)
  <2>1. CASE ReadRetransmit
    BY <2>1 DEF ReadRetransmit, Reading, procVars, rxVars, clientVars, NextSeq
  <2>2. CASE ReadNext
    <3>1. h \in Nat /\ next.seq \in Nat
      <4>1. c2s[serving] \in Seq(Nat) /\ c2s[serving] # <<>>
        BY <1>1, <2>2 DEF ReadNext, Reading
      <4> QED  BY <4>1, TailFacts DEF Sides, ServerSide, TypeServer
    <3>2. h = next.seq
      BY <2>2, <3>1 DEF ReadNext, IsRetransmit, IsAhead
    <3> QED  BY <2>2, <3>2 DEF ReadNext, Reading, rxVars, clientVars, NextSeq
  <2> QED  BY <2>1, <2>2
<1>3. c2s[serving] \in Seq(Nat)
  BY <1>1
<1>4. \A c \in Conn : c2s'[c] = IF c = serving THEN Tail(c2s[serving]) ELSE c2s[c]
  BY <1>1, <1>2
<1>5. /\ NoZero(c2s[serving]) => NoZero(Tail(c2s[serving])) /\ h # 0
      /\ OneZero(c2s[serving]) => OneZero(Tail(c2s[serving]))
      /\ OneZero(c2s[serving]) /\ h = 0 => NoZero(Tail(c2s[serving]))
  BY <1>2, <1>3, ZerosTail
<1> HIDE DEF h
<1>6. \A c \in Conn : /\ NoZero(c2s[c]) => NoZero(c2s'[c])
                      /\ OneZero(c2s[c]) => OneZero(c2s'[c])
  BY <1>4, <1>5
<1>7. next.seq \in {0, Len(delivered)} /\ (held # -1 => held = next.seq)
  BY <1>2 DEF Once
<1>8. CASE held' = held \/ h # 0
  <2>1. /\ largestAcked' >= 0 /\ NextSeq' >= NextSeq /\ \A i \in 1..NextSeq : sent'[i] = sent[i]
        /\ held' = 0 => held = 0
        /\ proc' # "none" => next'.seq \in {0, Len(delivered)}
        /\ held' # -1 => held' = next'.seq
    BY <1>1, <1>2, <1>7, <1>8 DEF Once
  <2> QED  BY <1>1, <1>2, <1>6, <2>1, FewerZeros
<1>9. CASE held' = h /\ h = 0 /\ h = next.seq
  <2>1. ~NoZero(c2s[serving]) /\ OneZero(c2s[serving])
    BY <1>1, <1>5, <1>9 DEF Once, ZeroOnce
  <2>2. \A c \in Conn : c # serving => NoZero(c2s[c])
    BY <1>1, <2>1 DEF Once, ZeroOnce
  <2>3. NoZero(outbox) /\ delivered = <<>>
    BY <1>1, <2>1 DEF Once, ZeroOnce
  <2>4. \A c \in Conn : NoZero(c2s'[c]) /\ OneZero(c2s'[c])
    <3>1. \A c \in Conn : OneZero(c2s[c])
      BY DEF Once, ZeroOnce
    <3> QED  BY <1>4, <1>5, <1>9, <2>1, <2>2, <3>1
  <2>5. ZeroOnce'
    BY <1>2, <2>3, <2>4 DEF ZeroOnce
  <2> QED  BY <1>2, <1>7, <1>9, <2>5 DEF Once
<1> QED  BY <1>2, <1>8, <1>9

\* Only the session that took number 0 delivers.
LEMMA OnceDelivers == ASSUME Sides, Once, Deliver PROVE Once'
<1>1. /\ delivered \in Seq(Msg) /\ sent[held + 1] \in Msg
      /\ held \in Nat /\ held < NextSeq /\ NextSeq \in Nat /\ NextSeq' = NextSeq
      /\ next' = [next EXCEPT !.seq = held + 1] /\ next \in [seq : Nat, ack : Nat]
  BY DeliverSides
<1>2. /\ held' = -1 /\ delivered' = Append(delivered, sent[held + 1]) /\ proc = "serving" /\ held # -1
      /\ UNCHANGED <<proc, c2s, sent, outbox, largestAcked>>
  BY DEF Deliver, clientVars, netVars
<1>3. Len(delivered) \in Nat /\ (delivered = <<>> <=> Len(delivered) = 0)
  BY <1>1, EmptyFacts
<1>4. held = Len(delivered)
  <2>1. held = next.seq /\ next.seq \in {0, Len(delivered)} /\ (delivered # <<>> => held # 0)
    BY <1>2 DEF Once, ZeroOnce
  <2> QED  BY <1>3, <2>1
<1>5. /\ Len(delivered') = Len(delivered) + 1 /\ \A i \in 1..Len(delivered) : delivered'[i] = delivered[i]
      /\ delivered'[Len(delivered) + 1] = sent[held + 1]
  BY <1>1, <1>2, AppendFacts
<1>6. next'.seq = Len(delivered')
  BY <1>1, <1>4, <1>5
<1>7. \A i \in 1..Len(delivered') : delivered'[i] = sent'[i]
  <2>1. \A i \in 1..Len(delivered) : delivered[i] = sent[i]
    BY DEF Once
  <2>2. \A i \in 1..Len(delivered') : i \in 1..Len(delivered) \/ i = Len(delivered) + 1
    BY <1>3, <1>5
  <2> QED  BY <1>2, <1>4, <1>5, <2>1, <2>2
<1>8. NoZero(outbox) /\ \A c \in Conn : NoZero(c2s[c]) /\ OneZero(c2s[c])
  <2>1. held = 0 \/ delivered # <<>>
    BY <1>3, <1>4
  <2> QED  BY <2>1 DEF Once, ZeroOnce
<1>9. ZeroOnce'
  BY <1>2, <1>8 DEF ZeroOnce
<1>10. Len(delivered') <= NextSeq'
  BY <1>1, <1>3, <1>4, <1>5
<1> QED  BY <1>1, <1>2, <1>6, <1>7, <1>9, <1>10 DEF Once

\* The rest of the server's steps put number 0 nowhere.
LEMMA OnceServes ==
  ASSUME Sides, Once, \/ (\E c \in Conn : Dispatch(c)) \/ ServeNext \/ BeginAck \/ AckWritten
                      \/ RecvEof \/ ReadAhead \/ RxRecv
  PROVE  Once'
<1> USE DEF procVars, rxVars, srvVars
<1>1. NextSeq \in Nat /\ largestAcked >= 0 /\ (held # -1 => proc = "serving")
  BY Given DEF Sides, Once, ServerSide
<1>2. UNCHANGED clientVars
  BY DEF Dispatch, ServeNext, BeginAck, AckWritten, RecvEof, ReadAhead, RxRecv
<1>3. /\ UNCHANGED <<sent, outbox, largestAcked>> /\ NextSeq' = NextSeq /\ NextSeq' >= NextSeq
      /\ \A i \in 1..NextSeq : sent'[i] = sent[i]
  BY <1>1, <1>2 DEF clientVars, NextSeq
<1>4. /\ proc # "none" => next.seq \in {0, Len(delivered)}
      /\ held # -1 => held = next.seq
  BY DEF Once
<1>5. ASSUME NEW c \in Conn, Dispatch(c) PROVE Once'
  <2>1. UNCHANGED <<c2s, delivered, held>> /\ next' = NextAtDispatch
    BY <1>5 DEF Dispatch, netVars
  <2>2. CASE proc = "none"
    <3>1. next'.seq = 0 /\ held = -1
      BY <1>1, <2>1, <2>2 DEF NextAtDispatch
    <3> QED  BY <1>1, <1>3, <2>1, <3>1, FewerZeros
  <2>3. CASE proc # "none"
    <3>1. next' = next
      BY <2>1, <2>3 DEF NextAtDispatch
    <3> QED  BY <1>1, <1>3, <1>4, <2>1, <2>3, <3>1, FewerZeros
  <2> QED  BY <2>2, <2>3
<1>6. CASE ServeNext \/ BeginAck \/ RxRecv
  <2>1. UNCHANGED <<c2s, delivered, held, next>> /\ (proc' # "none" => proc # "none")
    BY <1>6 DEF ServeNext, BeginAck, RxRecv, netVars
  <2> QED  BY <1>1, <1>3, <1>4, <2>1, FewerZeros
<1>7. CASE AckWritten
  <2>1. UNCHANGED <<c2s, delivered, held, proc>> /\ next'.seq = next.seq
    BY <1>7, AckSides DEF AckWritten
  <2> QED  BY <1>1, <1>3, <1>4, <2>1, FewerZeros
<1>8. CASE RecvEof \/ ReadAhead
  <2>1. /\ held' = -1 /\ next'.seq = next.seq /\ UNCHANGED delivered
        /\ \A c \in Conn : c2s'[c] = c2s[c] \/ c2s'[c] = <<>>
    BY <1>8, LeaveSides
  <2>2. proc = "serving"
    BY <1>8 DEF RecvEof, ReadAhead, Reading
  <2>3. Len(<<>>) = 0
    OBVIOUS
  <2>4. \A c \in Conn : /\ NoZero(c2s[c]) => NoZero(c2s'[c])
                        /\ OneZero(c2s[c]) => OneZero(c2s'[c])
    BY <2>1, <2>3 DEF NoZero, OneZero
  <2> QED  BY <1>1, <1>3, <1>4, <2>1, <2>2, <2>4, FewerZeros
<1> QED  BY <1>5, <1>6, <1>7, <1>8

\* A client with old acks never writes number 0 a second time.
LEMMA OnceStep == ASSUME Sides, Once, Next PROVE Once'
<1> USE DEF procVars, rxVars, srvVars
<1>1. NextSeq \in Nat /\ NextSeq > 0 /\ largestAcked >= 0
  BY Given DEF Sides, Once
<1>2. /\ proc # "none" => next.seq \in {0, Len(delivered)}
      /\ held # -1 => held = next.seq
  BY DEF Once
<1>3. CASE \/ Post \/ DropTx \/ LazyRecv \/ LazyClosed \/ ConnectFails \/ SendOversized
           \/ ReadAck \/ ReadTerminal \/ Disconnect \/ RecvNew \/ AppClosed \/ TimerNext
  <2>1. ClientMoved
    BY <1>3, ClientSteps
  <2>2. /\ UNCHANGED <<c2s, delivered, held, next, proc>> /\ largestAcked' >= 0
        /\ NoZero(outbox) => NoZero(outbox')
        /\ NextSeq' \in Nat /\ NextSeq' >= NextSeq /\ \A i \in 1..NextSeq : sent'[i] = sent[i]
    BY <1>1, <2>1 DEF ClientMoved
  <2> QED  BY <1>1, <1>2, <2>2, FewerZeros
<1>4. CASE WriteFrame
  BY <1>4, OnceWrites
<1>5. CASE Connect
  <2>1. /\ NextSeq' = NextSeq /\ UNCHANGED <<sent, largestAcked, c2s, delivered, held, next, proc>>
    BY <1>5, ConnectSides
  <2>2. NoZero(outbox) => NoZero(outbox')
    <3>1. outbox' = unacked \o outbox /\ unacked \in Seq(Nat) /\ outbox \in Seq(Nat)
      BY <1>5 DEF Connect, Requeued, Sides, ClientSide, TypeClient
    <3>2. \A i \in 1..Len(unacked) : unacked[i] # 0
      <4>1. \A i \in 1..Len(unacked) : unacked[i] > largestAcked
        BY DEF Sides, ClientSide, InvDeques
      <4>2. largestAcked \in Int
        BY DEF Sides, ClientSide, TypeClient
      <4> QED  BY <1>1, <4>1, <4>2
    <3>3. /\ Len(outbox') = Len(unacked) + Len(outbox) /\ Len(unacked) \in Nat /\ Len(outbox) \in Nat
          /\ \A i \in 1..(Len(unacked) + Len(outbox)) : outbox'[i] =
               IF i <= Len(unacked) THEN unacked[i] ELSE outbox[i - Len(unacked)]
      BY <3>1, CatFacts
    <3>4. ASSUME NoZero(outbox), NEW i \in 1..Len(outbox') PROVE outbox'[i] # 0
      <4>1. CASE i <= Len(unacked)
        <5>1. i \in 1..Len(unacked) /\ outbox'[i] = unacked[i]
          BY <3>3, <4>1
        <5> QED  BY <3>2, <5>1
      <4>2. CASE ~(i <= Len(unacked))
        <5>1. i - Len(unacked) \in 1..Len(outbox) /\ outbox'[i] = outbox[i - Len(unacked)]
          BY <3>3, <4>2
        <5> QED  BY <3>4, <5>1 DEF NoZero
      <4> QED  BY <4>1, <4>2
    <3> QED  BY <3>4 DEF NoZero
  <2>3. NextSeq' >= NextSeq /\ \A i \in 1..NextSeq : sent'[i] = sent[i]
    BY <1>1, <2>1
  <2> QED  BY <1>1, <1>2, <2>1, <2>2, <2>3, FewerZeros
<1>6. ASSUME NEW c \in Conn, Break(c) PROVE Once'
  <2>1. /\ UNCHANGED <<clientVars, delivered, held, next, proc>> /\ c2s \in [Conn -> Seq(Nat)]
        /\ \E k \in 0..Len(c2s[c]) : c2s' = [c2s EXCEPT ![c] = SubSeq(@, 1, k)]
    BY <1>6, BreakSides
  <2>2. /\ UNCHANGED <<sent, outbox, largestAcked>> /\ NextSeq' = NextSeq
        /\ NextSeq' >= NextSeq /\ \A i \in 1..NextSeq : sent'[i] = sent[i]
    BY <1>1, <2>1 DEF clientVars, NextSeq
  <2>3. PICK k \in 0..Len(c2s[c]) : c2s' = [c2s EXCEPT ![c] = SubSeq(@, 1, k)]
    BY <2>1
  <2>4. /\ Len(c2s'[c]) = k /\ k \in Nat /\ k <= Len(c2s[c]) /\ Len(c2s[c]) \in Nat
        /\ \A i \in 1..k : c2s'[c][i] = c2s[c][i]
        /\ \A d \in Conn : d # c => c2s'[d] = c2s[d]
    BY <2>1, <2>3
  <2>5. \A i \in 1..Len(c2s'[c]) : i \in 1..Len(c2s[c]) /\ c2s'[c][i] = c2s[c][i]
    BY <2>4
  <2>6. /\ NoZero(c2s[c]) => NoZero(c2s'[c])
        /\ OneZero(c2s[c]) => OneZero(c2s'[c])
    BY <2>5 DEF NoZero, OneZero
  <2>7. \A d \in Conn : /\ NoZero(c2s[d]) => NoZero(c2s'[d])
                        /\ OneZero(c2s[d]) => OneZero(c2s'[d])
    BY <2>4, <2>6
  <2> QED  BY <1>1, <1>2, <2>1, <2>2, <2>7, FewerZeros
<1>7. CASE ServerNext
  BY <1>7, OnceReads, OnceDelivers, OnceServes DEF ServerNext
<1> QED  BY <1>3, <1>4, <1>5, <1>6, <1>7 DEF Next, PatientNext, ClientNext

\* Until the stop, what was delivered is a prefix of what was sent, hence in order.
LEMMA PrefixInOrder ==
  ASSUME Sides, Inv \/ Untouched \/ Once
  PROVE  \A i, j \in 1..Len(delivered) : i < j => delivered[i] < delivered[j]
<1>1. delivered \in Seq(Msg) /\ InvOrder
  BY DEF Sides, ServerSide, TypeServer, ClientSide
<1>2. Len(delivered) <= NextSeq /\ \A i \in 1..Len(delivered) : delivered[i] = sent[i]
  <2>1. CASE Inv
    BY <2>1 DEF Inv, InvDelivered
  <2>2. CASE Untouched
    <3>1. Len(delivered) = 0 /\ NextSeq \in Nat
      BY <2>2, Given DEF Untouched, Sides
    <3> QED  BY <3>1
  <2>3. CASE Once
    BY <2>3 DEF Once
  <2> QED  BY <2>1, <2>2, <2>3
<1>3. Len(delivered) \in Nat /\ NextSeq \in Nat
  BY <1>1, EmptyFacts, Given DEF Sides
<1>4. \A i \in 1..Len(delivered) : i \in 1..Len(sent)
  BY <1>2, <1>3 DEF NextSeq
<1> QED  BY <1>1, <1>2, <1>4 DEF InvOrder

\* Every step keeps the two ends and the order of reception.
LEMMA FaultSides ==
  ASSUME FaultInv, Next \/ ShutdownNext \/ Restart PROVE Sides' /\ ReceivedInOrder'
<1> USE DEF rxVars
<1>1. /\ Sides /\ ReceivedInOrder
      /\ consumed \in Nat /\ consumed <= Len(delivered) /\ delivered \in Seq(Msg)
  BY DEF FaultInv, Sides, ServerSide, TypeServer
<1>2. SUFFICES Sides' /\ (UNCHANGED <<delivered, consumed>> \/ ReceivedInOrder')
  BY <1>1 DEF ReceivedInOrder
<1>3. CASE \/ Post \/ DropTx \/ LazyRecv \/ LazyClosed \/ ConnectFails \/ SendOversized
           \/ ReadAck \/ ReadTerminal \/ Disconnect \/ RecvNew \/ AppClosed \/ TimerNext
  <2>1. ClientMoved
    BY <1>1, <1>3, ClientSteps
  <2> QED  BY <2>1 DEF ClientMoved
<1>4. CASE WriteFrame
  BY <1>1, <1>4, WriteSides
<1>5. CASE Connect
  BY <1>1, <1>5, ConnectSides
<1>6. ASSUME NEW c \in Conn, Break(c) PROVE Sides' /\ UNCHANGED <<delivered, consumed>>
  BY <1>1, <1>6, BreakSides
<1>7. CASE (\E c \in Conn : Dispatch(c)) \/ ServeNext \/ BeginAck
  <2>1. Sides'
    BY <1>1, <1>7, HandSides
  <2>2. UNCHANGED <<delivered, consumed>>
    BY <1>7 DEF Dispatch, ServeNext, BeginAck
  <2> QED  BY <2>1, <2>2
<1>8. CASE AckWritten
  <2>1. Sides'
    BY <1>1, <1>8, AckSides
  <2> QED  BY <1>8, <2>1 DEF AckWritten
<1>9. CASE ReadRetransmit \/ ReadNext
  <2>1. Sides'
    BY <1>1, <1>9, ReadSides
  <2> QED  BY <1>9, <2>1 DEF ReadRetransmit, ReadNext
<1>10. CASE RecvEof \/ ReadAhead \/ RecvCancelled \/ DeliverFails
  BY <1>1, <1>10, LeaveSides
<1>11. CASE Deliver
  <2>1. Sides' /\ sent[held + 1] \in Msg
    BY <1>1, <1>11, DeliverSides
  <2>2. delivered' = Append(delivered, sent[held + 1]) /\ consumed' = consumed
    BY <1>11 DEF Deliver
  <2>3. Len(delivered) \in Nat /\ \A i \in 1..Len(delivered) : delivered'[i] = delivered[i]
    BY <1>1, <2>1, <2>2, AppendFacts
  <2>4. \A i \in 1..consumed : delivered'[i] = delivered[i]
    BY <1>1, <2>3
  <2> QED  BY <1>1, <2>1, <2>2, <2>4 DEF ReceivedInOrder
<1>12. CASE RxRecv
  <2>1. Sides'
    BY <1>1, <1>12, HandSides
  <2>2. ~cancelled /\ consumed < Len(delivered) /\ consumed' = consumed + 1 /\ delivered' = delivered
    BY <1>12 DEF RxRecv
  <2>3. \A i, j \in 1..Len(delivered) : i < j => delivered[i] < delivered[j]
    BY <1>1, <2>2, PrefixInOrder DEF FaultInv
  <2>4. \A i \in 1..consumed' : i \in 1..Len(delivered)
    <3>1. Len(delivered) \in Nat
      BY <1>1, EmptyFacts
    <3> QED  BY <1>1, <2>2, <3>1
  <2>5. ReceivedInOrder'
    BY <2>2, <2>3, <2>4 DEF ReceivedInOrder
  <2> QED  BY <2>1, <2>5
<1>13. CASE (\E dropped \in BOOLEAN : Stop(dropped)) \/ WaitCancelled \/ AcceptLoopEnds
  BY <1>1, <1>13, StopSides
<1>14. CASE Restart
  <2>1. Sides' /\ consumed' = 0
    BY <1>1, <1>14, RestartSides
  <2>2. ReceivedInOrder'
    BY <2>1 DEF ReceivedInOrder
  <2> QED  BY <2>1, <2>2
<1> QED  BY <1>3, <1>4, <1>5, <1>6, <1>7, <1>8, <1>9, <1>10, <1>11, <1>12, <1>13, <1>14
         DEF Next, PatientNext, ClientNext, ServerNext, ShutdownNext

\* While the server stays up nobody stops it.
LEMMA NextUp == ASSUME Next PROVE UNCHANGED <<cancelled, rxOpen>>
<1> USE DEF srvVars
<1>1. CASE Post \/ DropTx
  BY <1>1 DEF Post, DropTx
<1>2. CASE ClientNext \/ TimerNext
  BY <1>2 DEF ClientNext, TimerNext, LazyRecv, LazyClosed, Connect, ConnectFails, SendOversized, WriteFrame,
     ReadAck, ReadTerminal, Disconnect, RecvNew, AppClosed, ConnectDeadline, DeliveryTimeout
<1>3. CASE ServerNext
  BY <1>3 DEF ServerNext, Dispatch, ServeNext, BeginAck, AckWritten, ReadRetransmit, ReadNext, Deliver,
     RecvEof, ReadAhead, RxRecv
<1>4. CASE \E c \in Conn : Break(c)
  BY <1>4 DEF Break
<1> QED  BY <1>1, <1>2, <1>3, <1>4 DEF Next, PatientNext

\* Stops and restarts preserve the invariant.
LEMMA FaultNext ==
  ASSUME FaultInv, [Next \/ ShutdownNext \/ Restart]_vars PROVE FaultInv'
<1>1. CASE UNCHANGED vars
  <2>1. Sides /\ Sides'
    <3>1. UNCHANGED <<netVars, breaks>> /\ UNCHANGED <<appVars, clientVars, outcome, queue>>
          /\ UNCHANGED <<procVars, rxVars, srvVars>>
      BY <1>1 DEF vars
    <3>2. Sides /\ NextSeq \in Nat
      BY Given DEF FaultInv, Sides
    <3>3. UNCHANGED <<phase, sent>> /\ NextSeq' = NextSeq
      BY <3>1 DEF clientVars, NextSeq
    <3>4. Wires'
      BY <3>1, <3>2, <3>3, WiresSame DEF Sides
    <3>5. backlog' \subseteq Conn
      BY <3>1, <3>2 DEF srvVars, Sides, ServerSide, TypeServer
    <3>6. ServerSide'
      BY <3>1, <3>2, <3>3, <3>5, ServerSideKept DEF Sides, srvVars
    <3> QED  BY <3>1, <3>2, <3>4, <3>6, ServerAlone
  <2>2. /\ ReceivedInOrder' /\ UNCHANGED <<rxOpen, cancelled>>
    BY <1>1 DEF FaultInv, ReceivedInOrder, vars, rxVars, srvVars
  <2>3. Inv => Inv'
    BY <1>1, StutterInv
  <2>4. Untouched => Untouched'
    BY <1>1 DEF Untouched, vars, netVars, ends, procVars, rxVars, srvVars
  <2>5. Once => Once'
    BY <1>1 DEF Once, ZeroOnce, NextSeq, vars, clientVars, netVars, procVars, rxVars
  <2> QED  BY <2>1, <2>2, <2>3, <2>4, <2>5 DEF FaultInv, Sides
<1>2. CASE Next \/ ShutdownNext \/ Restart
  <2>1. Sides /\ Sides' /\ ReceivedInOrder'
    BY <1>2, FaultSides DEF FaultInv, Sides
  <2>2. CASE Next
    <3>1. UNCHANGED <<cancelled, rxOpen>>
      BY <2>2, NextUp
    <3>2. Inv \/ Untouched \/ Once => Inv' \/ Untouched' \/ Once'
      BY <2>1, <2>2, NextInv, UntouchedStep, OnceStep
    <3> QED  BY <2>1, <3>1, <3>2 DEF FaultInv, Sides
  <2>3. CASE ShutdownNext
    <3>1. CASE \E dropped \in BOOLEAN : Stop(dropped)
      BY <2>1, <3>1 DEF Stop, FaultInv, Sides
    <3>2. CASE RecvCancelled \/ WaitCancelled \/ AcceptLoopEnds
      <4>1. cancelled /\ cancelled' = cancelled
        BY <3>2 DEF RecvCancelled, WaitCancelled, AcceptLoopEnds, srvVars
      <4> QED  BY <2>1, <4>1 DEF FaultInv, Sides
    <3>3. CASE DeliverFails
      <4>1. ~rxOpen /\ cancelled' = cancelled
        BY <3>3 DEF DeliverFails, srvVars
      <4> QED  BY <2>1, <4>1 DEF FaultInv, Sides
    <3> QED  BY <2>3, <3>1, <3>2, <3>3 DEF ShutdownNext
  <2>4. CASE Restart
    BY <2>1, <2>4, RestartSides DEF FaultInv, Sides
  <2> QED  BY <1>2, <2>2, <2>3, <2>4
<1> QED  BY <1>1, <1>2

\* Everything starts as without faults.
LEMMA InitFault == ASSUME Init PROVE FaultInv
<1>1. Inv
  BY InitInv
<1>2. Len(sent) = 0 /\ Len(outbox) = 0 /\ Len(unacked) = 0 /\ Len(delivered) = 0
  BY DEF Init
<1>3. RunStart = 0 /\ NextSeq = 0
  BY <1>2 DEF RunStart, OutboxStart, NextSeq
<1>4. ClientSide
  BY <1>1, <1>3 DEF Init, ClientSide, Inv, TaskGone
<1>5. Wires
  <2>1. \A c \in Conn : Len(c2s[c]) = 0
    BY DEF Init
  <2> QED  BY <1>1, <2>1 DEF Init, Wires, Inv
<1>6. ServerSide
  BY <1>1, <1>2 DEF Init, ServerSide, Inv
<1>7. ReceivedInOrder
  BY DEF Init, ReceivedInOrder
<1> QED  BY <1>1, <1>4, <1>5, <1>6, <1>7 DEF Init, FaultInv, Sides

\* Whatever is stopped, dropped or restarted, in whatever order: FaultInv holds.
THEOREM FaultInvariance == FaultSpec => []FaultInv
<1>1. Init => FaultInv
  BY InitFault
<1>2. FaultInv /\ [Next \/ ShutdownNext \/ Restart]_vars => FaultInv'
  BY FaultNext
<1> QED  BY <1>1, <1>2, PTL DEF FaultSpec

\* tx_rx.md's "no duplicates and no reordering" for what the application receives from one
\* process of the server: neither a stop that races the dispatch of a reconnect, nor a
\* client that brings acks of an earlier process, makes it receive a message twice or out
\* of order.
THEOREM FaultsKeepOrder == FaultSpec => []ReceivedInOrder
<1>1. FaultInv => ReceivedInOrder
  BY DEF FaultInv
<1> QED  BY <1>1, FaultInvariance, PTL

==============================================================================
