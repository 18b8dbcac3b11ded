-------------------------- MODULE SequencedReceiver --------------------------
(***************************************************************************)
(* Receive-side sequencing of mailbox delivery (hyperactor::sequenced):    *)
(* messages of several sender sessions arrive in any order, some twice,    *)
(* and SequencedReceiver::recv returns those of each session in the order  *)
(* of their sequence numbers.  Early messages wait in a ring buffer that   *)
(* covers the sequence numbers from the expected one on, and in a sorted   *)
(* spillover map beyond it.  A message is its sequence number.  Messages   *)
(* marked Direct pass through recv at once and are left out.               *)
(***************************************************************************)
EXTENDS Integers, Sequences, FiniteSets

CONSTANTS
  Session,    \* sender sessions
  MaxSeq,     \* bound: messages sent in a session
  RingLimit,  \* RING_BUFFER_LIMIT
  MaxCopies,  \* bound: deliveries of a message already delivered
  MaxLost     \* bound: messages that never arrive

ASSUME SequencedAssumption ==
  /\ MaxSeq \in Nat /\ MaxCopies \in Nat /\ MaxLost \in Nat
  /\ RingLimit \in Nat \ {0}

VARIABLES
  lastSeq,   \* lastSeq[s]: the sender's last sequence number
  flight,    \* messages on their way, <<session, seq>>
  copies,    \* deliveries of a second copy so far
  lost,      \* messages lost so far
  seq,       \* seq[s]: Sequencer.seq, the expected sequence number
  buffer,    \* buffer[s]: Sequencer.buffer
  ready,     \* SequencedReceiver.ready
  received   \* received[s]: what recv returned for session s

vars == <<lastSeq, flight, copies, lost, seq, buffer, ready, received>>

Seqs == 1..MaxSeq

-----------------------------------------------------------------------------
(* Buffer: a ring of optional messages, the index of the expected sequence *)
(* number in it, and the spillover.                                        *)

None == 0

Empty == [ring |-> <<>>, head |-> 0, spillover |-> {}]

\* The position in the ring of the sequence number off after the expected one.
Slot(b, off) == ((b.head + off) % Len(b.ring)) + 1

InWindow(b, n, q) == b.ring # <<>> /\ q < n + Len(b.ring)

\* Buffer::insert_ring; a duplicate is dropped.
InsertRing(b, n, q) ==
  [b EXCEPT !.ring[Slot(b, q - n)] = IF @ = None THEN q ELSE @]

\* The length ensure_ring asks for.
WantedLen(gap) == IF gap < RingLimit THEN gap + 1 ELSE RingLimit

\* Mutant of Grown: copies the ring as it lies, not from its head.
GrownInPlace(b, len) ==
  [b EXCEPT !.ring = [i \in 1..len |-> IF i <= Len(@) THEN @[i] ELSE None],
            !.head = 0]

\* Buffer::grow_ring.
Grown(b, len) ==
  [b EXCEPT !.ring = [i \in 1..len |->
                        IF i <= Len(@) THEN @[Slot(b, i - 1)] ELSE None],
            !.head = 0]

\* Buffer::ensure_ring.
EnsureRing(b, n, q) ==
  LET want == WantedLen(q - n)
  IN  CASE b.ring = <<>>      -> [b EXCEPT !.ring = [i \in 1..want |-> None],
                                           !.head = 0]
        [] Len(b.ring) >= want -> b
        [] OTHER               -> Grown(b, want)

\* Buffer::insert.
Insert(b, n, q) ==
  LET e == EnsureRing(b, n, q)
  IN  IF InWindow(e, n, q) THEN InsertRing(e, n, q)
                           ELSE [e EXCEPT !.spillover = @ \cup {q}]

\* Mutant of Refill: the spillover is left alone.
RefillNothing(b, n) == b

\* Buffer::refill_from_spillover: what the window has come to cover moves into
\* the ring.
Refill(b, n) ==
  LET into == {q \in b.spillover : InWindow(b, n, q)}
      At(i) == {q \in into : Slot(b, q - n) = i}
  IN  [b EXCEPT !.spillover = @ \ into,
                !.ring = [i \in DOMAIN @ |->
                            IF @[i] = None /\ At(i) # {}
                              THEN CHOOSE q \in At(i) : TRUE ELSE @[i]]]

ResetIfRingEmpty(b) ==
  IF \A i \in DOMAIN b.ring : b.ring[i] = None THEN Empty ELSE b

\* Buffer::reset_if_empty.
ResetIfEmpty(b) ==
  IF b.spillover = {} /\ \A i \in DOMAIN b.ring : b.ring[i] = None
    THEN Empty ELSE b

\* Buffer::advance to the expected sequence number n.
Advance(b, n) ==
  IF b.ring = <<>> THEN b
  ELSE ResetIfEmpty(Refill([b EXCEPT !.ring[b.head + 1] = None,
                                     !.head = (@ + 1) % Len(b.ring)], n))

\* One round of Sequencer::drain_ready, with Buffer::take_current.
DrainOne(st) ==
  IF st.b.ring = <<>> THEN st
  ELSE LET r == Refill(st.b, st.n)
           m == r.ring[r.head + 1]
       IN  IF m = None THEN [st EXCEPT !.b = r]
           ELSE [n   |-> st.n + 1, out |-> Append(st.out, m),
                 b   |-> Advance([r EXCEPT !.ring[r.head + 1] = None], st.n + 1)]

\* The rounds of Sequencer::drain_ready.  (The quantified y makes TLC evaluate
\* the round before once.)
Rounds(b, n) ==
  LET after[k \in 0..MaxSeq] ==
        IF k = 0 THEN [b |-> b, n |-> n, out |-> <<>>]
        ELSE CHOOSE st \in {DrainOne(y) : y \in {after[k - 1]}} : TRUE
  IN  after

\* Sequencer::drain_ready.  Every round that counts releases a message, so
\* MaxSeq rounds are as good as a loop.
Drained(b, n) == Rounds(b, n)[MaxSeq]

-----------------------------------------------------------------------------
Init ==
  /\ lastSeq = [s \in Session |-> 0] /\ flight = {}
  /\ copies = 0 /\ lost = 0
  /\ seq = [s \in Session |-> 1] /\ buffer = [s \in Session |-> Empty]
  /\ ready = <<>> /\ received = [s \in Session |-> <<>>]

\* ordering::Sequencer::assign_seq, and the post of the message.
Send(s) ==
  /\ lastSeq[s] < MaxSeq
  /\ lastSeq' = [lastSeq EXCEPT ![s] = @ + 1]
  /\ flight' = flight \cup {<<s, lastSeq[s] + 1>>}
  /\ UNCHANGED <<copies, lost, seq, buffer, ready, received>>

\* A message cannot be delivered to this receiver.
Lose(m) ==
  /\ m \in flight /\ lost < MaxLost
  /\ flight' = flight \ {m} /\ lost' = lost + 1
  /\ UNCHANGED <<lastSeq, copies, seq, buffer, ready, received>>

\* The message is taken from the channel; a copy of it may still come.
Arrives(m, again) ==
  /\ m \in flight /\ ready = <<>>
  /\ IF again THEN copies < MaxCopies /\ copies' = copies + 1
                   /\ UNCHANGED flight
              ELSE flight' = flight \ {m} /\ UNCHANGED copies

IsStale(s, q) == q < seq[s]
IsEarly(s, q) == q > seq[s]

\* Sequencer::admit drops a stale message.
AdmitStale(m, again) ==
  /\ Arrives(m, again) /\ IsStale(m[1], m[2])
  /\ UNCHANGED <<lastSeq, lost, seq, buffer, ready, received>>

\* Sequencer::admit buffers an early message.
AdmitEarly(m, again) ==
  /\ Arrives(m, again) /\ IsEarly(m[1], m[2])
  /\ buffer' = [buffer EXCEPT ![m[1]] = Insert(@, seq[m[1]], m[2])]
  /\ UNCHANGED <<lastSeq, lost, seq, ready, received>>

\* Sequencer::admit returns the expected message, and makes ready what waited
\* for it.
AdmitNext(m, again) ==
  LET s == m[1]
      d == Drained(Advance(buffer[s], seq[s] + 1), seq[s] + 1)
  IN  /\ Arrives(m, again) /\ ~IsStale(s, m[2]) /\ ~IsEarly(s, m[2])
      /\ seq' = [seq EXCEPT ![s] = d.n]
      /\ buffer' = [buffer EXCEPT ![s] = d.b]
      /\ ready' = [i \in DOMAIN d.out |-> <<s, d.out[i]>>]
      /\ received' = [received EXCEPT ![s] = Append(@, m[2])]
      /\ UNCHANGED <<lastSeq, lost>>

\* SequencedReceiver::recv returns a message that is ready.
PopReady ==
  /\ ready # <<>>
  /\ received' = [received EXCEPT ![Head(ready)[1]] =
                    Append(@, Head(ready)[2])]
  /\ ready' = Tail(ready)
  /\ UNCHANGED <<lastSeq, flight, copies, lost, seq, buffer>>

Message == Session \X Seqs

Next ==
  \/ \E s \in Session : Send(s)
  \/ \E m \in Message : Lose(m)
  \/ \E m \in Message, again \in BOOLEAN :
       AdmitStale(m, again) \/ AdmitEarly(m, again) \/ AdmitNext(m, again)
  \/ PopReady

Spec == Init /\ [][Next]_vars

\* While the channel carries messages one of them arrives, in any order, and
\* the receiver keeps receiving: WF_vars(Receive), with ENABLED written out
\* (some message in flight is stale, early or expected).
Receive == \E m \in Message : \/ AdmitStale(m, FALSE) \/ AdmitEarly(m, FALSE)
                              \/ AdmitNext(m, FALSE)
CanReceive == flight # {} /\ ready = <<>>

FairSpec == /\ Spec /\ WF_vars(PopReady)
            /\ []<>~CanReceive \/ []<><<Receive>>_vars

-----------------------------------------------------------------------------
InRing(s)   == {buffer[s].ring[i] : i \in DOMAIN buffer[s].ring} \ {None}
Buffered(s) == InRing(s) \cup buffer[s].spillover

\* The buffer's fields keep their ranges: the ring never outgrows its limit.
TypeOK ==
  /\ lastSeq \in [Session -> 0..MaxSeq] /\ flight \subseteq Message
  /\ copies \in 0..MaxCopies /\ lost \in 0..MaxLost
  /\ seq \in [Session -> 1..(MaxSeq + 1)]
  /\ \A s \in Session :
       /\ buffer[s].ring \in Seq(Seqs \cup {None})
       /\ Len(buffer[s].ring) <= RingLimit
       /\ buffer[s].head \in 0..RingLimit
       /\ buffer[s].spillover \subseteq Seqs
  /\ ready \in Seq(Message) /\ received \in [Session -> Seq(Seqs)]

\* The ring is what its field comments say: the slot that is off steps after
\* the head holds the message off after the expected one or nothing, and never
\* the expected message itself; the spillover lies beyond the window, and only
\* a ring at its limit has any.  Growing, wrapping and refilling keep that.
WindowExact ==
  \A s \in Session :
    LET b == buffer[s]
    IN  /\ \A off \in 0..(Len(b.ring) - 1) :
             b.ring[Slot(b, off)] \in {None, seq[s] + off} \ {seq[s]}
        /\ \A q \in b.spillover : q >= seq[s] + Len(b.ring)
        /\ b.spillover # {} => Len(b.ring) = RingLimit

\* "An empty ring means the sequencer is in the steady state": the buffer is
\* given up exactly when nothing waits.
SteadyState ==
  \A s \in Session : buffer[s].ring = <<>> <=> Buffered(s) = {}

\* Where a message of the session can be found.
Found(s) == {received[s][i] : i \in DOMAIN received[s]}
            \cup {q \in Seqs : \E i \in DOMAIN ready : ready[i] = <<s, q>>}
            \cup Buffered(s) \cup {q \in Seqs : <<s, q>> \in flight}

\* Nothing is stranded or dropped: a message that left the channel was
\* received, is ready, waits in the buffer, or is one of the lost.
NothingDropped ==
  \A s \in Session : Cardinality((1..lastSeq[s]) \ Found(s)) <= lost

\* Buffer::snapshot, from which operators read what a session waits for.
Snapshot(s) ==
  LET b     == buffer[s]
      found == {seq[s] + off : off \in {o \in 0..(Len(b.ring) - 1) :
                                          b.ring[Slot(b, o)] # None}}
  IN  [buffered |-> Cardinality(found) + Cardinality(b.spillover),
       seqs     |-> found \cup b.spillover]

\* The snapshot counts every buffered message once and names it rightly, so
\* the oldest and the newest it reports are those of the session.
SnapshotExact ==
  \A s \in Session : /\ Snapshot(s).seqs = Buffered(s)
                     /\ Snapshot(s).buffered = Cardinality(Buffered(s))

\* The buffer is exact: every message waits where its sequence number says, the
\* buffer is given up exactly when it is empty, and an operator is told so.
BufferExact == WindowExact /\ SteadyState /\ SnapshotExact

\* Every message that is sent is eventually received, unless the channel lost
\* it or one before it: Sequencer::admit waits for that one for ever.  (Sending
\* stops at MaxSeq, so that "again and again" is "in the end".)
AllReceived ==
  []<>(\A s \in Session :
         LET missing == (1..lastSeq[s]) \ Found(s)
         IN  \A q \in 1..lastSeq[s] :
               Len(received[s]) >= q \/ (lost > 0 /\ \E p \in missing : p <= q))

\* What is ready for a session.  The queue is filled only when it is empty, with
\* messages of one session.
ReadyOf(s) == IF ready # <<>> /\ ready[1][1] = s THEN ready ELSE <<>>

\* The receiver implements ordered delivery: whatever the order of arrival and
\* however the buffer splits it, each session's messages are released in order,
\* once each, and as soon as they can be.
Ordered == INSTANCE OrderedDelivery WITH
  expected <- seq,
  waiting  <- [s \in Session |-> Buffered(s)],
  released <- [s \in Session |-> received[s] \o
                 [i \in DOMAIN ReadyOf(s) |-> ReadyOf(s)[i][2]]]
ImplementsOrdered == Ordered!Spec
=============================================================================
