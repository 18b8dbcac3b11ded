-------------------------- MODULE SequencingProofs --------------------------
(***************************************************************************)
(* Proofs about both ends of sequencing, Sequencer and SequencedReceiver,  *)
(* for any sets of tasks, keys and sessions, lists of any length, chunks   *)
(* and rings of any size.                                                  *)
(*                                                                         *)
(* The argument for the sender.  A number is entered in the map in the     *)
(* step that hands it out, so the map has the last number of every key.    *)
(* While a call goes through its list, the runs it has closed and the one  *)
(* it has open cover the part of the list that is numbered; the open run   *)
(* has one number.                                                         *)
(*                                                                         *)
(* The argument for the receiver.  A buffer represents a set of messages:  *)
(* the slot that is off steps after the head has the message off after the *)
(* expected one if that is in the set, and the spillover has the others.   *)
(* Each operation of the buffer is proved to represent the set one expects *)
(* of it, drain_ready by the least number of rounds for which that fails.  *)
(* The invariant says that every buffer represents what it holds, that     *)
(* what was released is exactly the numbers below the expected one, and    *)
(* that no more messages are missing than were lost; from it the receiver  *)
(* implements OrderedDelivery.                                             *)
(***************************************************************************)
EXTENDS Sequencer, SequencedReceiver, FiniteSetTheorems, SequenceTheorems,
        WellFoundedInduction, TLAPS

-----------------------------------------------------------------------------
(* The sender.                                                             *)

Handed == [task : Task, key : Key, seq : Nat]
Runs   == Seq([from : Nat, to : Nat, seq : Nat])
Call   == [keys : Seq(Key), at : {"idle", "chunks", "locked", "done"}, end : Nat,
           start : Nat, prev : Nat, ordinal : Nat, runs : Runs]

\* SendTypeOK, as domains.
TypeSeq ==
  /\ lastSeqs \in [Key -> Nat] /\ call \in [Task -> Call]
  /\ handed \in Seq(Handed) /\ took \in [Task -> Seq(Nat)]

\* The locals are in range, and a call has taken a number for each key up to
\* ordinal, in the order of the list.
Progress(t) ==
  LET c == call[t]
  IN  /\ c.at = "idle" => c.ordinal = 0
      /\ c.ordinal <= Len(c.keys) /\ c.end <= Len(c.keys) /\ c.start <= c.ordinal
      /\ c.at = "done" => c.ordinal = Len(c.keys)
      /\ Len(took[t]) = c.ordinal
      /\ \A j \in 1..c.ordinal :
           /\ took[t][j] \in 1..Len(handed)
           /\ handed[took[t][j]].task = t /\ handed[took[t][j]].key = c.keys[j]
           /\ handed[took[t][j]].seq > 0
      /\ \A i, j \in 1..c.ordinal : i < j => took[t][i] < took[t][j]

\* The closed runs follow each other from 0 on, up to m, and each has the number
\* of every key in its range.
Covered(t, m) ==
  LET r == call[t].runs
  IN  /\ r = <<>> => m = 0
      /\ r # <<>> => r[1].from = 0 /\ r[Len(r)].to = m
      /\ \A i \in 1..Len(r) :
           /\ r[i].from < r[i].to /\ r[i].to <= m
           /\ \A j \in (r[i].from + 1)..r[i].to : handed[took[t][j]].seq = r[i].seq
      /\ \A i \in 1..(Len(r) - 1) : r[i].to = r[i + 1].from

\* The open run, from start on, has the number prev.
Open(t) ==
  LET c == call[t]
  IN  /\ c.prev = 0 => c.ordinal = 0
      /\ c.prev # 0 => c.start < c.ordinal
      /\ \A j \in (c.start + 1)..c.ordinal : handed[took[t][j]].seq = c.prev

\* While a call is under way the open run follows the closed ones; afterwards
\* the closed ones are all.
Encoding(t) ==
  IF call[t].at = "done" THEN Covered(t, call[t].ordinal)
                         ELSE Covered(t, call[t].start) /\ Open(t)

Calls == \A t \in Task : Progress(t) /\ Encoding(t)

SeqInv == TypeSeq /\ Gapless /\ Calls

\* What a step does to the history: what was handed out stays.
Extends == /\ Len(handed') >= Len(handed)
           /\ \A i \in 1..Len(handed) : handed'[i] = handed[i]

-----------------------------------------------------------------------------
LEMMA SeqInvInit == SendInit => SeqInv
<1> SUFFICES ASSUME SendInit PROVE SeqInv
  OBVIOUS
<1>1. TypeSeq
  BY DEF SendInit, TypeSeq, Idle, Locals, Call, Runs
<1>2. Gapless
  BY DEF SendInit, Gapless
<1>3. Calls
  BY DEF SendInit, Calls, Progress, Encoding, Covered, Open, Idle, Locals
<1> QED  BY <1>1, <1>2, <1>3 DEF SeqInv

\* A number is one more than all of its key before, so the numbers of a key
\* stay gapless.
LEMMA AssignKeeps ==
  ASSUME TypeSeq, Gapless, NEW t \in Task, NEW k \in Key, Assign(t, k)
  PROVE  /\ Gapless' /\ Extends
         /\ lastSeqs' \in [Key -> Nat] /\ handed' \in Seq(Handed)
         /\ Len(handed') = Len(handed) + 1
         /\ handed'[Len(handed) + 1] = [task |-> t, key |-> k, seq |-> lastSeqs[k] + 1]
<1> DEFINE e == [task |-> t, key |-> k, seq |-> lastSeqs[k] + 1]
           N == Len(handed)
<1>1. lastSeqs \in [Key -> Nat] /\ handed \in Seq(Handed)
  BY DEF TypeSeq
<1>2. e \in Handed /\ e.task = t /\ e.key = k /\ e.seq = lastSeqs[k] + 1
  BY <1>1 DEF Handed
<1>3. handed' = Append(handed, e) /\ lastSeqs' = [lastSeqs EXCEPT ![k] = lastSeqs[k] + 1]
  BY DEF Assign, NextNumber
<1>4. N \in Nat /\ Len(handed') = N + 1 /\ handed' \in Seq(Handed) /\ handed'[N + 1] = e
      /\ DOMAIN handed = 1..N /\ DOMAIN handed' = 1..(N + 1)
  BY <1>1, <1>2, <1>3
<1>5. \A i \in 1..N : handed'[i] = handed[i] /\ handed[i] \in Handed
  BY <1>1, <1>2, <1>3
<1>6. lastSeqs' \in [Key -> Nat] /\ lastSeqs'[k] = lastSeqs[k] + 1
      /\ \A x \in Key : x # k => lastSeqs'[x] = lastSeqs[x]
  BY <1>1, <1>3
<1> HIDE DEF e, N
<1>7. ASSUME NEW x \in Key
      PROVE  /\ {handed'[i].seq : i \in {i \in DOMAIN handed' : handed'[i].key = x}} = 1..lastSeqs'[x]
             /\ \A i, j \in {i \in DOMAIN handed' : handed'[i].key = x} :
                  i < j => handed'[i].seq < handed'[j].seq
  <2>1. /\ {handed[i].seq : i \in {i \in DOMAIN handed : handed[i].key = x}} = 1..lastSeqs[x]
        /\ \A i, j \in {i \in DOMAIN handed : handed[i].key = x} :
                  i < j => handed[i].seq < handed[j].seq
    BY <1>7 DEF Gapless
  <2>2. \A i \in 1..N : handed[i].key = x => handed[i].seq \in 1..lastSeqs[x]
    BY <2>1, <1>4
  <2>3. \A n \in 1..lastSeqs[x] : \E i \in 1..N : handed[i].key = x /\ handed[i].seq = n
    BY <2>1, <1>4
  <2>4. lastSeqs[x] \in Nat /\ lastSeqs'[x] \in Nat
    BY <1>1, <1>6
  <2>5. CASE x = k
    <3>1. \A i \in 1..(N + 1) : handed'[i].key = x => handed'[i].seq \in 1..lastSeqs'[x]
      <4> SUFFICES ASSUME NEW i \in 1..(N + 1), handed'[i].key = x
                   PROVE  handed'[i].seq \in 1..lastSeqs'[x]
        OBVIOUS
      <4>1. CASE i = N + 1
        BY <4>1, <2>5, <1>4, <1>2, <1>6, <2>4
      <4>2. CASE i \in 1..N
        BY <4>2, <2>2, <1>5, <1>6, <2>4, <2>5
      <4> QED  BY <4>1, <4>2, <1>4
    <3>2. \A n \in 1..lastSeqs'[x] : \E i \in 1..(N + 1) : handed'[i].key = x /\ handed'[i].seq = n
      <4> SUFFICES ASSUME NEW n \in 1..lastSeqs'[x]
                   PROVE  \E i \in 1..(N + 1) : handed'[i].key = x /\ handed'[i].seq = n
        OBVIOUS
      <4>1. CASE n = lastSeqs[x] + 1
        BY <4>1, <2>5, <1>4, <1>2
      <4>2. CASE n \in 1..lastSeqs[x]
        BY <4>2, <2>3, <1>5, <1>4
      <4> QED  BY <4>1, <4>2, <1>6, <2>4, <2>5
    <3>3. \A i, j \in 1..(N + 1) : handed'[i].key = x /\ handed'[j].key = x /\ i < j
                                    => handed'[i].seq < handed'[j].seq
      <4> SUFFICES ASSUME NEW i \in 1..(N + 1), NEW j \in 1..(N + 1), i < j,
                          handed'[i].key = x, handed'[j].key = x
                   PROVE  handed'[i].seq < handed'[j].seq
        OBVIOUS
      <4>0. i \in 1..N
        BY <1>4
      <4>1. CASE j = N + 1
        <5>1. handed'[i].seq \in 1..lastSeqs[x]
          BY <4>0, <2>2, <1>5
        <5> QED  BY <4>1, <5>1, <1>4, <1>2, <2>4, <2>5
      <4>2. CASE j \in 1..N
        BY <4>0, <4>2, <2>1, <1>4, <1>5
      <4> QED  BY <4>1, <4>2, <1>4
    <3> QED  BY <3>1, <3>2, <3>3, <1>4
  <2>6. CASE x # k
    <3>1. {i \in DOMAIN handed' : handed'[i].key = x} = {i \in DOMAIN handed : handed[i].key = x}
      BY <1>4, <1>5, <1>2, <2>6
    <3>2. \A i \in {i \in DOMAIN handed : handed[i].key = x} : handed'[i] = handed[i]
      BY <1>4, <1>5
    <3>3. lastSeqs'[x] = lastSeqs[x]
      BY <1>6, <2>6
    <3> QED  BY <3>1, <3>2, <3>3, <2>1
  <2> QED  BY <2>5, <2>6
<1>8. Gapless'
  BY <1>7 DEF Gapless
<1> QED  BY <1>4, <1>5, <1>6, <1>8 DEF Extends, e, N

LEMMA RunsTyped ==
  ASSUME NEW r \in Runs
  PROVE  /\ Len(r) \in Nat /\ DOMAIN r = 1..Len(r)
         /\ \A i \in 1..Len(r) : /\ r[i] \in [from : Nat, to : Nat, seq : Nat]
                                 /\ r[i].from \in Nat /\ r[i].to \in Nat /\ r[i].seq \in Nat
<1> DEFINE R == [from : Nat, to : Nat, seq : Nat]
<1>1. r \in Seq(R)
  BY DEF Runs
<1> HIDE DEF R
<1>2. Len(r) \in Nat /\ DOMAIN r = 1..Len(r) /\ \A i \in 1..Len(r) : r[i] \in R
  BY <1>1
<1> QED  BY <1>2 DEF R

\* Closed runs stay true as long as the numbers of their keys do.
LEMMA CoveredKept ==
  ASSUME NEW t \in Task, NEW b \in Nat, call[t].runs \in Runs, Covered(t, b),
         call'[t].runs = call[t].runs,
         \A j \in 1..b : handed'[took'[t][j]] = handed[took[t][j]]
  PROVE  Covered(t, b)'
<1> PICK r \in Runs : r = call[t].runs
  OBVIOUS
<1>1. ASSUME NEW i \in 1..Len(r), NEW j \in (r[i].from + 1)..r[i].to
      PROVE  handed'[took'[t][j]].seq = r[i].seq
  <2>1. r[i].from \in Nat /\ r[i].to \in Nat
    BY RunsTyped
  <2>2. r[i].to <= b /\ handed[took[t][j]].seq = r[i].seq
    BY DEF Covered
  <2>3. j \in 1..b
    BY <2>1, <2>2
  <2> QED  BY <2>2, <2>3
<1> QED  BY <1>1 DEF Covered

\* A call whose locals do not change keeps what it knows.
LEMMA CallKept ==
  ASSUME SeqInv, Extends, NEW s \in Task, call'[s] = call[s], took'[s] = took[s]
  PROVE  Progress(s)' /\ Encoding(s)'
<1>1. Progress(s) /\ Encoding(s) /\ call[s] \in Call /\ took[s] \in Seq(Nat)
      /\ handed \in Seq(Handed)
  BY DEF SeqInv, Calls, TypeSeq
<1>2. /\ call[s].ordinal \in Nat /\ call[s].start \in Nat /\ call[s].start <= call[s].ordinal
      /\ call[s].runs \in Runs /\ Len(handed) \in Nat
  BY <1>1 DEF Progress, Call
<1>3. \A j \in 1..call[s].ordinal :
         took[s][j] \in 1..Len(handed) /\ handed'[took[s][j]] = handed[took[s][j]]
  BY <1>1 DEF Progress, Extends
<1>4. Progress(s)'
  <2>1. \A j \in 1..call[s].ordinal : took[s][j] \in 1..Len(handed')
    BY <1>3, <1>2 DEF Extends
  <2> QED  BY <1>1, <1>3, <2>1, ZenonT(40) DEF Progress
<1>5. ASSUME NEW m \in Nat, m <= call[s].ordinal, Covered(s, m)
      PROVE  Covered(s, m)'
  <2>1. \A j \in 1..m : handed'[took'[s][j]] = handed[took[s][j]]
    BY <1>2, <1>3, <1>5
  <2> QED  BY <2>1, <1>2, <1>5, CoveredKept
<1>6. Encoding(s)'
  <2>1. CASE call[s].at = "done"
    <3>1. PICK m \in Nat : m = call[s].ordinal
      BY <1>2
    <3>2. Covered(s, m)
      BY <2>1, <1>1, <3>1 DEF Encoding
    <3>3. Covered(s, m)'
      BY <3>1, <3>2, <1>2, <1>5
    <3> QED  BY <3>1, <3>3, <2>1 DEF Encoding
  <2>2. CASE call[s].at # "done"
    <3>1. PICK m \in Nat : m = call[s].start
      BY <1>2
    <3>2. Covered(s, m) /\ Open(s)
      BY <2>2, <1>1, <3>1 DEF Encoding
    <3>3. Open(s)'
      <4>1. \A j \in (call[s].start + 1)..call[s].ordinal : handed'[took[s][j]].seq = call[s].prev
        BY <3>2, <1>2, <1>3 DEF Open
      <4> QED  BY <4>1, <3>2 DEF Open
    <3>4. Covered(s, m)'
      BY <3>1, <3>2, <1>2, <1>5
    <3> QED  BY <3>1, <3>3, <3>4, <2>2 DEF Encoding
  <2> QED  BY <2>1, <2>2
<1> QED  BY <1>4, <1>6

\* Closing a run: the runs that cover the list up to b, and one from b to m with
\* the number p of all its keys, cover it up to m.
LEMMA CoveredGrows ==
  ASSUME NEW t \in Task, NEW b \in Nat, NEW m \in Nat, NEW p \in Nat, NEW r \in Runs,
         r = call[t].runs, Covered(t, b), b < m,
         \A j \in 1..b : handed'[took'[t][j]] = handed[took[t][j]],
         \A j \in (b + 1)..m : handed'[took'[t][j]].seq = p,
         call'[t].runs = Append(r, Run(b, m, p))
  PROVE  Covered(t, m)'
<1>1. /\ Len(r) \in Nat /\ DOMAIN r = 1..Len(r)
      /\ \A i \in 1..Len(r) : r[i].from \in Nat /\ r[i].to \in Nat /\ r[i].seq \in Nat
  BY RunsTyped
<1>2. PICK e : e = Run(b, m, p) /\ e.from = b /\ e.to = m /\ e.seq = p
  BY DEF Run
<1>3. PICK q : q = Append(r, e)
  OBVIOUS
<1>4. /\ Len(q) = Len(r) + 1 /\ q[Len(r) + 1] = e /\ \A i \in 1..Len(r) : q[i] = r[i]
  BY <1>1, <1>3 DEF Runs
<1>5. call'[t].runs = q
  BY <1>2, <1>3
<1>6. q # <<>> /\ q[Len(q)].to = m
  BY <1>1, <1>2, <1>4
<1>7. q[1].from = 0
  <2>1. CASE r = <<>>
    <3>1. Len(r) = 0 /\ b = 0
      BY <2>1 DEF Covered
    <3> QED  BY <3>1, <1>2, <1>4
  <2>2. CASE r # <<>>
    <3>1. 1 \in 1..Len(r) /\ r[1].from = 0
      BY <2>2, <1>1 DEF Covered, Runs
    <3> QED  BY <3>1, <1>4
  <2> QED  BY <2>1, <2>2
<1>8. ASSUME NEW i \in 1..Len(q)
      PROVE  /\ q[i].from < q[i].to /\ q[i].to <= m
             /\ \A j \in (q[i].from + 1)..q[i].to : handed'[took'[t][j]].seq = q[i].seq
  <2>1. CASE i = Len(r) + 1
    BY <2>1, <1>2, <1>4
  <2>2. CASE i \in 1..Len(r)
    <3>1. /\ q[i] = r[i] /\ r[i].from < r[i].to /\ r[i].to <= b
          /\ \A j \in (r[i].from + 1)..r[i].to : handed[took[t][j]].seq = r[i].seq
      BY <2>2, <1>4 DEF Covered
    <3>2. r[i].from \in Nat /\ r[i].to \in Nat
      BY <2>2, <1>1
    <3>3. \A j \in (r[i].from + 1)..r[i].to : j \in 1..b
      BY <3>1, <3>2, SMTT(30)
    <3>4. \A j \in (q[i].from + 1)..q[i].to : handed'[took'[t][j]].seq = q[i].seq
      BY <3>1, <3>3
    <3> QED  BY <3>1, <3>2, <3>4
  <2> QED  BY <2>1, <2>2, <1>1, <1>4
<1>9. ASSUME NEW i \in 1..(Len(q) - 1)
      PROVE  q[i].to = q[i + 1].from
  <2>1. CASE i = Len(r)
    <3>1. r # <<>> /\ i \in 1..Len(r)
      BY <2>1, <1>4, <1>1
    <3>2. r[Len(r)].to = b
      BY <3>1 DEF Covered
    <3> QED  BY <2>1, <3>1, <3>2, <1>2, <1>4
  <2>2. CASE i \in 1..(Len(r) - 1)
    <3>1. i \in 1..Len(r) /\ i + 1 \in 1..Len(r) /\ r[i].to = r[i + 1].from
      BY <2>2, <1>1 DEF Covered
    <3> QED  BY <3>1, <1>4
  <2> QED  BY <2>1, <2>2, <1>1, <1>4
<1> QED  BY <1>5, <1>6, <1>7, <1>8, <1>9 DEF Covered

-----------------------------------------------------------------------------
LEMMA CallsFrom ==
  ASSUME SeqInv, Extends, NEW t \in Task,
         \A s \in Task : s # t => call'[s] = call[s] /\ took'[s] = took[s],
         Progress(t)', Encoding(t)'
  PROVE  Calls'
<1>1. ASSUME NEW s \in Task PROVE Progress(s)' /\ Encoding(s)'
  <2>1. CASE s = t
    BY <2>1
  <2>2. CASE s # t
    BY <2>2, CallKept
  <2> QED  BY <2>1, <2>2
<1> QED  BY <1>1 DEF Calls

LEMMA NothingHanded ==
  ASSUME SeqInv, UNCHANGED <<lastSeqs, handed>>
  PROVE  Gapless' /\ Extends
BY DEF SeqInv, TypeSeq, Gapless, Extends

LEMMA AssignSeqStep ==
  ASSUME SeqInv, NEW t \in Task, NEW k \in Key, AssignSeq(t, k)
  PROVE  SeqInv'
<1>1. TypeSeq /\ Gapless /\ Assign(t, k) /\ UNCHANGED <<call, took>>
  BY DEF SeqInv, AssignSeq
<1>2. Gapless' /\ Extends /\ lastSeqs' \in [Key -> Nat] /\ handed' \in Seq(Handed)
  BY <1>1, AssignKeeps
<1>3. TypeSeq'
  BY <1>1, <1>2 DEF TypeSeq
<1>4. Calls'
  BY <1>1, <1>2, CallKept DEF Calls
<1> QED  BY <1>2, <1>3, <1>4 DEF SeqInv

\* A call starts with nothing numbered.
LEMMA AssignSeqsStep ==
  ASSUME SeqInv, NEW t \in Task, NEW keys \in Seq(Key), AssignSeqs(t, keys)
  PROVE  SeqInv'
<1>1. TypeSeq /\ call[t] \in Call /\ call \in [Task -> Call] /\ call[t].at = "idle"
      /\ Progress(t) /\ took[t] \in Seq(Nat)
  BY DEF SeqInv, TypeSeq, Calls, AssignSeqs
<1>2. PICK n \in Call :
        /\ n.keys = keys /\ n.at = "chunks" /\ n.end = 0 /\ n.start = 0
        /\ n.prev = 0 /\ n.ordinal = 0 /\ n.runs = <<>>
        /\ call' = [call EXCEPT ![t] = n]
  <2>1. <<>> \in Runs
    BY DEF Runs
  <2>2. Locals(keys, "chunks") \in Call
    BY <2>1 DEF Locals, Call
  <2> QED  BY <2>2 DEF AssignSeqs, Locals
<1>3. UNCHANGED <<lastSeqs, handed, took>>
  BY DEF AssignSeqs
<1>4. TypeSeq'
  BY <1>1, <1>2, <1>3 DEF TypeSeq
<1>5. call'[t] = n /\ \A s \in Task : s # t => call'[s] = call[s]
  BY <1>1, <1>2
<1>6. Len(took[t]) = 0 /\ Len(keys) \in Nat
  BY <1>1 DEF Progress
<1>7. Progress(t)'
  BY <1>2, <1>3, <1>5, <1>6 DEF Progress
<1>8. Encoding(t)'
  BY <1>2, <1>5 DEF Encoding, Covered, Open
<1>9. Gapless' /\ Extends
  BY <1>3, NothingHanded
<1> QED  BY <1>3, <1>4, <1>5, <1>7, <1>8, <1>9, CallsFrom DEF SeqInv

\* The end of the chunk is within the list.
LEMMA LockStep ==
  ASSUME SeqInv, NEW t \in Task, Lock(t)
  PROVE  SeqInv'
<1>1. TypeSeq /\ call[t] \in Call /\ call \in [Task -> Call] /\ call[t].at = "chunks"
      /\ Progress(t) /\ Encoding(t)
  BY DEF SeqInv, TypeSeq, Calls, Lock
<1>2. PICK e \in Nat : e = ChunkEnd(call[t]) /\ e <= Len(call[t].keys)
  <2>1. call[t].keys \in Seq(Key) /\ call[t].ordinal \in Nat
    BY <1>1 DEF Call
  <2>2. Len(call[t].keys) \in Nat /\ MaxLocked \in Nat
    BY <2>1, SequencerAssumption
  <2> QED  BY <2>1, <2>2 DEF ChunkEnd
<1>3. PICK n \in Call :
        /\ n.keys = call[t].keys /\ n.at = "locked" /\ n.end = e /\ n.start = call[t].start
        /\ n.prev = call[t].prev /\ n.ordinal = call[t].ordinal /\ n.runs = call[t].runs
        /\ call' = [call EXCEPT ![t] = n]
  <2> DEFINE n == [call[t] EXCEPT !.at = "locked", !.end = e]
  <2>1. n \in Call
    BY <1>1, <1>2 DEF Call
  <2>2. call' = [call EXCEPT ![t] = n]
    BY <1>1, <1>2 DEF Lock
  <2> QED  BY <1>1, <2>1, <2>2 DEF Call
<1>4. UNCHANGED <<lastSeqs, handed, took>>
  BY DEF Lock
<1>5. TypeSeq'
  BY <1>1, <1>3, <1>4 DEF TypeSeq
<1>6. call'[t] = n /\ \A s \in Task : s # t => call'[s] = call[s]
  BY <1>1, <1>3
<1>7. Progress(t)'
  BY <1>1, <1>2, <1>3, <1>4, <1>6 DEF Progress
<1>8. Encoding(t)'
  <2>1. Covered(t, call[t].start) /\ Open(t)
    BY <1>1 DEF Encoding
  <2>2. Covered(t, call[t].start)'
    BY <1>3, <1>4, <1>6, <2>1 DEF Covered
  <2>3. Open(t)'
    BY <1>3, <1>4, <1>6, <2>1 DEF Open
  <2> QED  BY <1>3, <1>4, <1>6, <2>2, <2>3 DEF Encoding
<1>9. Gapless' /\ Extends
  BY <1>4, NothingHanded
<1> QED  BY <1>4, <1>5, <1>6, <1>7, <1>8, <1>9, CallsFrom DEF SeqInv

LEMMA UnlockStep ==
  ASSUME SeqInv, NEW t \in Task, Unlock(t)
  PROVE  SeqInv'
<1>1. TypeSeq /\ call[t] \in Call /\ call \in [Task -> Call] /\ call[t].at = "locked"
      /\ Progress(t) /\ Encoding(t)
  BY DEF SeqInv, TypeSeq, Calls, Unlock
<1>2. PICK n \in Call :
        /\ n.keys = call[t].keys /\ n.at = "chunks" /\ n.end = call[t].end
        /\ n.start = call[t].start /\ n.prev = call[t].prev
        /\ n.ordinal = call[t].ordinal /\ n.runs = call[t].runs
        /\ call' = [call EXCEPT ![t] = n]
  <2> DEFINE n == [call[t] EXCEPT !.at = "chunks"]
  <2>1. n \in Call
    BY <1>1 DEF Call
  <2>2. call' = [call EXCEPT ![t] = n]
    BY <1>1 DEF Unlock
  <2> QED  BY <1>1, <2>1, <2>2 DEF Call
<1>3. UNCHANGED <<lastSeqs, handed, took>>
  BY DEF Unlock
<1>4. TypeSeq'
  BY <1>1, <1>2, <1>3 DEF TypeSeq
<1>5. call'[t] = n /\ \A s \in Task : s # t => call'[s] = call[s]
  BY <1>1, <1>2
<1>6. Progress(t)'
  BY <1>1, <1>2, <1>3, <1>5 DEF Progress
<1>7. Encoding(t)'
  <2>1. Covered(t, call[t].start) /\ Open(t)
    BY <1>1 DEF Encoding
  <2>2. Covered(t, call[t].start)'
    BY <1>2, <1>3, <1>5, <2>1 DEF Covered
  <2>3. Open(t)'
    BY <1>2, <1>3, <1>5, <2>1 DEF Open
  <2> QED  BY <1>2, <1>3, <1>5, <2>2, <2>3 DEF Encoding
<1>8. Gapless' /\ Extends
  BY <1>3, NothingHanded
<1> QED  BY <1>3, <1>4, <1>5, <1>6, <1>7, <1>8, CallsFrom DEF SeqInv

LEMMA UseStep ==
  ASSUME SeqInv, NEW t \in Task, Use(t)
  PROVE  SeqInv'
<1>1. TypeSeq /\ call \in [Task -> Call] /\ took \in [Task -> Seq(Nat)]
  BY DEF SeqInv, TypeSeq
<1>2. call' = [call EXCEPT ![t] = Idle] /\ took' = [took EXCEPT ![t] = <<>>]
      /\ UNCHANGED <<lastSeqs, handed>>
  BY DEF Use
<1>3. Idle \in Call /\ <<>> \in Seq(Nat)
  BY DEF Idle, Locals, Call, Runs
<1>4. TypeSeq'
  BY <1>1, <1>2, <1>3 DEF TypeSeq
<1>5. call'[t] = Idle /\ took'[t] = <<>>
      /\ \A s \in Task : s # t => call'[s] = call[s] /\ took'[s] = took[s]
  BY <1>1, <1>2
<1>6. Progress(t)' /\ Encoding(t)'
  BY <1>5 DEF Progress, Encoding, Covered, Open, Idle, Locals
<1>7. Gapless' /\ Extends
  BY <1>2, NothingHanded
<1> QED  BY <1>4, <1>5, <1>6, <1>7, CallsFrom DEF SeqInv

\* The last run is closed: the runs then cover the whole list.
LEMMA FinishStep ==
  ASSUME SeqInv, NEW t \in Task, Finish(t)
  PROVE  SeqInv'
<1>1. TypeSeq /\ call[t] \in Call /\ call \in [Task -> Call] /\ call[t].at = "chunks"
      /\ Progress(t) /\ Covered(t, call[t].start) /\ Open(t)
      /\ call[t].ordinal >= Len(call[t].keys)
  BY DEF SeqInv, TypeSeq, Calls, Finish, Encoding
<1>2. /\ call[t].keys \in Seq(Key) /\ call[t].ordinal \in Nat /\ call[t].start \in Nat
      /\ call[t].prev \in Nat /\ call[t].runs \in Runs
      /\ call[t].ordinal = Len(call[t].keys) /\ call[t].start <= call[t].ordinal
  <2>1. /\ call[t].keys \in Seq(Key) /\ call[t].ordinal \in Nat /\ call[t].start \in Nat
        /\ call[t].prev \in Nat /\ call[t].runs \in Runs
    BY <1>1 DEF Call
  <2> QED  BY <1>1, <2>1 DEF Progress
<1>3. PICK m \in Nat, b \in Nat, p \in Nat, r \in Runs :
        m = call[t].ordinal /\ b = call[t].start /\ p = call[t].prev /\ r = call[t].runs
  BY <1>2
<1>4. PICK q \in Runs : q = IF p = 0 THEN r ELSE Append(r, Run(b, m, p))
  <2>1. Run(b, m, p) \in [from : Nat, to : Nat, seq : Nat]
    BY DEF Run
  <2>2. Append(r, Run(b, m, p)) \in Runs
    BY <2>1 DEF Runs
  <2> QED  BY <2>2
<1>5. PICK n \in Call :
        /\ n.keys = call[t].keys /\ n.at = "done" /\ n.end = call[t].end
        /\ n.start = b /\ n.prev = p /\ n.ordinal = m /\ n.runs = q
        /\ call' = [call EXCEPT ![t] = n]
  <2> DEFINE n == [call[t] EXCEPT !.at = "done", !.runs = q]
  <2>1. n \in Call
    BY <1>1 DEF Call
  <2>2. call' = [call EXCEPT ![t] = n]
    BY <1>1, <1>2, <1>3, <1>4 DEF Finish
  <2> QED  BY <1>1, <1>3, <2>1, <2>2 DEF Call
<1>6. UNCHANGED <<lastSeqs, handed, took>>
  BY DEF Finish
<1>7. TypeSeq'
  BY <1>1, <1>5, <1>6 DEF TypeSeq
<1>8. call'[t] = n /\ \A s \in Task : s # t => call'[s] = call[s]
  BY <1>1, <1>5
<1>9. Progress(t)'
  BY <1>1, <1>2, <1>3, <1>5, <1>6, <1>8, SMTT(30) DEF Progress
<1>10. Covered(t, m)'
  <2>1. CASE p = 0
    <3>1. m = 0 /\ b = 0 /\ q = r
      BY <2>1, <1>1, <1>2, <1>3, <1>4 DEF Open
    <3> QED  BY <3>1, <1>1, <1>3, <1>5, <1>6, <1>8 DEF Covered
  <2>2. CASE p # 0
    <3>1. Covered(t, b) /\ b < m /\ \A j \in (b + 1)..m : handed[took[t][j]].seq = p
      BY <2>2, <1>1, <1>3 DEF Open
    <3>2. q = Append(r, Run(b, m, p)) /\ call'[t].runs = q
      BY <2>2, <1>4, <1>5, <1>8
    <3> QED  BY <3>1, <3>2, <1>3, <1>6, CoveredGrows
  <2> QED  BY <2>1, <2>2
<1>11. Encoding(t)'
  BY <1>5, <1>8, <1>10 DEF Encoding
<1>12. Gapless' /\ Extends
  BY <1>6, NothingHanded
<1> QED  BY <1>6, <1>7, <1>8, <1>9, <1>11, <1>12, CallsFrom DEF SeqInv

\* A key is numbered: a number like the one before lengthens the open run, any
\* other closes it and opens the next.
LEMMA NumberKeyStep ==
  ASSUME SeqInv, NEW t \in Task, NumberKey(t)
  PROVE  SeqInv'
<1>1. TypeSeq /\ Gapless /\ call[t] \in Call /\ call \in [Task -> Call]
      /\ call[t].at = "locked" /\ call[t].ordinal < call[t].end
      /\ Progress(t) /\ Covered(t, call[t].start) /\ Open(t)
      /\ took \in [Task -> Seq(Nat)] /\ handed \in Seq(Handed) /\ lastSeqs \in [Key -> Nat]
  BY DEF SeqInv, TypeSeq, Calls, NumberKey, Encoding
<1>2. PICK m \in Nat, b \in Nat, p \in Nat, e \in Nat, r \in Runs, keys \in Seq(Key) :
        /\ m = call[t].ordinal /\ b = call[t].start /\ p = call[t].prev /\ r = call[t].runs
        /\ e = call[t].end /\ keys = call[t].keys
  BY <1>1 DEF Call
<1>3. m < e /\ e <= Len(keys) /\ b <= m /\ m + 1 \in 1..Len(keys) /\ Len(keys) \in Nat
  <2>1. m < e /\ e <= Len(keys) /\ b <= m /\ Len(keys) \in Nat
    BY <1>1, <1>2 DEF Progress
  <2> QED  BY <2>1
<1>4. PICK k \in Key : k = keys[m + 1]
  BY <1>3
<1>5. PICK n \in Nat : n = lastSeqs[k] + 1 /\ n > 0
  BY <1>1
<1>6. /\ Assign(t, k)
      /\ call' = [call EXCEPT ![t] =
                    [Flushed(call[t], n) EXCEPT !.prev = n, !.ordinal = @ + 1]]
      /\ took' = [took EXCEPT ![t] = Append(@, Len(handed) + 1)]
  BY <1>2, <1>4, <1>5 DEF NumberKey, NextNumber
<1>7. /\ Gapless' /\ Extends
      /\ lastSeqs' \in [Key -> Nat] /\ handed' \in Seq(Handed)
      /\ Len(handed') = Len(handed) + 1
      /\ handed'[Len(handed) + 1] = [task |-> t, key |-> k, seq |-> n]
  BY <1>1, <1>5, <1>6, AssignKeeps
<1>8. PICK N \in Nat : N = Len(handed)
  BY <1>1
<1>9. /\ took'[t] \in Seq(Nat) /\ Len(took'[t]) = m + 1 /\ took'[t][m + 1] = N + 1
      /\ \A j \in 1..m : took'[t][j] = took[t][j]
      /\ took' \in [Task -> Seq(Nat)] /\ \A s \in Task : s # t => took'[s] = took[s]
  <2>1. took[t] \in Seq(Nat) /\ Len(took[t]) = m
    BY <1>1, <1>2 DEF Progress
  <2>2. took'[t] = Append(took[t], N + 1) /\ N + 1 \in Nat
    BY <1>1, <1>6, <1>8
  <2>3. took'[t] \in Seq(Nat) /\ Len(took'[t]) = m + 1 /\ took'[t][m + 1] = N + 1
        /\ \A j \in 1..m : took'[t][j] = took[t][j]
    BY <2>1, <2>2
  <2>4. took' \in [Task -> Seq(Nat)] /\ \A s \in Task : s # t => took'[s] = took[s]
    BY <1>1, <1>6, <2>2, <2>3
  <2> QED  BY <2>3, <2>4
<1>10. \A j \in 1..m : /\ took[t][j] \in 1..N
                        /\ handed'[took'[t][j]] = handed[took[t][j]]
                        /\ handed[took[t][j]].task = t /\ handed[took[t][j]].key = keys[j]
                        /\ handed[took[t][j]].seq > 0
  <2>1. \A j \in 1..m : /\ took[t][j] \in 1..N
                         /\ handed[took[t][j]].task = t /\ handed[took[t][j]].key = keys[j]
                         /\ handed[took[t][j]].seq > 0
    BY <1>1, <1>2, <1>8 DEF Progress
  <2> QED  BY <2>1, <1>7, <1>8, <1>9 DEF Extends
<1>11. PICK c \in Call :
         /\ c.keys = keys /\ c.at = "locked" /\ c.end = e /\ c.prev = n /\ c.ordinal = m + 1
         /\ \/ (p = 0 \/ p = n) /\ c.runs = r /\ c.start = b
            \/ p # 0 /\ p # n /\ c.runs = Append(r, Run(b, m, p)) /\ c.start = m
         /\ call' = [call EXCEPT ![t] = c]
  <2>1. CASE p # 0 /\ p # n
    <3> PICK m1 \in Nat : m1 = m + 1
      OBVIOUS
    <3> DEFINE f == [call[t] EXCEPT !.runs = Append(r, Run(b, m, p)), !.start = m]
               c == [f EXCEPT !.prev = n, !.ordinal = m1]
    <3>1. Append(r, Run(b, m, p)) \in Runs
      <4>1. Run(b, m, p) \in [from : Nat, to : Nat, seq : Nat]
        BY DEF Run
      <4> QED  BY <4>1 DEF Runs
    <3>2. Flushed(call[t], n) = f
      BY <1>2, <2>1 DEF Flushed
    <3>3. f \in Call /\ f.keys = keys /\ f.at = "locked" /\ f.end = e /\ f.ordinal = m
          /\ f.runs = Append(r, Run(b, m, p)) /\ f.start = m
      BY <1>1, <1>2, <3>1 DEF Call
    <3> HIDE DEF f
    <3>4. c \in Call /\ c.keys = keys /\ c.at = "locked" /\ c.end = e /\ c.ordinal = m1
          /\ c.runs = Append(r, Run(b, m, p)) /\ c.start = m /\ c.prev = n
      BY <3>3 DEF Call
    <3>5. call' = [call EXCEPT ![t] = c]
      BY <1>6, <3>2, <3>3
    <3> HIDE DEF c
    <3> QED  BY <2>1, <3>4, <3>5
  <2>2. CASE p = 0 \/ p = n
    <3> PICK m1 \in Nat : m1 = m + 1
      OBVIOUS
    <3> DEFINE c == [call[t] EXCEPT !.prev = n, !.ordinal = m1]
    <3>1. Flushed(call[t], n) = call[t]
      BY <1>2, <2>2 DEF Flushed
    <3>2. c \in Call /\ c.keys = keys /\ c.at = "locked" /\ c.end = e /\ c.ordinal = m1
          /\ c.runs = r /\ c.start = b /\ c.prev = n
      BY <1>1, <1>2 DEF Call
    <3>3. call' = [call EXCEPT ![t] = c]
      BY <1>2, <1>6, <3>1
    <3> HIDE DEF c
    <3> QED  BY <2>2, <3>2, <3>3
  <2> QED  BY <2>1, <2>2
<1>12. call'[t] = c /\ \A s \in Task : s # t => call'[s] = call[s]
  BY <1>1, <1>11
<1>13. TypeSeq'
  BY <1>1, <1>7, <1>9, <1>11 DEF TypeSeq
<1>14. Progress(t)'
  <2>1. \A j \in 1..(m + 1) :
          /\ took'[t][j] \in 1..Len(handed')
          /\ handed'[took'[t][j]].task = t /\ handed'[took'[t][j]].key = keys[j]
          /\ handed'[took'[t][j]].seq > 0
    <3> SUFFICES ASSUME NEW j \in 1..(m + 1)
                 PROVE  /\ took'[t][j] \in 1..Len(handed')
                        /\ handed'[took'[t][j]].task = t /\ handed'[took'[t][j]].key = keys[j]
                        /\ handed'[took'[t][j]].seq > 0
      OBVIOUS
    <3>1. CASE j = m + 1
      BY <3>1, <1>4, <1>5, <1>7, <1>8, <1>9
    <3>2. CASE j \in 1..m
      <4>1. took'[t][j] = took[t][j] /\ took[t][j] \in 1..N /\ Len(handed') = N + 1
        BY <3>2, <1>7, <1>8, <1>9, <1>10
      <4>2. took'[t][j] \in 1..Len(handed')
        BY <4>1
      <4> QED  BY <3>2, <4>2, <1>10
    <3> QED  BY <3>1, <3>2
  <2>2. \A i, j \in 1..(m + 1) : i < j => took'[t][i] < took'[t][j]
    <3>1. \A i, j \in 1..m : i < j => took[t][i] < took[t][j]
      BY <1>1, <1>2 DEF Progress
    <3> SUFFICES ASSUME NEW i \in 1..(m + 1), NEW j \in 1..(m + 1), i < j
                 PROVE  took'[t][i] < took'[t][j]
      OBVIOUS
    <3>0. i \in 1..m
      OBVIOUS
    <3>2. i \in 1..m /\ took'[t][i] \in 1..N
      BY <3>0, <1>9, <1>10
    <3>3. CASE j = m + 1
      BY <3>2, <3>3, <1>9
    <3>4. CASE j \in 1..m
      BY <3>1, <3>2, <3>4, <1>9
    <3> QED  BY <3>3, <3>4
  <2>3. c.start <= m + 1 /\ c.end <= Len(keys) /\ m + 1 <= Len(keys)
    BY <1>3, <1>11
  <2> QED  BY <2>1, <2>2, <2>3, <1>9, <1>11, <1>12 DEF Progress
<1>15. handed'[took'[t][m + 1]].seq = n
  BY <1>7, <1>8, <1>9
<1>16. \A j \in (b + 1)..m : handed'[took'[t][j]].seq = p
  <2> SUFFICES ASSUME NEW j \in (b + 1)..m PROVE handed'[took'[t][j]].seq = p
    OBVIOUS
  <2>1. j \in 1..m
    OBVIOUS
  <2>2. handed[took[t][j]].seq = p
    BY <1>1, <1>2 DEF Open
  <2> QED  BY <2>1, <2>2, <1>10
<1>17. Covered(t, b) /\ (p = 0 => m = 0) /\ (p # 0 => b < m)
  BY <1>1, <1>2 DEF Open
<1>18. \A j \in 1..b : handed'[took'[t][j]] = handed[took[t][j]]
  BY <1>3, <1>10
<1>19. Encoding(t)'
  <2>1. CASE (p = 0 \/ p = n) /\ c.runs = r /\ c.start = b
    <3>1. Covered(t, b)'
      BY <2>1, <1>2, <1>12, <1>17, <1>18, CoveredKept
    <3>2. \A j \in (b + 1)..(m + 1) : handed'[took'[t][j]].seq = n
      BY <2>1, <1>15, <1>16, <1>17
    <3>3. b < m + 1
      BY <1>3
    <3> QED  BY <2>1, <3>1, <3>2, <3>3, <1>5, <1>11, <1>12 DEF Encoding, Open
  <2>2. CASE p # 0 /\ p # n /\ c.runs = Append(r, Run(b, m, p)) /\ c.start = m
    <3>1. Covered(t, m)'
      <4>1. r = call[t].runs /\ call'[t].runs = Append(r, Run(b, m, p)) /\ b < m
        BY <2>2, <1>2, <1>12, <1>17
      <4> QED  BY <4>1, <1>16, <1>17, <1>18, CoveredGrows
    <3>2. \A j \in (m + 1)..(m + 1) : handed'[took'[t][j]].seq = n
      BY <1>15
    <3> QED  BY <2>2, <3>1, <3>2, <1>5, <1>11, <1>12 DEF Encoding, Open
  <2> QED  BY <2>1, <2>2, <1>11
<1> QED  BY <1>7, <1>9, <1>12, <1>13, <1>14, <1>19, CallsFrom DEF SeqInv

-----------------------------------------------------------------------------
LEMMA SeqInvStep == SeqInv /\ [SendNext]_sendVars => SeqInv'
<1> SUFFICES ASSUME SeqInv, [SendNext]_sendVars PROVE SeqInv'
  OBVIOUS
<1>1. ASSUME NEW t \in Task, NEW k \in Key, AssignSeq(t, k) PROVE SeqInv'
  BY <1>1, AssignSeqStep
<1>2. ASSUME NEW t \in Task, NEW keys \in BoundedSeq(Key, MaxKeys), AssignSeqs(t, keys)
      PROVE  SeqInv'
  <2>1. PICK m \in 0..MaxKeys : keys \in [1..m -> Key]
    BY DEF BoundedSeq, SeqOf
  <2>2. keys \in Seq(Key)
    BY <2>1, SequencerAssumption, SeqDef
  <2> QED  BY <1>2, <2>2, AssignSeqsStep
<1>3. ASSUME NEW t \in Task, Lock(t) PROVE SeqInv'
  BY <1>3, LockStep
<1>4. ASSUME NEW t \in Task, NumberKey(t) PROVE SeqInv'
  BY <1>4, NumberKeyStep
<1>5. ASSUME NEW t \in Task, Unlock(t) PROVE SeqInv'
  BY <1>5, UnlockStep
<1>6. ASSUME NEW t \in Task, Finish(t) PROVE SeqInv'
  BY <1>6, FinishStep
<1>7. ASSUME NEW t \in Task, Use(t) PROVE SeqInv'
  BY <1>7, UseStep
<1>8. CASE UNCHANGED sendVars
  <2>1. Gapless' /\ Extends
    BY <1>8, NothingHanded DEF sendVars
  <2>2. Calls'
    BY <1>8, <2>1, CallKept DEF Calls, sendVars
  <2>3. TypeSeq'
    BY <1>8 DEF sendVars, SeqInv, TypeSeq
  <2> QED  BY <2>1, <2>2, <2>3 DEF SeqInv
<1> QED  BY <1>1, <1>2, <1>3, <1>4, <1>5, <1>6, <1>7, <1>8 DEF SendNext

\* Every call's closed and open runs describe what it has taken so far, and the
\* map has the last number of every key.
THEOREM SequencerInvariant == SendSpec => []SeqInv
BY SeqInvInit, SeqInvStep, PTL DEF SendSpec

\* The locals of assign_seqs stay in range.
THEOREM SequencerTypes == SendSpec => []SendTypeOK
<1>1. SeqInv => SendTypeOK
  <2> SUFFICES ASSUME SeqInv, NEW t \in Task
               PROVE  /\ call[t].keys \in Seq(Key)
                      /\ call[t].at \in {"idle", "chunks", "locked", "done"}
                      /\ call[t].ordinal \in 0..Len(call[t].keys)
                      /\ call[t].end \in 0..Len(call[t].keys)
                      /\ call[t].start \in 0..call[t].ordinal /\ call[t].prev \in Nat
                      /\ took[t] \in Seq(Nat)
    BY DEF SendTypeOK, SeqInv, TypeSeq, Handed
  <2>1. call[t] \in Call /\ Progress(t) /\ took[t] \in Seq(Nat)
    BY DEF SeqInv, TypeSeq, Calls
  <2>2. /\ call[t].keys \in Seq(Key) /\ call[t].at \in {"idle", "chunks", "locked", "done"}
        /\ call[t].ordinal \in Nat /\ call[t].end \in Nat /\ call[t].start \in Nat
        /\ call[t].prev \in Nat
    BY <2>1 DEF Call
  <2> QED  BY <2>1, <2>2 DEF Progress
<1> QED  BY <1>1, SequencerInvariant, PTL

\* The numbers of a key are 1, 2, 3, ... in the order of assignment, for any
\* number of clones and any interleaving of assign_seq and assign_seqs.
THEOREM NumbersGapless == SendSpec => []Gapless
<1>1. SeqInv => Gapless
  BY DEF SeqInv
<1> QED  BY <1>1, SequencerInvariant, PTL

\* What assign_seqs returns decodes to exactly the numbers that it took, for lists
\* of any length and chunks of any size.
THEOREM RunsAreExact == SendSpec => []RunsExact
<1>1. SeqInv => RunsExact
  <2> SUFFICES ASSUME SeqInv PROVE RunsCover /\ RunsDecode
    BY DEF RunsExact
  <2>1. ASSUME NEW t \in Task, call[t].at = "done"
        PROVE  /\ Progress(t) /\ Covered(t, call[t].ordinal)
               /\ call[t].ordinal = Len(call[t].keys) /\ call[t].ordinal \in Nat
               /\ call[t].keys \in Seq(Key) /\ call[t].runs \in Runs
               /\ took[t] \in Seq(Nat) /\ handed \in Seq(Handed)
    <3>1. Progress(t) /\ Encoding(t) /\ call[t] \in Call /\ took[t] \in Seq(Nat)
          /\ handed \in Seq(Handed)
      BY DEF SeqInv, TypeSeq, Calls
    <3>2. call[t].ordinal \in Nat /\ call[t].keys \in Seq(Key) /\ call[t].runs \in Runs
      BY <3>1 DEF Call
    <3> QED  BY <2>1, <3>1, <3>2 DEF Encoding, Progress
  <2>2. RunsCover
    <3> SUFFICES ASSUME NEW t \in Task, call[t].at = "done"
                 PROVE  LET c == call[t]
                        IN  IF c.keys = <<>> THEN c.runs = <<>>
                            ELSE /\ c.runs # <<>>
                                 /\ c.runs[1].from = 0 /\ c.runs[Len(c.runs)].to = Len(c.keys)
                                 /\ \A i \in DOMAIN c.runs : c.runs[i].from < c.runs[i].to
                                 /\ \A i \in 1..(Len(c.runs) - 1) :
                                      c.runs[i].to = c.runs[i + 1].from
      BY DEF RunsCover
    <3>1. PICK r \in Runs, m \in Nat : r = call[t].runs /\ m = call[t].ordinal
      BY <2>1
    <3>2. /\ Len(r) \in Nat /\ DOMAIN r = 1..Len(r)
          /\ \A i \in 1..Len(r) : r[i].from \in Nat /\ r[i].to \in Nat
      BY RunsTyped
    <3>3. Covered(t, m) /\ m = Len(call[t].keys) /\ call[t].keys \in Seq(Key)
      BY <2>1, <3>1
    <3>4. CASE call[t].keys = <<>>
      <4>1. m = 0
        BY <3>3, <3>4
      <4>2. ASSUME r # <<>> PROVE FALSE
        <5>1. 1 \in 1..Len(r)
          BY <3>2, <4>2 DEF Runs
        <5>2. r[1].from < r[1].to /\ r[1].to <= m /\ r[1].from \in Nat /\ r[1].to \in Nat
          BY <3>1, <3>2, <3>3, <5>1 DEF Covered
        <5> QED  BY <4>1, <5>2
      <4> QED  BY <3>1, <3>4, <4>2
    <3>5. CASE call[t].keys # <<>>
      <4>1. m # 0
        BY <3>3, <3>5
      <4> QED  BY <3>1, <3>2, <3>3, <3>5, <4>1 DEF Covered
    <3> QED  BY <3>4, <3>5
  <2>3. RunsDecode
    <3> SUFFICES ASSUME NEW t \in Task, call[t].at = "done"
                 PROVE  LET c == call[t]
                        IN  /\ Len(took[t]) = Len(c.keys)
                            /\ \A i, j \in DOMAIN took[t] : i < j => took[t][i] < took[t][j]
                            /\ \A i \in DOMAIN c.runs :
                                 \A j \in (c.runs[i].from + 1)..c.runs[i].to :
                                   handed[took[t][j]]
                                     = [task |-> t, key |-> c.keys[j], seq |-> c.runs[i].seq]
      BY DEF RunsDecode
    <3>1. PICK r \in Runs, m \in Nat : r = call[t].runs /\ m = call[t].ordinal
      BY <2>1
    <3>2. /\ Len(r) \in Nat /\ DOMAIN r = 1..Len(r)
          /\ \A i \in 1..Len(r) : r[i].from \in Nat /\ r[i].to \in Nat
      BY RunsTyped
    <3>3. Len(took[t]) = Len(call[t].keys) /\ DOMAIN took[t] = 1..m
      BY <2>1, <3>1 DEF Progress
    <3>4. \A i, j \in DOMAIN took[t] : i < j => took[t][i] < took[t][j]
      BY <2>1, <3>1, <3>3 DEF Progress
    <3>5. ASSUME NEW i \in 1..Len(r), NEW j \in (r[i].from + 1)..r[i].to
          PROVE  handed[took[t][j]] = [task |-> t, key |-> call[t].keys[j], seq |-> r[i].seq]
      <4>1. r[i].to <= m /\ handed[took[t][j]].seq = r[i].seq
        BY <2>1, <3>1 DEF Covered
      <4>2. j \in 1..m
        BY <3>2, <4>1
      <4>3. took[t][j] \in 1..Len(handed) /\ handed[took[t][j]].task = t
            /\ handed[took[t][j]].key = call[t].keys[j]
        BY <2>1, <3>1, <4>2 DEF Progress
      <4>4. handed[took[t][j]] \in [task : Task, key : Key, seq : Nat]
        <5>1. handed[took[t][j]] \in Handed
          BY <2>1, <4>3
        <5> QED  BY <5>1 DEF Handed
      <4> QED  BY <4>1, <4>3, <4>4
    <3> QED  BY <3>1, <3>2, <3>3, <3>4, <3>5
  <2> QED  BY <2>2, <2>3
<1> QED  BY <1>1, SequencerInvariant, PTL

-----------------------------------------------------------------------------
(* The receiver.                                                           *)

\* What a buffer is made of.
Ring   == Seq(Seqs \cup {None})
Buffer == [ring : Ring, head : Nat, spillover : SUBSET Seqs]

\* The head is a place of the ring.
Shape(b) ==
  /\ b \in Buffer
  /\ Len(b.ring) <= RingLimit
  /\ IF b.ring = <<>> THEN b.head = 0 ELSE b.head < Len(b.ring)

\* The ring has room for the messages from n on, and the spillover has those of
\* the messages W that lie beyond it.
Window(b, n, W) ==
  /\ Shape(b)
  /\ \A off \in 0..(Len(b.ring) - 1) :
       b.ring[Slot(b, off)] = IF n + off \in W THEN n + off ELSE None
  /\ b.spillover = {q \in W : q >= n + Len(b.ring)}
  /\ b.spillover # {} => Len(b.ring) = RingLimit
  /\ \A q \in W : q >= n
  /\ b.ring = <<>> => W = {}

\* The buffer is given up when nothing waits.
Represents(b, n, W) == Window(b, n, W) /\ (W = {} => b.ring = <<>>)

\* Each session's buffer is that of the messages it has, and the expected one is
\* not among them.
Buffers == \A s \in Session : /\ Represents(buffer[s], seq[s], Buffered(s))
                              /\ seq[s] \notin Buffered(s)

\* What was received and what is ready are the numbers below the expected one.
Released ==
  \A s \in Session :
    /\ \A i \in 1..Len(received[s]) : received[s][i] = i
    /\ Len(received[s]) + Len(ReadyOf(s)) = seq[s] - 1
    /\ \A i \in 1..Len(ReadyOf(s)) : ReadyOf(s)[i] = <<s, Len(received[s]) + i>>

\* TypeOK, as domains.
TypeRecv ==
  /\ lastSeq \in [Session -> 0..MaxSeq] /\ flight \subseteq Message
  /\ copies \in 0..MaxCopies /\ lost \in 0..MaxLost
  /\ seq \in [Session -> 1..(MaxSeq + 1)] /\ buffer \in [Session -> Buffer]
  /\ ready \in Seq(Message) /\ received \in [Session -> Seq(Seqs)]

RecvInv == TypeRecv /\ Buffers /\ Released /\ NothingDropped

-----------------------------------------------------------------------------
(* The buffer.                                                             *)

LEMMA ModSmall == ASSUME NEW L \in Nat \ {0}, NEW x \in 0..(L - 1) PROVE x % L = x
OBVIOUS

LEMMA ModWrap == ASSUME NEW L \in Nat \ {0}, NEW x \in L..(2 * L - 1) PROVE x % L = x - L
OBVIOUS

\* Offsets from the head that are within the ring.
Offsets(b) == 0..(Len(b.ring) - 1)

\* Where the offsets lie.
LEMMA SlotOf ==
  ASSUME NEW b, Shape(b), NEW off \in Offsets(b)
  PROVE  /\ Slot(b, off) = IF b.head + off < Len(b.ring) THEN b.head + off + 1
                                                        ELSE b.head + off + 1 - Len(b.ring)
         /\ Slot(b, off) \in 1..Len(b.ring)
<1> DEFINE L == Len(b.ring)
<1>1. L \in Nat /\ b.head \in Nat /\ off \in 0..(L - 1)
  BY DEF Shape, Buffer, Ring, Offsets
<1>2. L # 0 /\ b.head < L
  BY <1>1 DEF Shape, Buffer, Ring
<1> HIDE DEF L
<1>3. Slot(b, off) = ((b.head + off) % L) + 1
  BY DEF Slot, L
<1>4. CASE b.head + off < L
  <2>1. (b.head + off) % L = b.head + off
    BY <1>1, <1>2, <1>4, ModSmall
  <2>2. Slot(b, off) = b.head + off + 1
    BY <2>1, <1>3
  <2> QED  BY <2>2, <1>1, <1>2, <1>4 DEF L
<1>5. CASE ~(b.head + off < L)
  <2>1. (b.head + off) % L = b.head + off - L
    BY <1>1, <1>2, <1>5, ModWrap
  <2>2. Slot(b, off) = b.head + off - L + 1
    BY <2>1, <1>3
  <2> QED  BY <2>2, <1>1, <1>2, <1>5 DEF L
<1> QED  BY <1>4, <1>5

\* Two offsets have two slots, and every place of the ring is the slot of one.
LEMMA SlotInjective ==
  ASSUME NEW b, Shape(b), NEW i \in Offsets(b), NEW j \in Offsets(b), i # j
  PROVE  Slot(b, i) # Slot(b, j)
<1> DEFINE L == Len(b.ring)
           h == b.head
           Place(off) == IF h + off < L THEN h + off + 1 ELSE h + off + 1 - L
<1>1. L \in Nat /\ h \in Nat /\ i \in 0..(L - 1) /\ j \in 0..(L - 1)
  BY DEF Shape, Buffer, Ring, Offsets
<1>2. Slot(b, i) = Place(i) /\ Slot(b, j) = Place(j)
  BY SlotOf
<1> HIDE DEF L, h
<1>3. Place(i) # Place(j)
  BY <1>1
<1> QED  BY <1>2, <1>3

LEMMA SlotOnto ==
  ASSUME NEW b, Shape(b), NEW p \in 1..Len(b.ring)
  PROVE  \E off \in Offsets(b) : Slot(b, off) = p
<1>1. Len(b.ring) \in Nat /\ b.head \in Nat /\ b.head < Len(b.ring)
  BY DEF Shape, Buffer, Ring
<1> DEFINE off == IF p - 1 >= b.head THEN p - 1 - b.head ELSE p - 1 - b.head + Len(b.ring)
<1>2. off \in Offsets(b)
  BY <1>1 DEF Offsets
<1>3. Slot(b, off) = IF b.head + off < Len(b.ring) THEN b.head + off + 1
                                                  ELSE b.head + off + 1 - Len(b.ring)
  BY <1>2, SlotOf
<1>4. Slot(b, off) = p
  BY <1>1, <1>3
<1> QED  BY <1>2, <1>4

\* A ring that starts at its first place.
LEMMA SlotAtZero ==
  ASSUME NEW b, Shape(b), b.head = 0, NEW off \in Offsets(b)
  PROVE  Slot(b, off) = off + 1
<1> DEFINE L == Len(b.ring)
<1>1. L \in Nat /\ off \in 0..(L - 1)
  BY DEF Shape, Buffer, Ring, Offsets
<1>2. Slot(b, off) = IF 0 + off < L THEN 0 + off + 1 ELSE 0 + off + 1 - L
  BY SlotOf
<1> HIDE DEF L
<1> QED  BY <1>1, <1>2

\* The slot of an offset depends on the head and the length only.
LEMMA SameSlots ==
  ASSUME NEW b, NEW c, c.head = b.head, Len(c.ring) = Len(b.ring)
  PROVE  /\ Offsets(c) = Offsets(b)
         /\ \A off : Slot(c, off) = Slot(b, off)
BY DEF Offsets, Slot

\* What the messages of a window are.
LEMMA InRingOf ==
  ASSUME NEW b, NEW n \in Nat \ {0}, NEW W \in SUBSET Seqs, Window(b, n, W)
  PROVE  /\ {b.ring[i] : i \in DOMAIN b.ring} \ {None} = {q \in W : q < n + Len(b.ring)}
         /\ ({b.ring[i] : i \in DOMAIN b.ring} \ {None}) \cup b.spillover = W
<1>1. Shape(b) /\ Len(b.ring) \in Nat /\ DOMAIN b.ring = 1..Len(b.ring)
  BY DEF Window, Shape, Buffer, Ring
<1>2. W \subseteq Nat
  BY SequencedAssumption DEF Seqs
<1>3. ASSUME NEW i \in 1..Len(b.ring), b.ring[i] # None
      PROVE  b.ring[i] \in W /\ b.ring[i] < n + Len(b.ring)
  <2>1. PICK off \in Offsets(b) : Slot(b, off) = i
    BY <1>1, SlotOnto
  <2>2. b.ring[i] = IF n + off \in W THEN n + off ELSE None
    BY <2>1 DEF Window, Offsets
  <2> QED  BY <2>1, <2>2, <1>1, <1>3 DEF Offsets
<1>4. ASSUME NEW q \in W, q < n + Len(b.ring)
      PROVE  \E i \in 1..Len(b.ring) : b.ring[i] = q /\ q # None
  <2>1. q - n \in Offsets(b) /\ q # None /\ n + (q - n) = q
    BY <1>1, <1>2, <1>4 DEF Window, Offsets, None
  <2>2. b.ring[Slot(b, q - n)] = q
    BY <2>1 DEF Window, Offsets
  <2>3. Slot(b, q - n) \in 1..Len(b.ring)
    BY <2>1, <1>1, SlotOf
  <2> QED  BY <2>1, <2>2, <2>3
<1>5. {b.ring[i] : i \in DOMAIN b.ring} \ {None} = {q \in W : q < n + Len(b.ring)}
  BY <1>1, <1>3, <1>4
<1>6. b.spillover = {q \in W : q >= n + Len(b.ring)}
  BY DEF Window
<1>7. \A q \in W : q < n + Len(b.ring) \/ q >= n + Len(b.ring)
  BY <1>1, <1>2
<1> QED  BY <1>5, <1>6, <1>7

\* grow_ring, and the ring that ensure_ring makes: a longer ring that starts at
\* its first place.  A ring that can grow has no spillover.
LEMMA GrownWindow ==
  ASSUME NEW b, NEW n \in Nat \ {0}, NEW W \in SUBSET Seqs, Window(b, n, W),
         NEW len \in 1..RingLimit, Len(b.ring) < len, b.ring # <<>>
  PROVE  Window(Grown(b, len), n, W) /\ Len(Grown(b, len).ring) = len
<1> DEFINE g == Grown(b, len)
           r == [i \in 1..len |-> IF i <= Len(b.ring) THEN b.ring[Slot(b, i - 1)] ELSE None]
<1>1. Shape(b) /\ Len(b.ring) \in Nat /\ b.ring \in Ring /\ b \in Buffer /\ b.spillover = {}
  BY SequencedAssumption DEF Window, Shape, Buffer, Ring
<1>2. g = [ring |-> r, head |-> 0, spillover |-> {}]
  <2>1. g = [b EXCEPT !.ring = r, !.head = 0]
    BY DEF Grown
  <2> HIDE DEF g, r
  <2> QED  BY <1>1, <2>1 DEF Buffer
<1>3. \A i \in 1..Len(b.ring) : Slot(b, i - 1) \in 1..Len(b.ring)
  BY <1>1, SlotOf DEF Offsets
<1>4. \A i \in 1..len : r[i] \in Seqs \cup {None}
  BY <1>1, <1>3 DEF Ring
<1>5. r \in Seq(Seqs \cup {None}) /\ Len(r) = len
  BY <1>4
<1> HIDE DEF g
<1>6. g.ring = r /\ g.head = 0 /\ g.spillover = {} /\ r # <<>>
  <2> HIDE DEF r
  <2> QED  BY <1>2, <1>5
<1>7. Shape(g)
  BY <1>2, <1>5, <1>6, SequencedAssumption DEF Shape, Buffer, Ring
<1>8. \A q \in W : q >= n /\ q < n + Len(b.ring) /\ q \in Nat
  BY <1>1, SequencedAssumption DEF Window, Seqs
<1>9. ASSUME NEW off \in 0..(len - 1)
      PROVE  g.ring[Slot(g, off)] = IF n + off \in W THEN n + off ELSE None
  <2>1. Slot(g, off) = off + 1
    BY <1>5, <1>6, <1>7, SlotAtZero DEF Offsets
  <2>2. g.ring[off + 1] = IF off + 1 <= Len(b.ring) THEN b.ring[Slot(b, off)] ELSE None
    BY <1>6
  <2>3. CASE off + 1 <= Len(b.ring)
    <3>1. off \in 0..(Len(b.ring) - 1)
      BY <2>3, <1>1
    <3> QED  BY <3>1, <2>1, <2>2, <2>3 DEF Window
  <2>4. CASE ~(off + 1 <= Len(b.ring))
    BY <2>1, <2>2, <2>4, <1>1, <1>8
  <2> QED  BY <2>3, <2>4
<1>10. {q \in W : q >= n + len} = {}
  BY <1>1, <1>8
<1> QED  BY <1>5, <1>6, <1>7, <1>8, <1>9, <1>10 DEF Window, g

LEMMA FreshWindow ==
  ASSUME NEW c \in Buffer, NEW n \in Nat \ {0}, NEW len \in 1..RingLimit, Len(c.ring) = len,
         c.head = 0, c.spillover = {}, \A i \in 1..len : c.ring[i] = None
  PROVE  Window(c, n, {})
<1>1. c.ring # <<>>
  OBVIOUS
<1>2. Shape(c)
  BY <1>1, SequencedAssumption DEF Shape
<1>3. \A off \in 0..(len - 1) : c.ring[Slot(c, off)] = None
  <2> SUFFICES ASSUME NEW off \in 0..(len - 1) PROVE c.ring[Slot(c, off)] = None
    OBVIOUS
  <2>1. Slot(c, off) = off + 1
    BY <1>2, SlotAtZero DEF Offsets
  <2> QED  BY <2>1
<1> QED  BY <1>1, <1>2, <1>3 DEF Window

\* ensure_ring keeps the messages, and makes the ring long enough.
LEMMA EnsureWindow ==
  ASSUME NEW b, NEW n \in Nat \ {0}, NEW W \in SUBSET Seqs, Window(b, n, W),
         NEW q \in Seqs, q > n
  PROVE  /\ Window(EnsureRing(b, n, q), n, W)
         /\ EnsureRing(b, n, q).ring # <<>>
         /\ Len(EnsureRing(b, n, q).ring) >= WantedLen(q - n)
<1> DEFINE want == WantedLen(q - n)
<1>1. want \in 1..RingLimit
  BY SequencedAssumption DEF WantedLen, Seqs
<1>2. b \in Buffer /\ Len(b.ring) \in Nat /\ b.ring \in Ring
  BY DEF Window, Shape, Buffer, Ring
<1>3. CASE b.ring = <<>>
  <2> DEFINE r == [i \in 1..want |-> None]
             c == [b EXCEPT !.ring = r, !.head = 0]
  <2>1. EnsureRing(b, n, q) = c
    <3>1. ~(Len(b.ring) >= want)
      BY <1>1, <1>3
    <3> QED  BY <3>1, <1>3 DEF EnsureRing
  <2>2. W = {}
    BY <1>3 DEF Window
  <2> HIDE DEF want
  <2>3. Window(c, n, {}) /\ Len(c.ring) = want
    <3>1. r \in Ring /\ Len(r) = want /\ \A i \in 1..want : r[i] = None
      BY <1>1 DEF Ring
    <3>2. b.spillover = {}
      BY <2>2 DEF Window
    <3> HIDE DEF r
    <3>3. c = [ring |-> r, head |-> 0, spillover |-> {}]
      <4>1. c = [b EXCEPT !.ring = r, !.head = 0]
        OBVIOUS
      <4> HIDE DEF c
      <4> QED  BY <1>2, <3>2, <4>1 DEF Buffer
    <3> HIDE DEF c
    <3>4. c.ring = r /\ c.head = 0 /\ c.spillover = {} /\ c \in Buffer
      BY <3>1, <3>3 DEF Buffer
    <3> QED  BY <1>1, <3>1, <3>4, FreshWindow
  <2>4. c.ring # <<>>
    BY <1>1, <2>3
  <2> QED  BY <1>1, <2>1, <2>2, <2>3, <2>4 DEF want
<1>4. CASE b.ring # <<>> /\ Len(b.ring) >= want
  BY <1>4 DEF EnsureRing
<1>5. CASE b.ring # <<>> /\ ~(Len(b.ring) >= want)
  <2>1. EnsureRing(b, n, q) = Grown(b, want)
    BY <1>5 DEF EnsureRing
  <2> HIDE DEF want
  <2>2. Len(b.ring) < want
    BY <1>1, <1>2, <1>5
  <2>3. Window(Grown(b, want), n, W) /\ Len(Grown(b, want).ring) = want
    BY <1>1, <1>5, <2>2, GrownWindow
  <2>4. Grown(b, want).ring # <<>>
    BY <1>1, <2>3
  <2> QED  BY <1>1, <2>1, <2>3, <2>4 DEF want
<1> QED  BY <1>3, <1>4, <1>5

\* insert_ring puts the message where its number says.
LEMMA InsertRingWindow ==
  ASSUME NEW b, NEW n \in Nat \ {0}, NEW W \in SUBSET Seqs, Window(b, n, W),
         NEW q \in Seqs, q > n, InWindow(b, n, q)
  PROVE  Window(InsertRing(b, n, q), n, W \cup {q}) /\ InsertRing(b, n, q).ring # <<>>
<1> DEFINE p == Slot(b, q - n)
           r == [b.ring EXCEPT ![p] = IF @ = None THEN q ELSE @]
           c == InsertRing(b, n, q)
<1>1. /\ Shape(b) /\ b \in Buffer /\ b.ring \in Ring /\ Len(b.ring) \in Nat /\ b.ring # <<>>
      /\ q < n + Len(b.ring) /\ q \in Nat /\ q # None
  BY SequencedAssumption DEF Window, Shape, Buffer, Ring, InWindow, Seqs, None
<1>2. q - n \in Offsets(b) /\ n + (q - n) = q
  BY <1>1 DEF Offsets
<1>3. p \in 1..Len(b.ring)
  BY <1>1, <1>2, SlotOf
<1>4. b.ring[p] = IF q \in W THEN q ELSE None
  BY <1>2 DEF Window, Offsets
<1>5. c = [ring |-> r, head |-> b.head, spillover |-> b.spillover]
  <2>1. b = [ring |-> b.ring, head |-> b.head, spillover |-> b.spillover]
    BY <1>1 DEF Buffer
  <2>2. c = [b EXCEPT !.ring = r]
    BY Zenon DEF InsertRing
  <2> HIDE DEF c, r
  <2> QED  BY <2>1, <2>2
<1> HIDE DEF p
<1>6. r \in Ring /\ Len(r) = Len(b.ring) /\ r # <<>> /\ r[p] = q
      /\ \A i \in 1..Len(b.ring) : i # p => r[i] = b.ring[i]
  BY <1>1, <1>3, <1>4 DEF Ring
<1> HIDE DEF r, c
<1>7. c.ring = r /\ c.head = b.head /\ c.spillover = b.spillover
  BY <1>5
<1>8. Shape(c)
  BY <1>1, <1>5, <1>6, <1>7 DEF Shape, Buffer
<1>9. \A off : Slot(c, off) = Slot(b, off)
  BY <1>6, <1>7, SameSlots
<1>10. ASSUME NEW off \in 0..(Len(c.ring) - 1)
       PROVE  c.ring[Slot(c, off)] = IF n + off \in W \cup {q} THEN n + off ELSE None
  <2>1. off \in Offsets(b) /\ Slot(c, off) = Slot(b, off) /\ off \in Nat
    BY <1>6, <1>7, <1>9 DEF Offsets
  <2>2. CASE off = q - n
    BY <2>1, <2>2, <1>2, <1>6, <1>7 DEF p
  <2>3. CASE off # q - n
    <3>1. Slot(b, off) # p /\ Slot(b, off) \in 1..Len(b.ring)
      BY <2>1, <2>3, <1>1, <1>2, SlotInjective, SlotOf DEF p
    <3>2. c.ring[Slot(c, off)] = b.ring[Slot(b, off)]
      BY <3>1, <2>1, <1>6, <1>7
    <3>3. n + off # q
      BY <2>1, <2>3, <1>1
    <3> QED  BY <3>2, <3>3, <2>1 DEF Window, Offsets
  <2> QED  BY <2>2, <2>3
<1>11. {m \in W \cup {q} : m >= n + Len(c.ring)} = {m \in W : m >= n + Len(b.ring)}
  BY <1>1, <1>6, <1>7
<1> QED  BY <1>1, <1>6, <1>7, <1>8, <1>10, <1>11 DEF Window, c

\* insert adds the message, once.
LEMMA InsertRepresents ==
  ASSUME NEW b, NEW n \in Nat \ {0}, NEW W \in SUBSET Seqs, Represents(b, n, W),
         NEW q \in Seqs, q > n
  PROVE  Represents(Insert(b, n, q), n, W \cup {q})
<1> DEFINE e == EnsureRing(b, n, q)
<1>1. Window(e, n, W) /\ e.ring # <<>> /\ Len(e.ring) >= WantedLen(q - n)
  BY EnsureWindow DEF Represents
<1>2. Insert(b, n, q) = IF InWindow(e, n, q) THEN InsertRing(e, n, q)
                                            ELSE [e EXCEPT !.spillover = @ \cup {q}]
  BY DEF Insert
<1> HIDE DEF e
<1>3. CASE InWindow(e, n, q)
  BY <1>1, <1>2, <1>3, InsertRingWindow DEF Represents
<1>4. CASE ~InWindow(e, n, q)
  <2> DEFINE c == [e EXCEPT !.spillover = @ \cup {q}]
  <2>1. e \in Buffer /\ Shape(e) /\ Len(e.ring) \in Nat /\ Len(e.ring) <= RingLimit
    BY <1>1 DEF Window, Shape, Buffer, Ring
  <2>2. q >= n + Len(e.ring) /\ q \in Nat
    BY <1>1, <1>4, <2>1, SequencedAssumption DEF InWindow, Seqs
  <2>3. Len(e.ring) = RingLimit
    BY <1>1, <2>1, <2>2, SequencedAssumption DEF WantedLen
  <2>4. c = [ring |-> e.ring, head |-> e.head, spillover |-> e.spillover \cup {q}]
    <3>1. e = [ring |-> e.ring, head |-> e.head, spillover |-> e.spillover]
      BY <2>1 DEF Buffer
    <3> QED  BY <3>1
  <2> HIDE DEF c
  <2>5. c.ring = e.ring /\ c.head = e.head /\ c.spillover = e.spillover \cup {q} /\ c \in Buffer
    BY <2>1, <2>4 DEF Buffer
  <2>6. Shape(c)
    BY <2>1, <2>5 DEF Shape
  <2>7. \A off : Slot(c, off) = Slot(e, off)
    BY <2>5, SameSlots
  <2>8. \A off \in 0..(Len(c.ring) - 1) :
          c.ring[Slot(c, off)] = IF n + off \in W \cup {q} THEN n + off ELSE None
    <3> SUFFICES ASSUME NEW off \in 0..(Len(e.ring) - 1)
                 PROVE  e.ring[Slot(e, off)] = IF n + off \in W \cup {q} THEN n + off ELSE None
      BY <2>5, <2>7
    <3>1. n + off # q
      BY <2>1, <2>2
    <3> QED  BY <3>1, <1>1 DEF Window
  <2>9. c.spillover = {m \in W \cup {q} : m >= n + Len(c.ring)}
    BY <1>1, <2>2, <2>5 DEF Window
  <2>10. Window(c, n, W \cup {q})
    BY <1>1, <2>2, <2>3, <2>5, <2>6, <2>8, <2>9 DEF Window
  <2> QED  BY <1>1, <1>2, <1>4, <2>5, <2>10 DEF Represents, c
<1> QED  BY <1>3, <1>4

\* A window whose spillover may have come to lie within the ring.
Loose(b, n, W) ==
  /\ Shape(b) /\ b.ring # <<>>
  /\ \A off \in 0..(Len(b.ring) - 1) :
       b.ring[Slot(b, off)] = IF n + off \in W \ b.spillover THEN n + off ELSE None
  /\ b.spillover \subseteq W
  /\ \A q \in W \ b.spillover : q < n + Len(b.ring)
  /\ b.spillover # {} => Len(b.ring) = RingLimit
  /\ \A q \in W : q >= n

LEMMA WindowLoose ==
  ASSUME NEW b, NEW n \in Nat \ {0}, NEW W \in SUBSET Seqs, Window(b, n, W), b.ring # <<>>
  PROVE  Loose(b, n, W)
<1>1. Len(b.ring) \in Nat /\ W \subseteq Nat
  BY SequencedAssumption DEF Window, Shape, Buffer, Ring, Seqs
<1>2. \A off \in 0..(Len(b.ring) - 1) : n + off \notin b.spillover
  BY <1>1 DEF Window
<1> QED  BY <1>1, <1>2 DEF Window, Loose

\* refill_from_spillover makes the window exact.
LEMMA RefillWindow ==
  ASSUME NEW b, NEW n \in Nat \ {0}, NEW W \in SUBSET Seqs, Loose(b, n, W)
  PROVE  Window(Refill(b, n), n, W) /\ Refill(b, n).ring # <<>>
<1> DEFINE into == {q \in b.spillover : InWindow(b, n, q)}
           At(i) == {q \in into : Slot(b, q - n) = i}
           r == [i \in DOMAIN b.ring |-> IF b.ring[i] = None /\ At(i) # {}
                                         THEN CHOOSE q \in At(i) : TRUE ELSE b.ring[i]]
           c == Refill(b, n)
<1>1. /\ Shape(b) /\ b \in Buffer /\ b.ring \in Ring /\ Len(b.ring) \in Nat /\ b.ring # <<>>
      /\ DOMAIN b.ring = 1..Len(b.ring) /\ W \subseteq Nat \ {0} /\ b.spillover \subseteq W
      /\ \A q \in W : q >= n /\ (q \in b.spillover \/ q < n + Len(b.ring))
  BY SequencedAssumption DEF Loose, Shape, Buffer, Ring, Seqs
<1>2. into = {q \in b.spillover : q < n + Len(b.ring)}
  BY <1>1 DEF InWindow
<1>3. \A q \in into : q - n \in Offsets(b) /\ n + (q - n) = q /\ q \in Seqs
  <2> HIDE DEF into
  <2> SUFFICES ASSUME NEW q \in into
               PROVE  q - n \in Offsets(b) /\ n + (q - n) = q /\ q \in Seqs
    OBVIOUS
  <2>1. q \in W /\ q < n + Len(b.ring)
    BY <1>1, <1>2
  <2>2. q \in Nat /\ q >= n
    BY <1>1, <2>1
  <2> QED  BY <1>1, <2>1, <2>2 DEF Offsets
<1>4. c = [ring |-> r, head |-> b.head, spillover |-> b.spillover \ into]
  <2>1. c = [b EXCEPT !.spillover = b.spillover \ into, !.ring = r]
    BY DEF Refill
  <2> HIDE DEF c, r, into
  <2>2. b = [ring |-> b.ring, head |-> b.head, spillover |-> b.spillover]
    BY <1>1 DEF Buffer
  <2> QED  BY <2>1, <2>2
<1> HIDE DEF into
<1>5. ASSUME NEW off \in Offsets(b)
      PROVE  At(Slot(b, off)) = {n + off} \cap into
  <2>1. ASSUME NEW q \in into, Slot(b, q - n) = Slot(b, off) PROVE q = n + off
    BY <2>1, <1>1, <1>3, SlotInjective
  <2>2. n + off \in into => (n + off) - n = off
    BY <1>1, <1>3 DEF Offsets
  <2> QED  BY <2>1, <2>2
<1>6. ASSUME NEW off \in Offsets(b)
      PROVE  r[Slot(b, off)] = IF n + off \in W THEN n + off ELSE None
  <2> DEFINE p == Slot(b, off)
  <2>1. p \in 1..Len(b.ring)
    BY <1>1, SlotOf
  <2>2. r[p] = IF b.ring[p] = None /\ At(p) # {} THEN CHOOSE q \in At(p) : TRUE ELSE b.ring[p]
    BY <2>1, <1>1
  <2>3. b.ring[p] = IF n + off \in W \ b.spillover THEN n + off ELSE None
    BY DEF Loose, Offsets
  <2>4. At(p) = {n + off} \cap into
    BY <1>5
  <2>5. n + off \in Nat \ {0} /\ n + off < n + Len(b.ring)
    BY <1>1 DEF Offsets
  <2> HIDE DEF p, r, At
  <2>6. CASE n + off \in into
    <3>1. n + off \in b.spillover /\ n + off \in W
      BY <2>6, <1>1, <1>2
    <3>2. At(p) = {n + off}
      BY <2>4, <2>6
    <3> QED  BY <3>1, <3>2, <2>2, <2>3, <2>5 DEF p
  <2>7. CASE n + off \notin into
    <3>1. n + off \notin b.spillover
      BY <2>5, <2>7, <1>2
    <3>2. At(p) = {}
      BY <2>4, <2>7
    <3> QED  BY <3>1, <3>2, <2>2, <2>3 DEF p
  <2> QED  BY <2>6, <2>7
<1>7. r \in Ring /\ Len(r) = Len(b.ring)
  <2>1. ASSUME NEW i \in 1..Len(b.ring) PROVE r[i] \in Seqs \cup {None}
    <3>1. PICK off \in Offsets(b) : Slot(b, off) = i
      BY <1>1, SlotOnto
    <3> HIDE DEF r
    <3> QED  BY <3>1, <1>6
  <2>2. r = [i \in 1..Len(b.ring) |-> r[i]]
    BY <1>1
  <2> HIDE DEF r
  <2>3. r \in [1..Len(b.ring) -> Seqs \cup {None}]
    BY <2>1, <2>2
  <2> QED  BY <2>3, <1>1 DEF Ring
<1> HIDE DEF r, c
<1>8. c.ring = r /\ c.head = b.head /\ c.spillover = b.spillover \ into /\ c \in Buffer
  BY <1>1, <1>4, <1>7 DEF Buffer
<1>9. r # <<>> /\ Shape(c)
  BY <1>1, <1>7, <1>8 DEF Shape
<1>10. Offsets(c) = Offsets(b) /\ \A off : Slot(c, off) = Slot(b, off)
  BY <1>7, <1>8, SameSlots
<1>11. \A off \in 0..(Len(c.ring) - 1) :
         c.ring[Slot(c, off)] = IF n + off \in W THEN n + off ELSE None
  BY <1>6, <1>8, <1>10 DEF Offsets
<1>12. c.spillover = {q \in W : q >= n + Len(c.ring)}
  <2>1. ASSUME NEW q \in W
        PROVE  (q \in b.spillover /\ ~(q < n + Len(b.ring))) <=> q >= n + Len(b.ring)
    <3>1. q \in Nat /\ q >= n /\ (q \in b.spillover \/ q < n + Len(b.ring))
      BY <1>1
    <3> QED  BY <1>1, <3>1
  <2>2. c.spillover = {q \in W : q \in b.spillover /\ ~(q < n + Len(b.ring))}
    BY <1>1, <1>2, <1>8
  <2>3. Len(c.ring) = Len(b.ring)
    BY <1>7, <1>8
  <2> QED  BY <2>1, <2>2, <2>3
<1> QED  BY <1>1, <1>7, <1>8, <1>9, <1>11, <1>12 DEF Window, Loose, c

\* reset_if_empty gives the buffer up when nothing waits.
LEMMA ResetRepresents ==
  ASSUME NEW b, NEW n \in Nat \ {0}, NEW W \in SUBSET Seqs, Window(b, n, W)
  PROVE  Represents(ResetIfEmpty(b), n, W)
<1> DEFINE none == b.spillover = {} /\ \A i \in DOMAIN b.ring : b.ring[i] = None
<1>1. none <=> W = {}
  <2> DEFINE held == {b.ring[i] : i \in DOMAIN b.ring} \ {None}
  <2>1. held \cup b.spillover = W
    BY InRingOf
  <2>2. held = {} <=> \A i \in DOMAIN b.ring : b.ring[i] = None
    OBVIOUS
  <2> HIDE DEF held
  <2> QED  BY <2>1, <2>2
<1>2. ResetIfEmpty(b) = IF none THEN Empty ELSE b
  BY DEF ResetIfEmpty
<1> HIDE DEF none
<1>3. CASE none
  <2>1. Shape(Empty) /\ Empty.ring = <<>> /\ Empty.spillover = {}
    BY SequencedAssumption DEF Empty, Shape, Buffer, Ring
  <2>2. Window(Empty, n, {})
    BY <2>1 DEF Window
  <2> QED  BY <1>1, <1>2, <1>3, <2>1, <2>2 DEF Represents
<1>4. CASE ~none
  BY <1>1, <1>2, <1>4 DEF Represents
<1> QED  BY <1>3, <1>4

\* advance: the window moves on by one.
LEMMA AdvanceRepresents ==
  ASSUME NEW b, NEW n \in Nat \ {0}, NEW W \in SUBSET Seqs, Window(b, n, W), n \notin W
  PROVE  Represents(Advance(b, n + 1), n + 1, W)
<1>1. /\ Shape(b) /\ b \in Buffer /\ b.ring \in Ring /\ Len(b.ring) \in Nat
      /\ W \subseteq Nat /\ b.head \in Nat
  BY SequencedAssumption DEF Window, Shape, Buffer, Ring, Seqs
<1>2. CASE b.ring = <<>>
  <2>1. Advance(b, n + 1) = b /\ W = {}
    BY <1>2 DEF Advance, Window
  <2> QED  BY <1>1, <1>2, <2>1 DEF Represents, Window
<1>3. CASE b.ring # <<>>
  <2> DEFINE L == Len(b.ring)
             r == [b.ring EXCEPT ![b.head + 1] = None]
             h == (b.head + 1) % L
             c == [b EXCEPT !.ring[b.head + 1] = None, !.head = (@ + 1) % Len(b.ring)]
  <2>1. L \in Nat \ {0} /\ b.head \in 0..(L - 1)
    BY <1>1, <1>3 DEF Shape
  <2>2. h = IF b.head + 1 < L THEN b.head + 1 ELSE 0
    <3> HIDE DEF L
    <3>1. CASE b.head + 1 < L
      BY <2>1, <3>1, ModSmall
    <3>2. CASE ~(b.head + 1 < L)
      <4>1. (b.head + 1) % L = b.head + 1 - L
        BY <2>1, <3>2, ModWrap
      <4> QED  BY <4>1, <2>1, <3>2
    <3> QED  BY <3>1, <3>2
  <2>3. r \in Ring /\ Len(r) = L /\ r[b.head + 1] = None /\ r # <<>>
        /\ \A i \in 1..L : i # b.head + 1 => r[i] = b.ring[i]
    BY <1>1, <1>3, <2>1 DEF Ring
  <2>4. c = [ring |-> r, head |-> h, spillover |-> b.spillover]
    <3>1. c = [b EXCEPT !.ring = r, !.head = h]
      OBVIOUS
    <3> HIDE DEF c, r, h
    <3> QED  BY <1>1, <3>1 DEF Buffer
  <2>5. Advance(b, n + 1) = ResetIfEmpty(Refill(c, n + 1))
    BY <1>3 DEF Advance
  <2> HIDE DEF r, h, c
  <2>6. /\ c.ring = r /\ c.head = h /\ c.spillover = b.spillover /\ Len(c.ring) = L
        /\ c.ring # <<>> /\ c \in Buffer /\ c.head \in 0..(L - 1)
    BY <1>1, <2>1, <2>2, <2>3, <2>4 DEF Buffer
  <2>7. Shape(c)
    BY <1>1, <2>6 DEF Shape
  <2>8. ASSUME NEW off \in 0..(L - 1)
        PROVE  /\ off < L - 1 => Slot(c, off) = Slot(b, off + 1)
               /\ off = L - 1 => Slot(c, off) = b.head + 1
               /\ off < L - 1 => Slot(b, off + 1) # b.head + 1
    <3>1. Slot(c, off) = IF h + off < L THEN h + off + 1 ELSE h + off + 1 - L
      BY <2>6, <2>7, SlotOf DEF Offsets
    <3>2. off < L - 1 =>
            Slot(b, off + 1) = IF b.head + (off + 1) < L THEN b.head + (off + 1) + 1
                                                         ELSE b.head + (off + 1) + 1 - L
      <4> SUFFICES ASSUME off < L - 1
                   PROVE  Slot(b, off + 1) = IF b.head + (off + 1) < L THEN b.head + (off + 1) + 1
                                                         ELSE b.head + (off + 1) + 1 - L
        OBVIOUS
      <4>1. off + 1 \in Offsets(b)
        BY <2>1 DEF Offsets
      <4> QED  BY <4>1, <1>1, SlotOf
    <3> HIDE DEF L
    <3> QED  BY <3>1, <3>2, <2>1, <2>2
  <2>9. ASSUME NEW off \in 0..(L - 1)
        PROVE  c.ring[Slot(c, off)] =
                 IF (n + 1) + off \in W \ c.spillover THEN (n + 1) + off ELSE None
    <3>1. CASE off < L - 1
      <4>1. off + 1 \in 0..(L - 1) /\ (n + 1) + off = n + (off + 1)
        BY <3>1, <2>1
      <4>2. b.ring[Slot(b, off + 1)] = IF n + (off + 1) \in W THEN n + (off + 1) ELSE None
        BY <4>1 DEF Window
      <4>3. n + (off + 1) \notin b.spillover
        BY <3>1, <2>1 DEF Window
      <4>4. Slot(b, off + 1) \in 1..L
        BY <1>1, <4>1, SlotOf DEF Offsets
      <4>5. c.ring[Slot(c, off)] = b.ring[Slot(b, off + 1)]
        BY <3>1, <4>4, <2>3, <2>6, <2>8
      <4> QED  BY <4>1, <4>2, <4>3, <4>5, <2>6
    <3>2. CASE off = L - 1
      <4>1. c.ring[Slot(c, off)] = None
        BY <3>2, <2>3, <2>6, <2>8
      <4>2. (n + 1) + off = n + L
        <5> HIDE DEF L
        <5> QED  BY <3>2, <2>1
      <4>3. n + L \in W => n + L \in c.spillover
        BY <2>1, <2>6 DEF Window
      <4> QED  BY <4>1, <4>2, <4>3
    <3> QED  BY <3>1, <3>2, <2>1
  <2>10. \A q \in W : q >= n + 1
    BY <1>1 DEF Window
  <2>11. \A q \in W \ c.spillover : q < (n + 1) + Len(c.ring)
    <3> SUFFICES ASSUME NEW q \in W, q \notin c.spillover PROVE q < (n + 1) + Len(c.ring)
      OBVIOUS
    <3>1. q \in Nat /\ ~(q >= n + L)
      BY <1>1, <2>6 DEF Window
    <3> HIDE DEF L
    <3> QED  BY <2>1, <2>6, <3>1
  <2>12. c.spillover \subseteq W /\ (c.spillover # {} => Len(c.ring) = RingLimit)
    BY <2>6 DEF Window
  <2>13. Loose(c, n + 1, W)
    BY <2>6, <2>7, <2>9, <2>10, <2>11, <2>12 DEF Loose
  <2>14. Window(Refill(c, n + 1), n + 1, W)
    BY <2>13, RefillWindow
  <2> QED  BY <2>5, <2>14, ResetRepresents
<1> QED  BY <1>2, <1>3

-----------------------------------------------------------------------------
(* The loop of drain_ready.                                                *)

\* A state of the loop.
Drain == [b : Buffer, n : Nat \ {0}, out : Seq(Nat)]

\* The loop, which started to drain W at n, is after k rounds: it has released the
\* numbers from n up to where it is, and has stopped only where one is missing.
AfterRounds(st, n, W, k) ==
  /\ st \in Drain /\ st.n \in n..(n + k)
  /\ Len(st.out) = st.n - n
  /\ \A i \in 1..Len(st.out) : st.out[i] = n + i - 1
  /\ n..(st.n - 1) \subseteq W
  /\ Represents(st.b, st.n, W \ (n..(st.n - 1)))
  /\ st.n < n + k => st.n \notin W

\* One round.
LEMMA DrainOneStep ==
  ASSUME NEW st \in Drain, NEW V \in SUBSET Seqs, Represents(st.b, st.n, V)
  PROVE  IF st.n \in V
         THEN /\ DrainOne(st) \in Drain
              /\ DrainOne(st).n = st.n + 1 /\ DrainOne(st).out = Append(st.out, st.n)
              /\ Represents(DrainOne(st).b, st.n + 1, V \ {st.n})
         ELSE /\ DrainOne(st) \in Drain
              /\ DrainOne(st).n = st.n /\ DrainOne(st).out = st.out
              /\ Represents(DrainOne(st).b, st.n, V)
<1> DEFINE n == st.n
           r == Refill(st.b, n)
           m == r.ring[r.head + 1]
           c == [r EXCEPT !.ring[r.head + 1] = None]
<1>1. n \in Nat \ {0} /\ st.b \in Buffer /\ st.out \in Seq(Nat) /\ Window(st.b, n, V)
  BY DEF Drain, Represents
<1>2. CASE st.b.ring = <<>>
  <2>1. DrainOne(st) = st /\ V = {}
    BY <1>2 DEF DrainOne, Represents, Window
  <2> QED  BY <2>1
<1>3. CASE st.b.ring # <<>>
  <2>1. Window(r, n, V) /\ r.ring # <<>>
    BY <1>1, <1>3, WindowLoose, RefillWindow
  <2>2. DrainOne(st) = IF m = None THEN [st EXCEPT !.b = r]
                       ELSE [n |-> n + 1, out |-> Append(st.out, m), b |-> Advance(c, n + 1)]
    BY <1>3 DEF DrainOne
  <2> HIDE DEF r, n
  <2>3. r \in Buffer /\ Shape(r) /\ Len(r.ring) \in Nat \ {0} /\ r.head \in 0..(Len(r.ring) - 1)
        /\ r.ring \in Ring
    BY <2>1 DEF Window, Shape, Buffer, Ring
  <2>4. Slot(r, 0) = r.head + 1
    <3>1. Slot(r, 0) = IF r.head + 0 < Len(r.ring) THEN r.head + 0 + 1
                                                  ELSE r.head + 0 + 1 - Len(r.ring)
      BY <2>3, SlotOf DEF Offsets
    <3> QED  BY <2>3, <3>1
  <2>5. m = IF n \in V THEN n ELSE None
    <3>1. r.ring[Slot(r, 0)] = IF n + 0 \in V THEN n + 0 ELSE None
      BY <2>1, <2>3 DEF Window
    <3> QED  BY <1>1, <2>4, <3>1
  <2> HIDE DEF m
  <2>6. CASE n \notin V
    <3>1. DrainOne(st) = [st EXCEPT !.b = r]
      BY <2>2, <2>5, <2>6
    <3>2. V # {}
      BY <1>3 DEF Represents
    <3>3. Represents(r, n, V)
      BY <2>1, <3>2 DEF Represents
    <3>4. DrainOne(st) \in Drain /\ DrainOne(st).n = n /\ DrainOne(st).out = st.out
          /\ DrainOne(st).b = r
      BY <3>1, <2>3 DEF Drain, n
    <3> QED  BY <2>6, <3>3, <3>4 DEF n
  <2>7. CASE n \in V
    <3>1. DrainOne(st) = [n |-> n + 1, out |-> Append(st.out, n), b |-> Advance(c, n + 1)]
      BY <2>2, <2>5, <2>7, <1>1 DEF None
    <3>2. Window(c, n, V \ {n})
      <4> DEFINE q == [r.ring EXCEPT ![r.head + 1] = None]
      <4>1. c = [ring |-> q, head |-> r.head, spillover |-> r.spillover]
        <5>1. c = [r EXCEPT !.ring = q]
          OBVIOUS
        <5> HIDE DEF c, q
        <5> QED  BY <2>3, <5>1 DEF Buffer
      <4>2. q \in Ring /\ Len(q) = Len(r.ring) /\ q[r.head + 1] = None /\ q # <<>>
            /\ \A i \in 1..Len(r.ring) : i # r.head + 1 => q[i] = r.ring[i]
        BY <2>3 DEF Ring
      <4> HIDE DEF q, c
      <4>3. c.ring = q /\ c.head = r.head /\ c.spillover = r.spillover /\ c \in Buffer
        BY <2>3, <4>1, <4>2 DEF Buffer
      <4>4. Shape(c)
        BY <2>3, <4>2, <4>3 DEF Shape
      <4>5. \A off : Slot(c, off) = Slot(r, off)
        BY <4>2, <4>3, SameSlots
      <4>6. ASSUME NEW off \in 0..(Len(r.ring) - 1)
            PROVE  c.ring[Slot(c, off)] = IF n + off \in V \ {n} THEN n + off ELSE None
        <5>1. CASE off = 0
          BY <5>1, <2>4, <4>2, <4>3, <4>5, <1>1
        <5>2. CASE off # 0
          <6>1. Slot(r, off) # Slot(r, 0) /\ Slot(r, off) \in 1..Len(r.ring)
            BY <5>2, <2>3, SlotInjective, SlotOf DEF Offsets
          <6>2. c.ring[Slot(c, off)] = r.ring[Slot(r, off)]
            BY <6>1, <2>4, <4>2, <4>3, <4>5
          <6>3. n + off # n
            BY <5>2, <1>1
          <6> QED  BY <6>2, <6>3, <2>1 DEF Window
        <5> QED  BY <5>1, <5>2
      <4>7. r.spillover = {x \in V : x >= n + Len(r.ring)}
            /\ (r.spillover # {} => Len(r.ring) = RingLimit)
            /\ \A x \in V : x >= n
        BY <2>1 DEF Window
      <4>8. ~(n >= n + Len(r.ring))
        BY <1>1, <2>3
      <4>9. r.spillover = {x \in V \ {n} : x >= n + Len(r.ring)}
        BY <4>7, <4>8
      <4> QED  BY <4>2, <4>3, <4>4, <4>6, <4>7, <4>9 DEF Window
    <3>3. Represents(Advance(c, n + 1), n + 1, V \ {n})
      BY <1>1, <3>2, AdvanceRepresents
    <3>4. Advance(c, n + 1) \in Buffer
      BY <3>3 DEF Represents, Window, Shape
    <3> HIDE DEF c
    <3>5. DrainOne(st) \in Drain /\ DrainOne(st).n = n + 1
          /\ DrainOne(st).out = Append(st.out, n) /\ DrainOne(st).b = Advance(c, n + 1)
      BY <1>1, <3>1, <3>4 DEF Drain
    <3> QED  BY <2>7, <3>3, <3>5 DEF n
  <2> QED  BY <2>6, <2>7
<1> QED  BY <1>2, <1>3

LEMMA RoundStep ==
  ASSUME NEW st, NEW n \in Nat \ {0}, NEW W \in SUBSET Seqs, NEW k \in Nat,
         AfterRounds(st, n, W, k)
  PROVE  AfterRounds(DrainOne(st), n, W, k + 1)
<1> DEFINE V == W \ (n..(st.n - 1))
           d == DrainOne(st)
<1>1. st \in Drain /\ st.n \in Nat /\ st.n >= n /\ st.n <= n + k /\ st.out \in Seq(Nat)
      /\ Len(st.out) = st.n - n /\ \A i \in 1..Len(st.out) : st.out[i] = n + i - 1
  BY DEF AfterRounds, Drain
<1>2. Represents(st.b, st.n, V) /\ V \in SUBSET Seqs /\ (st.n \in V <=> st.n \in W)
  BY <1>1 DEF AfterRounds
<1>3. CASE st.n \in W
  <2>1. /\ d \in Drain /\ d.n = st.n + 1 /\ d.out = Append(st.out, st.n)
        /\ Represents(d.b, st.n + 1, V \ {st.n})
    BY <1>1, <1>2, <1>3, DrainOneStep
  <2>2. V \ {st.n} = W \ (n..(d.n - 1)) /\ n..(d.n - 1) = n..(st.n - 1) \cup {st.n}
    BY <1>1, <2>1
  <2> HIDE DEF d, V
  <2>3. n..(d.n - 1) \subseteq W
    BY <1>3, <2>2 DEF AfterRounds
  <2>4. Len(d.out) = d.n - n /\ \A i \in 1..Len(d.out) : d.out[i] = n + i - 1
    <3>1. Len(d.out) = Len(st.out) + 1 /\ d.out[Len(st.out) + 1] = st.n
          /\ \A i \in 1..Len(st.out) : d.out[i] = st.out[i]
      BY <1>1, <2>1
    <3>2. Len(st.out) \in Nat /\ st.n = n + (Len(st.out) + 1) - 1
      BY <1>1
    <3>3. \A i \in 1..(Len(st.out) + 1) : i \in 1..Len(st.out) \/ i = Len(st.out) + 1
      BY <3>2
    <3>4. ASSUME NEW i \in 1..Len(d.out) PROVE d.out[i] = n + i - 1
      <4>1. CASE i \in 1..Len(st.out)
        BY <1>1, <3>1, <4>1
      <4>2. CASE i = Len(st.out) + 1
        BY <3>1, <3>2, <4>2
      <4> QED  BY <3>1, <3>3, <4>1, <4>2
    <3>5. Len(d.out) = d.n - n
      BY <1>1, <2>1, <3>1
    <3> QED  BY <3>4, <3>5
  <2>5. d.n \in n..(n + (k + 1)) /\ (d.n < n + (k + 1) => st.n < n + k)
    BY <1>1, <2>1
  <2>6. d.n < n + (k + 1) => d.n \notin W
    BY <1>3, <2>5 DEF AfterRounds
  <2> QED  BY <2>1, <2>2, <2>3, <2>4, <2>5, <2>6 DEF AfterRounds, d
<1>4. CASE st.n \notin W
  <2>1. /\ d \in Drain /\ d.n = st.n /\ d.out = st.out /\ Represents(d.b, st.n, V)
    BY <1>1, <1>2, <1>4, DrainOneStep
  <2> HIDE DEF d
  <2>2. d.n \in n..(n + (k + 1))
    BY <1>1, <2>1
  <2> QED  BY <1>1, <1>4, <2>1, <2>2 DEF AfterRounds, d
<1> QED  BY <1>3, <1>4

\* Rounds is well defined: it satisfies the equation that defines it.
Rounded(f, b, n, k) ==
  f = [i \in 0..k |-> IF i = 0 THEN [b |-> b, n |-> n, out |-> <<>>]
                      ELSE CHOOSE st \in {DrainOne(y) : y \in {f[i - 1]}} : TRUE]

LEMMA ChooseOne ==
  ASSUME NEW x PROVE (CHOOSE st \in {DrainOne(y) : y \in {x}} : TRUE) = DrainOne(x)
OBVIOUS

\* The least number principle, for sets.
LEMMA LeastOf ==
  ASSUME NEW S \in SUBSET Nat, S # {}
  PROVE  \E k \in S : \A j \in S : k <= j
<1> DEFINE R == OpToRel(<, Nat)
<1>1. IsWellFoundedOn(R, Nat)
  BY NatLessThanWellFounded
<1> HIDE DEF R
<1>2. PICK k \in S : \A j \in S : <<j, k>> \notin R
  BY <1>1, WFMin
<1>3. \A j \in S : ~(j < k)
  BY <1>2, Zenon DEF R, OpToRel
<1> QED  BY <1>2, <1>3

LEMMA RoundsExist ==
  ASSUME NEW b, NEW n, NEW k \in Nat
  PROVE  \E f : Rounded(f, b, n, k)
<1> DEFINE S == {j \in Nat : ~\E f : Rounded(f, b, n, j)}
<1> SUFFICES ASSUME S # {} PROVE FALSE
  OBVIOUS
<1>1. PICK j \in S : \A i \in S : j <= i
  BY LeastOf
<1>2. CASE j = 0
  <2> DEFINE f == [i \in 0..0 |-> [b |-> b, n |-> n, out |-> <<>>]]
  <2>1. Rounded(f, b, n, 0)
    BY DEF Rounded
  <2> QED  BY <1>1, <1>2, <2>1
<1>3. CASE j # 0
  <2>1. j - 1 \in Nat /\ j - 1 \notin S
    BY <1>1, <1>3
  <2>2. PICK f : Rounded(f, b, n, j - 1)
    BY <2>1
  <2> DEFINE g == [i \in 0..j |-> IF i <= j - 1 THEN f[i]
                                  ELSE CHOOSE st \in {DrainOne(y) : y \in {f[i - 1]}} : TRUE]
  <2>3. \A i \in 0..j : i # 0 => g[i - 1] = f[i - 1]
    BY <1>1
  <2>4. ASSUME NEW i \in 0..j
        PROVE  g[i] = IF i = 0 THEN [b |-> b, n |-> n, out |-> <<>>]
                      ELSE CHOOSE st \in {DrainOne(y) : y \in {g[i - 1]}} : TRUE
    <3>1. CASE i <= j - 1
      <4>1. g[i] = f[i] /\ i \in 0..(j - 1)
        BY <1>1, <3>1
      <4>2. f[i] = IF i = 0 THEN [b |-> b, n |-> n, out |-> <<>>]
                   ELSE CHOOSE st \in {DrainOne(y) : y \in {f[i - 1]}} : TRUE
        BY <2>2, <4>1 DEF Rounded
      <4> HIDE DEF g
      <4> QED  BY <2>3, <4>1, <4>2
    <3>2. CASE ~(i <= j - 1)
      <4>1. i # 0 /\ g[i] = CHOOSE st \in {DrainOne(y) : y \in {f[i - 1]}} : TRUE
        BY <1>1, <1>3, <3>2
      <4> HIDE DEF g
      <4> QED  BY <2>3, <4>1
    <3> QED  BY <3>1, <3>2
  <2>5. g = [i \in 0..j |-> g[i]]
    OBVIOUS
  <2> HIDE DEF g
  <2>6. Rounded(g, b, n, j)
    BY <2>4, <2>5 DEF Rounded
  <2> QED  BY <1>1, <2>6
<1> QED  BY <1>2, <1>3

LEMMA RoundsEquation ==
  ASSUME NEW b, NEW n
  PROVE  /\ Rounds(b, n)[0] = [b |-> b, n |-> n, out |-> <<>>]
         /\ \A k \in 1..MaxSeq : Rounds(b, n)[k] = DrainOne(Rounds(b, n)[k - 1])
<1>1. PICK f : Rounded(f, b, n, MaxSeq)
  BY RoundsExist, SequencedAssumption
<1>2. Rounded(Rounds(b, n), b, n, MaxSeq)
  BY <1>1 DEF Rounded, Rounds
<1> DEFINE g == Rounds(b, n)
<1> HIDE DEF g
<1>3. \A k \in 0..MaxSeq : g[k] = IF k = 0 THEN [b |-> b, n |-> n, out |-> <<>>]
                      ELSE CHOOSE st \in {DrainOne(y) : y \in {g[k - 1]}} : TRUE
  BY <1>2 DEF Rounded, g
<1>4. g[0] = [b |-> b, n |-> n, out |-> <<>>]
  BY <1>3, SequencedAssumption
<1>5. ASSUME NEW k \in 1..MaxSeq PROVE g[k] = DrainOne(g[k - 1])
  <2>1. g[k] = CHOOSE st \in {DrainOne(y) : y \in {g[k - 1]}} : TRUE
    BY <1>3, SequencedAssumption
  <2> QED  BY <2>1, ChooseOne
<1> QED  BY <1>4, <1>5 DEF g

\* drain_ready releases what waits in an unbroken run from n on, and no more.
LEMMA DrainedRun ==
  ASSUME NEW b, NEW n \in Nat \ {0}, NEW W \in SUBSET Seqs, Represents(b, n, W)
  PROVE  LET d == Drained(b, n)
         IN  /\ d \in Drain /\ d.n >= n /\ d.n \notin W /\ n..(d.n - 1) \subseteq W
             /\ Len(d.out) = d.n - n /\ \A i \in 1..Len(d.out) : d.out[i] = n + i - 1
             /\ Represents(d.b, d.n, W \ (n..(d.n - 1)))
<1> DEFINE g == Rounds(b, n)
           S == {k \in 0..MaxSeq : ~AfterRounds(g[k], n, W, k)}
<1>1. g[0] = [b |-> b, n |-> n, out |-> <<>>]
      /\ \A k \in 1..MaxSeq : g[k] = DrainOne(g[k - 1])
  BY RoundsEquation
<1> HIDE DEF g
<1>2. AfterRounds(g[0], n, W, 0)
  <2>1. g[0].b = b /\ g[0].n = n /\ g[0].out = <<>>
    BY <1>1
  <2>2. b \in Buffer
    BY DEF Represents, Window, Shape
  <2>3. g[0] \in Drain
    BY <1>1, <2>2 DEF Drain
  <2>4. W \ (n..(n - 1)) = W /\ n..(n - 1) = {}
    OBVIOUS
  <2>5. n \in n..(n + 0) /\ Len(<<>>) = n - n /\ 1..Len(<<>>) = {} /\ ~(n < n + 0)
    OBVIOUS
  <2>6. Represents(g[0].b, g[0].n, W \ (n..(g[0].n - 1)))
    BY <2>1, <2>4
  <2>7. n..(g[0].n - 1) \subseteq W /\ Len(g[0].out) = g[0].n - n
    BY <2>1, <2>4, <2>5
  <2>8. \A i \in 1..Len(g[0].out) : g[0].out[i] = n + i - 1
    BY <2>1, <2>5
  <2> QED  BY <2>1, <2>3, <2>5, <2>6, <2>7, <2>8 DEF AfterRounds
<1>3. S = {}
  <2> SUFFICES ASSUME S # {} PROVE FALSE
    OBVIOUS
  <2>1. PICK k \in S : \A j \in S : k <= j
    <3>1. S \subseteq Nat
      OBVIOUS
    <3> HIDE DEF S
    <3> QED  BY <3>1, LeastOf
  <2>2. k # 0
    BY <1>2, <2>1
  <2>3. k - 1 \in 0..MaxSeq /\ k \in 1..MaxSeq /\ (k - 1) + 1 = k /\ ~(k <= k - 1)
    BY <2>1, <2>2, SequencedAssumption
  <2>4. AfterRounds(g[k - 1], n, W, k - 1)
    BY <2>1, <2>3
  <2>5. AfterRounds(DrainOne(g[k - 1]), n, W, (k - 1) + 1)
    BY <2>3, <2>4, RoundStep
  <2> QED  BY <1>1, <2>1, <2>3, <2>5
<1>4. AfterRounds(g[MaxSeq], n, W, MaxSeq)
  BY <1>3, SequencedAssumption
<1> DEFINE d == g[MaxSeq]
<1>5. d = Drained(b, n)
  BY DEF Drained, g
<1> HIDE DEF d
<1>6. AfterRounds(d, n, W, MaxSeq)
  BY <1>4 DEF d
<1>7. d.n \notin W
  BY <1>6, SequencedAssumption DEF AfterRounds, Drain, Seqs
<1>8. d.n >= n
  BY <1>6, SequencedAssumption DEF AfterRounds
<1> QED  BY <1>5, <1>6, <1>7, <1>8 DEF AfterRounds

-----------------------------------------------------------------------------
(* The invariant.                                                          *)

\* The messages in a buffer.
Contents(b) == ({b.ring[i] : i \in DOMAIN b.ring} \ {None}) \cup b.spillover

\* The messages that are ready for a session, as numbers.
ReadySet(s) == {q \in Seqs : \E i \in DOMAIN ready : ready[i] = <<s, q>>}

Missing(s) == (1..lastSeq[s]) \ Found(s)

LEMMA BufferedContents ==
  /\ \A s \in Session : Buffered(s) = Contents(buffer[s])
  /\ \A s \in Session : Buffered(s)' = Contents(buffer'[s])
BY DEF Buffered, InRing, Contents

LEMMA RepresentsContents ==
  ASSUME NEW b, NEW n \in Nat \ {0}, NEW W \in SUBSET Seqs, Represents(b, n, W)
  PROVE  Contents(b) = W /\ b \in Buffer
BY InRingOf DEF Represents, Contents, Window, Shape

\* What a session's buffer has, in the types of the lemmas above.
LEMMA SessionBuffer ==
  ASSUME TypeRecv, NEW s \in Session
  PROVE  /\ seq[s] \in Nat \ {0} /\ buffer[s] \in Buffer
         /\ Contents(buffer[s]) \in SUBSET Seqs
<1>1. seq[s] \in Nat \ {0} /\ buffer[s] \in Buffer
  BY SequencedAssumption DEF TypeRecv
<1>2. buffer[s].ring \in Ring /\ buffer[s].spillover \subseteq Seqs
  BY <1>1 DEF Buffer
<1> QED  BY <1>1, <1>2 DEF Contents, Ring

\* A step that changes no buffer keeps what is in them.
LEMMA BuffersKept ==
  ASSUME Buffers, UNCHANGED <<seq, buffer>> PROVE Buffers'
BY BufferedContents DEF Buffers

\* Fewer messages can be missing, but no more, unless one is lost.
LEMMA MissingFinite ==
  ASSUME TypeRecv, NEW s \in Session
  PROVE  IsFiniteSet(Missing(s)) /\ Cardinality(Missing(s)) \in Nat
<1>1. IsFiniteSet(1..lastSeq[s])
  BY FS_Interval, SequencedAssumption DEF TypeRecv
<1>2. Missing(s) \subseteq 1..lastSeq[s]
  BY DEF Missing
<1> QED  BY <1>1, <1>2, FS_Subset, FS_CardinalityType

LEMMA NothingMore ==
  ASSUME TypeRecv, NothingDropped, lost' = lost,
         \A s \in Session : Missing(s)' \subseteq Missing(s)
  PROVE  NothingDropped'
<1> SUFFICES ASSUME NEW s \in Session PROVE Cardinality(Missing(s)') <= lost'
  BY DEF NothingDropped, Missing
<1>1. IsFiniteSet(Missing(s)) /\ Cardinality(Missing(s)) \in Nat
  BY MissingFinite
<1>2. Cardinality(Missing(s)') <= Cardinality(Missing(s)) /\ Cardinality(Missing(s)') \in Nat
  BY <1>1, FS_Subset, FS_CardinalityType
<1>3. Cardinality(Missing(s)) <= lost
  BY DEF NothingDropped, Missing
<1>4. lost \in Nat
  BY SequencedAssumption DEF TypeRecv
<1> QED  BY <1>1, <1>2, <1>3, <1>4

LEMMA FoundParts ==
  \A s \in Session :
    /\ Found(s) = {received[s][i] : i \in DOMAIN received[s]} \cup ReadySet(s)
                  \cup Buffered(s) \cup {q \in Seqs : <<s, q>> \in flight}
    /\ Found(s)' = {received'[s][i] : i \in DOMAIN received'[s]} \cup ReadySet(s)'
                  \cup Buffered(s)' \cup {q \in Seqs : <<s, q>> \in flight'}
BY DEF Found, ReadySet

\* What a step that leaves the receiver alone finds.
LEMMA FoundKept ==
  ASSUME UNCHANGED <<received, ready, buffer>>, NEW t \in Session, NEW q \in Found(t),
         <<t, q>> \notin flight \/ <<t, q>> \in flight'
  PROVE  q \in Found(t)'
<1>1. Buffered(t)' = Buffered(t) /\ ReadySet(t)' = ReadySet(t) /\ received' = received
  BY BufferedContents DEF ReadySet
<1>2. CASE q \in Seqs /\ <<t, q>> \in flight
  BY <1>2, FoundParts
<1>3. CASE ~(q \in Seqs /\ <<t, q>> \in flight)
  BY <1>1, <1>3, FoundParts
<1> QED  BY <1>2, <1>3

\* A number below the expected one was received or is ready.
LEMMA ReleasedFound ==
  ASSUME TypeRecv, Released, NEW s \in Session, NEW q \in Seqs, q < seq[s]
  PROVE  q \in {received[s][i] : i \in DOMAIN received[s]} \cup ReadySet(s)
<1>1. q \in Nat \ {0} /\ seq[s] \in Nat
  BY SequencedAssumption DEF TypeRecv, Seqs
<1>2. received[s] \in Seq(Seqs) /\ ready \in Seq(Message) /\ ReadyOf(s) \in Seq(Message)
  BY DEF TypeRecv, ReadyOf
<1>3. CASE q <= Len(received[s])
  <2>1. q \in DOMAIN received[s] /\ q \in 1..Len(received[s])
    BY <1>1, <1>2, <1>3
  <2> QED  BY <2>1 DEF Released
<1>4. CASE ~(q <= Len(received[s]))
  <2> DEFINE i == q - Len(received[s])
  <2>1. i \in 1..Len(ReadyOf(s)) /\ Len(received[s]) + i = q
    BY <1>1, <1>2, <1>4 DEF Released
  <2>2. ReadyOf(s) = ready
    BY <2>1 DEF ReadyOf
  <2>3. ready[i] = <<s, q>> /\ i \in DOMAIN ready
    BY <1>2, <2>1, <2>2 DEF Released
  <2> QED  BY <2>3 DEF ReadySet
<1> QED  BY <1>3, <1>4

LEMMA RecvInvInit == Init => RecvInv
<1> SUFFICES ASSUME Init PROVE RecvInv
  OBVIOUS
<1>1. Empty \in Buffer /\ Empty.ring = <<>> /\ Empty.spillover = {} /\ Shape(Empty)
  BY SequencedAssumption DEF Empty, Buffer, Ring, Shape
<1>2. TypeRecv
  BY <1>1, SequencedAssumption DEF Init, TypeRecv
<1>3. Buffers
  <2> SUFFICES ASSUME NEW s \in Session
               PROVE  Represents(buffer[s], seq[s], Buffered(s)) /\ seq[s] \notin Buffered(s)
    BY DEF Buffers
  <2>1. buffer[s] = Empty /\ seq[s] = 1
    BY DEF Init
  <2>2. Buffered(s) = {}
    BY <1>1, <2>1 DEF Buffered, InRing
  <2> QED  BY <1>1, <2>1, <2>2 DEF Represents, Window
<1>4. Released
  BY DEF Init, Released, ReadyOf
<1>5. NothingDropped
  <2> SUFFICES ASSUME NEW s \in Session PROVE Cardinality((1..lastSeq[s]) \ Found(s)) <= lost
    BY DEF NothingDropped
  <2>1. (1..lastSeq[s]) \ Found(s) = {}
    BY DEF Init
  <2> QED  BY <2>1, FS_EmptySet DEF Init
<1> QED  BY <1>2, <1>3, <1>4, <1>5 DEF RecvInv

LEMMA SendStep ==
  ASSUME RecvInv, NEW s \in Session, Send(s) PROVE RecvInv'
<1>1. TypeRecv'
  BY SequencedAssumption DEF RecvInv, TypeRecv, Send, Message, Seqs
<1>2. Buffers' /\ Released'
  BY BuffersKept DEF RecvInv, Send, Released, ReadyOf
<1>3. ASSUME NEW t \in Session PROVE Missing(t)' \subseteq Missing(t)
  <2>1. lastSeq[t] \in Nat /\ lastSeq[s] + 1 \in Seqs /\ lastSeq[s] \in Nat
    BY SequencedAssumption DEF RecvInv, TypeRecv, Send, Seqs
  <2>2. Found(t) \subseteq Found(t)'
    BY FoundKept DEF Send
  <2>3. CASE t = s
    <3>1. lastSeq'[s] = lastSeq[s] + 1 /\ lastSeq[s] + 1 \in Found(s)'
      BY <2>1, FoundParts DEF Send, RecvInv, TypeRecv
    <3> QED  BY <2>1, <2>2, <2>3, <3>1 DEF Missing
  <2>4. CASE t # s
    BY <2>2, <2>4 DEF Missing, Send, RecvInv, TypeRecv
  <2> QED  BY <2>3, <2>4
<1>4. NothingDropped'
  BY <1>3, NothingMore DEF RecvInv, Send
<1> QED  BY <1>1, <1>2, <1>4 DEF RecvInv

LEMMA LoseStep ==
  ASSUME RecvInv, NEW m \in Message, Lose(m) PROVE RecvInv'
<1>1. TypeRecv'
  BY SequencedAssumption DEF RecvInv, TypeRecv, Lose
<1>2. Buffers' /\ Released'
  BY BuffersKept DEF RecvInv, Lose, Released, ReadyOf
<1>3. NothingDropped'
  <2> SUFFICES ASSUME NEW t \in Session PROVE Cardinality(Missing(t)') <= lost'
    BY DEF NothingDropped, Missing
  <2>1. IsFiniteSet(Missing(t)) /\ Cardinality(Missing(t)) \in Nat
    BY MissingFinite DEF RecvInv
  <2>2. Missing(t)' \subseteq Missing(t) \cup {m[2]}
    <3> SUFFICES ASSUME NEW q \in Missing(t)', q # m[2] PROVE q \in Missing(t)
      OBVIOUS
    <3>1. q \in 1..lastSeq[t] /\ q \notin Found(t)'
      BY DEF Missing, Lose
    <3>2. Found(t) \subseteq Found(t)' \cup {m[2]}
      <4> SUFFICES ASSUME NEW x \in Found(t), x # m[2] PROVE x \in Found(t)'
        OBVIOUS
      <4>1. <<t, x>> # m
        OBVIOUS
      <4> QED  BY <4>1, FoundKept DEF Lose
    <3> QED  BY <3>1, <3>2 DEF Missing
  <2>3. /\ IsFiniteSet(Missing(t) \cup {m[2]})
        /\ Cardinality(Missing(t) \cup {m[2]}) <= Cardinality(Missing(t)) + 1
        /\ Cardinality(Missing(t) \cup {m[2]}) \in Nat
    <3>1. IsFiniteSet(Missing(t) \cup {m[2]})
          /\ Cardinality(Missing(t) \cup {m[2]}) = Cardinality(Missing(t))
                                                   + (IF m[2] \in Missing(t) THEN 0 ELSE 1)
      <4>1. m[2] \in Missing(t) => Missing(t) \cup {m[2]} = Missing(t)
        OBVIOUS
      <4>2. IsFiniteSet(Missing(t) \cup {m[2]})
        BY <2>1, FS_AddElement
      <4>3. m[2] \notin Missing(t) =>
              Cardinality(Missing(t) \cup {m[2]}) = Cardinality(Missing(t)) + 1
        BY <2>1, FS_AddElement
      <4> QED  BY <2>1, <4>1, <4>2, <4>3
    <3> QED  BY <2>1, <3>1
  <2>4. Cardinality(Missing(t)') <= Cardinality(Missing(t) \cup {m[2]})
        /\ Cardinality(Missing(t)') \in Nat
    BY <2>2, <2>3, FS_Subset, FS_CardinalityType
  <2>5. Cardinality(Missing(t)) <= lost /\ lost' = lost + 1 /\ lost \in Nat
    <3>1. NothingDropped /\ lost \in 0..MaxLost
      BY DEF RecvInv, TypeRecv
    <3>2. Cardinality(Missing(t)) <= lost
      BY <3>1 DEF NothingDropped, Missing
    <3> QED  BY <3>1, <3>2, SequencedAssumption DEF Lose
  <2> QED  BY <2>1, <2>3, <2>4, <2>5
<1> QED  BY <1>1, <1>2, <1>3 DEF RecvInv

LEMMA ArrivesFlight ==
  ASSUME RecvInv, NEW m \in Message, NEW again \in BOOLEAN, Arrives(m, again)
  PROVE  /\ flight' \subseteq flight /\ flight \subseteq flight' \cup {m}
         /\ copies' \in 0..MaxCopies /\ ready = <<>>
BY SequencedAssumption DEF Arrives, RecvInv, TypeRecv

LEMMA AdmitStaleStep ==
  ASSUME RecvInv, NEW m \in Message, NEW again \in BOOLEAN, AdmitStale(m, again)
  PROVE  RecvInv'
<1>1. /\ flight' \subseteq flight /\ flight \subseteq flight' \cup {m}
      /\ copies' \in 0..MaxCopies
  BY ArrivesFlight DEF AdmitStale
<1>2. TypeRecv'
  BY <1>1 DEF RecvInv, TypeRecv, AdmitStale
<1>3. Buffers' /\ Released'
  BY BuffersKept DEF RecvInv, AdmitStale, Released, ReadyOf
<1>4. ASSUME NEW t \in Session PROVE Missing(t)' \subseteq Missing(t)
  <2>1. m[1] \in Session /\ m[2] \in Seqs /\ m = <<m[1], m[2]>>
    BY DEF Message
  <2>2. m[2] \in {received[m[1]][i] : i \in DOMAIN received[m[1]]} \cup ReadySet(m[1])
    BY <2>1, ReleasedFound DEF RecvInv, AdmitStale, IsStale
  <2>3. Found(t) \subseteq Found(t)'
    <3> SUFFICES ASSUME NEW q \in Found(t) PROVE q \in Found(t)'
      OBVIOUS
    <3>1. CASE <<t, q>> = m
      <4>1. t = m[1] /\ q = m[2]
        BY <3>1
      <4>2. received' = received /\ ReadySet(t)' = ReadySet(t)
        BY DEF AdmitStale, ReadySet
      <4>3. q \in {received'[t][i] : i \in DOMAIN received'[t]} \cup ReadySet(t)'
        BY <2>2, <4>1, <4>2
      <4> QED  BY <4>3, FoundParts
    <3>2. CASE <<t, q>> # m
      BY <3>2, <1>1, FoundKept DEF AdmitStale
    <3> QED  BY <3>1, <3>2
  <2> QED  BY <2>3 DEF Missing, AdmitStale
<1>5. NothingDropped'
  BY <1>4, NothingMore DEF RecvInv, AdmitStale
<1> QED  BY <1>2, <1>3, <1>5 DEF RecvInv

LEMMA AdmitEarlyStep ==
  ASSUME RecvInv, NEW m \in Message, NEW again \in BOOLEAN, AdmitEarly(m, again)
  PROVE  /\ RecvInv'
         /\ Buffered(m[1])' = Buffered(m[1]) \cup {m[2]}
         /\ \A t \in Session : t # m[1] => Buffered(t)' = Buffered(t)
<1> DEFINE s == m[1]
           q == m[2]
           b == Insert(buffer[s], seq[s], q)
<1>1. /\ flight' \subseteq flight /\ flight \subseteq flight' \cup {m}
      /\ copies' \in 0..MaxCopies
  BY ArrivesFlight DEF AdmitEarly
<1>2. s \in Session /\ q \in Seqs /\ m = <<s, q>>
  BY DEF Message
<1>3. seq[s] \in Nat \ {0} /\ q \in Nat /\ q > seq[s]
  BY <1>2, SessionBuffer, SequencedAssumption DEF AdmitEarly, IsEarly, RecvInv, Seqs
<1>4. Buffered(s) \in SUBSET Seqs /\ Represents(buffer[s], seq[s], Buffered(s))
      /\ seq[s] \notin Buffered(s)
  BY <1>2, SessionBuffer, BufferedContents DEF RecvInv, Buffers
<1>5. Represents(b, seq[s], Buffered(s) \cup {q})
  BY <1>2, <1>3, <1>4, InsertRepresents
<1>6. Contents(b) = Buffered(s) \cup {q} /\ b \in Buffer
  BY <1>2, <1>3, <1>4, <1>5, RepresentsContents
<1> HIDE DEF b
<1>7. buffer' = [buffer EXCEPT ![s] = b] /\ buffer \in [Session -> Buffer]
  BY DEF AdmitEarly, RecvInv, TypeRecv, b
<1>8. buffer'[s] = b /\ \A t \in Session : t # s => buffer'[t] = buffer[t]
  BY <1>2, <1>7
<1>9. Buffered(s)' = Buffered(s) \cup {q}
      /\ \A t \in Session : t # s => Buffered(t)' = Buffered(t)
  BY <1>2, <1>6, <1>8, BufferedContents
<1>10. TypeRecv'
  BY <1>1, <1>2, <1>6, <1>7 DEF RecvInv, TypeRecv, AdmitEarly
<1>11. Released'
  BY DEF RecvInv, AdmitEarly, Released, ReadyOf
<1>12. Buffers'
  <2> SUFFICES ASSUME NEW t \in Session
               PROVE  Represents(buffer'[t], seq'[t], Buffered(t)') /\ seq'[t] \notin Buffered(t)'
    BY DEF Buffers
  <2>1. seq' = seq
    BY DEF AdmitEarly
  <2>2. CASE t = s
    BY <2>1, <2>2, <1>3, <1>4, <1>5, <1>8, <1>9
  <2>3. CASE t # s
    BY <2>1, <2>3, <1>8, <1>9 DEF RecvInv, Buffers
  <2> QED  BY <2>2, <2>3
<1>13. ASSUME NEW t \in Session PROVE Missing(t)' \subseteq Missing(t)
  <2>1. Buffered(t) \subseteq Buffered(t)'
    BY <1>9
  <2>2. Found(t) \subseteq Found(t)'
    <3> SUFFICES ASSUME NEW x \in Found(t) PROVE x \in Found(t)'
      OBVIOUS
    <3>1. CASE x \in Seqs /\ <<t, x>> \in flight
      <4>1. CASE <<t, x>> = m
        BY <4>1, <1>2, <1>9, FoundParts
      <4>2. CASE <<t, x>> # m
        BY <3>1, <4>2, <1>1, FoundParts
      <4> QED  BY <4>1, <4>2
    <3>2. CASE ~(x \in Seqs /\ <<t, x>> \in flight)
      BY <3>2, <2>1, FoundParts DEF AdmitEarly, ReadySet
    <3> QED  BY <3>1, <3>2
  <2> QED  BY <2>2 DEF Missing, AdmitEarly
<1>14. NothingDropped'
  BY <1>13, NothingMore DEF RecvInv, AdmitEarly
<1> QED  BY <1>9, <1>10, <1>11, <1>12, <1>14 DEF RecvInv

\* A sequence with one more element, as indices.
LEMMA Appended ==
  ASSUME NEW S, NEW u \in Seq(S), NEW x \in S
  PROVE  /\ Append(u, x) \in Seq(S) /\ Len(u) \in Nat /\ Len(Append(u, x)) = Len(u) + 1
         /\ DOMAIN Append(u, x) = 1..(Len(u) + 1) /\ DOMAIN u = 1..Len(u)
         /\ \A i \in 1..Len(u) : i \in 1..(Len(u) + 1) /\ Append(u, x)[i] = u[i]
         /\ Len(u) + 1 \in 1..(Len(u) + 1) /\ Append(u, x)[Len(u) + 1] = x
OBVIOUS

\* A run of consecutive numbers, as indices.
LEMMA RunOf ==
  ASSUME NEW out, NEW e \in Nat, NEW n \in Nat, n >= e, NEW len, len = n - e,
         \A i \in 1..len : out[i] = e + i - 1
  PROVE  /\ len \in Nat /\ \A i \in 1..len : out[i] \in e..(n - 1)
         /\ \A x \in e..(n - 1) : x - e + 1 \in 1..len /\ out[x - e + 1] = x
<1>1. len \in Nat /\ \A i \in 1..len : e + i - 1 \in e..(n - 1)
  OBVIOUS
<1>2. ASSUME NEW x \in e..(n - 1)
      PROVE  x - e + 1 \in 1..len /\ e + (x - e + 1) - 1 = x
  OBVIOUS
<1> QED  BY <1>1, <1>2

\* The numbers 1..k, with one more.
LEMMA CountedOn ==
  ASSUME NEW S, NEW u \in Seq(S), \A i \in 1..Len(u) : u[i] = i, Len(u) + 1 \in S
  PROVE  \A i \in 1..Len(Append(u, Len(u) + 1)) : Append(u, Len(u) + 1)[i] = i
<1> DEFINE v == Append(u, Len(u) + 1)
<1>1. Len(v) = Len(u) + 1 /\ v[Len(u) + 1] = Len(u) + 1 /\ Len(u) \in Nat
      /\ \A i \in 1..Len(u) : v[i] = u[i]
  BY Appended
<1> HIDE DEF v
<1>2. \A i \in 1..(Len(u) + 1) : i \in 1..Len(u) \/ i = Len(u) + 1
  BY <1>1
<1>3. \A i \in 1..Len(v) : v[i] = i
  BY <1>1, <1>2
<1> QED  BY <1>3 DEF v

\* What admit does with the expected message: it and the run that waited behind it
\* are released, up to the next number that is not there.
LEMMA AdmitNextStep ==
  ASSUME RecvInv, NEW m \in Message, NEW again \in BOOLEAN, AdmitNext(m, again)
  PROVE  /\ RecvInv'
         /\ LET s == m[1]
                n == seq'[s]
            IN  /\ m[2] = seq[s] /\ n > seq[s] /\ n \notin Buffered(s)
                /\ (seq[s] + 1)..(n - 1) \subseteq Buffered(s)
                /\ Buffered(s)' = Buffered(s) \ ((seq[s] + 1)..(n - 1))
                /\ \A t \in Session : t # s => seq'[t] = seq[t] /\ Buffered(t)' = Buffered(t)
<1> DEFINE s == m[1]
           q == m[2]
           e == seq[s] + 1
           W == Buffered(s)
           b == Advance(buffer[s], e)
           d == Drained(b, e)
<1>1. /\ flight' \subseteq flight /\ flight \subseteq flight' \cup {m}
      /\ copies' \in 0..MaxCopies /\ ready = <<>>
  BY ArrivesFlight DEF AdmitNext
<1>2. s \in Session /\ q \in Seqs /\ m = <<s, q>> /\ q \in Nat
  BY SequencedAssumption DEF Message, Seqs
<1>3. seq[s] \in Nat \ {0} /\ q = seq[s] /\ e \in Nat \ {0} /\ e <= MaxSeq + 1
  BY <1>2, SessionBuffer, SequencedAssumption DEF AdmitNext, IsEarly, IsStale, RecvInv, Seqs
<1>4. W \in SUBSET Seqs /\ Represents(buffer[s], seq[s], W) /\ seq[s] \notin W
  BY <1>2, SessionBuffer, BufferedContents DEF RecvInv, Buffers
<1>5. Represents(b, e, W)
  BY <1>3, <1>4, AdvanceRepresents DEF Represents
<1>6. AdmitNext(m, again) =>
        /\ seq' = [seq EXCEPT ![s] = d.n] /\ buffer' = [buffer EXCEPT ![s] = d.b]
        /\ ready' = [i \in DOMAIN d.out |-> <<s, d.out[i]>>]
        /\ received' = [received EXCEPT ![s] = Append(@, q)]
        /\ UNCHANGED <<lastSeq, lost>>
  BY DEF AdmitNext
<1> HIDE DEF b, W
<1>7. /\ d \in Drain /\ d.n >= e /\ d.n \notin W /\ e..(d.n - 1) \subseteq W
      /\ Len(d.out) = d.n - e /\ \A i \in 1..Len(d.out) : d.out[i] = e + i - 1
      /\ Represents(d.b, d.n, W \ (e..(d.n - 1)))
  BY <1>3, <1>4, <1>5, DrainedRun
<1> HIDE DEF d
<1>8. /\ seq' = [seq EXCEPT ![s] = d.n] /\ buffer' = [buffer EXCEPT ![s] = d.b]
      /\ ready' = [i \in DOMAIN d.out |-> <<s, d.out[i]>>]
      /\ received' = [received EXCEPT ![s] = Append(@, q)]
      /\ UNCHANGED <<lastSeq, lost>>
  BY <1>6
<1>9. d.n \in Nat \ {0} /\ d.b \in Buffer /\ d.out \in Seq(Nat) /\ DOMAIN d.out = 1..Len(d.out)
  BY <1>7 DEF Drain
<1>10. d.n \in 1..(MaxSeq + 1)
  <2>1. CASE d.n = e
    BY <2>1, <1>3, <1>9
  <2>2. CASE d.n # e
    <3>1. d.n - 1 \in e..(d.n - 1)
      BY <2>2, <1>3, <1>7, <1>9
    <3>2. d.n - 1 \in Seqs
      BY <3>1, <1>4, <1>7
    <3> QED  BY <3>2, <1>9, SequencedAssumption DEF Seqs
  <2> QED  BY <2>1, <2>2
<1>11. Contents(d.b) = W \ (e..(d.n - 1))
  BY <1>4, <1>7, <1>9, RepresentsContents
<1>12. buffer \in [Session -> Buffer] /\ seq \in [Session -> 1..(MaxSeq + 1)]
       /\ received \in [Session -> Seq(Seqs)]
  BY DEF RecvInv, TypeRecv
<1>13. /\ buffer'[s] = d.b /\ seq'[s] = d.n /\ received'[s] = Append(received[s], q)
       /\ \A t \in Session : t # s => /\ buffer'[t] = buffer[t] /\ seq'[t] = seq[t]
                                      /\ received'[t] = received[t]
  BY <1>2, <1>8, <1>12
<1>14. Buffered(s)' = W \ (e..(d.n - 1))
       /\ \A t \in Session : t # s => Buffered(t)' = Buffered(t)
  BY <1>2, <1>11, <1>13, BufferedContents
<1> HIDE DEF e
<1>run. /\ Len(d.out) \in Nat /\ \A i \in 1..Len(d.out) : d.out[i] \in e..(d.n - 1)
      /\ \A x \in e..(d.n - 1) : x - e + 1 \in 1..Len(d.out) /\ d.out[x - e + 1] = x
  <2> DEFINE top == d.n
             out == d.out
             len == Len(d.out)
  <2>1. /\ e \in Nat /\ top \in Nat /\ top >= e /\ len = top - e
        /\ \A i \in 1..len : out[i] = e + i - 1
    BY <1>3, <1>7, <1>9
  <2> HIDE DEF top, out, len
  <2>2. /\ len \in Nat /\ \A i \in 1..len : out[i] \in e..(top - 1)
        /\ \A x \in e..(top - 1) : x - e + 1 \in 1..len /\ out[x - e + 1] = x
    BY <2>1, RunOf
  <2> QED  BY <2>2 DEF top, out, len
<1>15. \A i \in 1..Len(d.out) : d.out[i] \in W /\ d.out[i] \in Seqs
  BY <1>run, <1>4, <1>7
<1>16. ready' \in Seq(Message) /\ Len(ready') = Len(d.out) /\ DOMAIN ready' = 1..Len(d.out)
       /\ \A i \in 1..Len(d.out) : ready'[i] = <<s, d.out[i]>>
  <2>1. ready' \in [1..Len(d.out) -> Message]
    BY <1>2, <1>8, <1>9, <1>15 DEF Message
  <2>2. Len(d.out) \in Nat
    BY <1>9
  <2>3. \A i \in 1..Len(d.out) : ready'[i] = <<s, d.out[i]>>
    BY <1>8, <1>9
  <2> QED  BY <2>1, <2>2, <2>3
<1>17. TypeRecv'
  <2>1. received' \in [Session -> Seq(Seqs)]
    BY <1>2, <1>8, <1>12
  <2>2. seq' \in [Session -> 1..(MaxSeq + 1)] /\ buffer' \in [Session -> Buffer]
    BY <1>2, <1>8, <1>9, <1>10, <1>12
  <2>3. flight' \subseteq Message
    BY <1>1 DEF RecvInv, TypeRecv
  <2> QED  BY <1>1, <1>8, <1>16, <2>1, <2>2, <2>3 DEF RecvInv, TypeRecv
<1>18. Buffers'
  <2> SUFFICES ASSUME NEW t \in Session
               PROVE  Represents(buffer'[t], seq'[t], Buffered(t)') /\ seq'[t] \notin Buffered(t)'
    BY DEF Buffers
  <2>1. CASE t = s
    BY <2>1, <1>7, <1>13, <1>14
  <2>2. CASE t # s
    BY <2>2, <1>13, <1>14 DEF RecvInv, Buffers
  <2> QED  BY <2>1, <2>2
<1>19. Released'
  <2> SUFFICES ASSUME NEW t \in Session
               PROVE  /\ \A i \in 1..Len(received'[t]) : received'[t][i] = i
                      /\ Len(received'[t]) + Len(ReadyOf(t)') = seq'[t] - 1
                      /\ \A i \in 1..Len(ReadyOf(t)') :
                           ReadyOf(t)'[i] = <<t, Len(received'[t]) + i>>
    BY DEF Released
  <2>1. ReadyOf(t) = <<>> /\ received[t] \in Seq(Seqs)
    BY <1>1, <1>12 DEF ReadyOf
  <2>2. (\A i \in 1..Len(received[t]) : received[t][i] = i) /\ Len(received[t]) = seq[t] - 1
    BY <2>1, <1>12 DEF RecvInv, Released
  <2>3. CASE t = s
    <3>0. q = Len(received[s]) + 1 /\ q \in Seqs /\ received[s] \in Seq(Seqs)
      <4>1. Len(received[s]) = seq[s] - 1
        BY <2>2, <2>3
      <4>2. Len(received[s]) + 1 = seq[s]
        BY <4>1, <1>3
      <4> QED  BY <4>2, <2>1, <2>3, <1>2, <1>3
    <3>1. Len(received'[s]) = seq[s] /\ \A i \in 1..Len(received'[s]) : received'[s][i] = i
      <4>1. Len(received'[s]) = Len(received[s]) + 1
        BY <3>0, <1>13, Appended
      <4>2. \A i \in 1..Len(received'[s]) : received'[s][i] = i
        BY <3>0, <2>2, <2>3, <1>13, CountedOn
      <4> QED  BY <4>1, <4>2, <3>0, <1>3
    <3>2. ReadyOf(s)' = ready'
      BY <1>9, <1>16 DEF ReadyOf
    <3>3. Len(received'[s]) + Len(ready') = seq'[s] - 1
      <4>1. Len(ready') = d.n - (seq[s] + 1) /\ seq'[s] = d.n
        BY <1>7, <1>13, <1>16 DEF e
      <4> QED  BY <4>1, <3>1, <1>3, <1>9
    <3>4. \A i \in 1..Len(ready') : ready'[i] = <<s, Len(received'[s]) + i>>
      <4> SUFFICES ASSUME NEW i \in 1..Len(d.out) PROVE ready'[i] = <<s, seq[s] + i>>
        BY <3>1, <1>16
      <4>1. d.out[i] = (seq[s] + 1) + i - 1
        BY <1>7 DEF e
      <4>2. d.out[i] = seq[s] + i
        BY <4>1, <1>3, <1>run
      <4> QED  BY <4>2, <1>16
    <3> QED  BY <2>3, <3>1, <3>2, <3>3, <3>4
  <2>4. CASE t # s
    <3>1. ReadyOf(t)' = <<>>
      BY <2>4, <1>9, <1>16 DEF ReadyOf
    <3>2. 1..Len(ReadyOf(t)') = {} /\ Len(ReadyOf(t)') = 0
      BY <3>1
    <3> QED  BY <2>1, <2>2, <2>4, <3>2, <1>12, <1>13
  <2> QED  BY <2>3, <2>4
<1>20. ASSUME NEW t \in Session PROVE Missing(t)' \subseteq Missing(t)
  <2>1. Found(t) \subseteq Found(t)'
    <3> SUFFICES ASSUME NEW x \in Found(t) PROVE x \in Found(t)'
      OBVIOUS
    <3>1. CASE x \in {received[t][i] : i \in DOMAIN received[t]}
      <4>1. PICK i \in DOMAIN received[t] : received[t][i] = x
        BY <3>1
      <4>2. i \in DOMAIN received'[t] /\ received'[t][i] = x
        <5>1. received[t] \in Seq(Seqs) /\ q \in Seqs
          BY <1>2, <1>12
        <5>2. CASE t = s
          BY <4>1, <5>1, <5>2, <1>13, Appended
        <5>3. CASE t # s
          BY <4>1, <5>3, <1>13
        <5> QED  BY <5>2, <5>3
      <4> QED  BY <4>2, FoundParts
    <3>2. CASE x \in Buffered(t)
      <4>1. CASE t = s /\ x \in e..(d.n - 1)
        <5> DEFINE i == x - e + 1
        <5>1. i \in 1..Len(d.out) /\ d.out[i] = x
          BY <4>1, <1>run
        <5> HIDE DEF i
        <5>2. ready'[i] = <<t, x>> /\ i \in DOMAIN ready' /\ x \in Seqs
          BY <4>1, <5>1, <1>15, <1>16
        <5>3. x \in ReadySet(t)'
          BY <5>2 DEF ReadySet
        <5> QED  BY <5>3, FoundParts
      <4>2. CASE ~(t = s /\ x \in e..(d.n - 1))
        <5>1. x \in Buffered(t)'
          BY <3>2, <4>2, <1>14 DEF W
        <5> QED  BY <5>1, FoundParts
      <4> QED  BY <4>1, <4>2
    <3>3. CASE x \in Seqs /\ <<t, x>> \in flight
      <4>1. CASE <<t, x>> = m
        <5>1. t = s /\ x = q
          BY <4>1, <1>2
        <5>2. Len(received[s]) + 1 \in DOMAIN received'[s]
              /\ received'[s][Len(received[s]) + 1] = q
          <6>1. received[s] \in Seq(Seqs)
            BY <1>2, <1>12
          <6> QED  BY <6>1, <1>2, <1>13, Appended
        <5>3. x \in {received'[t][i] : i \in DOMAIN received'[t]}
          BY <5>1, <5>2
        <5> QED  BY <5>3, FoundParts
      <4>2. CASE <<t, x>> # m
        BY <3>3, <4>2, <1>1, FoundParts
      <4> QED  BY <4>1, <4>2
    <3>4. x \notin ReadySet(t)
      BY <1>1 DEF ReadySet
    <3> QED  BY <3>1, <3>2, <3>3, <3>4, FoundParts
  <2> QED  BY <2>1, <1>8 DEF Missing
<1>21. NothingDropped'
  BY <1>8, <1>20, NothingMore DEF RecvInv
<1>22. RecvInv'
  BY <1>17, <1>18, <1>19, <1>21 DEF RecvInv
<1>23. seq'[s] > seq[s]
  BY <1>3, <1>7, <1>9, <1>13 DEF e
<1> QED  BY <1>3, <1>7, <1>13, <1>14, <1>22, <1>23 DEF W, e

\* recv returns the first message that is ready.
LEMMA PopReadyStep ==
  ASSUME RecvInv, PopReady PROVE RecvInv'
<1>1. ready \in Seq(Message) /\ ready # <<>> /\ Len(ready) \in Nat \ {0}
      /\ received \in [Session -> Seq(Seqs)] /\ seq \in [Session -> 1..(MaxSeq + 1)]
  BY DEF RecvInv, TypeRecv, PopReady
<1>2. ready[1] \in Message /\ Head(ready) = ready[1]
  BY <1>1
<1>3. PICK s \in Session, q \in Seqs : ready[1] = <<s, q>>
  BY <1>2 DEF Message
<1>4. ready' = Tail(ready) /\ received' = [received EXCEPT ![s] = Append(@, q)]
  <2>1. Head(ready)[1] = s /\ Head(ready)[2] = q
    BY <1>2, <1>3
  <2> QED  BY <2>1 DEF PopReady
<1>5. ready' \in Seq(Message) /\ Len(ready') = Len(ready) - 1
      /\ \A i \in 1..(Len(ready) - 1) : ready'[i] = ready[i + 1]
  BY <1>1, <1>4
<1>6. received'[s] = Append(received[s], q)
      /\ \A t \in Session : t # s => received'[t] = received[t]
  BY <1>1, <1>3, <1>4
<1>7. received' \in [Session -> Seq(Seqs)]
  BY <1>1, <1>3, <1>4
<1>8. TypeRecv'
  BY <1>5, <1>7 DEF RecvInv, TypeRecv, PopReady
<1>9. Buffers'
  BY BuffersKept DEF RecvInv, PopReady
<1>10. ReadyOf(s) = ready /\ \A t \in Session : t # s => ReadyOf(t) = <<>>
  BY <1>1, <1>3 DEF ReadyOf
<1>11. /\ \A i \in 1..Len(received[s]) : received[s][i] = i
       /\ Len(received[s]) + Len(ready) = seq[s] - 1 /\ Len(received[s]) \in Nat
       /\ \A i \in 1..Len(ready) : ready[i] = <<s, Len(received[s]) + i>>
  BY <1>1, <1>3, <1>10 DEF RecvInv, Released
<1>12. q = Len(received[s]) + 1
  BY <1>1, <1>3, <1>11
<1>13. Released'
  <2> SUFFICES ASSUME NEW t \in Session
               PROVE  /\ \A i \in 1..Len(received'[t]) : received'[t][i] = i
                      /\ Len(received'[t]) + Len(ReadyOf(t)') = seq'[t] - 1
                      /\ \A i \in 1..Len(ReadyOf(t)') :
                           ReadyOf(t)'[i] = <<t, Len(received'[t]) + i>>
    BY DEF Released
  <2>1. seq' = seq
    BY DEF PopReady
  <2>2. ready' # <<>> => ready'[1][1] = s
    <3> SUFFICES ASSUME ready' # <<>> PROVE ready'[1][1] = s
      OBVIOUS
    <3>1. 1 \in 1..(Len(ready) - 1) /\ 2 \in 1..Len(ready)
      BY <1>1, <1>5
    <3>2. ready'[1] = ready[2] /\ ready[2] = <<s, Len(received[s]) + 2>>
      BY <3>1, <1>5, <1>11
    <3> QED  BY <3>2
  <2>3. CASE t = s
    <3>1. Len(received'[s]) = Len(received[s]) + 1
          /\ \A i \in 1..Len(received'[s]) : received'[s][i] = i
      <4>1. received[s] \in Seq(Seqs) /\ q \in Seqs
        BY <1>1, <1>3
      <4>2. Len(received'[s]) = Len(received[s]) + 1
        BY <4>1, <1>6, Appended
      <4>3. \A i \in 1..Len(received'[s]) : received'[s][i] = i
        BY <4>1, <1>6, <1>11, <1>12, CountedOn
      <4> QED  BY <4>2, <4>3
    <3>2. ReadyOf(s)' = ready'
      <4>1. ReadyOf(s)' = IF ready' # <<>> /\ ready'[1][1] = s THEN ready' ELSE <<>>
        BY Zenon DEF ReadyOf
      <4> QED  BY <2>2, <4>1
    <3>3. \A i \in 1..Len(ready') : ready'[i] = <<s, Len(received'[s]) + i>>
      <4> SUFFICES ASSUME NEW i \in 1..(Len(ready) - 1)
                   PROVE  ready[i + 1] = <<s, (Len(received[s]) + 1) + i>>
        BY <1>5, <3>1
      <4>0. Len(ready) \in Nat \ {0} /\ Len(received[s]) \in Nat
        BY <1>1, <1>11
      <4>1. i + 1 \in 1..Len(ready) /\ (Len(received[s]) + 1) + i = Len(received[s]) + (i + 1)
        <5> DEFINE a == Len(ready)
                   c == Len(received[s])
        <5> HIDE DEF a, c
        <5>1. a \in Nat \ {0} /\ c \in Nat /\ i \in 1..(a - 1)
          BY <4>0 DEF a, c
        <5>2. i + 1 \in 1..a /\ (c + 1) + i = c + (i + 1)
          BY <5>1
        <5> QED  BY <5>2 DEF a, c
      <4> QED  BY <4>1, <1>11
    <3>4. Len(received'[s]) + Len(ready') = seq[s] - 1
      <4>1. Len(ready) \in Nat \ {0} /\ Len(received[s]) \in Nat
            /\ Len(received[s]) + Len(ready) = seq[s] - 1
        BY <1>1, <1>11
      <4> QED  BY <4>1, <1>5, <3>1
    <3> QED  BY <2>1, <2>3, <3>1, <3>2, <3>3, <3>4
  <2>4. CASE t # s
    <3>1. ReadyOf(t)' = <<>>
      BY <2>2, <2>4 DEF ReadyOf
    <3>2. received'[t] = received[t] /\ ReadyOf(t) = <<>>
      BY <2>4, <1>6, <1>10
    <3> QED  BY <2>1, <3>1, <3>2 DEF RecvInv, Released
  <2> QED  BY <2>3, <2>4
<1>14. ASSUME NEW t \in Session PROVE Missing(t)' \subseteq Missing(t)
  <2>1. Buffered(t)' = Buffered(t) /\ flight' = flight
    BY BufferedContents DEF PopReady
  <2>2. Found(t) \subseteq Found(t)'
    <3> SUFFICES ASSUME NEW x \in Found(t) PROVE x \in Found(t)'
      OBVIOUS
    <3>1. CASE x \in {received[t][i] : i \in DOMAIN received[t]}
      <4>1. PICK i \in DOMAIN received[t] : received[t][i] = x
        BY <3>1
      <4>2. i \in DOMAIN received'[t] /\ received'[t][i] = x
        <5>1. received[t] \in Seq(Seqs) /\ q \in Seqs
          BY <1>1, <1>3
        <5>2. CASE t = s
          BY <4>1, <5>1, <5>2, <1>6, Appended
        <5>3. CASE t # s
          BY <4>1, <5>3, <1>6
        <5> QED  BY <5>2, <5>3
      <4>3. x \in {received'[t][j] : j \in DOMAIN received'[t]}
        BY <4>2
      <4> QED  BY <4>3, FoundParts, Zenon
    <3>2. CASE x \in ReadySet(t)
      <4>0. x \in Seqs /\ \E i \in DOMAIN ready : ready[i] = <<t, x>>
        BY <3>2, Zenon DEF ReadySet
      <4>1. PICK i \in 1..Len(ready) : ready[i] = <<t, x>> /\ x \in Seqs
        <5>1. DOMAIN ready = 1..Len(ready)
          BY <1>1
        <5> QED  BY <4>0, <5>1
      <4>2. CASE i = 1
        <5>1. t = s /\ x = q
          BY <4>1, <4>2, <1>3
        <5>2. Len(received[s]) + 1 \in DOMAIN received'[s]
              /\ received'[s][Len(received[s]) + 1] = q
          <6>1. received[s] \in Seq(Seqs)
            BY <1>1, <1>3
          <6> QED  BY <6>1, <1>3, <1>6, Appended
        <5>3. x \in {received'[t][j] : j \in DOMAIN received'[t]}
          BY <5>1, <5>2
        <5> QED  BY <5>3, FoundParts
      <4>3. CASE i # 1
        <5>1. i - 1 \in 1..(Len(ready) - 1) /\ (i - 1) + 1 = i
          BY <4>1, <4>3, <1>1
        <5>2. i - 1 \in DOMAIN ready' /\ ready'[i - 1] = <<t, x>>
          BY <4>1, <5>1, <1>5
        <5>3. x \in ReadySet(t)'
          BY <4>1, <5>2 DEF ReadySet
        <5> QED  BY <5>3, FoundParts
      <4> QED  BY <4>2, <4>3
    <3> QED  BY <2>1, <3>1, <3>2, FoundParts
  <2> QED  BY <2>2 DEF Missing, PopReady
<1>15. NothingDropped'
  BY <1>14, NothingMore DEF RecvInv, PopReady
<1> QED  BY <1>8, <1>9, <1>13, <1>15 DEF RecvInv

-----------------------------------------------------------------------------
(* The theorems.                                                           *)

LEMMA RecvInvStep ==
  ASSUME RecvInv, [Next]_vars PROVE RecvInv'
<1>1. CASE \E s \in Session : Send(s)
  BY <1>1, SendStep
<1>2. CASE \E m \in Message : Lose(m)
  BY <1>2, LoseStep
<1>3. CASE \E m \in Message, again \in BOOLEAN :
             AdmitStale(m, again) \/ AdmitEarly(m, again) \/ AdmitNext(m, again)
  BY <1>3, AdmitStaleStep, AdmitEarlyStep, AdmitNextStep
<1>4. CASE PopReady
  BY <1>4, PopReadyStep
<1>5. CASE UNCHANGED vars
  <2>1. TypeRecv' /\ Released' /\ NothingDropped'
    <3>1. TypeRecv'
      BY <1>5 DEF vars, RecvInv, TypeRecv
    <3>2. Released'
      BY <1>5 DEF vars, RecvInv, Released, ReadyOf
    <3>3. ASSUME NEW s \in Session PROVE Missing(s)' \subseteq Missing(s)
      <4>1. Found(s) \subseteq Found(s)'
        BY <1>5, FoundKept DEF vars
      <4> QED  BY <1>5, <4>1 DEF vars, Missing
    <3>4. NothingDropped'
      BY <1>5, <3>3, NothingMore DEF vars, RecvInv
    <3> QED  BY <3>1, <3>2, <3>4
  <2>2. Buffers'
    BY <1>5, BuffersKept DEF vars, RecvInv
  <2> QED  BY <2>1, <2>2 DEF RecvInv
<1> QED  BY <1>1, <1>2, <1>3, <1>4, <1>5 DEF Next

\* The inductive invariant of the receiver: in every reachable state each session's
\* ring and spillover are exactly those of the messages it keeps back.
THEOREM ReceiverInvariant == Spec => []RecvInv
BY RecvInvInit, RecvInvStep, PTL DEF Spec

\* The ring never outgrows its limit, and the head stays inside it.
THEOREM ReceiverTypes == Spec => []TypeOK
<1>1. ASSUME RecvInv PROVE TypeOK
  <2>1. ASSUME NEW s \in Session
        PROVE  /\ buffer[s].ring \in Seq(Seqs \cup {None}) /\ Len(buffer[s].ring) <= RingLimit
               /\ buffer[s].head \in 0..RingLimit /\ buffer[s].spillover \subseteq Seqs
    <3>1. Shape(buffer[s]) /\ buffer[s] \in Buffer
      BY <1>1 DEF RecvInv, Buffers, Represents, Window, Shape
    <3>2. /\ buffer[s].ring \in Seq(Seqs \cup {None}) /\ Len(buffer[s].ring) \in Nat
          /\ buffer[s].head \in Nat /\ buffer[s].spillover \subseteq Seqs
      BY <3>1 DEF Buffer, Ring
    <3> QED  BY <3>1, <3>2, SequencedAssumption DEF Shape
  <2> QED  BY <1>1, <2>1 DEF RecvInv, TypeRecv, TypeOK
<1> QED  BY <1>1, ReceiverInvariant, PTL

\* Nothing is stranded: a message that left the channel was received, is ready, waits
\* in the buffer, or is one of the lost.
THEOREM NothingIsDropped == Spec => []NothingDropped
<1>1. RecvInv => NothingDropped
  BY DEF RecvInv
<1> QED  BY <1>1, ReceiverInvariant, PTL

\* The messages the snapshot finds in the ring are those in it.
LEMMA SnapshotFinds ==
  ASSUME NEW b, NEW n \in Nat \ {0}, NEW W \in SUBSET Seqs, Window(b, n, W)
  PROVE  {n + off : off \in {o \in 0..(Len(b.ring) - 1) : b.ring[Slot(b, o)] # None}}
           = {q \in W : q < n + Len(b.ring)}
<1> DEFINE O == {o \in 0..(Len(b.ring) - 1) : b.ring[Slot(b, o)] # None}
<1>1. Len(b.ring) \in Nat
  BY DEF Window, Shape, Buffer, Ring
<1>2. \A q \in W : q \in Nat /\ q # None /\ q >= n
  <2>1. \A q \in W : q >= n
    BY DEF Window
  <2>2. \A q \in Seqs : q \in Nat /\ q # None
    BY SequencedAssumption DEF Seqs, None
  <2> QED  BY <2>1, <2>2
<1>3. \A o \in 0..(Len(b.ring) - 1) : b.ring[Slot(b, o)] = IF n + o \in W THEN n + o ELSE None
  BY DEF Window
<1>4. \A o \in 0..(Len(b.ring) - 1) : o \in O <=> n + o \in W
  BY <1>2, <1>3
<1> HIDE DEF O
<1>5. ASSUME NEW o \in O PROVE n + o \in W /\ n + o < n + Len(b.ring)
  <2>1. o \in 0..(Len(b.ring) - 1)
    BY DEF O
  <2> QED  BY <2>1, <1>1, <1>4
<1>6. ASSUME NEW q \in W, q < n + Len(b.ring) PROVE q - n \in O /\ n + (q - n) = q
  <2>1. q - n \in 0..(Len(b.ring) - 1) /\ n + (q - n) = q
    BY <1>1, <1>2, <1>6
  <2> QED  BY <2>1, <1>4
<1>7. {n + off : off \in O} = {q \in W : q < n + Len(b.ring)}
  <2>1. ASSUME NEW q \in W, q < n + Len(b.ring) PROVE q \in {n + off : off \in O}
    BY <1>6, <2>1
  <2>2. ASSUME NEW o \in O PROVE n + o \in {q \in W : q < n + Len(b.ring)}
    BY <1>5
  <2> QED  BY <2>1, <2>2
<1> QED  BY <1>7 DEF O

\* The ring is what the comments on its fields say after any history of arrivals: the
\* window and the spillover never overlap, a slot holds its own message, the buffer is
\* given up exactly when it is empty and a snapshot counts every message once.
THEOREM BufferIsExact == Spec => []BufferExact
<1>1. ASSUME RecvInv PROVE BufferExact
  <2>1. ASSUME NEW s \in Session
        PROVE  /\ seq[s] \in Nat \ {0} /\ Buffered(s) \in SUBSET Seqs
               /\ Represents(buffer[s], seq[s], Buffered(s)) /\ Window(buffer[s], seq[s], Buffered(s))
               /\ Len(buffer[s].ring) \in Nat /\ seq[s] \notin Buffered(s)
    <3>1. seq[s] \in Nat \ {0} /\ Buffered(s) \in SUBSET Seqs
      BY <1>1, SessionBuffer, BufferedContents DEF RecvInv
    <3>2. Represents(buffer[s], seq[s], Buffered(s)) /\ seq[s] \notin Buffered(s)
      BY <1>1 DEF RecvInv, Buffers
    <3>3. Window(buffer[s], seq[s], Buffered(s))
      BY <3>2 DEF Represents
    <3>4. Len(buffer[s].ring) \in Nat
      BY <3>3 DEF Window, Shape, Buffer, Ring
    <3> QED  BY <3>1, <3>2, <3>3, <3>4
  <2>2. WindowExact
    <3> SUFFICES ASSUME NEW s \in Session
                 PROVE  LET b == buffer[s]
                        IN  /\ \A off \in 0..(Len(b.ring) - 1) :
                                 b.ring[Slot(b, off)] \in {None, seq[s] + off} \ {seq[s]}
                            /\ \A q \in b.spillover : q >= seq[s] + Len(b.ring)
                            /\ b.spillover # {} => Len(b.ring) = RingLimit
      BY DEF WindowExact
    <3> DEFINE b == buffer[s]
               n == seq[s]
               W == Buffered(s)
    <3>1. n \in Nat \ {0} /\ Window(b, n, W) /\ Len(b.ring) \in Nat /\ n \notin W
      BY <2>1
    <3> HIDE DEF b, n, W
    <3>2. ASSUME NEW off \in 0..(Len(b.ring) - 1)
          PROVE  b.ring[Slot(b, off)] \in {None, n + off} \ {n}
      <4>1. b.ring[Slot(b, off)] = IF n + off \in W THEN n + off ELSE None
        BY <3>1 DEF Window
      <4> QED  BY <3>1, <4>1 DEF None
    <3>3. \A q \in b.spillover : q >= n + Len(b.ring)
      BY <3>1 DEF Window
    <3>4. b.spillover # {} => Len(b.ring) = RingLimit
      BY <3>1 DEF Window
    <3> QED  BY <3>2, <3>3, <3>4 DEF b, n
  <2>3. SteadyState
    BY <2>1 DEF SteadyState, Represents, Window
  <2>4. SnapshotExact
    <3> SUFFICES ASSUME NEW s \in Session
                 PROVE  /\ Snapshot(s).seqs = Buffered(s)
                        /\ Snapshot(s).buffered = Cardinality(Buffered(s))
      BY DEF SnapshotExact
    <3> DEFINE b == buffer[s]
               n == seq[s]
               W == Buffered(s)
               found == {n + off : off \in {o \in 0..(Len(b.ring) - 1) : b.ring[Slot(b, o)] # None}}
    <3>1. Snapshot(s) = [buffered |-> Cardinality(found) + Cardinality(b.spillover),
                         seqs     |-> found \cup b.spillover]
      BY DEF Snapshot
    <3>2. found = {q \in W : q < n + Len(b.ring)}
      BY <2>1, SnapshotFinds
    <3>3. b.spillover = {q \in W : q >= n + Len(b.ring)}
      BY <2>1 DEF Window
    <3>4. W \subseteq Nat /\ n \in Nat /\ Len(b.ring) \in Nat
      BY <2>1, SequencedAssumption DEF Seqs
    <3>5. IsFiniteSet(W)
      <4>1. W \subseteq Seqs
        BY <2>1
      <4>2. IsFiniteSet(Seqs)
        BY FS_Interval, SequencedAssumption DEF Seqs
      <4> HIDE DEF W
      <4> QED  BY <4>1, <4>2, FS_Subset
    <3> HIDE DEF b, n, W, found
    <3>6. found \cup b.spillover = W /\ found \cap b.spillover = {}
      <4>1. \A q \in W : ~(q < n + Len(b.ring)) <=> q >= n + Len(b.ring)
        BY <3>4
      <4> QED  BY <3>2, <3>3, <4>1
    <3>7. IsFiniteSet(found) /\ IsFiniteSet(b.spillover)
      BY <3>5, <3>6, FS_Subset
    <3>8. Cardinality(W) = Cardinality(found) + Cardinality(b.spillover)
      <4>1. Cardinality(W) = Cardinality(found) + Cardinality(b.spillover)
                             - Cardinality(found \cap b.spillover)
        BY <3>6, <3>7, FS_Union
      <4>2. Cardinality(found \cap b.spillover) = 0
        BY <3>6, FS_EmptySet
      <4>3. Cardinality(found) \in Nat /\ Cardinality(b.spillover) \in Nat
        BY <3>7, FS_CardinalityType
      <4> QED  BY <4>1, <4>2, <4>3
    <3> QED  BY <3>1, <3>6, <3>8 DEF W
  <2> QED  BY <2>2, <2>3, <2>4 DEF BufferExact
<1> QED  BY <1>1, ReceiverInvariant, PTL

-----------------------------------------------------------------------------
(* Ordered delivery.                                                       *)

\* The first k sequence numbers.
Count(k) == [i \in 1..k |-> i]

\* The refinement mapping: what was released for a session, and that and what waits
\* for all of them.
RelBar(s) == received[s] \o [i \in DOMAIN ReadyOf(s) |-> ReadyOf(s)[i][2]]

WaitingBar  == [s \in Session |-> Buffered(s)]
ReleasedBar == [s \in Session |-> RelBar(s)]

\* Two pieces of the count make a longer one.
LEMMA CountsOn ==
  ASSUME NEW u \in Seq(Nat), NEW v \in Seq(Nat), NEW n \in Nat, Len(u) + Len(v) = n,
         \A i \in 1..Len(u) : u[i] = i, \A i \in 1..Len(v) : v[i] = Len(u) + i
  PROVE  u \o v = Count(n)
<1>1. Len(u) \in Nat /\ Len(v) \in Nat
  OBVIOUS
<1>2. u \o v \in Seq(Nat) /\ Len(u \o v) = n
      /\ \A i \in 1..n : (u \o v)[i] = IF i <= Len(u) THEN u[i] ELSE v[i - Len(u)]
  BY <1>1, ConcatProperties
<1> DEFINE w == u \o v
<1>3. ASSUME NEW i \in 1..n PROVE w[i] = i
  <2>1. CASE i <= Len(u)
    <3>1. i \in 1..Len(u)
      BY <1>1, <2>1
    <3> QED  BY <3>1, <2>1, <1>2
  <2>2. CASE ~(i <= Len(u))
    <3>1. i - Len(u) \in 1..Len(v) /\ Len(u) + (i - Len(u)) = i
      BY <1>1, <2>2
    <3> QED  BY <3>1, <2>2, <1>2
  <2> QED  BY <2>1, <2>2
<1> HIDE DEF w
<1>4. w \in [1..n -> Nat]
  <2>1. w \in Seq(Nat) /\ Len(w) = n
    BY <1>2 DEF w
  <2> QED  BY <2>1
<1>5. w = Count(n)
  BY <1>3, <1>4 DEF Count
<1> QED  BY <1>5 DEF w

\* What is released are the numbers below the expected one.
LEMMA ReleasedCount ==
  ASSUME RecvInv, NEW s \in Session
  PROVE  RelBar(s) = Count(seq[s] - 1)
<1> DEFINE u == received[s]
           r == ReadyOf(s)
           v == [i \in DOMAIN r |-> r[i][2]]
<1>1. u \in Seq(Nat) /\ r \in Seq(Message) /\ seq[s] - 1 \in Nat
  <2>1. received[s] \in Seq(Seqs) /\ seq[s] \in 1..(MaxSeq + 1) /\ ready \in Seq(Message)
    BY DEF RecvInv, TypeRecv
  <2>2. r \in Seq(Message)
    BY <2>1 DEF ReadyOf
  <2>3. Seqs \subseteq Nat
    BY SequencedAssumption DEF Seqs
  <2>4. seq[s] - 1 \in Nat
    <3>1. seq[s] \in Nat /\ seq[s] >= 1
      BY <2>1, SequencedAssumption
    <3> QED  BY <3>1
  <2>5. received[s] \in Seq(Nat)
    <3> DEFINE w == received[s]
    <3> HIDE DEF w
    <3>1. w \in Seq(Seqs)
      BY <2>1 DEF w
    <3>2. w \in [1..Len(w) -> Seqs] /\ Len(w) \in Nat
      BY <3>1
    <3>3. w \in [1..Len(w) -> Nat]
      BY <3>2, <2>3
    <3> QED  BY <3>2, <3>3 DEF w
  <2> HIDE DEF r
  <2> QED  BY <2>2, <2>4, <2>5
<1>2. \A i \in 1..Len(r) : r[i] = <<s, Len(u) + i>>
  BY DEF RecvInv, Released
<1>count. Len(u) + Len(r) = seq[s] - 1 /\ \A i \in 1..Len(u) : u[i] = i
  BY DEF RecvInv, Released
<1>3. Len(u) \in Nat /\ Len(r) \in Nat /\ DOMAIN r = 1..Len(r)
  BY <1>1
<1> HIDE DEF u, r
<1>4. v = [i \in 1..Len(r) |-> Len(u) + i]
  BY <1>2, <1>3
<1> HIDE DEF v
<1>5. v \in Seq(Nat) /\ Len(v) = Len(r) /\ \A i \in 1..Len(v) : v[i] = Len(u) + i
  <2>1. v \in [1..Len(r) -> Nat]
    BY <1>3, <1>4
  <2> QED  BY <2>1, <1>3, <1>4
<1>6. u \o v = Count(seq[s] - 1)
  BY <1>1, <1>count, <1>5, CountsOn
<1> QED  BY <1>6 DEF RelBar, u, v, r

Counted == \A s \in Session : RelBar(s) = Count(seq[s] - 1)

LEMMA ReleasedCounted == RecvInv => Counted
BY ReleasedCount DEF Counted

\* The numbers that one step releases.
LEMMA CountMore ==
  ASSUME NEW e \in Nat \ {0}, NEW n \in Nat \ {0}, n >= e
  PROVE  Count(e - 1) \o [i \in 1..(n - e) |-> e + i - 1] = Count(n - 1)
<1> DEFINE u == Count(e - 1)
           v == [i \in 1..(n - e) |-> e + i - 1]
<1>1. u \in Seq(Nat) /\ Len(u) = e - 1 /\ \A i \in 1..Len(u) : u[i] = i
  <2>1. u \in [1..(e - 1) -> Nat] /\ e - 1 \in Nat
    BY DEF Count
  <2> QED  BY <2>1 DEF Count
<1>2. v \in Seq(Nat) /\ Len(v) = n - e /\ \A i \in 1..Len(v) : v[i] = Len(u) + i
  <2>1. v \in [1..(n - e) -> Nat] /\ n - e \in Nat
    OBVIOUS
  <2>2. Len(v) = n - e
    BY <2>1
  <2>3. \A i \in 1..(n - e) : e + i - 1 = (e - 1) + i
    OBVIOUS
  <2> QED  BY <2>1, <2>2, <2>3, <1>1
<1> HIDE DEF u, v
<1>3. Len(u) + Len(v) = n - 1 /\ n - 1 \in Nat
  BY <1>1, <1>2
<1>4. u \o v = Count(n - 1)
  BY <1>1, <1>2, <1>3, CountsOn
<1> QED  BY <1>4 DEF u, v

\* The abstract step, from what it needs of the concrete one.
LEMMA AcceptStep ==
  ASSUME RecvInv, RecvInv', NEW s \in Session, NEW q \in Seqs, q >= seq[s],
         NEW n \in Nat, n >= seq[s], n <= MaxSeq + 1,
         seq[s]..(n - 1) \subseteq Buffered(s) \cup {q}, n \notin Buffered(s) \cup {q},
         seq' = [seq EXCEPT ![s] = n],
         Buffered(s)' = (Buffered(s) \cup {q}) \ seq[s]..(n - 1),
         \A t \in Session : t # s => Buffered(t)' = Buffered(t)
  PROVE  Ordered!Accept(s, q)
<1>1. seq \in [Session -> 1..(MaxSeq + 1)] /\ seq[s] \in Nat \ {0} /\ n \in Nat \ {0}
  BY SequencedAssumption DEF RecvInv, TypeRecv
<1>2. n \in seq[s]..(MaxSeq + 1)
  BY <1>1, SequencedAssumption
<1>3. WaitingBar[s] = Buffered(s)
  BY DEF WaitingBar
<1>4. WaitingBar' = [WaitingBar EXCEPT ![s] = (Buffered(s) \cup {q}) \ seq[s]..(n - 1)]
  BY DEF WaitingBar
<1>5. seq'[s] = n /\ \A t \in Session : t # s => seq'[t] = seq[t]
  BY <1>1
<1>6. ReleasedBar = [t \in Session |-> Count(seq[t] - 1)]
  BY ReleasedCount DEF ReleasedBar
<1>7. ReleasedBar' = [t \in Session |-> Count(seq'[t] - 1)]
  <2>1. \A t \in Session : RelBar(t)' = Count(seq'[t] - 1)
    <3>1. Counted'
      BY ReleasedCounted, PTL
    <3> QED  BY <3>1 DEF Counted
  <2> QED  BY <2>1 DEF ReleasedBar
<1>8. Count(seq[s] - 1) \o [i \in 1..(n - seq[s]) |-> seq[s] + i - 1] = Count(n - 1)
  BY <1>1, CountMore
<1>9. ReleasedBar' = [ReleasedBar EXCEPT ![s] =
                        @ \o [i \in 1..(n - seq[s]) |-> seq[s] + i - 1]]
  <2> DEFINE w == [i \in 1..(n - seq[s]) |-> seq[s] + i - 1]
             rel == ReleasedBar
  <2>1. Count(seq[s] - 1) \o w = Count(n - 1)
    BY <1>8
  <2> HIDE DEF w, rel
  <2>2. rel = [t \in Session |-> Count(seq[t] - 1)]
    BY <1>6 DEF rel
  <2>3. [rel EXCEPT ![s] = @ \o w] = [t \in Session |-> Count(seq'[t] - 1)]
    BY <1>5, <2>1, <2>2
  <2> QED  BY <1>7, <2>3 DEF w, rel
<1> QED  BY <1>2, <1>3, <1>4, <1>9 DEF Ordered!Accept, WaitingBar, ReleasedBar, RelBar

\* A step that releases nothing and keeps nothing back.
LEMMA OrderedStutter ==
  ASSUME RecvInv, RecvInv', UNCHANGED <<seq, buffer>>
  PROVE  UNCHANGED <<seq, WaitingBar, ReleasedBar>>
<1>1. WaitingBar' = WaitingBar
  BY BufferedContents DEF WaitingBar
<1>2. ReleasedBar = [t \in Session |-> Count(seq[t] - 1)]
  BY ReleasedCount DEF ReleasedBar
<1>3. ReleasedBar' = [t \in Session |-> Count(seq'[t] - 1)]
  <2>1. \A t \in Session : RelBar(t)' = Count(seq'[t] - 1)
    <3>1. Counted'
      BY ReleasedCounted, PTL
    <3> QED  BY <3>1 DEF Counted
  <2> QED  BY <2>1 DEF ReleasedBar
<1> QED  BY <1>1, <1>2, <1>3

OrderedStep == \/ \E s \in Session, q \in Seqs : Ordered!Accept(s, q)
               \/ UNCHANGED <<seq, WaitingBar, ReleasedBar>>

LEMMA NextOrdered ==
  ASSUME RecvInv, [Next]_vars PROVE OrderedStep
<1>0. RecvInv'
  BY RecvInvStep
<1>1. CASE \/ \E s \in Session : Send(s)
           \/ \E m \in Message : Lose(m)
           \/ \E m \in Message, again \in BOOLEAN : AdmitStale(m, again)
           \/ PopReady \/ UNCHANGED vars
  <2>1. UNCHANGED <<seq, buffer>>
    BY <1>1 DEF Send, Lose, AdmitStale, PopReady, vars
  <2> QED  BY <1>0, <2>1, OrderedStutter DEF OrderedStep
<1>2. ASSUME NEW m \in Message, NEW again \in BOOLEAN, AdmitEarly(m, again)
      PROVE  OrderedStep
  <2>1. m[1] \in Session /\ m[2] \in Seqs /\ seq[m[1]] \in 1..(MaxSeq + 1)
        /\ seq \in [Session -> 1..(MaxSeq + 1)] /\ m[2] > seq[m[1]] /\ seq' = seq
    BY <1>2 DEF Message, RecvInv, TypeRecv, AdmitEarly, IsEarly
  <2> DEFINE s == m[1]
             q == m[2]
             n == seq[s]
  <2>2. n \in Nat /\ q \in Nat /\ n <= MaxSeq + 1 /\ q >= seq[s] /\ n # q
    BY <2>1, SequencedAssumption DEF Seqs
  <2>3. seq[s]..(n - 1) = {} /\ seq' = [seq EXCEPT ![s] = n]
    BY <2>1, <2>2
  <2>4. Buffered(s)' = Buffered(s) \cup {q}
        /\ \A t \in Session : t # s => Buffered(t)' = Buffered(t)
    BY <1>2, AdmitEarlyStep
  <2>5. n \notin Buffered(s)
    BY <2>1 DEF RecvInv, Buffers
  <2>6. Ordered!Accept(s, q)
    <3>1. /\ seq[s]..(n - 1) \subseteq Buffered(s) \cup {q} /\ n \notin Buffered(s) \cup {q}
          /\ Buffered(s)' = (Buffered(s) \cup {q}) \ seq[s]..(n - 1) /\ n >= seq[s]
      BY <2>2, <2>3, <2>4, <2>5
    <3> QED  BY <1>0, <2>1, <2>2, <2>3, <2>4, <3>1, AcceptStep
  <2> QED  BY <2>1, <2>6 DEF OrderedStep
<1>3. ASSUME NEW m \in Message, NEW again \in BOOLEAN, AdmitNext(m, again)
      PROVE  OrderedStep
  <2> DEFINE s == m[1]
             q == m[2]
             n == seq'[s]
             W == Buffered(s)
  <2>1. s \in Session /\ q \in Seqs /\ seq[s] \in Nat \ {0} /\ n \in Nat /\ n <= MaxSeq + 1
        /\ seq \in [Session -> 1..(MaxSeq + 1)] /\ seq' \in [Session -> 1..(MaxSeq + 1)]
    BY <1>0, SequencedAssumption DEF Message, RecvInv, TypeRecv
  <2>2. /\ q = seq[s] /\ n > seq[s] /\ n \notin W
        /\ (seq[s] + 1)..(n - 1) \subseteq W
        /\ Buffered(s)' = W \ ((seq[s] + 1)..(n - 1))
        /\ \A t \in Session : t # s => seq'[t] = seq[t] /\ Buffered(t)' = Buffered(t)
    BY <1>3, AdmitNextStep
  <2>3. seq' = [seq EXCEPT ![s] = n]
    BY <2>1, <2>2
  <2>4. seq[s] \notin W
    BY <2>1 DEF RecvInv, Buffers
  <2>5. seq[s]..(n - 1) = {seq[s]} \cup (seq[s] + 1)..(n - 1)
    BY <2>1, <2>2
  <2>6. /\ seq[s]..(n - 1) \subseteq W \cup {q} /\ n \notin W \cup {q}
        /\ Buffered(s)' = (W \cup {q}) \ seq[s]..(n - 1)
    BY <2>1, <2>2, <2>4, <2>5
  <2>7. Ordered!Accept(s, q)
    BY <1>0, <2>1, <2>2, <2>3, <2>6, AcceptStep
  <2> QED  BY <2>1, <2>7 DEF OrderedStep
<1> QED  BY <1>1, <1>2, <1>3 DEF Next

\* The receiver implements ordered delivery, whatever the order of arrival, the copies,
\* the losses, the limit of the ring and the number of sessions.
THEOREM ReceiverImplementsOrdered == Spec => ImplementsOrdered
<1>1. Init => Ordered!Init
  <2> SUFFICES ASSUME Init PROVE Ordered!Init
    OBVIOUS
  <2>1. RecvInv
    BY RecvInvInit
  <2>2. seq = [s \in Session |-> 1] /\ WaitingBar = [s \in Session |-> {}]
    BY DEF Init, WaitingBar, Buffered, InRing, Empty
  <2>3. ReleasedBar = [t \in Session |-> Count(seq[t] - 1)]
    BY <2>1, ReleasedCount DEF ReleasedBar
  <2>4. Count(0) = <<>>
    BY DEF Count
  <2>5. ReleasedBar = [s \in Session |-> <<>>]
    BY <2>2, <2>3, <2>4
  <2> QED  BY <2>2, <2>5 DEF Ordered!Init, WaitingBar, ReleasedBar, RelBar
<1>2. RecvInv /\ [Next]_vars =>
        [\E s \in Session, q \in Seqs : Ordered!Accept(s, q)]_<<seq, WaitingBar, ReleasedBar>>
  BY NextOrdered DEF OrderedStep
<1> QED  BY <1>1, <1>2, ReceiverInvariant, PTL
            DEF Spec, ImplementsOrdered, Ordered!Spec, Ordered!Seqs, Seqs, WaitingBar, ReleasedBar, RelBar
=============================================================================
