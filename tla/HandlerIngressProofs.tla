------------------------ MODULE HandlerIngressProofs ------------------------
(***************************************************************************)
(* The gates and the work queue of HandlerIngress, for any number of       *)
(* senders and of delayed posts: a drain that has returned has left nobody *)
(* inside; the depth of the queue is exact; an actor that ended by         *)
(* draining handled all it had accepted.                                   *)
(***************************************************************************)
EXTENDS HandlerIngress, FiniteSetTheorems, NaturalsInduction, WellFoundedInduction, TLAPS

\* The states of a thread that holds a guard.
Holding == {"entered", "accounted", "sent"}

\* What the gates, the threads and the actor can be.
TypeGate ==
    /\ draining \in [Gate -> BOOLEAN]
    /\ active \in [Gate -> Nat]
    /\ pc \in [Thread -> {"load", "cas", "rejected", "notify", "done"} \cup Holding]
    /\ seen \in [Thread -> Nat]
    /\ actor \in [at : {"loop", "set", "exit", "ended"} \cup Waiting, gate : Gate]

\* The count in a gate's word is the number of the guards that are out.
CountExact == \A g \in Gate : active[g] = Cardinality(Inside(g))

\* GateHolds is not inductive by itself: the drain looks at the count only.
GateInv == TypeGate /\ CountExact /\ GateHolds

\* What the queue, its lock and the request to stop can be.
TypeQueue ==
    /\ lock \in [Gate -> {Nobody, Actor}]
    /\ asked \in {"none", "Stop", "Drain", "Kill"}
    /\ channel \in Seq(Message \cup {Exit})
    /\ buffer \in SUBSET Message
    /\ ready \in Seq(Nat)
    /\ handled \in Seq(Nat)
    /\ depth \in Int

\* How far the session has come: the messages up to here were released in order.
Frontier == Len(handled) + Len(ready)

\* What is handled and what is released are the numbers from one, without a gap, of
\* messages that were sent.
Consecutive ==
    /\ \A i \in 1..Len(handled) : handled[i] = i
    /\ \A i \in 1..Len(ready) : ready[i] = Len(handled) + i
    /\ \A k \in 1..Frontier : k \in Message /\ pc[k] \in Past

\* A message is in one place: once in the channel, or in the buffer beyond a gap, or
\* released.
OnePlace ==
    /\ \A i \in 1..Len(channel) : channel[i] # Exit =>
           /\ pc[channel[i]] \in Past
           /\ channel[i] \notin buffer
           /\ channel[i] > Frontier
    /\ \A i, j \in 1..Len(channel) : channel[i] = channel[j] => i = j
    /\ \A m \in buffer : pc[m] \in Past /\ m > Frontier + 1

\* The handler gate is shut for good: a thread that tries to enter is turned away.
Closed == draining["handler"] /\ Inside("handler") = {}

\* The threads between account_enqueue and the send.
Accounted == {t \in Thread : pc[t] = "accounted"}

\* Only a thread that delivers a message accounts for one.
Senders == Accounted \subseteq Message

\* The exit item is the last one of the channel, and nobody can send behind it.
ExitLast ==
    \A i \in 1..Len(channel) : channel[i] = Exit =>
        /\ i = Len(channel)
        /\ Closed
        /\ asked # "none"
        /\ asked = "Drain" => actor.at = "loop"

\* Where an actor can be for what it was asked; one that ended by draining has an
\* empty channel and nobody in front of it.
Ending ==
    /\ asked = "none" => actor.at = "loop"
    /\ actor.at = "loop" => asked \in {"none", "Drain"}
    /\ actor.at \in {"set"} \cup Waiting => asked \in {"Stop", "Drain"}
    /\ actor.at \in Waiting => draining[actor.gate]
    /\ asked = "Drain" /\ actor.at \in {"exit", "ended"} =>
           channel = <<>> /\ ready = <<>> /\ Closed

\* A message that was sent to an actor that had not ended, or to one that ended by
\* draining, is somewhere.
Kept ==
    \A m \in Message : pc[m] \in Past /\ (actor.at # "ended" \/ asked = "Drain") =>
        \/ m \in buffer
        \/ m <= Frontier
        \/ \E i \in 1..Len(channel) : channel[i] = m

\* DepthExact needs that a message is not counted twice; DrainHandlesAll that none
\* is behind the exit item.
QueueInv ==
    /\ GateInv
    /\ TypeQueue
    /\ Senders
    /\ Consecutive
    /\ OnePlace
    /\ ExitLast
    /\ Ending
    /\ Kept
    /\ DepthExact

-----------------------------------------------------------------------------
(* Who is inside.                                                           *)

\* There are finitely many threads, so each gate has finitely many guards out.
LEMMA InsideFinite == \A g \in Gate : IsFiniteSet(Inside(g))
<1>1. IsFiniteSet(Message) /\ IsFiniteSet(Delayer)
  BY ThreadsAssumption, FS_Interval DEF Message, Delayer
<1>2. IsFiniteSet(Thread)
  BY <1>1, FS_Union DEF Thread
<1>3. \A g \in Gate : Inside(g) \subseteq Thread
  BY DEF Inside
<1> QED  BY <1>2, <1>3, FS_Subset

\* GateOf names one of the two gates (HandlerPortSender, DelayedPosts).
LEMMA GateOfType == \A t \in Thread : GateOf(t) \in Gate
BY DEF GateOf, Gate

\* A step of thread t to w moves t alone, into or out of its own gate.
LEMMA InsideStep ==
    ASSUME TypeGate, NEW t \in Thread, NEW w, Goto(t, w), NEW g \in Gate
    PROVE  Inside(g)' = IF GateOf(t) # g THEN Inside(g)
                        ELSE IF w \in Holding THEN Inside(g) \cup {t}
                        ELSE Inside(g) \ {t}
<1>1. \A u \in Thread : pc'[u] = IF u = t THEN w ELSE pc[u]
  BY DEF Goto, TypeGate
<1>2. \A u : u \in Inside(g) <=> u \in Thread /\ GateOf(u) = g /\ pc[u] \in Holding
  BY DEF Inside, Holding
<1>3. \A u : u \in Inside(g)' <=> u \in Thread /\ GateOf(u) = g /\ pc'[u] \in Holding
  BY DEF Inside, Holding, GateOf
<1> HIDE DEF Inside, Holding
<1>4. CASE GateOf(t) # g
  BY <1>1, <1>2, <1>3, <1>4
<1>5. CASE GateOf(t) = g /\ w \in Holding
  <2>1. \A u : u \in Inside(g)' <=> u \in Inside(g) \cup {t}
    BY <1>1, <1>2, <1>3, <1>5
  <2> QED  BY <2>1, <1>5
<1>6. CASE GateOf(t) = g /\ w \notin Holding
  <2>1. \A u : u \in Inside(g)' <=> u \in Inside(g) \ {t}
    BY <1>1, <1>2, <1>3, <1>6
  <2> QED  BY <2>1, <1>6
<1> QED  BY <1>4, <1>5, <1>6

\* While no thread moves, everybody stays where he is.
LEMMA InsideSame ==
    ASSUME UNCHANGED pc, NEW g \in Gate
    PROVE  Inside(g)' = Inside(g)
BY DEF Inside, GateOf

\* A step of a thread that holds a guard before and after, or neither, changes
\* nothing for a gate.
LEMMA QuietStep ==
    ASSUME TypeGate, NEW t \in Thread, NEW w, Goto(t, w),
           pc[t] \in Holding <=> w \in Holding, NEW g \in Gate
    PROVE  Inside(g)' = Inside(g)
<1>1. t \in Inside(GateOf(t)) <=> pc[t] \in Holding
  BY DEF Inside, Holding
<1>2. CASE GateOf(t) # g
  BY <1>2, InsideStep
<1>3. CASE GateOf(t) = g /\ w \in Holding
  <2>1. Inside(g)' = Inside(g) \cup {t}
    BY <1>3, InsideStep
  <2> QED  BY <2>1, <1>1, <1>3
<1>4. CASE GateOf(t) = g /\ w \notin Holding
  <2>1. Inside(g)' = Inside(g) \ {t}
    BY <1>4, InsideStep
  <2> QED  BY <2>1, <1>1, <1>4
<1> QED  BY <1>2, <1>3, <1>4

-----------------------------------------------------------------------------
(* What preserves the invariant.                                            *)

\* Nobody enters or leaves and no drain begins or returns.
LEMMA GateKept ==
    ASSUME GateInv, TypeGate', UNCHANGED active,
           \A g \in Gate : Inside(g)' = Inside(g),
           \A g \in Gate : Drained(g)' => Drained(g)
    PROVE  GateInv'
<1>1. CountExact'
  BY DEF GateInv, CountExact
<1>2. GateHolds'
  BY DEF GateInv, GateHolds
<1> QED  BY <1>1, <1>2 DEF GateInv

\* What is drained depends on the flags and on where the actor is.
LEMMA DrainedSame ==
    ASSUME UNCHANGED <<draining, actor>>
    PROVE  \A g \in Gate : Drained(g)' => Drained(g)
BY DEF Drained, Waiting

\* try_enter: the count goes up with the guard, and only an open gate is entered.
LEMMA EnteredStep ==
    ASSUME GateInv, NEW t \in Thread, pc[t] = "cas", ~draining[GateOf(t)],
           Entered(t, active[GateOf(t)] + 1), UNCHANGED <<draining, actor>>
    PROVE  GateInv'
<1> DEFINE h == GateOf(t)
<1>1. h \in Gate /\ TypeGate
  BY GateOfType DEF GateInv
<1>2. Goto(t, "entered")
  BY DEF Entered
<1>3. active' = [active EXCEPT ![h] = active[h] + 1]
  BY DEF Entered
<1>4. TypeGate'
  BY <1>1, <1>2, <1>3 DEF TypeGate, Entered, Goto, Holding
<1>5. ASSUME NEW g \in Gate, g # h
      PROVE  Inside(g)' = Inside(g) /\ active'[g] = active[g]
  BY <1>1, <1>2, <1>3, <1>5, InsideStep DEF TypeGate
<1>6. Inside(h)' = Inside(h) \cup {t} /\ t \notin Inside(h)
  BY <1>1, <1>2, InsideStep DEF Inside, Holding
<1>7. Cardinality(Inside(h)') = Cardinality(Inside(h)) + 1
  BY <1>1, <1>6, InsideFinite, FS_AddElement
<1>8. active'[h] = active[h] + 1
  BY <1>1, <1>3 DEF TypeGate
<1>9. CountExact'
  <2> SUFFICES ASSUME NEW g \in Gate PROVE active'[g] = Cardinality(Inside(g)')
    BY DEF CountExact
  <2>1. CASE g = h
    BY <2>1, <1>7, <1>8 DEF GateInv, CountExact
  <2>2. CASE g # h
    BY <2>2, <1>5 DEF GateInv, CountExact
  <2> QED  BY <2>1, <2>2
<1>10. GateHolds'
  <2> SUFFICES ASSUME NEW g \in Gate, Drained(g)' PROVE Inside(g)' = {}
    BY DEF GateHolds
  <2>1. Drained(g) /\ draining[g]
    BY DEF Drained, Waiting
  <2>2. g # h
    BY <2>1
  <2> QED  BY <2>1, <2>2, <1>5 DEF GateInv, GateHolds
<1> QED  BY <1>4, <1>9, <1>10 DEF GateInv

\* A failed or first look at the word changes neither gate.
LEMMA ExpectStep ==
    ASSUME GateInv, NEW t \in Thread, pc[t] \in {"load", "cas"}, Expect(t),
           UNCHANGED <<draining, active, actor>>
    PROVE  GateInv'
<1>1. TypeGate /\ GateOf(t) \in Gate
  BY GateOfType DEF GateInv
<1>2. PICK w \in {"rejected", "cas"} : Goto(t, w)
  BY DEF Expect
<1>3. TypeGate'
  BY <1>1, <1>2 DEF TypeGate, Expect, Goto, Holding
<1>4. \A g \in Gate : Inside(g)' = Inside(g)
  BY <1>1, <1>2, QuietStep DEF Holding
<1> QED  BY <1>3, <1>4, GateKept, DrainedSame

\* The drop of a guard: the count goes down with it.
LEMMA FetchSubStep ==
    ASSUME GateInv, NEW t \in Thread, FetchSub(t)
    PROVE  GateInv'
<1> DEFINE h == GateOf(t)
<1>1. h \in Gate /\ TypeGate /\ pc[t] = "sent" /\ UNCHANGED <<draining, actor, seen>>
  BY GateOfType DEF GateInv, FetchSub
<1>2. PICK w \in {"notify", "done"} : Goto(t, w)
  BY DEF FetchSub
<1>3. Inside(h)' = Inside(h) \ {t} /\ t \in Inside(h)
  BY <1>1, <1>2, InsideStep DEF Inside, Holding
<1>4. Cardinality(Inside(h)') = Cardinality(Inside(h)) - 1 /\ Cardinality(Inside(h)') \in Nat
  BY <1>1, <1>3, InsideFinite, FS_RemoveElement, FS_CardinalityType
<1>5. active[h] = Cardinality(Inside(h))
  BY <1>1 DEF GateInv, CountExact
<1>6. active' = [active EXCEPT ![h] = active[h] - 1] /\ active[h] - 1 \in Nat
  BY <1>4, <1>5 DEF FetchSub
<1>7. TypeGate'
  BY <1>1, <1>2, <1>6 DEF TypeGate, Goto, Holding
<1>8. ASSUME NEW g \in Gate, g # h
      PROVE  Inside(g)' = Inside(g) /\ active'[g] = active[g]
  BY <1>1, <1>2, <1>6, <1>8, InsideStep DEF TypeGate
<1>9. CountExact'
  <2> SUFFICES ASSUME NEW g \in Gate PROVE active'[g] = Cardinality(Inside(g)')
    BY DEF CountExact
  <2>1. CASE g = h
    BY <2>1, <1>1, <1>4, <1>5, <1>6 DEF TypeGate
  <2>2. CASE g # h
    BY <2>2, <1>8 DEF GateInv, CountExact
  <2> QED  BY <2>1, <2>2
<1>10. GateHolds'
  <2> SUFFICES ASSUME NEW g \in Gate, Drained(g)' PROVE Inside(g)' = {}
    BY DEF GateHolds
  <2>1. Inside(g) = {}
    BY <1>1, DrainedSame DEF GateInv, GateHolds
  <2> QED  BY <2>1, <1>3, <1>8
<1> QED  BY <1>7, <1>9, <1>10 DEF GateInv

\* Each operation of a sending thread (HandlerPortSender::send, post_after).
LEMMA ThreadStepInv ==
    ASSUME GateInv, NEW t \in Thread, ThreadStep(t)
    PROVE  GateInv'
<1> USE DEF gateVars, queueVars
<1>0. TypeGate /\ GateOf(t) \in Gate
  BY GateOfType DEF GateInv
<1>1. CASE Load(t)
  BY <1>1, ExpectStep DEF Load
<1>2. CASE CompareExchange(t)
  <2>1. CASE ~draining[GateOf(t)] /\ active[GateOf(t)] = seen[t]
    BY <1>2, <2>1, EnteredStep DEF CompareExchange
  <2>2. CASE ~(~draining[GateOf(t)] /\ active[GateOf(t)] = seen[t])
    BY <1>2, <2>2, ExpectStep DEF CompareExchange
  <2> QED  BY <2>1, <2>2
<1>3. CASE Account(t)
  <2>1. TypeGate' /\ Goto(t, "accounted") /\ pc[t] = "entered"
    BY <1>0, <1>3 DEF Account, TypeGate, Goto, Holding
  <2> QED  BY <1>0, <1>3, <2>1, QuietStep, GateKept, DrainedSame DEF Account, Holding
<1>4. CASE Send(t)
  <2>1. TypeGate' /\ Goto(t, "sent") /\ pc[t] = "accounted"
    BY <1>0, <1>4 DEF Send, TypeGate, Goto, Holding
  <2> QED  BY <1>0, <1>4, <2>1, QuietStep, GateKept, DrainedSame DEF Send, Holding
<1>5. CASE Push(t)
  <2>1. TypeGate' /\ Goto(t, "sent") /\ pc[t] = "entered"
    BY <1>0, <1>5 DEF Push, TypeGate, Goto, Holding
  <2> QED  BY <1>0, <1>5, <2>1, QuietStep, GateKept, DrainedSame DEF Push, Holding
<1>6. CASE FetchSub(t)
  BY <1>6, FetchSubStep
<1>7. CASE NotifyLast(t)
  <2>1. Goto(t, "done") /\ pc[t] = "notify" /\ UNCHANGED <<draining, active, seen>>
    BY <1>7 DEF NotifyLast
  <2>2. /\ actor' \in [at : {"loop", "set", "exit", "ended"} \cup Waiting, gate : Gate]
        /\ actor'.gate = actor.gate
        /\ actor'.at \in Waiting <=> actor.at \in Waiting
    BY <1>0, <1>7 DEF NotifyLast, WakeUp, TypeGate, Waiting
  <2>3. TypeGate'
    BY <1>0, <2>1, <2>2 DEF TypeGate, Goto, Holding, Waiting
  <2>4. \A g \in Gate : Drained(g)' => Drained(g)
    BY <2>1, <2>2 DEF Drained, Waiting
  <2>5. \A g \in Gate : Inside(g)' = Inside(g)
    BY <1>0, <2>1, QuietStep DEF Holding
  <2> QED  BY <2>1, <2>3, <2>4, <2>5, GateKept
<1> QED  BY <1>1, <1>2, <1>3, <1>4, <1>5, <1>6, <1>7 DEF ThreadStep

-----------------------------------------------------------------------------
(* The actor.                                                               *)

\* A step of the actor that leaves the gates alone and does not end a wait.
LEMMA ActorMoves ==
    ASSUME GateInv, UNCHANGED <<pc, seen, draining, active>>,
           actor' \in [at : {"loop", "set", "exit", "ended"} \cup Waiting, gate : Gate],
           actor'.gate = actor.gate,
           actor'.at \in Waiting <=> actor.at \in Waiting
    PROVE  GateInv'
<1>1. TypeGate'
  BY DEF GateInv, TypeGate, Waiting
<1>2. \A g \in Gate : Drained(g)' => Drained(g)
  BY DEF Drained, Waiting
<1> QED  BY <1>1, <1>2, InsideSame, GateKept

\* The flag is set when the wait begins: this drain has not returned.
LEMMA DrainSetStep ==
    ASSUME GateInv, DrainSet
    PROVE  GateInv'
<1> USE DEF queueVars
<1>1. TypeGate
  BY DEF GateInv
<1>2. TypeGate'
  BY <1>1 DEF DrainSet, TypeGate, Waiting
<1>3. \A g \in Gate : Drained(g)' => Drained(g)
  BY <1>1 DEF DrainSet, TypeGate, Drained, Waiting
<1> QED  BY <1>2, <1>3, InsideSame, GateKept DEF DrainSet

\* The drain returns only when the count is zero: then nobody is inside, and the
\* other gate is as it was.
LEMMA DrainCheckStep ==
    ASSUME GateInv, DrainCheck
    PROVE  GateInv'
<1>0. TypeGate /\ actor.at = "check" /\ UNCHANGED <<pc, seen, draining, active>>
  BY DEF GateInv, DrainCheck
<1>1. CASE active[actor.gate] # 0
  <2>1. actor' = [actor EXCEPT !.at = "sleep"]
    BY <1>1 DEF DrainCheck
  <2> QED  BY <1>0, <2>1, ActorMoves DEF TypeGate, Waiting
<1>2. CASE active[actor.gate] = 0
  <2>1. AfterDrain
    BY <1>2 DEF DrainCheck
  <2>2. /\ actor' \in [at : {"set", "exit", "loop"}, gate : Gate]
    BY <1>0, <2>1 DEF AfterDrain, ToLoop, TypeGate, Gate
  <2>3. TypeGate'
    BY <1>0, <2>2 DEF TypeGate, Waiting
  <2>4. actor.gate \in Gate
    BY <1>0 DEF TypeGate
  <2>5. Cardinality(Inside(actor.gate)) = 0
    BY <1>2, <2>4 DEF GateInv, CountExact
  <2>6. Inside(actor.gate) = {}
    BY <2>4, <2>5, InsideFinite, FS_EmptySet
  <2>7. CountExact'
    BY <1>0, InsideSame DEF GateInv, CountExact
  <2>8. GateHolds'
    <3> SUFFICES ASSUME NEW g \in Gate, Drained(g)' PROVE Inside(g) = {}
      BY <1>0, InsideSame DEF GateHolds
    <3>1. CASE g = actor.gate
      BY <3>1, <2>6
    <3>2. CASE g # actor.gate
      <4>1. Drained(g)
        BY <1>0, <3>2 DEF Drained
      <4> QED  BY <4>1 DEF GateInv, GateHolds
    <3> QED  BY <3>1, <3>2
  <2> QED  BY <2>3, <2>7, <2>8 DEF GateInv
<1> QED  BY <1>1, <1>2

\* Each step of the actor's loop, of its drains and of its stop.
LEMMA ActorStepInv ==
    ASSUME GateInv, ActorStep \/ \E kind \in {"Stop", "Drain", "Kill"} : RecvStop(kind)
    PROVE  GateInv'
<1> USE DEF gateVars, queueVars
<1>0. TypeGate
  BY DEF GateInv
<1>1. CASE Pull
  BY <1>0, <1>1, ActorMoves DEF Pull, TypeGate
<1>2. CASE Handle
  BY <1>0, <1>2, ActorMoves DEF Handle, TypeGate
<1>3. CASE HandleExit
  BY <1>0, <1>3, ActorMoves DEF HandleExit, TypeGate, Waiting
<1>4. CASE DrainSet
  BY <1>4, DrainSetStep
<1>5. CASE DrainLock
  BY <1>0, <1>5, ActorMoves DEF DrainLock, TypeGate, Waiting
<1>6. CASE DrainCheck
  BY <1>6, DrainCheckStep
<1>7. CASE DrainSleep
  BY <1>0, <1>7, ActorMoves DEF DrainSleep, TypeGate, Waiting
<1>8. CASE End
  BY <1>0, <1>8, ActorMoves DEF End, TypeGate, Waiting
<1>9. ASSUME NEW t \in Delayer, DelayedDue(t) PROVE GateInv'
  BY <1>0, <1>9, ActorMoves DEF DelayedDue, TypeGate
<1>10. ASSUME NEW kind \in {"Stop", "Drain", "Kill"}, RecvStop(kind) PROVE GateInv'
  BY <1>0, <1>10, ActorMoves DEF RecvStop, TypeGate, Waiting
<1> QED  BY <1>1, <1>2, <1>3, <1>4, <1>5, <1>6, <1>7, <1>8, <1>9, <1>10 DEF ActorStep

-----------------------------------------------------------------------------
\* Both gates are open and empty at first.
LEMMA GateInit == Init => GateInv
<1> SUFFICES ASSUME Init PROVE GateInv
  OBVIOUS
<1>1. TypeGate
  BY DEF Init, TypeGate, Gate, Waiting
<1>2. \A g \in Gate : Inside(g) = {}
  BY DEF Init, Inside
<1>3. CountExact
  BY <1>2, FS_EmptySet DEF Init, CountExact
<1> QED  BY <1>1, <1>2, <1>3 DEF GateInv, GateHolds

\* Each step of a thread and of the actor preserves the invariant of the gates.
LEMMA GateNext == GateInv /\ [Next]_vars => GateInv'
<1> SUFFICES ASSUME GateInv, [Next]_vars PROVE GateInv'
  OBVIOUS
<1>1. CASE UNCHANGED vars
  <2>1. UNCHANGED <<pc, seen, draining, active, actor>>
    BY <1>1 DEF vars
  <2> QED  BY <2>1, ActorMoves DEF GateInv, TypeGate
<1>2. ASSUME NEW t \in Thread, ThreadStep(t) PROVE GateInv'
  BY <1>2, ThreadStepInv
<1>3. CASE ActorStep \/ \E kind \in {"Stop", "Drain", "Kill"} : RecvStop(kind)
  BY <1>3, ActorStepInv
<1>4. CASE Finished
  BY <1>1, <1>4 DEF Finished
<1> QED  BY <1>1, <1>2, <1>3, <1>4 DEF Next

\* The count of a gate is the number of sends in progress, in every reachable state:
\* the assertion of the guard's drop, "handler ingress active count underflow", holds.
THEOREM GuardsCounted == Spec => []CountExact
<1>1. GateInv => CountExact
  BY DEF GateInv
<1> QED  BY GateInit, GateNext, <1>1, PTL DEF Spec

\* "After this method returns, no handler work can still be entering the actor queue
\* through a handler port" (Mailbox::drain), for any number of senders.
THEOREM DrainedGateEmpty == Spec => []GateHolds
<1>1. GateInv => GateHolds
  BY DEF GateInv
<1> QED  BY GateInit, GateNext, <1>1, PTL DEF Spec

-----------------------------------------------------------------------------
(* The work queue.  Where the threads are, as far as the queue can tell.    *)

\* The numbers with their order, as a relation.
LessThan == {p \in Nat \X Nat : p[1] < p[2]}

\* Every set of numbers that is not empty has a least one.
LEMMA LeastNumber ==
    ASSUME NEW S \in SUBSET Nat, S # {}
    PROVE  \E n \in S : \A k \in S : n <= k
<1>1. IsWellFoundedOn(LessThan, Nat)
  BY NatLessThanWellFounded DEF OpToRel, LessThan
<1>2. PICK n \in S : \A k \in S : ~(<<k, n>> \in LessThan)
  BY <1>1, WFMin
<1>3. \A k \in S : ~(k < n)
  BY <1>2 DEF LessThan
<1> QED  BY <1>3

\* The threads that have accounted for a message are finitely many.
LEMMA AccountedFinite == IsFiniteSet(Accounted) /\ IsFiniteSet(Message)
<1>1. IsFiniteSet(Message) /\ IsFiniteSet(Delayer)
  BY ThreadsAssumption, FS_Interval DEF Message, Delayer
<1>2. IsFiniteSet(Thread)
  BY <1>1, FS_Union DEF Thread
<1>3. Accounted \subseteq Thread
  BY DEF Accounted
<1> QED  BY <1>1, <1>2, <1>3, FS_Subset

\* A step of thread t to w moves t alone.
LEMMA AccountedStep ==
    ASSUME TypeGate, NEW t \in Thread, NEW w, Goto(t, w)
    PROVE  /\ Accounted' = IF w = "accounted" THEN Accounted \cup {t} ELSE Accounted \ {t}
           /\ \A u \in Thread : pc'[u] = IF u = t THEN w ELSE pc[u]
<1>1. \A u \in Thread : pc'[u] = IF u = t THEN w ELSE pc[u]
  BY DEF Goto, TypeGate
<1>2. CASE w = "accounted"
  BY <1>1, <1>2 DEF Accounted
<1>3. CASE w # "accounted"
  BY <1>1, <1>3 DEF Accounted
<1> QED  BY <1>1, <1>2, <1>3

\* A gate that is shut and empty stays so: try_enter looks at the flag in the same
\* compare-exchange that adds one.
LEMMA ClosedThread ==
    ASSUME TypeGate, Closed, NEW t \in Thread, ThreadStep(t)
    PROVE  Closed'
<1>1. "handler" \in Gate
  BY DEF Gate
<1>2. UNCHANGED draining
  BY DEF ThreadStep, Load, CompareExchange, Account, Send, Push, FetchSub, NotifyLast, gateVars
<1>3. PICK w : Goto(t, w)
  BY DEF ThreadStep, Load, CompareExchange, Account, Send, Push, FetchSub, NotifyLast,
         Expect, Entered
<1>4. CASE GateOf(t) # "handler"
  BY <1>1, <1>2, <1>3, <1>4, InsideStep DEF Closed
<1>5. CASE GateOf(t) = "handler"
  <2>1. pc[t] \notin Holding
    BY <1>5 DEF Closed, Inside, Holding
  <2>2. draining[GateOf(t)]
    BY <1>5 DEF Closed
  <2>3. Load(t) \/ CompareExchange(t) \/ NotifyLast(t)
    BY <2>1 DEF ThreadStep, Account, Send, Push, FetchSub, Holding
  <2>4. Goto(t, "rejected") \/ Goto(t, "done")
    BY <2>2, <2>3 DEF Load, CompareExchange, NotifyLast, Expect
  <2>5. Inside("handler")' = Inside("handler") \ {t}
    BY <1>1, <1>5, <2>4, InsideStep DEF Holding
  <2> QED  BY <1>2, <2>5 DEF Closed
<1> QED  BY <1>4, <1>5

\* The actor never opens a gate.
LEMMA ClosedActor ==
    ASSUME TypeGate, Closed, UNCHANGED pc, UNCHANGED draining \/ DrainSet
    PROVE  Closed'
<1>1. "handler" \in Gate
  BY DEF Gate
<1>2. draining'["handler"]
  BY <1>1 DEF Closed, DrainSet, TypeGate
<1> QED  BY <1>1, <1>2, InsideSame DEF Closed

\* A step that leaves the queue alone, and no message sent that was not.
LEMMA QueueSame ==
    ASSUME QueueInv, GateInv', TypeQueue',
           UNCHANGED <<channel, buffer, ready, handled, depth>>,
           \A m \in Message : pc'[m] \in Past <=> pc[m] \in Past,
           Accounted' = Accounted,
           Ending', ExitLast',
           actor'.at # "ended" \/ asked' = "Drain" => actor.at # "ended" \/ asked = "Drain"
    PROVE  QueueInv'
<1>1. Frontier' = Frontier
  BY DEF Frontier
<1>2. Consecutive'
  BY <1>1 DEF QueueInv, Consecutive
<1>3. OnePlace'
  <2>1. \A i \in 1..Len(channel) : channel[i] # Exit => channel[i] \in Message
    BY DEF QueueInv, TypeQueue
  <2>2. \A m \in buffer : m \in Message
    BY DEF QueueInv, TypeQueue
  <2> QED  BY <1>1, <2>1, <2>2 DEF QueueInv, OnePlace
<1>4. Kept'
  BY <1>1 DEF QueueInv, Kept
<1>5. DepthExact'
  BY DEF QueueInv, DepthExact, Accounted
<1>6. Senders'
  BY DEF QueueInv, Senders, Message
<1> QED  BY <1>2, <1>3, <1>4, <1>5, <1>6 DEF QueueInv

\* The ending of the actor, when a thread moves.
LEMMA EndingSame ==
    ASSUME QueueInv, UNCHANGED <<asked, channel, ready>>, Closed => Closed',
           UNCHANGED draining, actor'.gate = actor.gate,
           actor'.at = actor.at \/ (actor.at = "asleep" /\ actor'.at = "lock")
    PROVE  Ending' /\ ExitLast'
<1>1. Ending'
  BY DEF QueueInv, Ending, Waiting
<1>2. ExitLast'
  BY DEF QueueInv, ExitLast
<1> QED  BY <1>1, <1>2

-----------------------------------------------------------------------------
(* The threads and the queue.                                               *)

\* A thread that sends nothing: try_enter, post_after, the drop and the notification.
LEMMA QueueQuietThread ==
    ASSUME QueueInv, GateInv', NEW t \in Thread,
           Load(t) \/ CompareExchange(t) \/ Push(t) \/ FetchSub(t) \/ NotifyLast(t)
    PROVE  QueueInv'
<1>1. TypeGate /\ TypeQueue /\ ThreadStep(t)
  BY DEF QueueInv, GateInv, ThreadStep
<1>2. UNCHANGED <<channel, buffer, ready, handled, depth, asked, lock, draining>>
  BY DEF Load, CompareExchange, Push, FetchSub, NotifyLast, gateVars, queueVars
<1>3. PICK w \in {"rejected", "cas", "entered", "sent", "notify", "done"} :
          Goto(t, w) /\ pc[t] # "accounted"
          /\ (t \in Message => (w \in Past <=> pc[t] \in Past))
  <2>0. \A u : u \in Delayer => u \notin Message
    BY ThreadsAssumption DEF Delayer, Message
  <2>1. CASE Load(t)
    BY <2>1 DEF Load, Expect, Past
  <2>2. CASE CompareExchange(t)
    BY <2>2 DEF CompareExchange, Expect, Entered, Past
  <2>3. CASE Push(t)
    BY <2>3, <2>0 DEF Push
  <2>4. CASE FetchSub(t)
    BY <2>4 DEF FetchSub, Past
  <2>5. CASE NotifyLast(t)
    BY <2>5 DEF NotifyLast, Past
  <2> QED  BY <2>1, <2>2, <2>3, <2>4, <2>5
<1>4. Accounted' = Accounted
  BY <1>1, <1>3, AccountedStep DEF Accounted
<1>5. \A m \in Message : pc'[m] \in Past <=> pc[m] \in Past
  BY <1>1, <1>3, AccountedStep DEF Thread
<1>6. /\ actor'.at = actor.at \/ (actor.at = "asleep" /\ actor'.at = "lock")
      /\ actor'.gate = actor.gate
  <2>1. CASE NotifyLast(t)
    BY <1>1, <2>1 DEF NotifyLast, WakeUp, TypeGate
  <2>2. CASE ~NotifyLast(t)
    BY <2>2 DEF Load, CompareExchange, Push, FetchSub
  <2> QED  BY <2>1, <2>2
<1>7. Ending' /\ ExitLast'
  BY <1>1, <1>2, <1>6, ClosedThread, EndingSame
<1>8. TypeQueue'
  BY <1>1, <1>2 DEF TypeQueue
<1>9. actor'.at # "ended" \/ asked' = "Drain" => actor.at # "ended" \/ asked = "Drain"
  BY <1>2, <1>6
<1> QED  BY <1>2, <1>4, <1>5, <1>7, <1>8, <1>9, QueueSame

\* account_enqueue: the counter goes up before the message is anywhere.
LEMMA QueueAccount ==
    ASSUME QueueInv, GateInv', NEW t \in Thread, Account(t)
    PROVE  QueueInv'
<1>1. TypeGate /\ TypeQueue /\ ThreadStep(t)
  BY DEF QueueInv, GateInv, ThreadStep
<1>2. UNCHANGED <<channel, buffer, ready, handled, asked, lock, actor, draining>> /\ depth' = depth + 1
  BY DEF Account, gateVars
<1>3. Goto(t, "accounted") /\ pc[t] = "entered"
  BY DEF Account
<1>4. Accounted' = Accounted \cup {t} /\ t \notin Accounted
  BY <1>1, <1>3, AccountedStep DEF Accounted
<1>5. Cardinality(Accounted') = Cardinality(Accounted) + 1 /\ Cardinality(Accounted) \in Nat
  BY <1>4, AccountedFinite, FS_AddElement, FS_CardinalityType
<1>6. \A m \in Message : pc'[m] \in Past <=> pc[m] \in Past
  BY <1>1, <1>3, AccountedStep DEF Thread, Past
<1>7. Ending' /\ ExitLast'
  BY <1>1, <1>2, ClosedThread, EndingSame
<1>8. TypeQueue'
  BY <1>1, <1>2 DEF TypeQueue
<1>9. Frontier' = Frontier
  BY <1>2 DEF Frontier
<1>10. Consecutive'
  BY <1>2, <1>6, <1>9 DEF QueueInv, Consecutive
<1>11. OnePlace'
  <2>1. \A i \in 1..Len(channel) : channel[i] # Exit => channel[i] \in Message
    BY DEF QueueInv, TypeQueue
  <2>2. \A m \in buffer : m \in Message
    BY DEF QueueInv, TypeQueue
  <2> QED  BY <1>2, <1>6, <1>9, <2>1, <2>2 DEF QueueInv, OnePlace
<1>12. Kept'
  BY <1>2, <1>6, <1>9 DEF QueueInv, Kept
<1>13. DepthExact'
  <2>1. depth = Cardinality(Accounted) + Len(channel) + Cardinality(buffer) + Len(ready)
    BY DEF QueueInv, DepthExact, Accounted
  <2>2. Len(channel) \in Nat /\ Len(ready) \in Nat /\ Cardinality(buffer) \in Nat
    BY <1>1, AccountedFinite, FS_Subset, FS_CardinalityType DEF TypeQueue
  <2>3. depth' = Cardinality(Accounted') + Len(channel) + Cardinality(buffer) + Len(ready)
    BY <1>2, <1>5, <2>1, <2>2
  <2> QED  BY <1>2, <2>3 DEF DepthExact, Accounted
<1>14. Senders'
  BY <1>4 DEF QueueInv, Senders, Account, Message
<1> QED  BY <1>7, <1>8, <1>10, <1>11, <1>12, <1>13, <1>14 DEF QueueInv

\* The send: the message goes from its thread to the end of the channel, or nowhere
\* when the actor has ended.
LEMMA QueueSend ==
    ASSUME QueueInv, GateInv', NEW t \in Thread, Send(t)
    PROVE  QueueInv'
<1>1. TypeGate /\ TypeQueue /\ ThreadStep(t)
  BY DEF QueueInv, GateInv, ThreadStep
<1>2. UNCHANGED <<buffer, ready, handled, asked, lock, actor, draining>>
  BY DEF Send, gateVars
<1>3. Goto(t, "sent") /\ pc[t] = "accounted" /\ t \in Accounted
  BY DEF Send, Accounted
<1>4. Accounted' = Accounted \ {t}
  BY <1>1, <1>3, AccountedStep
<1>5. Cardinality(Accounted') = Cardinality(Accounted) - 1 /\ Cardinality(Accounted) \in Nat
      /\ Cardinality(Accounted') \in Nat
  BY <1>3, <1>4, AccountedFinite, FS_RemoveElement, FS_CardinalityType
<1>6. \A m \in Message : pc'[m] = IF m = t THEN "sent" ELSE pc[m]
  BY <1>1, <1>3, AccountedStep DEF Thread
<1>7. Frontier' = Frontier
  BY <1>2 DEF Frontier
<1>8. \A m \in Message : pc[m] \in Past => pc'[m] \in Past
  BY <1>6 DEF Past
<1>9. t \in Message /\ t \in Nat
  BY <1>1, <1>3 DEF QueueInv, Senders, Message
<1>10. ~Closed
  BY <1>3, <1>9 DEF Closed, Inside, GateOf
<1>11. Senders'
  BY <1>4 DEF QueueInv, Senders, Message
<1>12. Consecutive'
  BY <1>2, <1>7, <1>8 DEF QueueInv, Consecutive
<1>13. /\ \A i \in 1..Len(channel) : channel[i] \in Message /\ channel[i] # Exit
       /\ ~(asked = "Drain" /\ actor.at \in {"exit", "ended"})
  <2>1. \A i \in 1..Len(channel) : channel[i] # Exit
    BY <1>10 DEF QueueInv, ExitLast
  <2>2. ~(asked = "Drain" /\ actor.at \in {"exit", "ended"})
    BY <1>10 DEF QueueInv, Ending
  <2> QED  BY <1>1, <2>1, <2>2 DEF TypeQueue
<1>14. Ending'
  BY <1>2, <1>13 DEF QueueInv, Ending
<1>15. Len(channel) \in Nat /\ Len(ready) \in Nat /\ Cardinality(buffer) \in Nat
  BY <1>1, AccountedFinite, FS_Subset, FS_CardinalityType DEF TypeQueue
<1>16. depth = Cardinality(Accounted) + Len(channel) + Cardinality(buffer) + Len(ready)
  BY DEF QueueInv, DepthExact, Accounted
<1>17. \A m \in buffer : m \in Message
  BY <1>1 DEF TypeQueue
<1>18. CASE actor.at = "ended"
  <2>1. UNCHANGED channel /\ depth' = depth - 1
    BY <1>18 DEF Send
  <2>2. TypeQueue'
    BY <1>1, <1>2, <2>1 DEF TypeQueue
  <2>3. OnePlace'
    BY <1>2, <1>7, <1>8, <1>13, <1>17, <2>1 DEF QueueInv, OnePlace
  <2>4. ExitLast'
    BY <1>13, <2>1 DEF ExitLast
  <2>5. Kept'
    BY <1>2, <1>13, <1>18 DEF Kept
  <2>6. depth' = Cardinality(Accounted') + Len(channel) + Cardinality(buffer) + Len(ready)
    BY <1>5, <1>15, <1>16, <2>1
  <2>7. DepthExact'
    BY <1>2, <2>1, <2>6 DEF DepthExact, Accounted
  <2> QED  BY <1>11, <1>12, <1>14, <2>2, <2>3, <2>4, <2>5, <2>7 DEF QueueInv
<1>19. CASE actor.at # "ended"
  <2>1. channel' = Append(channel, t) /\ depth' = depth
    BY <1>19 DEF Send
  <2>2. channel' \in Seq(Message \cup {Exit})
    BY <1>1, <1>9, <2>1 DEF TypeQueue
  <2>3. /\ Len(channel') = Len(channel) + 1
        /\ channel'[Len(channel) + 1] = t
        /\ \A i \in 1..Len(channel) : channel'[i] = channel[i]
    BY <1>1, <2>1 DEF TypeQueue
  <2>4. \A i \in 1..Len(channel') : i \in 1..Len(channel) \/ i = Len(channel) + 1
    BY <2>3, <1>15
  <2>5. TypeQueue'
    BY <1>1, <1>2, <2>1, <2>2 DEF TypeQueue
  <2>6. pc[t] \notin Past /\ pc'[t] \in Past /\ t # Exit
    BY <1>3, <1>6, <1>9 DEF Past, Exit, Message
  <2>7. t > Frontier /\ Frontier \in Nat
    <3>1. Frontier \in Nat
      BY <1>1, <1>15 DEF Frontier, TypeQueue
    <3>2. t \notin 1..Frontier
      BY <2>6 DEF QueueInv, Consecutive
    <3> QED  BY <1>9, <3>1, <3>2 DEF Message
  <2>8. t \notin buffer /\ \A i \in 1..Len(channel) : channel[i] # t
    BY <2>6, <1>13 DEF QueueInv, OnePlace
  <2>9. OnePlace'
    <3>1. \A i \in 1..Len(channel') : channel'[i] # Exit =>
              pc'[channel'[i]] \in Past /\ channel'[i] \notin buffer /\ channel'[i] > Frontier
      BY <1>8, <1>13, <2>3, <2>4, <2>6, <2>7, <2>8 DEF QueueInv, OnePlace
    <3>2. \A i, j \in 1..Len(channel') : channel'[i] = channel'[j] => i = j
      BY <2>3, <2>4, <2>8 DEF QueueInv, OnePlace
    <3>3. \A m \in buffer : pc'[m] \in Past /\ m > Frontier + 1
      BY <1>8, <1>17 DEF QueueInv, OnePlace
    <3> QED  BY <1>2, <1>7, <3>1, <3>2, <3>3 DEF OnePlace
  <2>10. ExitLast'
    BY <1>13, <2>3, <2>4, <2>6 DEF ExitLast
  <2>11. Kept'
    <3> SUFFICES ASSUME NEW m \in Message, pc'[m] \in Past
                 PROVE  \/ m \in buffer \/ m <= Frontier
                        \/ \E i \in 1..Len(channel') : channel'[i] = m
      BY <1>2, <1>7 DEF Kept
    <3>1. CASE m = t
      BY <3>1, <2>3, <1>15
    <3>2. CASE m # t
      <4>1. pc[m] \in Past
        BY <1>6, <3>2
      <4>2. m \in buffer \/ m <= Frontier \/ \E i \in 1..Len(channel) : channel[i] = m
        BY <4>1, <1>19 DEF QueueInv, Kept
      <4> QED  BY <4>2, <2>3, <1>15
    <3> QED  BY <3>1, <3>2
  <2>12. depth' = Cardinality(Accounted') + Len(channel') + Cardinality(buffer) + Len(ready)
    BY <1>5, <1>15, <1>16, <2>1, <2>3
  <2>13. DepthExact'
    BY <1>2, <2>12 DEF DepthExact, Accounted
  <2> QED  BY <1>11, <1>12, <1>14, <2>5, <2>9, <2>10, <2>11, <2>13 DEF QueueInv
<1> QED  BY <1>18, <1>19

-----------------------------------------------------------------------------
(* The actor and the queue.                                                 *)

\* A set of numbers that are all at least n has a run that begins at n: what is left
\* when it is taken away is beyond a gap.
LEMMA RunFacts ==
    ASSUME NEW H \in SUBSET Nat, IsFiniteSet(H), NEW n \in Nat, \A k \in H : k >= n
    PROVE  LET R == {k \in H : \A j \in n..k : j \in H}
               c == Cardinality(R)
           IN  /\ c \in Nat
               /\ R = n..(n + c - 1)
               /\ \A k \in H \ R : k > n + c
<1> DEFINE R == {k \in H : \A j \in n..k : j \in H}
           G == {k \in Nat : k >= n /\ k \notin H}
<1>1. G # {}
  <2>1. SUFFICES ASSUME G = {} PROVE FALSE
    OBVIOUS
  <2>2. \A k \in Nat : k >= n => k \in H
    BY <2>1
  <2>3. PICK b \in Nat : b = Cardinality(H)
    BY FS_CardinalityType
  <2>4. n..(n + b) \subseteq H
    BY <2>2
  <2>5. Cardinality(n..(n + b)) = b + 1
    <3>1. n \in Int /\ n + b \in Int /\ n + b >= n
      BY <2>3
    <3>2. Cardinality(n..(n + b)) = IF n > n + b THEN 0 ELSE n + b - n + 1
      BY <3>1, FS_Interval
    <3> QED  BY <3>2, <2>3
  <2>6. Cardinality(n..(n + b)) <= Cardinality(H)
    BY <2>4, FS_Subset
  <2> QED  BY <2>3, <2>5, <2>6
<1>2. PICK e \in G : \A k \in G : e <= k
  <2> G \in SUBSET Nat
    OBVIOUS
  <2> HIDE DEF G
  <2> QED  BY <1>1, LeastNumber
<1>3. e \in Nat /\ e >= n /\ e \notin H
  OBVIOUS
<1>4. \A k \in Nat : k >= n /\ k < e => k \in H
  <2> SUFFICES ASSUME NEW k \in Nat, k >= n, k < e, k \notin H PROVE FALSE
    OBVIOUS
  <2>1. k \in G
    OBVIOUS
  <2> QED  BY <2>1, <1>2, <1>3
<1>5. R = n..(e - 1)
  <2>1. ASSUME NEW k \in R PROVE k \in n..(e - 1)
    <3>1. k \in Nat /\ k >= n /\ \A j \in n..k : j \in H
      OBVIOUS
    <3>2. e \notin n..k
      BY <3>1, <1>3
    <3> QED  BY <3>1, <3>2, <1>3
  <2>2. ASSUME NEW k \in n..(e - 1) PROVE k \in R
    <3>1. k \in Nat /\ k >= n /\ k < e
      BY <1>3
    <3>2. \A j \in n..k : j \in Nat /\ j >= n /\ j < e
      BY <3>1, <1>3
    <3> QED  BY <3>1, <3>2, <1>4
  <2> QED  BY <2>1, <2>2
<1>6. Cardinality(R) = e - n
  <2>1. n \in Int /\ e - 1 \in Int
    BY <1>3
  <2>2. Cardinality(n..(e - 1)) = IF n > e - 1 THEN 0 ELSE e - 1 - n + 1
    BY <2>1, FS_Interval
  <2>3. Cardinality(R) = Cardinality(n..(e - 1))
    BY <1>5
  <2> HIDE DEF R
  <2> QED  BY <2>2, <2>3, <1>3
<1>7. n + Cardinality(R) = e /\ Cardinality(R) \in Nat
  <2> HIDE DEF R
  <2> QED  BY <1>3, <1>6
<1>8. \A k \in H \ R : k > e
  <2> SUFFICES ASSUME NEW k \in H, k \notin R PROVE k > e
    OBVIOUS
  <2>1. k \in Nat /\ k >= n /\ k \notin n..(e - 1)
    BY <1>5
  <2>2. k # e
    BY <1>3
  <2> QED  BY <1>3, <2>1, <2>2
<1>9. PICK c : c = Cardinality(R)
  OBVIOUS
<1>10. /\ c \in Nat
       /\ R = n..(n + c - 1)
       /\ \A k \in H \ R : k > n + c
  <2> HIDE DEF R
  <2> QED  BY <1>5, <1>7, <1>8, <1>9
<1> QED  BY <1>9, <1>10

\* The steps of the actor that leave the queue alone.
LEMMA QueueQuietActor ==
    ASSUME QueueInv, GateInv',
           UNCHANGED <<channel, buffer, ready, handled, depth, pc>>,
           UNCHANGED draining \/ DrainSet,
           TypeQueue', Ending',
           asked' = "none" => asked = "none",
           asked' = "Drain" => asked = "none" \/ (actor.at # "loop" /\ asked = "Drain"),
           actor'.at # "ended" \/ asked' = "Drain" => actor.at # "ended" \/ asked = "Drain"
    PROVE  QueueInv'
<1>1. TypeGate /\ ExitLast
  BY DEF QueueInv, GateInv
<1>2. Accounted' = Accounted
  BY DEF Accounted, Thread, Message, Delayer
<1>3. ExitLast'
  <2> SUFFICES ASSUME NEW i \in 1..Len(channel), channel[i] = Exit
               PROVE  /\ i = Len(channel) /\ Closed' /\ asked' # "none"
                      /\ asked' = "Drain" => actor'.at = "loop"
    BY DEF ExitLast
  <2>1. /\ i = Len(channel) /\ Closed /\ asked # "none"
        /\ asked = "Drain" => actor.at = "loop"
    BY <1>1 DEF ExitLast
  <2>2. Closed'
    BY <1>1, <2>1, ClosedActor
  <2> QED  BY <2>1, <2>2
<1> QED  BY <1>2, <1>3, QueueSame

\* The request to stop, and the steps of a drain.
LEMMA QueueDrains ==
    ASSUME QueueInv, GateInv',
           \/ DrainSet \/ DrainLock \/ DrainSleep \/ End
           \/ DrainCheck /\ UNCHANGED <<channel, depth>>
           \/ \E t \in Delayer : DelayedDue(t)
           \/ \E kind \in {"Stop", "Drain", "Kill"} : RecvStop(kind)
    PROVE  QueueInv'
<1> USE DEF gateVars, queueVars
<1>1. TypeGate /\ TypeQueue /\ Ending
  BY DEF QueueInv, GateInv
<1>2. UNCHANGED <<channel, buffer, ready, handled, depth, pc>> /\ (UNCHANGED draining \/ DrainSet)
  BY DEF DrainLock, DrainSet, DrainSleep, End, DrainCheck, DelayedDue, RecvStop
<1>3. TypeQueue'
  <2>1. lock' \in [Gate -> {Nobody, Actor}]
    BY <1>1 DEF DrainLock, DrainSet, DrainSleep, End, DrainCheck, DelayedDue, RecvStop, TypeQueue
  <2>2. asked' \in {"none", "Stop", "Drain", "Kill"}
    BY <1>1 DEF DrainLock, DrainSet, DrainSleep, End, DrainCheck, DelayedDue, RecvStop, TypeQueue
  <2> QED  BY <1>1, <1>2, <2>1, <2>2 DEF TypeQueue
<1>4. Closed => Closed'
  BY <1>1, <1>2, ClosedActor
<1>5. CASE DrainSet \/ DrainLock \/ DrainSleep \/ End
  <2>1. UNCHANGED asked /\ actor.at # "loop" /\ actor.at # "ended" /\ actor'.at # "loop"
        /\ (actor'.at \in {"exit", "ended"} <=> actor.at = "exit")
        /\ actor.at \in {"set", "exit"} \cup Waiting /\ actor'.at # "set"
    BY <1>1, <1>5 DEF DrainSet, DrainLock, DrainSleep, End, TypeGate, Waiting
  <2>2. actor'.at \in Waiting => draining'[actor'.gate]
    <3>1. CASE DrainSet
      BY <1>1, <3>1 DEF DrainSet, TypeGate
    <3>2. CASE DrainLock \/ DrainSleep
      BY <1>1, <3>2 DEF DrainLock, DrainSleep, TypeGate, Ending, Waiting
    <3>3. CASE End
      BY <1>1, <3>3 DEF End, TypeGate, Waiting
    <3> QED  BY <1>5, <3>1, <3>2, <3>3
  <2>3. actor'.at \in {"set"} \cup Waiting => asked' \in {"Stop", "Drain"}
    BY <1>1, <2>1 DEF Ending, Waiting
  <2>4. asked' # "none"
    BY <1>1, <2>1 DEF Ending
  <2>5. Ending'
    BY <1>1, <1>2, <1>4, <2>1, <2>2, <2>3, <2>4 DEF Ending
  <2> QED  BY <1>1, <1>2, <1>3, <2>1, <2>5, QueueQuietActor
<1>6. CASE DrainCheck /\ UNCHANGED <<channel, depth>>
  <2>1. UNCHANGED asked /\ actor.at = "check" /\ actor'.at # "loop"
        /\ (actor'.at \in {"exit", "ended"} => asked = "Stop")
        /\ (actor'.at \in Waiting => actor'.gate = actor.gate)
        /\ UNCHANGED draining
    BY <1>1, <1>6 DEF DrainCheck, AfterDrain, ToLoop, TypeGate, TypeQueue, Waiting
  <2>2. Ending'
    BY <1>1, <1>2, <2>1 DEF Ending, Waiting
  <2> QED  BY <1>1, <1>2, <1>3, <2>1, <2>2, QueueQuietActor
<1>7. ASSUME NEW t \in Delayer, DelayedDue(t) PROVE QueueInv'
  <2>1. UNCHANGED <<asked, actor>> /\ asked = "none" /\ actor.at = "loop"
    BY <1>7 DEF DelayedDue, Stopping
  <2>2. Ending'
    BY <1>1, <2>1 DEF Ending, Waiting
  <2> QED  BY <1>2, <1>3, <2>1, <2>2, QueueQuietActor
<1>8. ASSUME NEW kind \in {"Stop", "Drain", "Kill"}, RecvStop(kind) PROVE QueueInv'
  <2>1. asked' = kind /\ actor.at = "loop" /\ actor'.at = (IF kind = "Kill" THEN "exit" ELSE "set")
        /\ (kind = "Drain" => asked = "none")
    BY <1>1, <1>8 DEF RecvStop, TypeGate
  <2>2. Ending'
    BY <2>1 DEF Ending, Waiting
  <2> QED  BY <1>2, <1>3, <2>1, <2>2, QueueQuietActor
<1> QED  BY <1>5, <1>6, <1>7, <1>8

\* exit_after_drain: the exit item goes behind everything, through a gate nobody is in.
LEMMA QueueExitItem ==
    ASSUME QueueInv, GateInv', DrainCheck, ~UNCHANGED <<channel, depth>>
    PROVE  QueueInv'
<1>1. TypeGate /\ TypeQueue /\ Ending /\ ExitLast /\ GateInv
  BY DEF QueueInv, GateInv
<1>2. /\ actor.at = "check" /\ active[actor.gate] = 0 /\ actor.gate # "delayed" /\ asked # "Stop"
      /\ actor' = [at |-> "loop", gate |-> "delayed"]
      /\ channel' = Append(channel, Exit) /\ depth' = depth + 1
      /\ UNCHANGED <<draining, active, pc, seen, asked, buffer, ready, handled>>
      /\ lock' = [lock EXCEPT ![actor.gate] = Nobody]
  BY DEF DrainCheck, AfterDrain, ToLoop
<1>3. actor.gate = "handler"
  BY <1>1, <1>2 DEF TypeGate, Gate
<1>4. Closed'
  <2>1. "handler" \in Gate
    BY DEF Gate
  <2>2. Cardinality(Inside("handler")) = 0
    BY <1>1, <1>2, <1>3, <2>1 DEF GateInv, CountExact
  <2>3. Inside("handler") = {}
    BY <2>1, <2>2, InsideFinite, FS_EmptySet
  <2>4. draining["handler"]
    BY <1>1, <1>2, <1>3 DEF Ending, Waiting
  <2> QED  BY <1>2, <2>1, <2>3, <2>4, InsideSame DEF Closed
<1>5. asked = "Drain"
  BY <1>1, <1>2 DEF Ending, Waiting
<1>6. \A i \in 1..Len(channel) : channel[i] # Exit /\ channel[i] \in Message
  BY <1>1, <1>2, <1>5 DEF ExitLast, TypeQueue
<1>7. TypeQueue'
  <2>1. channel' \in Seq(Message \cup {Exit})
    BY <1>1, <1>2 DEF TypeQueue
  <2>2. lock' \in [Gate -> {Nobody, Actor}]
    BY <1>1, <1>2 DEF TypeQueue
  <2>3. depth' \in Int
    BY <1>1, <1>2 DEF TypeQueue
  <2> QED  BY <1>1, <1>2, <2>1, <2>2, <2>3 DEF TypeQueue
<1>8. Frontier' = Frontier /\ Accounted' = Accounted
  BY <1>2 DEF Frontier, Accounted, Thread, Message, Delayer
<1>9. Len(channel) \in Nat /\ Len(ready) \in Nat /\ Cardinality(buffer) \in Nat
      /\ Cardinality(Accounted) \in Nat
  BY <1>1, AccountedFinite, FS_Subset, FS_CardinalityType DEF TypeQueue
<1>10. /\ Len(channel') = Len(channel) + 1
       /\ channel'[Len(channel) + 1] = Exit
       /\ \A i \in 1..Len(channel) : channel'[i] = channel[i]
  BY <1>1, <1>2 DEF TypeQueue
<1>11. \A i \in 1..Len(channel') : i \in 1..Len(channel) \/ i = Len(channel) + 1
  BY <1>9, <1>10
<1>12. Consecutive' /\ Senders'
  BY <1>2, <1>8 DEF QueueInv, Consecutive, Senders, Message
<1>13. OnePlace'
  <2>1. \A i \in 1..Len(channel') : channel'[i] # Exit =>
            pc'[channel'[i]] \in Past /\ channel'[i] \notin buffer /\ channel'[i] > Frontier
    BY <1>2, <1>10, <1>11 DEF QueueInv, OnePlace
  <2>2. \A i, j \in 1..Len(channel') : channel'[i] = channel'[j] => i = j
    BY <1>6, <1>10, <1>11 DEF QueueInv, OnePlace
  <2> QED  BY <1>2, <1>8, <2>1, <2>2 DEF QueueInv, OnePlace
<1>14. ExitLast'
  BY <1>2, <1>4, <1>5, <1>6, <1>10, <1>11 DEF ExitLast
<1>15. Ending'
  BY <1>2, <1>5 DEF Ending, Waiting
<1>16. Kept'
  <2> SUFFICES ASSUME NEW m \in Message, pc[m] \in Past
               PROVE  \/ m \in buffer \/ m <= Frontier
                      \/ \E i \in 1..Len(channel') : channel'[i] = m
    BY <1>2, <1>8 DEF Kept
  <2>1. m \in buffer \/ m <= Frontier \/ \E i \in 1..Len(channel) : channel[i] = m
    BY <1>2 DEF QueueInv, Kept
  <2> QED  BY <2>1, <1>9, <1>10
<1>17. DepthExact'
  <2>1. depth = Cardinality(Accounted) + Len(channel) + Cardinality(buffer) + Len(ready)
    BY DEF QueueInv, DepthExact, Accounted
  <2>2. depth' = Cardinality(Accounted') + Len(channel') + Cardinality(buffer) + Len(ready)
    BY <1>2, <1>8, <1>9, <1>10, <2>1
  <2> QED  BY <1>2, <2>2 DEF DepthExact, Accounted
<1> QED  BY <1>7, <1>12, <1>13, <1>14, <1>15, <1>16, <1>17 DEF QueueInv

\* What is left of the channel when its head is taken.
LEMMA ChannelTail ==
    ASSUME QueueInv, channel # <<>>, channel' = Tail(channel)
    PROVE  /\ channel' \in Seq(Message \cup {Exit})
           /\ Len(channel') = Len(channel) - 1 /\ Len(channel) \in Nat /\ Len(channel') \in Nat
           /\ Head(channel) = channel[1] /\ 1 \in 1..Len(channel)
           /\ \A i \in 1..Len(channel') : channel'[i] = channel[i + 1] /\ i + 1 \in 1..Len(channel)
           /\ \A i \in 1..Len(channel) : i # 1 => i - 1 \in 1..Len(channel') /\ channel'[i - 1] = channel[i]
<1>1. channel \in Seq(Message \cup {Exit})
  BY DEF QueueInv, TypeQueue
<1>2. /\ channel' \in Seq(Message \cup {Exit})
      /\ Len(channel') = Len(channel) - 1 /\ Len(channel) \in Nat /\ Len(channel) >= 1
      /\ Head(channel) = channel[1]
      /\ \A i \in 1..(Len(channel) - 1) : Tail(channel)[i] = channel[i + 1]
  BY <1>1
<1>3. \A i \in 1..Len(channel') : channel'[i] = channel[i + 1] /\ i + 1 \in 1..Len(channel)
  BY <1>2
<1>4. ASSUME NEW i \in 1..Len(channel), i # 1
      PROVE  i - 1 \in 1..Len(channel') /\ channel'[i - 1] = channel[i]
  <2>1. i - 1 \in 1..Len(channel') /\ (i - 1) + 1 = i
    BY <1>2, <1>4
  <2> QED  BY <2>1, <1>3
<1> QED  BY <1>2, <1>3, <1>4

\* The exit item is handled: the channel is empty then, since nothing is behind it.
LEMMA QueueHandleExit ==
    ASSUME QueueInv, GateInv', HandleExit
    PROVE  QueueInv'
<1> USE DEF gateVars
<1>1. TypeGate /\ TypeQueue /\ Ending /\ ExitLast
  BY DEF QueueInv, GateInv
<1>2. /\ actor.at = "loop" /\ ready = <<>> /\ channel # <<>> /\ Head(channel) = Exit
      /\ channel' = Tail(channel) /\ depth' = depth - 1
      /\ UNCHANGED <<draining, lock, pc, asked, buffer, ready, handled>>
      /\ actor'.at = "exit"
  BY <1>1 DEF HandleExit, TypeGate
<1>3. channel[1] = Exit /\ 1 = Len(channel) /\ Closed /\ asked # "none"
  BY <1>1, <1>2, ChannelTail DEF ExitLast
<1>4. Len(channel') = 0 /\ channel' = <<>>
  <2>1. channel' \in Seq(Message \cup {Exit}) /\ Len(channel') = 0
    BY <1>2, <1>3, ChannelTail
  <2> QED  BY <2>1
<1>5. Closed'
  BY <1>1, <1>2, <1>3, ClosedActor
<1>6. TypeQueue'
  <2>1. channel' \in Seq(Message \cup {Exit})
    BY <1>2, ChannelTail
  <2> QED  BY <1>1, <1>2, <2>1 DEF TypeQueue
<1>7. Frontier' = Frontier /\ Accounted' = Accounted
  BY <1>2 DEF Frontier, Accounted, Thread, Message, Delayer
<1>8. Consecutive' /\ Senders'
  BY <1>2, <1>7 DEF QueueInv, Consecutive, Senders, Message
<1>9. OnePlace'
  BY <1>2, <1>4, <1>7 DEF QueueInv, OnePlace
<1>10. ExitLast'
  BY <1>4 DEF ExitLast
<1>11. Ending'
  BY <1>2, <1>3, <1>4, <1>5 DEF Ending, Waiting
<1>12. Kept'
  <2> SUFFICES ASSUME NEW m \in Message, pc[m] \in Past
               PROVE  m \in buffer \/ m <= Frontier
    BY <1>2, <1>7 DEF Kept
  <2>1. m \in buffer \/ m <= Frontier \/ \E i \in 1..Len(channel) : channel[i] = m
    BY <1>2 DEF QueueInv, Kept
  <2>2. ASSUME NEW i \in 1..Len(channel), channel[i] = m PROVE FALSE
    <3>1. i = 1
      <4>1. Len(channel) = 1
        BY <1>3
      <4> QED  BY <2>2, <4>1
    <3> QED  BY <1>3, <2>2, <3>1 DEF Exit, Message
  <2> QED  BY <2>1, <2>2
<1>13. DepthExact'
  <2>1. depth = Cardinality(Accounted) + Len(channel) + Cardinality(buffer) + Len(ready)
    BY DEF QueueInv, DepthExact, Accounted
  <2>2. Len(channel) \in Nat /\ Len(ready) \in Nat /\ Cardinality(buffer) \in Nat
        /\ Cardinality(Accounted) \in Nat
    BY <1>1, AccountedFinite, FS_Subset, FS_CardinalityType DEF TypeQueue
  <2>3. depth' = Cardinality(Accounted') + Len(channel') + Cardinality(buffer) + Len(ready)
    BY <1>2, <1>3, <1>4, <1>7, <2>1, <2>2
  <2> QED  BY <1>2, <2>3 DEF DepthExact, Accounted
<1> QED  BY <1>6, <1>8, <1>9, <1>10, <1>11, <1>12, <1>13 DEF QueueInv

\* A message is handled: the first of those released, and the next in order.
LEMMA QueueHandle ==
    ASSUME QueueInv, GateInv', Handle
    PROVE  QueueInv'
<1> USE DEF gateVars
<1>1. TypeGate /\ TypeQueue /\ Ending /\ ExitLast /\ Consecutive
  BY DEF QueueInv, GateInv
<1>2. /\ actor.at = "loop" /\ ready # <<>>
      /\ handled' = Append(handled, Head(ready)) /\ ready' = Tail(ready)
      /\ depth' = depth - 1
      /\ UNCHANGED <<draining, lock, pc, asked, actor, buffer, channel>>
  BY DEF Handle
<1>3. /\ ready' \in Seq(Nat) /\ Len(ready') = Len(ready) - 1 /\ Len(ready) \in Nat
      /\ Len(ready) >= 1 /\ Head(ready) = ready[1] /\ ready[1] \in Nat
      /\ \A i \in 1..(Len(ready) - 1) : ready'[i] = ready[i + 1]
  BY <1>1, <1>2 DEF TypeQueue
<1>4. /\ handled' \in Seq(Nat) /\ Len(handled') = Len(handled) + 1 /\ Len(handled) \in Nat
      /\ handled'[Len(handled) + 1] = ready[1]
      /\ \A i \in 1..Len(handled) : handled'[i] = handled[i]
  BY <1>1, <1>2, <1>3 DEF TypeQueue
<1>5. ready[1] = Len(handled) + 1
  BY <1>1, <1>3 DEF Consecutive
<1>6. Frontier' = Frontier /\ Accounted' = Accounted
  <2>1. Frontier' = Frontier
    BY <1>3, <1>4 DEF Frontier
  <2> QED  BY <1>2, <2>1 DEF Accounted, Thread, Message, Delayer
<1>7. TypeQueue'
  <2>1. depth' \in Int
    BY <1>1, <1>2 DEF TypeQueue
  <2> QED  BY <1>1, <1>2, <1>3, <1>4, <2>1 DEF TypeQueue
<1>8. Consecutive'
  <2>1. ASSUME NEW i \in 1..Len(handled') PROVE handled'[i] = i
    <3>1. i \in 1..Len(handled) \/ i = Len(handled) + 1
      BY <1>4
    <3> QED  BY <1>1, <1>4, <1>5, <3>1 DEF Consecutive
  <2>2. ASSUME NEW i \in 1..Len(ready') PROVE ready'[i] = Len(handled') + i
    <3>1. i \in 1..(Len(ready) - 1) /\ i + 1 \in 1..Len(ready)
      BY <1>3
    <3>2. ready[i + 1] = Len(handled) + (i + 1)
      BY <1>1, <3>1 DEF Consecutive
    <3> QED  BY <1>3, <1>4, <3>1, <3>2
  <2> QED  BY <1>1, <1>2, <1>6, <2>1, <2>2 DEF Consecutive
<1>9. OnePlace' /\ Senders'
  BY <1>2, <1>6 DEF QueueInv, OnePlace, Senders, Message
<1>10. Closed => Closed'
  BY <1>1, <1>2, ClosedActor
<1>11. ExitLast'
  BY <1>1, <1>2, <1>10 DEF ExitLast
<1>12. Ending'
  BY <1>1, <1>2 DEF Ending, Waiting
<1>13. Kept'
  BY <1>2, <1>6 DEF QueueInv, Kept
<1>14. DepthExact'
  <2>1. depth = Cardinality(Accounted) + Len(channel) + Cardinality(buffer) + Len(ready)
    BY DEF QueueInv, DepthExact, Accounted
  <2>2. Len(channel) \in Nat /\ Cardinality(buffer) \in Nat /\ Cardinality(Accounted) \in Nat
    BY <1>1, AccountedFinite, FS_Subset, FS_CardinalityType DEF TypeQueue
  <2>3. depth' = Cardinality(Accounted') + Len(channel) + Cardinality(buffer) + Len(ready')
    BY <1>2, <1>3, <1>6, <2>1, <2>2
  <2> QED  BY <1>2, <2>3 DEF DepthExact, Accounted
<1> QED  BY <1>7, <1>8, <1>9, <1>11, <1>12, <1>13, <1>14 DEF QueueInv

\* A message is received: it waits in the buffer, or it is released with the run of
\* messages that waited for it.
LEMMA QueuePull ==
    ASSUME QueueInv, GateInv', Pull
    PROVE  QueueInv'
<1> USE DEF gateVars
<1>1. TypeGate /\ TypeQueue /\ Ending /\ ExitLast /\ Consecutive /\ OnePlace
  BY DEF QueueInv, GateInv
<1>2. PICK m : m = Head(channel)
  OBVIOUS
<1>3. PICK R : R = Released(m)
  OBVIOUS
<1>4. PICK H : H = buffer \cup {m}
  OBVIOUS
<1>5. PICK c : c = Cardinality(R)
  OBVIOUS
<1>6. /\ actor.at = "loop" /\ ready = <<>> /\ channel # <<>> /\ m # Exit
      /\ ready' = [i \in 1..c |-> Len(handled) + i]
      /\ buffer' = H \ R
      /\ channel' = Tail(channel)
      /\ UNCHANGED <<draining, lock, pc, asked, actor, handled, depth>>
  BY <1>2, <1>3, <1>4, <1>5 DEF Pull
<1>7. Len(handled) \in Nat /\ Frontier = Len(handled)
  BY <1>1, <1>6 DEF TypeQueue, Frontier
<1>8. /\ m \in Message /\ m \in Nat /\ pc[m] \in Past /\ m \notin buffer /\ m > Len(handled)
  <2>1. m = channel[1] /\ 1 \in 1..Len(channel)
    BY <1>2, <1>6, ChannelTail
  <2>2. m \in Message
    BY <1>1, <1>6, <2>1 DEF TypeQueue
  <2> QED  BY <1>1, <1>6, <1>7, <2>1, <2>2 DEF OnePlace, Message
<1>9. H \in SUBSET Message /\ H \in SUBSET Nat /\ IsFiniteSet(H) /\ IsFiniteSet(buffer)
      /\ Cardinality(H) = Cardinality(buffer) + 1
  <2>1. buffer \in SUBSET Message
    BY <1>1 DEF TypeQueue
  <2>2. H \in SUBSET Message /\ H \in SUBSET Nat
    BY <1>4, <1>8, <2>1 DEF Message
  <2>3. IsFiniteSet(buffer) /\ IsFiniteSet(H)
    BY <2>1, <2>2, AccountedFinite, FS_Subset
  <2> QED  BY <1>4, <1>8, <2>2, <2>3, FS_AddElement
<1>10. \A k \in H : k >= Len(handled) + 1 /\ pc[k] \in Past
  BY <1>1, <1>4, <1>7, <1>8, <1>9 DEF OnePlace
<1>11. R = {k \in H : \A j \in (Len(handled) + 1)..k : j \in H}
  BY <1>3, <1>4 DEF Released
<1>12. /\ c \in Nat
       /\ R = (Len(handled) + 1)..(Len(handled) + 1 + c - 1)
       /\ \A k \in H \ R : k > Len(handled) + 1 + c
  <2>1. Len(handled) + 1 \in Nat
    BY <1>7
  <2> QED  BY <1>5, <1>9, <1>10, <1>11, <2>1, RunFacts
<1>13. R \subseteq H /\ \A k \in Nat : k \in R <=> k > Len(handled) /\ k <= Len(handled) + c
  BY <1>7, <1>11, <1>12
<1>14. ready' \in Seq(Nat) /\ Len(ready') = c /\ \A i \in 1..c : ready'[i] = Len(handled) + i
  BY <1>6, <1>7, <1>12
<1>15. Frontier' = Len(handled) + c /\ Accounted' = Accounted
  BY <1>6, <1>14 DEF Frontier, Accounted, Thread, Message, Delayer
<1>16. TypeQueue'
  <2>1. channel' \in Seq(Message \cup {Exit})
    BY <1>6, ChannelTail
  <2>2. buffer' \in SUBSET Message
    BY <1>6, <1>9
  <2> QED  BY <1>1, <1>6, <1>14, <2>1, <2>2 DEF TypeQueue
<1>17. Consecutive'
  <2>1. ASSUME NEW k \in 1..Frontier' PROVE k \in Message /\ pc[k] \in Past
    <3>1. CASE k <= Len(handled)
      <4>1. k \in 1..Frontier
        BY <1>7, <1>15, <3>1
      <4> QED  BY <1>1, <4>1 DEF Consecutive
    <3>2. CASE k > Len(handled)
      <4>1. k \in H
        BY <1>7, <1>12, <1>13, <1>15, <3>2
      <4> QED  BY <1>9, <1>10, <4>1
    <3> QED  BY <1>7, <3>1, <3>2
  <2> QED  BY <1>1, <1>6, <1>14, <2>1 DEF Consecutive, Message
<1>18. OnePlace'
  <2>1. ASSUME NEW i \in 1..Len(channel'), channel'[i] # Exit
        PROVE  /\ pc[channel'[i]] \in Past /\ channel'[i] \notin buffer'
               /\ channel'[i] > Frontier'
    <3>1. channel'[i] = channel[i + 1] /\ i + 1 \in 1..Len(channel) /\ i + 1 # 1
          /\ m = channel[1] /\ 1 \in 1..Len(channel)
      BY <1>2, <1>6, ChannelTail
    <3>2. channel[i + 1] # m
      BY <1>1, <3>1 DEF OnePlace
    <3>3. /\ pc[channel[i + 1]] \in Past /\ channel[i + 1] \notin buffer
          /\ channel[i + 1] > Len(handled)
      BY <1>1, <1>7, <2>1, <3>1 DEF OnePlace
    <3>4. channel[i + 1] \in Nat
      BY <1>1, <2>1, <3>1 DEF TypeQueue, Message
    <3>5. channel[i + 1] \notin H
      BY <1>4, <3>2, <3>3
    <3>6. channel[i + 1] > Len(handled) + c
      BY <1>7, <1>12, <1>13, <3>3, <3>4, <3>5
    <3> QED  BY <1>6, <1>15, <3>1, <3>3, <3>5, <3>6
  <2>2. ASSUME NEW i \in 1..Len(channel'), NEW j \in 1..Len(channel'), channel'[i] = channel'[j]
        PROVE  i = j
    <3>1. /\ channel'[i] = channel[i + 1] /\ i + 1 \in 1..Len(channel)
          /\ channel'[j] = channel[j + 1] /\ j + 1 \in 1..Len(channel)
      BY <1>6, ChannelTail
    <3>2. i + 1 = j + 1
      BY <1>1, <2>2, <3>1 DEF OnePlace
    <3> QED  BY <3>2
  <2>3. ASSUME NEW k \in buffer' PROVE pc[k] \in Past /\ k > Frontier' + 1
    <3>1. k \in H /\ k \notin R /\ k \in Nat
      BY <1>6, <1>9
    <3> QED  BY <1>7, <1>10, <1>12, <1>15, <3>1
  <2> QED  BY <1>6, <2>1, <2>2, <2>3 DEF OnePlace
<1>19. Closed => Closed'
  BY <1>1, <1>6, ClosedActor
<1>20. ExitLast'
  <2> SUFFICES ASSUME NEW i \in 1..Len(channel'), channel'[i] = Exit
               PROVE  /\ i = Len(channel') /\ Closed' /\ asked # "none"
                      /\ asked = "Drain" => actor.at = "loop"
    BY <1>6 DEF ExitLast
  <2>1. channel[i + 1] = Exit /\ i + 1 \in 1..Len(channel)
        /\ Len(channel') = Len(channel) - 1 /\ Len(channel) \in Nat
    BY <1>6, ChannelTail
  <2>2. i + 1 = Len(channel) /\ Closed /\ asked # "none"
    BY <1>1, <2>1 DEF ExitLast
  <2>3. i = Len(channel')
    <3>1. i \in Int
      OBVIOUS
    <3>2. i + 1 = Len(channel) /\ Len(channel') = Len(channel) - 1 /\ Len(channel) \in Nat
      BY <2>1, <2>2
    <3> QED  BY <3>1, <3>2
  <2> QED  BY <1>6, <1>19, <2>2, <2>3
<1>21. Ending'
  BY <1>1, <1>6 DEF Ending, Waiting
<1>22. Kept'
  <2> SUFFICES ASSUME NEW k \in Message, pc[k] \in Past
               PROVE  \/ k \in buffer' \/ k <= Frontier'
                      \/ \E i \in 1..Len(channel') : channel'[i] = k
    BY <1>6 DEF Kept
  <2>0. k \in Nat
    BY DEF Message
  <2>1. ASSUME k \in H PROVE k \in buffer' \/ k <= Frontier'
    BY <1>6, <1>13, <1>15, <2>0, <2>1
  <2>2. k \in buffer \/ k <= Frontier \/ \E i \in 1..Len(channel) : channel[i] = k
    BY <1>6 DEF QueueInv, Kept
  <2>3. CASE k \in buffer
    BY <1>4, <2>1, <2>3
  <2>4. CASE k <= Frontier
    BY <1>7, <1>12, <1>15, <2>0, <2>4
  <2>5. ASSUME NEW i \in 1..Len(channel), channel[i] = k
        PROVE  k \in H \/ \E j \in 1..Len(channel') : channel'[j] = k
    <3>1. CASE i = 1
      BY <1>2, <1>4, <1>6, <2>5, <3>1, ChannelTail
    <3>2. CASE i # 1
      <4>1. i - 1 \in 1..Len(channel') /\ channel'[i - 1] = channel[i]
        BY <1>6, <3>2, ChannelTail
      <4> QED  BY <2>5, <4>1
    <3> QED  BY <3>1, <3>2
  <2> QED  BY <2>1, <2>2, <2>3, <2>4, <2>5
<1>23. DepthExact'
  <2>1. depth = Cardinality(Accounted) + Len(channel) + Cardinality(buffer) + Len(ready)
    BY DEF QueueInv, DepthExact, Accounted
  <2>2. Cardinality(buffer) \in Nat /\ Cardinality(Accounted) \in Nat /\ Len(ready) = 0
    BY <1>6, <1>9, AccountedFinite, FS_CardinalityType
  <2>3. Cardinality(buffer') = Cardinality(buffer) + 1 - c
    <3>1. H \cap R = R
      BY <1>13
    <3>2. Cardinality(H \ R) = Cardinality(H) - Cardinality(H \cap R)
      BY <1>9, FS_Difference
    <3>3. Cardinality(H \ R) = Cardinality(H) - c
      BY <1>5, <3>1, <3>2
    <3> QED  BY <1>6, <1>9, <1>12, <2>2, <3>3
  <2>4. Len(channel') = Len(channel) - 1 /\ Len(channel) \in Nat
    BY <1>6, ChannelTail
  <2>5. depth' = Cardinality(Accounted') + Len(channel') + Cardinality(buffer') + Len(ready')
    BY <1>6, <1>12, <1>14, <1>15, <2>1, <2>2, <2>3, <2>4
  <2> QED  BY <2>5 DEF DepthExact, Accounted
<1>24. Senders'
  BY <1>15 DEF QueueInv, Senders, Message
<1> QED  BY <1>16, <1>17, <1>18, <1>20, <1>21, <1>22, <1>23, <1>24 DEF QueueInv

-----------------------------------------------------------------------------
(* The theorems about the queue.                                            *)

\* Nothing is queued, sent or asked for at first.
LEMMA QueueInit == Init => QueueInv
<1> SUFFICES ASSUME Init PROVE QueueInv
  OBVIOUS
<1>1. GateInv
  BY GateInit
<1>2. TypeQueue
  BY DEF Init, TypeQueue, Gate
<1>3. Accounted = {}
  BY DEF Init, Accounted
<1>4. Frontier = 0
  BY DEF Init, Frontier
<1>5. Senders /\ Consecutive
  BY <1>3, <1>4 DEF Init, Senders, Consecutive
<1>6. OnePlace /\ ExitLast /\ Ending
  BY DEF Init, OnePlace, ExitLast, Ending, Waiting
<1>7. Kept
  BY DEF Init, Kept, Thread, Past
<1>8. DepthExact
  <2>1. Cardinality(Accounted) = 0 /\ Cardinality(buffer) = 0
    BY <1>3, FS_EmptySet DEF Init
  <2> QED  BY <2>1 DEF Init, DepthExact, Accounted
<1> QED  BY <1>1, <1>2, <1>5, <1>6, <1>7, <1>8 DEF QueueInv

\* Each step of a thread and of the actor preserves the invariant of the queue.
LEMMA QueueNext == QueueInv /\ [Next]_vars => QueueInv'
<1> SUFFICES ASSUME QueueInv, [Next]_vars PROVE QueueInv'
  OBVIOUS
<1>0. GateInv' /\ TypeGate
  BY GateNext DEF QueueInv, GateInv
<1>1. CASE UNCHANGED vars
  <2>1. UNCHANGED <<pc, draining, actor, asked, channel, buffer, ready, handled, depth, lock>>
    BY <1>1 DEF vars
  <2>2. Closed => Closed'
    BY <1>0, <2>1, ClosedActor
  <2>3. Ending' /\ ExitLast'
    BY <2>1, <2>2, EndingSame
  <2>4. TypeQueue' /\ Accounted' = Accounted
    BY <2>1 DEF QueueInv, TypeQueue, Accounted, Thread, Message, Delayer, Gate
  <2> QED  BY <1>0, <2>1, <2>3, <2>4, QueueSame
<1>2. ASSUME NEW t \in Thread, ThreadStep(t) PROVE QueueInv'
  BY <1>0, <1>2, QueueQuietThread, QueueAccount, QueueSend DEF ThreadStep
<1>3. CASE ActorStep \/ \E kind \in {"Stop", "Drain", "Kill"} : RecvStop(kind)
  BY <1>0, <1>3, QueuePull, QueueHandle, QueueHandleExit, QueueExitItem, QueueDrains DEF ActorStep
<1>4. CASE Finished
  BY <1>1, <1>4 DEF Finished
<1> QED  BY <1>1, <1>2, <1>3, <1>4 DEF Next

\* The invariant of the queue holds in every reachable state, for any number of
\* messages and of delayed posts.
THEOREM QueueInvariant == Spec => []QueueInv
BY QueueInit, QueueNext, PTL DEF Spec

\* The types, with the assertion of the guard's drop among them, hold always.
THEOREM IngressTypes == Spec => []TypeOK
<1>1. QueueInv => TypeOK
  <2> SUFFICES ASSUME QueueInv PROVE TypeOK
    OBVIOUS
  <2>1. {"load", "cas", "rejected", "notify", "done"} \cup Holding
        = {"load", "cas", "entered", "accounted", "rejected"} \cup Past
    BY DEF Holding, Past
  <2> QED  BY <2>1 DEF QueueInv, GateInv, TypeGate, TypeQueue, CountExact, TypeOK
<1> QED  BY QueueInvariant, <1>1, PTL

\* queue_depth counts the work items between account_enqueue and account_dequeue,
\* wherever they wait: it does not drift, whatever the order of the sends, of the
\* reordering and of the actor's end.
THEOREM DepthIsExact == Spec => []DepthExact
<1>1. QueueInv => DepthExact
  BY DEF QueueInv
<1> QED  BY QueueInvariant, <1>1, PTL

\* DrainAndStop handles all it accepted: a message that got past the gate with its
\* predecessors was in front of the exit item, and nothing else can be there.
THEOREM DrainIsComplete == Spec => []DrainHandlesAll
<1>1. QueueInv => DrainHandlesAll
  <2> SUFFICES ASSUME QueueInv, actor.at = "ended", asked = "Drain"
               PROVE  /\ \A m \in Message : (\A k \in 1..m : pc[k] \in Past) => Len(handled) >= m
                      /\ \A i \in 1..Len(handled) : handled[i] = i
    BY DEF DrainHandlesAll
  <2>1. channel = <<>> /\ ready = <<>>
    BY DEF QueueInv, Ending
  <2>2. Len(handled) \in Nat /\ Frontier = Len(handled)
    BY <2>1 DEF QueueInv, TypeQueue, Frontier
  <2>3. ASSUME NEW m \in Message, \A k \in 1..m : pc[k] \in Past, ~(Len(handled) >= m)
        PROVE  FALSE
    <3>1. PICK n \in Nat : n = Len(handled) + 1
      BY <2>2
    <3>2. m \in Nat /\ n \in 1..m /\ n \in Message
      BY <2>2, <2>3, <3>1, ThreadsAssumption DEF Message
    <3>3. n \in buffer \/ n <= Frontier \/ \E i \in 1..Len(channel) : channel[i] = n
      BY <2>3, <3>2 DEF QueueInv, Kept
    <3>4. n \in buffer
      BY <2>1, <2>2, <3>1, <3>3
    <3>5. n > Frontier + 1
      BY <3>4 DEF QueueInv, OnePlace
    <3> QED  BY <2>2, <3>1, <3>5
  <2>4. \A i \in 1..Len(handled) : handled[i] = i
    BY DEF QueueInv, Consecutive
  <2> QED  BY <2>3, <2>4
<1> QED  BY QueueInvariant, <1>1, PTL
=============================================================================
