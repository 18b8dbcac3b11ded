--------------------------- MODULE KeepaliveProofs ---------------------------
(***************************************************************************)
(* Proofs about KeepaliveLink, for every interval, timeout, delay and      *)
(* length of the run, KeepaliveLink::default's equal interval and timeout  *)
(* among them.  Only what keeps a healthy link up has a condition on the   *)
(* times, and each side its own.                                           *)
(*                                                                         *)
(* LinkInv has four layers: the clock (nothing is overdue), the order of   *)
(* the generations, what makes a healthy link's timers harmless (the       *)
(* message that disarms a timer is on its way, and will arrive before the  *)
(* timer is due), and what makes the timers of a lost link fatal (one that *)
(* nothing can disarm any more is armed, or the one that arms it is).      *)
(***************************************************************************)
EXTENDS KeepaliveLink, TLAPS

Flight == [generation : Nat, sent : Nat]
WTimer == [kind : {"SendKeepalive", "AckDeadline"}, generation : Nat, due : Nat]
STimer == [kind : {"Deadline"}, generation : Nat, due : Nat]

TypeLink ==
    /\ now \in 0..MaxTime
    /\ worker \in [status : Status, generation : Nat, acked : Nat]
    /\ supervisor \in [status : Status, generation : Nat]
    /\ wTimers \subseteq WTimer /\ sTimers \subseteq STimer
    /\ keepalives \in Seq(Flight) /\ acks \in Seq(Flight)
    /\ cutAt \in 0..Never /\ endedAt \in [Side -> 0..Never]

WLive == worker.status = "live"
SLive == supervisor.status = "live"
Send(u) == u.kind = "SendKeepalive"

\* Nothing is overdue: Tick waits for it.
InFlight(q) == \A i \in DOMAIN q : q[i].sent <= now /\ now <= q[i].sent + MaxDelay
Punctual ==
    /\ WLive => \A t \in wTimers : now <= t.due
    /\ SLive => \A t \in sTimers : now <= t.due
    /\ InFlight(keepalives) /\ InFlight(acks)
    /\ worker.status = "unborn" => now <= SpawnDelay

\* The times at which the path and the sides were lost are in the past.
Ends ==
    /\ Linked \/ (cutAt <= now /\ keepalives = <<>> /\ acks = <<>>)
    /\ supervisor.status # "unborn"
    /\ IF SLive THEN endedAt["supervisor"] = Never ELSE endedAt["supervisor"] <= now
    /\ IF worker.status \in {"unborn", "live"} THEN endedAt["worker"] = Never
                                               ELSE endedAt["worker"] <= now

\* What each side knows lags behind what the other did.
Order ==
    /\ GenerationsInOrder
    /\ worker.acked <= supervisor.generation
    /\ supervisor.generation <= worker.generation
    /\ \A i \in DOMAIN keepalives : keepalives[i].generation <= worker.generation
    /\ worker.status = "unborn" =>
           worker.generation = 0 /\ keepalives = <<>> /\ wTimers = {}

\* A worker that lives has exactly one SendKeepalive timer, of its generation.
Sending ==
    WLive =>
        /\ \E u \in wTimers : Send(u)
        /\ \A u, v \in wTimers : Send(u) /\ Send(v) => u = v
        /\ \A u \in wTimers :
               Send(u) => u.generation = worker.generation /\ u.due <= now + Interval

\* While the worker runs, the deadline of the last keepalive is due only after the
\* next one arrives, be that in flight, to be sent, or the first.
NextInTime ==
    \A t \in sTimers : t.generation = supervisor.generation =>
        /\ keepalives # <<>> => keepalives[1].sent + MaxDelay < t.due
        /\ keepalives = <<>> => \A u \in wTimers : Send(u) => u.due + MaxDelay < t.due
        /\ worker.status = "unborn" => t.due = Timeout

\* And the ack that an AckDeadline waits for is on its way.
AckComing(t) ==
    \/ \E i \in DOMAIN keepalives : /\ keepalives[i].generation = t.generation
                                    /\ keepalives[i].sent + Timeout <= t.due
    \/ \E i \in DOMAIN acks : /\ acks[i].generation = t.generation
                              /\ acks[i].sent + Timeout <= t.due + MaxDelay
AcksComing ==
    \A t \in wTimers : ~Send(t) /\ worker.acked < t.generation => AckComing(t)

\* What keeps a worker up while its supervisor runs, and a supervisor while
\* its worker does, each with its own condition on the times.
WellW == AcksInTime /\ Linked /\ SLive /\ worker.status # "gone"
WellS ==
    /\ KeepalivesInTime /\ Linked
    /\ supervisor.status # "gone" /\ worker.status \in {"unborn", "live"}
HealthyW == WellW => worker.status \in {"unborn", "live"} /\ AcksComing
HealthyS == WellS => SLive /\ NextInTime
Healthy == HealthyW /\ HealthyS

\* Once the path or the supervisor is lost, the worker has armed a deadline
\* that no ack can disarm, or will with its next keepalive.
LostS == Earlier(cutAt, endedAt["supervisor"])
WorkerDoomed ==
    LostS <= now /\ WLive =>
        LET last == Max2(LostS + Interval, SpawnDelay)
        IN  \/ \E t \in wTimers : /\ ~Send(t) /\ supervisor.generation < t.generation
                                  /\ t.due <= last + Timeout
            \/ \E u \in wTimers : Send(u) /\ u.due <= last

\* A supervisor always has a deadline of its generation; once the path or the
\* worker is lost, only what was sent before can still move it.
LostW == Earlier(cutAt, endedAt["worker"])
SupervisorDoomed ==
    /\ LostW <= now => \A i \in DOMAIN keepalives : keepalives[i].sent <= LostW
    /\ SLive => \E t \in sTimers :
                    /\ t.generation = supervisor.generation
                    /\ t.due <= now + Timeout
                    /\ LostW <= now => t.due <= LostW + MaxDelay + Timeout

LinkInv ==
    /\ TypeLink /\ Punctual /\ Ends /\ Order /\ Sending
    /\ Healthy /\ WorkerDoomed /\ SupervisorDoomed

-----------------------------------------------------------------------------
(* Facts about the queues, the clock and the two sides.                    *)

\* What Append does to a queue, index by index.
LEMMA AppendFacts ==
    ASSUME NEW q \in Seq(Flight), NEW e \in Flight
    PROVE  LET p == Append(q, e)
           IN  /\ p \in Seq(Flight) /\ p # <<>>
               /\ \A i \in DOMAIN q : i \in DOMAIN p /\ p[i] = q[i]
               /\ \A i \in DOMAIN p : \/ i \in DOMAIN q /\ p[i] = q[i]
                                      \/ i = Len(q) + 1 /\ p[i] = e
               /\ Len(q) \in Nat /\ Len(q) + 1 \in DOMAIN p /\ p[Len(q) + 1] = e
               /\ DOMAIN q = 1..Len(q)
               /\ p[1] = IF q = <<>> THEN e ELSE q[1]
<1>1. /\ Append(q, e) \in Seq(Flight) /\ Len(q) \in Nat /\ DOMAIN q = 1..Len(q)
      /\ DOMAIN Append(q, e) = 1..(Len(q) + 1)
      /\ \A i \in 1..Len(q) : Append(q, e)[i] = q[i]
      /\ Append(q, e)[Len(q) + 1] = e
  OBVIOUS
<1>2. q # <<>> => Len(q) # 0
  OBVIOUS
<1>3. Append(q, e) # <<>>
  BY <1>1
<1>4. Append(q, e)[1] = IF q = <<>> THEN e ELSE q[1]
  <2>1. CASE q = <<>>
    BY <1>1, <2>1
  <2>2. CASE q # <<>>
    BY <1>1, <1>2, <2>2
  <2> QED  BY <2>1, <2>2
<1> QED  BY <1>1, <1>3, <1>4

\* What Tail does to a queue, index by index.
LEMMA TailFacts ==
    ASSUME NEW q \in Seq(Flight), q # <<>>
    PROVE  LET p == Tail(q)
           IN  /\ p \in Seq(Flight) /\ Head(q) = q[1] /\ Head(q) \in Flight
               /\ 1 \in DOMAIN q /\ DOMAIN q \subseteq Nat \ {0}
               /\ \A i \in DOMAIN p : i \in Nat \ {0} /\ i + 1 \in DOMAIN q /\ p[i] = q[i + 1]
               /\ \A i \in DOMAIN q : i = 1 \/ (i - 1 \in DOMAIN p /\ p[i - 1] = q[i])
               /\ p # <<>> => 1 \in DOMAIN p
<1>1. /\ Tail(q) \in Seq(Flight) /\ Head(q) = q[1] /\ Head(q) \in Flight
      /\ Len(q) \in Nat \ {0} /\ DOMAIN q = 1..Len(q)
      /\ DOMAIN Tail(q) = 1..(Len(q) - 1)
      /\ \A i \in 1..(Len(q) - 1) : Tail(q)[i] = q[i + 1]
  OBVIOUS
<1>2. Tail(q) # <<>> => 1 \in DOMAIN Tail(q)
  BY <1>1
<1>3. \A i \in DOMAIN q : i = 1 \/ (i - 1 \in DOMAIN Tail(q) /\ Tail(q)[i - 1] = q[i])
  <2> SUFFICES ASSUME NEW i \in DOMAIN q, i # 1
               PROVE  i - 1 \in DOMAIN Tail(q) /\ Tail(q)[i - 1] = q[i]
    OBVIOUS
  <2>1. i - 1 \in 1..(Len(q) - 1) /\ (i - 1) + 1 = i
    BY <1>1
  <2> QED  BY <1>1, <2>1
<1> QED  BY <1>1, <1>2, <1>3

\* Taking the oldest message leaves the rest in order and in time.
LEMMA TailKeeps ==
    ASSUME NEW q \in Seq(Flight), q # <<>>
    PROVE  /\ InFlight(q) => InFlight(Tail(q))
           /\ Ascending(q) => /\ Ascending(Tail(q))
                              /\ \A i \in DOMAIN Tail(q) :
                                     Tail(q)[i].generation > Head(q).generation
<1>1. /\ Head(q) = q[1] /\ 1 \in DOMAIN q
      /\ \A i \in DOMAIN Tail(q) : /\ i \in Nat \ {0} /\ i + 1 \in DOMAIN q
                                   /\ Tail(q)[i] = q[i + 1]
  BY TailFacts
<1>2. InFlight(q) => InFlight(Tail(q))
  BY <1>1 DEF InFlight
<1>3. ASSUME Ascending(q) PROVE Ascending(Tail(q))
  <2> SUFFICES ASSUME NEW i \in DOMAIN Tail(q), NEW j \in DOMAIN Tail(q), i < j
               PROVE  Tail(q)[i].generation < Tail(q)[j].generation
    BY DEF Ascending
  <2>1. i + 1 \in DOMAIN q /\ j + 1 \in DOMAIN q /\ i + 1 < j + 1
    BY <1>1
  <2> QED  BY <1>1, <1>3, <2>1 DEF Ascending
<1>4. ASSUME Ascending(q), NEW i \in DOMAIN Tail(q)
      PROVE  Tail(q)[i].generation > Head(q).generation
  <2>1. 1 \in DOMAIN q /\ i + 1 \in DOMAIN q /\ 1 < i + 1
    BY <1>1
  <2>2. q[1].generation < q[i + 1].generation
    BY <1>4, <2>1 DEF Ascending
  <2>3. q[1] \in Flight /\ q[i + 1] \in Flight
    BY <2>1
  <2> QED  BY <1>1, <2>2, <2>3 DEF Flight
<1> QED  BY <1>2, <1>3, <1>4

\* A message of a later generation, sent now, goes to the end.
LEMMA AppendKeeps ==
    ASSUME now \in Nat, NEW q \in Seq(Flight), NEW e \in Flight, e.sent = now,
           \A i \in DOMAIN q : q[i].generation < e.generation
    PROVE  /\ InFlight(q) => InFlight(Append(q, e))
           /\ Ascending(q) => Ascending(Append(q, e))
<1>1. /\ \A i \in DOMAIN Append(q, e) : \/ i \in DOMAIN q /\ Append(q, e)[i] = q[i]
                                        \/ i = Len(q) + 1 /\ Append(q, e)[i] = e
      /\ DOMAIN q = 1..Len(q) /\ Len(q) \in Nat
  BY AppendFacts
<1>2. InFlight(q) => InFlight(Append(q, e))
  BY <1>1, ParamsAssumption DEF InFlight
<1>3. Ascending(q) => Ascending(Append(q, e))
  BY <1>1 DEF Ascending
<1> QED  BY <1>2, <1>3

\* The clock and the parameters.
LEMMA Clock ==
    ASSUME LinkInv
    PROVE  /\ now \in Nat
           /\ Interval \in Nat \ {0} /\ Timeout \in Nat \ {0} /\ MaxDelay \in Nat
           /\ SpawnDelay \in Nat
BY ParamsAssumption DEF LinkInv, TypeLink

\* The times of loss.
LEMMA Losses ==
    ASSUME LinkInv
    PROVE  /\ Never \in Nat /\ now < Never
           /\ cutAt \in Nat /\ cutAt <= Never
           /\ \A s \in Side : endedAt[s] \in Nat /\ endedAt[s] <= Never
           /\ LostS \in Nat /\ LostW \in Nat
BY ParamsAssumption DEF LinkInv, TypeLink, Never, Side, LostS, LostW, Earlier

\* The fields of the two sides.
LEMMA Sides ==
    ASSUME LinkInv
    PROVE  /\ worker.generation \in Nat /\ worker.acked \in Nat
           /\ worker.status \in Status
           /\ supervisor.generation \in Nat /\ supervisor.status \in Status
<1>1. /\ worker \in [status : Status, generation : Nat, acked : Nat]
      /\ supervisor \in [status : Status, generation : Nat]
  BY DEF LinkInv, TypeLink
<1> QED  BY <1>1

\* The fields of the timers.
LEMMA Timers ==
    ASSUME LinkInv
    PROVE  /\ wTimers \subseteq WTimer /\ sTimers \subseteq STimer
           /\ \A t \in wTimers : t.generation \in Nat /\ t.due \in Nat
           /\ \A t \in sTimers : t.generation \in Nat /\ t.due \in Nat
<1>1. wTimers \subseteq WTimer /\ sTimers \subseteq STimer
  BY DEF LinkInv, TypeLink
<1> QED  BY <1>1 DEF WTimer, STimer

\* The fields of the messages on the path.
LEMMA Flights ==
    ASSUME LinkInv
    PROVE  /\ keepalives \in Seq(Flight) /\ acks \in Seq(Flight)
           /\ \A i \in DOMAIN keepalives :
                  keepalives[i].generation \in Nat /\ keepalives[i].sent \in Nat
           /\ \A i \in DOMAIN acks : acks[i].generation \in Nat /\ acks[i].sent \in Nat
<1>1. keepalives \in Seq(Flight) /\ acks \in Seq(Flight)
  BY DEF LinkInv, TypeLink
<1>2. /\ \A i \in DOMAIN keepalives : keepalives[i] \in Flight
      /\ \A i \in DOMAIN acks : acks[i] \in Flight
  BY <1>1
<1> QED  BY <1>1, <1>2 DEF Flight

-----------------------------------------------------------------------------
(* The worker sends.                                                       *)

\* A keepalive goes out, with its timers; the one that was due is consumed.
LEMMA SendNextKeeps ==
    ASSUME LinkInv, NEW rest, SendNext(rest),
           UNCHANGED <<now, supervisor, sTimers, acks, cutAt, endedAt>>,
           \/ worker.status = "unborn" /\ rest = {}
           \/ WLive /\ \E u \in wTimers : Send(u) /\ u.due = now /\ rest = wTimers \ {u}
    PROVE  LinkInv'
<1> USE Clock, Sides
<1>1. PICK k \in Flight :
        /\ k.generation = worker.generation + 1 /\ k.sent = now
        /\ keepalives' = IF Linked THEN Append(keepalives, k) ELSE keepalives
  <2>1. Message(worker.generation + 1) \in Flight
    BY DEF Message, Flight
  <2> QED  BY <2>1 DEF SendNext, Post, Message
<1>2. PICK u \in WTimer, d \in WTimer :
        /\ Send(u) /\ u.generation = worker.generation + 1 /\ u.due = now + Interval
        /\ ~Send(d) /\ d.generation = worker.generation + 1 /\ d.due = now + Timeout
        /\ wTimers' = rest \cup {u, d}
  <2>1. /\ Timer("SendKeepalive", worker.generation + 1, Interval) \in WTimer
        /\ Timer("AckDeadline", worker.generation + 1, Timeout) \in WTimer
    <3>1. /\ worker.generation + 1 \in Nat /\ now + Interval \in Nat
          /\ now + Timeout \in Nat
      OBVIOUS
    <3> QED  BY <3>1 DEF Timer, WTimer
  <2> QED  BY <2>1 DEF SendNext, Timer, Send
<1>3. /\ worker' = [worker EXCEPT !.status = "live", !.generation = worker.generation + 1]
      /\ worker \in [status : Status, generation : Nat, acked : Nat]
  BY DEF SendNext, LinkInv, TypeLink
<1>4. /\ worker' \in [status : Status, generation : Nat, acked : Nat]
      /\ worker'.status = "live" /\ worker'.generation = worker.generation + 1
      /\ worker'.acked = worker.acked
  <2>1. "live" \in Status /\ worker.generation + 1 \in Nat
    BY DEF Status
  <2> QED  BY <1>3, <2>1
<1>5. /\ rest \subseteq wTimers /\ \A t \in rest : ~Send(t)
      /\ \A t \in wTimers : ~Send(t) => t \in rest
  BY DEF LinkInv, Order, Sending
<1>6. keepalives' \in Seq(Flight)
  BY Flights, <1>1, AppendFacts
<1>7. TypeLink'
  BY <1>2, <1>4, <1>5, <1>6 DEF LinkInv, TypeLink
<1>8. \A i \in DOMAIN keepalives : keepalives[i].generation < k.generation
  BY Flights, <1>1 DEF LinkInv, Order
<1>9. Punctual'
  <2>1. InFlight(keepalives) /\ InFlight(acks)
    BY DEF LinkInv, Punctual
  <2>2. InFlight(keepalives)' /\ InFlight(acks)'
    <3>1. InFlight(keepalives')
      BY Flights, <1>1, <1>8, <2>1, AppendKeeps
    <3> QED  BY <2>1, <3>1 DEF InFlight
  <2>3. \A t \in rest : now <= t.due
    BY <1>5 DEF LinkInv, Punctual, Order
  <2> QED  BY <1>2, <1>4, <2>2, <2>3 DEF LinkInv, Punctual, SLive
<1>10. Ends'
  <2>1. ~Linked => keepalives' = <<>>
    BY <1>1 DEF LinkInv, Ends
  <2> QED  BY <1>1, <1>4, <2>1 DEF LinkInv, Ends, WLive, SLive, Linked
<1>11. Order'
  <2>1. GenerationsInOrder /\ supervisor.generation <= worker.generation
    BY DEF LinkInv, Order
  <2>2. Ascending(keepalives')
    BY Flights, <1>1, <1>8, <2>1, AppendKeeps DEF GenerationsInOrder
  <2>3. \A i \in DOMAIN keepalives' : /\ keepalives'[i].generation > supervisor.generation
                                      /\ keepalives'[i].generation <= worker.generation + 1
    <3>1. \A i \in DOMAIN keepalives' :
            (i \in DOMAIN keepalives /\ keepalives'[i] = keepalives[i]) \/ keepalives'[i] = k
      BY <1>1, AppendFacts
    <3> QED  BY Flights, <1>1, <2>1, <3>1 DEF LinkInv, Order, GenerationsInOrder
  <2>4. GenerationsInOrder'
    BY <1>4, <2>1, <2>2, <2>3 DEF GenerationsInOrder, Ascending
  <2> QED  BY <1>4, <2>1, <2>3, <2>4 DEF LinkInv, Order
<1>12. Sending'
  BY <1>2, <1>4, <1>5 DEF Sending, WLive
<1>13. Linked => /\ keepalives' # <<>> /\ Len(keepalives) + 1 \in DOMAIN keepalives'
                 /\ keepalives'[Len(keepalives) + 1] = k
                 /\ \A i \in DOMAIN keepalives :
                        i \in DOMAIN keepalives' /\ keepalives'[i] = keepalives[i]
                 /\ keepalives'[1] = IF keepalives = <<>> THEN k ELSE keepalives[1]
  BY <1>1, AppendFacts
<1>14. HealthyS'
  <2> SUFFICES ASSUME WellS' PROVE SLive' /\ NextInTime'
    BY DEF HealthyS
  <2>1. Linked /\ KeepalivesInTime /\ SLive /\ NextInTime
    BY DEF WellS, Linked, LinkInv, Healthy, HealthyS, WLive
  <2>2. NextInTime'
    <3> SUFFICES ASSUME NEW t \in sTimers, t.generation = supervisor.generation
                 PROVE  keepalives'[1].sent + MaxDelay < t.due
      BY <1>4, <1>13, <2>1 DEF NextInTime
    <3>1. CASE keepalives # <<>>
      BY <1>13, <2>1, <3>1 DEF NextInTime
    <3>2. CASE keepalives = <<>> /\ worker.status = "unborn"
      BY <1>1, <1>13, <2>1, <3>2 DEF NextInTime, LinkInv, Punctual, KeepalivesInTime
    <3>3. CASE keepalives = <<>> /\ WLive
      BY <1>1, <1>13, <2>1, <3>3 DEF NextInTime, WLive
    <3> QED  BY <3>1, <3>2, <3>3
  <2> QED  BY <2>1, <2>2 DEF SLive
<1>15. HealthyW'
  <2> SUFFICES ASSUME WellW' PROVE AcksComing'
    BY <1>4 DEF HealthyW
  <2>1. Linked /\ AcksComing
    BY DEF WellW, Linked, SLive, LinkInv, Healthy, HealthyW, WLive
  <2> SUFFICES ASSUME NEW t \in wTimers', ~Send(t), worker.acked < t.generation
               PROVE  AckComing(t)'
    BY <1>4 DEF AcksComing, Send
  <2>2. CASE t \in rest
    <3>1. AckComing(t)
      BY <1>5, <2>1, <2>2 DEF AcksComing
    <3> QED  BY <1>13, <2>1, <3>1 DEF AckComing
  <2>3. CASE t = d
    <3>1. k.generation = t.generation /\ k.sent + Timeout <= t.due
      BY <1>1, <1>2, <2>3
    <3> QED  BY <1>13, <2>1, <3>1 DEF AckComing
  <2> QED  BY <1>2, <2>2, <2>3
<1>16. WorkerDoomed'
  <2> SUFFICES ASSUME LostS <= now
               PROVE  LET last == Max2(LostS + Interval, SpawnDelay)
                      IN  \E t \in wTimers' : /\ ~Send(t) /\ supervisor.generation < t.generation
                                              /\ t.due <= last + Timeout
    BY DEF WorkerDoomed, LostS, Send
  <2> DEFINE last == Max2(LostS + Interval, SpawnDelay)
  <2>1. last \in Nat /\ last >= SpawnDelay
    BY Losses DEF Max2
  <2>2. supervisor.generation < d.generation
    BY <1>2 DEF LinkInv, Order
  <2>3. CASE now <= last
    BY <1>2, <2>1, <2>2, <2>3
  <2>4. CASE worker.status = "unborn"
    BY <2>1, <2>3, <2>4 DEF LinkInv, Punctual
  <2>5. CASE WLive
    <3>1. CASE \E t \in wTimers : /\ ~Send(t) /\ supervisor.generation < t.generation
                                  /\ t.due <= last + Timeout
      BY <1>2, <1>5, <3>1
    <3>2. CASE \E v \in wTimers : Send(v) /\ v.due <= last
      BY <2>3, <2>5, <3>2 DEF LinkInv, Sending, WLive
    <3> QED  BY <2>5, <3>1, <3>2 DEF LinkInv, WorkerDoomed
  <2> QED  BY <2>4, <2>5
<1>17. SupervisorDoomed'
  <2>1. LostW <= now => keepalives' = keepalives
    BY Losses, <1>1 DEF LinkInv, Ends, LostW, Earlier, WLive, Linked
  <2> QED  BY <2>1 DEF LinkInv, SupervisorDoomed, LostW, SLive
<1> QED  BY <1>7, <1>9, <1>10, <1>11, <1>12, <1>14, <1>15, <1>16, <1>17 DEF LinkInv, Healthy

\* A SendKeepalive timer is never stale: it is the one of the generation.
LEMMA HandleSendKeepaliveKeeps ==
    ASSUME LinkInv, NEW t \in wTimers, HandleSendKeepalive(t)
    PROVE  LinkInv'
<1>1. WLive /\ Send(t) /\ t.due <= now
  BY DEF HandleSendKeepalive, DueW, WLive, Send
<1>2. t.generation = worker.generation /\ t.due = now
  BY <1>1, Clock, Sides, Timers DEF LinkInv, Sending, Punctual
<1>3. SendNext(wTimers \ {t}) /\ UNCHANGED <<now, supervisor, sTimers, acks, cutAt, endedAt>>
  BY <1>2 DEF HandleSendKeepalive
<1> QED  BY <1>1, <1>2, <1>3, SendNextKeeps

\* The first keepalive.
LEMMA WorkerInitKeeps ==
    ASSUME LinkInv, WorkerInit
    PROVE  LinkInv'
BY SendNextKeeps DEF WorkerInit

-----------------------------------------------------------------------------
(* The supervisor receives, the worker hears.                              *)

\* A keepalive moves the deadline, and its ack goes out.
LEMMA HandleKeepaliveKeeps ==
    ASSUME LinkInv, HandleKeepalive
    PROVE  LinkInv'
<1> USE Clock, Sides
<1>1. SLive /\ keepalives # <<>> /\ Linked
  BY DEF HandleKeepalive, SLive, LinkInv, Ends
<1>2. PICK k \in Flight : k = keepalives[1] /\ k = Head(keepalives)
  BY Flights, <1>1, TailFacts
<1>3. /\ k.generation \in Nat /\ k.sent \in Nat
      /\ supervisor.generation < k.generation /\ k.generation <= worker.generation
      /\ k.sent <= now /\ now <= k.sent + MaxDelay
  <2>1. 1 \in DOMAIN keepalives
    BY Timers, <1>1, TailFacts
  <2> QED  BY <1>2, <2>1 DEF LinkInv, Order, GenerationsInOrder, Punctual, InFlight, Flight
<1>4. PICK a \in Flight : /\ a.generation = k.generation /\ a.sent = now
                          /\ acks' = Append(acks, a)
  <2>1. Message(k.generation) \in Flight
    BY <1>3 DEF Message, Flight
  <2> QED  BY <1>1, <1>2, <2>1 DEF HandleKeepalive, Post, Message
<1>5. Max2(supervisor.generation, k.generation) = k.generation
  BY <1>3 DEF Max2
<1>6. PICK d \in STimer : /\ d.generation = k.generation /\ d.due = now + Timeout
                          /\ sTimers' = sTimers \cup {d}
  <2>1. Timer("Deadline", k.generation, Timeout) \in STimer
    <3>1. now + Timeout \in Nat
      OBVIOUS
    <3> QED  BY <1>3, <3>1 DEF Timer, STimer
  <2> QED  BY <1>2, <1>5, <2>1 DEF HandleKeepalive, ScheduleDeadline, Timer
<1>7. /\ supervisor' = [supervisor EXCEPT !.generation = k.generation]
      /\ supervisor \in [status : Status, generation : Nat]
      /\ keepalives' = Tail(keepalives) /\ UNCHANGED <<now, worker, wTimers, cutAt, endedAt>>
  BY <1>2, <1>5 DEF HandleKeepalive, LinkInv, TypeLink
<1>8. /\ supervisor' \in [status : Status, generation : Nat]
      /\ supervisor'.status = "live" /\ supervisor'.generation = k.generation
  BY <1>1, <1>3, <1>7 DEF SLive
<1>9. /\ keepalives' \in Seq(Flight) /\ acks' \in Seq(Flight)
      /\ \A i \in DOMAIN keepalives' : /\ i + 1 \in DOMAIN keepalives
                                       /\ keepalives'[i] = keepalives[i + 1]
      /\ \A i \in DOMAIN keepalives : \/ i = 1
                                      \/ /\ i - 1 \in DOMAIN keepalives'
                                         /\ keepalives'[i - 1] = keepalives[i]
      /\ keepalives' # <<>> => 1 \in DOMAIN keepalives'
  <2>1. acks' \in Seq(Flight)
    BY Flights, <1>4, AppendFacts
  <2> QED  BY Flights, <1>1, <1>7, <2>1, TailFacts
<1>10. /\ \A i \in DOMAIN acks : i \in DOMAIN acks' /\ acks'[i] = acks[i]
       /\ \A i \in DOMAIN acks' : (i \in DOMAIN acks /\ acks'[i] = acks[i]) \/ acks'[i] = a
       /\ \E i \in DOMAIN acks' : acks'[i] = a
  BY <1>4, AppendFacts
<1>11. \A i \in DOMAIN acks : acks[i].generation < a.generation
  <2>1. \A i \in DOMAIN acks : acks[i].generation <= supervisor.generation
    BY DEF LinkInv, Order, GenerationsInOrder
  <2>2. /\ \A i \in DOMAIN acks : acks[i].generation \in Nat
        /\ supervisor.generation \in Nat
    BY Flights
  <2> QED  BY <1>3, <1>4, <2>1, <2>2
<1>12. TypeLink'
  BY <1>6, <1>7, <1>8, <1>9 DEF LinkInv, TypeLink
<1>13. InFlight(keepalives)' /\ InFlight(acks)'
  <2>1. InFlight(keepalives) /\ InFlight(acks)
    BY DEF LinkInv, Punctual
  <2>2. InFlight(Tail(keepalives)) /\ InFlight(acks')
    BY Flights, <1>1, <1>4, <1>11, <2>1, TailKeeps, AppendKeeps
  <2> QED  BY <1>7, <2>2 DEF InFlight
<1>14. Punctual'
  BY <1>6, <1>7, <1>13 DEF LinkInv, Punctual, WLive, SLive
<1>15. Ends'
  BY <1>1, <1>7, <1>8 DEF LinkInv, Ends, SLive, Linked
<1>16. Order'
  <2>1. GenerationsInOrder /\ worker.acked <= supervisor.generation
    BY DEF LinkInv, Order
  <2>2. /\ Ascending(keepalives') /\ Ascending(acks')
        /\ \A i \in DOMAIN keepalives' : keepalives'[i].generation > k.generation
    BY Flights, <1>1, <1>2, <1>4, <1>7, <1>11, <2>1, TailKeeps, AppendKeeps DEF GenerationsInOrder
  <2>3. \A i \in DOMAIN acks' : /\ acks'[i].generation > worker.acked
                                /\ acks'[i].generation <= k.generation
    <3>1. \A i \in DOMAIN acks : /\ acks[i].generation > worker.acked
                                 /\ acks[i].generation < k.generation
      BY <1>4, <1>11, <2>1 DEF GenerationsInOrder
    <3>2. a.generation > worker.acked /\ a.generation <= k.generation
      BY <1>3, <1>4, <2>1
    <3>3. \A i \in DOMAIN acks : acks[i].generation \in Nat
      BY Flights
    <3> QED  BY <1>3, <1>10, <3>1, <3>2, <3>3
  <2>4. \A t \in sTimers' : t.generation <= k.generation
    BY Timers, <1>3, <1>6, <2>1 DEF GenerationsInOrder
  <2>5. GenerationsInOrder'
    BY <1>7, <1>8, <2>2, <2>3, <2>4 DEF GenerationsInOrder, Ascending
  <2>6. \A i \in DOMAIN keepalives' : keepalives'[i].generation <= worker.generation
    BY <1>9 DEF LinkInv, Order
  <2>7. worker.status # "unborn"
    BY <1>1 DEF LinkInv, Order
  <2> QED  BY <1>3, <1>7, <1>8, <2>1, <2>5, <2>6, <2>7 DEF Order
<1>17. Sending'
  BY <1>7 DEF LinkInv, Sending, WLive
<1>18. worker.status # "unborn"
  BY <1>1 DEF LinkInv, Order
<1>19. HealthyS'
  <2> SUFFICES ASSUME WellS' PROVE NextInTime'
    BY <1>7, <1>8 DEF HealthyS, SLive
  <2>1. worker.status = "live" /\ NextInTime /\ KeepalivesInTime
    BY <1>1, <1>7, <1>18 DEF WellS, Linked, SLive, LinkInv, Healthy, HealthyS
  <2>2. NextInTime'
    <3> SUFFICES ASSUME NEW t \in sTimers', t.generation = k.generation
                 PROVE  /\ keepalives' # <<>> => keepalives'[1].sent + MaxDelay < t.due
                        /\ \A u \in wTimers : Send(u) => u.due + MaxDelay < t.due
      BY <1>7, <1>8, <2>1 DEF NextInTime, Send
    <3>1. t.due = now + Timeout
      BY <1>3, <1>6 DEF LinkInv, Order, GenerationsInOrder
    <3>2. keepalives' # <<>> => keepalives'[1].sent <= now /\ keepalives'[1].sent \in Nat
      BY Flights, <1>7, <1>9, <1>13 DEF InFlight, Flight
    <3>3. \A u \in wTimers : Send(u) => u.due <= now + Interval
      BY <2>1 DEF LinkInv, Sending, WLive
    <3>4. \A u \in wTimers : u.due \in Nat
      BY Timers
    <3>5. MaxDelay < Timeout /\ Interval + MaxDelay < Timeout
      BY <2>1 DEF KeepalivesInTime
    <3>6. keepalives' # <<>> => keepalives'[1].sent + MaxDelay < t.due
      BY <3>1, <3>2, <3>5
    <3> QED  BY <3>1, <3>3, <3>4, <3>5, <3>6
  <2> QED  BY <2>2
<1>20. HealthyW'
  <2> SUFFICES ASSUME WellW' PROVE worker.status \in {"unborn", "live"} /\ AcksComing'
    BY <1>7, <1>8 DEF HealthyW, SLive
  <2>1. worker.status = "live" /\ AcksComing
    BY <1>1, <1>7, <1>18 DEF WellW, Linked, SLive, LinkInv, Healthy, HealthyW
  <2>2. AcksComing'
    <3> SUFFICES ASSUME NEW t \in wTimers, ~Send(t), worker.acked < t.generation
                 PROVE  AckComing(t)'
      BY <1>7 DEF AcksComing, Send
    <3>1. AckComing(t)
      BY <2>1 DEF AcksComing
    <3>2. CASE \E i \in DOMAIN acks : /\ acks[i].generation = t.generation
                                      /\ acks[i].sent + Timeout <= t.due + MaxDelay
      BY <1>10, <3>2 DEF AckComing
    <3>3. ASSUME NEW i \in DOMAIN keepalives, keepalives[i].generation = t.generation,
                 keepalives[i].sent + Timeout <= t.due
          PROVE  AckComing(t)'
      <4>1. CASE i = 1
        <5>1. a.generation = t.generation /\ a.sent + Timeout <= t.due + MaxDelay
          <6>1. k.sent + Timeout <= t.due /\ t.due \in Nat /\ k.generation = t.generation
            BY Timers, <1>2, <3>3, <4>1
          <6> QED  BY <1>3, <1>4, <6>1
        <5> QED  BY <1>10, <5>1 DEF AckComing
      <4>2. CASE i # 1
        BY <1>9, <3>3, <4>2 DEF AckComing
      <4> QED  BY <4>1, <4>2
    <3> QED  BY <3>1, <3>2, <3>3 DEF AckComing
  <2> QED  BY <2>1, <2>2
<1>21. WorkerDoomed'
  <2>1. ~(LostS' <= now')
    BY Losses, <1>1, <1>7 DEF LinkInv, Ends, LostS, Earlier, Linked
  <2> QED  BY <2>1 DEF WorkerDoomed
<1>22. SupervisorDoomed'
  <2>1. LostW' = LostW /\ now' = now
    BY <1>7 DEF LostW
  <2>2. LostW <= now => \A i \in DOMAIN keepalives : keepalives[i].sent <= LostW
    BY DEF LinkInv, SupervisorDoomed
  <2>3. LostW <= now => k.sent <= LostW
    <3>1. 1 \in DOMAIN keepalives
      BY Timers, <1>1, TailFacts
    <3> QED  BY <1>2, <2>2, <3>1
  <2>4. LostW <= now => d.due <= LostW + MaxDelay + Timeout
    BY Losses, <1>3, <1>6, <2>3
  <2>5. LostW <= now => \A i \in DOMAIN keepalives' : keepalives'[i].sent <= LostW
    BY <1>9, <2>2
  <2>6. d \in sTimers' /\ d.generation = k.generation /\ d.due <= now + Timeout
    BY <1>6
  <2> QED  BY <1>8, <2>1, <2>4, <2>5, <2>6 DEF SupervisorDoomed
<1> QED  BY <1>12, <1>14, <1>15, <1>16, <1>17, <1>19, <1>20, <1>21, <1>22 DEF LinkInv, Healthy

\* An ack is for the next generation that was not acknowledged.
LEMMA HandleAckKeeps ==
    ASSUME LinkInv, HandleAck
    PROVE  LinkInv'
<1> USE Clock, Sides
<1>1. WLive /\ acks # <<>>
  BY DEF HandleAck, WLive
<1>2. PICK a \in Flight : a = acks[1] /\ a = Head(acks)
  BY Flights, <1>1, TailFacts
<1>3. /\ a.generation \in Nat /\ worker.acked < a.generation
      /\ a.generation <= supervisor.generation
  <2>1. 1 \in DOMAIN acks
    BY Timers, <1>1, TailFacts
  <2> QED  BY <1>2, <2>1 DEF LinkInv, Order, GenerationsInOrder, Flight
<1>4. /\ worker' = [worker EXCEPT !.acked = a.generation]
      /\ worker \in [status : Status, generation : Nat, acked : Nat]
      /\ acks' = Tail(acks)
      /\ UNCHANGED <<now, supervisor, wTimers, sTimers, keepalives, cutAt, endedAt>>
  <2>1. Max2(worker.acked, a.generation) = a.generation
    BY <1>3 DEF Max2
  <2> QED  BY <1>2, <2>1 DEF HandleAck, LinkInv, TypeLink
<1>5. /\ worker' \in [status : Status, generation : Nat, acked : Nat]
      /\ worker'.status = "live" /\ worker'.generation = worker.generation
      /\ worker'.acked = a.generation
  BY <1>1, <1>3, <1>4 DEF WLive
<1>6. /\ acks' \in Seq(Flight)
      /\ \A i \in DOMAIN acks' : i + 1 \in DOMAIN acks /\ acks'[i] = acks[i + 1]
      /\ \A i \in DOMAIN acks : \/ i = 1
                                \/ i - 1 \in DOMAIN acks' /\ acks'[i - 1] = acks[i]
  BY Flights, <1>1, <1>4, TailFacts
<1>7. TypeLink'
  BY <1>4, <1>5, <1>6 DEF LinkInv, TypeLink
<1>8. Punctual'
  <2>1. InFlight(keepalives) /\ InFlight(acks)
    BY DEF LinkInv, Punctual
  <2>2. InFlight(Tail(acks))
    BY Flights, <1>1, <2>1, TailKeeps
  <2>3. InFlight(keepalives)' /\ InFlight(acks)'
    BY <1>4, <2>1, <2>2 DEF InFlight
  <2> QED  BY <1>1, <1>4, <1>5, <2>3 DEF LinkInv, Punctual, WLive, SLive
<1>9. Ends'
  BY <1>1, <1>4, <1>5 DEF LinkInv, Ends, WLive, SLive, Linked
<1>10. Order'
  <2>1. GenerationsInOrder /\ supervisor.generation <= worker.generation
    BY DEF LinkInv, Order
  <2>2. Ascending(acks') /\ \A i \in DOMAIN acks' : acks'[i].generation > a.generation
    BY Flights, <1>1, <1>2, <1>4, <2>1, TailKeeps DEF GenerationsInOrder
  <2>3. \A i \in DOMAIN acks' : acks'[i].generation <= supervisor.generation
    BY <1>6, <2>1 DEF GenerationsInOrder
  <2>4. GenerationsInOrder'
    BY <1>4, <1>5, <2>1, <2>2, <2>3 DEF GenerationsInOrder, Ascending
  <2> QED  BY <1>3, <1>4, <1>5, <2>1, <2>4 DEF LinkInv, Order
<1>11. Sending'
  BY <1>1, <1>4, <1>5 DEF LinkInv, Sending, WLive
<1>12. Healthy'
  <2>1. HealthyS'
    <3> SUFFICES ASSUME WellS' PROVE SLive /\ NextInTime'
      BY <1>4 DEF HealthyS, SLive
    <3>1. SLive /\ NextInTime
      BY <1>1, <1>4 DEF WellS, WLive, LinkInv, Healthy, HealthyS, Linked
    <3> QED  BY <1>1, <1>4, <1>5, <3>1 DEF NextInTime, WLive
  <2>2. HealthyW'
    <3> SUFFICES ASSUME WellW' PROVE AcksComing'
      BY <1>1, <1>4, <1>5 DEF HealthyW, WLive
    <3>1. AcksComing
      BY <1>1, <1>4 DEF WellW, WLive, SLive, LinkInv, Healthy, HealthyW, Linked
    <3> SUFFICES ASSUME NEW t \in wTimers, ~Send(t), a.generation < t.generation
                 PROVE  AckComing(t)'
      BY <1>4, <1>5 DEF AcksComing, Send
    <3>2. AckComing(t)
      BY Timers, <1>3, <3>1 DEF AcksComing
    <3>3. \A i \in DOMAIN acks : acks[i].generation = t.generation => i # 1
      BY <1>2, <1>3
    <3> QED  BY <1>4, <1>6, <3>2, <3>3 DEF AckComing
  <2> QED  BY <2>1, <2>2 DEF Healthy
<1>13. WorkerDoomed'
  BY <1>1, <1>4 DEF LinkInv, WorkerDoomed, LostS, WLive
<1>14. SupervisorDoomed'
  BY <1>4 DEF LinkInv, SupervisorDoomed, LostW, SLive
<1> QED  BY <1>7, <1>8, <1>9, <1>10, <1>11, <1>12, <1>13, <1>14 DEF LinkInv

-----------------------------------------------------------------------------
(* A side leaves.                                                          *)

\* The worker fails or is ended: the supervisor's deadline stands.
LEMMA WorkerLeaves ==
    ASSUME LinkInv, NEW st \in {"failed", "gone"}, worker.status \in {"unborn", "live"},
           worker' = [worker EXCEPT !.status = st], End("worker"),
           wTimers' \subseteq wTimers,
           keepalives' = keepalives \/ (keepalives # <<>> /\ keepalives' = Tail(keepalives)),
           UNCHANGED <<now, supervisor, sTimers, acks, cutAt>>, ~WellW'
    PROVE  LinkInv'
<1> USE Clock, Sides
<1>1. worker \in [status : Status, generation : Nat, acked : Nat]
  BY DEF LinkInv, TypeLink
<1>2. /\ worker' \in [status : Status, generation : Nat, acked : Nat]
      /\ worker'.status = st /\ worker'.generation = worker.generation
      /\ worker'.acked = worker.acked
  BY <1>1 DEF Status
<1>3. /\ endedAt' \in [Side -> 0..Never] /\ endedAt'["worker"] = now
      /\ endedAt'["supervisor"] = endedAt["supervisor"]
  <2>1. endedAt \in [Side -> 0..Never] /\ now \in 0..Never
    BY Losses DEF LinkInv, TypeLink
  <2> QED  BY <2>1 DEF End, Side
<1>4. /\ keepalives' \in Seq(Flight) /\ (keepalives = <<>> => keepalives' = <<>>)
      /\ \A i \in DOMAIN keepalives' :
             \E j \in DOMAIN keepalives : keepalives'[i] = keepalives[j]
  <2>1. CASE keepalives' = keepalives
    BY Flights, <2>1
  <2>2. CASE keepalives # <<>> /\ keepalives' = Tail(keepalives)
    BY Flights, <2>2, TailFacts
  <2> QED  BY <2>1, <2>2
<1>5. TypeLink'
  BY <1>2, <1>3, <1>4 DEF LinkInv, TypeLink
<1>6. Punctual'
  BY <1>2, <1>4 DEF LinkInv, Punctual, InFlight, WLive, SLive
<1>7. Ends'
  BY <1>2, <1>3, <1>4 DEF LinkInv, Ends, SLive, Linked
<1>8. Order'
  <2>1. Ascending(keepalives')
    BY Flights, TailKeeps DEF LinkInv, Order, GenerationsInOrder
  <2>2. GenerationsInOrder'
    BY <1>2, <1>4, <2>1 DEF LinkInv, Order, GenerationsInOrder, Ascending
  <2> QED  BY <1>2, <1>4, <2>2 DEF LinkInv, Order
<1>9. Sending' /\ Healthy' /\ WorkerDoomed'
  BY <1>2 DEF Sending, Healthy, HealthyW, HealthyS, WellS, WorkerDoomed, WLive
<1>10. SupervisorDoomed'
  <2>1. \A i \in DOMAIN keepalives : keepalives[i].sent <= now
    BY DEF LinkInv, Punctual, InFlight
  <2>2. CASE cutAt <= now
    <3>1. LostW' = LostW
      BY Losses, <1>3, <2>2 DEF LinkInv, Ends, LostW, Earlier
    <3> QED  BY <1>4, <3>1 DEF LinkInv, SupervisorDoomed, SLive
  <2>3. CASE now < cutAt
    <3>1. LostW' = now
      BY Losses, <1>3, <2>3 DEF LostW, Earlier
    <3>2. \A i \in DOMAIN keepalives' : keepalives'[i].sent <= now
      BY <1>4, <2>1
    <3>3. SLive => \E t \in sTimers : /\ t.generation = supervisor.generation
                                     /\ t.due \in Nat /\ t.due <= now + Timeout
      BY Timers DEF LinkInv, SupervisorDoomed
    <3>4. SLive => \E t \in sTimers : /\ t.generation = supervisor.generation
                                     /\ t.due <= now + Timeout
                                     /\ t.due <= now + MaxDelay + Timeout
      BY <3>3
    <3> QED  BY <3>1, <3>2, <3>4 DEF SupervisorDoomed, SLive
  <2> QED  BY Losses, <2>2, <2>3
<1> QED  BY <1>5, <1>6, <1>7, <1>8, <1>9, <1>10 DEF LinkInv

\* The supervisor fails or is ended: the worker's next keepalive arms the
\* deadline that no ack disarms.
LEMMA SupervisorLeaves ==
    ASSUME LinkInv, NEW st \in {"failed", "gone"}, SLive,
           supervisor' = [supervisor EXCEPT !.status = st], End("supervisor"),
           sTimers' \subseteq sTimers,
           acks' = acks \/ (acks # <<>> /\ acks' = Tail(acks)),
           UNCHANGED <<now, worker, wTimers, keepalives, cutAt>>, ~WellS'
    PROVE  LinkInv'
<1> USE Clock, Sides
<1>1. supervisor \in [status : Status, generation : Nat]
  BY DEF LinkInv, TypeLink
<1>2. /\ supervisor' \in [status : Status, generation : Nat]
      /\ supervisor'.status = st /\ supervisor'.generation = supervisor.generation
  BY <1>1 DEF Status
<1>3. /\ endedAt' \in [Side -> 0..Never] /\ endedAt'["supervisor"] = now
      /\ endedAt'["worker"] = endedAt["worker"]
  <2>1. endedAt \in [Side -> 0..Never] /\ now \in 0..Never
    BY Losses DEF LinkInv, TypeLink
  <2> QED  BY <2>1 DEF End, Side
<1>4. /\ acks' \in Seq(Flight) /\ (acks = <<>> => acks' = <<>>)
      /\ \A i \in DOMAIN acks' : \E j \in DOMAIN acks : acks'[i] = acks[j]
  <2>1. CASE acks' = acks
    BY Flights, <2>1
  <2>2. CASE acks # <<>> /\ acks' = Tail(acks)
    BY Flights, <2>2, TailFacts
  <2> QED  BY <2>1, <2>2
<1>5. TypeLink'
  BY <1>2, <1>3, <1>4 DEF LinkInv, TypeLink
<1>6. Punctual'
  BY <1>2, <1>4 DEF LinkInv, Punctual, InFlight, WLive, SLive
<1>7. Ends'
  BY <1>2, <1>3, <1>4 DEF LinkInv, Ends, SLive, Linked
<1>8. Order'
  <2>1. Ascending(acks')
    BY Flights, TailKeeps DEF LinkInv, Order, GenerationsInOrder
  <2>2. GenerationsInOrder'
    BY <1>2, <1>4, <2>1 DEF LinkInv, Order, GenerationsInOrder, Ascending
  <2> QED  BY <1>2, <2>2 DEF LinkInv, Order
<1>9. Sending' /\ Healthy'
  BY <1>2 DEF LinkInv, Sending, Healthy, HealthyS, HealthyW, WellW, SLive, WLive
<1>10. WorkerDoomed'
  <2>1. CASE cutAt <= now
    <3>1. LostS' = LostS
      BY Losses, <1>3, <2>1 DEF LinkInv, Ends, LostS, Earlier
    <3> QED  BY <1>2, <3>1 DEF LinkInv, WorkerDoomed, WLive
  <2>2. CASE now < cutAt
    <3>1. LostS' = now
      BY Losses, <1>3, <2>2 DEF LostS, Earlier
    <3>2. WLive => \E u \in wTimers : Send(u) /\ u.due <= Max2(now + Interval, SpawnDelay)
      BY Timers DEF LinkInv, Sending, Max2
    <3> QED  BY <3>1, <3>2 DEF WorkerDoomed, WLive
  <2> QED  BY Losses, <2>1, <2>2
<1>11. SupervisorDoomed'
  BY <1>2, <1>3 DEF LinkInv, SupervisorDoomed, LostW, SLive
<1> QED  BY <1>5, <1>6, <1>7, <1>8, <1>9, <1>10, <1>11 DEF LinkInv

\* An AckDeadline ends a worker only when the link is not well.
LEMMA HandleAckDeadlineKeeps ==
    ASSUME LinkInv, NEW t \in wTimers, HandleAckDeadline(t)
    PROVE  LinkInv'
<1> USE Clock, Sides
<1>1. WLive /\ ~Send(t) /\ t.due <= now /\ wTimers' = wTimers \ {t}
      /\ UNCHANGED <<now, supervisor, sTimers, keepalives, acks, cutAt>>
  BY DEF HandleAckDeadline, DueW, WLive, Send
<1>2. CASE worker.acked < t.generation
  <2>1. worker' = [worker EXCEPT !.status = "failed"] /\ End("worker")
    BY <1>2 DEF HandleAckDeadline, AckMissed
  <2>2. ~WellW'
    <3> SUFFICES ASSUME WellW' PROVE FALSE
      OBVIOUS
    <3>1. WellW
      BY <1>1 DEF WellW, SLive, Linked, WLive
    <3>2. AckComing(t)
      BY <1>1, <1>2, <3>1 DEF LinkInv, Healthy, HealthyW, AcksComing
    <3>3. ASSUME NEW i \in DOMAIN keepalives, keepalives[i].sent + Timeout <= t.due PROVE FALSE
      <4>1. /\ now <= keepalives[i].sent + MaxDelay /\ keepalives[i].sent \in Nat
            /\ t.due \in Nat
        BY Timers, Flights DEF LinkInv, Punctual, InFlight
      <4> QED  BY <1>1, <3>1, <3>3, <4>1 DEF WellW, AcksInTime
    <3>4. ASSUME NEW i \in DOMAIN acks, acks[i].sent + Timeout <= t.due + MaxDelay PROVE FALSE
      <4>1. now <= acks[i].sent + MaxDelay /\ acks[i].sent \in Nat /\ t.due \in Nat
        BY Timers, Flights DEF LinkInv, Punctual, InFlight
      <4>2. MaxDelay + MaxDelay < Timeout
        BY <3>1 DEF WellW, AcksInTime
      <4>3. acks[i].sent + Timeout <= now + MaxDelay
        BY <1>1, <3>4, <4>1
      <4> QED  BY <4>1, <4>2, <4>3
    <3> QED  BY <3>2, <3>3, <3>4 DEF AckComing
  <2> QED  BY <1>1, <2>1, <2>2, WorkerLeaves DEF WLive
<1>3. CASE ~(worker.acked < t.generation)
  <2>1. UNCHANGED <<worker, endedAt>>
    BY <1>3 DEF HandleAckDeadline, AckMissed
  <2>2. TypeLink' /\ Punctual' /\ Ends' /\ Order' /\ Sending'
    BY <1>1, <2>1 DEF LinkInv, TypeLink, Punctual, InFlight, Ends, Order, GenerationsInOrder,
       Ascending, Sending, WLive, SLive, Linked
  <2>3. Healthy'
    BY <1>1, <2>1 DEF LinkInv, Healthy, HealthyW, HealthyS, WellW, WellS, Linked, SLive,
                     NextInTime, AcksComing, AckComing
  <2>4. WorkerDoomed'
    <3>1. ~(supervisor.generation < t.generation)
      BY Timers, <1>3 DEF LinkInv, Order
    <3> QED  BY <1>1, <2>1, <3>1 DEF LinkInv, WorkerDoomed, LostS, WLive
  <2>5. SupervisorDoomed'
    BY <1>1, <2>1 DEF LinkInv, SupervisorDoomed, LostW, SLive
  <2> QED  BY <2>2, <2>3, <2>4, <2>5 DEF LinkInv
<1> QED  BY <1>2, <1>3

\* A Deadline ends a supervisor only when the link is not well.
LEMMA HandleDeadlineKeeps ==
    ASSUME LinkInv, NEW t \in sTimers, HandleDeadline(t)
    PROVE  LinkInv'
<1> USE Clock, Sides
<1>1. SLive /\ t.due <= now /\ sTimers' = sTimers \ {t}
      /\ UNCHANGED <<now, worker, wTimers, keepalives, acks, cutAt>>
  BY DEF HandleDeadline, SLive
<1>2. CASE t.generation = supervisor.generation
  <2>1. supervisor' = [supervisor EXCEPT !.status = "failed"] /\ End("supervisor")
    BY <1>2 DEF HandleDeadline, KeepaliveMissed
  <2>2. ~WellS'
    <3> SUFFICES ASSUME WellS' PROVE FALSE
      OBVIOUS
    <3>1. WellS
      BY <1>1 DEF WellS, Linked, SLive
    <3>2. NextInTime /\ worker.status \in {"unborn", "live"}
      BY <3>1 DEF LinkInv, Healthy, HealthyS, WellS
    <3>3. CASE keepalives # <<>>
      <4>1. 1 \in DOMAIN keepalives
        BY Timers, <3>3, TailFacts
      <4> QED  BY Timers, Flights, <1>1, <1>2, <3>2, <3>3, <4>1
               DEF NextInTime, LinkInv, Punctual, InFlight
    <3>4. CASE keepalives = <<>> /\ WLive
      <4>1. PICK u \in wTimers : Send(u) /\ now <= u.due
        BY <3>4 DEF LinkInv, Sending, Punctual
      <4> QED  BY Timers, <1>1, <1>2, <3>2, <3>4, <4>1 DEF NextInTime
    <3>5. CASE worker.status = "unborn"
      BY <1>1, <1>2, <3>1, <3>2, <3>5
         DEF NextInTime, LinkInv, Punctual, WellS, KeepalivesInTime
    <3> QED  BY <3>2, <3>3, <3>4, <3>5 DEF WLive
  <2> QED  BY <1>1, <2>1, <2>2, SupervisorLeaves
<1>3. CASE t.generation # supervisor.generation
  <2>1. UNCHANGED <<supervisor, endedAt>>
    BY <1>3 DEF HandleDeadline, KeepaliveMissed
  <2>2. TypeLink' /\ Punctual' /\ Ends' /\ Order' /\ Sending'
    BY <1>1, <2>1 DEF LinkInv, TypeLink, Punctual, InFlight, Ends, Order, GenerationsInOrder,
       Ascending, Sending, WLive, SLive, Linked
  <2>3. Healthy'
    BY <1>1, <2>1 DEF LinkInv, Healthy, HealthyW, HealthyS, WellW, WellS, Linked, SLive,
                     NextInTime, AcksComing, AckComing
  <2>4. WorkerDoomed'
    BY <1>1, <2>1 DEF LinkInv, WorkerDoomed, LostS, WLive
  <2>5. SupervisorDoomed'
    BY <1>1, <1>3, <2>1 DEF LinkInv, SupervisorDoomed, LostW, SLive
  <2> QED  BY <2>2, <2>3, <2>4, <2>5 DEF LinkInv
<1> QED  BY <1>2, <1>3

\* A keepalive comes back: its supervisor has ended, so neither side is well.
LEMMA KeepaliveReturnedKeeps ==
    ASSUME LinkInv, KeepaliveReturned
    PROVE  LinkInv'
<1> USE Clock, Sides
<1>1. /\ supervisor.status \in {"failed", "gone"} /\ keepalives # <<>>
      /\ keepalives' = Tail(keepalives)
      /\ UNCHANGED <<now, supervisor, wTimers, sTimers, acks, cutAt>>
  BY DEF KeepaliveReturned
<1>2. ~WellS /\ ~WellW
  BY <1>1 DEF LinkInv, Healthy, HealthyS, WellW, SLive
<1>3. CASE /\ worker.status = "live" /\ worker' = [worker EXCEPT !.status = "failed"]
           /\ End("worker")
  BY <1>1, <1>2, <1>3, WorkerLeaves DEF WellW, SLive
<1>4. CASE UNCHANGED <<worker, endedAt>>
  <2>1. /\ keepalives' \in Seq(Flight)
        /\ \A i \in DOMAIN keepalives' :
               \E j \in DOMAIN keepalives : keepalives'[i] = keepalives[j]
    BY Flights, <1>1, TailFacts
  <2>2. Ascending(keepalives')
    BY Flights, <1>1, TailKeeps DEF LinkInv, Order, GenerationsInOrder
  <2>3. TypeLink' /\ Punctual' /\ Sending'
    BY <1>1, <1>4, <2>1 DEF LinkInv, TypeLink, Punctual, InFlight, Sending, WLive, SLive
  <2>4. Ends'
    BY <1>1, <1>4 DEF LinkInv, Ends, SLive, Linked
  <2>5. Order'
    BY <1>1, <1>4, <2>1, <2>2 DEF LinkInv, Order, GenerationsInOrder, Ascending
  <2>6. Healthy' /\ WorkerDoomed'
    BY <1>1, <1>2, <1>4 DEF LinkInv, Healthy, HealthyW, HealthyS, WellW, WellS, SLive, Linked,
                           WorkerDoomed, LostS, WLive
  <2>7. SupervisorDoomed'
    BY <1>1, <1>4, <2>1 DEF LinkInv, SupervisorDoomed, LostW, SLive
  <2> QED  BY <2>3, <2>4, <2>5, <2>6, <2>7 DEF LinkInv
<1> QED  BY <1>3, <1>4 DEF KeepaliveReturned

\* An ack comes back: its worker has ended, so neither side is well.
LEMMA AckReturnedKeeps ==
    ASSUME LinkInv, AckReturned
    PROVE  LinkInv'
<1> USE Clock, Sides
<1>1. /\ worker.status \in {"failed", "gone"} /\ acks # <<>> /\ acks' = Tail(acks)
      /\ UNCHANGED <<now, worker, wTimers, sTimers, keepalives, cutAt>>
  BY DEF AckReturned
<1>2. ~WellS /\ ~WellW
  BY <1>1 DEF LinkInv, Healthy, HealthyW, WellS
<1>3. CASE /\ supervisor.status = "live"
           /\ supervisor' = [supervisor EXCEPT !.status = "failed"] /\ End("supervisor")
  BY <1>1, <1>2, <1>3, SupervisorLeaves DEF WellS, SLive
<1>4. CASE UNCHANGED <<supervisor, endedAt>>
  <2>1. /\ acks' \in Seq(Flight)
        /\ \A i \in DOMAIN acks' : \E j \in DOMAIN acks : acks'[i] = acks[j]
    BY Flights, <1>1, TailFacts
  <2>2. Ascending(acks')
    BY Flights, <1>1, TailKeeps DEF LinkInv, Order, GenerationsInOrder
  <2>3. TypeLink' /\ Punctual' /\ Sending'
    BY <1>1, <1>4, <2>1 DEF LinkInv, TypeLink, Punctual, InFlight, Sending, WLive, SLive
  <2>4. Ends'
    BY <1>1, <1>4 DEF LinkInv, Ends, SLive, Linked
  <2>5. Order'
    BY <1>1, <1>4, <2>1, <2>2 DEF LinkInv, Order, GenerationsInOrder, Ascending
  <2>6. Healthy' /\ WorkerDoomed'
    BY <1>1, <1>2, <1>4 DEF LinkInv, Healthy, HealthyW, HealthyS, WellW, WellS, SLive, Linked,
                           WorkerDoomed, LostS, WLive
  <2>7. SupervisorDoomed'
    BY <1>1, <1>4 DEF LinkInv, SupervisorDoomed, LostW, SLive
  <2> QED  BY <2>3, <2>4, <2>5, <2>6, <2>7 DEF LinkInv
<1> QED  BY <1>3, <1>4 DEF AckReturned

\* The path is lost.
LEMMA CutKeeps ==
    ASSUME LinkInv, Cut
    PROVE  LinkInv'
<1> USE Clock, Sides
<1>1. /\ cutAt = Never /\ cutAt' = now /\ keepalives' = <<>> /\ acks' = <<>>
      /\ UNCHANGED <<now, worker, supervisor, wTimers, sTimers, endedAt>>
  BY DEF Cut, Linked
<1>2. TypeLink' /\ Punctual' /\ Ends' /\ Sending'
  BY Losses, <1>1 DEF LinkInv, TypeLink, Punctual, InFlight, Ends, Sending, WLive, SLive, Linked
<1>3. Order'
  BY <1>1 DEF LinkInv, Order, GenerationsInOrder, Ascending
<1>4. Healthy'
  BY Losses, <1>1 DEF Healthy, HealthyW, HealthyS, WellW, WellS, Linked
<1>5. WorkerDoomed'
  <2>1. CASE endedAt["supervisor"] <= now
    <3>1. LostS' = LostS
      BY Losses, <1>1, <2>1 DEF LostS, Earlier, Side
    <3> QED  BY <1>1, <3>1 DEF LinkInv, WorkerDoomed, WLive
  <2>2. CASE now < endedAt["supervisor"]
    <3>1. LostS' = now
      BY Losses, <1>1, <2>2 DEF LostS, Earlier, Side
    <3>2. WLive => \E u \in wTimers : Send(u) /\ u.due <= Max2(now + Interval, SpawnDelay)
      BY Timers DEF LinkInv, Sending, Max2
    <3> QED  BY <1>1, <3>1, <3>2 DEF WorkerDoomed, WLive
  <2> QED  BY Losses, <2>1, <2>2 DEF Side
<1>6. SupervisorDoomed'
  <2>1. CASE endedAt["worker"] <= now
    <3>1. LostW' = LostW
      BY Losses, <1>1, <2>1 DEF LostW, Earlier, Side
    <3> QED  BY <1>1, <3>1 DEF LinkInv, SupervisorDoomed, SLive
  <2>2. CASE now < endedAt["worker"]
    <3>1. LostW' = now
      BY Losses, <1>1, <2>2 DEF LostW, Earlier, Side
    <3> QED  BY Timers, <1>1, <3>1 DEF LinkInv, SupervisorDoomed, SLive
  <2> QED  BY Losses, <2>1, <2>2 DEF Side
<1> QED  BY <1>2, <1>3, <1>4, <1>5, <1>6 DEF LinkInv

\* Time passes.
LEMMA TickKeeps ==
    ASSUME LinkInv, Tick
    PROVE  LinkInv'
<1> USE Clock, Sides
<1>1. /\ now < MaxTime /\ now' = now + 1 /\ Settled
      /\ UNCHANGED <<worker, supervisor, wTimers, sTimers, keepalives, acks, cutAt, endedAt>>
  BY DEF Tick
<1>2. now + 1 < Never /\ MaxTime \in Nat
  BY <1>1, ParamsAssumption DEF Never
<1>3. TypeLink'
  BY <1>1, <1>2 DEF LinkInv, TypeLink
<1>4. Punctual'
  <2>1. InFlight(keepalives)' /\ InFlight(acks)'
    <3>1. InFlight(keepalives) /\ InFlight(acks)
      BY DEF LinkInv, Punctual
    <3>2. /\ \A i \in DOMAIN keepalives : keepalives[i].sent + MaxDelay > now
          /\ \A i \in DOMAIN acks : acks[i].sent + MaxDelay > now
      BY <1>1 DEF Settled
    <3>3. InFlight(keepalives)'
      BY Flights, <1>1, <3>1, <3>2 DEF InFlight
    <3>4. InFlight(acks)'
      BY Flights, <1>1, <3>1, <3>2 DEF InFlight
    <3> QED  BY <3>3, <3>4
  <2>2. /\ WLive => \A t \in wTimers : now + 1 <= t.due
        /\ SLive => \A t \in sTimers : now + 1 <= t.due
        /\ worker.status = "unborn" => now + 1 <= SpawnDelay
    BY Timers, <1>1 DEF Settled, WLive, SLive
  <2> QED  BY <1>1, <2>1, <2>2 DEF Punctual, WLive, SLive
<1>5. Ends'
  <2>1. /\ cutAt \in Nat /\ endedAt["supervisor"] \in Nat /\ endedAt["worker"] \in Nat
    BY Losses DEF Side
  <2>2. \A n \in Nat : n <= now => n <= now + 1
    OBVIOUS
  <2>3. Ends
    BY DEF LinkInv
  <2> QED  BY <1>1, <2>1, <2>2, <2>3 DEF Ends, SLive, Linked
<1>6. Order' /\ Healthy'
  BY <1>1 DEF LinkInv, Order, GenerationsInOrder, Ascending, Healthy, HealthyW, HealthyS,
     WellW, WellS, Linked, SLive, NextInTime, AcksComing, AckComing
<1>7. Sending'
  BY Timers, <1>1 DEF LinkInv, Sending, WLive
<1>8. LostS' = LostS /\ LostW' = LostW
  BY <1>1 DEF LostS, LostW
<1>9. (LostS <= now + 1 => LostS <= now) /\ (LostW <= now + 1 => LostW <= now)
  BY Losses, <1>2 DEF LinkInv, Ends, LostS, LostW, Earlier, Linked, Side
<1>10. WorkerDoomed'
  BY <1>1, <1>8, <1>9 DEF LinkInv, WorkerDoomed, WLive
<1>11. SupervisorDoomed'
  BY Timers, <1>1, <1>8, <1>9 DEF LinkInv, SupervisorDoomed, SLive
<1> QED  BY <1>3, <1>4, <1>5, <1>6, <1>7, <1>10, <1>11 DEF LinkInv

-----------------------------------------------------------------------------
(* The theorems.                                                           *)

\* It holds at the start: the deadline of generation 0 is armed.
LEMMA LinkInvInit == Init => LinkInv
<1> SUFFICES ASSUME Init PROVE LinkInv
  OBVIOUS
<1>1. TypeLink
  BY ParamsAssumption DEF Init, TypeLink, Status, STimer, Side, Never
<1>2. Punctual /\ Ends /\ Order /\ Sending /\ Healthy
  BY ParamsAssumption
     DEF Init, Punctual, InFlight, Ends, Order, GenerationsInOrder, Ascending, Sending, Healthy,
         HealthyW, HealthyS, NextInTime, AcksComing, WLive, SLive, Linked, Side, Never
<1>3. WorkerDoomed /\ SupervisorDoomed
  BY ParamsAssumption
     DEF Init, WorkerDoomed, SupervisorDoomed, WLive, SLive, LostW, Earlier, Never, Side
<1> QED  BY <1>1, <1>2, <1>3 DEF LinkInv

\* Every step keeps it.
LEMMA LinkInvStep ==
    ASSUME LinkInv, [Next]_vars
    PROVE  LinkInv'
<1>1. CASE WorkerInit \/ HandleAck \/ HandleKeepalive \/ KeepaliveReturned \/ AckReturned
           \/ Cut \/ Tick
  BY <1>1, WorkerInitKeeps, HandleAckKeeps, HandleKeepaliveKeeps, KeepaliveReturnedKeeps,
     AckReturnedKeeps, CutKeeps, TickKeeps
<1>2. CASE \E t \in wTimers : HandleSendKeepalive(t) \/ HandleAckDeadline(t)
  BY <1>2, HandleSendKeepaliveKeeps, HandleAckDeadlineKeeps
<1>3. CASE \E t \in sTimers : HandleDeadline(t)
  BY <1>3, HandleDeadlineKeeps
<1>4. CASE SupervisorEnds
  <2>1. supervisor'.status = "gone"
    BY <1>4 DEF SupervisorEnds, LinkInv, TypeLink
  <2> QED  BY <1>4, <2>1, SupervisorLeaves DEF SupervisorEnds, SLive, WellS
<1>5. CASE WorkerEnds
  <2>1. worker'.status = "gone"
    BY <1>5 DEF WorkerEnds, LinkInv, TypeLink
  <2> QED  BY <1>5, <2>1, WorkerLeaves DEF WorkerEnds, WellW
<1>6. CASE UNCHANGED vars
  BY <1>6 DEF vars, LinkInv, TypeLink, Punctual, InFlight, Ends, Order, GenerationsInOrder,
     Ascending, Sending, Healthy, HealthyW, HealthyS, WellW, WellS, NextInTime, AcksComing,
     AckComing, WorkerDoomed, LostS,
     SupervisorDoomed, LostW, WLive, SLive, Linked
<1> QED  BY <1>1, <1>2, <1>3, <1>4, <1>5, <1>6 DEF Next, Horizon

\* The invariant holds in every state.
THEOREM LinkInvariant == Spec => []LinkInv
<1>1. LinkInv /\ [Next]_vars => LinkInv'
  BY LinkInvStep
<1> QED  BY <1>1, LinkInvInit, PTL DEF Spec

\* The types, and the order in which the generations are known.
THEOREM LinkTypes == Spec => []TypeOK
<1>1. LinkInv => TypeOK
  BY Sides, Timers, Flights DEF LinkInv, TypeLink, Order, WTimer, STimer, TypeOK
<1> QED  BY <1>1, LinkInvariant, PTL

\* What each side knows lags behind what the other did; the comment of the
\* Deadline handler relies on it.
THEOREM GenerationsOrdered == Spec => []GenerationsInOrder
<1>1. LinkInv => GenerationsInOrder
  BY DEF LinkInv, Order
<1> QED  BY <1>1, LinkInvariant, PTL

\* No timer of a healthy link is the first thing to end a side (the AckDeadline
\* and Deadline handlers): the worker whenever a round trip fits in the timeout,
\* which KeepaliveLink::default leaves room for; the supervisor only when the
\* interval is shorter than the timeout by more than a delivery.
THEOREM HealthyStays == Spec => []HealthyLinkStays
<1>1. LinkInv => HealthyLinkStays
  BY Sides DEF LinkInv, Healthy, HealthyW, HealthyS, WellW, WellS, SLive, HealthyLinkStays,
         WorkerStays, SupervisorSafe
<1> QED  BY <1>1, LinkInvariant, PTL

\* Either side notices the loss of the other, or of the path, in bounded time
\* (send_keepalive, the AckDeadline and Deadline handlers).
THEOREM LossIsDetected == Spec => []LossDetected
<1>1. LinkInv => LossDetected
  <2> SUFFICES ASSUME LinkInv PROVE LossDetected
    OBVIOUS
  <2> USE Clock, Sides
  <2>1. WorkerDetects
    <3> DEFINE last == Max2(LostS + Interval, SpawnDelay)
    <3> SUFFICES ASSUME WLive, now > last + Timeout PROVE FALSE
      BY DEF WorkerDetects, LostS, WLive
    <3>1. last \in Nat /\ LostS <= last
      BY Losses DEF Max2
    <3>2. LostS <= now /\ last < now
      BY Losses, <3>1
    <3>3. \A t \in wTimers : now <= t.due
      BY DEF LinkInv, Punctual
    <3>4. \/ \E t \in wTimers : t.due <= last + Timeout
          \/ \E u \in wTimers : u.due <= last
      BY <3>2 DEF LinkInv, WorkerDoomed
    <3> HIDE DEF last
    <3> QED  BY Timers, <3>1, <3>2, <3>3, <3>4
  <2>2. SupervisorDetects
    <3> SUFFICES ASSUME SLive, now > LostW + MaxDelay + Timeout PROVE FALSE
      BY DEF SupervisorDetects, LostW, SLive
    <3>1. LostW <= now
      BY Losses
    <3>2. \E t \in sTimers : t.due <= LostW + MaxDelay + Timeout
      BY <3>1 DEF LinkInv, SupervisorDoomed
    <3> QED  BY Losses, Timers, <3>2 DEF LinkInv, Punctual
  <2> QED  BY <2>1, <2>2 DEF LossDetected
<1> QED  BY <1>1, LinkInvariant, PTL

=============================================================================
