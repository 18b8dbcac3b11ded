-------------------------- MODULE ActorTreeProofs --------------------------
(***************************************************************************)
(* Proofs about ActorTree, for any number of actors and any amount of      *)
(* trouble from outside.                                                   *)
(*                                                                         *)
(* The argument.  A child that has not come to its epilogue is linked to   *)
(* its parent until the parent gives up on it, so a parent without linked  *)
(* children has none that still run.  A child leaves the set before it     *)
(* sends its event and its ChildStopped, once each.  What a parent in its  *)
(* loop was sent it handles, or it fails with it, or it is ended with the  *)
(* event in its queue.  A root reports to the coordinator before it shows  *)
(* the status that destroy_and_wait waits for.                             *)
(***************************************************************************)
EXTENDS ActorTree, TLAPS

\* The phases of a task that can be reached, that is linked, and that is past
\* its cleanup.
Early == {"loop", "checking", "waiting", "cleanup"}
Before == Early \cup {"unlinking"}
Reported == {"publishing", "done"}
Past == {"cleanup", "unlinking", "sending", "publishing", "done"}

Kinds == {"Stop", "Drain", "Kill", "Exit", "ChildStopped"}
Sig == [kind : Kinds, child : Actor \cup {0}]
Status == {"unborn", "Idle", "Stopping"} \cup Terminal
Outcome == {"none", "Stop", "Drain", "error", "abrupt", "killed", "cleanup"}
Report == {"none", "queued", "late", "handled", "propagated", "dropped",
           "coordinator", "lost", "crash"}

\* The domains of the variables.
TypeTree ==
    /\ parent \in [Actor -> Actor \cup {Proc}]
    /\ phase \in [Actor -> Phase]
    /\ status \in [Actor -> Status]
    /\ outcome \in [Actor -> Outcome]
    /\ children \in [Actor -> SUBSET Actor]
    /\ signals \in [Actor -> Seq(Sig)]
    /\ events \in [Actor -> Seq(Actor)]
    /\ mode \in [Actor -> {"Stop", "Drain"}]
    /\ report \in [Actor -> Report]
    /\ coordinator \in {"live", "stopped"}
    /\ destroy \in {"idle", "phase1", "phase2", "done"}
    /\ faults \in 0..MaxFaults

\* How an actor ended and the status it shows follow its phase.
Lifecycle ==
    \A a \in Actor :
        /\ phase[a] # "aborted" => (phase[a] \in {"unborn", "loop"} <=> outcome[a] = "none")
        /\ status[a] \in Terminal => phase[a] \in {"done", "aborted"}
        /\ phase[a] = "done" => status[a] = IF Errs(a) THEN "Failed" ELSE "Stopped"

\* Who is whose child.  Only roots are aborted, and only children send.
Family ==
    /\ \A c \in Actor :
        /\ phase[c] # "unborn" /\ parent[c] # Proc => phase[parent[c]] # "unborn"
        /\ phase[c] = "aborted" => parent[c] = Proc
        /\ phase[c] = "sending" => parent[c] # Proc
    /\ \A p \in Actor : \A c \in children[p] : parent[c] = p /\ phase[c] \in Before

\* A child is linked until its epilogue, unless its parent gave it up.
Links ==
    /\ \A c \in Actor : phase[c] \in Before /\ parent[c] # Proc
            => c \in children[parent[c]] \/ phase[parent[c]] # "loop"
    /\ \A c \in Actor : phase[c] \in Early /\ parent[c] # Proc
            => c \in children[parent[c]] \/ parent[c] \in timedOut
    /\ \A p \in Actor : phase[p] \in Past => children[p] = {}

\* A ChildStopped comes from a child that was unlinked before it sent it.
SignalQueues ==
    \A a \in Actor : \A i \in 1..Len(signals[a]) :
        signals[a][i].kind = "ChildStopped" =>
            LET c == signals[a][i].child
            IN  c \in Actor /\ parent[c] = a /\ phase[c] \in Reported

\* A child sends its event once.
EventQueues ==
    \A a \in Actor :
        /\ \A i \in 1..Len(events[a]) :
            parent[events[a][i]] = a /\ phase[events[a][i]] \in Reported
        /\ \A i, j \in 1..Len(events[a]) : events[a][i] = events[a][j] => i = j

\* The roots that are waited for, and what the coordinator has heard of them.
RootsHeard ==
    /\ \A a \in awaited : a \in Actor /\ parent[a] = Proc /\ phase[a] # "unborn"
    /\ aborting \subseteq awaited /\ (destroy = "idle" => aborting = {})
    /\ \A a \in Actor : phase[a] = "aborted" => a \in aborting
    /\ destroy # "done" => coordinator = "live"
    /\ \A a \in Actor :
            parent[a] = Proc /\ phase[a] \in Reported => report[a] \in {"coordinator", "lost"}
    /\ destroy # "done" => \A a \in Actor :
            parent[a] = Proc /\ phase[a] \in Reported => report[a] = "coordinator"
    /\ destroy \in {"phase2", "done"} => \A a \in awaited \ aborting :
            phase[a] = "done" /\ report[a] = "coordinator"

\* Another child's failure ended the parent.
EndedByChild(p) == \E b \in Actor : parent[b] = p /\ report[b] = "propagated"

\* What became of the failure of a child that has sent its event.
Fate(c) ==
    LET p == parent[c]
    IN  \/ report[c] \in {"handled", "coordinator", "crash"}
        \/ report[c] = "queued" /\ Contains(events[p], c)
        \/ report[c] = "propagated" /\ Errs(p)
        \/ report[c] \in {"late", "lost"} /\ phase[p] # "loop"
        \/ /\ report[c] = "dropped" /\ phase[p] # "loop"
           /\ outcome[p] # "error" \/ phase[p] = "aborted" \/ EndedByChild(p)

Fates ==
    /\ \A c \in Actor : report[c] = "propagated" => phase[c] \in Reported
    /\ \A c \in Actor :
        Errs(c) /\ phase[c] \in Reported /\ parent[c] # Proc => Fate(c)

\* An actor that a message handler's error ended had heard all its children.
ErrorsHeard ==
    \A p \in Actor : outcome[p] = "error" =>
        \/ EndedByChild(p)
        \/ \A i \in 1..Len(events[p]) : report[events[p][i]] # "queued"

\* The teardown and the shutdown.
TreeInv ==
    /\ TypeTree /\ Lifecycle /\ Family /\ Links
    /\ SignalQueues /\ EventQueues /\ RootsHeard

\* The failures of the children as well.
FateInv == TreeInv /\ Fates /\ ErrorsHeard

-----------------------------------------------------------------------------
(* Queues.                                                                  *)

\* What is left of a queue behind its first n + 1 elements.
LEMMA RestOfQueue ==
    ASSUME NEW S, NEW q \in Seq(S), NEW n \in 0..Len(q)
    PROVE  LET r == SubSeq(q, n + 2, Len(q))
           IN  /\ r \in Seq(S)
               /\ \A i \in 1..Len(r) : n + 1 + i \in 1..Len(q) /\ r[i] = q[n + 1 + i]
<1> DEFINE r == SubSeq(q, n + 2, Len(q))
<1>1. Len(q) \in Nat /\ n \in Nat /\ n <= Len(q)
  OBVIOUS
<1>2. CASE n + 2 > Len(q)
  <2>1. r = <<>>
    BY <1>1, <1>2
  <2> QED  BY <2>1
<1>3. CASE n + 2 <= Len(q)
  <2>1. r \in Seq(S) /\ Len(r) = Len(q) - n - 1
    BY <1>1, <1>3
  <2>2. \A i \in 1..Len(r) : n + 1 + i \in 1..Len(q) /\ r[i] = q[(n + 2) + i - 1]
    BY <1>1, <1>3, <2>1
  <2>3. \A i \in 1..Len(r) : (n + 2) + i - 1 = n + 1 + i
    BY <1>1, <2>1
  <2> QED  BY <2>1, <2>2, <2>3
<1> QED  BY <1>1, <1>2, <1>3

\* What is sent goes to the end of the queue.
LEMMA AppendFacts ==
    ASSUME NEW S, NEW q \in Seq(S), NEW e \in S
    PROVE  /\ Append(q, e) \in Seq(S)
           /\ Len(Append(q, e)) = Len(q) + 1 /\ Len(q) \in Nat
           /\ \A i \in 1..Len(q) : Append(q, e)[i] = q[i]
           /\ Append(q, e)[Len(q) + 1] = e
OBVIOUS

\* The first is taken, and the others move up.
LEMMA TailFacts ==
    ASSUME NEW S, NEW q \in Seq(S), q # <<>>
    PROVE  /\ Tail(q) \in Seq(S) /\ Head(q) \in S /\ Head(q) = q[1]
           /\ Len(Tail(q)) = Len(q) - 1 /\ Len(q) \in Nat \ {0}
           /\ \A i \in 1..(Len(q) - 1) : Tail(q)[i] = q[i + 1]
OBVIOUS

\* What is left when the first n + 1 are taken.
LEMMA RestFacts ==
    ASSUME NEW S, NEW q \in Seq(S), NEW n \in Nat, NEW i \in 1..Len(q), i > n + 1
    PROVE  /\ i - n - 1 \in 1..Len(SubSeq(q, n + 2, Len(q)))
           /\ SubSeq(q, n + 2, Len(q))[i - n - 1] = q[i]
OBVIOUS

\* Each signal of q is one of s, or is a signal of another kind than
\* ChildStopped.
NoNewStopped(q, s) ==
    /\ q \in Seq(Sig)
    /\ \A i \in 1..Len(q) : q[i].kind = "ChildStopped" => \E j \in 1..Len(s) : q[i] = s[j]

\* Signals of the other kinds may be added, and signals taken.
LEMMA SignalsKept ==
    ASSUME NEW s \in Seq(Sig)
    PROVE  /\ NoNewStopped(s, s) /\ NoNewStopped(<<>>, s)
           /\ s # <<>> => NoNewStopped(Tail(s), s)
           /\ \A k \in Kinds \ {"ChildStopped"} : NoNewStopped(Append(s, Signal(k)), s)
<1>1. NoNewStopped(s, s) /\ NoNewStopped(<<>>, s)
  BY DEF NoNewStopped
<1>2. ASSUME s # <<>> PROVE NoNewStopped(Tail(s), s)
  <2>1. /\ Tail(s) \in Seq(Sig) /\ Len(Tail(s)) = Len(s) - 1 /\ Len(s) \in Nat \ {0}
        /\ \A i \in 1..(Len(s) - 1) : Tail(s)[i] = s[i + 1]
    BY <1>2, TailFacts
  <2> QED  BY <2>1 DEF NoNewStopped
<1>3. ASSUME NEW k \in Kinds \ {"ChildStopped"} PROVE NoNewStopped(Append(s, Signal(k)), s)
  <2>1. Signal(k) \in Sig /\ Signal(k).kind = k
    BY DEF Signal, Sig
  <2>2. /\ Append(s, Signal(k)) \in Seq(Sig)
        /\ Len(Append(s, Signal(k))) = Len(s) + 1 /\ Len(s) \in Nat
        /\ \A i \in 1..Len(s) : Append(s, Signal(k))[i] = s[i]
        /\ Append(s, Signal(k))[Len(s) + 1] = Signal(k)
    BY <2>1, AppendFacts
  <2> QED  BY <2>1, <2>2 DEF NoNewStopped
<1> QED  BY <1>1, <1>2, <1>3

\* SignalQueues: no ChildStopped is added, and whoever has sent stays as it is.
LEMMA SignalQueuesKept ==
    ASSUME TypeTree, SignalQueues, signals' \in [Actor -> Seq(Sig)],
           \A a \in Actor : NoNewStopped(signals'[a], signals[a]),
           \A c \in Actor : phase[c] \in Reported /\ parent[c] # Proc
                => phase'[c] \in Reported /\ parent'[c] = parent[c]
    PROVE  SignalQueues'
<1> SUFFICES ASSUME NEW a \in Actor, NEW i \in 1..Len(signals'[a]),
                    signals'[a][i].kind = "ChildStopped"
             PROVE  LET c == signals'[a][i].child
                    IN  c \in Actor /\ parent'[c] = a /\ phase'[c] \in Reported
  BY DEF SignalQueues
<1>1. PICK j \in 1..Len(signals[a]) : signals'[a][i] = signals[a][j]
  BY DEF NoNewStopped
<1>2. a # Proc
  BY BoundsAssumption DEF Actor, Proc
<1> DEFINE c == signals[a][j].child
<1>3. c \in Actor /\ parent[c] = a /\ phase[c] \in Reported
  BY <1>1 DEF SignalQueues
<1> QED  BY <1>1, <1>2, <1>3

\* EventQueues: the same, when the queues do not change.
LEMMA EventQueuesKept ==
    ASSUME TypeTree, EventQueues, UNCHANGED events,
           \A c \in Actor : phase[c] \in Reported /\ parent[c] # Proc
                => phase'[c] \in Reported /\ parent'[c] = parent[c]
    PROVE  EventQueues'
<1>1. \A a \in Actor : a # Proc /\ \A i \in 1..Len(events[a]) : events[a][i] \in Actor
  BY BoundsAssumption DEF Actor, Proc, TypeTree
<1> QED  BY <1>1 DEF EventQueues

\* The bound on what comes from outside.
LEMMA FaultType ==
    ASSUME TypeTree, NEW n \in Nat, Fault(n) \/ UNCHANGED faults
    PROVE  faults' \in 0..MaxFaults
BY BoundsAssumption DEF Fault, TypeTree

-----------------------------------------------------------------------------
(* The loop.                                                                *)

\* spawn_inner: the new actor runs, linked to its parent if it has one.
LEMMA SpawnKeeps ==
    ASSUME TreeInv, NEW p \in Actor \cup {Proc}, NEW c \in Actor, Spawn(p, c)
    PROVE  TreeInv'
<1>1. /\ phase[c] = "unborn" /\ p # c
      /\ parent' = [parent EXCEPT ![c] = p]
      /\ phase' = [phase EXCEPT ![c] = "loop"]
      /\ status' = [status EXCEPT ![c] = "Idle"]
      /\ UNCHANGED <<outcome, signals, events, mode, report, timedOut, coordinator, destroy,
                     awaited, aborting, faults>>
  BY BoundsAssumption DEF Spawn, Idle, Looping, procVars, Actor, Proc
<1>2. \/ p = Proc /\ destroy = "idle" /\ UNCHANGED children
      \/ p \in Actor /\ p # Proc /\ phase[p] = "loop"
         /\ children' = [children EXCEPT ![p] = @ \cup {c}]
  BY DEF Spawn, Idle, Looping
<1>0. /\ children' \in [Actor -> SUBSET Actor]
      /\ \A q \in Actor : children'[q] = IF q = p THEN children[q] \cup {c} ELSE children[q]
  <2>1. children \in [Actor -> SUBSET Actor] /\ Proc \notin Actor
    BY BoundsAssumption DEF TreeInv, TypeTree, Actor, Proc
  <2>2. CASE p = Proc /\ UNCHANGED children
    BY <2>1, <2>2
  <2>3. CASE p \in Actor /\ children' = [children EXCEPT ![p] = @ \cup {c}]
    <3>1. children[p] \cup {c} \in SUBSET Actor
      BY <2>1, <2>3
    <3> QED  BY <2>1, <2>3, <3>1
  <2> QED  BY <1>2, <2>2, <2>3
<1>3. TypeTree'
  BY <1>1, <1>0 DEF TreeInv, TypeTree, Phase, Status
<1>4. Lifecycle'
  BY <1>1 DEF TreeInv, TypeTree, Lifecycle, Errs, Terminal
<1>5. \A q \in Actor : c \notin children[q]
  BY <1>1 DEF TreeInv, Family, Before, Early
<1>6. \A b \in Actor \ {c} : parent'[b] = parent[b] /\ phase'[b] = phase[b]
  BY <1>1 DEF TreeInv, TypeTree
<1>7. parent'[c] = p /\ phase'[c] = "loop" /\ \A b \in Actor : phase[b] # "unborn" => b # c
  BY <1>1 DEF TreeInv, TypeTree
<1>8. Family'
  <2>1. ASSUME NEW b \in Actor
        PROVE  /\ phase'[b] # "unborn" /\ parent'[b] # Proc => phase'[parent'[b]] # "unborn"
               /\ phase'[b] = "aborted" => parent'[b] = Proc
               /\ phase'[b] = "sending" => parent'[b] # Proc
    <3>1. CASE b = c
      BY <3>1, <1>2, <1>1, <1>6, <1>7
    <3>2. CASE b # c
      <4>1. parent[b] \in Actor \cup {Proc}
        BY DEF TreeInv, TypeTree
      <4> QED  BY <3>2, <4>1, <1>6, <1>7 DEF TreeInv, Family
    <3> QED  BY <3>1, <3>2
  <2>2. ASSUME NEW q \in Actor, NEW b \in children'[q]
        PROVE  parent'[b] = q /\ phase'[b] \in Before
    <3>1. (b = c /\ q = p) \/ (b \in children[q] /\ b # c)
      BY <1>0, <1>5
    <3>2. b \in children[q] => b \in Actor
      BY DEF TreeInv, TypeTree
    <3> QED  BY <3>1, <3>2, <1>6, <1>7 DEF TreeInv, Family, Before, Early
  <2> QED  BY <2>1, <2>2 DEF Family
<1>9. Links'
  <2>1. ASSUME NEW b \in Actor, phase'[b] \in Before, parent'[b] # Proc
        PROVE  b \in children'[parent'[b]] \/ (b # c /\ parent[b] \in Actor
                    /\ b \notin children[parent[b]] /\ phase'[parent[b]] = phase[parent[b]])
    <3>1. CASE b = c
      BY <3>1, <2>1, <1>2, <1>7 DEF TreeInv, TypeTree
    <3>2. CASE b # c
      <4>1. parent[b] \in Actor /\ phase[b] # "unborn" /\ parent[b] # Proc
        BY <3>2, <2>1, <1>6 DEF TreeInv, TypeTree, Before, Early
      <4>2. parent[b] # c
        BY <4>1, <1>1 DEF TreeInv, Family
      <4>3. b \in children[parent[b]] => b \in children'[parent[b]]
        BY <4>1, <1>0
      <4> QED  BY <3>2, <4>1, <4>2, <4>3, <1>6
    <3> QED  BY <3>1, <3>2
  <2>2. \A q \in Actor : phase'[q] \in Past => q # p /\ q # c /\ phase[q] \in Past
    <3>1. p \in Actor => phase[p] = "loop" /\ p # c
      BY <1>1, <1>2, BoundsAssumption DEF Actor, Proc
    <3> QED  BY <3>1, <1>6, <1>7 DEF Past
  <2>3. \A q \in Actor : phase'[q] \in Past => children'[q] = {}
    BY <2>2, <1>0 DEF TreeInv, Links
  <2> QED  BY <2>1, <2>3, <1>1, <1>6 DEF TreeInv, Links, Before
<1>10. \A b \in Actor : phase[b] \in Reported /\ parent[b] # Proc
            => phase'[b] \in Reported /\ parent'[b] = parent[b]
  BY <1>1, <1>6 DEF Reported
<1>11. SignalQueues' /\ EventQueues'
  <2>1. signals' \in [Actor -> Seq(Sig)] /\ \A b \in Actor : NoNewStopped(signals'[b], signals[b])
    BY <1>1, SignalsKept DEF TreeInv, TypeTree
  <2> QED  BY <2>1, <1>1, <1>10, SignalQueuesKept, EventQueuesKept DEF TreeInv
<1>12. RootsHeard'
  BY <1>1, <1>2, <1>6, <1>7 DEF TreeInv, TypeTree, RootsHeard, Reported
<1> QED  BY <1>3, <1>4, <1>8, <1>9, <1>11, <1>12 DEF TreeInv

\* Signals other than ChildStopped are sent or taken, and an actor in its loop
\* may show that it is stopping.
LEMMA SignalsOnly ==
    ASSUME TreeInv, signals' \in [Actor -> Seq(Sig)], faults' \in 0..MaxFaults,
           \A a \in Actor : NoNewStopped(signals'[a], signals[a]),
           status' \in [Actor -> Status], mode' \in [Actor -> {"Stop", "Drain"}],
           \A a \in Actor : \/ status'[a] = status[a]
                            \/ status'[a] = "Stopping" /\ phase[a] = "loop",
           UNCHANGED <<parent, phase, outcome, children, events, report, timedOut,
                       coordinator, destroy, awaited, aborting>>
    PROVE  TreeInv'
<1>1. TypeTree'
  BY DEF TreeInv, TypeTree
<1>2. Lifecycle'
  BY DEF TreeInv, Lifecycle, Errs, Terminal
<1>3. Family' /\ Links'
  BY DEF TreeInv, Family, Links
<1>4. EventQueues'
  BY DEF TreeInv, EventQueues
<1>5. RootsHeard'
  BY DEF TreeInv, RootsHeard
<1>6. SignalQueues'
  BY SignalQueuesKept DEF TreeInv
<1> QED  BY <1>1, <1>2, <1>3, <1>4, <1>5, <1>6 DEF TreeInv

\* A hang, a signal from outside, and the work item of exit_after_drain.
LEMMA OutsideKeeps ==
    ASSUME TreeInv, NEW a \in Actor,
           \/ Hang(a) \/ RunExitWork(a)
           \/ \E kind \in {"Stop", "Drain", "Kill"} : SendSignal(a, kind)
    PROVE  TreeInv'
<1>1. UNCHANGED <<parent, phase, status, outcome, children, events, mode, report, timedOut,
                  coordinator, destroy, awaited, aborting>>
  BY DEF Hang, RunExitWork, SendSignal, taskVars, procVars
<1>2. Fault(2) \/ UNCHANGED faults
  BY DEF Hang, RunExitWork, SendSignal, procVars
<1>3. faults' \in 0..MaxFaults
  BY <1>2, FaultType DEF TreeInv
<1>4. \/ UNCHANGED signals
      \/ \E k \in Kinds \ {"ChildStopped"} :
            signals' = [signals EXCEPT ![a] = Append(@, Signal(k))]
  BY DEF Hang, RunExitWork, SendSignal, Kinds
<1>5. /\ signals' \in [Actor -> Seq(Sig)]
      /\ \A b \in Actor : NoNewStopped(signals'[b], signals[b])
  <2>1. signals \in [Actor -> Seq(Sig)]
    BY DEF TreeInv, TypeTree
  <2>2. \A b \in Actor : NoNewStopped(signals'[b], signals[b])
    BY <1>4, <2>1, SignalsKept
  <2>3. DOMAIN signals' = Actor /\ signals' = [b \in Actor |-> signals'[b]]
    BY <1>4, <2>1
  <2> QED  BY <2>2, <2>3 DEF NoNewStopped
<1> QED  BY <1>1, <1>3, <1>5, SignalsOnly DEF TreeInv, TypeTree

\* handle_stop, or a ChildStopped that is only noted.
LEMMA TakeSignalKeeps ==
    ASSUME TreeInv, NEW a \in Actor, phase[a] = "loop", signals[a] # <<>>,
           UNCHANGED <<parent, events, report, timedOut, procVars>>,
           \/ \E kind \in {"Stop", "Drain"} : HandleStop(a, kind, Tail(signals[a]))
           \/ /\ signals' = [signals EXCEPT ![a] = Tail(signals[a])]
              /\ UNCHANGED <<phase, status, outcome, children, exitWork, mode>>
    PROVE  TreeInv'
<1>1. signals \in [Actor -> Seq(Sig)] /\ signals[a] \in Seq(Sig)
  BY DEF TreeInv, TypeTree
<1> DEFINE rest == Tail(signals[a])
<1>2. NoNewStopped(rest, signals[a]) /\ rest \in Seq(Sig)
  BY <1>1, SignalsKept DEF NoNewStopped
<1>3. \/ signals' = [signals EXCEPT ![a] = rest]
      \/ signals' = [signals EXCEPT ![a] = Append(rest, Signal("Exit"))]
  BY DEF HandleStop
<1>4. NoNewStopped(Append(rest, Signal("Exit")), signals[a])
  <2>1. "Exit" \in Kinds \ {"ChildStopped"}
    BY DEF Kinds
  <2>2. NoNewStopped(Append(rest, Signal("Exit")), rest)
    BY <1>2, <2>1, SignalsKept
  <2> QED  BY <1>2, <2>2 DEF NoNewStopped
<1> HIDE DEF rest
<1>5. /\ signals' \in [Actor -> Seq(Sig)]
      /\ \A b \in Actor : NoNewStopped(signals'[b], signals[b])
  <2>1. \A b \in Actor : NoNewStopped(signals'[b], signals[b])
    BY <1>1, <1>2, <1>3, <1>4, SignalsKept
  <2>2. signals' = [b \in Actor |-> signals'[b]]
    BY <1>1, <1>3
  <2> QED  BY <2>1, <2>2 DEF NoNewStopped
<1>6. /\ status' \in [Actor -> Status]
      /\ \A b \in Actor : \/ status'[b] = status[b]
                          \/ status'[b] = "Stopping" /\ phase[b] = "loop"
  BY DEF HandleStop, TreeInv, TypeTree, Status
<1>7. mode' \in [Actor -> {"Stop", "Drain"}]
  BY DEF HandleStop, TreeInv, TypeTree
<1>8. UNCHANGED <<parent, phase, outcome, children, events, report, timedOut, coordinator,
                  destroy, awaited, aborting, faults>>
  BY DEF HandleStop, procVars
<1> QED  BY <1>5, <1>6, <1>7, <1>8, SignalsOnly DEF TreeInv, TypeTree

\* run() returned: the children that can be signalled stay linked.
LEMMA LeaveKeeps ==
    ASSUME TreeInv, NEW a \in Actor, NEW result \in Outcome \ {"none"}, NEW rest,
           phase[a] = "loop", NoNewStopped(rest, signals[a]), Leave(a, result, rest),
           UNCHANGED <<parent, mode, timedOut, coordinator, destroy, awaited, aborting>>,
           faults' \in 0..MaxFaults, report' \in [Actor -> Report],
           events' \in [Actor -> Seq(Actor)], EventQueues',
           \A c \in Actor : parent[c] = Proc => report'[c] = report[c]
    PROVE  TreeInv'
<1> DEFINE reached == {c \in children[a] : Open(c)}
<1>1. /\ outcome' = [outcome EXCEPT ![a] = result]
      /\ phase' = [phase EXCEPT ![a] = "checking"]
      /\ status' = [status EXCEPT ![a] = "Stopping"]
      /\ children' = [children EXCEPT ![a] = reached]
  BY DEF Leave
<1>2. /\ signals' \in [Actor -> Seq(Sig)]
      /\ \A b \in Actor : NoNewStopped(signals'[b], signals[b])
  <2>1. signals' = [x \in Actor |-> IF x = a THEN rest
                ELSE IF x \in reached THEN Append(signals[x], ChildSignal(result))
                ELSE signals[x]]
    BY DEF Leave
  <2>2. ASSUME NEW x \in Actor PROVE NoNewStopped(signals'[x], signals[x])
    <3>1. signals[x] \in Seq(Sig)
      BY DEF TreeInv, TypeTree
    <3>2. PICK k \in Kinds \ {"ChildStopped"} : ChildSignal(result) = Signal(k)
      <4>1. {"Stop", "Drain"} \subseteq Kinds \ {"ChildStopped"}
        BY DEF Kinds
      <4> QED  BY <4>1 DEF ChildSignal
    <3> QED  BY <2>1, <3>1, <3>2, SignalsKept
  <2> QED  BY <2>1, <2>2 DEF NoNewStopped
<1>3. TypeTree'
  BY <1>1, <1>2 DEF TreeInv, TypeTree, Phase, Status
<1>4. Lifecycle'
  BY <1>1 DEF TreeInv, TypeTree, Lifecycle, Errs, Terminal
<1>5. /\ \A b \in Actor \ {a} : phase'[b] = phase[b] /\ children'[b] = children[b]
      /\ phase'[a] = "checking" /\ children'[a] = reached
  BY <1>1 DEF TreeInv, TypeTree
<1>6. Family'
  <2>1. \A q \in Actor : children'[q] \subseteq children[q] /\ children[q] \subseteq Actor
    BY <1>5 DEF TreeInv, TypeTree
  <2>2. \A c \in Actor : /\ phase[c] # "unborn" <=> phase'[c] # "unborn"
                         /\ phase'[c] \in {"aborted", "sending"} => phase[c] = phase'[c]
                         /\ phase[c] \in Before => phase'[c] \in Before
    BY <1>5 DEF Before, Early
  <2>3. \A c \in Actor : parent[c] # Proc => parent[c] \in Actor
    BY DEF TreeInv, TypeTree
  <2> QED  BY <2>1, <2>2, <2>3 DEF TreeInv, Family
<1>7. Links'
  <2>1. ASSUME NEW c \in Actor, parent[c] # Proc, phase'[c] \in Before
        PROVE  c \in children'[parent[c]] \/ phase'[parent[c]] # "loop"
    BY <1>5, <2>1 DEF TreeInv, TypeTree, Links, Before, Early
  <2>2. ASSUME NEW c \in Actor, parent[c] # Proc, phase'[c] \in Early
        PROVE  c \in children'[parent[c]] \/ parent[c] \in timedOut
    <3>1. phase[c] \in Early /\ parent[c] \in Actor
      BY <1>5, <2>2 DEF TreeInv, TypeTree, Early
    <3>2. (c \in children[parent[c]] \/ parent[c] \in timedOut) /\ Open(c)
      BY <2>2, <3>1 DEF TreeInv, Links, Open, Early
    <3> QED  BY <1>5, <3>1, <3>2
  <2>3. \A q \in Actor : phase'[q] \in Past => children'[q] = {}
    BY <1>5 DEF TreeInv, Links, Past
  <2> QED  BY <2>1, <2>2, <2>3 DEF Links
<1>8. SignalQueues'
  <2>1. \A c \in Actor : phase[c] \in Reported => phase'[c] \in Reported
    BY <1>5 DEF Reported
  <2> QED  BY <1>2, <2>1, SignalQueuesKept DEF TreeInv
<1>9. RootsHeard'
  <2>1. \A c \in Actor : /\ phase'[c] \in Reported => phase[c] \in Reported
                         /\ phase[c] = "done" => phase'[c] = phase[c]
                         /\ phase'[c] = "aborted" => phase[c] = "aborted"
                         /\ phase[c] # "unborn" => phase'[c] # "unborn"
    BY <1>5 DEF Reported
  <2> QED  BY <2>1 DEF TreeInv, RootsHeard
<1> QED  BY <1>3, <1>4, <1>6, <1>7, <1>8, <1>9 DEF TreeInv

\* The first events are taken from a queue: the others come from a child each.
LEMMA EventsTaken ==
    ASSUME TreeInv, NEW a \in Actor, NEW q \in Seq(Actor), NEW n \in Nat,
           events' = [events EXCEPT ![a] = q], UNCHANGED parent,
           \A i \in 1..Len(q) : n + i \in 1..Len(events[a]) /\ q[i] = events[a][n + i],
           \A c \in Actor : phase[c] \in Reported => phase'[c] \in Reported
    PROVE  events' \in [Actor -> Seq(Actor)] /\ EventQueues'
<1>1. events \in [Actor -> Seq(Actor)]
  BY DEF TreeInv, TypeTree
<1>2. /\ events' \in [Actor -> Seq(Actor)] /\ events'[a] = q
      /\ \A b \in Actor \ {a} : events'[b] = events[b]
  BY <1>1
<1>3. \A b \in Actor : \A i \in 1..Len(events'[b]) :
        parent[events'[b][i]] = b /\ phase[events'[b][i]] \in Reported
  <2>1. ASSUME NEW i \in 1..Len(q) PROVE parent[q[i]] = a /\ phase[q[i]] \in Reported
    <3>1. n + i \in 1..Len(events[a]) /\ q[i] = events[a][n + i]
      OBVIOUS
    <3>2. \A j \in 1..Len(events[a]) :
            parent[events[a][j]] = a /\ phase[events[a][j]] \in Reported
      BY DEF TreeInv, EventQueues
    <3> QED  BY <3>1, <3>2
  <2> QED  BY <1>2, <2>1 DEF TreeInv, EventQueues
<1>4. \A b \in Actor : \A i, j \in 1..Len(events'[b]) : events'[b][i] = events'[b][j] => i = j
  <2>1. \A i, j \in 1..Len(q) : q[i] = q[j] => n + i = n + j
    BY DEF TreeInv, EventQueues
  <2>2. Len(q) \in Nat
    OBVIOUS
  <2>3. \A i, j \in 1..Len(q) : q[i] = q[j] => i = j
    BY <2>1, <2>2
  <2> QED  BY <1>2, <2>3 DEF TreeInv, EventQueues
<1>5. \A b \in Actor : \A i \in 1..Len(events'[b]) : events'[b][i] \in Actor
  BY <1>2
<1> QED  BY <1>2, <1>3, <1>4, <1>5 DEF EventQueues

\* A signal is read: the last one ends run().
LEMMA RecvSignalKeeps ==
    ASSUME TreeInv, NEW a \in Actor, RecvSignal(a)
    PROVE  TreeInv'
<1>1. /\ phase[a] = "loop" /\ signals[a] # <<>>
      /\ UNCHANGED <<parent, events, report, timedOut, procVars>>
  BY DEF RecvSignal, Looping
<1> DEFINE rest == Tail(signals[a])
<1>2. CASE \/ \E kind \in {"Stop", "Drain"} : HandleStop(a, kind, rest)
           \/ /\ signals' = [signals EXCEPT ![a] = rest]
              /\ UNCHANGED <<phase, status, outcome, children, exitWork, mode>>
  BY <1>1, <1>2, TakeSignalKeeps
<1>3. CASE (Leave(a, mode[a], rest) \/ Leave(a, "killed", rest)) /\ UNCHANGED mode
  <2>1. PICK result \in {"Stop", "Drain", "killed"} : Leave(a, result, rest)
    BY <1>3 DEF TreeInv, TypeTree
  <2>2. result \in Outcome \ {"none"}
    BY DEF Outcome
  <2>3. NoNewStopped(rest, signals[a])
    BY <1>1, SignalsKept DEF TreeInv, TypeTree
  <2>4. UNCHANGED <<parent, events, report, timedOut, coordinator, destroy, awaited,
                  aborting, faults>>
    BY <1>1 DEF procVars
  <2>5. \A c \in Actor : phase[c] \in Reported => phase'[c] \in Reported
    BY <1>1, <2>1 DEF Leave, Reported, TreeInv, TypeTree
  <2>6. EventQueues'
    BY <2>4, <2>5, EventQueuesKept DEF TreeInv
  <2> HIDE DEF rest
  <2> QED  BY <1>1, <1>3, <2>1, <2>2, <2>3, <2>4, <2>6, LeaveKeeps DEF TreeInv, TypeTree
<1> QED  BY <1>2, <1>3 DEF RecvSignal

\* An event is handled, or ends the actor.
LEMMA HandleEventKeeps ==
    ASSUME TreeInv, NEW a \in Actor, HandleEvent(a)
    PROVE  TreeInv'
<1>1. /\ phase[a] = "loop" /\ events[a] # <<>>
      /\ events' = [events EXCEPT ![a] = Tail(@)]
      /\ UNCHANGED <<parent, mode, timedOut, coordinator, destroy, awaited, aborting, faults>>
  BY DEF HandleEvent, Idle, Looping, taskVars, procVars
<1> DEFINE c == Head(events[a])
<1>2. /\ events[a] \in Seq(Actor) /\ Tail(events[a]) \in Seq(Actor) /\ c \in Actor
      /\ c = events[a][1] /\ Len(events[a]) \in Nat \ {0}
      /\ Len(Tail(events[a])) = Len(events[a]) - 1
      /\ \A i \in 1..(Len(events[a]) - 1) : Tail(events[a])[i] = events[a][i + 1]
  <2>1. events[a] \in Seq(Actor)
    BY DEF TreeInv, TypeTree
  <2> QED  BY <1>1, <2>1, TailFacts
<1>3. parent[c] = a /\ a # Proc
  BY <1>2, BoundsAssumption DEF TreeInv, EventQueues, Actor, Proc
<1>4. \/ /\ report' = [report EXCEPT ![c] = "handled"]
         /\ UNCHANGED <<phase, status, outcome, children, signals>>
      \/ report' = [report EXCEPT ![c] = "propagated"] /\ Leave(a, "error", <<>>)
  BY DEF HandleEvent
<1> HIDE DEF c
<1>5. /\ report' \in [Actor -> Report]
      /\ \A b \in Actor : parent[b] = Proc => report'[b] = report[b]
  BY <1>2, <1>3, <1>4, ZenonT(40) DEF TreeInv, TypeTree, Report
<1>6. \A b \in Actor : phase[b] \in Reported => phase'[b] \in Reported
  BY <1>1, <1>4 DEF Leave, Reported, TreeInv, TypeTree
<1>7. events' \in [Actor -> Seq(Actor)] /\ EventQueues'
  <2>1. \A i \in 1..Len(Tail(events[a])) :
            1 + i \in 1..Len(events[a]) /\ Tail(events[a])[i] = events[a][1 + i]
    BY <1>2
  <2> QED  BY <1>1, <1>2, <1>6, <2>1, EventsTaken
<1>8. CASE UNCHANGED <<phase, status, outcome, children, signals>>
  <2>1. TypeTree'
    BY <1>1, <1>5, <1>7, <1>8 DEF TreeInv, TypeTree
  <2>2. Lifecycle' /\ Family' /\ Links' /\ SignalQueues'
    BY <1>1, <1>8 DEF TreeInv, Lifecycle, Errs, Family, Links, SignalQueues
  <2>3. RootsHeard'
    BY <1>1, <1>5, <1>8 DEF TreeInv, RootsHeard
  <2> QED  BY <1>7, <2>1, <2>2, <2>3 DEF TreeInv
<1>9. CASE Leave(a, "error", <<>>)
  <2>1. NoNewStopped(<<>>, signals[a]) /\ "error" \in Outcome \ {"none"}
    BY SignalsKept DEF TreeInv, TypeTree, Outcome
  <2>2. faults' \in 0..MaxFaults
    BY <1>1 DEF TreeInv, TypeTree
  <2> QED  BY <1>1, <1>5, <1>7, <1>9, <2>1, <2>2, LeaveKeeps
<1> QED  BY <1>4, <1>8, <1>9

\* A handler fails once the first n events are handled.
LEMMA HeardKeeps ==
    ASSUME TreeInv, NEW a \in Actor, NEW result \in {"error", "abrupt"},
           NEW n \in 0..Len(events[a]), Heard(a, n), phase[a] = "loop",
           Leave(a, result, <<>>), Fault(1),
           UNCHANGED <<parent, mode, timedOut, coordinator, destroy, awaited, aborting>>
    PROVE  TreeInv'
<1>2. /\ report' = [c \in Actor |->
              IF \E i \in 1..n : events[a][i] = c THEN "handled"
              ELSE IF n < Len(events[a]) /\ events[a][n + 1] = c THEN "propagated"
              ELSE report[c]]
      /\ events' = [events EXCEPT ![a] = SubSeq(@, n + 2, Len(@))]
  BY DEF Heard
<1> DEFINE q == SubSeq(events[a], n + 2, Len(events[a]))
<1>3. events[a] \in Seq(Actor) /\ Len(events[a]) \in Nat /\ n \in Nat /\ a # Proc
  BY BoundsAssumption DEF TreeInv, TypeTree, Actor, Proc
<1>4. /\ q \in Seq(Actor)
      /\ \A i \in 1..Len(q) : n + 1 + i \in 1..Len(events[a]) /\ q[i] = events[a][n + 1 + i]
  BY <1>3, RestOfQueue
<1>5. /\ report' \in [Actor -> Report]
      /\ \A b \in Actor : parent[b] = Proc => report'[b] = report[b]
  <2>1. \A i \in 1..Len(events[a]) : parent[events[a][i]] = a
    BY DEF TreeInv, EventQueues
  <2>2. \A b \in Actor : parent[b] = Proc => \A i \in 1..Len(events[a]) : events[a][i] # b
    BY <2>1, <1>3
  <2>3. \A i \in 1..n : i \in 1..Len(events[a])
    BY <1>3
  <2>4. n < Len(events[a]) => n + 1 \in 1..Len(events[a])
    BY <1>3
  <2> QED  BY <1>2, <2>2, <2>3, <2>4 DEF TreeInv, TypeTree, Report
<1>6. \A b \in Actor : phase[b] \in Reported => phase'[b] \in Reported
  BY DEF Leave, Reported, TreeInv, TypeTree
<1>7. events' \in [Actor -> Seq(Actor)] /\ EventQueues'
  <2>1. events' = [events EXCEPT ![a] = q] /\ n + 1 \in Nat
    BY <1>2, <1>3
  <2> HIDE DEF q
  <2> QED  BY <1>4, <1>6, <2>1, EventsTaken
<1>8. NoNewStopped(<<>>, signals[a]) /\ result \in Outcome \ {"none"}
  BY SignalsKept DEF TreeInv, TypeTree, Outcome
<1>9. faults' \in 0..MaxFaults
  BY FaultType DEF TreeInv
<1> QED  BY <1>5, <1>7, <1>8, <1>9, LeaveKeeps

\* A message handler returns an error.
LEMMA HandlerFailsKeeps ==
    ASSUME TreeInv, NEW a \in Actor, HandlerFails(a)
    PROVE  TreeInv'
<1>1. /\ phase[a] = "loop" /\ Leave(a, "error", <<>>) /\ Fault(1)
      /\ UNCHANGED <<parent, mode, timedOut, coordinator, destroy, awaited, aborting>>
  BY DEF HandlerFails, Idle, Looping, taskVars
<1>2. PICK n \in 0..Len(events[a]) : Heard(a, n)
  BY DEF HandlerFails
<1> QED  BY <1>1, <1>2, HeardKeeps

\* run() ends abruptly, and the queues stay or an event is taken.
LEMMA EndsAbruptlyKeeps ==
    ASSUME TreeInv, NEW a \in Actor, EndsAbruptly(a)
    PROVE  TreeInv'
<1>1. /\ phase[a] = "loop" /\ Fault(1)
      /\ UNCHANGED <<parent, mode, timedOut, coordinator, destroy, awaited, aborting>>
  BY DEF EndsAbruptly, Looping, taskVars
<1>2. CASE (\E n \in 0..(Len(events[a]) - 1) : Heard(a, n)) /\ Leave(a, "abrupt", <<>>)
  <2>1. PICK n \in 0..(Len(events[a]) - 1) : Heard(a, n)
    BY <1>2
  <2>2. n \in 0..Len(events[a])
    <3>1. Len(events[a]) \in Nat
      BY DEF TreeInv, TypeTree
    <3> QED  BY <3>1
  <2> QED  BY <1>1, <1>2, <2>1, <2>2, HeardKeeps
<1>3. ASSUME NEW rest, NoNewStopped(rest, signals[a]), Leave(a, "abrupt", rest),
             UNCHANGED <<events, report>>
      PROVE  TreeInv'
  <2>1. "abrupt" \in Outcome \ {"none"}
    BY DEF Outcome
  <2>2. \A c \in Actor : phase[c] \in Reported => phase'[c] \in Reported
    BY <1>1, <1>3 DEF Leave, Reported, TreeInv, TypeTree
  <2>3. EventQueues'
    BY <1>1, <1>3, <2>2, EventQueuesKept DEF TreeInv
  <2>4. faults' \in 0..MaxFaults
    BY <1>1, FaultType DEF TreeInv
  <2> QED  BY <1>1, <1>3, <2>1, <2>3, <2>4, LeaveKeeps DEF TreeInv, TypeTree
<1>4. /\ NoNewStopped(signals[a], signals[a])
      /\ signals[a] # <<>> => NoNewStopped(Tail(signals[a]), signals[a])
  BY SignalsKept DEF TreeInv, TypeTree
<1> QED  BY <1>2, <1>3, <1>4 DEF EndsAbruptly

-----------------------------------------------------------------------------
(* The teardown.                                                            *)

\* A step of a's task from one phase of the teardown to the next one, by which
\* nobody is linked, unlinked or heard.
LEMMA AdvanceKeeps ==
    ASSUME TreeInv, NEW a \in Actor, NEW w \in {"waiting", "cleanup", "unlinking"},
           phase[a] \in Early \ {"loop"}, phase' = [phase EXCEPT ![a] = w],
           w \in Past => children'[a] = {},
           outcome' \in [Actor -> Outcome], outcome'[a] # "none",
           \A b \in Actor \ {a} : outcome'[b] = outcome[b],
           children' = children \/ (children' = [children EXCEPT ![a] = {}] /\ a \in timedOut'),
           timedOut \subseteq timedOut',
           signals' \in [Actor -> Seq(Sig)],
           \A b \in Actor : NoNewStopped(signals'[b], signals[b]),
           report' \in [Actor -> Report],
           \A b \in Actor : parent[b] = Proc => report'[b] = report[b],
           \/ UNCHANGED events
           \/ events' = [events EXCEPT ![a] = <<>>],
           faults' \in 0..MaxFaults,
           UNCHANGED <<parent, mode, status, coordinator, destroy, awaited, aborting>>
    PROVE  TreeInv'
<1>1. phase'[a] = w /\ \A b \in Actor \ {a} : phase'[b] = phase[b]
  BY DEF TreeInv, TypeTree
<1>2. /\ children' \in [Actor -> SUBSET Actor]
      /\ \A b \in Actor : \/ children'[b] = children[b]
                          \/ b = a /\ children'[b] = {} /\ a \in timedOut'
  BY DEF TreeInv, TypeTree
<1>3. events' \in [Actor -> Seq(Actor)]
  <2>1. events \in [Actor -> Seq(Actor)] /\ <<>> \in Seq(Actor)
    BY DEF TreeInv, TypeTree
  <2> QED  BY <2>1
<1>4. TypeTree'
  BY <1>2, <1>3 DEF TreeInv, TypeTree, Phase
<1>5. Lifecycle'
  BY <1>1 DEF TreeInv, Lifecycle, Errs, Early
<1>6. Family'
  <2>1. \A c \in Actor : /\ phase[c] # "unborn" <=> phase'[c] # "unborn"
                         /\ phase'[c] \in {"aborted", "sending"} => phase[c] = phase'[c]
                         /\ phase[c] \in Before => phase'[c] \in Before
    BY <1>1 DEF Before, Early
  <2>2. \A q \in Actor : children'[q] \subseteq children[q] /\ children[q] \subseteq Actor
    BY <1>2 DEF TreeInv, TypeTree
  <2>3. \A c \in Actor : parent[c] # Proc => parent[c] \in Actor
    BY DEF TreeInv, TypeTree
  <2> QED  BY <2>1, <2>2, <2>3 DEF TreeInv, Family
<1>7. Links'
  <2>1. \A c \in Actor : /\ phase'[c] \in Before => phase[c] \in Before
                         /\ phase'[c] \in Early => phase[c] \in Early
                         /\ phase'[c] = "loop" => phase[c] = "loop" /\ c # a
    BY <1>1 DEF Before, Early
  <2>2. \A c \in Actor : parent[c] # Proc => parent[c] \in Actor
    BY DEF TreeInv, TypeTree
  <2>3. \A c \in Actor : phase'[c] \in Past => c = a \/ phase[c] \in Past
    BY <1>1
  <2>4. ASSUME NEW c \in Actor, parent[c] # Proc, phase'[c] \in Before
        PROVE  c \in children'[parent[c]] \/ phase'[parent[c]] # "loop"
    BY <1>1, <1>2, <2>1, <2>2, <2>4 DEF TreeInv, Links
  <2>5. ASSUME NEW c \in Actor, parent[c] # Proc, phase'[c] \in Early
        PROVE  c \in children'[parent[c]] \/ parent[c] \in timedOut'
    <3>1. c \in children[parent[c]] \/ parent[c] \in timedOut
      BY <2>1, <2>5 DEF TreeInv, Links
    <3> QED  BY <1>2, <2>2, <2>5, <3>1
  <2>6. \A q \in Actor : phase'[q] \in Past => children'[q] = {}
    BY <1>1, <1>2, <2>3 DEF TreeInv, Links
  <2> QED  BY <2>4, <2>5, <2>6 DEF Links
<1>8. \A c \in Actor : /\ phase[c] \in Reported <=> phase'[c] \in Reported
                       /\ phase[c] = "done" => phase'[c] = phase[c]
                       /\ phase'[c] = "aborted" => phase[c] = "aborted"
                       /\ phase[c] # "unborn" => phase'[c] # "unborn"
  BY <1>1 DEF Reported, Early
<1>9. SignalQueues'
  BY <1>8, SignalQueuesKept DEF TreeInv
<1>10. EventQueues'
  <2>1. \A b \in Actor : events'[b] = events[b] \/ events'[b] = <<>>
    BY DEF TreeInv, TypeTree
  <2>2. \A b \in Actor : \A i \in 1..Len(events[b]) : events[b][i] \in Actor
    BY DEF TreeInv, TypeTree
  <2> QED  BY <1>8, <2>1, <2>2 DEF TreeInv, EventQueues
<1>11. RootsHeard'
  <2>1. RootsHeard /\ UNCHANGED <<parent, coordinator, destroy, awaited, aborting>>
    BY DEF TreeInv
  <2>2. \A b \in awaited : b \in Actor /\ parent[b] = Proc
    BY <2>1 DEF RootsHeard
  <2>3. \A b \in Actor : parent[b] = Proc /\ phase'[b] \in Reported =>
            /\ report'[b] \in {"coordinator", "lost"}
            /\ destroy # "done" => report'[b] = "coordinator"
    BY <1>8, <2>1 DEF RootsHeard
  <2>4. destroy \in {"phase2", "done"} => \A b \in awaited \ aborting :
            phase'[b] = "done" /\ report'[b] = "coordinator"
    BY <1>8, <2>1, <2>2 DEF RootsHeard
  <2>5. /\ \A b \in awaited : phase'[b] # "unborn"
        /\ \A b \in Actor : phase'[b] = "aborted" => b \in aborting
    BY <1>8, <2>1, <2>2 DEF RootsHeard
  <2> QED  BY <2>1, <2>2, <2>3, <2>4, <2>5 DEF RootsHeard
<1> QED  BY <1>4, <1>5, <1>6, <1>7, <1>9, <1>10, <1>11 DEF TreeInv

\* What an actor is before its teardown ends.
LEMMA EarlyOutcome ==
    ASSUME TreeInv, NEW a \in Actor, phase[a] \in Early \ {"loop"}
    PROVE  outcome[a] # "none"
BY DEF TreeInv, Lifecycle, Early

\* The children are looked at, waited for, or given up.
LEMMA WaitingKeeps ==
    ASSUME TreeInv, NEW a \in Actor, CheckChildren(a) \/ DrainRecv(a) \/ DrainTimeout(a)
    PROVE  TreeInv'
<1>1. /\ phase[a] \in {"checking", "waiting"}
      /\ UNCHANGED <<parent, mode, status, outcome, events, report, coordinator, destroy,
                     awaited, aborting, faults>>
  BY DEF CheckChildren, DrainRecv, DrainTimeout, taskVars, procVars
<1>2. phase[a] \in Early \ {"loop"} /\ outcome[a] # "none"
  BY <1>1, EarlyOutcome DEF Early
<1>3. \E w \in {"waiting", "cleanup"} :
        /\ phase' = [phase EXCEPT ![a] = w]
        /\ w = "cleanup" => children'[a] = {}
  BY DEF CheckChildren, DrainRecv, DrainTimeout, AllStopped, TreeInv, TypeTree
<1>4. PICK w \in {"waiting", "cleanup"} : /\ phase' = [phase EXCEPT ![a] = w]
                                          /\ w \in Past => children'[a] = {}
  BY <1>3 DEF Past
<1>5. /\ children' = children \/ (children' = [children EXCEPT ![a] = {}] /\ a \in timedOut')
      /\ timedOut \subseteq timedOut'
  BY DEF CheckChildren, DrainRecv, DrainTimeout
<1>6. /\ signals' \in [Actor -> Seq(Sig)]
      /\ \A b \in Actor : NoNewStopped(signals'[b], signals[b])
  <2>1. signals \in [Actor -> Seq(Sig)]
    BY DEF TreeInv, TypeTree
  <2>2. \/ UNCHANGED signals
        \/ signals[a] # <<>> /\ signals' = [signals EXCEPT ![a] = Tail(@)]
    BY DEF CheckChildren, DrainRecv, DrainTimeout
  <2>3. \A b \in Actor : NoNewStopped(signals'[b], signals[b])
    BY <2>1, <2>2, SignalsKept
  <2>4. signals' = [b \in Actor |-> signals'[b]]
    BY <2>1, <2>2
  <2> QED  BY <2>3, <2>4 DEF NoNewStopped
<1>7. /\ w \in {"waiting", "cleanup", "unlinking"} /\ outcome' \in [Actor -> Outcome]
      /\ report' \in [Actor -> Report] /\ faults' \in 0..MaxFaults
  BY <1>1 DEF TreeInv, TypeTree
<1> QED  BY <1>1, <1>2, <1>4, <1>5, <1>6, <1>7, AdvanceKeeps

\* DropReceivers takes the events and the signals of one actor.
LEMMA DropFacts ==
    ASSUME TreeInv, NEW a \in Actor, DropReceivers(a)
    PROVE  /\ report' \in [Actor -> Report]
           /\ \A b \in Actor : parent[b] = Proc => report'[b] = report[b]
           /\ events' = [events EXCEPT ![a] = <<>>]
           /\ signals' \in [Actor -> Seq(Sig)]
           /\ \A b \in Actor : NoNewStopped(signals'[b], signals[b])
<1>1. report' \in [Actor -> Report]
  BY DEF DropReceivers, TreeInv, TypeTree, Report
<1>2. \A b \in Actor : parent[b] = Proc => report'[b] = report[b]
  <2>1. \A b \in Actor : Contains(events[a], b) => parent[b] = a
    BY DEF TreeInv, EventQueues, Contains
  <2>2. a # Proc
    BY BoundsAssumption DEF Actor, Proc
  <2> QED  BY <2>1, <2>2 DEF DropReceivers
<1>3. signals \in [Actor -> Seq(Sig)] /\ signals' = [signals EXCEPT ![a] = <<>>]
  BY DEF DropReceivers, TreeInv, TypeTree
<1>4. \A b \in Actor : NoNewStopped(signals'[b], signals[b])
  BY <1>3, SignalsKept
<1>5. signals' = [b \in Actor |-> signals'[b]]
  BY <1>3
<1>6. signals' \in [Actor -> Seq(Sig)]
  BY <1>4, <1>5 DEF NoNewStopped
<1> QED  BY <1>1, <1>2, <1>4, <1>6 DEF DropReceivers

\* Actor::cleanup.
LEMMA CleanupKeeps ==
    ASSUME TreeInv, NEW a \in Actor, Cleanup(a)
    PROVE  TreeInv'
<1>1. /\ phase[a] = "cleanup" /\ phase' = [phase EXCEPT ![a] = "unlinking"]
      /\ DropReceivers(a) /\ (Fault(1) \/ UNCHANGED faults)
      /\ UNCHANGED <<parent, mode, status, children, timedOut, coordinator, destroy, awaited,
                     aborting>>
  BY DEF Cleanup
<1>2. phase[a] \in Early \ {"loop"} /\ outcome[a] # "none" /\ children[a] = {}
  BY <1>1, EarlyOutcome DEF Early, TreeInv, Links, Past
<1>3. /\ outcome' \in [Actor -> Outcome] /\ outcome'[a] # "none"
      /\ \A b \in Actor \ {a} : outcome'[b] = outcome[b]
  BY <1>2 DEF Cleanup, TreeInv, TypeTree, Outcome
<1>4. faults' \in 0..MaxFaults
  BY <1>1, FaultType DEF TreeInv
<1> QED  BY <1>1, <1>2, <1>3, <1>4, DropFacts, AdvanceKeeps

-----------------------------------------------------------------------------
(* The epilogue of serve.                                                   *)

\* maybe_unlink_parent: whoever is unlinked is in nobody's set of children, and
\* who has no parent to tell has told the coordinator.
LEMMA UnlinkKeeps ==
    ASSUME TreeInv, NEW a \in Actor, Unlink(a)
    PROVE  TreeInv'
<1> DEFINE p == parent[a]
           linked == p # Proc /\ a \in children[p]
<1>1. /\ phase[a] = "unlinking"
      /\ children' = IF linked THEN [children EXCEPT ![p] = @ \ {a}] ELSE children
      /\ \/ linked /\ phase' = [phase EXCEPT ![a] = "sending"] /\ UNCHANGED report
         \/ phase' = [phase EXCEPT ![a] = "publishing"] /\ PostToCoordinator(a)
      /\ UNCHANGED <<parent, mode, status, outcome, signals, events, timedOut, coordinator,
                     destroy, awaited, aborting, faults>>
  BY DEF Unlink, taskVars, procVars
<1>2. p \in Actor \cup {Proc} /\ (linked => p \in Actor)
  BY DEF TreeInv, TypeTree
<1>3. /\ children' \in [Actor -> SUBSET Actor]
      /\ \A q \in Actor : children'[q] = children[q] \ {a}
  <2>1. children \in [Actor -> SUBSET Actor]
    BY DEF TreeInv, TypeTree
  <2>2. \A q \in Actor : a \in children[q] => q = p /\ linked
    BY BoundsAssumption DEF TreeInv, Family, Actor, Proc
  <2>3. CASE linked
    BY <1>1, <1>2, <2>1, <2>2, <2>3
  <2>4. CASE ~linked
    BY <1>1, <2>1, <2>2, <2>4
  <2> QED  BY <2>3, <2>4
<1>4. /\ phase'[a] \in {"sending", "publishing"} /\ phase' \in [Actor -> Phase]
      /\ \A b \in Actor \ {a} : phase'[b] = phase[b]
      /\ phase'[a] = "sending" => p # Proc
  BY <1>1 DEF TreeInv, TypeTree, Phase
<1>5. /\ report' \in [Actor -> Report] /\ \A b \in Actor \ {a} : report'[b] = report[b]
      /\ phase'[a] = "publishing" /\ coordinator = "live" => report'[a] = "coordinator"
      /\ phase'[a] = "publishing" => report'[a] \in {"coordinator", "lost"}
  BY <1>1 DEF PostToCoordinator, TreeInv, TypeTree, Report
<1> HIDE DEF linked, p
<1>6. TypeTree'
  BY <1>1, <1>3, <1>4, <1>5 DEF TreeInv, TypeTree
<1>7. Lifecycle'
  BY <1>1, <1>4 DEF TreeInv, Lifecycle, Errs
<1>8. Family'
  <2>1. \A c \in Actor : parent[c] # Proc => parent[c] \in Actor
    BY DEF TreeInv, TypeTree
  <2>2. \A c \in Actor : /\ phase'[c] # "unborn" <=> phase[c] # "unborn"
                         /\ phase'[c] = "aborted" => phase[c] = "aborted"
                         /\ phase'[c] = "sending" => phase[c] = "sending" \/ c = a
    BY <1>1, <1>4
  <2>3. \A q \in Actor : \A c \in children'[q] : c \in children[q] /\ c \in Actor \ {a}
    BY <1>3 DEF TreeInv, TypeTree
  <2> QED  BY <1>1, <1>4, <2>1, <2>2, <2>3 DEF TreeInv, Family, p
<1>9. Links'
  <2>1. \A c \in Actor : /\ phase'[c] \in Before => phase[c] \in Before /\ c # a
                         /\ phase'[c] \in Early => phase[c] \in Early /\ c # a
                         /\ phase'[c] = "loop" => phase[c] = "loop"
                         /\ phase'[c] \in Past => phase[c] \in Past
    BY <1>1, <1>4 DEF Before, Early, Past
  <2>2. \A c \in Actor : parent[c] # Proc => parent[c] \in Actor
    BY DEF TreeInv, TypeTree
  <2>3. ASSUME NEW c \in Actor, parent[c] # Proc, phase'[c] \in Before
        PROVE  c \in children'[parent[c]] \/ phase'[parent[c]] # "loop"
    BY <1>1, <1>3, <2>1, <2>2, <2>3 DEF TreeInv, Links
  <2>4. ASSUME NEW c \in Actor, parent[c] # Proc, phase'[c] \in Early
        PROVE  c \in children'[parent[c]] \/ parent[c] \in timedOut
    BY <1>1, <1>3, <2>1, <2>2, <2>4 DEF TreeInv, Links
  <2>5. \A q \in Actor : phase'[q] \in Past => children'[q] = {}
    BY <1>3, <2>1 DEF TreeInv, Links
  <2> QED  BY <1>1, <2>3, <2>4, <2>5 DEF Links
<1>10. \A c \in Actor : phase[c] \in Reported => phase'[c] \in Reported
  BY <1>1, <1>4 DEF Reported
<1>11. SignalQueues' /\ EventQueues'
  <2>1. signals' \in [Actor -> Seq(Sig)] /\ \A b \in Actor : NoNewStopped(signals'[b], signals[b])
    BY <1>1, SignalsKept DEF TreeInv, TypeTree
  <2> QED  BY <1>1, <1>10, <2>1, SignalQueuesKept, EventQueuesKept DEF TreeInv
<1>12. RootsHeard'
  BY <1>1, <1>4, <1>5 DEF TreeInv, RootsHeard, Reported
<1> QED  BY <1>6, <1>7, <1>8, <1>9, <1>11, <1>12 DEF TreeInv

\* The event and the ChildStopped of an actor that is not linked any more.
LEMMA SendToParentKeeps ==
    ASSUME TreeInv, NEW a \in Actor, SendToParent(a)
    PROVE  TreeInv'
<1> DEFINE p == parent[a]
<1>1. /\ phase[a] = "sending" /\ phase' = [phase EXCEPT ![a] = "publishing"]
      /\ UNCHANGED <<parent, mode, status, outcome, children, timedOut, coordinator, destroy,
                     awaited, aborting, faults>>
  BY DEF SendToParent, taskVars
<1>2. p \in Actor /\ p # Proc
  BY <1>1 DEF TreeInv, TypeTree, Family
<1>3. phase'[a] = "publishing" /\ \A b \in Actor \ {a} : phase'[b] = phase[b]
  BY <1>1 DEF TreeInv, TypeTree
<1>4. \/ /\ events' = [events EXCEPT ![p] = Append(@, a)]
         /\ signals' = [signals EXCEPT ![p] = Append(@, ChildStopped(a))]
      \/ UNCHANGED <<events, signals>>
  BY DEF SendToParent
<1>5. report' \in [Actor -> Report] /\ \A b \in Actor \ {a} : report'[b] = report[b]
  <2>1. \E r \in Report : report' = [report EXCEPT ![a] = r]
    BY DEF SendToParent, Report
  <2> QED  BY <2>1 DEF TreeInv, TypeTree
<1>6. signals' \in [Actor -> Seq(Sig)] /\ SignalQueues'
  <2>1. /\ ChildStopped(a) \in Sig /\ ChildStopped(a).child = a
        /\ signals \in [Actor -> Seq(Sig)]
    BY DEF ChildStopped, Sig, Kinds, TreeInv, TypeTree
  <2>2. \A b \in Actor : \A i \in 1..Len(signals[b]) : signals[b][i].kind = "ChildStopped" =>
            LET c == signals[b][i].child
            IN  c \in Actor /\ parent'[c] = b /\ phase'[c] \in Reported
    BY <1>1, <1>3 DEF TreeInv, SignalQueues, Reported
  <2>3. CASE UNCHANGED signals
    BY <2>1, <2>2, <2>3 DEF SignalQueues
  <2>4. CASE signals' = [signals EXCEPT ![p] = Append(@, ChildStopped(a))]
    <3> DEFINE q == Append(signals[p], ChildStopped(a))
    <3>1. /\ q \in Seq(Sig) /\ Len(q) = Len(signals[p]) + 1 /\ Len(signals[p]) \in Nat
          /\ \A i \in 1..Len(signals[p]) : q[i] = signals[p][i]
          /\ q[Len(signals[p]) + 1] = ChildStopped(a)
      BY <1>2, <2>1, AppendFacts
    <3> HIDE DEF q
    <3>2. /\ signals' \in [Actor -> Seq(Sig)] /\ signals'[p] = q
          /\ \A b \in Actor \ {p} : signals'[b] = signals[b]
      BY <1>2, <2>1, <2>4, <3>1 DEF q
    <3>3. ASSUME NEW i \in 1..Len(q), q[i].kind = "ChildStopped"
          PROVE  LET c == q[i].child
                 IN  c \in Actor /\ parent'[c] = p /\ phase'[c] \in Reported
      <4>1. CASE i \in 1..Len(signals[p])
        BY <1>2, <2>2, <3>1, <3>3, <4>1
      <4>2. CASE i = Len(signals[p]) + 1
        BY <1>1, <1>3, <2>1, <3>1, <4>2 DEF Reported
      <4> QED  BY <3>1, <4>1, <4>2
    <3> QED  BY <2>2, <3>2, <3>3 DEF SignalQueues
  <2> QED  BY <1>4, <2>3, <2>4
<1>7. events' \in [Actor -> Seq(Actor)] /\ EventQueues'
  <2>1. events \in [Actor -> Seq(Actor)]
    BY DEF TreeInv, TypeTree
  <2>2. \A b \in Actor :
            /\ \A i \in 1..Len(events[b]) : parent'[events[b][i]] = b
                    /\ phase'[events[b][i]] \in Reported /\ events[b][i] # a
            /\ \A i, j \in 1..Len(events[b]) : events[b][i] = events[b][j] => i = j
    BY <1>1, <1>3, <2>1 DEF TreeInv, EventQueues, Reported
  <2>3. CASE UNCHANGED events
    BY <2>1, <2>2, <2>3 DEF EventQueues
  <2>4. CASE events' = [events EXCEPT ![p] = Append(@, a)]
    <3> DEFINE q == Append(events[p], a)
    <3>1. /\ q \in Seq(Actor) /\ Len(q) = Len(events[p]) + 1 /\ Len(events[p]) \in Nat
          /\ \A i \in 1..Len(events[p]) : q[i] = events[p][i]
          /\ q[Len(events[p]) + 1] = a
      BY <1>2, <2>1, AppendFacts
    <3> HIDE DEF q
    <3>2. /\ events' \in [Actor -> Seq(Actor)] /\ events'[p] = q
          /\ \A b \in Actor \ {p} : events'[b] = events[b]
      BY <1>2, <2>1, <2>4, <3>1 DEF q
    <3>3. \A i \in 1..Len(q) : parent'[q[i]] = p /\ phase'[q[i]] \in Reported
      BY <1>1, <1>2, <1>3, <2>2, <3>1 DEF Reported
    <3>4. \A i, j \in 1..Len(q) : q[i] = q[j] => i = j
      <4>1. \A i \in 1..Len(q) : i \in 1..Len(events[p]) \/ i = Len(events[p]) + 1
        BY <3>1
      <4>2. \A i \in 1..Len(events[p]) : q[i] = events[p][i] /\ q[i] # a
        BY <1>2, <2>2, <3>1
      <4>3. \A i, j \in 1..Len(events[p]) : q[i] = q[j] => i = j
        BY <1>2, <2>2, <4>2
      <4> QED  BY <3>1, <4>1, <4>2, <4>3
    <3>5. ASSUME NEW b \in Actor
          PROVE  /\ \A i \in 1..Len(events'[b]) :
                    parent'[events'[b][i]] = b /\ phase'[events'[b][i]] \in Reported
                 /\ \A i, j \in 1..Len(events'[b]) : events'[b][i] = events'[b][j] => i = j
      <4>1. CASE b = p
        BY <3>2, <3>3, <3>4, <4>1
      <4>2. CASE b # p
        BY <2>2, <3>2, <4>2
      <4> QED  BY <4>1, <4>2
    <3> QED  BY <3>2, <3>5 DEF EventQueues
  <2> QED  BY <1>4, <2>3, <2>4
<1>8. TypeTree'
  BY <1>1, <1>5, <1>6, <1>7 DEF TreeInv, TypeTree, Phase
<1>9. Lifecycle' /\ Family' /\ Links'
  BY <1>1, <1>3 DEF TreeInv, TypeTree, Lifecycle, Errs, Family, Links, Before, Early, Past
<1>10. RootsHeard'
  BY <1>1, <1>2, <1>3, <1>5 DEF TreeInv, RootsHeard, Reported
<1> QED  BY <1>6, <1>7, <1>8, <1>9, <1>10 DEF TreeInv

\* change_status comes last.
LEMMA PublishKeeps ==
    ASSUME TreeInv, NEW a \in Actor, Publish(a)
    PROVE  TreeInv'
<1>1. /\ phase[a] = "publishing" /\ phase' = [phase EXCEPT ![a] = "done"]
      /\ status' = [status EXCEPT ![a] = IF Errs(a) THEN "Failed" ELSE "Stopped"]
      /\ UNCHANGED <<parent, mode, outcome, children, signals, events, report, timedOut,
                     coordinator, destroy, awaited, aborting, faults>>
  BY DEF Publish, taskVars, procVars
<1>2. phase'[a] = "done" /\ \A b \in Actor \ {a} : phase'[b] = phase[b]
  BY <1>1 DEF TreeInv, TypeTree
<1>3. TypeTree'
  BY <1>1 DEF TreeInv, TypeTree, Phase, Status, Terminal
<1>4. Lifecycle'
  BY <1>1, <1>2 DEF TreeInv, TypeTree, Lifecycle, Errs, Terminal
<1>5. Family' /\ Links'
  BY <1>1, <1>2 DEF TreeInv, TypeTree, Family, Links, Before, Early, Past
<1>6. \A c \in Actor : phase[c] \in Reported <=> phase'[c] \in Reported
  BY <1>1, <1>2 DEF Reported
<1>7. SignalQueues' /\ EventQueues'
  <2>1. signals' \in [Actor -> Seq(Sig)] /\ \A b \in Actor : NoNewStopped(signals'[b], signals[b])
    BY <1>1, SignalsKept DEF TreeInv, TypeTree
  <2> QED  BY <1>1, <1>6, <2>1, SignalQueuesKept, EventQueuesKept DEF TreeInv
<1>8. RootsHeard'
  BY <1>1, <1>2, <1>6 DEF TreeInv, RootsHeard, Reported
<1> QED  BY <1>3, <1>4, <1>5, <1>7, <1>8 DEF TreeInv

-----------------------------------------------------------------------------
(* destroy_and_wait.                                                        *)

\* abort_root_actor: phase 1 does not wait for the root any more.
LEMMA AbortKeeps ==
    ASSUME TreeInv, NEW a \in Actor, Abort(a)
    PROVE  TreeInv'
<1>1. /\ destroy = "phase1" /\ a \in awaited /\ aborting' = aborting \cup {a}
      /\ Fault(2) \/ UNCHANGED faults
      /\ UNCHANGED <<parent, phase, status, outcome, children, signals, events, mode, report,
                     timedOut, coordinator, destroy, awaited>>
  BY DEF Abort, taskVars
<1>2. faults' \in 0..MaxFaults
  BY <1>1, FaultType DEF TreeInv
<1>3. TypeTree'
  BY <1>1, <1>2 DEF TreeInv, TypeTree
<1>4. Lifecycle' /\ Family' /\ Links' /\ SignalQueues' /\ EventQueues'
  BY <1>1 DEF TreeInv, Lifecycle, Errs, Family, Links, SignalQueues, EventQueues
<1>5. RootsHeard'
  BY <1>1 DEF TreeInv, RootsHeard
<1> QED  BY <1>3, <1>4, <1>5 DEF TreeInv

\* The task of a root is cancelled: it is in nobody's set of children, and no
\* queue names it.
LEMMA CancelledKeeps ==
    ASSUME TreeInv, NEW a \in Actor, Cancelled(a)
    PROVE  TreeInv'
<1>1. /\ a \in aborting
      /\ phase[a] \in {"loop", "waiting", "cleanup", "publishing"}
      /\ phase' = [phase EXCEPT ![a] = "aborted"]
      /\ status' = [status EXCEPT ![a] = "Stopped"]
      /\ DropReceivers(a)
      /\ UNCHANGED <<parent, mode, outcome, children, timedOut, coordinator, destroy, awaited,
                     aborting, faults>>
  BY DEF Cancelled, taskVars, procVars
<1>2. parent[a] = Proc
  BY <1>1 DEF TreeInv, RootsHeard
<1>3. phase'[a] = "aborted" /\ \A b \in Actor \ {a} : phase'[b] = phase[b]
  BY <1>1 DEF TreeInv, TypeTree
<1>4. /\ report' \in [Actor -> Report]
      /\ \A b \in Actor : parent[b] = Proc => report'[b] = report[b]
      /\ events' = [events EXCEPT ![a] = <<>>]
      /\ signals' \in [Actor -> Seq(Sig)]
      /\ \A b \in Actor : NoNewStopped(signals'[b], signals[b])
  BY <1>1, DropFacts
<1>5. events' \in [Actor -> Seq(Actor)] /\ \A b \in Actor : events'[b] \in {events[b], <<>>}
  BY <1>4 DEF TreeInv, TypeTree
<1>7. TypeTree'
  BY <1>1, <1>4, <1>5 DEF TreeInv, TypeTree, Phase, Status, Terminal
<1>8. Lifecycle'
  BY <1>1, <1>3 DEF TreeInv, TypeTree, Lifecycle, Errs, Terminal
<1>9. \A q \in Actor : q # Proc /\ a \notin children[q] /\ children[q] \subseteq Actor
  BY <1>2, BoundsAssumption DEF TreeInv, TypeTree, Family, Actor, Proc
<1>10. Family' /\ Links'
  <2>1. \A c \in Actor : parent[c] # Proc => parent[c] \in Actor /\ c # a
    BY <1>2 DEF TreeInv, TypeTree
  <2>2. Family'
    BY <1>1, <1>2, <1>3, <1>9, <2>1 DEF TreeInv, Family
  <2>3. Links'
    BY <1>1, <1>3, <2>1 DEF TreeInv, Links, Past
  <2> QED  BY <2>2, <2>3
<1>11. \A c \in Actor : phase[c] \in Reported /\ parent[c] # Proc
            => phase'[c] \in Reported /\ parent'[c] = parent[c]
  BY <1>1, <1>2, <1>3
<1>12. SignalQueues'
  BY <1>4, <1>11, SignalQueuesKept DEF TreeInv
<1>13. EventQueues'
  <2>1. \A b \in Actor : \A i \in 1..Len(events[b]) :
            events[b][i] \in Actor /\ parent[events[b][i]] # Proc
    BY <1>9 DEF TreeInv, TypeTree, EventQueues
  <2>2. \A b \in Actor :
            /\ \A i \in 1..Len(events[b]) :
                parent'[events[b][i]] = b /\ phase'[events[b][i]] \in Reported
            /\ \A i, j \in 1..Len(events[b]) : events[b][i] = events[b][j] => i = j
    BY <1>11, <2>1 DEF TreeInv, EventQueues
  <2>3. \A b \in Actor : events'[b] = events[b] \/ Len(events'[b]) = 0
    BY <1>5
  <2> QED  BY <2>2, <2>3 DEF EventQueues
<1>14. RootsHeard'
  BY <1>1, <1>3, <1>4 DEF TreeInv, RootsHeard, Reported
<1> QED  BY <1>7, <1>8, <1>10, <1>12, <1>13, <1>14 DEF TreeInv

\* Phase 1 begins: roots are told to drain, and only roots are waited for.
LEMMA DestroyStartKeeps ==
    ASSUME TreeInv, DestroyStart
    PROVE  TreeInv'
<1>1. /\ destroy = "idle" /\ destroy' = "phase1" /\ awaited' = {a \in Roots : Open(a)}
      /\ signals' = [a \in Actor |-> IF a \in awaited'
                                     THEN Append(signals[a], Signal("Drain")) ELSE signals[a]]
      /\ UNCHANGED <<parent, phase, status, outcome, children, events, mode, report, timedOut,
                     coordinator, aborting, faults>>
  BY DEF DestroyStart, taskVars
<1>2. \A b \in Actor : NoNewStopped(signals'[b], signals[b])
  BY <1>1, SignalsKept DEF TreeInv, TypeTree, Kinds
<1>3. signals' \in [Actor -> Seq(Sig)]
  BY <1>1, <1>2 DEF NoNewStopped
<1>4. TypeTree'
  BY <1>1, <1>3 DEF TreeInv, TypeTree
<1>5. Lifecycle' /\ Family' /\ Links' /\ EventQueues'
  BY <1>1 DEF TreeInv, Lifecycle, Errs, Family, Links, EventQueues
<1>6. SignalQueues'
  BY <1>1, <1>2, <1>3, SignalQueuesKept DEF TreeInv
<1>7. RootsHeard'
  BY <1>1 DEF TreeInv, RootsHeard, Roots
<1> QED  BY <1>4, <1>5, <1>6, <1>7 DEF TreeInv

\* A terminal status was published after the report, so phase 2 begins when the
\* coordinator has heard all that it will hear of the roots.
LEMMA DestroyRestKeeps ==
    ASSUME TreeInv, DestroyPhase2 \/ DestroyDone
    PROVE  TreeInv'
<1>1. UNCHANGED <<parent, phase, status, outcome, children, signals, events, mode, report,
                  timedOut, awaited, aborting, faults>>
  BY DEF DestroyPhase2, DestroyDone, taskVars
<1>2. TypeTree'
  BY <1>1 DEF TreeInv, TypeTree, DestroyPhase2, DestroyDone
<1>3. Lifecycle' /\ Family' /\ Links' /\ SignalQueues' /\ EventQueues'
  BY <1>1 DEF TreeInv, Lifecycle, Errs, Family, Links, SignalQueues, EventQueues
<1>4. RootsHeard'
  <2>1. CASE DestroyPhase2
    <3>1. \A a \in awaited \ aborting : a \in Actor /\ phase[a] = "done"
      BY <2>1 DEF DestroyPhase2, RootsTerminal, TreeInv, RootsHeard, Lifecycle
    <3> QED  BY <1>1, <2>1, <3>1 DEF DestroyPhase2, TreeInv, RootsHeard, Reported
  <2>2. CASE DestroyDone
    BY <1>1, <2>2 DEF DestroyDone, TreeInv, RootsHeard
  <2> QED  BY <2>1, <2>2
<1> QED  BY <1>2, <1>3, <1>4 DEF TreeInv

-----------------------------------------------------------------------------
(* The theorems about the teardown and the shutdown.                        *)

\* Every step keeps the invariant.
LEMMA TreeInvStep ==
    ASSUME TreeInv, [Next]_vars
    PROVE  TreeInv'
<1>1. ASSUME NEW a \in Actor, Step(a) PROVE TreeInv'
  BY <1>1, RecvSignalKeeps, OutsideKeeps, HandleEventKeeps, WaitingKeeps, CleanupKeeps,
     UnlinkKeeps, SendToParentKeeps, PublishKeeps DEF Step
<1>2. ASSUME NEW a \in Actor, Environment(a) PROVE TreeInv'
  BY <1>2, SpawnKeeps, OutsideKeeps, HandlerFailsKeeps, EndsAbruptlyKeeps DEF Environment
<1>3. ASSUME NEW a \in Actor, Abort(a) \/ Cancelled(a) PROVE TreeInv'
  BY <1>3, AbortKeeps, CancelledKeeps
<1>4. CASE DestroyStart \/ DestroyPhase2 \/ DestroyDone
  BY <1>4, DestroyStartKeeps, DestroyRestKeeps
<1>5. CASE UNCHANGED vars
  BY <1>5 DEF vars, TreeInv, TypeTree, Lifecycle, Errs, Family, Links, SignalQueues,
     EventQueues, RootsHeard
<1> QED  BY <1>1, <1>2, <1>3, <1>4, <1>5 DEF Next

\* It holds initially: nothing is spawned, queued or heard.
LEMMA TreeInvInit == Init => TreeInv
<1> SUFFICES ASSUME Init PROVE TreeInv
  OBVIOUS
<1>1. TypeTree
  BY BoundsAssumption DEF Init, TypeTree, Phase, Status, Outcome, Report, Actor, Proc
<1>2. Lifecycle /\ Family /\ Links
  BY DEF Init, Lifecycle, Errs, Family, Links, Before, Early, Past, Terminal
<1>3. SignalQueues /\ EventQueues /\ RootsHeard
  BY DEF Init, SignalQueues, EventQueues, RootsHeard, Reported
<1> QED  BY <1>1, <1>2, <1>3 DEF TreeInv

\* The invariant holds in every state, however many actors there are.
THEOREM TreeInvariant == Spec => []TreeInv
<1>1. TreeInv /\ [Next]_vars => TreeInv'
  BY TreeInvStep
<1> QED  BY <1>1, TreeInvInit, PTL DEF Spec

\* The types of an actor's state; a linked child is its parent's and has not
\* ended, and an actor's last status says how it ended (proc.rs serve).
THEOREM TreeTypes == Spec => []TypeOK
<1>1. TreeInv => TypeOK
  <2> SUFFICES ASSUME TreeInv PROVE TypeOK
    OBVIOUS
  <2>1. parent \in [Actor -> 0..Actors]
    BY BoundsAssumption DEF TreeInv, TypeTree, Actor, Proc
  <2>2. \A a \in Actor : (phase[a] \in {"unborn", "loop"}) = (outcome[a] = "none")
                            \/ phase[a] = "aborted"
    BY DEF TreeInv, Lifecycle
  <2>3. \A a \in Actor :
        /\ \A c \in children[a] : parent[c] = a /\ phase[c] \notin {"unborn", "done"}
        /\ (phase[a] = "done") => status[a] = IF Errs(a) THEN "Failed" ELSE "Stopped"
    BY DEF TreeInv, Family, Lifecycle, Before, Early
  <2>4. aborting \subseteq awaited
    BY DEF TreeInv, RootsHeard
  <2> QED  BY <2>1, <2>2, <2>3, <2>4 DEF TreeInv, TypeTree, TypeOK, Status, Outcome, Report
<1> QED  BY <1>1, TreeInvariant, PTL

\* When the coordinator is stopped it has heard of every root that was waited
\* for, the ones that timed out apart (Proc::destroy_and_wait).
THEOREM CoordinatorHeard == Spec => []CoordinatorHears
<1>1. TreeInv => CoordinatorHears
  BY DEF TreeInv, RootsHeard, CoordinatorHears
<1> QED  BY <1>1, TreeInvariant, PTL

\* The tree is torn down from the leaves up, and the assertion on ChildStopped
\* holds wherever one is queued (run_actor_tree).
THEOREM TornDownInOrder == Spec => []TeardownOrdered
<1>1. TreeInv => TeardownOrdered
  <2> SUFFICES ASSUME TreeInv PROVE BottomUp /\ ChildStoppedUnlinked
    BY DEF TeardownOrdered
  <2>1. BottomUp
    <3> SUFFICES ASSUME NEW c \in Actor, phase[c] # "unborn", parent[c] # Proc,
                        parent[c] \notin timedOut, phase[parent[c]] \in Past
                 PROVE  phase[c] \in {"unlinking", "sending", "publishing", "done"}
      BY DEF BottomUp, Past
    <3>1. parent[c] \in Actor /\ phase[c] \in Phase
      BY DEF TreeInv, TypeTree
    <3>2. phase[c] \notin Early
      BY <3>1 DEF TreeInv, Links
    <3>3. phase[c] # "aborted"
      BY DEF TreeInv, Family
    <3> QED  BY <3>1, <3>2, <3>3 DEF Phase, Early
  <2>2. ChildStoppedUnlinked
    <3> SUFFICES ASSUME NEW a \in Actor, NEW i \in DOMAIN signals[a],
                        signals[a][i].kind = "ChildStopped"
                 PROVE  signals[a][i].child \notin children[a]
      BY DEF ChildStoppedUnlinked
    <3>1. i \in 1..Len(signals[a])
      BY DEF TreeInv, TypeTree
    <3>2. phase[signals[a][i].child] \in Reported
      BY <3>1 DEF TreeInv, SignalQueues
    <3> QED  BY <3>2 DEF TreeInv, Family, Reported, Before, Early
  <2> QED  BY <2>1, <2>2
<1> QED  BY <1>1, TreeInvariant, PTL

-----------------------------------------------------------------------------
(* The failures of the children.                                            *)

\* What no step takes back: who has left its loop, how it ended, whose child it
\* is, and which child's failure ended it.
Onwards ==
    /\ \A p \in Actor : phase[p] \notin {"unborn", "loop"} =>
            phase'[p] # "loop" /\ (outcome'[p] = "error" => outcome[p] = "error")
    /\ \A p \in Actor : phase[p] = "aborted" => phase'[p] = "aborted"
    /\ \A p \in Actor : Errs(p) => Errs(p)'
    /\ \A c \in Actor : phase[c] # "unborn" => parent'[c] = parent[c]
    /\ \A c \in Actor : phase[c] \in Reported => outcome'[c] = outcome[c]
    /\ \A b \in Actor : report[b] = "propagated" /\ phase[parent[b]] # "loop"
            => report'[b] = "propagated"

\* A parent that a child's failure ended stays one.
LEMMA EndedByChildKept ==
    ASSUME FateInv, Onwards, NEW p \in Actor, phase[p] # "loop", EndedByChild(p)
    PROVE  EndedByChild(p)'
<1>1. PICK b \in Actor : parent[b] = p /\ report[b] = "propagated"
  BY DEF EndedByChild
<1>2. phase[b] # "unborn"
  BY <1>1 DEF FateInv, Fates, Reported
<1>3. parent'[b] = p /\ report'[b] = "propagated"
  BY <1>1, <1>2 DEF Onwards
<1> QED  BY <1>3 DEF EndedByChild

\* A fate stays what it is while the report and the queued event do.
LEMMA FateKept ==
    ASSUME FateInv, Onwards, NEW c \in Actor, phase[c] \in Reported, parent[c] # Proc,
           Fate(c), report'[c] = report[c],
           report[c] = "queued" => Contains(events'[parent[c]], c)
    PROVE  Fate(c)'
<1> DEFINE p == parent[c]
<1>1. p \in Actor /\ parent'[c] = p /\ phase[p] # "unborn"
  BY DEF FateInv, TreeInv, TypeTree, Family, Onwards, Reported
<1>2. phase[p] # "loop" => phase'[p] # "loop" /\ (outcome'[p] = "error" => outcome[p] = "error")
  BY <1>1 DEF Onwards
<1>3. (phase[p] = "aborted" => phase'[p] = "aborted") /\ (Errs(p) => Errs(p)')
  BY <1>1 DEF Onwards
<1>4. phase[p] # "loop" /\ EndedByChild(p) => EndedByChild(p)'
  BY <1>1, EndedByChildKept
<1>5. \/ report'[c] \in {"handled", "coordinator", "crash"}
      \/ report'[c] = "queued" /\ Contains(events'[p], c)
      \/ report'[c] = "propagated" /\ Errs(p)'
      \/ report'[c] \in {"late", "lost"} /\ phase'[p] # "loop"
      \/ /\ report'[c] = "dropped" /\ phase'[p] # "loop"
         /\ outcome'[p] # "error" \/ phase'[p] = "aborted" \/ EndedByChild(p)'
  BY <1>2, <1>3, <1>4 DEF Fate
<1> QED  BY <1>1, <1>5 DEF Fate, Errs, EndedByChild

\* What a step has to show: the reports it makes or changes are accounted for.
LEMMA FatesStep ==
    ASSUME FateInv, Onwards,
           \A c \in Actor : report'[c] = "propagated" => phase'[c] \in Reported,
           \A c \in Actor : phase'[c] \in Reported /\ phase[c] \notin Reported
                    /\ parent'[c] # Proc /\ Errs(c)' => Fate(c)',
           \A c \in Actor : phase[c] \in Reported /\ parent[c] # Proc /\ Fate(c) =>
                \/ Fate(c)'
                \/ /\ report'[c] = report[c]
                   /\ report[c] = "queued" => Contains(events'[parent[c]], c)
    PROVE  Fates'
<1>1. ASSUME NEW c \in Actor, Errs(c)', phase'[c] \in Reported, parent'[c] # Proc
      PROVE  Fate(c)'
  <2>1. CASE phase[c] \notin Reported
    BY <1>1, <2>1
  <2>2. CASE phase[c] \in Reported
    <3>1. parent'[c] = parent[c] /\ outcome'[c] = outcome[c]
      BY <2>2 DEF Onwards, Reported
    <3>2. Fate(c)
      BY <1>1, <2>2, <3>1 DEF FateInv, Fates, Errs
    <3> QED  BY <1>1, <2>2, <3>1, <3>2, FateKept
  <2> QED  BY <2>1, <2>2
<1> QED  BY <1>1 DEF Fates

\* ErrorsHeard, for an actor that had already ended with an error.
LEMMA ErrorsKept ==
    ASSUME FateInv, Onwards, NEW p \in Actor, outcome[p] = "error",
           \A i \in 1..Len(events'[p]) : report'[events'[p][i]] = "queued" =>
                \E j \in 1..Len(events[p]) : report[events[p][j]] = "queued"
    PROVE  \/ EndedByChild(p)'
           \/ \A i \in 1..Len(events'[p]) : report'[events'[p][i]] # "queued"
<1>1. phase[p] # "loop"
  BY DEF FateInv, TreeInv, Lifecycle
<1>2. CASE EndedByChild(p)
  BY <1>1, <1>2, EndedByChildKept
<1>3. CASE \A j \in 1..Len(events[p]) : report[events[p][j]] # "queued"
  BY <1>3
<1> QED  BY <1>2, <1>3 DEF FateInv, ErrorsHeard

\* A step that reports nothing and ends nobody with an error.
LEMMA FateQuiet ==
    ASSUME FateInv, UNCHANGED <<report, events>>,
           \A c \in Actor : phase[c] # "unborn" => parent'[c] = parent[c],
           \A c \in Actor : phase'[c] \in Reported <=> phase[c] \in Reported,
           \A p \in Actor : phase[p] = "aborted" => phase'[p] = "aborted",
           \A p \in Actor : phase[p] \notin {"unborn", "loop"} => phase'[p] # "loop",
           \A p \in Actor : outcome'[p] = outcome[p]
                \/ (phase[p] = "loop" /\ outcome'[p] # "error")
    PROVE  Fates' /\ ErrorsHeard'
<1>1. \A p \in Actor : phase[p] = "loop" => outcome[p] = "none"
  BY DEF FateInv, TreeInv, Lifecycle
<1>2. Onwards
  BY <1>1 DEF Onwards, Errs, Reported
<1>3. Fates'
  <2>1. \A c \in Actor : report'[c] = "propagated" => phase'[c] \in Reported
    BY DEF FateInv, Fates
  <2>2. \A c \in Actor : Fate(c) /\ report[c] = "queued" => Contains(events[parent[c]], c)
    BY DEF Fate
  <2> QED  BY <1>2, <2>1, <2>2, FatesStep
<1>4. ErrorsHeard'
  <2>1. ASSUME NEW p \in Actor, outcome'[p] = "error"
        PROVE  \/ EndedByChild(p)'
               \/ \A i \in 1..Len(events'[p]) : report'[events'[p][i]] # "queued"
    <3>1. outcome[p] = "error"
      BY <2>1
    <3> QED  BY <1>2, <3>1, ErrorsKept
  <2> QED  BY <2>1 DEF ErrorsHeard
<1> QED  BY <1>3, <1>4

\* The steps that report nothing.
LEMMA QuietSteps ==
    ASSUME FateInv, NEW a \in Actor,
           \/ Hang(a) \/ RunExitWork(a) \/ CheckChildren(a) \/ DrainRecv(a) \/ DrainTimeout(a)
           \/ Publish(a)
           \/ \E kind \in {"Stop", "Drain", "Kill"} : SendSignal(a, kind)
           \/ \E p \in Actor \cup {Proc} : Spawn(p, a)
           \/ Abort(a)
    PROVE  Fates' /\ ErrorsHeard'
<1>1. UNCHANGED <<report, events, outcome>>
  BY DEF Hang, RunExitWork, CheckChildren, DrainRecv, DrainTimeout, Publish, SendSignal, Spawn,
     Abort, taskVars, procVars
<1>2. \/ UNCHANGED <<parent, phase>>
      \/ /\ phase[a] \in {"checking", "waiting"} /\ UNCHANGED parent
         /\ phase' = [phase EXCEPT ![a] = "cleanup"] \/ phase' = [phase EXCEPT ![a] = "waiting"]
      \/ /\ phase[a] = "publishing" /\ UNCHANGED parent
         /\ phase' = [phase EXCEPT ![a] = "done"]
      \/ /\ phase[a] = "unborn" /\ phase' = [phase EXCEPT ![a] = "loop"]
         /\ \E p \in Actor \cup {Proc} : parent' = [parent EXCEPT ![a] = p]
  BY DEF Hang, RunExitWork, CheckChildren, DrainRecv, DrainTimeout, Publish, SendSignal, Spawn,
     Abort, taskVars, procVars
<1>3. phase \in [Actor -> Phase] /\ parent \in [Actor -> Actor \cup {Proc}]
  BY DEF FateInv, TreeInv, TypeTree
<1>4. /\ \A c \in Actor : phase[c] # "unborn" => parent'[c] = parent[c]
      /\ \A c \in Actor : phase'[c] \in Reported <=> phase[c] \in Reported
      /\ \A p \in Actor : phase[p] = "aborted" => phase'[p] = "aborted"
      /\ \A p \in Actor : phase[p] \notin {"unborn", "loop"} => phase'[p] # "loop"
  BY <1>2, <1>3 DEF Reported
<1> QED  BY <1>1, <1>4, FateQuiet

\* destroy_and_wait itself reports nothing.
LEMMA QuietDestroy ==
    ASSUME FateInv, DestroyStart \/ DestroyPhase2 \/ DestroyDone
    PROVE  Fates' /\ ErrorsHeard'
<1>1. UNCHANGED <<report, events, outcome, parent, phase>>
  BY DEF DestroyStart, DestroyPhase2, DestroyDone, taskVars
<1> QED  BY <1>1, FateQuiet

\* A stop or a kill ends the loop without an error.
LEMMA RecvSignalFates ==
    ASSUME FateInv, NEW a \in Actor, RecvSignal(a)
    PROVE  Fates' /\ ErrorsHeard'
<1>1. UNCHANGED <<report, events, parent>> /\ phase[a] = "loop"
  BY DEF RecvSignal, Looping
<1>2. mode[a] # "error"
  BY DEF FateInv, TreeInv, TypeTree
<1>3. \/ UNCHANGED <<phase, outcome>>
      \/ /\ phase' = [phase EXCEPT ![a] = "checking"]
         /\ \E result : result # "error" /\ outcome' = [outcome EXCEPT ![a] = result]
  BY <1>2 DEF RecvSignal, HandleStop, Leave
<1>4. phase \in [Actor -> Phase] /\ outcome \in [Actor -> Outcome]
  BY DEF FateInv, TreeInv, TypeTree
<1>5. /\ \A c \in Actor : phase'[c] \in Reported <=> phase[c] \in Reported
      /\ \A q \in Actor : phase[q] = "aborted" => phase'[q] = "aborted"
      /\ \A q \in Actor : phase[q] \notin {"unborn", "loop"} => phase'[q] # "loop"
      /\ \A q \in Actor : outcome'[q] = outcome[q]
                \/ (phase[q] = "loop" /\ outcome'[q] # "error")
  BY <1>1, <1>3, <1>4 DEF Reported
<1> QED  BY <1>1, <1>5, FateQuiet

\* What an error that ends the loop leaves as it was.
LEMMA LeaveOnwards ==
    ASSUME FateInv, NEW a \in Actor, phase[a] = "loop", NEW rest, UNCHANGED parent,
           NEW result \in {"error", "abrupt"}, Leave(a, result, rest),
           \A b \in Actor : parent[b] # a => report'[b] = report[b]
    PROVE  /\ Onwards /\ Errs(a)'
           /\ \A c \in Actor : phase'[c] \in Reported <=> phase[c] \in Reported
           /\ \A q \in Actor \ {a} : outcome'[q] = outcome[q]
<1>1. /\ phase \in [Actor -> Phase] /\ outcome \in [Actor -> Outcome]
      /\ outcome' = [outcome EXCEPT ![a] = result]
      /\ phase' = [phase EXCEPT ![a] = "checking"]
  BY DEF FateInv, TreeInv, TypeTree, Leave
<1>2. Errs(a)' /\ \A q \in Actor : Errs(q) => Errs(q)'
  BY <1>1 DEF Errs
<1>3. Onwards
  BY <1>1, <1>2 DEF Onwards, Reported
<1> QED  BY <1>1, <1>2, <1>3 DEF Reported

\* The actor at the head of the queue is heard: handled, or the parent fails with it.
LEMMA HandleEventFates ==
    ASSUME FateInv, NEW a \in Actor, HandleEvent(a)
    PROVE  Fates' /\ ErrorsHeard'
<1>0. PICK h \in Actor : h = Head(events[a])
  <2>1. events[a] \in Seq(Actor) /\ events[a] # <<>>
    BY DEF FateInv, TreeInv, TypeTree, HandleEvent
  <2> QED  BY <2>1, TailFacts
<1>1. /\ phase[a] = "loop" /\ events[a] # <<>> /\ events' = [events EXCEPT ![a] = Tail(@)]
      /\ UNCHANGED parent
      /\ \/ /\ report' = [report EXCEPT ![h] = "handled"]
            /\ UNCHANGED <<phase, outcome>>
         \/ report' = [report EXCEPT ![h] = "propagated"] /\ Leave(a, "error", <<>>)
  BY <1>0 DEF HandleEvent, Idle, Looping, taskVars
<1>2. /\ events \in [Actor -> Seq(Actor)] /\ report \in [Actor -> Report]
      /\ \A c \in Actor : parent[c] \in Actor \cup {Proc}
  BY DEF FateInv, TreeInv, TypeTree
<1>3. /\ events[a] \in Seq(Actor) /\ h = events[a][1]
      /\ Len(events[a]) \in Nat \ {0} /\ Len(Tail(events[a])) = Len(events[a]) - 1
      /\ \A i \in 1..(Len(events[a]) - 1) : Tail(events[a])[i] = events[a][i + 1]
  BY <1>0, <1>1, <1>2, TailFacts
<1>4. parent[h] = a /\ phase[h] \in Reported
  BY <1>3 DEF FateInv, TreeInv, EventQueues
<1>5. \A c \in Actor \ {h} : report'[c] = report[c]
  BY <1>1, <1>2
<1>6. /\ Onwards
      /\ \A c \in Actor : phase'[c] \in Reported <=> phase[c] \in Reported
      /\ \A q \in Actor \ {a} : outcome'[q] = outcome[q]
  <2>1. CASE UNCHANGED <<phase, outcome>>
    BY <1>1, <1>4, <1>5, <2>1 DEF Onwards, Errs, Reported
  <2>2. CASE Leave(a, "error", <<>>)
    BY <1>1, <1>4, <1>5, <2>2, LeaveOnwards
  <2> QED  BY <1>1, <2>1, <2>2
<1>7. \A q \in Actor \ {a} : events'[q] = events[q]
  BY <1>1, <1>2
<1>8. \A c \in Actor \ {h} : Contains(events[a], c) => Contains(events'[a], c)
  <2>1. events'[a] = Tail(events[a])
    BY <1>1, <1>2
  <2>2. ASSUME NEW c \in Actor \ {h}, NEW i \in 1..Len(events[a]), events[a][i] = c
        PROVE  Contains(events'[a], c)
    <3>1. i - 1 \in 1..(Len(events[a]) - 1) /\ Tail(events[a])[i - 1] = c
      BY <1>3, <2>2
    <3> QED  BY <1>3, <2>1, <3>1 DEF Contains
  <2> QED  BY <2>2 DEF Contains
<1>9. Fate(h)'
  <2>1. CASE report' = [report EXCEPT ![h] = "handled"]
    BY <1>2, <1>3, <2>1 DEF Fate
  <2>2. CASE report' = [report EXCEPT ![h] = "propagated"] /\ Leave(a, "error", <<>>)
    <3>1. Errs(a)'
      BY <1>1, <1>4, <1>5, <2>2, LeaveOnwards
    <3>2. report'[h] = "propagated" /\ parent'[h] = a
      BY <1>1, <1>2, <1>3, <1>4, <2>2
    <3> QED  BY <3>1, <3>2 DEF Fate, Errs
  <2> QED  BY <1>1, <2>1, <2>2
<1>10. Fates'
  <2>1. \A c \in Actor : report'[c] = "propagated" => phase'[c] \in Reported
    BY <1>4, <1>5, <1>6 DEF FateInv, Fates
  <2>2. ASSUME NEW c \in Actor, phase[c] \in Reported, parent[c] # Proc, Fate(c), c # h,
               report[c] = "queued"
        PROVE  Contains(events'[parent[c]], c)
    <3>1. Contains(events[parent[c]], c) /\ parent[c] \in Actor
      BY <1>2, <2>2 DEF Fate
    <3> QED  BY <1>7, <1>8, <2>2, <3>1
  <2> QED  BY <1>5, <1>6, <1>9, <2>1, <2>2, FatesStep
<1>11. ErrorsHeard'
  <2>1. ASSUME NEW q \in Actor, outcome'[q] = "error"
        PROVE  \/ EndedByChild(q)'
               \/ \A i \in 1..Len(events'[q]) : report'[events'[q][i]] # "queued"
    <3>1. CASE q = a
      <4>1. outcome[a] = "none"
        BY <1>1 DEF FateInv, TreeInv, Lifecycle
      <4>2. report' = [report EXCEPT ![h] = "propagated"]
        BY <1>1, <2>1, <3>1, <4>1
      <4>3. report'[h] = "propagated" /\ parent'[h] = a
        BY <1>1, <1>2, <1>3, <1>4, <4>2
      <4> QED  BY <1>3, <3>1, <4>3 DEF EndedByChild
    <3>2. CASE q # a
      <4>1. outcome[q] = "error" /\ events'[q] = events[q]
        BY <1>6, <1>7, <2>1, <3>2
      <4>2. \A i \in 1..Len(events[q]) : events[q][i] \in Actor \ {h}
        BY <1>2, <1>4, <3>2 DEF FateInv, TreeInv, EventQueues
      <4> QED  BY <1>5, <1>6, <4>1, <4>2, ErrorsKept
    <3> QED  BY <3>1, <3>2
  <2> QED  BY <2>1 DEF ErrorsHeard
<1> QED  BY <1>10, <1>11

\* The events that are queued are heard, all of them or up to the one that the
\* actor fails with as well.
LEMMA HeardFates ==
    ASSUME FateInv, NEW a \in Actor, NEW result \in {"error", "abrupt"}, phase[a] = "loop",
           NEW n \in 0..Len(events[a]), Heard(a, n), Leave(a, result, <<>>), UNCHANGED parent
    PROVE  Fates' /\ ErrorsHeard'
<1>2. /\ report' = [c \in Actor |->
              IF \E i \in 1..n : events[a][i] = c THEN "handled"
              ELSE IF n < Len(events[a]) /\ events[a][n + 1] = c THEN "propagated"
              ELSE report[c]]
      /\ events' = [events EXCEPT ![a] = SubSeq(@, n + 2, Len(@))]
  BY DEF Heard
<1>3. /\ events \in [Actor -> Seq(Actor)] /\ events[a] \in Seq(Actor)
      /\ Len(events[a]) \in Nat /\ n \in Nat
      /\ \A c \in Actor : parent[c] \in Actor \cup {Proc}
  BY DEF FateInv, TreeInv, TypeTree
<1>4. /\ \A i \in 1..Len(events[a]) : events[a][i] \in Actor /\ parent[events[a][i]] = a
                /\ phase[events[a][i]] \in Reported
      /\ \A i, j \in 1..Len(events[a]) : events[a][i] = events[a][j] => i = j
  <2>1. EventQueues
    BY DEF FateInv, TreeInv
  <2>2. \A i \in 1..Len(events[a]) : events[a][i] \in Actor
    BY <1>3
  <2> QED  BY <2>1, <2>2 DEF EventQueues
<1>5. \A c \in Actor : (\A i \in 1..Len(events[a]) : events[a][i] # c) => report'[c] = report[c]
  <2>1. \A i \in 1..n : i \in 1..Len(events[a])
    BY <1>3
  <2>2. n < Len(events[a]) => n + 1 \in 1..Len(events[a])
    BY <1>3
  <2> QED  BY <1>2, <2>1, <2>2
<1>6. \A c \in Actor : parent[c] # a => report'[c] = report[c]
  BY <1>4, <1>5
<1>7. /\ Onwards /\ Errs(a)'
      /\ \A c \in Actor : phase'[c] \in Reported <=> phase[c] \in Reported
      /\ \A q \in Actor \ {a} : outcome'[q] = outcome[q]
  BY <1>6, LeaveOnwards
<1>8. ASSUME NEW i \in 1..Len(events[a])
      PROVE  \/ i <= n /\ report'[events[a][i]] = "handled"
             \/ i = n + 1 /\ n < Len(events[a]) /\ report'[events[a][i]] = "propagated"
             \/ /\ i > n + 1 /\ Contains(events'[a], events[a][i])
                /\ report'[events[a][i]] = report[events[a][i]]
  <2>1. events[a][i] \in Actor
    BY <1>4
  <2>2. CASE i <= n
    <3>1. i \in 1..n
      BY <1>3, <2>2
    <3> QED  BY <1>2, <2>1, <2>2, <3>1
  <2>3. CASE i = n + 1
    <3>0. n < Len(events[a]) /\ \A j \in 1..n : j \in 1..Len(events[a]) /\ j # i
      BY <1>3, <2>3
    <3>1. n < Len(events[a]) /\ \A j \in 1..n : events[a][j] # events[a][i]
      BY <1>4, <3>0
    <3> QED  BY <1>2, <2>1, <2>3, <3>1
  <2>4. CASE i > n + 1
    <3>1. /\ \A j \in 1..n : events[a][j] # events[a][i]
          /\ n < Len(events[a]) => events[a][n + 1] # events[a][i]
      <4>1. /\ \A j \in 1..n : j \in 1..Len(events[a]) /\ j # i
            /\ n < Len(events[a]) => n + 1 \in 1..Len(events[a]) /\ n + 1 # i
        BY <1>3, <2>4
      <4> QED  BY <1>4, <4>1
    <3>2. events'[a] = SubSeq(events[a], n + 2, Len(events[a]))
      BY <1>2, <1>3
    <3>3. i - n - 1 \in 1..Len(events'[a]) /\ events'[a][i - n - 1] = events[a][i]
      <4>1. /\ i - n - 1 \in 1..Len(SubSeq(events[a], n + 2, Len(events[a])))
            /\ SubSeq(events[a], n + 2, Len(events[a]))[i - n - 1] = events[a][i]
        BY <1>3, <2>4, RestFacts
      <4> QED  BY <3>2, <4>1, Zenon
    <3> QED  BY <1>2, <2>1, <2>4, <3>1, <3>3 DEF Contains
  <2> QED  BY <1>3, <2>2, <2>3, <2>4
<1>9. \A q \in Actor \ {a} : events'[q] = events[q]
  BY <1>2, <1>3
<1>10. Fates'
  <2>1. \A c \in Actor : report'[c] = "propagated" => phase'[c] \in Reported
    BY <1>4, <1>5, <1>7 DEF FateInv, Fates
  <2>2. ASSUME NEW c \in Actor, phase[c] \in Reported, parent[c] # Proc, Fate(c)
        PROVE  \/ Fate(c)'
               \/ /\ report'[c] = report[c]
                  /\ report[c] = "queued" => Contains(events'[parent[c]], c)
    <3>1. CASE parent[c] # a
      <4>1. report[c] = "queued" => Contains(events[parent[c]], c) /\ parent[c] \in Actor
        BY <1>3, <2>2 DEF Fate
      <4> QED  BY <1>6, <1>9, <3>1, <4>1
    <3>2. CASE parent[c] = a /\ \A i \in 1..Len(events[a]) : events[a][i] # c
      <4>1. report[c] # "queued"
        BY <2>2, <3>2 DEF Fate, Contains
      <4> QED  BY <1>5, <3>2, <4>1
    <3>3. CASE parent[c] = a /\ \E i \in 1..Len(events[a]) : events[a][i] = c
      <4>1. PICK i \in 1..Len(events[a]) : events[a][i] = c
        BY <3>3
      <4>2. CASE report'[c] = "handled"
        BY <4>2 DEF Fate
      <4>3. CASE report'[c] = "propagated"
        <5>1. parent'[c] = a
          BY <3>3
        <5> QED  BY <1>7, <4>3, <5>1 DEF Fate, Errs
      <4>4. CASE report'[c] = report[c] /\ Contains(events'[a], c)
        BY <3>3, <4>4
      <4> QED  BY <1>8, <4>1, <4>2, <4>3, <4>4
    <3> QED  BY <3>1, <3>2, <3>3
  <2> QED  BY <1>7, <2>1, <2>2, FatesStep
<1>11. ErrorsHeard'
  <2>1. ASSUME NEW q \in Actor, outcome'[q] = "error"
        PROVE  \/ EndedByChild(q)'
               \/ \A i \in 1..Len(events'[q]) : report'[events'[q][i]] # "queued"
    <3>1. CASE q = a /\ n < Len(events[a])
      <4>1. n + 1 \in 1..Len(events[a])
        BY <1>3, <3>1
      <4>2. PICK b \in Actor : b = events[a][n + 1]
        BY <1>4, <4>1
      <4>3. report'[b] = "propagated" /\ parent'[b] = a
        <5>1. ASSUME NEW i \in 1..Len(events[a]), i = n + 1
              PROVE  report'[events[a][i]] = "propagated"
          <6>1. ~(i <= n) /\ ~(i > n + 1)
            BY <1>3, <5>1
          <6> QED  BY <1>8, <6>1
        <5> QED  BY <1>4, <4>1, <4>2, <5>1
      <4> QED  BY <3>1, <4>3 DEF EndedByChild
    <3>2. CASE q = a /\ ~(n < Len(events[a]))
      <4>1. events'[a] = SubSeq(events[a], n + 2, Len(events[a]))
        BY <1>2, <1>3
      <4>2. Len(events'[a]) = 0
        BY <1>3, <3>2, <4>1
      <4> QED  BY <3>2, <4>2
    <3>3. CASE q # a
      <4>1. outcome[q] = "error" /\ events'[q] = events[q]
        BY <1>7, <1>9, <2>1, <3>3
      <4>2. \A i \in 1..Len(events[q]) : events[q][i] \in Actor /\ parent[events[q][i]] # a
        <5>1. \A i \in 1..Len(events[q]) : events[q][i] \in Actor
          BY <1>3
        <5>2. \A i \in 1..Len(events[q]) : parent[events[q][i]] = q
          BY DEF FateInv, TreeInv, EventQueues
        <5> QED  BY <3>3, <5>1, <5>2
      <4> QED  BY <1>6, <1>7, <4>1, <4>2, ErrorsKept
    <3> QED  BY <3>1, <3>2, <3>3
  <2> QED  BY <2>1 DEF ErrorsHeard
<1> QED  BY <1>10, <1>11

\* A message handler returns an error.
LEMMA HandlerFailsFates ==
    ASSUME FateInv, NEW a \in Actor, HandlerFails(a)
    PROVE  Fates' /\ ErrorsHeard'
<1>1. phase[a] = "loop" /\ Leave(a, "error", <<>>) /\ UNCHANGED parent
  BY DEF HandlerFails, Idle, Looping, taskVars
<1>2. PICK n \in 0..Len(events[a]) : Heard(a, n)
  BY DEF HandlerFails
<1> QED  BY <1>1, <1>2, HeardFates

\* run() ends abruptly: the events are in the queue still, of an actor that did
\* not end with the error of a message handler.
LEMMA EndsAbruptlyFates ==
    ASSUME FateInv, NEW a \in Actor, EndsAbruptly(a)
    PROVE  Fates' /\ ErrorsHeard'
<1>1. phase[a] = "loop" /\ UNCHANGED parent
  BY DEF EndsAbruptly, Looping, taskVars
<1>2. CASE (\E n \in 0..(Len(events[a]) - 1) : Heard(a, n)) /\ Leave(a, "abrupt", <<>>)
  <2>1. PICK n \in 0..(Len(events[a]) - 1) : Heard(a, n)
    BY <1>2
  <2>2. n \in 0..Len(events[a])
    <3>1. Len(events[a]) \in Nat
      BY DEF FateInv, TreeInv, TypeTree
    <3> QED  BY <3>1
  <2> QED  BY <1>1, <1>2, <2>1, <2>2, HeardFates
<1>3. CASE (\E rest : Leave(a, "abrupt", rest)) /\ UNCHANGED <<events, report>>
  <2>1. /\ phase' = [phase EXCEPT ![a] = "checking"]
        /\ outcome' = [outcome EXCEPT ![a] = "abrupt"]
    BY <1>3 DEF Leave
  <2>2. phase \in [Actor -> Phase] /\ outcome \in [Actor -> Outcome]
    BY DEF FateInv, TreeInv, TypeTree
  <2>3. /\ \A c \in Actor : phase'[c] \in Reported <=> phase[c] \in Reported
        /\ \A q \in Actor : phase[q] = "aborted" => phase'[q] = "aborted"
        /\ \A q \in Actor : phase[q] \notin {"unborn", "loop"} => phase'[q] # "loop"
        /\ \A q \in Actor : outcome'[q] = outcome[q]
                \/ (phase[q] = "loop" /\ outcome'[q] # "error")
    BY <1>1, <2>1, <2>2 DEF Reported
  <2> QED  BY <1>1, <1>3, <2>3, FateQuiet
<1> QED  BY <1>2, <1>3 DEF EndsAbruptly

\* The receivers are dropped: what is in the queue is lost, which a parent that
\* ended by the error of a message handler has nothing left to lose of.
LEMMA DropFates ==
    ASSUME FateInv, NEW a \in Actor, DropReceivers(a), UNCHANGED parent,
           phase[a] # "unborn", phase'[a] # "loop",
           \A b \in Actor \ {a} : phase'[b] = phase[b] /\ outcome'[b] = outcome[b],
           phase[a] = "cleanup" => outcome'[a] \in {outcome[a], "cleanup"},
           phase[a] = "cleanup" /\ Errs(a) => outcome'[a] = outcome[a],
           phase[a] # "cleanup" => outcome'[a] = outcome[a],
           phase'[a] # "aborted" => phase[a] = "cleanup",
           phase[a] # "aborted", phase'[a] \notin Reported,
           phase[a] \in Reported =>
                parent[a] = Proc /\ report[a] \in {"coordinator", "lost"}
    PROVE  Fates' /\ ErrorsHeard'
<1>1. /\ events \in [Actor -> Seq(Actor)] /\ report \in [Actor -> Report]
      /\ \A c \in Actor : parent[c] \in Actor \cup {Proc}
  BY DEF FateInv, TreeInv, TypeTree
<1>2. /\ events'[a] = <<>> /\ \A b \in Actor \ {a} : events'[b] = events[b]
      /\ \A c \in Actor : report'[c] = IF Contains(events[a], c) /\ report[c] = "queued"
                                       THEN "dropped" ELSE report[c]
  BY <1>1 DEF DropReceivers
<1>3. \A c \in Actor : Contains(events[a], c) => parent[c] = a
  BY DEF FateInv, TreeInv, EventQueues, Contains
<1>4. Onwards
  BY <1>2 DEF Onwards, Errs, Reported
<1>5. Fates'
  <2>1. \A c \in Actor : report'[c] = "propagated" => phase'[c] \in Reported
    <3>1. \A c \in Actor : report'[c] = "propagated" => report[c] = "propagated"
      BY <1>2
    <3> QED  BY <3>1 DEF FateInv, Fates
  <2>2. \A c \in Actor : phase'[c] \in Reported => phase[c] \in Reported
    OBVIOUS
  <2>3. ASSUME NEW c \in Actor, phase[c] \in Reported, parent[c] # Proc, Fate(c)
        PROVE  \/ Fate(c)'
               \/ /\ report'[c] = report[c]
                  /\ report[c] = "queued" => Contains(events'[parent[c]], c)
    <3>1. CASE ~(Contains(events[a], c) /\ report[c] = "queued")
      <4>1. report[c] = "queued" => /\ Contains(events[parent[c]], c) /\ parent[c] \in Actor
                                    /\ parent[c] # a
        BY <1>1, <2>3, <3>1 DEF Fate
      <4> QED  BY <1>2, <3>1, <4>1
    <3>2. CASE Contains(events[a], c) /\ report[c] = "queued"
      <4>1. report'[c] = "dropped" /\ parent'[c] = a
        BY <1>2, <1>3, <3>2
      <4>2. outcome'[a] = "error" /\ phase'[a] # "aborted" => EndedByChild(a)'
        <5>1. SUFFICES ASSUME outcome'[a] = "error", phase'[a] # "aborted"
                       PROVE  EndedByChild(a)'
          OBVIOUS
        <5>2. outcome[a] = "error" /\ phase[a] = "cleanup"
          BY <5>1
        <5>3. EndedByChild(a)
          BY <3>2, <5>2 DEF FateInv, ErrorsHeard, Contains
        <5> QED  BY <1>4, <5>2, <5>3, EndedByChildKept
      <4> QED  BY <4>1, <4>2 DEF Fate, EndedByChild
    <3> QED  BY <3>1, <3>2
  <2> QED  BY <1>4, <2>1, <2>2, <2>3, FatesStep
<1>6. ErrorsHeard'
  <2>1. ASSUME NEW q \in Actor, outcome'[q] = "error"
        PROVE  \/ EndedByChild(q)'
               \/ \A i \in 1..Len(events'[q]) : report'[events'[q][i]] # "queued"
    <3>1. CASE q = a
      BY <1>2, <3>1
    <3>2. CASE q # a
      <4>1. \A i \in 1..Len(events[q]) : events[q][i] \in Actor
        BY <1>1
      <4> QED  BY <1>2, <1>4, <2>1, <3>2, <4>1, ErrorsKept
    <3> QED  BY <3>1, <3>2
  <2> QED  BY <2>1 DEF ErrorsHeard
<1> QED  BY <1>5, <1>6

\* The cleanup of an actor, and the end of a cancelled root.
LEMMA CleanupFates ==
    ASSUME FateInv, NEW a \in Actor, Cleanup(a) \/ Cancelled(a)
    PROVE  Fates' /\ ErrorsHeard'
<1>1. phase \in [Actor -> Phase] /\ outcome \in [Actor -> Outcome]
  BY DEF FateInv, TreeInv, TypeTree
<1>2. CASE Cleanup(a)
  <2>1. /\ phase[a] = "cleanup" /\ phase' = [phase EXCEPT ![a] = "unlinking"]
        /\ DropReceivers(a) /\ UNCHANGED parent
        /\ UNCHANGED outcome \/ (~Errs(a) /\ outcome' = [outcome EXCEPT ![a] = "cleanup"])
    BY <1>2 DEF Cleanup
  <2>2. /\ phase'[a] = "unlinking" /\ outcome'[a] \in {outcome[a], "cleanup"}
        /\ Errs(a) => outcome'[a] = outcome[a]
        /\ \A b \in Actor \ {a} : phase'[b] = phase[b] /\ outcome'[b] = outcome[b]
    BY <1>1, <2>1
  <2> QED  BY <2>1, <2>2, DropFates DEF Reported
<1>3. CASE Cancelled(a)
  <2>1. /\ a \in aborting /\ phase' = [phase EXCEPT ![a] = "aborted"]
        /\ phase[a] \in {"loop", "waiting", "cleanup", "publishing"}
        /\ DropReceivers(a) /\ UNCHANGED <<parent, outcome>>
    BY <1>3 DEF Cancelled, taskVars
  <2>2. phase'[a] = "aborted" /\ \A b \in Actor \ {a} : phase'[b] = phase[b]
    BY <1>1, <2>1
  <2>3. phase[a] \in Reported =>
            parent[a] = Proc /\ report[a] \in {"coordinator", "lost"}
    BY <2>1 DEF FateInv, TreeInv, RootsHeard
  <2> QED  BY <2>1, <2>2, <2>3, DropFates DEF Reported
<1> QED  BY <1>2, <1>3

\* An actor that its parent gave up reports to the coordinator: its parent is
\* not in its loop.
LEMMA UnlinkFates ==
    ASSUME FateInv, NEW a \in Actor, Unlink(a)
    PROVE  Fates' /\ ErrorsHeard'
<1>1. /\ phase[a] = "unlinking" /\ UNCHANGED <<parent, outcome, events>>
      /\ \/ phase' = [phase EXCEPT ![a] = "sending"] /\ UNCHANGED report
         \/ /\ parent[a] = Proc \/ a \notin children[parent[a]] \/ phase[parent[a]] = "aborted"
            /\ phase' = [phase EXCEPT ![a] = "publishing"] /\ PostToCoordinator(a)
  BY DEF Unlink, taskVars
<1>2. /\ phase \in [Actor -> Phase] /\ report \in [Actor -> Report]
      /\ parent[a] \in Actor \cup {Proc}
  BY DEF FateInv, TreeInv, TypeTree
<1>3. /\ phase'[a] \in {"sending", "publishing"}
      /\ (report'[a] # "queued" \/ report' = report)
      /\ \A b \in Actor \ {a} : phase'[b] = phase[b] /\ report'[b] = report[b]
  BY <1>1, <1>2 DEF PostToCoordinator
<1>4. report[a] # "propagated" /\ phase'[a] # "loop"
  BY <1>1, <1>2 DEF FateInv, Fates, Reported
<1>5. Onwards
  BY <1>1, <1>3, <1>4 DEF Onwards, Errs, Reported
<1>6. ASSUME phase'[a] \in Reported, parent[a] # Proc PROVE Fate(a)'
  <2>1. /\ phase' = [phase EXCEPT ![a] = "publishing"] /\ PostToCoordinator(a)
        /\ a \notin children[parent[a]] \/ phase[parent[a]] = "aborted"
    BY <1>1, <1>2, <1>6 DEF Reported
  <2>2. phase[parent[a]] # "loop"
    BY <1>1, <1>6, <2>1 DEF FateInv, TreeInv, Links, Before
  <2>3. phase'[parent[a]] # "loop"
    BY <1>2, <1>3, <1>4, <1>6, <2>2
  <2>4. report'[a] \in {"coordinator", "lost"}
    BY <1>2, <2>1 DEF PostToCoordinator
  <2> QED  BY <1>1, <2>3, <2>4 DEF Fate
<1>7. Fates'
  <2>1. \A c \in Actor : report'[c] = "propagated" => phase'[c] \in Reported
    <3>1. report'[a] # "propagated"
      BY <1>1, <1>2, <1>4 DEF PostToCoordinator
    <3> QED  BY <1>3, <3>1 DEF FateInv, Fates
  <2>2. \A c \in Actor : phase[c] \in Reported => c # a
    BY <1>1 DEF Reported
  <2>3. \A c \in Actor : Fate(c) /\ report[c] = "queued" => Contains(events[parent[c]], c)
    BY DEF Fate
  <2>4. \A c \in Actor : phase'[c] \in Reported /\ phase[c] \notin Reported => c = a
    BY <1>3
  <2> QED  BY <1>1, <1>3, <1>5, <1>6, <2>1, <2>2, <2>3, <2>4, FatesStep
<1>8. ErrorsHeard'
  <2>1. ASSUME NEW q \in Actor, outcome'[q] = "error"
        PROVE  \/ EndedByChild(q)'
               \/ \A i \in 1..Len(events'[q]) : report'[events'[q][i]] # "queued"
    <3>1. \A i \in 1..Len(events[q]) : events[q][i] \in Actor
      BY DEF FateInv, TreeInv, TypeTree
    <3>2. \A i \in 1..Len(events[q]) : report'[events[q][i]] = "queued"
                => report[events[q][i]] = "queued"
      BY <1>3, <3>1
    <3> QED  BY <1>1, <1>5, <2>1, <3>2, ErrorsKept
  <2> QED  BY <2>1 DEF ErrorsHeard
<1> QED  BY <1>7, <1>8

\* The event goes into the queue of a parent in its loop, comes too late for one
\* that has left it, and ends the process when a failure finds nobody.
LEMMA SendToParentFates ==
    ASSUME FateInv, NEW a \in Actor, SendToParent(a)
    PROVE  Fates' /\ ErrorsHeard'
<1>1. PICK p \in Actor : p = parent[a] /\ p # Proc /\ phase[a] = "sending"
  BY DEF FateInv, TreeInv, TypeTree, Family, SendToParent
<1>2. /\ phase' = [phase EXCEPT ![a] = "publishing"] /\ UNCHANGED <<parent, outcome>>
      /\ IF Open(p)
         THEN /\ events' = [events EXCEPT ![p] = Append(@, a)]
              /\ report' = [report EXCEPT ![a] = IF phase[p] = "loop" THEN "queued" ELSE "late"]
         ELSE /\ report' = [report EXCEPT ![a] = IF Errs(a) THEN "crash" ELSE "dropped"]
              /\ UNCHANGED events
  BY <1>1 DEF SendToParent, taskVars
<1>3. /\ phase \in [Actor -> Phase] /\ report \in [Actor -> Report]
      /\ events \in [Actor -> Seq(Actor)] /\ events[p] \in Seq(Actor)
  BY DEF FateInv, TreeInv, TypeTree
<1>4. /\ phase'[a] = "publishing" /\ \A b \in Actor \ {a} : phase'[b] = phase[b]
      /\ \A b \in Actor \ {a} : report'[b] = report[b]
  BY <1>2, <1>3
<1>5. report[a] # "propagated" /\ report'[a] # "propagated"
  <2>1. report[a] # "propagated"
    BY <1>1 DEF FateInv, Fates, Reported
  <2>2. report'[a] # "propagated"
    BY <1>2, <1>3
  <2> QED  BY <2>1, <2>2
<1>6. Onwards
  BY <1>1, <1>2, <1>4, <1>5 DEF Onwards, Errs, Reported
<1>7. /\ \A q \in Actor : \A c \in Actor : Contains(events[q], c) => Contains(events'[q], c)
      /\ Open(p) => Contains(events'[p], a)
      /\ \A q \in Actor : \A i \in 1..Len(events'[q]) :
            \/ i \in 1..Len(events[q]) /\ events'[q][i] = events[q][i]
            \/ q = p /\ events'[q][i] = a
  <2>1. CASE UNCHANGED events /\ ~Open(p)
    BY <2>1
  <2>2. CASE events' = [events EXCEPT ![p] = Append(@, a)]
    <3> DEFINE s == Append(events[p], a)
    <3>1. /\ s \in Seq(Actor) /\ Len(s) = Len(events[p]) + 1 /\ Len(events[p]) \in Nat
          /\ \A i \in 1..Len(events[p]) : s[i] = events[p][i]
          /\ s[Len(events[p]) + 1] = a
      BY <1>3, AppendFacts
    <3>2. events'[p] = s /\ \A q \in Actor \ {p} : events'[q] = events[q]
      BY <1>3, <2>2
    <3> HIDE DEF s
    <3>3. Contains(events'[p], a)
      <4>1. Len(events[p]) + 1 \in 1..Len(s)
        BY <3>1
      <4> QED  BY <3>1, <3>2, <4>1 DEF Contains
    <3>4. \A c \in Actor : Contains(events[p], c) => Contains(events'[p], c)
      BY <3>1, <3>2 DEF Contains
    <3>5. \A i \in 1..Len(s) : (i \in 1..Len(events[p]) /\ s[i] = events[p][i]) \/ s[i] = a
      BY <3>1
    <3> QED  BY <3>2, <3>3, <3>4, <3>5
  <2> QED  BY <1>2, <2>1, <2>2
<1>8. Errs(a)' => Fate(a)'
  <2>1. parent'[a] = p /\ (Errs(a)' => Errs(a))
    BY <1>1, <1>2 DEF Errs
  <2>2. CASE Open(p) /\ phase[p] = "loop"
    <3>1. report'[a] = "queued" /\ Contains(events'[p], a)
      BY <1>2, <1>3, <1>7, <2>2
    <3> QED  BY <2>1, <3>1 DEF Fate
  <2>3. CASE Open(p) /\ phase[p] # "loop"
    <3>1. report'[a] = "late" /\ phase'[p] # "loop"
      BY <1>2, <1>3, <1>4, <2>3
    <3> QED  BY <2>1, <3>1 DEF Fate
  <2>4. CASE ~Open(p) /\ Errs(a)
    <3>1. report'[a] = "crash"
      BY <1>2, <1>3, <2>4
    <3> QED  BY <2>1, <3>1 DEF Fate
  <2> QED  BY <2>1, <2>2, <2>3, <2>4
<1>9. Fates'
  <2>1. \A c \in Actor : report'[c] = "propagated" => phase'[c] \in Reported
    BY <1>4, <1>5 DEF FateInv, Fates
  <2>2. \A c \in Actor : phase[c] \in Reported => c # a
    BY <1>1 DEF Reported
  <2>3. \A c \in Actor : phase'[c] \in Reported /\ phase[c] \notin Reported => c = a
    BY <1>4
  <2>4. \A c \in Actor : Fate(c) /\ report[c] = "queued" /\ parent[c] # Proc
            => Contains(events'[parent[c]], c)
    BY <1>7 DEF Fate, FateInv, TreeInv, TypeTree
  <2> QED  BY <1>4, <1>6, <1>8, <2>1, <2>2, <2>3, <2>4, FatesStep
<1>10. ErrorsHeard'
  <2>1. ASSUME NEW q \in Actor, outcome'[q] = "error"
        PROVE  \/ EndedByChild(q)'
               \/ \A i \in 1..Len(events'[q]) : report'[events'[q][i]] # "queued"
    <3>1. outcome[q] = "error" /\ phase[q] # "loop"
      BY <1>2, <2>1 DEF FateInv, TreeInv, Lifecycle
    <3>2. q = p => report'[a] # "queued"
      BY <1>2, <1>3, <3>1
    <3>3. \A i \in 1..Len(events[q]) : events[q][i] \in Actor /\ events[q][i] # a
      <4>1. events[q] \in Seq(Actor)
        BY <1>3 DEF FateInv, TreeInv, TypeTree
      <4>2. \A i \in 1..Len(events[q]) : phase[events[q][i]] \in Reported
        BY <4>1 DEF FateInv, TreeInv, EventQueues
      <4>3. phase[a] \notin Reported
        BY <1>1 DEF Reported
      <4> QED  BY <4>1, <4>2, <4>3
    <3>4. \A i \in 1..Len(events'[q]) : report'[events'[q][i]] = "queued" =>
                \E j \in 1..Len(events[q]) : report[events[q][j]] = "queued"
      BY <1>4, <1>7, <3>2, <3>3
    <3> QED  BY <1>6, <3>1, <3>4, ErrorsKept
  <2> QED  BY <2>1 DEF ErrorsHeard
<1> QED  BY <1>9, <1>10

\* Every step keeps the failures accounted for.
LEMMA FateInvStep ==
    ASSUME FateInv, [Next]_vars
    PROVE  FateInv'
<1>1. TreeInv'
  BY TreeInvStep DEF FateInv
<1>2. ASSUME NEW a \in Actor, Step(a) PROVE Fates' /\ ErrorsHeard'
  BY <1>2, RecvSignalFates, QuietSteps, HandleEventFates, CleanupFates, UnlinkFates,
     SendToParentFates DEF Step
<1>3. ASSUME NEW a \in Actor, Environment(a) PROVE Fates' /\ ErrorsHeard'
  BY <1>3, QuietSteps, HandlerFailsFates, EndsAbruptlyFates DEF Environment
<1>4. ASSUME NEW a \in Actor, Abort(a) \/ Cancelled(a) PROVE Fates' /\ ErrorsHeard'
  BY <1>4, QuietSteps, CleanupFates
<1>5. CASE DestroyStart \/ DestroyPhase2 \/ DestroyDone
  BY <1>1, <1>5, QuietDestroy DEF FateInv
<1>6. CASE UNCHANGED vars
  <2>1. UNCHANGED <<report, events, outcome, parent, phase>>
    BY <1>6 DEF vars
  <2> QED  BY <1>1, <2>1, FateQuiet DEF FateInv
<1> QED  BY <1>1, <1>2, <1>3, <1>4, <1>5, <1>6 DEF Next, FateInv

\* The invariant about the failures holds in every state.
THEOREM FateInvariant == Spec => []FateInv
<1>1. Init => FateInv
  <2>1. Init => Fates /\ ErrorsHeard
    BY DEF Init, Fates, ErrorsHeard, Errs
  <2> QED  BY <2>1, TreeInvInit DEF FateInv
<1>2. FateInv /\ [Next]_vars => FateInv'
  BY FateInvStep
<1> QED  BY <1>1, <1>2, PTL DEF Spec

\* No failure of a child is forgotten by a parent that was in its loop when it
\* was told, unless it was told to end or ended abruptly (handle_supervision_event,
\* and the events drained when a message handler returns an error).
THEOREM FailuresRemembered == Spec => []NoFailureForgotten
<1>1. FateInv => NoFailureForgotten
  <2> SUFFICES ASSUME FateInv, NEW c \in Actor, Errs(c), phase[c] = "done", parent[c] # Proc
               PROVE  LET p == parent[c]
                      IN  \/ report[c] \in {"handled", "coordinator", "crash"}
                          \/ report[c] = "queued" /\ Contains(events[p], c)
                          \/ report[c] = "propagated" /\ Errs(p)
                          \/ report[c] \in {"late", "lost"} /\ phase[p] # "loop"
                          \/ /\ report[c] = "dropped"
                             /\ \/ outcome[p] # "error" \/ phase[p] = "aborted"
                                \/ \E b \in Actor : parent[b] = p /\ report[b] = "propagated"
    BY DEF NoFailureForgotten
  <2>1. Fate(c)
    BY DEF FateInv, Fates, Reported
  <2> QED  BY <2>1 DEF Fate, EndedByChild
<1> QED  BY <1>1, FateInvariant, PTL

=============================================================================
