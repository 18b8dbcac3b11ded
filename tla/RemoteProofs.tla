---------------------------- MODULE RemoteProofs ----------------------------
(***************************************************************************)
(* Proofs about RemoteSupervision, for any number of supervisors, either   *)
(* orphan policy and any number of faults.                                 *)
(*                                                                         *)
(* The argument.  A session is requested once, by the first message of its *)
(* supervisor, so its liveness actor on the worker's side lives once and   *)
(* an event of it in the worker's queue means that it has ended.  Giving   *)
(* up the session on that event therefore leaves nothing ticking, and the  *)
(* other ways to give it up stop the actor.  In the same way an event of   *)
(* the child in the queue means that the child has ended, for good.        *)
(***************************************************************************)
EXTENDS RemoteSupervision, TLAPS

Outcome == {"none", "killed", "Linked", "SuperviseRejected", "Terminal",
            "Unreachable", "Unlinked", "InvalidReference"}
Message == {"Linked", "SuperviseRejected", "Terminal", "Unreachable", "Unlinked"}
Supervisor == [status : {"absent", "live", "ended"}, linked : BOOLEAN,
               pendingStop : BOOLEAN, stopAsked : BOOLEAN, outcome : Outcome]
Link == {"none", "live", "failed", "ended"}
Request == {"Supervise", "Stop"}

\* TypeOK, with the domains that the steps rely on.
TypeRemote ==
    /\ bootstrap \in {"existing", "callback"}
    /\ sup \in [Session -> Supervisor]
    /\ ls \in [Session -> Link]
    /\ lw \in [Session -> {"none", "live", "stopping", "ended"}]
    /\ worker \in [status : {"absent", "live", "failing", "stopped", "failed"},
                   child : BOOLEAN, session : Session \cup {None}]
    /\ child \in {"none", "live", "stopping", "closed", "ended"}
    /\ toW \in [Session -> Seq(Request)]
    /\ toS \in [Session -> Seq(Message)]
    /\ unlinks \subseteq Session
    /\ returned \in [Session -> Nat]
    /\ events \in Seq([who : Session \cup {Child}, error : BOOLEAN])
    /\ faults \in 0..MaxFaults

\* How a supervisor ended, if it has; and a session is one with a child.
Status ==
    /\ \A s \in Session : (sup[s].status = "ended") = (sup[s].outcome # "none")
    /\ worker.session # None => child # "none"
    /\ worker.child => child # "none"

\* Supervise is the first message of its session, and is sent once.
RequestedOnce ==
    \A s \in Session :
        /\ sup[s].status = "absent" => toW[s] = <<>> /\ lw[s] = "none"
        /\ \A i \in 1..Len(toW[s]) : toW[s][i] = "Supervise" => i = 1 /\ lw[s] = "none"

\* What an event in the worker's queue is of has ended.
EventsTrue ==
    \A i \in 1..Len(events) :
        /\ events[i].who = Child => child = "ended"
        /\ \A s \in Session : events[i].who = s => lw[s] = "ended"

\* Before the spawner makes the worker there is nothing.
AbsentEmpty ==
    worker.status = "absent" => worker.session = None /\ events = <<>> /\ child = "none"

\* OneLiveLink and TerminalIsTrue hold because of what the queues hold.
RemoteInv ==
    /\ TypeRemote /\ Status /\ RequestedOnce /\ EventsTrue /\ AbsentEmpty
    /\ OneLiveLink /\ TerminalIsTrue

-----------------------------------------------------------------------------
(* Queues.                                                                  *)

\* A message sent goes to the end of its queue.
LEMMA AppendFacts ==
    ASSUME NEW S, NEW q \in Seq(S), NEW e \in S
    PROVE  /\ Append(q, e) \in Seq(S)
           /\ Len(Append(q, e)) = Len(q) + 1 /\ Len(q) \in Nat
           /\ \A i \in 1..Len(q) : Append(q, e)[i] = q[i]
           /\ Append(q, e)[Len(q) + 1] = e
OBVIOUS

\* The first message is taken, and the others move up.
LEMMA TailFacts ==
    ASSUME NEW S, NEW q \in Seq(S), q # <<>>
    PROVE  /\ Tail(q) \in Seq(S) /\ Head(q) \in S /\ Head(q) = q[1]
           /\ Len(Tail(q)) = Len(q) - 1 /\ Len(q) \in Nat \ {0}
           /\ \A i \in 1..(Len(q) - 1) : Tail(q)[i] = q[i + 1]
OBVIOUS

\* No session is told Terminal by a message of another kind.
LEMMA NoNewTerminal ==
    ASSUME NEW q \in Seq(Message), NEW m \in Message, m # "Terminal",
           Contains(Append(q, m), "Terminal")
    PROVE  Contains(q, "Terminal")
BY AppendFacts DEF Contains

\* Reading a message leaves no more of them.
LEMMA TailTerminal ==
    ASSUME NEW q \in Seq(Message), q # <<>>, Contains(Tail(q), "Terminal")
    PROVE  Contains(q, "Terminal")
BY TailFacts DEF Contains

\* RequestedOnce reads a session's queue, its liveness actor and whether its
\* supervisor has started: reading a message and adding a stop keep it.
LEMMA RequestedKept ==
    ASSUME TypeRemote, RequestedOnce, NEW s \in Session,
           toW' \in [Session -> Seq(Request)], UNCHANGED lw,
           \A t \in Session \ {s} : toW'[t] = toW[t],
           \A t \in Session : sup'[t].status = "absent" => sup[t].status = "absent",
           \/ toW'[s] = toW[s]
           \/ sup'[s].status # "absent" /\ toW'[s] = Append(toW[s], "Stop")
           \/ toW[s] # <<>> /\ toW'[s] = Tail(toW[s])
    PROVE  RequestedOnce'
<1>1. toW[s] \in Seq(Request) /\ "Stop" \in Request
  BY DEF TypeRemote, Request
<1>2. ASSUME NEW t \in Session, t # s
      PROVE  /\ sup'[t].status = "absent" => toW'[t] = <<>> /\ lw'[t] = "none"
             /\ \A i \in 1..Len(toW'[t]) : toW'[t][i] = "Supervise" => i = 1 /\ lw'[t] = "none"
  BY <1>2 DEF RequestedOnce
<1>3. /\ sup'[s].status = "absent" => toW'[s] = <<>> /\ lw'[s] = "none"
      /\ \A i \in 1..Len(toW'[s]) : toW'[s][i] = "Supervise" => i = 1 /\ lw'[s] = "none"
  <2>1. CASE toW'[s] = toW[s]
    BY <2>1 DEF RequestedOnce
  <2>2. CASE sup'[s].status # "absent" /\ toW'[s] = Append(toW[s], "Stop")
    BY <2>2, <1>1, AppendFacts DEF RequestedOnce
  <2>3. CASE toW[s] # <<>> /\ toW'[s] = Tail(toW[s])
    BY <2>3, <1>1, TailFacts DEF RequestedOnce
  <2> QED  BY <2>1, <2>2, <2>3
<1> QED  BY <1>2, <1>3 DEF RequestedOnce

\* TerminalIsTrue: an ended child stays ended, and nothing new is said of one
\* that has not.
LEMMA TerminalKept ==
    ASSUME TerminalIsTrue, child = "ended" => child' = "ended",
           \A t \in Session : sup'[t].outcome = "Terminal"
                => sup[t].outcome = "Terminal" \/ child = "ended",
           \A t \in Session : Contains(toS'[t], "Terminal")
                => Contains(toS[t], "Terminal") \/ child = "ended"
    PROVE  TerminalIsTrue'
BY DEF TerminalIsTrue

-----------------------------------------------------------------------------
(* The supervisors.                                                         *)

\* A step that leaves the worker, its child and its liveness actors alone.
LEMMA WorkerSame ==
    ASSUME RemoteInv, UNCHANGED workerVars
    PROVE  EventsTrue' /\ AbsentEmpty' /\ OneLiveLink'
BY DEF RemoteInv, workerVars, EventsTrue, AbsentEmpty, OneLiveLink

\* What the end of a supervisor changes.
LEMMA SupEndFacts ==
    ASSUME TypeRemote, NEW s \in Session, NEW o \in Outcome, SupEnd(s, o)
    PROVE  /\ sup' \in [Session -> Supervisor] /\ ls' \in [Session -> Link]
           /\ sup'[s].status = "ended" /\ sup'[s].outcome = o
           /\ \A t \in Session \ {s} : sup'[t] = sup[t]
BY ZenonT(40) DEF TypeRemote, SupEnd, Supervisor, Link

\* A supervisor that is not new ends, for any reason but a Terminal that is
\* not true: with the message that made it end, or without.
LEMMA SupEndKeeps ==
    ASSUME RemoteInv, NEW s \in Session, NEW o \in Outcome \ {"none"}, SupEnd(s, o),
           o = "Terminal" => child = "ended",
           UNCHANGED <<bootstrap, workerVars, unlinks, returned>>, faults' \in 0..MaxFaults,
           \/ UNCHANGED toW
           \/ toW[s] # <<>> /\ toW' = [toW EXCEPT ![s] = Tail(@)],
           \/ UNCHANGED toS
           \/ toS[s] # <<>> /\ toS' = [toS EXCEPT ![s] = Tail(@)]
    PROVE  RemoteInv'
<1>1. /\ sup' \in [Session -> Supervisor] /\ ls' \in [Session -> Link]
      /\ sup'[s].status = "ended" /\ sup'[s].outcome = o
      /\ \A t \in Session \ {s} : sup'[t] = sup[t]
  BY SupEndFacts DEF RemoteInv
<1>2. toW' \in [Session -> Seq(Request)] /\ toS' \in [Session -> Seq(Message)]
  <2>1. toW \in [Session -> Seq(Request)] /\ toS \in [Session -> Seq(Message)]
    BY DEF RemoteInv, TypeRemote
  <2>2. /\ toW[s] # <<>> => Tail(toW[s]) \in Seq(Request)
        /\ toS[s] # <<>> => Tail(toS[s]) \in Seq(Message)
    BY <2>1, TailFacts
  <2>3. toW' \in [Session -> Seq(Request)]
    BY <2>1, <2>2
  <2>4. toS' \in [Session -> Seq(Message)]
    BY <2>1, <2>2
  <2> QED  BY <2>3, <2>4
<1>3. TypeRemote'
  BY <1>1, <1>2 DEF RemoteInv, TypeRemote, workerVars
<1>4. Status'
  BY <1>1 DEF RemoteInv, Status, workerVars
<1>5. RequestedOnce'
  <2>1. UNCHANGED lw /\ \A t \in Session \ {s} : toW'[t] = toW[t]
    BY DEF RemoteInv, TypeRemote, workerVars
  <2>2. toW'[s] = toW[s] \/ (toW[s] # <<>> /\ toW'[s] = Tail(toW[s]))
    BY DEF RemoteInv, TypeRemote
  <2> QED  BY <2>1, <2>2, <1>1, <1>2, RequestedKept DEF RemoteInv
<1>6. TerminalIsTrue'
  <2>1. \A t \in Session : Contains(toS'[t], "Terminal") => Contains(toS[t], "Terminal")
    BY TailTerminal, ZenonT(40) DEF RemoteInv, TypeRemote
  <2>2. child' = child
    BY DEF workerVars
  <2> QED  BY <2>1, <2>2, <1>1, TerminalKept DEF RemoteInv
<1> QED  BY <1>3, <1>4, <1>5, <1>6, WorkerSame DEF RemoteInv

\* send_pending_worker_stop changes the flags of one supervisor and may add a
\* stop to its queue.
LEMMA PendingStopKeeps ==
    ASSUME RemoteInv, NEW s \in Session, NEW r \in Supervisor, SendPendingStop(s, r),
           sup[s].status = "live", r.status = "live", r.outcome = "none",
           UNCHANGED <<bootstrap, ls, workerVars, unlinks, returned, faults>>,
           \/ UNCHANGED toS
           \/ toS[s] # <<>> /\ toS' = [toS EXCEPT ![s] = Tail(@)]
    PROVE  RemoteInv'
<1>1. [r EXCEPT !.pendingStop = FALSE] \in Supervisor
  BY DEF Supervisor
<1>2. /\ sup' \in [Session -> Supervisor]
      /\ sup'[s].status = "live" /\ sup'[s].outcome = "none"
      /\ \A t \in Session \ {s} : sup'[t] = sup[t]
  <2>1. \E q \in Supervisor : /\ sup' = [sup EXCEPT ![s] = q]
                              /\ q.status = r.status /\ q.outcome = r.outcome
    <3>1. CASE r.linked \/ bootstrap = "existing"
      <4> DEFINE q == [r EXCEPT !.pendingStop = FALSE]
      <4>1. q.status = r.status /\ q.outcome = r.outcome
        BY DEF Supervisor
      <4> QED  BY <1>1, <3>1, <4>1 DEF SendPendingStop
    <3>2. CASE ~(r.linked \/ bootstrap = "existing")
      BY <3>2 DEF SendPendingStop
    <3> QED  BY <3>1, <3>2
  <2> QED  BY <2>1 DEF RemoteInv, TypeRemote
<1>3. \/ UNCHANGED toW
      \/ toW' = [toW EXCEPT ![s] = Append(@, "Stop")]
  BY DEF RemoteInv, TypeRemote, SendPendingStop
<1>4. toW' \in [Session -> Seq(Request)] /\ toS' \in [Session -> Seq(Message)]
  <2>1. toW \in [Session -> Seq(Request)] /\ toS \in [Session -> Seq(Message)]
    BY DEF RemoteInv, TypeRemote
  <2>2. /\ Append(toW[s], "Stop") \in Seq(Request)
        /\ toS[s] # <<>> => Tail(toS[s]) \in Seq(Message)
    BY <2>1, AppendFacts, TailFacts DEF Request
  <2>3. toW' \in [Session -> Seq(Request)]
    BY <2>1, <2>2, <1>3
  <2>4. toS' \in [Session -> Seq(Message)]
    BY <2>1, <2>2
  <2> QED  BY <2>3, <2>4
<1>5. TypeRemote'
  BY <1>2, <1>4 DEF RemoteInv, TypeRemote, workerVars
<1>6. Status'
  BY <1>2 DEF RemoteInv, Status, workerVars
<1>7. RequestedOnce'
  <2>1. UNCHANGED lw /\ \A t \in Session \ {s} : toW'[t] = toW[t]
    BY <1>3 DEF RemoteInv, TypeRemote, workerVars
  <2>2. toW'[s] = toW[s] \/ toW'[s] = Append(toW[s], "Stop")
    BY <1>3 DEF RemoteInv, TypeRemote
  <2> QED  BY <2>1, <2>2, <1>2, <1>4, RequestedKept DEF RemoteInv
<1>8. TerminalIsTrue'
  <2>1. \A t \in Session : Contains(toS'[t], "Terminal") => Contains(toS[t], "Terminal")
    BY TailTerminal DEF RemoteInv, TypeRemote
  <2>2. child' = child
    BY DEF workerVars
  <2> QED  BY <2>1, <2>2, <1>2, TerminalKept DEF RemoteInv
<1> QED  BY <1>5, <1>6, <1>7, <1>8, WorkerSame DEF RemoteInv

\* Supervisor::init sends the one request of its session.
LEMMA SupInitKeeps ==
    ASSUME RemoteInv, NEW s \in Session, SupInit(s)
    PROVE  RemoteInv'
<1>1. sup' \in [Session -> Supervisor]
  BY ZenonT(40) DEF RemoteInv, TypeRemote, SupInit, Supervisor
<1>2. toW' \in [Session -> Seq(Request)] /\ ls' \in [Session -> Link]
  BY DEF RemoteInv, TypeRemote, SupInit, Request, Link
<1>3. TypeRemote'
  BY <1>1, <1>2 DEF RemoteInv, TypeRemote, SupInit, workerVars
<1>4. Status'
  BY DEF RemoteInv, TypeRemote, Supervisor, Status, SupInit, workerVars
<1>5. RequestedOnce'
  BY DEF RemoteInv, TypeRemote, Supervisor, RequestedOnce, SupInit, workerVars
<1>6. TerminalIsTrue'
  BY DEF RemoteInv, TypeRemote, Supervisor, TerminalIsTrue, SupInit, workerVars
<1> QED  BY <1>3, <1>4, <1>5, <1>6, WorkerSame DEF RemoteInv, SupInit

\* handle_stop asks for the worker's stop, now or once it is linked.
LEMMA SupHandleStopKeeps ==
    ASSUME RemoteInv, NEW s \in Session, SupHandleStop(s)
    PROVE  RemoteInv'
<1> DEFINE r == [sup[s] EXCEPT !.stopAsked = TRUE, !.pendingStop = TRUE]
<1>1. r \in Supervisor /\ r.status = "live" /\ r.outcome = "none"
  BY DEF RemoteInv, TypeRemote, Status, Supervisor, SupHandleStop
<1>2. SendPendingStop(s, r)
  BY DEF SupHandleStop
<1> HIDE DEF r
<1> QED  BY <1>1, <1>2, PendingStopKeeps DEF SupHandleStop

\* Handler<SupervisorEvent>: the link is noted, every other event ends the
\* supervisor; a message to one that has ended goes back.
LEMMA SupReceiveKeeps ==
    ASSUME RemoteInv, NEW s \in Session, SupReceive(s)
    PROVE  RemoteInv'
<1>1. toS[s] \in Seq(Message) /\ toS[s] # <<>> /\ toS' = [toS EXCEPT ![s] = Tail(@)]
  BY DEF RemoteInv, TypeRemote, SupReceive
<1>2. Head(toS[s]) \in Message /\ Head(toS[s]) = toS[s][1] /\ Len(toS[s]) \in Nat \ {0}
  BY <1>1, TailFacts
<1>3. CASE sup[s].status = "live" /\ Head(toS[s]) = "Linked"
  <2> DEFINE r == [sup[s] EXCEPT !.linked = TRUE]
  <2>1. r \in Supervisor /\ r.status = "live" /\ r.outcome = "none"
    BY <1>3 DEF RemoteInv, TypeRemote, Status, Supervisor
  <2>2. SendPendingStop(s, r)
    BY <1>3 DEF SupReceive
  <2> HIDE DEF r
  <2> QED  BY <1>1, <1>3, <2>1, <2>2, PendingStopKeeps DEF SupReceive
<1>4. CASE sup[s].status = "live" /\ Head(toS[s]) # "Linked"
  <2>1. Head(toS[s]) \in Outcome \ {"none"}
    BY <1>2 DEF Message, Outcome
  <2>2. Head(toS[s]) = "Terminal" => child = "ended"
    BY <1>2 DEF RemoteInv, TerminalIsTrue, Contains
  <2>3. SupEnd(s, Head(toS[s])) /\ UNCHANGED <<toW, returned, faults>>
    BY <1>4 DEF SupReceive
  <2>4. UNCHANGED <<bootstrap, workerVars, unlinks>> /\ faults' \in 0..MaxFaults
    BY <2>3 DEF SupReceive, RemoteInv, TypeRemote
  <2> QED  BY <1>1, <2>1, <2>2, <2>3, <2>4, SupEndKeeps
<1>5. CASE sup[s].status # "live"
  <2>1. UNCHANGED <<supVars, toW>> /\ returned' \in [Session -> Nat]
    <3>1. /\ UNCHANGED <<supVars, toW>>
          /\ returned' = IF worker.status = "live"
                         THEN [returned EXCEPT ![s] = @ + 1] ELSE returned
      BY <1>5 DEF SupReceive
    <3>2. returned \in [Session -> Nat] /\ returned[s] + 1 \in Nat
      BY DEF RemoteInv, TypeRemote
    <3> QED  BY <3>1, <3>2
  <2>2. Tail(toS[s]) \in Seq(Message)
    BY <1>1, TailFacts
  <2>3. toS' \in [Session -> Seq(Message)]
    BY <1>1, <2>2 DEF RemoteInv, TypeRemote
  <2>4. TypeRemote'
    BY <2>1, <2>3 DEF RemoteInv, TypeRemote, SupReceive, supVars, workerVars
  <2>5. Status' /\ RequestedOnce'
    BY <2>1 DEF RemoteInv, Status, RequestedOnce, SupReceive, supVars, workerVars
  <2>6. TerminalIsTrue'
    <3>1. \A t \in Session : Contains(toS'[t], "Terminal") => Contains(toS[t], "Terminal")
      BY <1>1, TailTerminal DEF RemoteInv, TypeRemote
    <3>2. UNCHANGED <<sup, child>>
      BY <2>1 DEF SupReceive, supVars, workerVars
    <3> QED  BY <3>1, <3>2, TerminalKept DEF RemoteInv
  <2> QED  BY <2>4, <2>5, <2>6, WorkerSame DEF RemoteInv, SupReceive
<1> QED  BY <1>3, <1>4, <1>5

\* The liveness actor failed, or the supervisor was killed.
LEMMA SupGoneKeeps ==
    ASSUME RemoteInv, NEW s \in Session, SupLivenessEvent(s) \/ SupKilled(s)
    PROVE  RemoteInv'
<1>1. PICK o \in {"Unreachable", "killed"} : SupEnd(s, o)
  BY DEF SupLivenessEvent, SupKilled
<1>2. o \in Outcome \ {"none"} /\ o # "Terminal"
  BY DEF Outcome
<1>3. UNCHANGED <<bootstrap, workerVars, unlinks, returned, toW, toS>>
  BY DEF SupLivenessEvent, SupKilled
<1>4. faults' \in 0..MaxFaults
  BY PolicyAssumption DEF SupLivenessEvent, SupKilled, Fault, RemoteInv, TypeRemote
<1> QED  BY <1>1, <1>2, <1>3, <1>4, SupEndKeeps

\* The request comes back from a worker that has ended.
LEMMA WorkerUnreachableKeeps ==
    ASSUME RemoteInv, NEW s \in Session, WorkerUnreachable(s)
    PROVE  RemoteInv'
<1>1. /\ toW[s] # <<>> /\ toW' = [toW EXCEPT ![s] = Tail(@)]
      /\ UNCHANGED <<bootstrap, workerVars, toS, unlinks, returned, faults>>
  BY DEF WorkerUnreachable
<1>2. CASE sup[s].status = "live" /\ SupEnd(s, "InvalidReference")
  <2>1. "InvalidReference" \in Outcome \ {"none"}
    BY DEF Outcome
  <2>2. faults' \in 0..MaxFaults
    BY <1>1 DEF RemoteInv, TypeRemote
  <2> QED  BY <1>1, <1>2, <2>1, <2>2, SupEndKeeps
<1>3. CASE UNCHANGED supVars
  <2>1. toW[s] \in Seq(Request)
    BY DEF RemoteInv, TypeRemote
  <2>2. Tail(toW[s]) \in Seq(Request)
    BY <2>1, <1>1, TailFacts
  <2>3. toW' \in [Session -> Seq(Request)]
    BY <1>1, <2>2 DEF RemoteInv, TypeRemote
  <2>4. TypeRemote'
    BY <1>1, <1>3, <2>3 DEF RemoteInv, TypeRemote, supVars, workerVars
  <2>5. Status' /\ TerminalIsTrue'
    BY <1>1, <1>3 DEF RemoteInv, Status, TerminalIsTrue, supVars, workerVars
  <2>6. RequestedOnce'
    <3>1. toW'[s] = Tail(toW[s]) /\ \A t \in Session \ {s} : toW'[t] = toW[t]
      BY <1>1 DEF RemoteInv, TypeRemote
    <3>2. UNCHANGED <<sup, lw>>
      BY <1>1, <1>3 DEF supVars, workerVars
    <3> QED  BY <1>1, <2>3, <3>1, <3>2, RequestedKept DEF RemoteInv
  <2> QED  BY <1>1, <2>4, <2>5, <2>6, WorkerSame DEF RemoteInv
<1> QED  BY <1>2, <1>3 DEF WorkerUnreachable

\* A supervisor's liveness actor fails; somebody posts an unlink.
LEMMA LinkOrUnlinkKeeps ==
    ASSUME RemoteInv, NEW s \in Session, LsFails(s) \/ PostUnlink(s)
    PROVE  RemoteInv'
<1>1. UNCHANGED <<bootstrap, sup, workerVars, toW, toS, returned>>
  BY DEF LsFails, PostUnlink, supVars
<1>2. faults' \in 0..MaxFaults /\ ls' \in [Session -> Link] /\ unlinks' \subseteq Session
  <2>1. faults' \in 0..MaxFaults
    BY PolicyAssumption DEF LsFails, PostUnlink, MayTimeOut, Fault, RemoteInv, TypeRemote
  <2>2. ls' \in [Session -> Link]
    BY DEF LsFails, PostUnlink, supVars, RemoteInv, TypeRemote, Link
  <2>3. unlinks' \subseteq Session
    BY DEF LsFails, PostUnlink, RemoteInv, TypeRemote
  <2> QED  BY <2>1, <2>2, <2>3
<1>3. TypeRemote'
  BY <1>1, <1>2 DEF RemoteInv, TypeRemote, workerVars
<1>4. Status' /\ RequestedOnce' /\ TerminalIsTrue'
  BY <1>1 DEF RemoteInv, Status, RequestedOnce, TerminalIsTrue, workerVars
<1> QED  BY <1>1, <1>3, <1>4, WorkerSame DEF RemoteInv

\* The bound on the faults.
LEMMA FaultType ==
    ASSUME RemoteInv, Fault \/ UNCHANGED faults
    PROVE  faults' \in 0..MaxFaults
BY PolicyAssumption DEF Fault, RemoteInv, TypeRemote

-----------------------------------------------------------------------------
(* The liveness actors of the worker, and the child.                        *)

LinkW == {"none", "live", "stopping", "ended"}
Event == [who : Session \cup {Child}, error : BOOLEAN]

\* An event is queued at a worker that still reads: of an actor that has ended.
LEMMA QueuedFacts ==
    ASSUME RemoteInv, NEW who \in Session \cup {Child}, NEW error \in BOOLEAN,
           events' = Queued(who, error),
           child = "ended" => child' = "ended",
           \A t \in Session : lw[t] = "ended" => lw'[t] = "ended",
           who = Child => child' = "ended",
           who \in Session => lw'[who] = "ended"
    PROVE  /\ events' \in Seq(Event) /\ EventsTrue'
           /\ worker.status = "absent" => events' = events
<1> DEFINE e == [who |-> who, error |-> error]
<1>1. e \in Event /\ events \in Seq(Event) /\ e.who = who
  BY DEF RemoteInv, TypeRemote, Event
<1> HIDE DEF e
<1>2. events' = Append(events, e) \/ events' = events
  BY DEF Queued, e
<1>3. events' \in Seq(Event)
  BY <1>1, <1>2, AppendFacts
<1>4. ASSUME NEW i \in 1..Len(events')
      PROVE  /\ events'[i].who = Child => child' = "ended"
             /\ \A t \in Session : events'[i].who = t => lw'[t] = "ended"
  <2>1. (i \in 1..Len(events) /\ events'[i] = events[i]) \/ events'[i] = e
    BY <1>1, <1>2, <1>4, AppendFacts
  <2> QED  BY <1>1, <2>1 DEF RemoteInv, EventsTrue
<1>5. worker.status = "absent" => events' = events
  BY DEF Queued
<1> QED  BY <1>3, <1>4, <1>5 DEF EventsTrue

\* A KeepaliveWorker fails or has stopped.
LEMMA LwEndsKeeps ==
    ASSUME RemoteInv, NEW s \in Session, LwFails(s) \/ LwStops(s)
    PROVE  RemoteInv'
<1>1. /\ lw[s] \in {"live", "stopping"} /\ lw' = [lw EXCEPT ![s] = "ended"]
      /\ UNCHANGED <<bootstrap, supVars, worker, child, toW, toS, unlinks, returned>>
  BY DEF LwFails, LwStops
<1>2. PICK error \in BOOLEAN : events' = Queued(s, error)
  BY DEF LwFails, LwStops
<1>3. lw \in [Session -> LinkW] /\ lw' \in [Session -> LinkW]
  BY <1>1 DEF RemoteInv, TypeRemote, LinkW
<1>4. /\ events' \in Seq(Event) /\ EventsTrue'
      /\ worker.status = "absent" => events' = events
  <2>1. s # Child
    BY PolicyAssumption DEF Session, Child
  <2> QED  BY <1>1, <1>2, <1>3, <2>1, QueuedFacts
<1>5. faults' \in 0..MaxFaults
  <2>1. Fault \/ UNCHANGED faults
    BY DEF LwFails, LwStops, MayTimeOut
  <2> QED  BY <2>1, FaultType
<1>6. TypeRemote'
  BY <1>1, <1>3, <1>4, <1>5 DEF RemoteInv, TypeRemote, supVars, LinkW, Event
<1>7. Status' /\ TerminalIsTrue'
  BY <1>1 DEF RemoteInv, Status, TerminalIsTrue, supVars
<1>8. RequestedOnce'
  BY <1>1, <1>3 DEF RemoteInv, RequestedOnce, supVars
<1>9. AbsentEmpty' /\ OneLiveLink'
  BY <1>1, <1>3, <1>4 DEF RemoteInv, AbsentEmpty, OneLiveLink
<1> QED  BY <1>4, <1>6, <1>7, <1>8, <1>9 DEF RemoteInv

\* The child's signal channel closes, and then its event is sent.
LEMMA ChildEndsKeeps ==
    ASSUME RemoteInv, ChildCloses \/ ChildReports
    PROVE  RemoteInv'
<1>1. UNCHANGED <<bootstrap, supVars, worker, lw, toW, toS, unlinks, returned>>
  BY DEF ChildCloses, ChildReports
<1>2. /\ child \notin {"none", "ended"} /\ child' \in {"closed", "ended"}
      /\ faults' \in 0..MaxFaults
  <2>1. Fault \/ UNCHANGED faults
    BY DEF ChildCloses, ChildReports
  <2>2. child \notin {"none", "ended"} /\ child' \in {"closed", "ended"}
    BY DEF ChildCloses, ChildReports
  <2> QED  BY <2>1, <2>2, FaultType
<1>3. /\ events' \in Seq(Event) /\ EventsTrue'
      /\ worker.status = "absent" => events' = events
  <2>1. CASE ChildCloses
    BY <1>1, <1>2, <2>1 DEF ChildCloses, RemoteInv, TypeRemote, EventsTrue, Event
  <2>2. CASE ChildReports
    <3>1. Child \in Session \cup {Child} /\ Child \notin Session
      BY PolicyAssumption DEF Session, Child
    <3> QED  BY <1>1, <2>2, <3>1, QueuedFacts DEF ChildReports
  <2> QED  BY <2>1, <2>2
<1>4. TypeRemote'
  BY <1>1, <1>2, <1>3 DEF RemoteInv, TypeRemote, supVars, Event
<1>5. Status' /\ RequestedOnce' /\ AbsentEmpty' /\ OneLiveLink' /\ TerminalIsTrue'
  BY <1>1, <1>2
     DEF RemoteInv, Status, RequestedOnce, AbsentEmpty, OneLiveLink, TerminalIsTrue, supVars
<1> QED  BY <1>3, <1>4, <1>5 DEF RemoteInv

-----------------------------------------------------------------------------
(* The worker.                                                              *)

\* What a step of the worker that is not its last has to show.
LEMMA WorkerMoves ==
    ASSUME RemoteInv, TypeRemote', RequestedOnce', EventsTrue', OneLiveLink', UNCHANGED sup,
           worker'.status # "absent",
           child' = "none" => child = "none",
           child = "ended" => child' = "ended",
           worker'.child => worker.child \/ child' # "none",
           worker'.session # None => worker.session # None \/ worker.child,
           \A t \in Session : Contains(toS'[t], "Terminal")
                => Contains(toS[t], "Terminal") \/ child = "ended"
    PROVE  RemoteInv'
<1>1. Status'
  BY DEF RemoteInv, Status
<1>2. AbsentEmpty'
  BY DEF AbsentEmpty
<1>3. TerminalIsTrue'
  BY TerminalKept DEF RemoteInv
<1> QED  BY <1>1, <1>2, <1>3 DEF RemoteInv

Worker == [status : {"absent", "live", "failing", "stopped", "failed"},
           child : BOOLEAN, session : Session \cup {None}]

\* stop_child keeps or gives up the session as it is told, and fails the worker
\* or stops the child; what is queued stays.
LEMMA StopChildFacts ==
    ASSUME RemoteInv, worker.status = "live", NEW x \in Session \cup {None}, StopChild(x)
    PROVE  /\ worker' \in Worker /\ worker'.session = x /\ worker'.child = worker.child
           /\ worker'.status # "absent" /\ events' = events
           /\ child' \in {"none", "live", "stopping", "closed", "ended"}
           /\ child' = "none" <=> child = "none"
           /\ child = "ended" => child' = "ended"
<1>1. worker \in Worker /\ child \in {"none", "live", "stopping", "closed", "ended"}
  BY DEF RemoteInv, TypeRemote, Worker
<1>2. CASE worker.child /\ child \in {"closed", "ended"}
  BY <1>1, <1>2 DEF StopChild, WorkerFailing, Worker
<1>3. CASE ~(worker.child /\ child \in {"closed", "ended"})
  BY <1>1, <1>3 DEF StopChild, Worker
<1> QED  BY <1>2, <1>3

\* unlink_orphaned_supervisor: the session is given up, its liveness actor
\* stopped, and the policy applied.
LEMMA OrphanedFacts ==
    ASSUME RemoteInv, worker.status = "live", worker.session # None, Orphaned
    PROVE  /\ worker' \in Worker /\ worker'.session = None /\ worker'.child = worker.child
           /\ worker'.status # "absent" /\ events' = events
           /\ child' \in {"none", "live", "stopping", "closed", "ended"}
           /\ child' = "none" <=> child = "none"
           /\ child = "ended" => child' = "ended"
           /\ lw' \in [Session -> LinkW]
           /\ \A t \in Session : /\ lw'[t] # "live"
                                 /\ lw[t] \in {"none", "ended"} => lw'[t] = lw[t]
<1>1. /\ worker' \in Worker /\ worker'.session = None /\ worker'.child = worker.child
      /\ worker'.status # "absent" /\ events' = events
      /\ child' \in {"none", "live", "stopping", "closed", "ended"}
      /\ child' = "none" <=> child = "none"
      /\ child = "ended" => child' = "ended"
  <2>1. CASE OrphanPolicy = "Stop"
    BY <2>1, StopChildFacts DEF Orphaned
  <2>2. CASE OrphanPolicy # "Stop"
    BY <2>2 DEF Orphaned, RemoteInv, TypeRemote, Worker
  <2> QED  BY <2>1, <2>2
<1>2. worker.session \in Session /\ lw' = LwStopped(worker.session)
  BY DEF Orphaned, RemoteInv, TypeRemote
<1>3. /\ lw' \in [Session -> LinkW]
      /\ \A t \in Session : /\ lw'[t] # "live"
                            /\ lw[t] \in {"none", "ended"} => lw'[t] = lw[t]
  BY <1>2 DEF LwStopped, RemoteInv, TypeRemote, OneLiveLink, LinkW
<1> QED  BY <1>1, <1>3

\* Losing the supervisor keeps the invariant, whoever noticed.
LEMMA OrphanedKeeps ==
    ASSUME RemoteInv, worker.status = "live", worker.session # None, Orphaned,
           UNCHANGED <<bootstrap, supVars, toW, faults>>,
           unlinks' \subseteq Session, returned' \in [Session -> Nat],
           toS' \in [Session -> Seq(Message)],
           \A t \in Session : Contains(toS'[t], "Terminal") => Contains(toS[t], "Terminal")
    PROVE  RemoteInv'
<1>1. /\ worker' \in Worker /\ worker'.session = None /\ worker'.child = worker.child
      /\ worker'.status # "absent" /\ events' = events
      /\ child' \in {"none", "live", "stopping", "closed", "ended"}
      /\ child' = "none" <=> child = "none"
      /\ child = "ended" => child' = "ended"
      /\ lw' \in [Session -> LinkW]
      /\ \A t \in Session : /\ lw'[t] # "live"
                            /\ lw[t] \in {"none", "ended"} => lw'[t] = lw[t]
  BY OrphanedFacts
<1>2. TypeRemote'
  BY <1>1 DEF RemoteInv, TypeRemote, Worker, LinkW, supVars
<1>3. RequestedOnce' /\ EventsTrue' /\ OneLiveLink'
  BY <1>1, ZenonT(40) DEF RemoteInv, RequestedOnce, EventsTrue, OneLiveLink, supVars
<1> QED  BY <1>1, <1>2, <1>3, WorkerMoves DEF supVars

\* The loop is over: every liveness actor of the worker ends with it.
LEMMA WorkerOverKeeps ==
    ASSUME RemoteInv, NEW st \in {"stopped", "failed"}, WorkerOver(st),
           UNCHANGED <<bootstrap, supVars, toW, unlinks, returned>>,
           faults' \in 0..MaxFaults, toS' \in [Session -> Seq(Message)],
           \A t \in Session : Contains(toS'[t], "Terminal")
                => Contains(toS[t], "Terminal") \/ child = "ended"
    PROVE  RemoteInv'
<1>1. /\ worker' \in Worker /\ worker'.session = None /\ ~worker'.child
      /\ worker'.status # "absent" /\ events' = <<>>
  BY DEF WorkerOver, RemoteInv, TypeRemote, Worker
<1>2. /\ child' \in {"none", "live", "stopping", "closed", "ended"}
      /\ child' = "none" <=> child = "none"
      /\ child = "ended" => child' = "ended"
  BY DEF WorkerOver, RemoteInv, TypeRemote
<1>3. /\ lw' \in [Session -> LinkW]
      /\ \A t \in Session : lw'[t] # "live" /\ (lw[t] = "none" => lw'[t] = "none")
  BY DEF WorkerOver, LinkW
<1>4. TypeRemote'
  BY <1>1, <1>2, <1>3 DEF RemoteInv, TypeRemote, Worker, LinkW, supVars
<1>5. RequestedOnce' /\ EventsTrue' /\ OneLiveLink'
  BY <1>1, <1>3 DEF RemoteInv, RequestedOnce, EventsTrue, OneLiveLink, supVars
<1> QED  BY <1>1, <1>2, <1>4, <1>5, WorkerMoves DEF supVars

\* The worker fails after its last event, or is stopped from its own side.
LEMMA WorkerEndsKeeps ==
    ASSUME RemoteInv, WorkerFails \/ WorkerStopped
    PROVE  RemoteInv'
<1>1. PICK st \in {"stopped", "failed"} : WorkerOver(st)
  BY DEF WorkerFails, WorkerStopped
<1>2. UNCHANGED <<bootstrap, supVars, toW, toS, unlinks, returned>>
  BY DEF WorkerFails, WorkerStopped
<1>3. Fault \/ UNCHANGED faults
  BY DEF WorkerFails, WorkerStopped
<1>4. faults' \in 0..MaxFaults /\ toS' \in [Session -> Seq(Message)]
  BY <1>2, <1>3, FaultType DEF RemoteInv, TypeRemote
<1> QED  BY <1>1, <1>2, <1>4, WorkerOverKeeps

\* What Send does to the queues of events: no Terminal unless it sends one.
LEMMA SendFacts ==
    ASSUME RemoteInv, NEW s \in Session, NEW m \in Message, Send(s, m)
    PROVE  /\ toS' \in [Session -> Seq(Message)]
           /\ m # "Terminal" => \A t \in Session :
                Contains(toS'[t], "Terminal") => Contains(toS[t], "Terminal")
<1>1. toS \in [Session -> Seq(Message)] /\ toS' = [toS EXCEPT ![s] = Append(@, m)]
  BY DEF RemoteInv, TypeRemote, Send
<1>2. toS[s] \in Seq(Message) /\ Append(toS[s], m) \in Seq(Message)
  BY <1>1, AppendFacts
<1>3. toS' \in [Session -> Seq(Message)]
  BY <1>1, <1>2
<1>4. ASSUME m # "Terminal", NEW t \in Session, Contains(toS'[t], "Terminal")
      PROVE  Contains(toS[t], "Terminal")
  <2>1. CASE t = s
    BY <1>1, <1>2, <1>4, <2>1, NoNewTerminal
  <2>2. CASE t # s
    BY <1>1, <1>4, <2>2
  <2> QED  BY <2>1, <2>2
<1> QED  BY <1>3, <1>4

\* A worker fails over a request it does not take: the session is as it was.
LEMMA WorkerFailingFacts ==
    ASSUME RemoteInv, WorkerFailing(worker.session)
    PROVE  /\ worker' \in Worker /\ worker'.session = worker.session
           /\ worker'.child = worker.child /\ worker'.status # "absent"
           /\ UNCHANGED <<child, events>>
BY DEF WorkerFailing, RemoteInv, TypeRemote, Worker

\* WorkerCommand::Unlink.
LEMMA WorkerUnlinkKeeps ==
    ASSUME RemoteInv, NEW s \in Session, WorkerUnlink(s)
    PROVE  RemoteInv'
<1>1. /\ worker.status = "live" /\ unlinks' \subseteq Session
      /\ UNCHANGED <<bootstrap, supVars, toW, returned, faults>>
  BY DEF WorkerUnlink, RemoteInv, TypeRemote
<1>2. returned' \in [Session -> Nat] /\ s # None /\ "Unlinked" \in Message
  BY <1>1, PolicyAssumption DEF RemoteInv, TypeRemote, Session, None, Message
<1>3. CASE Accepted(s)
  <2>1. worker.session # None /\ Orphaned /\ (Send(s, "Unlinked") \/ UNCHANGED toS)
    BY <1>2, <1>3 DEF WorkerUnlink, Accepted
  <2>2. /\ toS' \in [Session -> Seq(Message)]
        /\ \A t \in Session : Contains(toS'[t], "Terminal") => Contains(toS[t], "Terminal")
    BY <1>2, <2>1, SendFacts DEF RemoteInv, TypeRemote
  <2> QED  BY <1>1, <1>2, <2>1, <2>2, OrphanedKeeps
<1>4. CASE ~Accepted(s)
  <2>1. WorkerFailing(worker.session) /\ UNCHANGED <<toS, lw>>
    BY <1>4 DEF WorkerUnlink
  <2>2. /\ worker' \in Worker /\ worker'.session = worker.session
        /\ worker'.child = worker.child /\ worker'.status # "absent"
        /\ UNCHANGED <<child, events>>
    BY <2>1, WorkerFailingFacts
  <2>3. TypeRemote'
    BY <1>1, <1>2, <2>1, <2>2 DEF RemoteInv, TypeRemote, Worker, supVars
  <2>4. RequestedOnce' /\ EventsTrue' /\ OneLiveLink'
    BY <1>1, <2>1, <2>2 DEF RemoteInv, RequestedOnce, EventsTrue, OneLiveLink, supVars
  <2> QED  BY <1>1, <2>1, <2>2, <2>3, <2>4, WorkerMoves DEF supVars
<1> QED  BY <1>3, <1>4

\* A message of the worker came back.
LEMMA WorkerReturnedKeeps ==
    ASSUME RemoteInv, NEW s \in Session, WorkerReturned(s)
    PROVE  RemoteInv'
<1>1. /\ worker.status = "live" /\ returned[s] > 0
      /\ returned' = [returned EXCEPT ![s] = @ - 1]
      /\ UNCHANGED <<bootstrap, supVars, toW, toS, unlinks, faults>>
  BY DEF WorkerReturned
<1>2. returned \in [Session -> Nat] /\ returned[s] - 1 \in Nat
  BY <1>1 DEF RemoteInv, TypeRemote
<1>3. returned' \in [Session -> Nat]
  BY <1>1, <1>2
<1>4. CASE worker.session = None
  <2>1. UNCHANGED <<worker, lw, child, events>>
    BY <1>4 DEF WorkerReturned
  <2>2. TypeRemote'
    BY <1>1, <1>3, <2>1 DEF RemoteInv, TypeRemote, supVars
  <2>3. RequestedOnce' /\ EventsTrue' /\ OneLiveLink'
    BY <1>1, <2>1 DEF RemoteInv, RequestedOnce, EventsTrue, OneLiveLink, supVars
  <2> QED  BY <1>1, <2>1, <2>2, <2>3, WorkerMoves DEF supVars
<1>5. CASE worker.session # None
  <2>1. Orphaned
    BY <1>5 DEF WorkerReturned
  <2>2. unlinks' \subseteq Session /\ toS' \in [Session -> Seq(Message)]
    BY <1>1 DEF RemoteInv, TypeRemote
  <2> QED  BY <1>1, <1>3, <1>5, <2>1, <2>2, OrphanedKeeps
<1> QED  BY <1>4, <1>5

\* Handler<Spawn>.
LEMMA WorkerSpawnKeeps ==
    ASSUME RemoteInv, WorkerSpawn
    PROVE  RemoteInv'
<1>1. TypeRemote' /\ Status' /\ AbsentEmpty'
  BY DEF RemoteInv, TypeRemote, Status, AbsentEmpty, WorkerSpawn, supVars
<1>2. RequestedOnce' /\ EventsTrue' /\ OneLiveLink' /\ TerminalIsTrue'
  BY DEF RemoteInv, RequestedOnce, EventsTrue, OneLiveLink, TerminalIsTrue, TypeRemote,
         WorkerSpawn, supVars
<1> QED  BY <1>1, <1>2 DEF RemoteInv

\* The next message is read: the request was the first, so none is left.
LEMMA ReadFacts ==
    ASSUME RemoteInv, NEW s \in Session, toW[s] # <<>>, toW' = [toW EXCEPT ![s] = Tail(@)]
    PROVE  /\ toW' \in [Session -> Seq(Request)]
           /\ \A t \in Session \ {s} : toW'[t] = toW[t]
           /\ \A i \in 1..Len(toW'[s]) : toW'[s][i] # "Supervise"
           /\ Head(toW[s]) = "Supervise" => lw[s] = "none"
           /\ sup[s].status # "absent"
<1>1. toW \in [Session -> Seq(Request)] /\ toW[s] \in Seq(Request)
  BY DEF RemoteInv, TypeRemote
<1>2. /\ Tail(toW[s]) \in Seq(Request) /\ Head(toW[s]) = toW[s][1]
      /\ Len(Tail(toW[s])) = Len(toW[s]) - 1 /\ Len(toW[s]) \in Nat \ {0}
      /\ \A i \in 1..(Len(toW[s]) - 1) : Tail(toW[s])[i] = toW[s][i + 1]
  BY <1>1, TailFacts
<1>3. /\ toW' \in [Session -> Seq(Request)] /\ toW'[s] = Tail(toW[s])
      /\ \A t \in Session \ {s} : toW'[t] = toW[t]
  BY <1>1, <1>2
<1>4. \A i \in 1..Len(toW'[s]) : toW'[s][i] # "Supervise"
  BY <1>2, <1>3 DEF RemoteInv, RequestedOnce
<1>5. Head(toW[s]) = "Supervise" => lw[s] = "none"
  BY <1>2 DEF RemoteInv, RequestedOnce
<1> QED  BY <1>3, <1>4, <1>5 DEF RemoteInv, RequestedOnce

\* A request links its session: the liveness actor that starts is the only one,
\* whether the worker was there or is made with its child.
LEMMA LinkKeeps ==
    ASSUME RemoteInv, NEW s \in Session, toW[s] # <<>>, toW' = [toW EXCEPT ![s] = Tail(@)],
           UNCHANGED <<bootstrap, supVars, unlinks, returned, faults, events>>,
           worker.session = None, events = <<>> \/ Head(toW[s]) = "Supervise",
           worker' \in Worker, worker'.status # "absent", worker'.session = s,
           child' # "none", child' \in {child, "live"}, child = "ended" => child' = "ended",
           lw' = [lw EXCEPT ![s] = "live"], Send(s, "Linked")
    PROVE  RemoteInv'
<1>1. /\ toW' \in [Session -> Seq(Request)]
      /\ \A t \in Session \ {s} : toW'[t] = toW[t]
      /\ \A i \in 1..Len(toW'[s]) : toW'[s][i] # "Supervise"
      /\ Head(toW[s]) = "Supervise" => lw[s] = "none"
      /\ sup[s].status # "absent"
  BY ReadFacts
<1>2. /\ toS' \in [Session -> Seq(Message)]
      /\ \A t \in Session : Contains(toS'[t], "Terminal") => Contains(toS[t], "Terminal")
  BY SendFacts DEF Message
<1>3. lw \in [Session -> LinkW] /\ lw' \in [Session -> LinkW] /\ s # None
  <2>1. lw \in [Session -> LinkW] /\ lw' \in [Session -> LinkW]
    BY DEF RemoteInv, TypeRemote, LinkW
  <2>2. s # None
    BY PolicyAssumption DEF Session, None
  <2> QED  BY <2>1, <2>2
<1>4. TypeRemote'
  BY <1>1, <1>2, <1>3 DEF RemoteInv, TypeRemote, LinkW, Worker, supVars
<1>5. Status' /\ AbsentEmpty'
  BY DEF RemoteInv, Status, AbsentEmpty, supVars
<1>6. RequestedOnce'
  BY <1>1, <1>3 DEF RemoteInv, RequestedOnce, supVars
<1>7. EventsTrue'
  <2>1. CASE events = <<>>
    BY <2>1 DEF EventsTrue
  <2>2. CASE Head(toW[s]) = "Supervise"
    BY <1>1, <1>3, <2>2 DEF RemoteInv, EventsTrue
  <2> QED  BY <2>1, <2>2
<1>8. OneLiveLink'
  BY <1>3 DEF RemoteInv, OneLiveLink, Session, None
<1>9. TerminalIsTrue'
  BY <1>2, TerminalKept DEF RemoteInv, supVars
<1> QED  BY <1>4, <1>5, <1>6, <1>7, <1>8, <1>9 DEF RemoteInv

\* A message is read that links nothing: rejected, failed, or a stop.
LEMMA ReadKeeps ==
    ASSUME RemoteInv, NEW s \in Session, toW[s] # <<>>, toW' = [toW EXCEPT ![s] = Tail(@)],
           UNCHANGED <<bootstrap, supVars, unlinks, returned, faults, events, lw>>,
           worker' \in Worker, worker'.status # "absent",
           worker'.child => worker.child \/ child' # "none",
           worker'.session = worker.session,
           child' \in {"none", "live", "stopping", "closed", "ended"},
           child' = "none" => child = "none", child = "ended" => child' = "ended",
           Send(s, "SuperviseRejected") \/ UNCHANGED toS
    PROVE  RemoteInv'
<1>1. toW' \in [Session -> Seq(Request)] /\ \A t \in Session \ {s} : toW'[t] = toW[t]
  BY ReadFacts
<1>2. /\ toS' \in [Session -> Seq(Message)]
      /\ \A t \in Session : Contains(toS'[t], "Terminal") => Contains(toS[t], "Terminal")
  BY SendFacts DEF Message, RemoteInv, TypeRemote
<1>3. TypeRemote'
  BY <1>1, <1>2 DEF RemoteInv, TypeRemote, Worker, supVars
<1>4. RequestedOnce'
  <2>1. toW'[s] = Tail(toW[s])
    BY DEF RemoteInv, TypeRemote
  <2> QED  BY <1>1, <2>1, RequestedKept DEF RemoteInv, supVars
<1>5. EventsTrue' /\ OneLiveLink'
  BY DEF RemoteInv, EventsTrue, OneLiveLink
<1> QED  BY <1>2, <1>3, <1>4, <1>5, WorkerMoves DEF supVars

\* The next message of a session reaches the worker, or the spawner.
LEMMA WorkerReceiveKeeps ==
    ASSUME RemoteInv, NEW s \in Session, WorkerReceive(s)
    PROVE  RemoteInv'
<1>1. /\ toW[s] # <<>> /\ toW' = [toW EXCEPT ![s] = Tail(@)]
      /\ UNCHANGED <<bootstrap, supVars, unlinks, returned, faults>>
  BY DEF WorkerReceive
<1>2. worker \in Worker /\ child \in {"none", "live", "stopping", "closed", "ended"}
  BY DEF RemoteInv, TypeRemote, Worker
<1>3. CASE worker.status = "absent" /\ SpawnAndSupervise(s)
  <2>1. worker.session = None /\ events = <<>> /\ child = "none"
    BY <1>3 DEF RemoteInv, AbsentEmpty
  <2>2. CASE /\ child' = "live"
             /\ worker' = [status |-> "live", child |-> TRUE, session |-> s]
             /\ lw' = [lw EXCEPT ![s] = "live"]
             /\ Send(s, "Linked")
             /\ UNCHANGED events
    <3>1. worker' \in Worker /\ worker'.session = s /\ worker'.status # "absent"
      BY <2>2 DEF Worker
    <3> QED  BY <1>1, <2>1, <2>2, <3>1, LinkKeeps
  <2>3. CASE /\ worker' = [worker EXCEPT !.status = "stopped"]
             /\ Send(s, "SuperviseRejected")
             /\ UNCHANGED <<child, lw, events>>
    <3>1. /\ worker' \in Worker /\ worker'.session = worker.session
          /\ worker'.child = worker.child /\ worker'.status # "absent"
      BY <1>2, <2>3 DEF Worker
    <3> QED  BY <1>1, <1>2, <2>3, <3>1, ReadKeeps
  <2>4. CASE /\ child' = "live"
             /\ worker' = [status |-> "failing", child |-> TRUE, session |-> None]
             /\ UNCHANGED <<toS, lw, events>>
    <3>1. /\ worker' \in Worker /\ worker'.session = worker.session
          /\ worker'.status # "absent"
      BY <2>1, <2>4 DEF Worker
    <3> QED  BY <1>1, <2>1, <2>4, <3>1, ReadKeeps
  <2> QED  BY <1>3, <2>2, <2>3, <2>4 DEF SpawnAndSupervise
<1>4. CASE worker.status = "live" /\ Head(toW[s]) = "Supervise" /\ Supervise(s)
  <2>1. CASE Send(s, "SuperviseRejected") /\ UNCHANGED <<worker, lw, child, events>>
    BY <1>1, <1>2, <1>4, <2>1, ReadKeeps
  <2>2. CASE /\ worker.session = None /\ worker.child
             /\ lw' = [lw EXCEPT ![s] = "live"] /\ worker' = [worker EXCEPT !.session = s]
             /\ Send(s, "Linked") /\ UNCHANGED <<child, events>>
    <3>1. worker' \in Worker /\ worker'.session = s /\ worker'.status # "absent"
      BY <1>2, <1>4, <2>2 DEF Worker
    <3>2. child # "none"
      BY <2>2 DEF RemoteInv, Status
    <3> QED  BY <1>1, <1>4, <2>2, <3>1, <3>2, LinkKeeps
  <2>3. CASE worker.session = None /\ WorkerFailing(None) /\ UNCHANGED <<toS, lw>>
    <3>1. /\ worker' \in Worker /\ worker'.session = worker.session
          /\ worker'.child = worker.child /\ worker'.status # "absent"
          /\ UNCHANGED <<child, events>>
      BY <1>2, <2>3 DEF WorkerFailing, Worker
    <3> QED  BY <1>1, <1>2, <2>3, <3>1, ReadKeeps
  <2> QED  BY <1>4, <2>1, <2>2, <2>3 DEF Supervise
<1>5. CASE /\ worker.status = "live" /\ UNCHANGED <<toS, lw>>
           /\ IF Accepted(s) THEN StopChild(s) ELSE WorkerFailing(worker.session)
  <2>1. /\ worker' \in Worker /\ worker'.session = worker.session
        /\ worker'.child = worker.child
        /\ worker'.status # "absent" /\ events' = events
        /\ child' \in {"none", "live", "stopping", "closed", "ended"}
        /\ child' = "none" <=> child = "none"
        /\ child = "ended" => child' = "ended"
    <3>1. CASE Accepted(s)
      BY <1>5, <3>1, StopChildFacts DEF Accepted
    <3>2. CASE ~Accepted(s)
      BY <1>2, <1>5, <3>2, WorkerFailingFacts
    <3> QED  BY <3>1, <3>2
  <2> QED  BY <1>1, <1>5, <2>1, ReadKeeps
<1> QED  BY <1>3, <1>4, <1>5 DEF WorkerReceive

\* The first event is taken from the worker's queue.
LEMMA EventTaken ==
    ASSUME RemoteInv, events # <<>>
    PROVE  /\ Tail(events) \in Seq(Event) /\ Head(events) \in Event
           /\ Head(events).who = Child => child = "ended"
           /\ \A t \in Session : Head(events).who = t => lw[t] = "ended"
           /\ (events' = Tail(events) /\ lw' = lw /\ (child = "ended" => child' = "ended"))
                => EventsTrue'
<1>1. events \in Seq(Event)
  BY DEF RemoteInv, TypeRemote, Event
<1>2. /\ Tail(events) \in Seq(Event) /\ Head(events) \in Event /\ Head(events) = events[1]
      /\ Len(Tail(events)) = Len(events) - 1 /\ Len(events) \in Nat \ {0}
      /\ \A i \in 1..(Len(events) - 1) : Tail(events)[i] = events[i + 1]
  BY <1>1, TailFacts
<1>3. /\ Head(events).who = Child => child = "ended"
      /\ \A t \in Session : Head(events).who = t => lw[t] = "ended"
  BY <1>2 DEF RemoteInv, EventsTrue
<1>4. ASSUME events' = Tail(events), lw' = lw, child = "ended" => child' = "ended"
      PROVE  EventsTrue'
  BY <1>2, <1>4 DEF RemoteInv, EventsTrue
<1> QED  BY <1>2, <1>3, <1>4

\* handle_liveness_event: the actor whose event it is has ended, so the session
\* goes without leaving one behind.
LEMMA LivenessEventKeeps ==
    ASSUME RemoteInv, worker.status \in {"live", "failing"}, events # <<>>,
           IsLivenessEvent(Head(events).who), LivenessEvent,
           UNCHANGED <<bootstrap, supVars, toW, unlinks, returned, faults>>
    PROVE  RemoteInv'
<1>1. /\ Tail(events) \in Seq(Event) /\ Head(events) \in Event
      /\ \A t \in Session : Head(events).who = t => lw[t] = "ended"
  BY EventTaken
<1>2. worker.session \in Session /\ worker.session # None
  BY <1>1, PolicyAssumption
     DEF IsLivenessEvent, RemoteInv, TypeRemote, Event, Session, None, Child
<1>3. lw[worker.session] = "ended"
  BY <1>1, <1>2 DEF IsLivenessEvent
<1>4. /\ toS' \in [Session -> Seq(Message)]
      /\ \A t \in Session : Contains(toS'[t], "Terminal") => Contains(toS[t], "Terminal")
  BY <1>2, SendFacts DEF LivenessEvent, Message, RemoteInv, TypeRemote
<1>5. events' = Tail(events) /\ UNCHANGED lw
  BY DEF LivenessEvent
<1>6. /\ worker' \in Worker /\ worker'.session = None /\ worker'.child = worker.child
      /\ worker'.status # "absent"
      /\ child' \in {"none", "live", "stopping", "closed", "ended"}
      /\ child' = "none" <=> child = "none"
      /\ child = "ended" => child' = "ended"
  <2>1. worker \in Worker /\ child \in {"live", "stopping", "closed", "ended"}
    BY <1>2 DEF RemoteInv, TypeRemote, Status, Worker
  <2>2. CASE OrphanPolicy = "Stop" /\ worker.child /\ child \in {"closed", "ended"}
    BY <2>1, <2>2 DEF LivenessEvent, Worker
  <2>3. CASE OrphanPolicy = "Stop" /\ worker.child /\ child \notin {"closed", "ended"}
    BY <2>1, <2>3 DEF LivenessEvent, Worker
  <2>4. CASE ~(OrphanPolicy = "Stop" /\ worker.child)
    BY <2>1, <2>4 DEF LivenessEvent, Worker
  <2> QED  BY <2>2, <2>3, <2>4
<1>7. EventsTrue'
  BY <1>5, <1>6, EventTaken
<1>8. TypeRemote'
  BY <1>1, <1>4, <1>5, <1>6 DEF RemoteInv, TypeRemote, Worker, Event, supVars
<1>9. RequestedOnce' /\ OneLiveLink'
  BY <1>2, <1>3, <1>5 DEF RemoteInv, RequestedOnce, OneLiveLink, supVars
<1> QED  BY <1>4, <1>6, <1>7, <1>8, <1>9, WorkerMoves DEF supVars

\* The child's event: its end is reported, and the worker is done.
LEMMA ChildEventKeeps ==
    ASSUME RemoteInv, worker.status \in {"live", "failing"}, events # <<>>,
           IsChildEvent(Head(events).who), ChildEvent,
           UNCHANGED <<bootstrap, supVars, toW, unlinks, returned, faults>>
    PROVE  RemoteInv'
<1>1. Tail(events) \in Seq(Event) /\ child = "ended"
  BY EventTaken DEF IsChildEvent
<1>2. toS' \in [Session -> Seq(Message)]
  <2>1. worker.session # None => worker.session \in Session
    BY DEF RemoteInv, TypeRemote
  <2> QED  BY <2>1, SendFacts DEF ChildEvent, Message, RemoteInv, TypeRemote
<1>3. CASE worker.status = "live"
  <2>1. WorkerOver("stopped") /\ faults' \in 0..MaxFaults
    BY <1>3 DEF ChildEvent, RemoteInv, TypeRemote
  <2> QED  BY <1>1, <1>2, <2>1, WorkerOverKeeps
<1>4. CASE worker.status # "live"
  <2>1. /\ worker' = [worker EXCEPT !.child = FALSE]
        /\ events' = Tail(events) /\ UNCHANGED <<child, lw>>
    BY <1>4 DEF ChildEvent
  <2>2. /\ worker' \in Worker /\ worker'.session = worker.session /\ ~worker'.child
        /\ worker'.status # "absent"
    BY <2>1 DEF RemoteInv, TypeRemote, Worker
  <2>3. EventsTrue'
    BY <2>1, EventTaken
  <2>4. TypeRemote'
    BY <1>1, <1>2, <2>1, <2>2 DEF RemoteInv, TypeRemote, Worker, Event, supVars
  <2>5. RequestedOnce' /\ OneLiveLink'
    BY <2>1, <2>2 DEF RemoteInv, RequestedOnce, OneLiveLink, supVars
  <2> QED  BY <1>1, <2>1, <2>2, <2>3, <2>4, <2>5, WorkerMoves DEF supVars
<1> QED  BY <1>3, <1>4

\* An event of neither: absorbed, or the end of the worker.
LEMMA StrayEventKeeps ==
    ASSUME RemoteInv, worker.status \in {"live", "failing"}, events # <<>>, StrayEvent,
           UNCHANGED <<bootstrap, supVars, toW, unlinks, returned, faults>>
    PROVE  RemoteInv'
<1>1. UNCHANGED toS /\ toS' \in [Session -> Seq(Message)] /\ faults' \in 0..MaxFaults
  BY DEF StrayEvent, RemoteInv, TypeRemote
<1>2. CASE WorkerOver("failed")
  BY <1>1, <1>2, WorkerOverKeeps
<1>3. CASE events' = Tail(events) /\ UNCHANGED <<worker, child, lw>>
  <2>1. Tail(events) \in Seq(Event) /\ EventsTrue'
    BY <1>3, EventTaken
  <2>2. TypeRemote'
    BY <1>1, <1>3, <2>1 DEF RemoteInv, TypeRemote, Event, supVars
  <2>3. RequestedOnce' /\ OneLiveLink'
    BY <1>3 DEF RemoteInv, RequestedOnce, OneLiveLink, supVars
  <2> QED  BY <1>1, <1>3, <2>1, <2>2, <2>3, WorkerMoves DEF supVars
<1> QED  BY <1>2, <1>3 DEF StrayEvent

\* The worker handles its next supervision event.
LEMMA WorkerEventKeeps ==
    ASSUME RemoteInv, WorkerEvent
    PROVE  RemoteInv'
BY LivenessEventKeeps, ChildEventKeeps, StrayEventKeeps DEF WorkerEvent

-----------------------------------------------------------------------------
(* The theorems.                                                            *)

\* Every step keeps the invariant.
LEMMA RemoteInvStep ==
    ASSUME RemoteInv, [Next]_vars
    PROVE  RemoteInv'
<1>1. ASSUME NEW s \in Session, SupStep(s) \/ WorkerStep(s) \/ Environment(s)
      PROVE  RemoteInv'
  BY <1>1, SupReceiveKeeps, SupGoneKeeps, WorkerReceiveKeeps, WorkerUnreachableKeeps,
     WorkerReturnedKeeps, WorkerUnlinkKeeps, SupInitKeeps, SupHandleStopKeeps,
     LinkOrUnlinkKeeps
     DEF SupStep, WorkerStep, Environment
<1>2. ASSUME NEW s \in Session, LsFails(s) \/ LwFails(s) \/ LwStops(s)
      PROVE  RemoteInv'
  BY <1>2, LinkOrUnlinkKeeps, LwEndsKeeps
<1>3. CASE ChildCloses \/ ChildReports
  BY <1>3, ChildEndsKeeps
<1>4. CASE WorkerSpawn \/ WorkerEvent \/ WorkerFails \/ WorkerStopped
  BY <1>4, WorkerSpawnKeeps, WorkerEventKeeps, WorkerEndsKeeps
<1>5. CASE UNCHANGED vars
  BY <1>5 DEF vars, RemoteInv, TypeRemote, Status, RequestedOnce, EventsTrue, AbsentEmpty,
     OneLiveLink, TerminalIsTrue
<1> QED  BY <1>1, <1>2, <1>3, <1>4, <1>5 DEF Next

\* The invariant holds from the start and through every step, whatever the
\* supervisors, the child and the liveness actors do.
THEOREM RemoteInvariant == Spec => []RemoteInv
<1>1. Init => RemoteInv
  <2> SUFFICES ASSUME Init PROVE RemoteInv
    OBVIOUS
  <2>1. TypeRemote /\ Status
    BY PolicyAssumption DEF Init, NewSup, TypeRemote, Status, Supervisor, Outcome, Link, None
  <2>2. RequestedOnce /\ EventsTrue /\ AbsentEmpty /\ OneLiveLink /\ TerminalIsTrue
    BY DEF Init, NewSup, RequestedOnce, EventsTrue, AbsentEmpty, OneLiveLink, TerminalIsTrue,
       Contains
  <2> QED  BY <2>1, <2>2 DEF RemoteInv
<1>2. RemoteInv /\ [Next]_vars => RemoteInv'
  BY RemoteInvStep
<1> QED  BY <1>1, <1>2, PTL DEF Spec

\* The types of the supervisors, the worker, the child and the queues, and that
\* a supervisor has an outcome exactly when it has ended.
THEOREM RemoteTypes == Spec => []TypeOK
<1>1. RemoteInv => TypeOK
  BY DEF RemoteInv, TypeRemote, Status, TypeOK, Supervisor, Outcome, Message, Link, Request
<1> QED  BY <1>1, RemoteInvariant, PTL

\* The worker keeps one session alive at most: no liveness actor ticks for a
\* session it has given up (SupervisedChild's session and KeepaliveWorker).
THEOREM OneLink == Spec => []OneLiveLink
<1>1. RemoteInv => OneLiveLink
  BY DEF RemoteInv
<1> QED  BY <1>1, RemoteInvariant, PTL

\* A supervisor that is told, or was told, Terminal has a child that has ended
\* (SupervisorEvent::Terminal).
THEOREM TerminalTrue == Spec => []TerminalIsTrue
<1>1. RemoteInv => TerminalIsTrue
  BY DEF RemoteInv
<1> QED  BY <1>1, RemoteInvariant, PTL

=============================================================================
