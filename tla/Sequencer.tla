------------------------------ MODULE Sequencer ------------------------------
(***************************************************************************)
(* Send-side sequencing (hyperactor::ordering::Sequencer): the clones of   *)
(* one Sequencer share a map from destination to the last sequence number, *)
(* under a mutex.  assign_seq numbers one message; assign_seqs numbers a   *)
(* list of destinations and encodes the numbers as runs, taking the mutex  *)
(* for one chunk of the list at a time, so that other tasks come between.  *)
(* The loop over a chunk is a step per destination with the mutex held.    *)
(***************************************************************************)
EXTENDS Integers, SequencesExt

CONSTANTS
  Task,        \* tasks with a clone of the Sequencer
  Key,         \* sequence keys: actors and ephemeral ports
  MaxLocked,   \* SEQUENCER_MAX_LOCKED_KEYS
  MaxKeys,     \* bound: destinations of one call of assign_seqs
  MaxAssigned  \* bound: numbers assigned before the last calls

ASSUME SequencerAssumption ==
  MaxLocked \in Nat \ {0} /\ MaxKeys \in Nat /\ MaxAssigned \in Nat

VARIABLES
  lastSeqs,  \* last_seqs, 0 for an absent key
  call,      \* call[t]: the local variables of t's call of assign_seqs
  handed,    \* history: every number that was assigned, in order
  took       \* history: the places in handed of what t's call has assigned

sendVars == <<lastSeqs, call, handed, took>>

\* run_start, prev (0 for None), ordinal and runs as assign_seqs starts, its
\* argument keys, and where the chunk ends whose guard is held.
Locals(keys, at) == [keys |-> keys, at |-> at, end |-> 0, start |-> 0, prev |-> 0,
                     ordinal |-> 0, runs |-> <<>>]
Idle == Locals(<<>>, "idle")

Run(from, to, n) == [from |-> from, to |-> to, seq |-> n]

SendInit ==
  /\ lastSeqs = [k \in Key |-> 0]
  /\ call = [t \in Task |-> Idle]
  /\ handed = <<>> /\ took = [t \in Task |-> <<>>]

\* Nobody holds the mutex over a chunk.
Unlocked == \A t \in Task : call[t].at # "locked"

\* Mutant of NextNumber: an entry that is there is not advanced.
SameNumber(k) == IF lastSeqs[k] = 0 THEN 1 ELSE lastSeqs[k]

\* The entry of the key, advanced; 1 for a key that has none.
NextNumber(k) == lastSeqs[k] + 1

\* The number is entered in the map and handed out.
Assign(t, k) ==
  /\ lastSeqs' = [lastSeqs EXCEPT ![k] = NextNumber(k)]
  /\ handed' = Append(handed, [task |-> t, key |-> k, seq |-> NextNumber(k)])

\* Sequencer::assign_seq.
AssignSeq(t, k) ==
  /\ call[t].at = "idle" /\ Unlocked /\ Len(handed) < MaxAssigned
  /\ Assign(t, k)
  /\ UNCHANGED <<call, took>>

\* Sequencer::assign_seqs is called.
AssignSeqs(t, keys) ==
  /\ call[t].at = "idle" /\ Len(handed) + Len(keys) <= MaxAssigned
  /\ call' = [call EXCEPT ![t] = Locals(keys, "chunks")]
  /\ UNCHANGED <<lastSeqs, handed, took>>

\* keys.chunks(SEQUENCER_MAX_LOCKED_KEYS): where the next chunk ends.
ChunkEnd(c) == IF c.ordinal + MaxLocked < Len(c.keys) THEN c.ordinal + MaxLocked
                                                      ELSE Len(c.keys)

\* The guard of the next chunk is taken.
Lock(t) ==
  /\ call[t].at = "chunks" /\ call[t].ordinal < Len(call[t].keys) /\ Unlocked
  /\ call' = [call EXCEPT ![t].at = "locked", ![t].end = ChunkEnd(call[t])]
  /\ UNCHANGED <<lastSeqs, handed, took>>

\* Mutant of Flushed: the run is closed one index late.
FlushedLate(c, n) ==
  IF c.prev # 0 /\ c.prev # n
    THEN [c EXCEPT !.runs = Append(@, Run(c.start, c.ordinal + 1, c.prev)),
                   !.start = c.ordinal + 1]
    ELSE c

\* A number that differs from the one before closes the run.
Flushed(c, n) ==
  IF c.prev # 0 /\ c.prev # n
    THEN [c EXCEPT !.runs = Append(@, Run(c.start, c.ordinal, c.prev)),
                   !.start = c.ordinal]
    ELSE c

\* The body of the loop over a chunk.
NumberKey(t) ==
  LET c == call[t]
      k == c.keys[c.ordinal + 1]
      n == NextNumber(k)
  IN  /\ c.at = "locked" /\ c.ordinal < c.end
      /\ Assign(t, k)
      /\ call' = [call EXCEPT ![t] = [Flushed(c, n) EXCEPT !.prev = n,
                                                           !.ordinal = @ + 1]]
      /\ took' = [took EXCEPT ![t] = Append(@, Len(handed) + 1)]

\* The guard is dropped at the end of the chunk.
Unlock(t) ==
  /\ call[t].at = "locked" /\ call[t].ordinal >= call[t].end
  /\ call' = [call EXCEPT ![t].at = "chunks"]
  /\ UNCHANGED <<lastSeqs, handed, took>>

\* The last run is closed and the runs are returned.
Finish(t) ==
  LET c == call[t]
  IN  /\ c.at = "chunks" /\ c.ordinal >= Len(c.keys)
      /\ call' = [call EXCEPT ![t] =
           [c EXCEPT !.at = "done",
                     !.runs = IF c.prev = 0 THEN @
                              ELSE Append(@, Run(c.start, Len(c.keys), c.prev))]]
      /\ UNCHANGED <<lastSeqs, handed, took>>

\* The caller has used the runs.
Use(t) == /\ call[t].at = "done"
          /\ call' = [call EXCEPT ![t] = Idle]
          /\ took' = [took EXCEPT ![t] = <<>>]
          /\ UNCHANGED <<lastSeqs, handed>>

SendNext ==
  \E t \in Task : \/ \E k \in Key : AssignSeq(t, k)
                  \/ \E keys \in BoundedSeq(Key, MaxKeys) : AssignSeqs(t, keys)
                  \/ Lock(t) \/ NumberKey(t) \/ Unlock(t)
                  \/ Finish(t) \/ Use(t)

SendSpec == SendInit /\ [][SendNext]_sendVars

-----------------------------------------------------------------------------
\* The locals of assign_seqs stay in range: runs never leave the list.
SendTypeOK ==
  /\ lastSeqs \in [Key -> Nat]
  /\ handed \in Seq([task : Task, key : Key, seq : Nat])
  /\ \A t \in Task :
       /\ call[t].keys \in Seq(Key)
       /\ call[t].at \in {"idle", "chunks", "locked", "done"}
       /\ call[t].ordinal \in 0..Len(call[t].keys)
       /\ call[t].end \in 0..Len(call[t].keys)
       /\ call[t].start \in 0..call[t].ordinal /\ call[t].prev \in Nat
       /\ took[t] \in Seq(Nat)

\* The numbers of a key, over all clones and however their calls interleave,
\* are 1, 2, 3, ... in the order of assignment: what the receiver counts on.
Gapless ==
  \A k \in Key :
    LET of == {i \in DOMAIN handed : handed[i].key = k}
    IN  /\ {handed[i].seq : i \in of} = 1..lastSeqs[k]
        /\ \A i, j \in of : i < j => handed[i].seq < handed[j].seq

\* "The ordered ranges cover 0..keys.len() without gaps", also when the call
\* was interrupted between chunks.
RunsCover ==
  \A t \in Task : call[t].at = "done" =>
    LET c == call[t]
    IN  IF c.keys = <<>> THEN c.runs = <<>>
        ELSE /\ c.runs # <<>>
             /\ c.runs[1].from = 0 /\ c.runs[Len(c.runs)].to = Len(c.keys)
             /\ \A i \in DOMAIN c.runs : c.runs[i].from < c.runs[i].to
             /\ \A i \in 1..(Len(c.runs) - 1) : c.runs[i].to = c.runs[i + 1].from

\* "Each (range, seq) assigns seq to the input indexes in range": decoding the
\* runs gives each destination the very number that was handed out for it, and
\* in the order of the list.
RunsDecode ==
  \A t \in Task : call[t].at = "done" =>
    LET c == call[t]
    IN  /\ Len(took[t]) = Len(c.keys)
        /\ \A i, j \in DOMAIN took[t] : i < j => took[t][i] < took[t][j]
        /\ \A i \in DOMAIN c.runs : \A j \in (c.runs[i].from + 1)..c.runs[i].to :
             handed[took[t][j]]
               = [task |-> t, key |-> c.keys[j], seq |-> c.runs[i].seq]

\* The runs assign_seqs returns are the numbers it took: no destination is left
\* out or named twice, and each gets the number handed out for it, although
\* other clones take numbers between two chunks.
RunsExact == RunsCover /\ RunsDecode
=============================================================================
