--------------------------- MODULE OrderedDelivery ---------------------------
(***************************************************************************)
(* What receive-side sequencing promises: for each session the messages    *)
(* are released in the order of their sequence numbers, which start at 1,  *)
(* each once and none skipped; a message that came early waits, and is     *)
(* released in the same step as the last message it waited for.            *)
(***************************************************************************)
EXTENDS Integers, Sequences

CONSTANTS Session, MaxSeq   \* bound: the largest sequence number

VARIABLES
  expected,  \* expected[s]: the next sequence number to release
  waiting,   \* waiting[s]: those that came early
  released   \* released[s]: what was released, in order

Seqs == 1..MaxSeq

Init == /\ expected = [s \in Session |-> 1]
        /\ waiting = [s \in Session |-> {}]
        /\ released = [s \in Session |-> <<>>]

Accept(s, q) ==
  /\ q >= expected[s]
  /\ LET have == waiting[s] \cup {q}
     IN  \E n \in expected[s]..(MaxSeq + 1) :
           /\ expected[s]..(n - 1) \subseteq have /\ n \notin have
           /\ expected' = [expected EXCEPT ![s] = n]
           /\ waiting' = [waiting EXCEPT ![s] = have \ expected[s]..(n - 1)]
           /\ released' = [released EXCEPT ![s] =
                @ \o [i \in 1..(n - expected[s]) |-> expected[s] + i - 1]]

Spec == /\ Init
        /\ [][\E s \in Session, q \in Seqs : Accept(s, q)]_<<expected, waiting,
                                                           released>>
=============================================================================
