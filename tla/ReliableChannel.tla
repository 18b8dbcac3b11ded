--------------------------- MODULE ReliableChannel ---------------------------
(***************************************************************************)
(* What one ChannelTx promises while its server stays up: the messages     *)
(* posted on it arrive in the order of the posts, each at most once and    *)
(* with none left out; a post is reported as accepted only after it has    *)
(* arrived, and posts are accepted in order; when the channel closes,      *)
(* every post that has no report yet is rejected, and so is every later    *)
(* post.  A rejected message may have arrived, or may still arrive.        *)
(***************************************************************************)
EXTENDS Integers, Sequences

CONSTANT MaxPosts   \* bound: messages posted

VARIABLES
  posted,   \* how many messages were posted
  arrived,  \* the messages that reached the receiver's queue, in order
  outcome,  \* what was reported for each message
  open      \* posts are still taken

Msg == 1..MaxPosts

Init == /\ posted = 0 /\ arrived = <<>> /\ open = TRUE
        /\ outcome = [m \in Msg |-> "pending"]

Post == /\ posted < MaxPosts /\ posted' = posted + 1
        /\ outcome' = IF open THEN outcome
                      ELSE [outcome EXCEPT ![posted + 1] = "rejected"]
        /\ UNCHANGED <<arrived, open>>

Arrive == /\ Len(arrived) < posted
          /\ arrived' = Append(arrived, Len(arrived) + 1)
          /\ UNCHANGED <<posted, outcome, open>>

\* Everything up to the n-th message is accepted, no more than has arrived.
Accept == /\ open
          /\ \E n \in 0..Len(arrived) :
               outcome' = [m \in Msg |-> IF m <= n THEN "accepted"
                                                   ELSE outcome[m]]
          /\ UNCHANGED <<posted, arrived, open>>

Close == /\ open /\ open' = FALSE
         /\ outcome' = [m \in Msg |->
                          IF m <= posted /\ outcome[m] = "pending"
                            THEN "rejected" ELSE outcome[m]]
         /\ UNCHANGED <<posted, arrived>>

Next == Post \/ Arrive \/ Accept \/ Close

Spec == Init /\ [][Next]_<<posted, arrived, outcome, open>>
=============================================================================
