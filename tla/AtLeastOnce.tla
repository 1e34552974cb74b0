---------------------------- MODULE AtLeastOnce ----------------------------
(***************************************************************************)
(* What the Kafka side of the bridge promises to whoever submits requests: *)
(* every request on the input topic is answered on the output topic before *)
(* the consumer group gives up its right to read that request again.       *)
(*                                                                         *)
(* Nothing is said of how often a request is answered: redelivery after a  *)
(* rebalance or a restart may answer it more than once.                    *)
(***************************************************************************)
EXTENDS Naturals

CONSTANTS
  Partition,  \* the partitions of the input topic
  LogEnd      \* every partition holds the requests at offsets 0 .. LogEnd-1

VARIABLES
  committed,  \* committed[p]: first offset of p the group will read again
  replies     \* the requests that have an answer on the output topic

vars == <<committed, replies>>

Msg == [partition : Partition, offset : 0 .. LogEnd - 1]

(***************************************************************************)
(* Every request of p below offset n has been answered.                    *)
(***************************************************************************)
AnsweredBelow(p, n) ==
  \A m \in Msg : m.partition = p /\ m.offset < n => m \in replies

Init ==
  /\ committed = [p \in Partition |-> 0]
  /\ replies = {}

Answer(m) ==
  /\ replies' = replies \cup {m}
  /\ UNCHANGED committed

Commit(p, n) ==
  /\ AnsweredBelow(p, n)
  /\ committed' = [committed EXCEPT ![p] = n]
  /\ UNCHANGED replies

Next ==
  \/ \E m \in Msg : Answer(m)
  \/ \E p \in Partition, n \in 0 .. LogEnd : Commit(p, n)

Spec == Init /\ [][Next]_vars

=============================================================================
