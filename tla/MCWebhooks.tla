----------------------------- MODULE MCWebhooks -----------------------------
(* An instance of Webhooks for TLC.  More requests are handed to the       *)
(* processor, where each takes few steps, than are sent over Kafka, so     *)
(* that a client can page through their receipts while more come in.       *)
EXTENDS Webhooks

CONSTANTS r1, r2, r3

TwoOrThree == [m \in Mode |-> IF m = "kafka" THEN <<r1, r2>> ELSE <<r1, r2, r3>>]
Limits == [m \in Mode |-> IF m = "kafka" THEN {2} ELSE {2, 3}]
DirectMemory == {<<"direct", "memory">>}

=============================================================================
