--------------------------- MODULE MCEventStream ----------------------------
(***************************************************************************)
(* EventStream with concrete chains.                                       *)
(***************************************************************************)
EXTENDS EventStream

CONSTANTS s1, s2

On(s, b) == [sub |-> s, block |-> b]

(* Two subscriptions, one event of each in a block.                        *)
TwoSubs == <<On(s1, 1), On(s2, 1), On(s1, 2)>>

(* One event in each of two blocks, and of three.                         *)
TwoBlocks == <<On(s1, 1), On(s1, 2)>>

OnePerBlock == <<On(s1, 1), On(s1, 2), On(s1, 3)>>

=============================================================================
