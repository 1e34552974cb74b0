--------------------------- MODULE MCKafkaBridge ---------------------------
(***************************************************************************)
(* KafkaBridge with a concrete malformed request.                          *)
(***************************************************************************)
EXTENDS KafkaBridge

(* The last request of one partition cannot be parsed.                     *)
OneMalformed ==
  {[partition |-> CHOOSE p \in Partition : TRUE, offset |-> LogEnd - 1]}

=============================================================================
