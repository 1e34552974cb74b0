--------------------------- MODULE MCStreamManager ---------------------------
(* The subscription manager on a small instance.                           *)
EXTENDS StreamManager

CONSTANTS a, x, y

OnA == [s \in Sub |-> a]
=============================================================================
