--------------------------- MODULE MCStepRunner ---------------------------
(* Instances of StepRunner for TLC: the producer and the consumer of the   *)
(* contract and limbo tests, where f of the consumer waits for f of the    *)
(* producer of the same step; a third worker is independent.               *)
EXTENDS StepRunner

CONSTANTS producer, consumer, other

MCNeeds == [w \in Worker |-> IF w = consumer THEN {producer} ELSE {}]
===========================================================================
