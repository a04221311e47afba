---------------------------- MODULE StepBarrier ----------------------------
(***************************************************************************)
(* What a test may assume of StepThreadRunner (common/catch/utils/include/ *)
(* step-thread-runner.hpp): rounds.  DoStep opens a round and closes it    *)
(* after every worker has called its function exactly once in it; between  *)
(* two rounds, and after the last, no worker is inside its function.       *)
(***************************************************************************)
EXTENDS Naturals

CONSTANT Worker

VARIABLES
  round,   \* how many rounds have been opened
  phase,   \* "between" two rounds, one is "running", or all are "over"
  inside,  \* the workers inside their function
  ran      \* ran[w]: how many times w has returned from its function

vars == <<round, phase, inside, ran>>

Init ==
  /\ round = 0
  /\ phase = "between"
  /\ inside = {}
  /\ ran = [w \in Worker |-> 0]

OpenRound ==
  /\ phase = "between"
  /\ round' = round + 1
  /\ phase' = "running"
  /\ UNCHANGED <<inside, ran>>

Call(w) ==
  /\ phase = "running" /\ w \notin inside /\ ran[w] < round
  /\ inside' = inside \cup {w}
  /\ UNCHANGED <<round, phase, ran>>

Return(w) ==
  /\ w \in inside
  /\ inside' = inside \ {w}
  /\ ran' = [ran EXCEPT ![w] = @ + 1]
  /\ UNCHANGED <<round, phase>>

(* DoStep returns true, or false for the last round.                       *)
CloseRound ==
  /\ phase = "running"
  /\ inside = {} /\ \A w \in Worker : ran[w] = round
  /\ phase' \in {"between", "over"}
  /\ UNCHANGED <<round, inside, ran>>

Next == OpenRound \/ CloseRound \/ \E w \in Worker : Call(w) \/ Return(w)

Spec == Init /\ [][Next]_vars
=============================================================================
