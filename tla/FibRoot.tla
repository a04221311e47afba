------------------------------ MODULE FibRoot ------------------------------
(***************************************************************************)
(* tasks/01-basic-io/fib-root: a table of Fibonacci numbers in an unsigned *)
(* type, filled until a sum wraps around, in which the root of each number *)
(* of the input is looked up.  limit is 2^64 in the code.  Element i of    *)
(* sequence_ is sequence[i + 1] here.  How stdin is read, and stdout       *)
(* written, is left out.                                                   *)
(***************************************************************************)
EXTENDS Integers, Sequences, FiniteSets

CONSTANTS
  Limits,      \* the sizes of the type T that are tried
  MaxNumbers   \* bound on the numbers of the input

LimitsAssumption == \A n \in Limits : n \in Nat /\ n >= 4

VARIABLES
  limit,
  input,      \* what stdin holds, as numbers; the signed type may refuse one
  sequence,   \* sequence_
  fpc,        \* "fill", "answer" or "end"
  answers     \* the roots in out

rootVars == <<limit, input, sequence, fpc, answers>>

(* The numbers that fit into the signed type, the task asking for positive *)
(* ones, and the least that does not.                                      *)
Number == 0 .. limit \div 2
Fits(x) == x < limit \div 2

Input == limit \in Limits /\ \E n \in 0 .. MaxNumbers : input \in [1 .. n -> Number]

Start ==
  /\ sequence = <<1, 1, 2>> /\ fpc = "fill"
  /\ answers = <<>>

Init == Input /\ Start

-----------------------------------------------------------------------------
Last == sequence[Len(sequence)]
Previous == sequence[Len(sequence) - 1]

(* The loop of the constructor: the sum is taken in T.                     *)
Fill ==
  /\ fpc = "fill" /\ Previous < Last
  /\ sequence' = Append(sequence, (Last + Previous) % limit)
  /\ UNCHANGED <<limit, input, fpc, answers>>

(* Fault: the sum that has wrapped around stays in the table.              *)
KeepWrapped ==
  /\ fpc = "fill" /\ Previous >= Last
  /\ fpc' = "answer"
  /\ UNCHANGED <<limit, input, sequence, answers>>

(* The last element, which has wrapped around, becomes the greatest of T.  *)
Bound ==
  /\ fpc = "fill" /\ Previous >= Last
  /\ sequence' = [sequence EXCEPT ![Len(sequence)] = limit - 1]
  /\ fpc' = "answer"
  /\ UNCHANGED <<limit, input, answers>>

(* std::lower_bound of a sorted table, as an index of sequence_.           *)
LowerBound(x) == Cardinality({k \in DOMAIN sequence : sequence[k] < x})

(* Fault: what is not in the table gets the index of the next.             *)
NextRoot(x) == IF x = 0 THEN -1 ELSE IF x = 1 THEN 1 ELSE LowerBound(x)

FibRootOf(x) ==
  IF x = 0 THEN -1
  ELSE IF x = 1 THEN 1
  ELSE IF sequence[LowerBound(x) + 1] = x THEN LowerBound(x)
  ELSE LowerBound(x) - 1

(* The loop of main ends with the input, or at what it cannot read.        *)
NextNumber == Len(answers) + 1
MoreNumbers == NextNumber \in DOMAIN input /\ Fits(input[NextNumber])

Answer ==
  /\ fpc = "answer" /\ MoreNumbers
  /\ answers' = Append(answers, FibRootOf(input[NextNumber]))
  /\ UNCHANGED <<limit, input, sequence, fpc>>

StopReading ==
  /\ fpc = "answer" /\ ~MoreNumbers
  /\ fpc' = "end"
  /\ UNCHANGED <<limit, input, sequence, answers>>

Next == Fill \/ Bound \/ Answer \/ StopReading

Spec == Init /\ [][Next]_rootVars /\ WF_rootVars(Next)

-----------------------------------------------------------------------------
TypeOK ==
  /\ Input
  /\ sequence \in Seq(0 .. limit - 1)
  /\ fpc \in {"fill", "answer", "end"}
  /\ answers \in Seq(Int) /\ DOMAIN answers \subseteq DOMAIN input

(* Every element of the table but the last is the sum of the two before    *)
(* it, and not only modulo limit.                                          *)
Exact ==
  /\ Len(sequence) >= 3 /\ sequence[1] = 1 /\ sequence[2] = 1
  /\ \A k \in 3 .. Len(sequence) - 1 :
       sequence[k] = sequence[k - 1] + sequence[k - 2]

(* What std::lower_bound requires.                                         *)
Sorted == \A j, k \in DOMAIN sequence : j < k => sequence[j] <= sequence[k]

(* r is the index of the greatest Fibonacci number that is at most x.      *)
IsRoot(r, x) ==
  IF x = 0 THEN r = -1
  ELSE /\ r \in 1 .. Len(sequence) - 2
       /\ sequence[r + 1] <= x /\ x < sequence[r] + sequence[r + 1]

(* Whatever the width of the type, the table is searched only when it is   *)
(* sorted, and every answer is the right one: the element that stands for  *)
(* the sum that wrapped is never one, being above the signed type.         *)
RootsRight ==
  fpc # "fill" =>
    /\ Exact /\ Sorted
    /\ \A k \in DOMAIN answers : IsRoot(answers[k], input[k])

(* The table is finished, and the program ends.                            *)
RootEnds == <>(fpc = "end")
=============================================================================
