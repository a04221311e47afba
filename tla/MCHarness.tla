----------------------------- MODULE MCHarness -----------------------------
(***************************************************************************)
(* What unit tests run in, the process and the guards in it, and two of    *)
(* the solutions that are tested, each checked by the behaviours that are  *)
(* about it: use says which.                                               *)
(***************************************************************************)
EXTENDS ForkedRun

CONSTANTS
  File, Hard, Most, MaxOps,   \* of Guards
  MaxNodes, NodeSize,         \* of TreeReader
  Limits, MaxNumbers          \* of FibRoot

VARIABLES
  use,
  table, limit, limits, kcmp, guard, todo, cur, copies, verdict, before, ops,
  file, size, opened, least, tree, reading, totalRead, printed, reads, rpc,
  modulus, input, sequence, fpc, answers

G == INSTANCE Guards
T == INSTANCE TreeReader
F == INSTANCE FibRoot WITH limit <- modulus

guardVars == <<table, limit, limits, kcmp, guard, todo, cur, copies, verdict, before, ops>>
treeVars == <<file, size, opened, least, tree, reading, totalRead, printed, reads, rpc>>
rootVars == <<modulus, input, sequence, fpc, answers>>
allVars == <<use, vars, guardVars, treeVars, rootVars>>

NoTable == table = [fd \in G!Fd |-> 0] /\ kcmp = TRUE
NoTree == file = [i \in {} |-> 0] /\ size = 0 /\ opened = FALSE /\ least = 1
NoNumbers == modulus = 4 /\ input = <<>>

AllInit ==
  /\ \/ use = "tests" /\ NoTable /\ NoTree /\ NoNumbers
     \/ use = "guards" /\ G!Input /\ NoTree /\ NoNumbers
     \/ use = "tree" /\ NoTable /\ T!Input /\ NoNumbers
     \/ use = "root" /\ NoTable /\ NoTree /\ F!Input
  /\ Init /\ G!Start /\ T!Start /\ F!Start

Tests(A) == use = "tests" /\ A /\ UNCHANGED <<use, guardVars, treeVars, rootVars>>
Reader(A) == use = "tree" /\ A /\ UNCHANGED <<use, vars, guardVars, rootVars>>
Root(A) == use = "root" /\ A /\ UNCHANGED <<use, vars, guardVars, treeVars>>

AllNext ==
  \/ Tests(Next) \/ Reader(T!Next) \/ Root(F!Next)
  \/ use = "guards" /\ G!Next /\ UNCHANGED <<use, vars, treeVars, rootVars>>

AllSpec ==
  /\ AllInit /\ [][AllNext]_allVars
  /\ WF_allVars(Tests(Parent)) /\ \A p \in Tester : WF_allVars(Tests(Test(p)))
  /\ WF_allVars(Reader(T!Next)) /\ WF_allVars(Root(F!Next))

ASSUME LimitsAssumption == F!LimitsAssumption
ASSUME IdleAssumption == 4 \in Limits /\ MaxNumbers \in Nat   \* for NoNumbers
ASSUME TableAssumption == G!TableAssumption
ASSUME SizeAssumption == T!SizeAssumption

-----------------------------------------------------------------------------
(* FileDescriptorsGuard tells whether the table has changed, and neither   *)
(* guard has any other effect on the tests.                                *)
GuardsRight == G!TypeOK /\ G!VerdictRight /\ G!GuardsCostNothing

(* The solution prints the tree, however its reads are cut.                *)
TreePrinted == T!TreePrinted

(* fib-root: the table is sorted when it is searched, and every answer is  *)
(* the index of the greatest Fibonacci number that is at most the number.  *)
RootsRight == F!TypeOK /\ F!RootsRight

(* The parent comes to a verdict, and the solutions to their ends.         *)
RunsEnd ==
  /\ use = "tests" => VerdictReached
  /\ use = "tree" => T!ReaderEnds
  /\ use = "root" => F!RootEnds
=============================================================================
