----------------------------- MODULE TreeReader -----------------------------
(***************************************************************************)
(* tasks/02-files/binary-tree: the solution (solution.cpp) prints the keys *)
(* of a tree kept in a file, right subtrees first, and the wrappers under  *)
(* it (wrappers.cpp) cut its reads short and count them.  Nodes are        *)
(* numbered from 0 as in the file; a child is a number from there, and one *)
(* that is not in the file is what a damaged file has.                     *)
(***************************************************************************)
EXTENDS Integers, Sequences, FiniteSets

CONSTANTS
  MaxNodes,   \* bound on the nodes in the file
  NodeSize    \* sizeOfNode, 12 in the code

SizeAssumption == MaxNodes \in Nat /\ NodeSize \in Nat \ {0}

VARIABLES
  file,       \* the nodes; the key of a node is its number
  size,       \* how many bytes of them are there
  opened,     \* whether the file could be opened
  least,      \* min_read_calls_
  tree,       \* the stack of nodes, the top last
  reading,    \* the node ReadWholeNode reads, None outside
  totalRead,
  printed,
  reads,      \* read_calls_, up to least
  rpc         \* "run", "exit 0", "exit 1", or "abort"

inputs == <<file, size, opened, least>>
treeVars == <<inputs, tree, reading, totalRead, printed, reads, rpc>>

None == MaxNodes + 2

(* Children come after their parents: what has a cycle is no tree, and the *)
(* solution does not come to its end.                                      *)
Child(i, n) == {-1, 0} \cup (i + 1) .. n
FileOf(n) == {f \in [0 .. n - 1 -> [left : -1 .. n, right : -1 .. n]] :
                \A i \in 0 .. n - 1 : f[i].left \in Child(i, n) /\ f[i].right \in Child(i, n)}

Input ==
  /\ \E n \in 0 .. MaxNodes : file \in FileOf(n) /\ size \in {n * NodeSize, n * NodeSize - 1} \cap Nat
  /\ opened \in BOOLEAN /\ least \in 1 .. 2

Start ==
  /\ tree = <<>> /\ reading = 0 /\ totalRead = 0 /\ printed = <<>>
  /\ reads = 0 /\ rpc = "run"

Init == Input /\ Start

-----------------------------------------------------------------------------
(* exit, which runs the destructor of ReadGlitches: CheckReadCalls.        *)
Exit(code) == rpc' = IF reads' >= least THEN code ELSE "abort"

(* How much a pread of count bytes returns, and none at the end; the calls *)
(* are counted as far as that matters.                                     *)
From == reading * NodeSize + totalRead
NumBytes(count) == IF From + count <= size THEN count ELSE IF From < size THEN size - From ELSE 0
Call(count) ==
  /\ rpc = "run" /\ reading # None /\ totalRead < NodeSize
  /\ count \in 1 .. NodeSize - totalRead
  /\ reads' = IF reads < least THEN reads + 1 ELSE reads
  /\ UNCHANGED <<inputs, tree, reading, printed>>

(* Fault: only errors end the program.                                     *)
PReadOn(count) ==
  /\ Call(count)
  /\ IF ~opened \/ From < 0
       THEN Exit("exit 1") /\ UNCHANGED totalRead
       ELSE totalRead' = totalRead + NumBytes(count) /\ UNCHANGED rpc

(* pread of what is left of the node, or of less of it if OnRead has made  *)
(* count less; an error, like EBADF or EINVAL, or the end of the file ends *)
(* the program.                                                            *)
PRead(count) ==
  /\ Call(count)
  /\ IF ~opened \/ From < 0 \/ NumBytes(count) = 0
       THEN Exit("exit 1") /\ UNCHANGED totalRead
       ELSE totalRead' = totalRead + NumBytes(count) /\ UNCHANGED rpc

(* ReadWholeNode returns, and the node is pushed.                          *)
Push ==
  /\ rpc = "run" /\ reading # None /\ totalRead = NodeSize
  /\ tree' = Append(tree, [key |-> reading, left |-> file[reading].left, right |-> file[reading].right])
  /\ reading' = None /\ totalRead' = 0
  /\ UNCHANGED <<inputs, printed, reads, rpc>>

Top == tree[Len(tree)]
Popped == SubSeq(tree, 1, Len(tree) - 1)
Idle == rpc = "run" /\ reading = None

(* Fault: it is not forgotten.                                             *)
GoRightAgain ==
  /\ Idle /\ tree # <<>> /\ Top.right > 0
  /\ reading' = Top.right
  /\ UNCHANGED <<inputs, tree, totalRead, printed, reads, rpc>>

(* The right subtree, which then is forgotten.                             *)
GoRight ==
  /\ Idle /\ tree # <<>> /\ Top.right > 0
  /\ reading' = Top.right /\ tree' = [tree EXCEPT ![Len(tree)].right = -1]
  /\ UNCHANGED <<inputs, totalRead, printed, reads, rpc>>

(* The node itself, which is popped, and the left subtree in its place.    *)
PrintNode ==
  /\ Idle /\ tree # <<>> /\ Top.right <= 0
  /\ printed' = Append(printed, Top.key) /\ tree' = Popped
  /\ reading' = IF Top.left # 0 THEN Top.left ELSE None
  /\ UNCHANGED <<inputs, totalRead, reads, rpc>>

Return ==
  /\ Idle /\ tree = <<>> /\ reads' = reads /\ Exit("exit 0")
  /\ UNCHANGED <<inputs, tree, reading, totalRead, printed>>

Next == Push \/ GoRight \/ PrintNode \/ Return \/ \E count \in 1 .. NodeSize : PRead(count)

Spec == Init /\ [][Next]_treeVars /\ WF_treeVars(Next)

-----------------------------------------------------------------------------
(* The file is whole: all children that are not 0 are in it, and no node   *)
(* is a child twice.                                                       *)
Node == DOMAIN file
IsTree ==
  /\ opened /\ Node # {} /\ size = Cardinality(Node) * NodeSize
  /\ \A i \in Node : {file[i].left, file[i].right} \subseteq Node
  /\ \A c \in Node \ {0} : Cardinality({s \in Node \X {"left", "right"} : file[s[1]][s[2]] = c}) <= 1

(* Everything below a node, by sides, and how deep it is.                  *)
Below[i \in Node] ==
  {i} \cup (IF file[i].left = 0 THEN {} ELSE Below[file[i].left])
      \cup (IF file[i].right = 0 THEN {} ELSE Below[file[i].right])
Height[i \in Node] ==
  LET left == IF file[i].left = 0 THEN 0 ELSE Height[file[i].left]
      right == IF file[i].right = 0 THEN 0 ELSE Height[file[i].right]
  IN 1 + (IF left < right THEN right ELSE left)

(* Of two nodes, which one is first in reverse order.                      *)
Before(j, k) ==
  \E i \in Below[0] :
    \/ j = i /\ file[i].left # 0 /\ k \in Below[file[i].left]
    \/ k = i /\ file[i].right # 0 /\ j \in Below[file[i].right]
    \/ /\ file[i].left # 0 /\ k \in Below[file[i].left]
       /\ file[i].right # 0 /\ j \in Below[file[i].right]

(* However its reads are cut, the program prints every node of a tree      *)
(* once, each behind those to the right of it, and keeps no more nodes     *)
(* than the tree is high; it only fails if the reads were too few.         *)
TreePrinted ==
  IsTree =>
    /\ rpc # "exit 1" /\ (rpc = "abort" => Cardinality(Below[0]) < least)
    /\ Len(tree) <= Height[0]
    /\ \A j, k \in DOMAIN printed : j < k => Before(printed[j], printed[k])
    /\ rpc = "exit 0" => {printed[j] : j \in DOMAIN printed} = Below[0]

(* A file that is cut short, or has a child that is not there, is not      *)
(* taken for a tree, and the program comes to its end.                     *)
ReaderEnds == <>(rpc # "run")
=============================================================================
