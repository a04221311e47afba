---------------------------- MODULE MCContainers ----------------------------
(***************************************************************************)
(* The three containers, each checked by the behaviours that are about it: *)
(* use says which one a behaviour uses, the other two stay as constructed. *)
(***************************************************************************)
EXTENDS LinkedList, TLC

CONSTANTS
  Vec, Block, Item, Zero, Raw, Junk, MaxLen, MaxCap,   \* of Vector; Item: its values
  Capacity, MaxBytes, MaxErrors            \* of BufWriter

VARIABLES
  use,
  valive, mem, idx, size, allocated, cell,
  buf, out, given, pc, call, data, todo, result, errors

V == INSTANCE Vector WITH alive <- valive, Value <- Item
W == INSTANCE BufWriter

vectorVars == <<valive, mem, idx, size, allocated, cell>>
writerVars == <<buf, out, given, pc, call, data, todo, result, errors>>
allVars == <<use, vars, vectorVars, writerVars>>

AllInit == use \in {"list", "vector", "writer"} /\ Init /\ V!Init /\ W!Init

AllNext ==
  /\ \/ use = "list" /\ Next /\ UNCHANGED <<vectorVars, writerVars>>
     \/ use = "vector" /\ V!Next /\ UNCHANGED <<vars, writerVars>>
     \/ use = "writer" /\ W!Next /\ UNCHANGED <<vars, vectorVars>>
  /\ UNCHANGED use

AllSpec == AllInit /\ [][AllNext]_allVars

(* The model's bounds: a vector of at most MaxLen elements that doubles its *)
(* capacity stays within MaxCap cells.                                     *)
ASSUME VectorAssumption ==
  /\ Null \notin Block /\ Raw \notin Item \cup {Zero, Junk} /\ Junk \notin Item \cup {Zero}
  /\ MaxLen \in Nat /\ MaxCap \in Nat /\ MaxLen <= MaxCap /\ 2 * MaxLen <= MaxCap + 2

(* The capacity of a BufWriter is not 0, by which it would divide.         *)
ASSUME WriterAssumption == Capacity \in Nat \ {0} /\ MaxBytes \in Nat /\ MaxErrors \in Nat

(* The addresses new and Allocate return are interchangeable.              *)
Symmetry == Permutations(Node) \cup Permutations(Block)

-----------------------------------------------------------------------------
(* List: both directions of every list agree, and every node allocated is  *)
(* owned by exactly one list.                                              *)
ListHeapRight == TypeOK /\ LinksAgree /\ NodesOwnedOnce

(* Vector: every block allocated is owned by one vector, with elements     *)
(* alive in exactly its first cells.                                       *)
VectorHeapRight == V!TypeOK /\ V!BlocksOwnedOnce

(* Vector: the methods do what they do to sequences, and read their        *)
(* arguments right but for elements that a reallocation takes away.        *)
ImplementsVectorSpec == V!ImplementsVectorSpec

(* BufWriter: bytes stay in order and in the buffer, and none is lost      *)
(* while nothing fails.                                                    *)
WriterRight == W!TypeOK /\ W!OrderKept /\ W!NothingLostWithoutError

(* BufWriter: a byte is only lost in a method that says so.                *)
LossIsReported == W!LossIsReported
=============================================================================
