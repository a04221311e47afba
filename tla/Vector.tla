------------------------------- MODULE Vector -------------------------------
(***************************************************************************)
(* Vector over detail::Memory (tasks/04-procs-1/allocator/vector.hpp), the *)
(* container the tests of the allocator are written with.  A Memory owns a *)
(* block of Allocate; placement new constructs an element in a raw cell of *)
(* it, a destructor call makes the cell raw again.  One thread uses a      *)
(* vector and exceptions are off, so a method is one action.  Allocate     *)
(* returns a fresh block: when it returns nullptr, ASSERT ends the program.*)
(* Moving an element copies it, as TreeNode's of the tests does.           *)
(***************************************************************************)
EXTENDS Naturals, Sequences

CONSTANTS
  Vec,      \* the Vector objects
  Block,    \* the addresses Allocate can return
  Value,    \* the values of T
  Zero,     \* the one T() has
  Null,     \* nullptr
  Raw,      \* a cell in which no element is alive
  Junk,     \* what a read of a block that was given back finds
  MaxLen,   \* bound on n and on the sizes
  MaxCap    \* bound on the capacities, at least MaxLen, and 2 * (MaxLen - 1)

VARIABLES
  alive,         \* the vectors constructed and not destroyed
  mem,           \* mem_.mem_ of each: a block or nullptr
  idx, size,     \* mem_.idx_ and mem_.size_ of each
  allocated,     \* the blocks Allocate has given out
  cell           \* what is in each cell of each block

vars == <<alive, mem, idx, size, allocated, cell>>

Elem == Value \cup {Zero, Junk}
Cells == 1 .. MaxCap
Clean == [i \in Cells |-> Raw]
Elements(v) == [i \in 1 .. idx[v] |-> cell[mem[v]][i]]

Init ==
  /\ alive = {} /\ allocated = {}
  /\ mem = [v \in Vec |-> Null]
  /\ idx = [v \in Vec |-> 0] /\ size = [v \in Vec |-> 0]
  /\ cell = [b \in Block \cup {Null} |-> Clean]

-----------------------------------------------------------------------------
(* Reserve: the capacity afterwards, and the blocks the elements can be in.*)
Grown(v, n) ==
  IF n <= size[v] THEN size[v] ELSE IF n < 2 * size[v] THEN 2 * size[v] ELSE n

Place(v, n) == IF n <= size[v] THEN {mem[v]} ELSE Block \ allocated

(* Fault: the old block is not given back.                                 *)
NeverFreed(v, b) == (allocated \cup {b}) \ {Null}

(* ReserveImpl: a new Memory is swapped in, the old one destroyed.         *)
AllocatedWith(v, b) == IF b = mem[v] THEN allocated ELSE (allocated \ {mem[v]}) \cup {b}

(* The common part of the methods that grow or shrink v: after             *)
(* Reserve(room) its elements are in b, and they are made those of s.  If  *)
(* b is another block the old one loses its elements, moved from.          *)
Becomes(v, room, b, s) ==
  /\ b \in Place(v, room)
  /\ cell' = [cell EXCEPT ![mem[v]] = Clean,
                         ![b] = [i \in Cells |-> IF i <= Len(s) THEN s[i] ELSE Raw]]
  /\ allocated' = AllocatedWith(v, b)
  /\ mem' = [mem EXCEPT ![v] = b]
  /\ idx' = [idx EXCEPT ![v] = Len(s)] /\ size' = [size EXCEPT ![v] = Grown(v, room)]
  /\ UNCHANGED alive

(* The value of PushBack, Resize and Vector(n, value) is a reference.      *)
(* After Reserve(n) it refers to a value outside or to element i of a      *)
(* vector w; if that is v itself and v has moved to another block, to      *)
(* memory given back, which may still hold the element, or something else. *)
Refers(v, n, w, i) == {Elements(w)[i]} \cup (IF w = v /\ n > size[v] THEN {Junk} ELSE {})
Arguments(v, n) ==
  {{x} : x \in Value \cup {Zero}}
    \cup UNION {{Refers(v, n, w, i) : i \in 1 .. idx[w]} : w \in alive}

(* Both overloads: Reserve, then Emplace, which reads the argument.        *)
PushBack(v, arg, b) ==
  /\ v \in alive /\ idx[v] < MaxLen
  /\ \E x \in arg : Becomes(v, idx[v] + 1, b, Append(Elements(v), x))

Reserve(v, n, b) == v \in alive /\ Becomes(v, n, b, Elements(v))

PopBack(v) ==
  /\ v \in alive /\ idx[v] > 0
  /\ cell' = [cell EXCEPT ![mem[v]][idx[v]] = Raw]
  /\ idx' = [idx EXCEPT ![v] = @ - 1]
  /\ UNCHANGED <<alive, mem, size, allocated>>

(* Both overloads: Resize(n) fills with T(), the other one reads its       *)
(* argument again for every element.                                       *)
Resize(v, n, arg, b) ==
  /\ v \in alive
  /\ IF idx[v] < n
       THEN \E f \in [1 .. n - idx[v] -> arg] : Becomes(v, n, b, Elements(v) \o f)
       ELSE Becomes(v, 0, b, SubSeq(Elements(v), 1, n))

(* Fault: a shorter source leaves the rest of *this alone.                 *)
CopyAssignPrefix(v, w, b) ==
  /\ v \in alive /\ w \in alive
  /\ Becomes(v, idx[w], b, Elements(w) \o SubSeq(Elements(v), idx[w] + 1, idx[v]))

(* operator=(const Vector&): Reserve, assign what there is, then push back *)
(* the missing elements or pop the ones too many.                          *)
CopyAssign(v, w, b) ==
  /\ v \in alive /\ w \in alive
  /\ Becomes(v, idx[w], b, Elements(w))

Swap(v, w) ==
  /\ v \in alive /\ w \in alive
  /\ mem' = [mem EXCEPT ![v] = mem[w], ![w] = mem[v]]
  /\ idx' = [idx EXCEPT ![v] = idx[w], ![w] = idx[v]]
  /\ size' = [size EXCEPT ![v] = size[w], ![w] = size[v]]
  /\ UNCHANGED <<alive, allocated, cell>>

Clear(v) ==
  /\ v \in alive
  /\ cell' = [cell EXCEPT ![mem[v]] = Clean] /\ idx' = [idx EXCEPT ![v] = 0]
  /\ UNCHANGED <<alive, mem, size, allocated>>

(* operator=(Vector&&): Swap, then other.Clear(), which keeps the block    *)
(* that was v's.  A vector moved to itself is emptied.                     *)
MoveAssign(v, w) ==
  /\ v \in alive /\ w \in alive
  /\ mem' = [mem EXCEPT ![v] = mem[w], ![w] = mem[v]]
  /\ idx' = [[idx EXCEPT ![v] = idx[w]] EXCEPT ![w] = 0]
  /\ size' = [size EXCEPT ![v] = size[w], ![w] = size[v]]
  /\ cell' = [cell EXCEPT ![mem[v]] = Clean]
  /\ UNCHANGED <<alive, allocated>>

-----------------------------------------------------------------------------
(* Vector(): mem_ is nullptr, of no capacity.                              *)
Default(v) == v \notin alive /\ alive' = alive \cup {v} /\ UNCHANGED <<mem, idx, size, allocated, cell>>

(* Vector(n) and Vector(n, value): a block even for no elements.           *)
Construct(v, n, arg, b) ==
  /\ v \notin alive /\ b \in Block \ allocated
  /\ alive' = alive \cup {v} /\ allocated' = allocated \cup {b}
  /\ mem' = [mem EXCEPT ![v] = b]
  /\ idx' = [idx EXCEPT ![v] = n] /\ size' = [size EXCEPT ![v] = n]
  /\ \E x \in arg : cell' = [cell EXCEPT ![b] = [i \in Cells |-> IF i <= n THEN x ELSE Raw]]

(* Vector(const Vector&): Vector(), then operator=.                        *)
CopyConstruct(v, w, b) ==
  /\ v \notin alive /\ w \in alive /\ alive' = alive \cup {v}
  /\ IF idx[w] = 0 THEN b = Null /\ UNCHANGED <<mem, idx, size, allocated, cell>>
     ELSE /\ b \in Block \ allocated /\ allocated' = allocated \cup {b}
          /\ mem' = [mem EXCEPT ![v] = b]
          /\ idx' = [idx EXCEPT ![v] = idx[w]] /\ size' = [size EXCEPT ![v] = idx[w]]
          /\ cell' = [cell EXCEPT ![b] = cell[mem[w]]]

(* Vector(Vector&&): Vector(), then Swap.                                  *)
MoveConstruct(v, w) ==
  /\ v \notin alive /\ w \in alive /\ alive' = alive \cup {v}
  /\ mem' = [mem EXCEPT ![v] = mem[w], ![w] = Null]
  /\ idx' = [idx EXCEPT ![v] = idx[w], ![w] = 0]
  /\ size' = [size EXCEPT ![v] = size[w], ![w] = 0]
  /\ UNCHANGED <<allocated, cell>>

(* ~Memory: destroys the elements and gives the block back.                *)
Destroy(v) ==
  /\ v \in alive /\ alive' = alive \ {v}
  /\ cell' = [cell EXCEPT ![mem[v]] = Clean] /\ allocated' = allocated \ {mem[v]}
  /\ mem' = [mem EXCEPT ![v] = Null]
  /\ idx' = [idx EXCEPT ![v] = 0] /\ size' = [size EXCEPT ![v] = 0]

Next ==
  \E v \in Vec :
    \/ Default(v) \/ PopBack(v) \/ Clear(v) \/ Destroy(v)
    \/ \E w \in Vec : Swap(v, w) \/ MoveAssign(v, w) \/ MoveConstruct(v, w)
    \/ \E b \in Block \cup {Null} :
         \/ \E arg \in Arguments(v, idx[v] + 1) : PushBack(v, arg, b)
         \/ \E n \in 0 .. MaxLen :
              \/ Reserve(v, n, b)
              \/ \E arg \in Arguments(v, n) : Construct(v, n, arg, b) \/ Resize(v, n, arg, b)
         \/ \E w \in Vec : CopyAssign(v, w, b) \/ CopyConstruct(v, w, b)

Spec == Init /\ [][Next]_vars

-----------------------------------------------------------------------------
TypeOK ==
  /\ alive \subseteq Vec /\ allocated \subseteq Block
  /\ mem \in [Vec -> Block \cup {Null}]
  /\ idx \in [Vec -> 0 .. MaxLen] /\ size \in [Vec -> 0 .. MaxCap]
  /\ cell \in [Block \cup {Null} -> [Cells -> Elem \cup {Raw}]]

(* Every block allocated belongs to exactly one live vector, and an        *)
(* element is alive in exactly the first idx_ cells of it: nothing leaks,  *)
(* is freed or destroyed twice, or is constructed over a live element or   *)
(* behind the end of the block.                                            *)
BlocksOwnedOnce ==
  /\ allocated = {mem[v] : v \in alive} \ {Null}
  /\ \A v, w \in alive : mem[v] = mem[w] => v = w \/ mem[v] = Null
  /\ \A v \in Vec : idx[v] <= size[v]
  /\ \A b \in Block, i \in Cells :
       cell[b][i] # Raw <=> \E v \in alive : mem[v] = b /\ i <= idx[v]

(* Every method does to the contents and the capacity what VectorSpec      *)
(* says, whatever has to be allocated, moved and destroyed for it.  An     *)
(* argument is read right too, with the one exception VectorSpec names: an *)
(* element of the vector itself, when that has to get another block.       *)
Abstract == INSTANCE VectorSpec
  WITH elems <- [v \in Vec |-> Elements(v)], cap <- size, Value <- Value \cup {Zero}
ImplementsVectorSpec == Abstract!Spec
=============================================================================
