----------------------------- MODULE LinkedList -----------------------------
(***************************************************************************)
(* List (tasks/01-basic-io/list/list.hpp): a doubly linked list, as the    *)
(* pointers it consists of.  The heap is a set of nodes that new takes     *)
(* from and delete gives back; every method is one action, since only one  *)
(* thread uses a list.  It implements ListSpec.                            *)
(***************************************************************************)
EXTENDS Naturals, Sequences, FiniteSets

CONSTANTS
  List,       \* the List objects
  Node,       \* the addresses new can return
  Value,      \* the values stored
  Null        \* nullptr

ASSUME NodeAssumption == IsFiniteSet(Node) /\ Null \notin Node
ASSUME ValueAssumption == Value # {}

Pointer == Node \cup {Null}

VARIABLES
  alive,       \* the lists constructed and not destroyed
  head, tail,  \* of each list
  heap,        \* the nodes allocated
  left, right, value   \* the fields of each node

fields == <<left, right, value>>
vars == <<alive, head, tail, heap, fields>>

Init ==
  /\ alive = {} /\ heap = {}
  /\ head = [l \in List |-> Null] /\ tail = [l \in List |-> Null]
  /\ left = [n \in Node |-> Null] /\ right = [n \in Node |-> Null]
  /\ value = [n \in Node |-> CHOOSE v \in Value : TRUE]

-----------------------------------------------------------------------------
IsEmpty(l) == head[l] = Null

(* next[n], next[next[n]] ... from each pointer n.                         *)
Follow(next) ==
  LET from[k \in 0 .. Cardinality(Node)] ==
        [n \in Pointer |-> IF k = 0 \/ n = Null THEN <<>> ELSE <<n>> \o from[k - 1][next[n]]]
  IN from[Cardinality(Node)]

(* The nodes a loop over nextNode visits.                                  *)
Visits(n) == Follow(right)[n]

Nodes(l) == {Visits(head[l])[i] : i \in DOMAIN Visits(head[l])}

New(n, v) ==
  /\ n \in Node \ heap /\ heap' = heap \cup {n}
  /\ value' = [value EXCEPT ![n] = v]

CreateFirstNode(l, n, v) ==
  /\ New(n, v)
  /\ left' = [left EXCEPT ![n] = Null] /\ right' = [right EXCEPT ![n] = Null]
  /\ head' = [head EXCEPT ![l] = n] /\ tail' = [tail EXCEPT ![l] = n]

PushBack(l, n, v) ==
  /\ l \in alive
  /\ IF tail[l] = Null THEN CreateFirstNode(l, n, v)
     ELSE /\ New(n, v)
          /\ left' = [left EXCEPT ![n] = tail[l]]
          /\ right' = [right EXCEPT ![n] = Null, ![tail[l]] = n]
          /\ tail' = [tail EXCEPT ![l] = n]
          /\ UNCHANGED head
  /\ UNCHANGED alive

(* Fault: the old first node is not linked back to the new one.            *)
PushFrontHalf(l, n, v) ==
  /\ l \in alive
  /\ IF tail[l] = Null THEN CreateFirstNode(l, n, v)
     ELSE /\ New(n, v)
          /\ right' = [right EXCEPT ![n] = head[l]] /\ left' = [left EXCEPT ![n] = Null]
          /\ head' = [head EXCEPT ![l] = n]
          /\ UNCHANGED tail
  /\ UNCHANGED alive

PushFront(l, n, v) ==
  /\ l \in alive
  /\ IF tail[l] = Null THEN CreateFirstNode(l, n, v)
     ELSE /\ New(n, v)
          /\ right' = [right EXCEPT ![n] = head[l]]
          /\ left' = [left EXCEPT ![n] = Null, ![head[l]] = n]
          /\ head' = [head EXCEPT ![l] = n]
          /\ UNCHANGED tail
  /\ UNCHANGED alive

(* Fault: head is kept when the last node goes.                            *)
PopBackKeepsHead(l) ==
  /\ l \in alive /\ ~IsEmpty(l)
  /\ LET newTail == left[tail[l]] IN
     /\ right' = IF newTail # Null THEN [right EXCEPT ![newTail] = Null] ELSE right
     /\ heap' = heap \ {tail[l]}
     /\ tail' = [tail EXCEPT ![l] = newTail]
  /\ UNCHANGED <<alive, head, left, value>>

PopBack(l) ==
  /\ l \in alive /\ ~IsEmpty(l)
  /\ LET newTail == left[tail[l]] IN
     /\ IF newTail # Null
          THEN right' = [right EXCEPT ![newTail] = Null] /\ UNCHANGED head
          ELSE head' = [head EXCEPT ![l] = Null] /\ UNCHANGED right
     /\ heap' = heap \ {tail[l]}
     /\ tail' = [tail EXCEPT ![l] = newTail]
  /\ UNCHANGED <<alive, left, value>>

PopFront(l) ==
  /\ l \in alive /\ ~IsEmpty(l)
  /\ LET newHead == right[head[l]] IN
     /\ IF newHead # Null
          THEN left' = [left EXCEPT ![newHead] = Null] /\ UNCHANGED tail
          ELSE tail' = [tail EXCEPT ![l] = Null] /\ UNCHANGED left
     /\ heap' = heap \ {head[l]}
     /\ head' = [head EXCEPT ![l] = newHead]
  /\ UNCHANGED <<alive, right, value>>

Swap(l, m) ==
  /\ l \in alive /\ m \in alive
  /\ head' = [head EXCEPT ![l] = head[m], ![m] = head[l]]
  /\ tail' = [tail EXCEPT ![l] = tail[m], ![m] = tail[l]]
  /\ UNCHANGED <<alive, heap, fields>>

(* Faults: other goes on holding the nodes, and they are put in front.     *)
SpliceShares(l, m) ==
  /\ l \in alive /\ m \in alive /\ l # m /\ ~IsEmpty(m) /\ IsEmpty(l)
  /\ head' = [head EXCEPT ![l] = head[m]] /\ tail' = [tail EXCEPT ![l] = tail[m]]
  /\ UNCHANGED <<alive, heap, fields>>

SpliceInFront(l, m) ==
  /\ l \in alive /\ m \in alive /\ l # m /\ ~IsEmpty(m) /\ ~IsEmpty(l)
  /\ right' = [right EXCEPT ![tail[m]] = head[l]]
  /\ left' = [left EXCEPT ![head[l]] = tail[m]]
  /\ head' = [head EXCEPT ![l] = head[m], ![m] = Null]
  /\ tail' = [tail EXCEPT ![m] = Null]
  /\ UNCHANGED <<alive, heap, value>>

(* As with std::list, a list is not spliced into itself.                   *)
Splice(l, m) ==
  /\ l \in alive /\ m \in alive /\ l # m /\ ~IsEmpty(m)
  /\ IF IsEmpty(l)
       THEN head' = [head EXCEPT ![l] = head[m], ![m] = Null] /\ UNCHANGED <<left, right>>
       ELSE /\ right' = [right EXCEPT ![tail[l]] = head[m]]
            /\ left' = [left EXCEPT ![head[m]] = tail[l]]
            /\ head' = [head EXCEPT ![m] = Null]
  /\ tail' = [tail EXCEPT ![l] = tail[m], ![m] = Null]
  /\ UNCHANGED <<alive, heap, value>>

(* Clear frees the nodes; head and tail stay as they are.                  *)
Clear(l) ==
  /\ l \in alive
  /\ heap' = heap \ Nodes(l)
  /\ UNCHANGED <<alive, head, tail, fields>>

Construct(l) ==
  /\ l \notin alive /\ alive' = alive \cup {l}
  /\ UNCHANGED <<head, tail, heap, fields>>

(* List(List&& other): an empty list, swapped with other.                  *)
MoveConstruct(l, m) ==
  /\ l \notin alive /\ m \in alive /\ alive' = alive \cup {l}
  /\ head' = [head EXCEPT ![l] = head[m], ![m] = Null]
  /\ tail' = [tail EXCEPT ![l] = tail[m], ![m] = Null]
  /\ UNCHANGED <<heap, fields>>

(* operator=(List&& other): tmp takes other's nodes, gives them to *this   *)
(* for its own and is destroyed; a list moved to itself is left alone.     *)
MoveAssign(l, m) ==
  /\ l \in alive /\ m \in alive
  /\ LET taken(end) == IF l = m THEN end ELSE [end EXCEPT ![l] = end[m], ![m] = Null] IN
     head' = taken(head) /\ tail' = taken(tail)
  /\ heap' = IF l = m THEN heap ELSE heap \ Nodes(l)
  /\ UNCHANGED <<alive, fields>>

(* ~List: Clear, and the object is gone.                                   *)
Destroy(l) ==
  /\ l \in alive
  /\ heap' = heap \ Nodes(l)
  /\ alive' = alive \ {l}
  /\ head' = [head EXCEPT ![l] = Null] /\ tail' = [tail EXCEPT ![l] = Null]
  /\ UNCHANGED fields

Next ==
  \E l \in List :
    \/ Construct(l) \/ Destroy(l) \/ PopBack(l) \/ PopFront(l)
    \/ \E n \in Node, v \in Value : PushBack(l, n, v) \/ PushFront(l, n, v)
    \/ \E m \in List : Swap(l, m) \/ Splice(l, m) \/ MoveConstruct(l, m) \/ MoveAssign(l, m)

Spec == Init /\ [][Next]_vars

(* Programs that also call Clear on a list they go on using.               *)
SpecWithClear == Init /\ [][Next \/ \E l \in List : Clear(l)]_vars

-----------------------------------------------------------------------------
TypeOK ==
  /\ alive \subseteq List /\ heap \subseteq Node
  /\ head \in [List -> Pointer] /\ tail \in [List -> Pointer]
  /\ left \in [Node -> Pointer] /\ right \in [Node -> Pointer]
  /\ value \in [Node -> Value]
  /\ \A l \in List : head[l] = Null <=> tail[l] = Null

(* Both directions of every list tell the same story: following right from *)
(* head ends at tail, and left is its inverse.                             *)
LinksAgree ==
  \A l \in List :
    LET s == Visits(head[l]) IN
    IF s = <<>> THEN head[l] = Null /\ tail[l] = Null
    ELSE /\ tail[l] = s[Len(s)] /\ right[tail[l]] = Null
         /\ \A i \in DOMAIN s : left[s[i]] = IF i = 1 THEN Null ELSE s[i - 1]

(* Every node allocated belongs to exactly one list, every node of a list  *)
(* is allocated: nothing leaks, nothing is freed twice or used after.      *)
NodesOwnedOnce ==
  /\ heap = UNION {Nodes(l) : l \in alive}
  /\ \A l, m \in alive : l # m => Nodes(l) \cap Nodes(m) = {}

Elements(l) == [i \in DOMAIN Visits(head[l]) |-> value[Visits(head[l])[i]]]

(* Every method does to the sequences of elements what ListSpec says.      *)
Abstract == INSTANCE ListSpec WITH elems <- [l \in List |-> Elements(l)]
ImplementsListSpec == Abstract!Spec

(* Clear "deletes all elements from the list and frees the memory"         *)
(* (README.md:29): the list is empty afterwards.                           *)
ClearEmpties == [][\A l \in List : Clear(l) => IsEmpty(l)']_vars
=============================================================================
