------------------------------ MODULE ListSpec ------------------------------
(***************************************************************************)
(* What List promises (tasks/01-basic-io/list/README.md, and the reference *)
(* CorrectList over std::list in its test.cpp): each list is a sequence.   *)
(***************************************************************************)
EXTENDS Naturals, Sequences

CONSTANTS List, Value

VARIABLE elems   \* elems[l]: the sequence, <<>> for a list not constructed

Init == elems = [l \in List |-> <<>>]

PushBack(l, v) == elems' = [elems EXCEPT ![l] = Append(@, v)]
PushFront(l, v) == elems' = [elems EXCEPT ![l] = <<v>> \o @]
PopBack(l) == elems[l] # <<>> /\ elems' = [elems EXCEPT ![l] = SubSeq(@, 1, Len(@) - 1)]
PopFront(l) == elems[l] # <<>> /\ elems' = [elems EXCEPT ![l] = Tail(@)]
Swap(l, m) == elems' = [elems EXCEPT ![l] = elems[m], ![m] = elems[l]]
Splice(l, m) == l # m /\ elems' = [elems EXCEPT ![l] = @ \o elems[m], ![m] = <<>>]
Move(l, m) == l # m /\ elems' = [elems EXCEPT ![l] = elems[m], ![m] = <<>>]
Clear(l) == elems' = [elems EXCEPT ![l] = <<>>]

Next ==
  \E l, m \in List, v \in Value :
    \/ PushBack(l, v) \/ PushFront(l, v) \/ PopBack(l) \/ PopFront(l)
    \/ Swap(l, m) \/ Splice(l, m) \/ Move(l, m) \/ Clear(l)

Spec == Init /\ [][Next]_elems
=============================================================================
