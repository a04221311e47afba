----------------------------- MODULE VectorSpec -----------------------------
(***************************************************************************)
(* What a vector promises, as std::vector does: each one is a sequence     *)
(* with room for some elements, which at least doubles when it is too      *)
(* small, and one that is moved from is left empty.  It promises less in   *)
(* one case: what is put into a vector that has to get more room must not  *)
(* be an element of that vector.                                           *)
(***************************************************************************)
EXTENDS Naturals, Sequences

CONSTANTS
  Vec, Value, MaxLen,
  Junk   \* what a reference finds where its element is no more

VARIABLES
  elems,   \* elems[v]: the sequence, <<>> for a vector not constructed
  cap      \* its capacity

vars == <<elems, cap>>

Init == elems = [v \in Vec |-> <<>>] /\ cap = [v \in Vec |-> 0]

(* Room for n elements in v.                                               *)
Room(v, n) ==
  /\ cap' = [cap EXCEPT ![v] = cap'[v]]
  /\ IF n <= cap[v] THEN cap'[v] = cap[v] ELSE cap'[v] >= n /\ cap'[v] >= 2 * cap[v]

(* What can be read through the argument of a method of v that makes room  *)
(* for n elements: a value, or element i of w, gone when v gets more room. *)
Refers(v, n, w, i) == {elems[w][i]} \cup (IF w = v /\ n > cap[v] THEN {Junk} ELSE {})
Arguments(v, n) ==
  {{x} : x \in Value} \cup UNION {{Refers(v, n, w, i) : i \in DOMAIN elems[w]} : w \in Vec}

Reserve(v, n) == Room(v, n) /\ elems' = elems
PushBack(v, arg) ==
  Room(v, Len(elems[v]) + 1) /\ \E x \in arg : elems' = [elems EXCEPT ![v] = Append(@, x)]
Resize(v, n, arg) ==
  IF n <= Len(elems[v])
    THEN elems' = [elems EXCEPT ![v] = SubSeq(@, 1, n)] /\ cap' = cap
    ELSE Room(v, n) /\ \E f \in [1 .. n - Len(elems[v]) -> arg] : elems' = [elems EXCEPT ![v] = @ \o f]
Construct(v, n, arg) ==
  /\ elems[v] = <<>> /\ cap[v] = 0 /\ cap' = [cap EXCEPT ![v] = n]
  /\ \E x \in arg : elems' = [elems EXCEPT ![v] = [i \in 1 .. n |-> x]]
PopBack(v) == elems[v] # <<>> /\ elems' = [elems EXCEPT ![v] = SubSeq(@, 1, Len(@) - 1)] /\ cap' = cap
Clear(v) == elems' = [elems EXCEPT ![v] = <<>>] /\ cap' = cap
Destroy(v) == elems' = [elems EXCEPT ![v] = <<>>] /\ cap' = [cap EXCEPT ![v] = 0]
Copy(v, w) == elems' = [elems EXCEPT ![v] = elems[w]] /\ Room(v, Len(elems[w]))
Exchange(v, w) == cap' = [cap EXCEPT ![v] = cap[w], ![w] = cap[v]]
Move(v, w) == elems' = [elems EXCEPT ![v] = elems[w], ![w] = <<>>] /\ Exchange(v, w)
Swap(v, w) == elems' = [elems EXCEPT ![v] = elems[w], ![w] = elems[v]] /\ Exchange(v, w)

Next ==
  \E v \in Vec :
    \/ PopBack(v) \/ Clear(v) \/ Destroy(v)
    \/ \E w \in Vec : Copy(v, w) \/ Move(v, w) \/ Swap(v, w)
    \/ \E arg \in Arguments(v, Len(elems[v]) + 1) : PushBack(v, arg)
    \/ \E n \in 0 .. MaxLen :
         Reserve(v, n) \/ \E arg \in Arguments(v, n) : Construct(v, n, arg) \/ Resize(v, n, arg)

Spec == Init /\ [][Next]_vars
=============================================================================
