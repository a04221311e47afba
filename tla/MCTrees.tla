------------------------------- MODULE MCTrees ------------------------------
(* Two names at the root, either of which can be a directory, a third that *)
(* is skipped.  b can be a link to a and later something else.             *)
EXTENDS Trees

a == <<"a">>
ax == <<"a", "x">>
b == <<"b">>
bx == <<"b", "x">>
git == <<"git">>

MCPath == {a, ax, b, bx, git}
MCSkipped == {git}
MCUnexported == {bx}

Per(na, nax, nb, nbx, ng) ==
  [p \in MCPath |-> CASE p = a -> na [] p = ax -> nax [] p = b -> nb [] p = bx -> nbx [] p = git -> ng]

MCNodes ==
  Per({Absent, Dir, File("v"), File("bad")}, {Absent, File("v"), File("w")},
      {Absent, Dir, File("v"), Link(a)}, {Absent, File("v")}, {Absent, File("g")})

MCNowhere == Per(Absent, Absent, Absent, Absent, Absent)
MCPrivate == Per(Dir, File("v"), Link(a), Absent, File("g"))
MCForeign == {[MCNowhere EXCEPT ![git] = n] : n \in {Absent, File("p")}}
MCForeignX ==
  MCForeign \cup
  {[f EXCEPT ![a] = Dir, ![ax] = File("p"), ![b] = n] :
     f \in MCForeign, n \in {Absent, File("p")}} \cup
  {[f EXCEPT ![b] = Dir, ![bx] = File("p")] : f \in MCForeign}
=============================================================================
