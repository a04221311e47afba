-------------------------------- MODULE Trees -------------------------------
(* What a tree of files can have at a path.                                *)

Absent == [kind |-> "absent"]
Dir == [kind |-> "dir"]
File(v) == [kind |-> "file", v |-> v]
Link(p) == [kind |-> "link", to |-> p]
Torn == File("torn")    \* a file truncated, not yet written
=============================================================================
