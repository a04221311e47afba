---------------------------- MODULE ComposeTree ----------------------------
(***************************************************************************)
(* process_dir of xtask compose (xtask/src/compose.rs): the public tree is *)
(* made to mirror the private one, entry by entry, and what the private    *)
(* tree does not have is pruned.  The private tree is edited between runs; *)
(* a run may be killed anywhere and started again.  What process_source    *)
(* does to a file is ComposeSource; here a source is "bad" if it fails.    *)
(* Paths are sequences of names, at most two; a link is to a path of the   *)
(* same tree that is not itself a link.                                    *)
(***************************************************************************)
EXTENDS Naturals, Sequences, FiniteSets, Trees

CONSTANTS
  Path,       \* the paths either tree can have, the root being <<>>
  Nodes,      \* Nodes[p]: what the private tree can have at p
  Skipped,    \* the paths the glob set of --skip and .gitignore matches
  Unexported, \* the paths left out by the .export.yaml of their directory
  Private,    \* the private tree of the first run
  Foreign,    \* what the public tree can hold before the first run
  MaxEdits,   \* bound on the edits of the private tree
  MaxCrashes  \* bound on the runs that are killed

Root == <<>>
Parent(p) == SubSeq(p, 1, Len(p) - 1)
Children(d) == {p \in Path : Parent(p) = d}

(* Nothing is under what is not a directory.                               *)
IsTree(t) ==
  /\ t = [p \in Path |-> t[p]]
  /\ \A p \in Path :
       /\ t[p] \in {Absent, Dir} \/ t[p].kind \in {"file", "link"}
       /\ t[p] # Absent => Parent(p) = Root \/ t[Parent(p)] = Dir

PathAssumption ==
  /\ IsFiniteSet(Path) /\ Skipped \cup Unexported \subseteq Path
  /\ \A p \in Path : p = <<p[1]>> \/ (p = <<p[1], p[2]>> /\ <<p[1]>> \in Path)
NodesAssumption ==
  \A p \in Path :
    /\ Absent \in Nodes[p]
    /\ \A n \in Nodes[p] :
         /\ n \in {Absent, Dir} \/ n.kind \in {"file", "link"}
         /\ n.kind = "link" =>
              /\ n.to \in Children(Root) /\ \A m \in Nodes[n.to] : m.kind # "link"
              /\ \A c \in Children(p) :
                   Append(n.to, c[2]) \in Path /\ \A m \in Nodes[c] : m.kind # "link"
TreesAssumption ==
  /\ IsTree(Private) /\ \A p \in Path : Private[p] \in Nodes[p]
  /\ \A f \in Foreign :
       /\ IsTree(f)
       /\ \A p \in Path : f[p].kind = "link" => f[p] \in Nodes[p] /\ p \notin Unexported
BoundsAssumption == MaxEdits \in Nat /\ MaxCrashes \in Nat

VARIABLES
  src,      \* the tree at in_path
  out,      \* the tree at out_path
  run,      \* "idle", "running", or how the last run ended
  stack,    \* the calls of process_dir, the innermost last
  stale,    \* when this run started, out had a link where src has none
  edits, crashes

vars == <<src, out, run, stack, stale, edits, crashes>>

NoRunYet ==
  /\ src = Private
  /\ run = "idle" /\ stack = <<>> /\ stale = FALSE
  /\ edits = 0 /\ crashes = 0
Init == NoRunYet /\ out \in Foreign

-----------------------------------------------------------------------------
Without(t, p) == [q \in Path |-> IF q = p \/ Parent(q) = p THEN Absent ELSE t[q]]

(* What the system calls make of a path of the public tree: a link in the  *)
(* middle is always followed, a final one by some calls only.              *)
Follow(p) == IF p # Root /\ out[p].kind = "link" THEN out[p].to ELSE p
Land(p) == Append(Follow(Parent(p)), p[Len(p)])
IsDir(p) == out[p].kind = "dir"

(* Faults: an entry counts as processed before .export.yaml is asked, or   *)
(* only once it is known not to be skipped.                                *)
AllProcessed(d) == {p \in Children(d) : src[p] # Absent}
UnskippedProcessed(d) == AllProcessed(d) \ (Unexported \cup Skipped)

(* Entries of d the loop over read_dir(in_path) adds to `processed`.       *)
Processed(d) == {p \in Children(d) : src[p] # Absent /\ p \notin Unexported}

Frame(d) == [dir |-> d, phase |-> "copy", todo |-> {p \in Children(d) : src[p] # Absent}]
Top == stack[Len(stack)]
Pop == SubSeq(stack, 1, Len(stack) - 1)
Taken(p) == Append(Pop, [Top EXCEPT !.todo = @ \ {p}])

Working(phase, p) == run = "running" /\ Top.phase = phase /\ p \in Top.todo
Selected(p) == p \notin Unexported /\ p \notin Skipped

Edit(p, n) ==
  /\ run # "running" /\ edits < MaxEdits
  /\ n # src[p]
  /\ Parent(p) # Root => src[Parent(p)] = Dir
  /\ src' = [Without(src, p) EXCEPT ![p] = n]
  /\ run' = "idle" /\ edits' = edits + 1
  /\ UNCHANGED <<out, stack, stale, crashes>>

Start ==
  /\ run # "running"
  /\ run' = "running" /\ stack' = <<Frame(Root)>>
  /\ stale' = \E p \in Path : out[p].kind = "link" /\ src[p].kind # "link"
  /\ UNCHANGED <<src, out, edits, crashes>>

(* An error leaves every process_dir with `?`.                             *)
Abort(why) ==
  /\ run' = why /\ stack' = <<>>
  /\ UNCHANGED <<src, out, stale, edits>>

(* The entry is not exported, or the glob set matches it.                  *)
PassOver(p) ==
  /\ Working("copy", p) /\ ~Selected(p)
  /\ stack' = Taken(p)
  /\ UNCHANGED <<src, out, run, stale, edits, crashes>>

(* process_symlink: whatever is there is removed, then the link is made.   *)
CopyLink(p) ==
  /\ Working("copy", p) /\ Selected(p) /\ src[p].kind = "link"
  /\ out' = [Without(out, Land(p)) EXCEPT ![Land(p)] = src[p]]
  /\ stack' = Taken(p)
  /\ UNCHANGED <<src, run, stale, edits, crashes>>

(* process_file: fs::write and fs::copy follow a link that is in the way.  *)
Written(p) == Follow(Land(p))

(* Fault: a file that is there already is taken to be up to date.          *)
CopyMissing(p) ==
  /\ Working("copy", p) /\ Selected(p) /\ src[p].kind = "file"
  /\ src[p].v # "bad" /\ ~IsDir(Written(p))
  /\ out' = IF out[Written(p)] = Absent THEN [out EXCEPT ![Written(p)] = src[p]] ELSE out
  /\ stack' = Taken(p)
  /\ UNCHANGED <<src, run, stale, edits, crashes>>

CopyFile(p) ==
  /\ Working("copy", p) /\ Selected(p) /\ src[p].kind = "file"
  /\ src[p].v # "bad" /\ ~IsDir(Written(p))
  /\ out' = [out EXCEPT ![Written(p)] = src[p]]
  /\ stack' = Taken(p)
  /\ UNCHANGED <<src, run, stale, edits, crashes>>

RefuseFile(p) ==
  /\ Working("copy", p) /\ Selected(p) /\ src[p].kind = "file"
  /\ src[p].v = "bad" \/ IsDir(Written(p))
  /\ Abort("failed") /\ UNCHANGED crashes

(* process_dir: create_dir_all is content with a link to a directory.      *)
EnterDir(p) ==
  /\ Working("copy", p) /\ Selected(p) /\ src[p] = Dir
  /\ out[Land(p)] = Absent \/ IsDir(Follow(Land(p)))
  /\ out' = IF out[Land(p)] = Absent THEN [out EXCEPT ![Land(p)] = Dir] ELSE out
  /\ stack' = Append(Taken(p), Frame(p))
  /\ UNCHANGED <<src, run, stale, edits, crashes>>

RefuseDir(p) ==
  /\ Working("copy", p) /\ Selected(p) /\ src[p] = Dir
  /\ out[Land(p)] # Absent /\ ~IsDir(Follow(Land(p)))
  /\ Abort("failed") /\ UNCHANGED crashes

(* All entries are done: read_dir(out_path) lists what is to be pruned.    *)
StartPruning ==
  /\ run = "running" /\ Top.phase = "copy" /\ Top.todo = {}
  /\ stack' = Append(Pop, [Top EXCEPT !.phase = "prune",
                             !.todo = {p \in Children(Top.dir) \ Processed(Top.dir) :
                                         out[Land(p)] # Absent}])
  /\ UNCHANGED <<src, out, run, stale, edits, crashes>>

(* is_file and is_dir follow a link, the removals do not: a link to        *)
(* nothing is neither and stays.                                           *)
Prune(p) ==
  /\ Working("prune", p)
  /\ out' = IF out[Follow(Land(p))] # Absent THEN Without(out, Land(p)) ELSE out
  /\ stack' = Taken(p)
  /\ UNCHANGED <<src, run, stale, edits, crashes>>

LeaveDir ==
  /\ run = "running" /\ Top.phase = "prune" /\ Top.todo = {}
  /\ stack' = Pop
  /\ run' = IF Len(stack) = 1 THEN "done" ELSE "running"
  /\ UNCHANGED <<src, out, stale, edits, crashes>>

(* The run is killed between two calls, or inside one of those that are    *)
(* not atomic.  remove_dir_all of p removes what is in it first.           *)
Kill == run = "running" /\ crashes < MaxCrashes /\ crashes' = crashes + 1

Crash == Kill /\ Abort("crashed")

RemovedInPart(p) ==
  \E gone \in (SUBSET Children(p)) \cup {{p} \cup Children(p)} :
    out' = [q \in Path |-> IF q \in gone THEN Absent ELSE out[q]]

CrashInCopy(p) ==
  /\ Kill
  /\ Working("copy", p) /\ Selected(p)
  /\ \/ src[p].kind = "link" /\ RemovedInPart(Land(p))
     \/ /\ src[p].kind = "file" /\ src[p].v # "bad" /\ ~IsDir(Written(p))
        /\ out' = [out EXCEPT ![Written(p)] = Torn]
  /\ run' = "crashed" /\ stack' = <<>>
  /\ UNCHANGED <<src, stale, edits>>

CrashInPrune(p) ==
  /\ Kill
  /\ Working("prune", p) /\ out[Follow(Land(p))] # Absent /\ RemovedInPart(Land(p))
  /\ run' = "crashed" /\ stack' = <<>>
  /\ UNCHANGED <<src, stale, edits>>

Step ==
  \/ StartPruning \/ LeaveDir
  \/ \E p \in Path :
       \/ PassOver(p) \/ CopyLink(p) \/ CopyFile(p) \/ RefuseFile(p)
       \/ EnterDir(p) \/ RefuseDir(p) \/ Prune(p)

Next ==
  \/ Step \/ Start \/ Crash
  \/ \E p \in Path : CrashInCopy(p) \/ CrashInPrune(p) \/ \E n \in Nodes[p] : Edit(p, n)

Spec == Init /\ [][Next]_vars

(* A run goes on until it is killed, and is started again.                 *)
FairSpec == Spec /\ WF_vars(Step) /\ WF_vars(Start)

-----------------------------------------------------------------------------
TypeOK ==
  /\ DOMAIN src = Path /\ DOMAIN out = Path
  /\ run \in {"idle", "running", "done", "failed", "crashed"}
  /\ stale \in BOOLEAN
  /\ edits \in 0 .. MaxEdits /\ crashes \in 0 .. MaxCrashes
  /\ (run = "running") = (stack # <<>>)
  /\ \A i \in DOMAIN stack :
       /\ stack[i].phase \in {"copy", "prune"} /\ stack[i].todo \subseteq Path
       /\ IF i = 1 THEN stack[i].dir = Root ELSE src[stack[i].dir] = Dir

(* Inside a skipped or unexported directory nothing is looked at.          *)
Reached(p) == Selected(p) /\ (Parent(p) = Root \/ Selected(Parent(p)))

Mirrors ==
  \A p \in Path :
    /\ Reached(p) => out[p] = src[p]
    /\ p \in Unexported /\ Parent(p) \notin Skipped => out[p] = Absent

(* A run that succeeds leaves a mirror, whatever earlier runs, crashes and *)
(* edits left behind - unless a link has become something else, see below. *)
SuccessMirrors == TypeOK /\ (run = "done" /\ ~stale => Mirrors)

(* The same for every run: "Path {} not found in the source repository,    *)
(* removing" (compose.rs:478).                                             *)
SuccessPrunes ==
  run = "done" => \A p \in Path : src[p] = Absent /\ p \notin Skipped => out[p] = Absent

(* As long as the private tree has a skipped path that is exported, no run *)
(* touches the public one's.                                               *)
SkippedUntouched ==
  [][\A p \in Skipped :
       src[p] # Absent /\ {p, Parent(p)} \cap Unexported = {} /\ ~stale =>
         out'[p] = out[p]]_vars

(* Killed runs are made good by the runs that follow: once editing stops,  *)
(* the public tree becomes a mirror and stays one, unless runs go on being *)
(* refused or a link has become something else.                            *)
Converges == <>[](run # "failed" /\ ~stale) => <>[]Mirrors
=============================================================================
