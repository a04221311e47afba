--------------------------- MODULE MoveSolutions ---------------------------
(***************************************************************************)
(* xtask move (xtask/src/move.rs): the solutions of one repository are     *)
(* moved to a clean one, task by task: the editable files of the target    *)
(* are removed, then those of the source are copied.  A move may be killed *)
(* at any point and started again.  find_editable_files (task.rs) applies  *)
(* the target's list of editable files to both repositories, returns plain *)
(* files only, and is an error when it finds none.                         *)
(***************************************************************************)
EXTENDS Naturals

CONSTANTS
  Task,        \* the tasks of the clean repository
  Name,        \* the names files of a task can have
  Editable,    \* Editable[t]: those the testing.yaml of t allows to edit
  MaxCrashes   \* bound on the moves that are killed

ASSUME EditableAssumption == Editable \in [Task -> SUBSET Name]
ASSUME MaxCrashesAssumption == MaxCrashes \in Nat

VARIABLES
  to,        \* to[t][n]: who wrote file n of the task in the target; or "torn"
  from,      \* the same for the source; "nobody" is no file
  outdated,  \* the tasks the source repository does not have
  run,       \* "idle", "running", "done", "failed" or "crashed"
  todo,      \* the tasks the walk has not come to
  cur,       \* the task being moved, in a set; or {}
  phase,     \* what is done to the files of cur: "remove" or "copy"
  files,     \* the files the phase has still to deal with
  crashes

walk == <<run, todo, cur, phase, files>>
vars == <<to, from, outdated, walk, crashes>>

Init ==
  /\ to \in [Task -> [Name -> {"course"}]]
  /\ from \in [Task -> [Name -> {"student", "nobody"}]]
  /\ outdated \in SUBSET Task
  /\ run = "idle" /\ todo = {} /\ cur = {} /\ phase = "remove" /\ files = {}
  /\ crashes = 0

-----------------------------------------------------------------------------
(* Fault: the patterns of the target's testing.yaml are not applied.       *)
AllFiles(repo, t) == {n \in Name : repo[t][n] # "nobody"}

EditableFiles(repo, t) == {n \in Editable[t] : repo[t][n] # "nobody"}

Start ==
  /\ run # "running"
  /\ run' = "running" /\ todo' = Task /\ cur' = {}
  /\ UNCHANGED <<to, from, outdated, phase, files, crashes>>

(* "likely your repository is outdated"                                    *)
PassOver(t) ==
  /\ run = "running" /\ cur = {} /\ t \in todo /\ t \in outdated
  /\ todo' = todo \ {t}
  /\ UNCHANGED <<to, from, outdated, run, cur, phase, files, crashes>>

(* Fault: the files to remove are listed in the source.                    *)
EnterWithSource(t) ==
  /\ run = "running" /\ cur = {} /\ t \in todo \ outdated
  /\ EditableFiles(to, t) # {}
  /\ todo' = todo \ {t} /\ cur' = {t}
  /\ phase' = "remove" /\ files' = EditableFiles(from, t)
  /\ UNCHANGED <<to, from, outdated, run, crashes>>

Enter(t) ==
  /\ run = "running" /\ cur = {} /\ t \in todo \ outdated
  /\ EditableFiles(to, t) # {}
  /\ todo' = todo \ {t} /\ cur' = {t}
  /\ phase' = "remove" /\ files' = EditableFiles(to, t)
  /\ UNCHANGED <<to, from, outdated, run, crashes>>

(* find_editable_files fails for the target, and the move with it.         *)
Refuse(t) ==
  /\ run = "running" /\ cur = {} /\ t \in todo \ outdated
  /\ EditableFiles(to, t) = {}
  /\ run' = "failed"
  /\ UNCHANGED <<to, from, outdated, todo, cur, phase, files, crashes>>

Remove(t, n) ==
  /\ run = "running" /\ phase = "remove" /\ t \in cur /\ n \in files
  /\ to' = [to EXCEPT ![t][n] = "nobody"]
  /\ files' = files \ {n}
  /\ UNCHANGED <<from, outdated, run, todo, cur, phase, crashes>>

StartCopying(t) ==
  /\ run = "running" /\ phase = "remove" /\ t \in cur /\ files = {}
  /\ EditableFiles(from, t) # {}
  /\ phase' = "copy" /\ files' = EditableFiles(from, t)
  /\ UNCHANGED <<to, from, outdated, run, todo, cur, crashes>>

(* "No editable files found in {}, skipping"                               *)
Skip(t) ==
  /\ run = "running" /\ phase = "remove" /\ t \in cur /\ files = {}
  /\ EditableFiles(from, t) = {}
  /\ cur' = {}
  /\ UNCHANGED <<to, from, outdated, run, todo, phase, files, crashes>>

Copy(t, n) ==
  /\ run = "running" /\ phase = "copy" /\ t \in cur /\ n \in files
  /\ to' = [to EXCEPT ![t][n] = from[t][n]]
  /\ files' = files \ {n}
  /\ UNCHANGED <<from, outdated, run, todo, cur, phase, crashes>>

Leave(t) ==
  /\ run = "running" /\ phase = "copy" /\ t \in cur /\ files = {}
  /\ cur' = {}
  /\ UNCHANGED <<to, from, outdated, run, todo, phase, files, crashes>>

Finish ==
  /\ run = "running" /\ cur = {} /\ todo = {}
  /\ run' = "done"
  /\ UNCHANGED <<to, from, outdated, todo, cur, phase, files, crashes>>

Crash ==
  /\ run = "running" /\ crashes < MaxCrashes
  /\ run' = "crashed" /\ crashes' = crashes + 1
  /\ UNCHANGED <<to, from, outdated, todo, cur, phase, files>>

(* fs::copy truncates the file, then fills it.                             *)
CrashInCopy(t, n) ==
  /\ run = "running" /\ phase = "copy" /\ t \in cur /\ n \in files /\ crashes < MaxCrashes
  /\ to' = [to EXCEPT ![t][n] = "torn"]
  /\ run' = "crashed" /\ crashes' = crashes + 1
  /\ UNCHANGED <<from, outdated, todo, cur, phase, files>>

Step ==
  \/ Finish
  \/ \E t \in Task :
       \/ PassOver(t) \/ Enter(t) \/ Refuse(t) \/ StartCopying(t) \/ Skip(t) \/ Leave(t)
       \/ \E n \in Name : Remove(t, n) \/ Copy(t, n)

Next == Start \/ Step \/ Crash \/ \E t \in Task, n \in Name : CrashInCopy(t, n)

Spec == Init /\ [][Next]_vars

-----------------------------------------------------------------------------
TypeOK ==
  /\ to \in [Task -> [Name -> {"course", "student", "torn", "nobody"}]]
  /\ from \in [Task -> [Name -> {"student", "nobody"}]]
  /\ outdated \subseteq Task /\ todo \subseteq Task
  /\ run \in {"idle", "running", "done", "failed", "crashed"}
  /\ cur \subseteq Task /\ \A t, u \in cur : t = u
  /\ phase \in {"remove", "copy"} /\ files \subseteq Name
  /\ crashes \in 0 .. MaxCrashes

(* When a move succeeds, each task moved has exactly the student's files   *)
(* among the editable ones: neither a file of the course nor one left over *)
(* from a move that was killed, torn or whole, stays among them.           *)
DoneMoves ==
  run = "done" =>
    \A t \in Task \ outdated : \A n \in Editable[t] : to[t][n] = from[t][n]

(* Files that are not editable keep the course's version whatever the      *)
(* student has under their name, and so does a task the student lacks.     *)
RestIsUntouched ==
  \A t \in Task, n \in Name :
    n \notin Editable[t] \/ t \in outdated => to[t][n] = "course"

(* The move fails only over a task that an earlier move has emptied, by    *)
(* being killed before it copied the first file or by skipping the task.   *)
FailsOnlyWhenEmptied ==
  run = "failed" =>
    \E t \in Task \ outdated :
      EditableFiles(to, t) = {} /\ (crashes > 0 \/ EditableFiles(from, t) = {})

-----------------------------------------------------------------------------
(* The inductive invariant behind them.  A task the walk is through with   *)
(* has been moved; in the one it is at, what is not among the files still  *)
(* to be dealt with is gone, or copied.                                    *)
Moved(t) == \A n \in Editable[t] : to[t][n] = from[t][n]

WalkRight ==
  /\ run = "running" => cur \subseteq Task \ (outdated \cup todo)
  /\ run = "done" => cur = {} /\ todo = {}
  /\ run \in {"running", "done"} => \A t \in Task \ (outdated \cup todo \cup cur) : Moved(t)

CurrentRight ==
  run = "running" =>
    \A t \in cur :
      /\ files \subseteq Editable[t]
      /\ phase = "remove" => \A n \in Editable[t] \ files : to[t][n] = "nobody"
      /\ phase = "copy" => /\ EditableFiles(from, t) # {}
                           /\ \A n \in Editable[t] \ files : to[t][n] = from[t][n]

EmptiedRight ==
  \A t \in Task \ outdated :
    EditableFiles(to, t) = {} =>
      \/ crashes > 0 \/ EditableFiles(from, t) = {}
      \/ run = "running" /\ t \in cur

IInv ==
  /\ TypeOK /\ RestIsUntouched /\ WalkRight /\ CurrentRight /\ EmptiedRight
  /\ FailsOnlyWhenEmptied
=============================================================================
