------------------------------- MODULE Guards -------------------------------
(***************************************************************************)
(* What unit tests guard a process by (common/catch/utils/src):            *)
(* FileDescriptorsGuard keeps a copy of every descriptor that is open at   *)
(* the top of the table, and later tells whether the table is as it was;   *)
(* RLimGuard lowers a soft limit, here that on descriptors, for a while.   *)
(* Between them the code under test uses descriptors, any way it likes but *)
(* for one: it does not put anything where the copies are.                 *)
(***************************************************************************)
EXTENDS Integers, Sequences, FiniteSets, FiniteSetsExt

CONSTANTS
  File,     \* open files, as fork and dup share them
  Hard,     \* the hard limit on descriptors
  Most,     \* 2048 in MaxFdNum
  MaxOps    \* bound on what the code under test does

(* What is open is not 0, which is a closed descriptor.                    *)
TableAssumption == Hard \in Nat /\ Most \in Nat /\ 0 \notin File

Fd == 0 .. Hard - 1

VARIABLES
  table,    \* the descriptor table, 0 for a closed one
  limit,    \* the soft limit
  limits,   \* prev_limit_ of the RLimGuards, the innermost last
  kcmp,     \* whether the system has kcmp
  guard,    \* "none", "copying", "live", "gone", or how it has failed
  todo,     \* what is still to be copied, of fds
  cur,      \* cur_fd_num
  copies,   \* the pairs of a descriptor and its copy
  verdict,  \* what TestDescriptorsState has said, if nothing happened since
  before,   \* the table when the guard was constructed (for the properties)
  ops       \* how much the code under test has done

state == <<guard, todo, cur, copies, before>>
limitVars == <<limit, limits>>
vars == <<table, limitVars, kcmp, state, verdict, ops>>

Open(t) == {fd \in Fd : t[fd] # 0}

Input == table \in [Fd -> File \cup {0}] /\ kcmp \in BOOLEAN

Start ==
  /\ before = table /\ limit = Hard /\ limits = <<>>
  /\ guard = "none" /\ todo = {} /\ cur = 0 /\ copies = {}
  /\ verdict = "none" /\ ops = 0

Init == Input /\ Start

-----------------------------------------------------------------------------
(* The iterator of GetOpenFileDescriptors takes a descriptor, which has    *)
(* been given back when they are looked at; if there is none it throws.    *)
CanList == \E fd \in Fd : fd < limit /\ table[fd] = 0

MaxFdNum == Min({limit, Most})

Construct ==
  /\ guard = "none"
  /\ guard' = CASE ~CanList -> "thrown"
                [] CanList /\ Open(table) = {} -> "live"
                [] CanList /\ Open(table) # {} /\ 2 * Cardinality(Open(table)) >= MaxFdNum -> "no room"
                [] OTHER -> "copying"
  /\ todo' = Open(table) /\ cur' = MaxFdNum - 1 /\ before' = table
  /\ verdict' = "none"
  /\ UNCHANGED <<table, limitVars, kcmp, copies, ops>>

(* The copies so far and those to come; fds is their union.                *)
fds == todo \cup {c[1] : c \in copies}

Copy(from, to) ==
  /\ IF to < 0 THEN guard' = "dup3 failed" /\ UNCHANGED <<table, copies>>
     ELSE /\ table' = [table EXCEPT ![to] = table[from]]
          /\ copies' = copies \cup {<<from, to>>}
          /\ guard' = IF todo = {from} THEN "live" ELSE guard
  /\ todo' = todo \ {from} /\ cur' = to - 1
  /\ UNCHANGED <<limitVars, kcmp, before, verdict, ops>>

(* Fault: what is open is not left out.                                    *)
CopyDown == guard = "copying" /\ Copy(Min(todo), cur)

(* The next descriptor goes to the highest number below that of the last   *)
(* one that is not open.                                                   *)
CopyNext == guard = "copying" /\ Copy(Min(todo), Max({n \in -1 .. cur : n \notin fds}))

TestSameFd(fd1, fd2) == ~kcmp \/ (table[fd1] # 0 /\ table[fd1] = table[fd2])

(* Fault: the open descriptors are not counted.                            *)
TestOfCopies ==
  /\ guard = "live" /\ verdict = "none"
  /\ verdict' = IF \A c \in copies : TestSameFd(c[1], c[2]) THEN "same" ELSE "changed"
  /\ UNCHANGED <<table, limitVars, kcmp, state, ops>>

TestDescriptorsState ==
  /\ guard = "live" /\ verdict = "none"
  /\ verdict' = CASE \E c \in copies : ~TestSameFd(c[1], c[2]) -> "changed"
                  [] (\A c \in copies : TestSameFd(c[1], c[2])) /\ ~CanList -> "thrown"
                  [] OTHER -> IF Cardinality(Open(table)) = 2 * Cardinality(copies)
                                THEN "same" ELSE "changed"
  /\ UNCHANGED <<table, limitVars, kcmp, state, ops>>

Destruct ==
  /\ guard = "live" /\ guard' = "gone"
  /\ table' = [fd \in Fd |-> IF \E c \in copies : c[2] = fd THEN 0 ELSE table[fd]]
  /\ UNCHANGED <<limitVars, kcmp, todo, cur, copies, before, verdict, ops>>

-----------------------------------------------------------------------------
(* ModifySoftLimit, up to the hard limit.  The guards are scopes: the last *)
(* one constructed is the first one to be reset.                           *)
Outside == guard \in {"none", "live", "gone"} /\ ops < MaxOps /\ ops' = ops + 1

(* Fault: the limit is saved once it has been set.                         *)
LimitSavedLate(new) ==
  /\ Outside
  /\ limit' = new /\ limits' = Append(limits, new)
  /\ verdict' = "none"
  /\ UNCHANGED <<table, kcmp, state>>

Limit(new) ==
  /\ Outside
  /\ limit' = new /\ limits' = Append(limits, limit)
  /\ verdict' = "none"
  /\ UNCHANGED <<table, kcmp, state>>

Reset ==
  /\ guard # "copying" /\ limits # <<>>
  /\ limit' = limits[Len(limits)] /\ limits' = SubSeq(limits, 1, Len(limits) - 1)
  /\ UNCHANGED <<table, kcmp, state, verdict, ops>>

(* The code under test opens a file, closes one or calls dup2; it may      *)
(* close a copy, but nothing new gets the number of one.                   *)
Uses(t) ==
  /\ Outside /\ table' = t /\ verdict' = "none"
  /\ UNCHANGED <<limitVars, kcmp, state>>

Free == {fd \in Fd : fd < limit /\ table[fd] = 0}
OpenFile(f) ==
  /\ f \notin {table[fd] : fd \in Fd} /\ Free # {} /\ Min(Free) \notin {c[2] : c \in copies}
  /\ Uses([table EXCEPT ![Min(Free)] = f])
Close(fd) == table[fd] # 0 /\ Uses([table EXCEPT ![fd] = 0])
Dup2(from, to) ==
  /\ table[from] # 0 /\ to < limit /\ to \notin {c[2] : c \in copies}
  /\ Uses([table EXCEPT ![to] = table[from]])

Next ==
  \/ Construct \/ CopyNext \/ TestDescriptorsState \/ Destruct \/ Reset
  \/ \E new \in 0 .. Hard : Limit(new)
  \/ \E f \in File : OpenFile(f)
  \/ \E fd \in Fd : Close(fd) \/ \E to \in Fd : Dup2(fd, to)

Spec == Init /\ [][Next]_vars

-----------------------------------------------------------------------------
TypeOK ==
  /\ table \in [Fd -> File \cup {0}] /\ limit \in 0 .. Hard
  /\ guard \in {"none", "copying", "live", "gone", "thrown", "no room", "dup3 failed"}
  /\ copies \subseteq Fd \X Fd /\ cur \in -2 .. Hard
  /\ verdict \in {"none", "same", "changed", "thrown"}

(* The table with the copies in it.                                        *)
Guarded == [fd \in Fd |-> IF \E c \in copies : c[2] = fd
                            THEN before[(CHOOSE c \in copies : c[2] = fd)[1]] ELSE before[fd]]

(* Where there is kcmp, TestDescriptorsState is right: the table is the    *)
(* same, copies included, exactly if it says so.  Without kcmp it still    *)
(* sees a number of open descriptors that has changed.                     *)
VerdictRight ==
  /\ kcmp /\ guard = "live" /\ verdict \in {"same", "changed"} => (verdict = "same" <=> table = Guarded)
  /\ guard = "live" /\ verdict = "same" => Cardinality(Open(table)) = Cardinality(Open(Guarded))

(* The guard costs the tests nothing: no copy replaces what was open, dup3 *)
(* never fails, and once the guard has found the table the same and is     *)
(* gone, so is every copy; after the last RLimGuard the limit is the old.  *)
CopiesClobberNothing ==
  /\ guard # "dup3 failed"
  /\ guard = "copying" => /\ table = Guarded
                          /\ \A c \in copies : before[c[2]] = 0
                          /\ \A c, d \in copies : c[2] = d[2] => c = d
NoTrace ==
  /\ kcmp /\ guard = "gone" /\ verdict = "same" => table = before
  /\ limits = <<>> => limit = Hard

GuardsCostNothing == CopiesClobberNothing /\ NoTrace
=============================================================================
