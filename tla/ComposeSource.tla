--------------------------- MODULE ComposeSource ---------------------------
(***************************************************************************)
(* process_source of xtask compose (xtask/src/compose.rs): how a source    *)
(* file of the private repository is turned into the public one.  A line   *)
(* is abstracted to the compose command parse_token finds in it and to     *)
(* what the loop asks of it; one action is one turn of the `while let`.    *)
(* Positions are 1-based here, 0-based in the code.                        *)
(***************************************************************************)
EXTENDS Naturals, Sequences, FiniteSets

CONSTANTS
  Line,       \* the lines a source is made of
  MaxLines,   \* bound on the length of a source
  Task,       \* the names given to compose::private(...)
  NoTask      \* the task of a line whose first property is not a name

(* token is "none" for a line without a command and "bad" for one that     *)
(* parse_token rejects.  Of a public command only the stub is kept, so its *)
(* properties name no task and are no hint.                                *)
ASSUME LineAssumption ==
  Line \subseteq
    [token : {"none", "private", "public", "begin_private", "end_private", "bad"},
     blank : BOOLEAN, no_hint : BOOLEAN, unimpl : BOOLEAN, task : Task \cup {NoTask}]
ASSUME TokenAssumption ==
  \A l \in Line :
    /\ l.token # "none" => ~l.blank
    /\ l.token = "public" => l.task = NoTask /\ ~l.no_hint
ASSUME NoTaskAssumption == NoTask \notin Task
ASSUME MaxLinesAssumption == MaxLines \in Nat

VARIABLES
  lines,            \* the source
  next_pos,         \* the first line not dealt with
  dst,              \* the output: source lines and what stands for a cut
  removed_lines,
  removed_by_task,
  status,           \* "running", "done", or the error returned
  err_line          \* the line number in the error, 0 if there is none

vars == <<lines, next_pos, dst, removed_lines, removed_by_task, status, err_line>>

Sources == UNION {[1 .. n -> Line] : n \in 0 .. MaxLines}

Init ==
  /\ lines \in Sources
  /\ next_pos = 1 /\ dst = <<>>
  /\ removed_lines = 0 /\ removed_by_task = [t \in Task |-> 0]
  /\ status = "running" /\ err_line = 0

-----------------------------------------------------------------------------
IsToken(i) == i \in DOMAIN lines /\ lines[i].token # "none"

(* Fault: a token is found, but perhaps not the first one.                 *)
AnyToken(start, i) == IsToken(i) /\ i >= start

(* find_token(lines, start) returns, or fails to parse, line i.            *)
FirstToken(start, i) ==
  IsToken(i) /\ i >= start /\ \A j \in start .. i - 1 : ~IsToken(j)

NoToken(start) == \A i \in start .. Len(lines) : ~IsToken(i)

(* Fault: a begin_private inside a block is stepped over too.              *)
StopsAtEndOnly(b, e) ==
  /\ e \in b + 1 .. Len(lines)
  /\ lines[e].token \in {"end_private", "bad"}
  /\ \A j \in b + 1 .. e - 1 : lines[j].token \notin {"end_private", "bad"}

(* The search for the end of the block opened at b stops at line e: single *)
(* line commands are stepped over.                                         *)
BlockStopsAt(b, e) ==
  /\ e \in b + 1 .. Len(lines)
  /\ lines[e].token \in {"begin_private", "end_private", "bad"}
  /\ \A j \in b + 1 .. e - 1 : lines[j].token \in {"none", "private", "public"}

(* The find_token call that stumbled over line e had started at s: at      *)
(* start, or after the token found before.                                 *)
SearchedFrom(start, s, e) ==
  /\ s \in start .. e /\ FirstToken(s, e)
  /\ s = start \/ IsToken(s - 1)

Copy(first, last) == [k \in 1 .. last - first + 1 |-> [kind |-> "line", at |-> first + k - 1]]
Insert(kind, b) == <<[kind |-> kind, at |-> b]>>

Marker(b) ==
  IF lines[b].token = "public" THEN Insert("stub", b)
  ELSE Insert("hint", b) \o (IF lines[b].unimpl THEN Insert("throw", b) ELSE <<>>)

IsBlank(i) == i \in DOMAIN lines /\ lines[i].blank

CutUpTo(b, e, next, task) ==
  /\ dst' = dst \o Copy(next_pos, b - 1) \o (IF lines[b].no_hint THEN <<>> ELSE Marker(b))
  /\ next_pos' = next
  /\ removed_lines' = removed_lines + (e - b)
  /\ removed_by_task' =
       [t \in Task |-> removed_by_task[t] + IF t = task THEN e - b ELSE 0]
  /\ UNCHANGED <<lines, status, err_line>>

(* Faults: the line after a cut without a hint goes along although that  *)
(* before is not blank; the task is read from the last line.             *)
BlankAlways(b, e) ==
  CutUpTo(b, e, IF lines[b].no_hint /\ IsBlank(e) THEN e + 1 ELSE e, lines[b].task)

LastNamesTask(b, e) ==
  CutUpTo(b, e, IF lines[b].no_hint /\ IsBlank(b - 1) /\ IsBlank(e) THEN e + 1 ELSE e,
          lines[e - 1].task)

(* Lines b .. e - 1 are cut out; a no_hint cut between two blank lines     *)
(* takes the second of them along.                                         *)
Cut(b, e) ==
  CutUpTo(b, e, IF lines[b].no_hint /\ IsBlank(b - 1) /\ IsBlank(e) THEN e + 1 ELSE e,
          lines[b].task)

Fail(error, line) ==
  /\ status' = error /\ err_line' = line
  /\ UNCHANGED <<lines, next_pos, dst, removed_lines, removed_by_task>>

CutLine(b) ==
  /\ status = "running" /\ FirstToken(next_pos, b)
  /\ lines[b].token \in {"private", "public"}
  /\ Cut(b, b + 1)

CutBlock(b, e) ==
  /\ status = "running" /\ FirstToken(next_pos, b)
  /\ lines[b].token = "begin_private"
  /\ BlockStopsAt(b, e) /\ lines[e].token = "end_private"
  /\ Cut(b, e + 1)

UnpairedEnd(b) ==
  /\ status = "running" /\ FirstToken(next_pos, b)
  /\ lines[b].token = "end_private"
  /\ Fail("unpaired", b)

NestedBegin(b, e) ==
  /\ status = "running" /\ FirstToken(next_pos, b)
  /\ lines[b].token = "begin_private"
  /\ BlockStopsAt(b, e) /\ lines[e].token = "begin_private"
  /\ Fail("nested", e)

UnclosedBegin(b) ==
  /\ status = "running" /\ FirstToken(next_pos, b)
  /\ lines[b].token = "begin_private"
  /\ \A e \in b + 1 .. Len(lines) : ~BlockStopsAt(b, e)
  /\ Fail("unclosed", b)

(* parse_token fails: find_token counts the lines from where it started.   *)
BadToken(b) ==
  /\ status = "running" /\ FirstToken(next_pos, b)
  /\ lines[b].token = "bad"
  /\ Fail("bad", b - next_pos + 1)

BadTokenInBlock(b, e, s) ==
  /\ status = "running" /\ FirstToken(next_pos, b)
  /\ lines[b].token = "begin_private"
  /\ BlockStopsAt(b, e) /\ lines[e].token = "bad"
  /\ SearchedFrom(b + 1, s, e)
  /\ Fail("bad", e - s + 1)

Finish ==
  /\ status = "running" /\ NoToken(next_pos)
  /\ dst' = dst \o Copy(next_pos, Len(lines))
  /\ status' = "done"
  /\ UNCHANGED <<lines, next_pos, removed_lines, removed_by_task, err_line>>

Step ==
  \/ Finish
  \/ \E b \in DOMAIN lines :
       \/ CutLine(b) \/ UnpairedEnd(b) \/ UnclosedBegin(b) \/ BadToken(b)
       \/ \E e \in DOMAIN lines :
            \/ CutBlock(b, e) \/ NestedBegin(b, e)
            \/ \E s \in b + 1 .. e : BadTokenInBlock(b, e, s)

Returned == status # "running" /\ UNCHANGED vars

Next == Step \/ Returned

Spec == Init /\ [][Next]_vars

-----------------------------------------------------------------------------
TypeOK ==
  /\ lines \in Sources
  /\ next_pos \in 1 .. Len(lines) + 1
  /\ dst \in Seq([kind : {"line", "hint", "throw", "stub"}, at : 1 .. Len(lines)])
  /\ removed_lines \in 0 .. Len(lines)
  /\ removed_by_task \in [Task -> 0 .. Len(lines)]
  /\ status \in {"running", "done", "unpaired", "nested", "unclosed", "bad"}
  /\ err_line \in 0 .. Len(lines)

InBlock(b, i) ==
  /\ lines[b].token = "begin_private"
  /\ \A e \in b + 1 .. i - 1 : lines[e].token # "end_private"

(* The meaning of the commands, without the loop: a line is private if it  *)
(* carries a command or follows a begin_private that is still open.        *)
Private(i) ==
  \/ lines[i].token # "none"
  \/ \E b \in 1 .. i - 1 : InBlock(b, i)

WellFormed ==
  LET bound(i) == lines[i].token \in {"begin_private", "end_private"}
      adjacent(b, e) == b < e /\ \A j \in b + 1 .. e - 1 : ~bound(j) IN
  \A i \in DOMAIN lines :
    /\ lines[i].token # "bad"
    /\ lines[i].token = "begin_private" =>
         \E e \in DOMAIN lines : adjacent(i, e) /\ lines[e].token = "end_private"
    /\ lines[i].token = "end_private" =>
         \E b \in DOMAIN lines : adjacent(b, i) /\ lines[b].token = "begin_private"

Emitted == {dst[k].at : k \in {k \in DOMAIN dst : dst[k].kind = "line"}}

(* No line of the solution gets into the public repository: nothing inside *)
(* a block, and no line that carries a command, is ever copied to dst.     *)
PrivateStaysPrivate == \A i \in Emitted : ~Private(i)

(* Lines, hints and stubs come out in the order of the source.             *)
Ordered ==
  \A j, k \in DOMAIN dst :
    j < k => dst[j].at < dst[k].at \/ (dst[j].at = dst[k].at /\ dst[k].kind = "throw")

(* The output is in the order of the source and every public line is in    *)
(* it, except the blank line after a cut without a hint, and then the      *)
(* output already has a blank line there.                                  *)
PublicSurvives ==
  /\ Ordered
  /\ status = "done" =>
       \A i \in DOMAIN lines :
         ~Private(i) /\ i \notin Emitted =>
           /\ lines[i].blank
           /\ \E k \in DOMAIN dst :
                /\ dst[k].kind = "line" /\ lines[dst[k].at].blank
                /\ dst[k].at < i /\ (k = Len(dst) \/ dst[k + 1].at > i)

(* The statistics count each private line dealt with exactly once, and for *)
(* the task named where its cut begins.                                    *)
StatisticsRight ==
  LET cut == {i \in 1 .. next_pos - 1 : Private(i)}
      by(t) == {i \in cut :
                  \/ \E b \in 1 .. i - 1 : InBlock(b, i) /\ lines[b].task = t
                  \/ lines[i].task = t /\ \A b \in 1 .. i - 1 : ~InBlock(b, i)} IN
  /\ removed_lines = Cardinality(cut)
  /\ \A t \in Task : removed_by_task[t] = Cardinality(by(t))

(* The inductive invariant behind PrivateStaysPrivate: no block is open    *)
(* where the search goes on, what has been copied lies before, and no more *)
(* is counted than has been passed.                                        *)
PassedRight ==
  /\ \A b \in 1 .. next_pos - 1 : ~InBlock(b, next_pos)
  /\ \A i \in Emitted : status = "running" => i < next_pos
  /\ removed_lines < next_pos
  /\ \A t \in Task : removed_by_task[t] < next_pos

IInv == TypeOK /\ PassedRight /\ PrivateStaysPrivate

(* A source is refused exactly when its commands are malformed, and the    *)
(* line an error about pairing names is the offending one.                 *)
RefusesTheMalformed ==
  /\ status = "done" => WellFormed
  /\ status \notin {"running", "done"} => ~WellFormed
  /\ status = "unpaired" =>
       /\ lines[err_line].token = "end_private"
       /\ \A b \in 1 .. err_line - 1 : ~InBlock(b, err_line)
  /\ status = "nested" =>
       /\ lines[err_line].token = "begin_private"
       /\ \E b \in 1 .. err_line - 1 : InBlock(b, err_line)
  /\ status = "unclosed" => InBlock(err_line, Len(lines) + 1)

(* What process_source tells its caller is right: the numbers of private   *)
(* lines, and the errors.                                                  *)
ReportRight == StatisticsRight /\ RefusesTheMalformed
=============================================================================
