---------------------------- MODULE CheckerLines ----------------------------
(***************************************************************************)
(* checker_read_file_by_line and checker_normalize_file of                 *)
(* common/include/nejudge/checker.h: a file is cut into lines, which lose  *)
(* the spaces at their ends, and then the file the blank lines at its own, *)
(* so that checkers can compare files line by line.                        *)
(***************************************************************************)
EXTENDS Naturals, Sequences, FiniteSets

CONSTANT MaxSize   \* bound on the size of the file

(* A byte: the end of a line, another one that isspace, any other, or 0.   *)
ByteKind == {"nl", "space", "x", "zero"}
IsSpace(c) == c \in {"nl", "space"}

VARIABLES
  file, at,   \* the bytes, and how many of them have been read
  b,          \* b_v: the line so far
  lines,      \* lb_v
  i,          \* the line being normalized
  pc

vars == <<file, at, b, lines, i, pc>>

Input == file \in UNION {[1 .. n -> ByteKind] : n \in 0 .. MaxSize}

Start == at = 0 /\ b = <<>> /\ lines = <<>> /\ i = 1 /\ pc = "read"

Init == Input /\ Start

-----------------------------------------------------------------------------
Getc ==
  /\ pc = "read" /\ at < Len(file) /\ at' = at + 1
  /\ LET c == file[at + 1] IN
     CASE c = "zero" -> pc' = "CF" /\ UNCHANGED <<b, lines>>
       [] c = "nl"   -> lines' = Append(lines, Append(b, c)) /\ b' = <<>> /\ UNCHANGED pc
       [] OTHER      -> b' = Append(b, c) /\ UNCHANGED <<lines, pc>>
  /\ UNCHANGED <<file, i>>

(* A last line without an end is one too.                                  *)
Eof ==
  /\ pc = "read" /\ at = Len(file)
  /\ lines' = (IF b = <<>> THEN lines ELSE Append(lines, b))
  /\ pc' = "trim"
  /\ UNCHANGED <<file, at, b, i>>

(* checker_normalize_file: first every line ...                            *)
Trimmed(s) == SubSeq(s, 1, CHOOSE n \in 0 .. Len(s) :
                             /\ n > 0 => ~IsSpace(s[n])
                             /\ \A k \in n + 1 .. Len(s) : IsSpace(s[k]))

Trim ==
  /\ pc = "trim"
  /\ IF i <= Len(lines) THEN lines' = [lines EXCEPT ![i] = Trimmed(@)] /\ i' = i + 1 /\ UNCHANGED pc
     ELSE pc' = "drop" /\ UNCHANGED <<lines, i>>
  /\ UNCHANGED <<file, at, b>>

(* Fault: only one blank line is dropped.                                  *)
DropOne ==
  /\ pc = "drop" /\ pc' = "done"
  /\ lines' = IF lines # <<>> /\ lines[Len(lines)] = <<>> THEN SubSeq(lines, 1, Len(lines) - 1) ELSE lines
  /\ UNCHANGED <<file, at, b, i>>

(* ... then the blank lines at the end.                                    *)
Drop ==
  /\ pc = "drop"
  /\ IF lines # <<>> /\ lines[Len(lines)] = <<>>
       THEN lines' = SubSeq(lines, 1, Len(lines) - 1) /\ UNCHANGED pc
       ELSE pc' = "done" /\ UNCHANGED lines
  /\ UNCHANGED <<file, at, b, i>>

Next == Getc \/ Eof \/ Trim \/ Drop

Spec == Init /\ [][Next]_vars

-----------------------------------------------------------------------------
TypeOK ==
  /\ at \in 0 .. Len(file) /\ i \in 1 .. Len(file) + 2
  /\ pc \in {"read", "trim", "drop", "done", "CF"}
  /\ \A k \in DOMAIN b : b[k] \in ByteKind \ {"nl", "zero"}

(* The bytes that are not at the end of a line or of the file for nothing, *)
(* each as its line, how many come before it there, and what it is.        *)
Ends(p) == Cardinality({k \in 1 .. p - 1 : file[k] = "nl"})
Placed ==
  {[line |-> Ends(p) + 1, before |-> Cardinality({k \in 1 .. p - 1 : Ends(k) = Ends(p) /\ file[k] # "nl"}),
    is |-> file[p]] :
      p \in {k \in DOMAIN file : /\ file[k] # "nl"
                                 /\ \E j \in k .. Len(file) : ~IsSpace(file[j]) /\ Ends(j) = Ends(k)}}

(* What is left is every byte of the file, in its line and place, but the  *)
(* spaces with only spaces behind them; the last line is not blank; and a  *)
(* file with a byte 0 is refused.                                          *)
LinesRight ==
  /\ pc = "done" =>
       /\ Placed = UNION {{[line |-> k, before |-> j - 1, is |-> lines[k][j]] : j \in DOMAIN lines[k]}
                            : k \in DOMAIN lines}
       /\ lines # <<>> => lines[Len(lines)] # <<>>
  /\ pc \notin {"read", "CF"} => "zero" \notin {file[k] : k \in DOMAIN file}
=============================================================================
