-------------------------- MODULE RedirectChecker --------------------------
(***************************************************************************)
(* The checker of tasks/04-procs-1/redirect-io (checker.c) in the main of  *)
(* common/include/nejudge/checker.h: it judges the file that the program   *)
(* was to create, whose name is the third of params in the .inf file, by   *)
(* its sort, its access mode and its bytes, which are read in chunks.      *)
(***************************************************************************)
EXTENDS Naturals, Sequences

CONSTANTS
  Byte,       \* the bytes in files
  MaxSize,    \* bound on their number
  Chunk       \* the size of read_buf, 512 in the code

Text == UNION {[1 .. n -> Byte] : n \in 0 .. MaxSize}

VARIABLES
  info,            \* of testinfo_parse: "ok", "failed", or "few" params
  output,          \* what the file is: its sort, and its mode
  readable,        \* which of "user", the file, and "correct" can be opened
  user, correct,   \* what is in it, and in the correct file
  pc, stream,      \* where the checker is, and what is left of the file read
  corr_s, user_s,  \* what has been read of each
  code             \* what the checker exits with

inputs == <<info, output, readable, user, correct>>
vars == <<inputs, pc, stream, corr_s, user_s, code>>

Output ==
  [sort : {"regular"}, mode : {"0666 & ~umask", "0666", "other"}]
    \cup [sort : {"missing", "other"}, mode : {"other"}]

Input ==
  /\ info \in {"ok", "few", "failed"} /\ output \in Output
  /\ readable \in SUBSET {"user", "correct"}
  /\ user \in Text /\ correct \in IF "correct" \in readable THEN Text ELSE {<<>>}

Start == pc = "main" /\ stream = <<>> /\ corr_s = <<>> /\ user_s = <<>> /\ code = "none"

Init == Input /\ Start

-----------------------------------------------------------------------------
Exit(with) == pc' = "exited" /\ code' = with /\ UNCHANGED <<inputs, stream, corr_s, user_s>>

(* main does not look at what testinfo_parse returns; after a failure      *)
(* cmd_argv is null, with too few params the name is.                      *)
Main ==
  /\ pc = "main"
  /\ CASE info = "failed" -> Exit("SIGSEGV")
       [] info = "few" -> Exit("WA")
       [] info = "ok" -> pc' = "stat" /\ UNCHANGED <<inputs, stream, corr_s, user_s, code>>

Stat ==
  /\ pc = "stat"
  /\ IF output.sort = "regular" /\ output.mode # "other"
       THEN pc' = "open" /\ UNCHANGED <<inputs, stream, corr_s, user_s, code>>
       ELSE Exit("WA")

Open ==
  /\ pc = "open"
  /\ CASE readable = {"user", "correct"} ->
              pc' = "read corr" /\ stream' = correct /\ UNCHANGED <<inputs, corr_s, user_s, code>>
       [] readable = {"user"} -> Exit("CF")
       [] "user" \notin readable -> Exit("WA")

(* checker_read_file_f: fread fills the chunk unless the file ends.        *)
Front(s, n) == SubSeq(s, 1, IF Len(s) < n THEN Len(s) ELSE n)
Back(s, n) == SubSeq(s, n + 1, Len(s))

ReadChunk ==
  /\ pc \in {"read corr", "read user"} /\ stream # <<>>
  /\ IF pc = "read corr"
       THEN corr_s' = corr_s \o Front(stream, Chunk) /\ UNCHANGED user_s
       ELSE user_s' = user_s \o Front(stream, Chunk) /\ UNCHANGED corr_s
  /\ stream' = Back(stream, Chunk)
  /\ UNCHANGED <<inputs, pc, code>>

ReadEnds ==
  /\ pc \in {"read corr", "read user"} /\ stream = <<>>
  /\ IF pc = "read corr" THEN pc' = "read user" /\ stream' = user
     ELSE pc' = "compare" /\ UNCHANGED stream
  /\ UNCHANGED <<inputs, corr_s, user_s, code>>

(* Fault: as many bytes as are expected are compared, whatever follows.    *)
ComparePrefix == pc = "compare" /\ Exit(IF Front(user_s, Len(corr_s)) = corr_s THEN "OK" ELSE "WA")

(* The lengths, then the bytes.                                            *)
Compare ==
  /\ pc = "compare"
  /\ Exit(IF Len(user_s) = Len(corr_s) /\ \A i \in DOMAIN corr_s : user_s[i] = corr_s[i]
            THEN "OK" ELSE "WA")

Next == Main \/ Stat \/ Open \/ ReadChunk \/ ReadEnds \/ Compare

Spec == Init /\ [][Next]_vars

-----------------------------------------------------------------------------
TypeOK ==
  /\ pc \in {"main", "stat", "open", "read corr", "read user", "compare", "exited"}
  /\ code \in {"none", "OK", "WA", "CF", "SIGSEGV"}
  /\ stream \in Text /\ corr_s \in Text /\ user_s \in Text

(* The checker accepts exactly the right file: a regular one of the mode   *)
(* that open gives it, with the very bytes that are expected.  It fails    *)
(* itself only where it cannot tell what they are.                         *)
OkMeansEqual ==
  pc = "exited" =>
    /\ code = "OK" <=> /\ info = "ok" /\ readable = {"user", "correct"} /\ user = correct
                       /\ output.sort = "regular" /\ output.mode # "other"
    /\ code = "CF" => "correct" \notin readable
=============================================================================
