------------------------------ MODULE TestInfo ------------------------------
(***************************************************************************)
(* testinfo_parse and testinfo_free (common/include/nejudge/testinfo.h):   *)
(* an .inf file becomes a testinfo_t, which owns what parse_cmdline has    *)
(* allocated for the values.  A block is <<k, i>>: word i of line k, or    *)
(* for i = 0 the vector of its words.  A line is a record of what decides  *)
(* its fate: the name, and the number of words and whether a word is a     *)
(* number in range, or the error parse_line finds before it has them.      *)
(* One field stands for each sort: environ for seven arrays.               *)
(***************************************************************************)
EXTENDS Naturals, Sequences

CONSTANT MaxLines   \* bound on the lines of the file

Array == {"params", "environ"}
String == {"comment"}
Number == {"exit_code"}
Flag == {"check_stderr"}
Name == Array \cup String \cup Number \cup Flag \cup {"unknown"}

Line ==
  [name : Name, words : 0 .. 2, inRange : BOOLEAN, error : {"none"}]
    \cup [name : {"none"}, words : {0}, inRange : {FALSE},
          error : {"blank", "IDENT_EXPECTED", "EQUAL_EXPECTED", "UNCLOSED_QUOTE"}]

VARIABLES
  file, at,       \* the lines, and how many have been read
  array,          \* [u, of]: how many words, and of which line; of 0 for none
  string, number, \* the line each value is from, 0 for none
  heap,           \* the blocks allocated
  stray,          \* a block was freed that was not allocated
  pc              \* "parse", what testinfo_parse returns, or "freed"

fields == <<array, string, number>>
vars == <<file, at, fields, heap, stray, pc>>

Unset == [u |-> 0, of |-> 0]
Zeroed ==
  /\ array' = [f \in Array |-> Unset]
  /\ string' = [f \in String |-> 0] /\ number' = [f \in Number \cup Flag |-> 0]

(* Fault: params are treated like the others.                              *)
HasWords(f) == array[f].u > 0

(* cmd_argc is -1 until params are set, even to no words.                  *)
IsSet(f) == IF f = "params" THEN array[f].of # 0 ELSE array[f].u > 0

Input == file \in UNION {[1 .. n -> Line] : n \in 0 .. MaxLines}

Start ==
  /\ at = 0 /\ heap = {} /\ stray = FALSE /\ pc = "parse"
  /\ array = [f \in Array |-> Unset]
  /\ string = [f \in String |-> 0] /\ number = [f \in Number \cup Flag |-> 0]

Init == Input /\ Start

-----------------------------------------------------------------------------
Vector(k) == <<k, 0>>
Words(k, n) == {k} \X (1 .. n)
Cmd(k) == {Vector(k)} \cup Words(k, file[k].words)

(* free of all of these, on a heap that may have been added to.            *)
Free(blocks, from) == heap' = from \ blocks /\ stray' = (stray \/ ~ (blocks \subseteq from))

(* testinfo_parse gives up: nothing is left in *pt, what it owned is lost. *)
Fail(error) == pc' = error /\ Zeroed

(* The next line, of which parse_cmdline has allocated the words.          *)
At(name) ==
  /\ pc = "parse" /\ at < Len(file) /\ at' = at + 1
  /\ file[at + 1].name \in name /\ UNCHANGED file

(* FAIL: free_cmdline of what the line was cut into.                       *)
Refuse(k, error) == Fail(error) /\ Free(Cmd(k), heap \cup Cmd(k))

(* A blank line, or one parse_line refuses before there are any words, or  *)
(* parse_cmdline, which frees them itself.                                 *)
Blank == At({"none"}) /\ file[at + 1].error = "blank" /\ UNCHANGED <<fields, heap, stray, pc>>

BadLine ==
  /\ At({"none"}) /\ file[at + 1].error # "blank"
  /\ Fail(file[at + 1].error) /\ UNCHANGED <<heap, stray>>

UnknownName == At({"unknown"}) /\ Refuse(at + 1, "INVALID_VAR_NAME")

(* params, environ and the like take over the vector.                      *)
SetArray(f) ==
  LET k == at + 1 IN
  /\ At({f})
  /\ IF IsSet(f) THEN Refuse(k, "VAR_REDEFINED")
     ELSE /\ array' = [array EXCEPT ![f] = [u |-> file[k].words, of |-> k]]
          /\ heap' = heap \cup Cmd(k)
          /\ UNCHANGED <<string, number, stray, pc>>

WrongCount(k) == IF file[k].words = 0 THEN "EMPTY_VALUE" ELSE "MULTIPLE_VALUE"

(* Fault: the word taken over is freed with the others.                    *)
SetStringAndFree(f) ==
  LET k == at + 1 IN
  /\ At({f})
  /\ CASE string[f] # 0 -> Refuse(k, "VAR_REDEFINED")
       [] string[f] = 0 /\ file[k].words # 1 -> Refuse(k, WrongCount(k))
       [] OTHER -> /\ string' = [string EXCEPT ![f] = k]
                   /\ Free(Cmd(k), heap \cup Cmd(k))
                   /\ UNCHANGED <<array, number, pc>>

(* comment and the like take over the only word.                           *)
SetString(f) ==
  LET k == at + 1 IN
  /\ At({f})
  /\ CASE string[f] # 0 -> Refuse(k, "VAR_REDEFINED")
       [] string[f] = 0 /\ file[k].words # 1 -> Refuse(k, WrongCount(k))
       [] OTHER -> /\ string' = [string EXCEPT ![f] = k]
                   /\ Free({Vector(k)}, heap \cup Cmd(k))
                   /\ UNCHANGED <<array, number, pc>>

(* Numbers, and flags, which are 1 without a value; the last one counts.   *)
SetNumber(f) ==
  LET k == at + 1
      implicit == f \in Flag /\ file[k].words = 0
  IN
  /\ At({f})
  /\ CASE ~implicit /\ file[k].words # 1 -> Refuse(k, WrongCount(k))
       [] ~implicit /\ file[k].words = 1 /\ ~file[k].inRange -> Refuse(k, "INVALID_VALUE")
       [] OTHER -> /\ number' = [number EXCEPT ![f] = k]
                   /\ Free(Cmd(k), heap \cup Cmd(k))
                   /\ UNCHANGED <<array, string, pc>>

(* parse_file: read_line returns something negative, which may be an error *)
(* of reading as well: the lines so far then are the file.                 *)
End ==
  /\ pc = "parse" /\ at = Len(file) /\ pc' = "OK"
  /\ UNCHANGED <<file, at, fields, heap, stray>>

(* testinfo_free.                                                          *)
OwnedArray(f) ==
  IF array[f].u > 0 THEN {Vector(array[f].of)} \cup Words(array[f].of, array[f].u) ELSE {}
Owned == (UNION {OwnedArray(f) : f \in Array}) \cup {<<string[f], 1>> : f \in {g \in String : string[g] # 0}}

TestinfoFree ==
  /\ pc \notin {"parse", "freed"} /\ pc' = "freed"
  /\ Zeroed /\ Free(Owned, heap)
  /\ UNCHANGED <<file, at>>

Next ==
  \/ Blank \/ BadLine \/ UnknownName \/ End \/ TestinfoFree
  \/ \E f \in Array : SetArray(f)
  \/ \E f \in String : SetString(f)
  \/ \E f \in Number \cup Flag : SetNumber(f)

Spec == Init /\ [][Next]_vars

-----------------------------------------------------------------------------
Errors == {"IDENT_EXPECTED", "EQUAL_EXPECTED", "UNCLOSED_QUOTE", "INVALID_VAR_NAME", "VAR_REDEFINED",
           "EMPTY_VALUE", "MULTIPLE_VALUE", "INVALID_VALUE"}

TypeOK ==
  /\ at \in 0 .. Len(file) /\ stray \in BOOLEAN
  /\ array \in [Array -> [u : 0 .. 2, of : 0 .. MaxLines]]
  /\ string \in [String -> 0 .. MaxLines] /\ number \in [Number \cup Flag -> 0 .. MaxLines]
  /\ heap \subseteq (1 .. MaxLines) \X (0 .. 2)
  /\ pc \in Errors \cup {"parse", "OK", "freed"}

(* What is freed is allocated, nothing *pt owns is freed before it, and    *)
(* after a parse that succeeds all that testinfo_free leaves behind is     *)
(* the vectors of arrays that were set to no words.                        *)
OwnsWhatItFrees == ~stray /\ Owned \subseteq heap
LeaksOnlyEmpty ==
  pc = "OK" => \A b \in heap \ Owned : b[2] = 0 /\ file[b[1]].name \in Array /\ file[b[1]].words = 0

BlocksRight == OwnsWhatItFrees /\ LeaksOnlyEmpty

-----------------------------------------------------------------------------
(* What a file means: no line is wrong in itself, and no array but an      *)
(* empty environ, and no string, is set twice.                             *)
WellFormed(l) ==
  CASE l.name = "none" -> l.error = "blank"
    [] l.name \in Array -> TRUE
    [] l.name \in String -> l.words = 1
    [] l.name \in Number -> l.words = 1 /\ l.inRange
    [] l.name \in Flag -> l.words = 0 \/ (l.words = 1 /\ l.inRange)
    [] OTHER -> FALSE

Setting(f) == {k \in DOMAIN file : file[k].name = f}
Filled(f) == {k \in Setting(f) : file[k].words > 0}
Last(S) == CHOOSE k \in S \cup {0} : \A j \in S : j <= k

(* testinfo_parse returns OK exactly for such files, and then *pt holds    *)
(* what they say; otherwise it is empty, and says nothing.                 *)
Meaningful ==
  /\ \A k \in DOMAIN file : WellFormed(file[k])
  /\ \A j, k \in DOMAIN file : j < k /\ file[j].name = file[k].name =>
       file[j].name \notin {"params"} \cup String /\ (file[j].name = "environ" => file[j].words = 0)

ParsedAsMeant ==
  CASE pc = "OK" ->
         /\ Meaningful
         /\ \A f \in Array : array[f].u = IF Filled(f) = {} THEN 0 ELSE file[Last(Filled(f))].words
         /\ \A f \in String : string[f] = Last(Setting(f))
         /\ \A f \in Number \cup Flag : number[f] = Last(Setting(f))
    [] pc \in Errors -> ~Meaningful /\ Owned = {}
    [] OTHER -> TRUE
=============================================================================
