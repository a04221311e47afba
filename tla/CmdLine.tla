------------------------------ MODULE CmdLine ------------------------------
(***************************************************************************)
(* Values in .inf files (common/include/nejudge/testinfo.h): parse_cmdline *)
(* cuts one into words, one action per character or escape it handles, and *)
(* the testinfo_unparse functions write words out as a value.  Characters  *)
(* are their codes, 0 .. 255; those from 128 are negative as a char.       *)
(***************************************************************************)
EXTENDS Naturals, SequencesExt

CONSTANTS
  Char,       \* the characters of arbitrary values
  MaxStr,     \* bound on their length
  WordChar,   \* the characters of words to write out and read again
  MaxWord,    \* bound on the length of a word
  MaxWords,   \* bound on how many there are
  FirstCap    \* the first capacity of pcmd->v: 16 in the code

VARIABLES
  words,     \* what str has been written from, <<>> for an arbitrary value
  str, p,    \* the value, and the position in it
  q,         \* locbuf up to q
  quote,     \* q_char
  argv, cap, \* pcmd: the words, and the capacity for them
  pc         \* "start", "gap" (in spaces after a word), "word", "done",
             \* or the error

vars == <<words, str, p, q, quote, argv, cap, pc>>

DoubleQuote == 34
Hash == 35
SingleQuote == 39
Digit == 48 .. 57
Backslash == 92
Delete == 127

(* No string has a 0 in it.  Words with other characters than these do not *)
(* survive, nor do empty ones.                                             *)
ASSUME ValueAssumption == Char \subseteq 1 .. 255 /\ MaxStr \in Nat
ASSUME WordAssumption == WordChar \subseteq 1 .. 127 \ {Hash} /\ MaxWord \in Nat /\ MaxWords \in Nat
ASSUME CapAssumption == FirstCap \in Nat \ {0}

IsSpace(c) == c = 32 \/ c \in 9 .. 13

(* *p < ' ', a char being signed.                                          *)
IsControl(c) == c < 32 \/ c > 127

-----------------------------------------------------------------------------
(* need_quotes: not for '#', which parse_cmdline takes for a comment.      *)
NeedQuotes(word) ==
  \E i \in DOMAIN word : LET c == word[i] IN
    c = 32 \/ IsControl(c) \/ c \in {Delete, SingleQuote, DoubleQuote, Backslash}

Octal(c) == <<48 + (c \div 64), 48 + ((c \div 8) % 8), 48 + (c % 8)>>

(* Fault: a single quote needs no backslash in double quotes, and neither  *)
(* does a backslash.                                                       *)
EscapedLess(c) ==
  CASE c = DoubleQuote -> <<Backslash, c>>
    [] c < 32 \/ c = Delete -> <<Backslash>> \o Octal(c)
    [] OTHER -> <<c>>

(* append_string_quoted; "%03o" of a negative char has eleven digits.      *)
Escaped(c) ==
  CASE c = 9 -> <<Backslash, 116>> [] c = 13 -> <<Backslash, 114>> [] c = 10 -> <<Backslash, 110>>
    [] c \in {SingleQuote, DoubleQuote, Backslash} -> <<Backslash, c>>
    [] c \notin {9, 10, 13} /\ (c < 32 \/ c = Delete) -> <<Backslash>> \o Octal(c)
    [] c > 127 -> <<Backslash, 51, 55, 55, 55, 55, 55, 55, 55>> \o Octal(c + 256)
    [] OTHER -> <<c>>

Unparsed(word) ==
  IF NeedQuotes(word)
    THEN <<DoubleQuote>> \o FlattenSeq([i \in DOMAIN word |-> Escaped(word[i])]) \o <<DoubleQuote>>
    ELSE word

(* unparse_str_array, behind every testinfo_unparse function.              *)
Unparse(array) == FlattenSeq([i \in DOMAIN array |-> (IF i > 1 THEN <<32>> ELSE <<>>) \o Unparsed(array[i])])

-----------------------------------------------------------------------------
WordOf == UNION {[1 .. n -> WordChar] : n \in 1 .. MaxWord}

Input ==
  \/ words = <<>> /\ str \in UNION {[1 .. n -> Char] : n \in 0 .. MaxStr}
  \/ words \in UNION {[1 .. n -> WordOf] : n \in 1 .. MaxWords} /\ str = Unparse(words)

Start ==
  /\ p = 1 /\ q = <<>> /\ quote = 0
  /\ argv = <<>> /\ cap = FirstCap /\ pc = "start"

Init == Input /\ Start

(* *(p + k), which is 0 at the end and must not be read behind it.         *)
At(k) == IF p + k <= Len(str) THEN str[p + k] ELSE 0

Skip ==
  /\ pc \in {"start", "gap"} /\ IsSpace(At(0)) /\ p' = p + 1
  /\ UNCHANGED <<words, str, q, quote, argv, cap, pc>>

(* A word begins, unless the value ends or, at its start, is a comment.    *)
BeginWord ==
  /\ pc \in {"start", "gap"} /\ ~IsSpace(At(0))
  /\ pc' = IF At(0) = 0 \/ (pc = "start" /\ At(0) = Hash) THEN "done" ELSE "word"
  /\ q' = <<>>
  /\ UNCHANGED <<words, str, p, quote, argv, cap>>

(* strdup ends the word at the first 0 in locbuf.                          *)
Duplicate(s) ==
  LET zeros == {i \in DOMAIN s : s[i] = 0} IN
  IF zeros = {} THEN s ELSE SubSeq(s, 1, (CHOOSE i \in zeros : \A j \in zeros : i <= j) - 1)

(* Fault: no room is left for the nullptr behind the last word.            *)
GrownLate == IF Len(argv) >= cap THEN 2 * cap ELSE cap

(* pcmd->a doubles when u + 1 reaches it.                                  *)
Grown == IF Len(argv) + 1 >= cap THEN 2 * cap ELSE cap

PushWord == argv' = Append(argv, Duplicate(q)) /\ cap' = Grown

Fail(error) == pc' = error /\ argv' = <<>> /\ UNCHANGED <<words, str, p, q, quote, cap>>

(* The end of the value, or a comment.  One behind a space adds an empty   *)
(* word, as q is locbuf already.                                           *)
End ==
  /\ pc = "word" /\ (At(0) = 0 \/ (At(0) = Hash /\ quote = 0))
  /\ IF quote # 0 THEN Fail("UNCLOSED_QUOTE")
     ELSE PushWord /\ pc' = "done" /\ UNCHANGED <<words, str, p, q, quote>>

EndWord ==
  /\ pc = "word" /\ quote = 0 /\ IsSpace(At(0))
  /\ PushWord /\ pc' = "gap"
  /\ UNCHANGED <<words, str, p, q, quote>>

(* Fault: the mark is not passed.                                          *)
MarkKept ==
  /\ pc = "word" /\ At(0) \in {SingleQuote, DoubleQuote} /\ quote \in {0, At(0)}
  /\ quote' = (IF quote = 0 THEN At(0) ELSE 0)
  /\ UNCHANGED <<words, str, p, q, argv, cap, pc>>

(* A quotation mark, of the kind that is open or with none open.           *)
Mark ==
  /\ pc = "word" /\ At(0) \in {SingleQuote, DoubleQuote} /\ quote \in {0, At(0)}
  /\ quote' = (IF quote = 0 THEN At(0) ELSE 0) /\ p' = p + 1
  /\ UNCHANGED <<words, str, q, argv, cap, pc>>

(* n characters are read, c goes to locbuf.                                *)
Take(n, c) ==
  /\ q' = Append(q, c) /\ p' = p + n
  /\ UNCHANGED <<words, str, quote, argv, cap, pc>>

Plain ==
  /\ pc = "word"
  /\ \/ At(0) = Hash /\ quote # 0
     \/ At(0) \in {SingleQuote, DoubleQuote} /\ quote \notin {0, At(0)}
     \/ At(0) = Backslash /\ quote = SingleQuote
     \/ IsSpace(At(0)) /\ quote # 0
     \/ ~IsControl(At(0)) /\ At(0) \notin {32, Hash, SingleQuote, DoubleQuote, Backslash}
  /\ Take(1, At(0))

Stray ==
  /\ pc = "word" /\ At(0) # 0 /\ IsControl(At(0)) /\ ~IsSpace(At(0))
  /\ Fail("STRAY_CONTROL_CHAR")

-----------------------------------------------------------------------------
(* A backslash outside of single quotes, by the character behind it.       *)
Escape == pc = "word" /\ At(0) = Backslash /\ quote # SingleQuote

IsOctal(c) == c \in 48 .. 55
HexValue ==
  [c \in Digit \cup 65 .. 70 \cup 97 .. 102 |->
     CASE c \in Digit -> c - 48 [] c \in 65 .. 70 -> c - 55 [] OTHER -> c - 87]
IsHex(c) == c \in DOMAIN HexValue

(* \x and one or two digits.                                               *)
EscapeHex ==
  /\ Escape /\ At(1) \in {88, 120}
  /\ CASE ~IsHex(At(2)) -> Fail("INVALID_ESCAPE")
       [] IsHex(At(2)) /\ IsHex(At(3)) -> Take(4, HexValue[At(2)] * 16 + HexValue[At(3)])
       [] OTHER -> Take(3, HexValue[At(2)])

(* Up to three octal digits, or two if the first is more than 3.           *)
EscapeOctal ==
  /\ Escape /\ IsOctal(At(1))
  /\ LET d1 == At(1) - 48  d2 == At(2) - 48  d3 == At(3) - 48 IN
     CASE ~IsOctal(At(2)) -> Take(2, d1)
       [] IsOctal(At(2)) /\ d1 <= 3 /\ IsOctal(At(3)) -> Take(4, 64 * d1 + 8 * d2 + d3)
       [] OTHER -> Take(3, 8 * d1 + d2)

(* \a, \b, \f, \n, \r, \t and \v; any other character stands for itself,   *)
(* and at the end of the value so does the backslash.                      *)
Letter == [c \in {97, 98, 102, 110, 114, 116, 118} |->
             CASE c = 97 -> 7 [] c = 98 -> 8 [] c = 102 -> 12 [] c = 110 -> 10
               [] c = 114 -> 13 [] c = 116 -> 9 [] c = 118 -> 11]

EscapeOther ==
  /\ Escape /\ ~IsOctal(At(1)) /\ At(1) \notin {88, 120}
  /\ CASE At(1) = 0 -> Take(1, Backslash)
       [] At(1) \in DOMAIN Letter -> Take(2, Letter[At(1)])
       [] OTHER -> Take(2, At(1))

Next ==
  \/ Skip \/ BeginWord \/ End \/ EndWord \/ Mark \/ Plain \/ Stray
  \/ EscapeHex \/ EscapeOctal \/ EscapeOther

Spec == Init /\ [][Next]_vars

-----------------------------------------------------------------------------
Errors == {"UNCLOSED_QUOTE", "STRAY_CONTROL_CHAR", "INVALID_ESCAPE"}

TypeOK ==
  /\ p \in Nat /\ cap \in Nat /\ quote \in {0, SingleQuote, DoubleQuote}
  /\ pc \in {"start", "gap", "word", "done"} \cup Errors
  /\ \A i \in DOMAIN q : q[i] \in 0 .. 255
  /\ \A i \in DOMAIN argv : \A j \in DOMAIN argv[i] : argv[i][j] \in 1 .. 255

(* What the unparse functions write is read back as the same words: words  *)
(* that are not empty, of any ASCII characters but '#'.                    *)
RoundTrip == words # <<>> /\ pc \notin {"start", "gap", "word"} => pc = "done" /\ argv = words

(* No value, however it ends, makes the parser look behind its end, write  *)
(* behind locbuf, which is 16 longer than it, or behind pcmd->v.           *)
InsideBuffers ==
  /\ TypeOK
  /\ p <= Len(str) + 1 /\ Len(q) < Len(str) + 16 /\ Len(argv) < cap
=============================================================================
