------------------------------ MODULE MCJudge ------------------------------
(***************************************************************************)
(* The C library of the judge and one of its checkers, each checked by the *)
(* behaviours that are about it: use says which, and the inputs of the     *)
(* others then are empty.                                                  *)
(***************************************************************************)
EXTENDS CmdLine

CONSTANTS
  MaxLines,               \* of TestInfo
  Byte, MaxSize, Chunk    \* of RedirectChecker, and of CheckerLines

VARIABLES
  use,
  file, at, array, string, number, heap, stray, ipc,
  info, output, readable, user, correct, cpc, stream, corr_s, user_s, code,
  text, pos, b, lines, i, lpc

T == INSTANCE TestInfo WITH pc <- ipc
R == INSTANCE RedirectChecker WITH pc <- cpc
L == INSTANCE CheckerLines WITH file <- text, at <- pos, pc <- lpc

infoVars == <<file, at, array, string, number, heap, stray, ipc>>
checkerVars == <<info, output, readable, user, correct, cpc, stream, corr_s, user_s, code>>
lineVars == <<text, pos, b, lines, i, lpc>>
allVars == <<use, vars, infoVars, checkerVars, lineVars>>

NoValue == words = <<>> /\ str = <<>>
NoInfo == file = <<>>
NoOutput ==
  /\ info = "ok" /\ output = [sort |-> "missing", mode |-> "other"] /\ readable = {}
  /\ user = <<>> /\ correct = <<>>
NoText == text = <<>>

AllInit ==
  /\ \/ use = "value" /\ Input /\ NoInfo /\ NoOutput /\ NoText
     \/ use = "info" /\ T!Input /\ NoValue /\ NoOutput /\ NoText
     \/ use = "checker" /\ R!Input /\ NoValue /\ NoInfo /\ NoText
     \/ use = "lines" /\ L!Input /\ NoValue /\ NoInfo /\ NoOutput
  /\ Start /\ T!Start /\ R!Start /\ L!Start

AllNext ==
  /\ \/ use = "value" /\ Next /\ UNCHANGED <<infoVars, checkerVars, lineVars>>
     \/ use = "info" /\ T!Next /\ UNCHANGED <<vars, checkerVars, lineVars>>
     \/ use = "checker" /\ R!Next /\ UNCHANGED <<vars, infoVars, lineVars>>
     \/ use = "lines" /\ L!Next /\ UNCHANGED <<vars, infoVars, checkerVars>>
  /\ UNCHANGED use

(* Whoever calls these functions goes on until they return.                *)
AllSpec == AllInit /\ [][AllNext]_allVars /\ WF_allVars(AllNext)

(* The bounds are numbers, and a chunk, of 512 bytes in the code, is not   *)
(* empty.                                                                  *)
ASSUME SizesAssumption == MaxLines \in Nat /\ MaxSize \in Nat /\ Chunk \in Nat \ {0}

-----------------------------------------------------------------------------
(* testinfo_parse takes a file for what it means and refuses no other, and *)
(* testinfo_free frees what it has allocated, once.                        *)
InfoRight == T!TypeOK /\ T!ParsedAsMeant /\ T!BlocksRight

(* The checker accepts exactly the right file, and what is left of a file  *)
(* that is compared by lines is all but the white space at its ends.       *)
CheckersRight == R!TypeOK /\ L!TypeOK /\ R!OkMeansEqual /\ L!LinesRight

(* No input keeps a loop over it going: every value and every file comes   *)
(* to its end, and the checker to a verdict.                               *)
CallsEnd ==
  /\ use = "value" => <>(pc \notin {"start", "gap", "word"})
  /\ use = "info" => <>(ipc = "freed")
  /\ use = "checker" => <>(cpc = "exited")
  /\ use = "lines" => <>(lpc \in {"done", "CF"})
=============================================================================
