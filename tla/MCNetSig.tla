------------------------------ MODULE MCNetSig ------------------------------
(***************************************************************************)
(* The sessions of the two tasks on signals, each checked by the           *)
(* behaviours that are about it: use says which.                           *)
(***************************************************************************)
EXTENDS FilesSession, Sequences

VARIABLES
  use,
  lpc, res, stdinHolders, icat, rest, expected, owed, wrote, iexit, pexit, cat, pcat,
  todo, note, sigterm, rtmax, interrupt, toProg, toInter    \* of IgnoreSession

S == INSTANCE IgnoreSession
       WITH ipc <- icat, left <- rest, prog <- cat, ppc <- pcat, term <- sigterm

ignoreVars ==
  <<lpc, res, stdinHolders, icat, rest, expected, owed, wrote, iexit, pexit, cat, pcat,
    todo, note, sigterm, rtmax, interrupt, toProg, toInter>>
allVars == <<use, vars, ignoreVars>>

AllInit ==
  /\ Init /\ S!Init
  /\ \/ use = "files" /\ rest = MaxCommands /\ cat = "mask"
     \/ use = "ignore" /\ left = MaxCommands /\ prog = "good"

FilesStep(A) == use = "files" /\ A /\ UNCHANGED <<use, ignoreVars>>
IgnoreStep(A) == use = "ignore" /\ A /\ UNCHANGED <<use, vars>>

AllNext == FilesStep(Next) \/ IgnoreStep(S!Next)

AllSpec ==
  /\ AllInit /\ [][AllNext]_allVars
  /\ WF_allVars(FilesStep(Interactor)) /\ WF_allVars(FilesStep(Program))
  /\ WF_allVars(IgnoreStep(S!Launcher)) /\ WF_allVars(IgnoreStep(S!Interactor))
  /\ WF_allVars(IgnoreStep(S!Program))

-----------------------------------------------------------------------------
(* files: a correct program is never failed nor summed wrong, and the      *)
(* delay catches the one it is for.                                        *)
FilesRight == TypeOK /\ RightSums /\ DelayCatches

(* ignore: success means that the program did all that was asked for.      *)
OkMeansServed == S!TypeOK /\ S!OkMeansServed

(* files: a session with a correct program ends, but for the jam a slow    *)
(* machine can run into, and no program found wrong is left running.       *)
(* ignore: every test ends, and a right program passes it.                 *)
SessionsEnd ==
  /\ use = "files" => EndsOrJams /\ WrongIsKilled
  /\ use = "ignore" => S!SessionEnds /\ S!RightPasses
=============================================================================
