------------------------------ MODULE MCXtask ------------------------------
(***************************************************************************)
(* Three commands of xtask: move, test, and compose over a tree, each      *)
(* checked by the behaviours that are about it: use says which.            *)
(***************************************************************************)
EXTENDS MoveSolutions, Sequences, MCTrees

CONSTANTS
  Configs, Profile, MaxKilled,   \* of TestTask
  Path, Nodes, Skipped, Unexported, Private, Foreign, MaxEdits   \* of ComposeTree

VARIABLES
  use,
  config, build_only, client, user, fmt_check, editable, compiles, dir, cmake, pc, step, prof,
  attempt, result, recorded, passed, killed,
  src, out, turn, stack, stale, edits, aborted

T == INSTANCE TestTask WITH MaxCrashes <- MaxKilled, crashes <- killed
C == INSTANCE ComposeTree WITH run <- turn, crashes <- aborted

testVars ==
  <<config, build_only, client, user, fmt_check, editable, compiles, dir, cmake, pc, step, prof,
    attempt, result, recorded, passed, killed>>
treeVars == <<src, out, turn, stack, stale, edits, aborted>>
allVars == <<use, vars, testVars, treeVars>>

NoMove == from = [t \in Task |-> [n \in Name |-> "nobody"]] /\ outdated = {}
NoTest ==
  /\ config = (CHOOSE c \in Configs : TRUE) /\ build_only = TRUE /\ client = FALSE
  /\ user = "unknown" /\ fmt_check = FALSE /\ editable = "none" /\ compiles = {}
  /\ dir = [p \in Profile |-> "absent"]
NoTree == out = Private

AllInit ==
  /\ \/ use = "move" /\ NoTest /\ NoTree
     \/ use = "test" /\ NoMove /\ NoTree
     \/ use = "compose" /\ NoMove /\ NoTest /\ out \in Foreign
  /\ Init /\ T!Init /\ C!NoRunYet

Compose(A) == use = "compose" /\ A /\ UNCHANGED <<use, vars, testVars>>

AllNext ==
  \/ use = "move" /\ Next /\ UNCHANGED <<use, testVars, treeVars>>
  \/ use = "test" /\ T!Next /\ UNCHANGED <<use, vars, treeVars>>
  \/ Compose(C!Next)

AllSpec ==
  /\ AllInit /\ [][AllNext]_allVars
  /\ WF_allVars(Compose(C!Step)) /\ WF_allVars(Compose(C!Start))

ASSUME TestAssumption == T!ConfigsAssumption /\ T!CrashesAssumption
ASSUME TreeAssumption ==
  C!PathAssumption /\ C!NodesAssumption /\ C!TreesAssumption /\ C!BoundsAssumption

-----------------------------------------------------------------------------
(* Of the files of a task two may be edited, of another one just one.      *)
MCTask == {"s", "t"}
MCName == {"x", "y", "test"}
MCEditable == [t \in MCTask |-> IF t = "s" THEN {"x", "y"} ELSE {"x"}]

(* The shapes of the testing.yaml files under tasks/: one command in two   *)
(* profiles, a search for patterns, and two tasks reported by one file.    *)
Cmd(profiles) == [type |-> "run-cmd", profiles |-> profiles]
Forbidden == [type |-> "forbidden-patterns", profiles |-> <<>>]
Report == [type |-> "report-score", profiles |-> <<>>]

MCConfigs ==
  { <<Cmd(<<"asan", "release">>), Forbidden, Report>>,
    <<Forbidden, Cmd(<<"release">>), Report, Cmd(<<"release">>), Report>> }
MCProfile == {"asan", "release"}

-----------------------------------------------------------------------------
(* A score is sent only for a solution that has passed what it is for.     *)
ScoreIsEarned == T!ScoreIsEarned

(* A run that succeeds has done all that testing.yaml asks for, and with   *)
(* --build-only nothing but builds.                                        *)
DoesAsAsked == T!TypeOK /\ T!OkMeansDone /\ T!BuildOnlyOnlyBuilds

(* A build fails for what is wrong now: the solution, or cmake --fresh.    *)
BuildErrorsAreReal == T!BuildErrorsAreReal

(* A compose that succeeds leaves a mirror of the private tree, never      *)
(* touches what is skipped, and repeated often enough it does succeed.     *)
SuccessMirrors == use = "compose" => C!SuccessMirrors
SkippedUntouched == C!SkippedUntouched
Converges == use = "compose" => C!Converges
=============================================================================
