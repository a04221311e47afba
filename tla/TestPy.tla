------------------------------- MODULE TestPy -------------------------------
(***************************************************************************)
(* The test runner common/tools/test.py: every test is tried until an      *)
(* attempt raises no RuntimeError, and an attempt looks at the exit code,  *)
(* the output, the file of the right answer, the time and, last, at the    *)
(* processes that are left: test.py is their subreaper.  The solution and  *)
(* the processes it forks run, and write to any file, beside all of this.  *)
(* --prepare-answers and the layout of the run directory are left out.     *)
(***************************************************************************)
EXTENDS Naturals

CONSTANTS
  Tests,      \* how many tests there are, at least 1
  Rounds,     \* --retests-count
  Attempts,   \* --retries-count
  Proc        \* what the solution can fork

BoundsAssumption == {Tests, Rounds, Attempts} \subseteq Nat \ {0}
NamesAssumption == {"solution", "runner"} \cap Proc = {}

Test == 1 .. Tests
All == Proc \cup {"solution"}

VARIABLES
  checker, interactor, lenient,   \* "cmp" or "ignore", whether the tests have one,
                       \* and whether may_fail_local lists them
  pipeline,            \* whether CI is set
  at,                  \* [round, test, attempt]: cnt, the index of test, i
  pc,                  \* where the runner is in an attempt, or its result
  sums, ans,           \* the checksums, and the files: "right", or "other"
  cwd,                 \* "problem", or "run" for the run directory
  ok, res,             \* whether the exit code is the right one, the output
  iok,                 \* whether the interactor, if there is one, has exited with 0
  state, parent,       \* of processes: "none", "alive", "quiet" for one alive
                       \* that has closed its output, or "zombie"
  earned               \* the tests passed honestly (for the properties)

config == <<checker, interactor, lenient, pipeline>>
outcome == <<ok, res, iok>>
processes == <<state, parent>>
testPyVars == <<config, at, pc, sums, ans, cwd, outcome, processes, earned>>

(* may_fail_local lists all tests or none, and is emptied in CI.           *)
Input ==
  /\ checker \in {"cmp", "ignore"} /\ interactor \in BOOLEAN
  /\ pipeline \in BOOLEAN /\ lenient \in BOOLEAN /\ ~(lenient /\ pipeline)

Start ==
  /\ at = [round |-> 1, test |-> 0, attempt |-> 1] /\ pc = "round"
  /\ ans = [t \in Test |-> "right"] /\ sums = ans
  /\ cwd = "problem" /\ ok = FALSE /\ res = "none" /\ iok = FALSE
  /\ state = [x \in All |-> "none"] /\ parent = [x \in All |-> "runner"]
  /\ earned = {}

Init == Input /\ Start

-----------------------------------------------------------------------------
Alive(x) == state[x] \in {"alive", "quiet"}
Children(x) == {y \in All : parent[y] = x /\ state[y] # "none"}

(* The loops over the rounds and the tests.                                *)
StartRound ==
  /\ pc = "round" /\ sums' = ans
  /\ at' = [at EXCEPT !.test = 1, !.attempt = 1] /\ pc' = "enter"
  /\ UNCHANGED <<config, ans, cwd, outcome, processes, earned>>

Passed ==
  CASE at.test < Tests -> at' = [at EXCEPT !.test = @ + 1, !.attempt = 1] /\ pc' = "enter"
    [] at.test = Tests /\ at.round < Rounds -> at' = [at EXCEPT !.round = @ + 1] /\ pc' = "round"
    [] OTHER -> pc' = "all passed" /\ UNCHANGED at

(* except RuntimeError.                                                    *)
Raise ==
  IF at.attempt < Attempts THEN at' = [at EXCEPT !.attempt = @ + 1] /\ pc' = "enter"
  ELSE pc' = "failed" /\ UNCHANGED at

(* Initializer.__enter__, after create_run_dir.  If its start fails, the   *)
(* directory is not changed back.                                          *)
Enter ==
  /\ pc = "enter"
  /\ \/ pc' = "spawn" /\ UNCHANGED <<at, cwd>>
     \/ Raise /\ cwd' = "run"
  /\ UNCHANGED <<config, sums, ans, outcome, processes, earned>>

(* In the wrong directory neither the program nor its input is found: that *)
(* is no RuntimeError.                                                     *)
Spawn ==
  /\ pc = "spawn"
  /\ IF cwd = "run" THEN pc' = "crashed" /\ UNCHANGED state
     ELSE pc' = "wait" /\ state' = [state EXCEPT !["solution"] = "alive"]
  /\ UNCHANGED <<config, at, sums, ans, cwd, outcome, parent, earned>>

(* communicate waits for the end of the output as well, and so does the    *)
(* interactor.  The latter judges, and may not have made the file "output".*)
Wait ==
  /\ pc = "wait" /\ state["solution"] = "zombie" /\ \A x \in All : state[x] # "alive"
  /\ state' = [state EXCEPT !["solution"] = "none"]
  /\ iok' \in IF interactor THEN BOOLEAN ELSE {TRUE}
  /\ pc' = "code"
  /\ UNCHANGED <<config, at, sums, ans, cwd, ok, res, parent, earned>>

(* check_exit_code.                                                        *)
CheckCode ==
  /\ pc = "code"
  /\ LET failed == ~ok /\ (interactor \/ checker # "ignore") /\ ~lenient IN
     CASE failed -> Raise
       [] ~failed /\ res = "none" -> pc' = "crashed" /\ UNCHANGED at
       [] OTHER -> pc' = "output" /\ UNCHANGED at
  /\ UNCHANGED <<config, sums, ans, cwd, outcome, processes, earned>>

(* res_checker.                                                            *)
CheckOutput ==
  /\ pc = "output"
  /\ IF checker # "ignore" /\ res # ans[at.test] /\ ~lenient THEN Raise
     ELSE pc' = "checksum" /\ UNCHANGED at
  /\ UNCHANGED <<config, sums, ans, cwd, outcome, processes, earned>>

(* Fault: the answers are not looked at again.                             *)
CheckNothing ==
  /\ pc = "checksum" /\ pc' = "time"
  /\ UNCHANGED <<config, at, sums, ans, cwd, outcome, processes, earned>>

CheckAnswer ==
  /\ pc = "checksum"
  /\ IF ans[at.test] # sums[at.test] THEN Raise ELSE pc' = "time" /\ UNCHANGED at
  /\ UNCHANGED <<config, sums, ans, cwd, outcome, processes, earned>>

(* It has taken too long, or not.                                          *)
CheckTime ==
  /\ pc = "time"
  /\ \/ pc' = "orphans" /\ UNCHANGED at
     \/ pipeline /\ Raise
  /\ UNCHANGED <<config, sums, ans, cwd, outcome, processes, earned>>

(* Fault: what has exited is no orphan.                                    *)
FoundAlive == {x \in Children("runner") : Alive(x)}

(* find_children goes through /proc, where zombies are too.                *)
Found == Children("runner")

CheckOrphans ==
  /\ pc = "orphans"
  /\ IF Found # {} THEN Raise /\ UNCHANGED earned
     ELSE /\ Passed
          /\ earned' = IF ok /\ res = "right" THEN earned \cup {at.test} ELSE earned
  /\ UNCHANGED <<config, sums, ans, cwd, outcome, processes>>

Runner ==
  \/ StartRound \/ Enter \/ Spawn \/ Wait \/ CheckCode \/ CheckOutput \/ CheckAnswer
  \/ CheckTime \/ CheckOrphans

-----------------------------------------------------------------------------
(* The processes, as the system runs them.                                 *)
Fork(x, y) ==
  /\ Alive(x) /\ y # "solution" /\ state[y] = "none"
  /\ state' = [state EXCEPT ![y] = state[x]] /\ parent' = [parent EXCEPT ![y] = x]
  /\ UNCHANGED <<config, at, pc, sums, ans, cwd, outcome, earned>>

CloseOutput(x) ==
  /\ state[x] = "alive" /\ state' = [state EXCEPT ![x] = "quiet"]
  /\ UNCHANGED <<config, at, pc, sums, ans, cwd, outcome, parent, earned>>

(* wait in a process other than the runner.                                *)
Reap(x, y) ==
  /\ Alive(x) /\ parent[y] = x /\ state[y] = "zombie"
  /\ state' = [state EXCEPT ![y] = "none"] /\ parent' = [parent EXCEPT ![y] = "runner"]
  /\ UNCHANGED <<config, at, pc, sums, ans, cwd, outcome, earned>>

(* The children go to the subreaper.                                       *)
Exit(x) ==
  /\ Alive(x)
  /\ state' = [state EXCEPT ![x] = "zombie"]
  /\ parent' = [y \in All |-> IF parent[y] = x THEN "runner" ELSE parent[y]]
  /\ IF x = "solution"
       THEN ok' \in BOOLEAN /\ res' \in {"right", "other"} \cup (IF interactor THEN {"none"} ELSE {})
       ELSE UNCHANGED <<ok, res>>
  /\ UNCHANGED <<config, at, pc, sums, ans, cwd, iok, earned>>

(* A process writes to an answer, by mistake say.                          *)
Scribble(x, t) ==
  /\ Alive(x) /\ ans' \in {[ans EXCEPT ![t] = "right"], [ans EXCEPT ![t] = "other"]}
  /\ UNCHANGED <<config, at, pc, sums, cwd, outcome, processes, earned>>

Next ==
  \/ Runner
  \/ \E x \in All :
       \/ Exit(x) \/ CloseOutput(x)
       \/ \E y \in All : Fork(x, y) \/ Reap(x, y)
       \/ \E t \in Test : Scribble(x, t)

(* The runner runs, and every process ends: nothing here ends one.         *)
Spec == Init /\ [][Next]_testPyVars /\ WF_testPyVars(Runner) /\ \A x \in All : WF_testPyVars(Exit(x))

-----------------------------------------------------------------------------
Ended == {"all passed", "failed", "crashed"}

TypeOK ==
  /\ pc \in {"round", "enter", "spawn", "wait", "code", "output", "checksum", "time", "orphans"} \cup Ended
  /\ at \in [round : 1 .. Rounds, test : 0 .. Tests, attempt : 1 .. Attempts]
  /\ sums \in [Test -> {"right", "other"}] /\ ans \in [Test -> {"right", "other"}]
  /\ cwd \in {"problem", "run"} /\ ok \in BOOLEAN /\ iok \in BOOLEAN
  /\ res \in {"right", "other", "none"}
  /\ state \in [All -> {"none", "alive", "quiet", "zombie"}]
  /\ parent \in [All -> All \cup {"runner"}] /\ earned \subseteq Test

(* A test has just been passed.                                            *)
Moved ==
  \/ pc = "all passed"
  \/ pc = "round" /\ at.round > 1
  \/ pc = "enter" /\ at.attempt = 1 /\ at.test > 1

(* "All tests passed" means that: every test was passed by a run that gave *)
(* the right output and exit code, whatever else it wrote to and whichever *)
(* of its processes were about, unless the test says it does not matter.   *)
PassIsEarned == pc = "all passed" /\ checker = "cmp" /\ ~lenient => earned = Test

(* A test that is passed has left nobody behind: what a run forgets is     *)
(* found in it, and every run after it, even if it has exited since.       *)
NobodyLeft == Moved => \A x \in All : state[x] = "none"

(* What the interactor says counts: "Interactor failed with code           *)
(* {i.returncode} on test ..." (test.py:321).                              *)
InteractorCounts == Moved /\ interactor /\ ~lenient => iok

(* The runner comes to a result as long as what it runs does.              *)
RunnerEnds == <>(pc \in Ended)
=============================================================================
