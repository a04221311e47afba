------------------------------ MODULE TestTask ------------------------------
(***************************************************************************)
(* xtask test (xtask/src/test.rs, the build of task.rs and the retries of  *)
(* util/manytask-api.rs): a solution is checked for its formatting, then   *)
(* taken through the steps of its testing.yaml, which build and run it,    *)
(* look for forbidden patterns and report the score to the course server.  *)
(* Build directories survive a run, and a run may be killed.               *)
(***************************************************************************)
EXTENDS Naturals, Sequences

CONSTANTS
  Configs,     \* the `tests` of a testing.yaml: sequences of steps
  Profile,     \* the build profiles
  MaxCrashes   \* bound on the runs that are killed

(* A run-cmd step has its profiles, in order; a report-score step none.    *)
ConfigsAssumption ==
  \A c \in Configs :
    /\ DOMAIN c = 1 .. Len(c) /\ Len(c) \in Nat
    /\ \A k \in DOMAIN c :
         /\ c[k].type \in {"run-cmd", "forbidden-patterns", "report-score"}
         /\ c[k].profiles \in Seq(Profile)
         /\ c[k].type = "run-cmd" <=> c[k].profiles # <<>>
CrashesAssumption == MaxCrashes \in Nat

VARIABLES
  config, build_only, client,  \* testing.yaml and the arguments
  user, fmt_check, editable,   \* the environment and the files of the task
  compiles,   \* the profiles the solution can be built for
  dir,        \* the build directory of each profile
  cmake,      \* how the last configuration of this run ended
  pc,         \* where the run is; "idle" between runs
  step, prof, \* the step and the profile of it the run has come to
  attempt,    \* i of report_score_with_retries
  result,     \* what the last run returned
  recorded,   \* how often the server has recorded the score of a step
  passed,     \* the checks that have succeeded in this run
  crashes

setting == <<config, build_only, client, user, fmt_check, editable, compiles>>
vars == <<setting, dir, cmake, pc, step, prof, attempt, result, recorded, passed, crashes>>

(* user: CI_PROJECT_NAME is missing, or only the time of the submission.   *)
(* editable: no file matches the patterns of testing.yaml, none that       *)
(* clang-format is for, or some.  A solution builds for all profiles or    *)
(* for none.                                                               *)
Init ==
  /\ config \in Configs
  /\ build_only \in BOOLEAN /\ client \in BOOLEAN /\ fmt_check \in BOOLEAN
  /\ user \in {"unknown", "no time", "known"}
  /\ editable \in {"none", "other", "c++"}
  /\ compiles \in {{}, Profile}
  /\ dir \in [Profile -> {"absent", "stale", "configured"}]
  /\ pc = "idle" /\ step = 1 /\ prof = 1 /\ attempt = 0 /\ result = "none"
  /\ cmake = "not run" /\ recorded = [k \in DOMAIN config |-> 0]
  /\ passed = {} /\ crashes = 0

-----------------------------------------------------------------------------
Step == config[step]
P == Step.profiles[prof]

Return(r) ==
  /\ pc' = "idle" /\ result' = r
  /\ UNCHANGED <<setting, step, prof, attempt, crashes>>

Goto(where) == pc' = where /\ UNCHANGED <<setting, step, prof, attempt, result, crashes>>

NextStep ==
  /\ pc' = "step" /\ step' = step + 1 /\ prof' = 1 /\ attempt' = 0
  /\ UNCHANGED <<setting, result, crashes>>

NextProfile ==
  IF prof < Len(Step.profiles)
    THEN /\ pc' = "step" /\ prof' = prof + 1
         /\ UNCHANGED <<setting, step, attempt, result, crashes>>
    ELSE NextStep

Pass(check) == passed' = passed \cup {check}

Start ==
  /\ pc = "idle"
  /\ pc' = "format" /\ step' = 1 /\ prof' = 1 /\ attempt' = 0
  /\ result' = "none" /\ passed' = {} /\ cmake' = "not run"
  /\ UNCHANGED <<setting, dir, recorded, crashes>>

(* check_format: nothing to do, or no file clang-format is for.            *)
SkipFormat ==
  /\ pc = "format" /\ (build_only \/ ~fmt_check \/ editable = "other")
  /\ Goto("step") /\ UNCHANGED <<dir, cmake, recorded, passed>>

CheckFormat(ok) ==
  /\ pc = "format" /\ ~build_only /\ fmt_check /\ editable = "c++"
  /\ IF ok THEN Goto("step") /\ Pass(<<0, "format">>) ELSE Return("format") /\ UNCHANGED passed
  /\ UNCHANGED <<dir, cmake, recorded>>

(* find_editable_files never returns an empty set: it fails.               *)
NoFilesToFormat ==
  /\ pc = "format" /\ ~build_only /\ fmt_check /\ editable = "none"
  /\ Return("no files") /\ UNCHANGED <<dir, cmake, recorded, passed>>

AtStep(type) == pc = "step" /\ step <= Len(config) /\ Step.type = type

ForbiddenPatterns(found) ==
  /\ AtStep("forbidden-patterns") /\ editable # "none"
  /\ IF found THEN Return("forbidden") /\ UNCHANGED passed ELSE NextStep /\ Pass(<<step, "clean">>)
  /\ UNCHANGED <<dir, cmake, recorded>>

NoFilesToSearch ==
  /\ AtStep("forbidden-patterns") /\ editable = "none"
  /\ Return("no files") /\ UNCHANGED <<dir, cmake, recorded, passed>>

(* run_cmake: its status is given to build_target, which looks at neither. *)
(* A configuration that fails leaves nothing to build with.                *)
RunCmake(ok) ==
  /\ dir' = [dir EXCEPT ![P] = IF ok THEN "configured" ELSE "empty"]
  /\ cmake' = IF ok THEN "ok" ELSE "failed"

(* build_target: a missing build directory is made and, in a second step,  *)
(* configured.                                                             *)
CreateDir ==
  /\ AtStep("run-cmd") /\ dir[P] = "absent"
  /\ dir' = [dir EXCEPT ![P] = "empty"]
  /\ Goto("configure") /\ UNCHANGED <<cmake, recorded, passed>>

Configure(ok) ==
  /\ pc = "configure" /\ RunCmake(ok)
  /\ Goto("build") /\ UNCHANGED <<recorded, passed>>

FindDir ==
  /\ AtStep("run-cmd") /\ dir[P] # "absent"
  /\ Goto("build") /\ UNCHANGED <<dir, cmake, recorded, passed>>

Builds == dir[P] = "configured" /\ P \in compiles

(* Fault: a build directory that does not build is not configured afresh.  *)
BuildOnce ==
  /\ pc = "build"
  /\ IF Builds THEN Goto("run") ELSE Return("build")
  /\ UNCHANGED <<dir, cmake, recorded, passed>>

(* A build that fails is tried again after cmake --fresh.                  *)
Build ==
  /\ pc = "build"
  /\ Goto(IF Builds THEN "run" ELSE "fresh")
  /\ UNCHANGED <<dir, cmake, recorded, passed>>

ConfigureFresh(ok) ==
  /\ pc = "fresh" /\ RunCmake(ok)
  /\ Goto("rebuild") /\ UNCHANGED <<recorded, passed>>

Rebuild ==
  /\ pc = "rebuild"
  /\ IF Builds THEN Goto("run") ELSE Return("build")
  /\ UNCHANGED <<dir, cmake, recorded, passed>>

(* Fault: the other profiles of the step are forgotten.                    *)
RunFirstProfile(ok) ==
  /\ pc = "run" /\ ~build_only
  /\ IF ok THEN NextStep /\ Pass(<<step, P>>) ELSE Return("test") /\ UNCHANGED passed
  /\ UNCHANGED <<dir, cmake, recorded>>

RunCmd(ok) ==
  /\ pc = "run" /\ ~build_only
  /\ IF ok THEN NextProfile /\ Pass(<<step, P>>) ELSE Return("test") /\ UNCHANGED passed
  /\ UNCHANGED <<dir, cmake, recorded>>

OnlyBuilt ==
  /\ pc = "run" /\ build_only
  /\ NextProfile /\ UNCHANGED <<dir, cmake, recorded, passed>>

NothingToReport ==
  /\ AtStep("report-score") /\ (build_only \/ ~client \/ user = "unknown")
  /\ NextStep /\ UNCHANGED <<dir, cmake, recorded, passed>>

NoTimeToReport ==
  /\ AtStep("report-score") /\ ~build_only /\ client /\ user = "no time"
  /\ Return("report") /\ UNCHANGED <<dir, cmake, recorded, passed>>

(* One POST: the server may record the score although the client sees an   *)
(* error, which is answered by another attempt.  A body that cannot be     *)
(* read is no error.                                                       *)
Attempt(received, answered, attempts, quiet) ==
  /\ AtStep("report-score") /\ client /\ user = "known"
  /\ answered => received
  /\ recorded' = IF received THEN [recorded EXCEPT ![step] = @ + 1] ELSE recorded
  /\ CASE answered -> NextStep
       [] ~answered /\ attempt + 1 = attempts -> IF quiet THEN NextStep ELSE Return("report")
       [] ~answered /\ attempt + 1 < attempts ->
            attempt' = attempt + 1 /\ UNCHANGED <<setting, pc, step, prof, result, crashes>>
  /\ UNCHANGED <<dir, cmake, passed>>

(* Faults: a last error that is not returned, and build_only not asked.    *)
PostQuietly(received, answered) == ~build_only /\ Attempt(received, answered, 3, TRUE)
PostAnyway(received, answered) == Attempt(received, answered, 3, FALSE)

(* report_score_with_retries: three attempts in all.                       *)
Post(received, answered) == ~build_only /\ Attempt(received, answered, 3, FALSE)

Finish ==
  /\ pc = "step" /\ step > Len(config)
  /\ Return("ok") /\ UNCHANGED <<dir, cmake, recorded, passed>>

Crash ==
  /\ pc # "idle" /\ crashes < MaxCrashes
  /\ pc' = "idle" /\ result' = "killed" /\ crashes' = crashes + 1
  /\ UNCHANGED <<setting, dir, cmake, step, prof, attempt, recorded, passed>>

Work ==
  \/ SkipFormat \/ NoFilesToFormat \/ NoFilesToSearch \/ CreateDir \/ FindDir
  \/ Build \/ Rebuild \/ OnlyBuilt \/ Finish
  \/ NothingToReport \/ NoTimeToReport
  \/ \E ok \in BOOLEAN : Configure(ok) \/ ConfigureFresh(ok)
  \/ \E b \in BOOLEAN : CheckFormat(b) \/ ForbiddenPatterns(b) \/ RunCmd(b)
  \/ \E received, answered \in BOOLEAN : Post(received, answered)

(* A second run is started only after one that was killed.                 *)
Next ==
  \/ Work \/ Crash
  \/ Start /\ result \in {"none", "killed"}
  \/ pc = "idle" /\ result \notin {"none", "killed"} /\ UNCHANGED vars

Spec == Init /\ [][Next]_vars

-----------------------------------------------------------------------------
TypeOK ==
  /\ dir \in [Profile -> {"absent", "empty", "stale", "configured"}]
  /\ cmake \in {"not run", "ok", "failed"}
  /\ pc \in {"idle", "format", "step", "configure", "build", "fresh", "rebuild", "run"}
  /\ step \in 1 .. Len(config) + 1 /\ prof \in Nat /\ attempt \in 0 .. 2
  /\ pc \in {"configure", "build", "fresh", "rebuild", "run"} => prof \in DOMAIN Step.profiles
  /\ result \in {"none", "ok", "killed", "format", "no files", "forbidden", "build", "test",
                 "report"}
  /\ recorded \in [DOMAIN config -> Nat]
  /\ crashes \in 0 .. MaxCrashes

(* What testing.yaml asks for before step k.                               *)
Searches(k) == {<<i, "clean">> : i \in {j \in 1 .. k - 1 : config[j].type = "forbidden-patterns"}}
Commands(k) ==
  UNION {{<<i, config[i].profiles[j]>> : j \in DOMAIN config[i].profiles} : i \in 1 .. k - 1}
Formatting == IF fmt_check /\ editable = "c++" THEN {<<0, "format">>} ELSE {}
Demanded(k) == Searches(k) \cup Commands(k) \cup Formatting

(* A score is sent only for a solution that has passed, in the same run,   *)
(* everything testing.yaml puts before that report: the formatting, every  *)
(* profile of every command, every search for forbidden patterns.          *)
ScoreIsEarned ==
  [][\A k \in DOMAIN config : recorded'[k] > recorded[k] => Demanded(k) \subseteq passed]_vars

(* A run that succeeds with a client and a user has had every score        *)
(* recorded; without --build-only it has passed everything.                *)
OkMeansDone ==
  result = "ok" /\ ~build_only =>
    /\ Demanded(Len(config) + 1) \subseteq passed
    /\ client /\ user = "known" =>
         \A k \in DOMAIN config : config[k].type = "report-score" => recorded[k] > 0

(* --build-only says it runs no tests: it sends no score either.           *)
BuildOnlyOnlyBuilds ==
  build_only => passed \subseteq {<<i, "clean">> : i \in DOMAIN config}
                /\ \A k \in DOMAIN config : recorded[k] = 0

(* A run ends with a failed build only over a profile the solution cannot  *)
(* be built for, or right after its own cmake --fresh failed: a directory  *)
(* that a killed run left half made, that is out of date, or whose first   *)
(* configuration failed unnoticed, is repaired.                            *)
BuildErrorsAreReal == result = "build" => P \notin compiles \/ cmake = "failed"
=============================================================================
