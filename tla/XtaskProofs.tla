---------------------------- MODULE XtaskProofs ----------------------------
(***************************************************************************)
(* Proofs about the commands of xtask.  MoveSolutions: for any tasks,      *)
(* names and lists of editable files, and however often the move is killed *)
(* and started again.  TestTask: for any testing.yaml and any profiles,    *)
(* whatever the solution, the server and the network do.  ComposeTree:     *)
(* for any trees two levels deep, whatever is skipped or not exported.     *)
(***************************************************************************)
EXTENDS MCXtask, SequenceTheorems, TLAPS

USE DEF EditableFiles

LEMMA InitIInv == Init => IInv
BY EditableAssumption, MaxCrashesAssumption
   DEF Init, IInv, TypeOK, RestIsUntouched, WalkRight, CurrentRight, EmptiedRight,
       FailsOnlyWhenEmptied

(* The invariant of a step is that of the task it deals with: the files of *)
(* the others stay as they are.                                            *)
LEMMA StepIInv == IInv /\ [Next]_vars => IInv'
<1> SUFFICES ASSUME IInv, [Next]_vars PROVE IInv' OBVIOUS
<1> USE EditableAssumption, MaxCrashesAssumption
<1>1. CASE Start
  BY <1>1 DEF Start, IInv, TypeOK, RestIsUntouched, WalkRight, CurrentRight,
              EmptiedRight, FailsOnlyWhenEmptied
<1>2. CASE Finish
  BY <1>2 DEF Finish, IInv, TypeOK, RestIsUntouched, WalkRight, CurrentRight,
              EmptiedRight, FailsOnlyWhenEmptied, Moved
<1>3. CASE Crash
  BY <1>3 DEF Crash, IInv, TypeOK, RestIsUntouched, WalkRight, CurrentRight,
              EmptiedRight, FailsOnlyWhenEmptied
<1>4. ASSUME NEW t \in Task, PassOver(t) PROVE IInv'
  BY <1>4 DEF PassOver, IInv, TypeOK, RestIsUntouched, WalkRight, CurrentRight,
              EmptiedRight, FailsOnlyWhenEmptied, Moved
<1>5. ASSUME NEW t \in Task, Enter(t) PROVE IInv'
  <2>1. TypeOK' /\ RestIsUntouched' /\ FailsOnlyWhenEmptied' /\ EmptiedRight'
    BY <1>5 DEF Enter, IInv, TypeOK, RestIsUntouched, EmptiedRight, FailsOnlyWhenEmptied
  <2>2. WalkRight' BY <1>5 DEF Enter, IInv, TypeOK, WalkRight, Moved
  <2>3. CurrentRight' BY <1>5 DEF Enter, IInv, TypeOK, CurrentRight
  <2>4. QED BY <2>1, <2>2, <2>3 DEF IInv
<1>6. ASSUME NEW t \in Task, Refuse(t) PROVE IInv'
  BY <1>6 DEF Refuse, IInv, TypeOK, RestIsUntouched, WalkRight, CurrentRight,
              EmptiedRight, FailsOnlyWhenEmptied, Moved
<1>7. ASSUME NEW t \in Task, NEW n \in Name, Remove(t, n) PROVE IInv'
  <2>1. t \in Task \ outdated /\ n \in Editable[t] /\ \A u \in cur : u = t
    BY <1>7 DEF Remove, IInv, TypeOK, WalkRight, CurrentRight
  <2>2. TypeOK' BY <1>7 DEF Remove, IInv, TypeOK
  <2>3. RestIsUntouched' BY <1>7, <2>1 DEF Remove, IInv, TypeOK, RestIsUntouched
  <2>4. WalkRight' BY <1>7 DEF Remove, IInv, TypeOK, WalkRight, Moved
  <2>5. CurrentRight' BY <1>7, <2>1 DEF Remove, IInv, TypeOK, CurrentRight
  <2>6. EmptiedRight' BY <1>7 DEF Remove, IInv, TypeOK, EmptiedRight
  <2>7. FailsOnlyWhenEmptied' BY <1>7 DEF Remove, FailsOnlyWhenEmptied
  <2>8. QED BY <2>2, <2>3, <2>4, <2>5, <2>6, <2>7 DEF IInv
<1>8. ASSUME NEW t \in Task, StartCopying(t) PROVE IInv'
  <2>1. \A u \in cur : u = t BY <1>8 DEF StartCopying, IInv, TypeOK
  <2>2. TypeOK' /\ RestIsUntouched' /\ FailsOnlyWhenEmptied' /\ EmptiedRight'
    BY <1>8 DEF StartCopying, IInv, TypeOK, RestIsUntouched, EmptiedRight,
                FailsOnlyWhenEmptied
  <2>3. WalkRight' BY <1>8 DEF StartCopying, IInv, TypeOK, WalkRight, Moved
  <2>4. CurrentRight'
    BY <1>8, <2>1 DEF StartCopying, IInv, TypeOK, CurrentRight
  <2>5. QED BY <2>2, <2>3, <2>4 DEF IInv
<1>9. ASSUME NEW t \in Task, Skip(t) PROVE IInv'
  <2>1. Moved(t) /\ \A u \in cur : u = t
    BY <1>9 DEF Skip, IInv, TypeOK, CurrentRight, Moved
  <2>2. TypeOK' /\ RestIsUntouched' /\ CurrentRight' /\ FailsOnlyWhenEmptied'
    BY <1>9 DEF Skip, IInv, TypeOK, RestIsUntouched, CurrentRight, FailsOnlyWhenEmptied
  <2>3. WalkRight' BY <1>9, <2>1 DEF Skip, IInv, TypeOK, WalkRight, Moved
  <2>4. EmptiedRight' BY <1>9, <2>1 DEF Skip, IInv, TypeOK, EmptiedRight
  <2>5. QED BY <2>2, <2>3, <2>4 DEF IInv
<1>10. ASSUME NEW t \in Task, NEW n \in Name, Copy(t, n) PROVE IInv'
  <2>1. t \in Task \ outdated /\ n \in Editable[t] /\ \A u \in cur : u = t
    BY <1>10 DEF Copy, IInv, TypeOK, WalkRight, CurrentRight
  <2>2. TypeOK' BY <1>10 DEF Copy, IInv, TypeOK
  <2>3. RestIsUntouched' BY <1>10, <2>1 DEF Copy, IInv, TypeOK, RestIsUntouched
  <2>4. WalkRight' BY <1>10 DEF Copy, IInv, TypeOK, WalkRight, Moved
  <2>5. CurrentRight' BY <1>10, <2>1 DEF Copy, IInv, TypeOK, CurrentRight
  <2>6. EmptiedRight' BY <1>10 DEF Copy, IInv, TypeOK, EmptiedRight
  <2>7. FailsOnlyWhenEmptied' BY <1>10 DEF Copy, FailsOnlyWhenEmptied
  <2>8. QED BY <2>2, <2>3, <2>4, <2>5, <2>6, <2>7 DEF IInv
<1>11. ASSUME NEW t \in Task, Leave(t) PROVE IInv'
  <2>1. Moved(t) /\ EditableFiles(from, t) # {} /\ \A u \in cur : u = t
    BY <1>11 DEF Leave, IInv, TypeOK, CurrentRight, Moved
  <2>2. TypeOK' /\ RestIsUntouched' /\ CurrentRight' /\ FailsOnlyWhenEmptied'
    BY <1>11 DEF Leave, IInv, TypeOK, RestIsUntouched, CurrentRight, FailsOnlyWhenEmptied
  <2>3. WalkRight' BY <1>11, <2>1 DEF Leave, IInv, TypeOK, WalkRight, Moved
  <2>4. EmptiedRight'
    <3>1. EditableFiles(to, t) # {} BY <2>1 DEF IInv, TypeOK, Moved
    <3>2. QED BY <1>11, <2>1, <3>1 DEF Leave, IInv, TypeOK, EmptiedRight
  <2>5. QED BY <2>2, <2>3, <2>4 DEF IInv
<1>12. ASSUME NEW t \in Task, NEW n \in Name, CrashInCopy(t, n) PROVE IInv'
  <2>1. t \in Task \ outdated /\ n \in Editable[t]
    BY <1>12 DEF CrashInCopy, IInv, TypeOK, WalkRight, CurrentRight
  <2>2. TypeOK' BY <1>12 DEF CrashInCopy, IInv, TypeOK
  <2>3. RestIsUntouched' BY <1>12, <2>1 DEF CrashInCopy, IInv, TypeOK, RestIsUntouched
  <2>4. WalkRight' /\ CurrentRight' /\ FailsOnlyWhenEmptied'
    BY <1>12 DEF CrashInCopy, WalkRight, CurrentRight, FailsOnlyWhenEmptied
  <2>5. EmptiedRight'
    <3>1. crashes' > 0 BY <1>12 DEF CrashInCopy, IInv, TypeOK
    <3>2. QED BY <3>1 DEF EmptiedRight
  <2>6. QED BY <2>2, <2>3, <2>4, <2>5 DEF IInv
<1>13. CASE UNCHANGED vars
  BY <1>13 DEF vars, walk, IInv, TypeOK, RestIsUntouched, WalkRight, CurrentRight,
               EmptiedRight, FailsOnlyWhenEmptied, Moved
<1>14. QED
  BY <1>1, <1>2, <1>3, <1>4, <1>5, <1>6, <1>7, <1>8, <1>9, <1>10, <1>11, <1>12, <1>13
     DEF Next, Step

LEMMA Invariance == Spec => []IInv
BY InitIInv, StepIInv, PTL DEF Spec

(* The walk deals with one task at a time, and files are plain files.      *)
THEOREM TypeCorrect == Spec => []TypeOK
<1>1. IInv => TypeOK BY DEF IInv
<1>2. QED BY <1>1, Invariance, PTL

(* A move that succeeds has given every task exactly the student's files   *)
(* among the editable ones, whatever killed moves left behind.             *)
THEOREM MovesAreComplete == Spec => []DoneMoves
<1>1. IInv => DoneMoves BY DEF IInv, WalkRight, Moved, DoneMoves
<1>2. QED BY <1>1, Invariance, PTL

(* No file that may not be edited, and no task the student lacks, is ever  *)
(* changed.                                                                *)
THEOREM NothingElseIsTouched == Spec => []RestIsUntouched
<1>1. IInv => RestIsUntouched BY DEF IInv
<1>2. QED BY <1>1, Invariance, PTL

(* A move fails only over a task that an earlier one has emptied.          *)
THEOREM FailureNeedsAnEarlierMove == Spec => []FailsOnlyWhenEmptied
<1>1. IInv => FailsOnlyWhenEmptied BY DEF IInv
<1>2. QED BY <1>1, Invariance, PTL

-----------------------------------------------------------------------------
(* TestTask.  What the run has come to is behind it: every step before     *)
(* step, and the profiles before prof.                                     *)
SettingRight ==
  /\ config \in Configs /\ compiles \in {{}, Profile}
  /\ build_only \in BOOLEAN /\ client \in BOOLEAN /\ fmt_check \in BOOLEAN
  /\ user \in {"unknown", "no time", "known"} /\ editable \in {"none", "other", "c++"}

PlaceRight ==
  /\ pc # "idle" => result = "none"
  /\ pc = "format" => step = 1 /\ prof = 1
  /\ pc = "step" /\ step <= Len(config) => prof = 1 \/ prof \in DOMAIN T!Step.profiles
  /\ pc \in {"configure", "build", "fresh", "rebuild", "run"} => step <= Len(config)
  /\ pc = "rebuild" => dir[T!P] = "configured" \/ cmake = "failed"

BehindRight ==
  pc \notin {"idle", "format"} /\ ~build_only =>
    /\ T!Demanded(step) \subseteq passed
    /\ \A j \in 1 .. prof - 1 : <<step, config[step].profiles[j]>> \in passed
    /\ client /\ user = "known" =>
         \A k \in 1 .. step - 1 : config[k].type = "report-score" => recorded[k] > 0

TestInv ==
  /\ SettingRight /\ T!TypeOK /\ PlaceRight /\ BehindRight
  /\ T!OkMeansDone /\ T!BuildOnlyOnlyBuilds /\ T!BuildErrorsAreReal

LEMMA ConfigFacts ==
  ASSUME SettingRight
  PROVE  /\ Len(config) \in Nat /\ DOMAIN config = 1 .. Len(config)
         /\ \A k \in 1 .. Len(config) :
              /\ config[k].type \in {"run-cmd", "forbidden-patterns", "report-score"}
              /\ DOMAIN config[k].profiles = 1 .. Len(config[k].profiles)
              /\ Len(config[k].profiles) \in Nat
              /\ \A j \in 1 .. Len(config[k].profiles) : config[k].profiles[j] \in Profile
              /\ config[k].type = "run-cmd" => 1 \in DOMAIN config[k].profiles
              /\ config[k].type # "run-cmd" => Len(config[k].profiles) = 0
<1>1. /\ Len(config) \in Nat /\ DOMAIN config = 1 .. Len(config)
      /\ \A k \in DOMAIN config :
           /\ config[k].type \in {"run-cmd", "forbidden-patterns", "report-score"}
           /\ config[k].profiles \in Seq(Profile)
           /\ config[k].type = "run-cmd" <=> config[k].profiles # <<>>
  BY TestAssumption DEF SettingRight, T!ConfigsAssumption
<1>2. QED  BY <1>1

LEMMA InDemanded ==
  ASSUME NEW n, NEW x
  PROVE  x \in T!Demanded(n) <=>
           \/ \E i \in 1 .. n - 1 : config[i].type = "forbidden-patterns" /\ x = <<i, "clean">>
           \/ \E i \in 1 .. n - 1 : \E j \in DOMAIN config[i].profiles : x = <<i, config[i].profiles[j]>>
           \/ fmt_check /\ editable = "c++" /\ x = <<0, "format">>
<1>1. x \in T!Searches(n) <=>
        \E i \in 1 .. n - 1 : config[i].type = "forbidden-patterns" /\ x = <<i, "clean">>
  BY DEF T!Searches
<1>2. x \in T!Commands(n) <=>
        \E i \in 1 .. n - 1 : \E j \in DOMAIN config[i].profiles : x = <<i, config[i].profiles[j]>>
  BY DEF T!Commands
<1>3. x \in T!Formatting <=> fmt_check /\ editable = "c++" /\ x = <<0, "format">>
  BY DEF T!Formatting
<1>4. QED  BY <1>1, <1>2, <1>3 DEF T!Demanded

(* What a step of testing.yaml adds to the demands.                        *)
LEMMA DemandedNext ==
  ASSUME SettingRight, NEW k \in 1 .. Len(config), NEW x \in T!Demanded(k + 1)
  PROVE  \/ x \in T!Demanded(k)
         \/ config[k].type = "forbidden-patterns" /\ x = <<k, "clean">>
         \/ \E j \in DOMAIN config[k].profiles : x = <<k, config[k].profiles[j]>>
<1>1. \A i \in 1 .. (k + 1) - 1 : i = k \/ i \in 1 .. k - 1  BY ConfigFacts
<1>2. PICK n : n = k + 1  OBVIOUS
<1>3. \A i \in 1 .. n - 1 : i = k \/ i \in 1 .. k - 1  BY <1>1, <1>2
<1>4. x \in T!Demanded(n)  BY <1>2
<1>5. CASE \E i \in 1 .. n - 1 : config[i].type = "forbidden-patterns" /\ x = <<i, "clean">>
  <2>1. PICK i \in 1 .. n - 1 : config[i].type = "forbidden-patterns" /\ x = <<i, "clean">>  BY <1>5
  <2>2. CASE i = k  BY <2>1, <2>2
  <2>3. CASE i \in 1 .. k - 1  BY <2>1, <2>3, InDemanded
  <2>4. QED  BY <2>2, <2>3, <1>3
<1>6. CASE \E i \in 1 .. n - 1 : \E j \in DOMAIN config[i].profiles : x = <<i, config[i].profiles[j]>>
  <2>1. PICK i \in 1 .. n - 1 : \E j \in DOMAIN config[i].profiles : x = <<i, config[i].profiles[j]>>
    BY <1>6
  <2>2. CASE i = k  BY <2>1, <2>2
  <2>3. CASE i \in 1 .. k - 1  BY <2>1, <2>3, InDemanded
  <2>4. QED  BY <2>2, <2>3, <1>3
<1>7. CASE fmt_check /\ editable = "c++" /\ x = <<0, "format">>  BY <1>7, InDemanded
<1>8. QED  BY <1>4, <1>5, <1>6, <1>7, InDemanded

LEMMA InitTestInv == T!Init => TestInv
<1> SUFFICES ASSUME T!Init PROVE TestInv  OBVIOUS
<1>1. SettingRight  BY DEF T!Init, SettingRight
<1>2. Len(config) \in Nat  BY <1>1, ConfigFacts
<1>3. T!TypeOK
  <2>0. step = 1 /\ prof = 1 /\ attempt = 0 /\ killed = 0  BY DEF T!Init
  <2>1. step \in 1 .. Len(config) + 1 /\ prof \in Nat /\ attempt \in 0 .. 2
    BY <2>0, <1>2
  <2>2. killed \in 0 .. MaxKilled  BY <2>0, TestAssumption DEF T!CrashesAssumption
  <2>3. recorded \in [DOMAIN config -> Nat]  BY DEF T!Init
  <2>4. dir \in [Profile -> {"absent", "empty", "stale", "configured"}] /\ cmake = "not run"
    BY DEF T!Init
  <2>5. QED  BY <2>1, <2>2, <2>3, <2>4 DEF T!Init, T!TypeOK
<1>4. PlaceRight /\ BehindRight  BY DEF T!Init, PlaceRight, BehindRight
<1>5. T!OkMeansDone /\ T!BuildOnlyOnlyBuilds /\ T!BuildErrorsAreReal
  BY DEF T!Init, T!OkMeansDone, T!BuildOnlyOnlyBuilds, T!BuildErrorsAreReal
<1>6. QED  BY <1>1, <1>3, <1>4, <1>5 DEF TestInv

(* A run that is over, or killed, has nothing ahead of it.                 *)
LEMMA ReturnKeeps ==
  ASSUME TestInv, NEW r \in {"ok", "killed", "format", "no files", "forbidden", "build", "test", "report"},
         pc' = "idle", result' = r, UNCHANGED <<T!setting, step, prof, attempt, recorded, passed>>,
         killed' \in 0 .. MaxKilled, dir' = dir, cmake' = cmake,
         r = "ok" => T!OkMeansDone', r = "build" => T!BuildErrorsAreReal'
  PROVE  TestInv'
<1>1. SettingRight' /\ PlaceRight' /\ BehindRight'
  BY DEF TestInv, T!setting, SettingRight, PlaceRight, BehindRight
<1>2. T!TypeOK'  BY DEF TestInv, T!setting, T!TypeOK
<1>3. T!OkMeansDone' /\ T!BuildErrorsAreReal'  BY DEF T!OkMeansDone, T!BuildErrorsAreReal
<1>4. T!BuildOnlyOnlyBuilds'  BY DEF TestInv, T!setting, T!BuildOnlyOnlyBuilds
<1>5. QED  BY <1>1, <1>2, <1>3, <1>4 DEF TestInv

LEMMA DemandedStays ==
  ASSUME UNCHANGED <<config, fmt_check, editable, step>>
  PROVE  T!Demanded(step)' = T!Demanded(step)
BY DEF T!Demanded, T!Searches, T!Commands, T!Formatting

(* Within a profile the run goes from one place to another.                *)
LEMMA GotoKeeps ==
  ASSUME TestInv, pc \notin {"idle", "format"},
         NEW where \in {"configure", "build", "fresh", "rebuild", "run"},
         T!Goto(where), UNCHANGED <<recorded, passed>>,
         step <= Len(config), prof \in DOMAIN T!Step.profiles,
         dir' \in [Profile -> {"absent", "empty", "stale", "configured"}],
         cmake' \in {"not run", "ok", "failed"},
         where = "rebuild" => dir'[T!P] = "configured" \/ cmake' = "failed"
  PROVE  TestInv'
<1>0. UNCHANGED T!setting /\ pc' = where /\ UNCHANGED <<step, prof, attempt, result, killed>>
  BY DEF T!Goto
<1>1. SettingRight' /\ PlaceRight'
  <2>1. SettingRight'  BY <1>0 DEF TestInv, T!setting, SettingRight
  <2>2. config' = config /\ T!P' = T!P /\ result = "none"
    BY <1>0 DEF TestInv, PlaceRight, T!setting, T!P, T!Step
  <2>3. PlaceRight'  BY <1>0, <2>2 DEF PlaceRight
  <2>4. QED  BY <2>1, <2>3
<1>2. T!TypeOK'  BY <1>0 DEF TestInv, T!setting, T!TypeOK, T!Step
<1>3. BehindRight'
  <2>1. /\ config' = config /\ fmt_check' = fmt_check /\ editable' = editable /\ step' = step
        /\ build_only' = build_only /\ client' = client /\ user' = user
    BY <1>0 DEF T!setting
  <2>2. T!Demanded(step)' = T!Demanded(step)  BY <2>1, DemandedStays
  <2>3. /\ pc \notin {"idle", "format"} /\ UNCHANGED <<step, prof, recorded, passed>>
    BY <1>0
  <2>4. BehindRight  BY DEF TestInv
  <2>5. QED  BY <2>1, <2>2, <2>3, <2>4 DEF BehindRight
<1>4. T!OkMeansDone' /\ T!BuildErrorsAreReal'
  BY <1>0 DEF TestInv, PlaceRight, T!OkMeansDone, T!BuildErrorsAreReal
<1>5. T!BuildOnlyOnlyBuilds'  BY <1>0 DEF TestInv, T!setting, T!BuildOnlyOnlyBuilds
<1>6. QED  BY <1>1, <1>2, <1>3, <1>4, <1>5 DEF TestInv

(* A step of testing.yaml is done, and the run comes to the next one.      *)
LEMMA NextStepKeeps ==
  ASSUME TestInv, pc \notin {"idle", "format"}, step <= Len(config), T!NextStep,
         dir' = dir, cmake' = cmake, recorded' \in [DOMAIN config -> Nat],
         \A k \in DOMAIN config : recorded'[k] >= recorded[k],
         build_only => recorded' = recorded /\ passed' \subseteq passed \cup {<<step, "clean">>},
         passed \subseteq passed',
         ~build_only => T!Demanded(step + 1) \subseteq T!Demanded(step) \cup passed',
         ~build_only /\ client /\ user = "known" /\ config[step].type = "report-score" =>
           recorded'[step] > 0
  PROVE  TestInv'
<1>0. /\ UNCHANGED T!setting /\ pc' = "step" /\ step' = step + 1 /\ prof' = 1 /\ attempt' = 0
      /\ UNCHANGED <<result, killed>>
  BY DEF T!NextStep
<1>1. /\ config' = config /\ build_only' = build_only /\ client' = client /\ user' = user
      /\ fmt_check' = fmt_check /\ editable' = editable /\ compiles' = compiles
  BY <1>0 DEF T!setting
<1>2. Len(config) \in Nat /\ DOMAIN config = 1 .. Len(config) /\ step \in 1 .. Len(config)
  <2>1. Len(config) \in Nat /\ DOMAIN config = 1 .. Len(config)  BY ConfigFacts DEF TestInv
  <2>2. step \in 1 .. Len(config) + 1  BY DEF TestInv, T!TypeOK
  <2>3. QED  BY <2>1, <2>2
<1>3. SettingRight' /\ PlaceRight'
  BY <1>0, <1>1 DEF TestInv, SettingRight, PlaceRight, T!P, T!Step
<1>4. T!TypeOK'
  <2>1. step' \in 1 .. Len(config) + 1  BY <1>0, <1>2
  <2>2. T!TypeOK /\ killed \in 0 .. MaxKilled /\ result \in {"none", "ok", "killed", "format", "no files", "forbidden", "build", "test", "report"}
    BY DEF TestInv, T!TypeOK
  <2>3. prof' \in Nat /\ attempt' \in 0 .. 2 /\ pc' = "step"  BY <1>0
  <2>4. QED  BY <1>0, <1>1, <2>1, <2>2, <2>3 DEF T!TypeOK
<1>5. BehindRight'
  <2>0. PICK n : n = step + 1  OBVIOUS
  <2> SUFFICES ASSUME ~build_only
               PROVE  /\ T!Demanded(n) \subseteq passed'
                      /\ client /\ user = "known" =>
                           \A k \in 1 .. step : config[k].type = "report-score" => recorded'[k] > 0
    <3>1. 1 .. prof' - 1 = {} /\ 1 .. step' - 1 = 1 .. step  BY <1>0, <1>2
    <3>2. T!Demanded(step)' = T!Demanded(n)  BY <2>0, <1>0, <1>1 DEF T!Demanded, T!Searches, T!Commands, T!Formatting
    <3>3. QED  BY <1>0, <1>1, <3>1, <3>2 DEF BehindRight
  <2>1. T!Demanded(step) \subseteq passed  BY DEF TestInv, BehindRight
  <2>2. T!Demanded(n) \subseteq passed'  BY <2>0, <2>1
  <2>4. ASSUME client, user = "known", NEW k \in 1 .. step, config[k].type = "report-score"
        PROVE  recorded'[k] > 0
    <3>1. CASE k = step  BY <3>1, <2>4
    <3>2. CASE k # step
      <4>1. k \in 1 .. step - 1 /\ k \in DOMAIN config  BY <3>2, <1>2
      <4>2. recorded[k] > 0 /\ recorded[k] \in Nat  BY <4>1, <2>4 DEF TestInv, BehindRight, T!TypeOK
      <4>3. recorded'[k] >= recorded[k] /\ recorded'[k] \in Nat  BY <4>1
      <4>4. QED  BY <4>2, <4>3
    <3>3. QED  BY <3>1, <3>2
  <2>5. QED  BY <2>2, <2>4
<1>6. T!OkMeansDone' /\ T!BuildErrorsAreReal'
  BY <1>0, <1>1 DEF TestInv, PlaceRight, T!OkMeansDone, T!BuildErrorsAreReal
<1>7. T!BuildOnlyOnlyBuilds'
  BY <1>1, <1>2 DEF TestInv, T!BuildOnlyOnlyBuilds
<1>8. QED  BY <1>3, <1>4, <1>5, <1>6, <1>7 DEF TestInv

(* A profile is dealt with, and the run comes to the next one, if any.     *)
LEMMA NextProfileKeeps ==
  ASSUME TestInv, pc = "run", T!NextProfile, UNCHANGED <<dir, cmake, recorded>>, passed \subseteq passed',
         build_only => passed' = passed,
         ~build_only => <<step, T!P>> \in passed'
  PROVE  TestInv'
<1>1. /\ recorded \in [DOMAIN config -> Nat] /\ Len(config) \in Nat /\ DOMAIN config = 1 .. Len(config)
      /\ step \in 1 .. Len(config) /\ prof \in DOMAIN config[step].profiles
  <2>1. /\ step \in 1 .. Len(config) + 1 /\ step <= Len(config) /\ recorded \in [DOMAIN config -> Nat]
        /\ prof \in DOMAIN config[step].profiles
    BY DEF TestInv, T!TypeOK, PlaceRight, T!Step
  <2>2. Len(config) \in Nat /\ DOMAIN config = 1 .. Len(config)  BY ConfigFacts DEF TestInv
  <2>3. QED  BY <2>1, <2>2
<1>2. /\ config[step].type = "run-cmd" /\ Len(config[step].profiles) \in Nat
      /\ DOMAIN config[step].profiles = 1 .. Len(config[step].profiles)
  <2>1. /\ Len(config[step].profiles) \in Nat
        /\ DOMAIN config[step].profiles = 1 .. Len(config[step].profiles)
        /\ config[step].type # "run-cmd" => Len(config[step].profiles) = 0
    BY <1>1, ConfigFacts DEF TestInv
  <2>2. QED  BY <2>1, <1>1
<1>3. \A j \in 1 .. prof : ~build_only => <<step, config[step].profiles[j]>> \in passed'
  <2>1. \A j \in 1 .. prof - 1 : ~build_only => <<step, config[step].profiles[j]>> \in passed
    BY DEF TestInv, BehindRight
  <2>2. \A j \in 1 .. prof : j \in 1 .. prof - 1 \/ j = prof  BY <1>1, <1>2
  <2>3. QED  BY <2>1, <2>2 DEF T!P, T!Step
<1>4. CASE prof < Len(config[step].profiles)
  <2>1. /\ pc' = "step" /\ prof' = prof + 1 /\ UNCHANGED <<T!setting, step, attempt, result, killed>>
    BY <1>4 DEF T!NextProfile, T!Step
  <2>2. /\ config' = config /\ build_only' = build_only /\ client' = client /\ user' = user
        /\ fmt_check' = fmt_check /\ editable' = editable /\ compiles' = compiles
    BY <2>1 DEF T!setting
  <2>3. SettingRight'  BY <2>2 DEF TestInv, SettingRight
  <2>4. PlaceRight'
    <3>1. prof' \in DOMAIN config[step].profiles  BY <2>1, <1>1, <1>2, <1>4
    <3>2. QED  BY <2>1, <2>2, <3>1 DEF TestInv, PlaceRight, T!Step
  <2>5. T!TypeOK'
    <3>1. prof' \in Nat  BY <2>1, <1>1, <1>2
    <3>2. QED  BY <2>1, <2>2, <3>1 DEF TestInv, T!TypeOK
  <2>6. BehindRight'
    <3>1. T!Demanded(step)' = T!Demanded(step)  BY <2>1, <2>2 DEF T!Demanded, T!Searches, T!Commands, T!Formatting
    <3>2. 1 .. prof' - 1 = 1 .. prof  BY <2>1, <1>1, <1>2
    <3>3. QED  BY <2>1, <2>2, <3>1, <3>2, <1>3 DEF TestInv, BehindRight
  <2>7. T!OkMeansDone' /\ T!BuildErrorsAreReal'
    BY <2>1 DEF TestInv, PlaceRight, T!OkMeansDone, T!BuildErrorsAreReal
  <2>8. T!BuildOnlyOnlyBuilds'
    BY <2>2 DEF TestInv, T!BuildOnlyOnlyBuilds
  <2>9. QED  BY <2>3, <2>4, <2>5, <2>6, <2>7, <2>8 DEF TestInv
<1>5. CASE ~(prof < Len(config[step].profiles))
  <2>1. T!NextStep  BY <1>5 DEF T!NextProfile, T!Step
  <2>2. ASSUME ~build_only PROVE T!Demanded(step + 1) \subseteq T!Demanded(step) \cup passed'
    <3> SUFFICES ASSUME NEW x \in T!Demanded(step + 1)
                 PROVE  x \in T!Demanded(step) \cup passed'
      OBVIOUS
    <3>1. x \in T!Demanded(step) \/ \E j \in DOMAIN config[step].profiles : x = <<step, config[step].profiles[j]>>
      BY <1>1, <1>2, DemandedNext DEF TestInv
    <3>2. \A j \in DOMAIN config[step].profiles : j \in 1 .. prof  BY <1>1, <1>2, <1>5
    <3>3. QED  BY <3>1, <3>2, <2>2, <1>3
  <2>3. \A k \in DOMAIN config : recorded'[k] >= recorded[k]  BY <1>1
  <2>4. recorded' \in [DOMAIN config -> Nat]  BY <1>1
  <2>5. step <= Len(config) /\ config[step].type # "report-score"  BY <1>1, <1>2
  <2>6. QED  BY <2>1, <2>2, <2>3, <2>4, <2>5, NextStepKeeps
<1>6. QED  BY <1>4, <1>5

LEMMA StepTestInv == TestInv /\ [T!Next]_T!vars => TestInv'
<1> SUFFICES ASSUME TestInv, [T!Next]_T!vars PROVE TestInv'  OBVIOUS
<1>0. /\ dir \in [Profile -> {"absent", "empty", "stale", "configured"}]
      /\ recorded \in [DOMAIN config -> Nat] /\ killed \in 0 .. MaxKilled
      /\ step \in 1 .. Len(config) + 1 /\ prof \in Nat /\ attempt \in 0 .. 2
      /\ pc \in {"idle", "format", "step", "configure", "build", "fresh", "rebuild", "run"}
  BY DEF TestInv, T!TypeOK
<1>00. Len(config) \in Nat /\ DOMAIN config = 1 .. Len(config)  BY ConfigFacts DEF TestInv
<1>01. cmake \in {"not run", "ok", "failed"}  BY DEF TestInv, T!TypeOK
(* Inside a command, the run is at one of its profiles.                    *)
<1>1. ASSUME pc \in {"configure", "build", "fresh", "rebuild", "run"} \/ T!AtStep("run-cmd")
      PROVE  /\ step <= Len(config) /\ prof \in DOMAIN T!Step.profiles /\ T!P \in Profile
             /\ pc \notin {"idle", "format"}
  <2>1. step <= Len(config) /\ prof \in DOMAIN T!Step.profiles /\ pc \notin {"idle", "format"}
    <3>1. CASE pc \in {"configure", "build", "fresh", "rebuild", "run"}
      BY <3>1 DEF TestInv, T!TypeOK, PlaceRight
    <3>2. CASE T!AtStep("run-cmd")
      <4>1. pc = "step" /\ step <= Len(config) /\ config[step].type = "run-cmd"
        BY <3>2 DEF T!AtStep, T!Step
      <4>2. prof = 1 \/ prof \in DOMAIN T!Step.profiles  BY <4>1 DEF TestInv, PlaceRight
      <4>3. step \in 1 .. Len(config)  BY <4>1, <1>0, <1>00
      <4>4. 1 \in DOMAIN config[step].profiles  BY <4>1, <4>3, ConfigFacts DEF TestInv
      <4>5. QED  BY <4>1, <4>2, <4>4 DEF T!Step
    <3>3. QED  BY <1>1, <3>1, <3>2
  <2>2. step \in 1 .. Len(config)  BY <2>1, <1>0, <1>00
  <2>3. \A j \in DOMAIN config[step].profiles : config[step].profiles[j] \in Profile
    BY <2>2, ConfigFacts DEF TestInv
  <2>4. QED  BY <2>1, <2>3 DEF T!P, T!Step
<1>2. CASE T!Start /\ result \in {"none", "killed"}
  <2>1. /\ pc = "idle" /\ pc' = "format" /\ step' = 1 /\ prof' = 1 /\ attempt' = 0
        /\ result' = "none" /\ passed' = {} /\ cmake' = "not run"
        /\ UNCHANGED <<T!setting, dir, recorded, killed>>
    BY <1>2 DEF T!Start
  <2>2. /\ config' = config /\ build_only' = build_only /\ client' = client /\ user' = user
        /\ fmt_check' = fmt_check /\ editable' = editable /\ compiles' = compiles
    BY <2>1 DEF T!setting
  <2>3. SettingRight' /\ PlaceRight' /\ BehindRight'
    BY <2>1, <2>2 DEF TestInv, SettingRight, PlaceRight, BehindRight
  <2>4. T!TypeOK'
    <3>0. step' = 1 /\ prof' = 1 /\ attempt' = 0  BY <2>1
    <3>1. step' \in 1 .. Len(config) + 1 /\ prof' \in Nat /\ attempt' \in 0 .. 2  BY <3>0, <1>00
    <3>2. cmake' \in {"not run", "ok", "failed"}  BY <2>1
    <3>3. QED  BY <2>1, <2>2, <3>1, <3>2, <1>0 DEF T!TypeOK
  <2>5. T!OkMeansDone' /\ T!BuildErrorsAreReal' /\ T!BuildOnlyOnlyBuilds'
    BY <2>1, <2>2 DEF TestInv, T!OkMeansDone, T!BuildErrorsAreReal, T!BuildOnlyOnlyBuilds
  <2>6. QED  BY <2>3, <2>4, <2>5 DEF TestInv
<1>3. CASE UNCHANGED T!vars
  <2>1. UNCHANGED <<config, build_only, client, user, fmt_check, editable, compiles, dir, cmake, pc, step, prof,
                    attempt, result, recorded, passed, killed>>
    BY <1>3 DEF T!vars, T!setting
  <2>2. SettingRight' /\ PlaceRight'  BY ZenonT(40), <2>1 DEF TestInv, SettingRight, PlaceRight, T!P, T!Step
  <2>3. T!TypeOK'  BY <2>1 DEF TestInv, T!TypeOK, T!Step
  <2>4. BehindRight' /\ T!OkMeansDone' /\ T!BuildErrorsAreReal' /\ T!BuildOnlyOnlyBuilds'
    BY <2>1 DEF TestInv, BehindRight, T!Demanded, T!Searches, T!Commands, T!Formatting,
                T!OkMeansDone, T!BuildErrorsAreReal, T!P, T!Step, T!BuildOnlyOnlyBuilds
  <2>5. QED  BY <2>2, <2>3, <2>4 DEF TestInv
<1>4. CASE T!Crash
  <2>1. /\ pc' = "idle" /\ result' = "killed" /\ killed' = killed + 1 /\ killed < MaxKilled
        /\ UNCHANGED <<T!setting, dir, cmake, step, prof, attempt, recorded, passed>>
    BY <1>4 DEF T!Crash
  <2>2. killed' \in 0 .. MaxKilled  BY <2>1, <1>0, TestAssumption DEF T!CrashesAssumption
  <2>3. PICK r : r = "killed"  OBVIOUS
  <2>4. QED  BY <2>1, <2>2, <2>3, ReturnKeeps
(* The formatting, and the searches.                                       *)
<1>5. ASSUME pc = "format", T!Goto("step"), UNCHANGED <<dir, cmake, recorded>>,
             build_only => passed' = passed,
             ~build_only => passed \subseteq passed' /\ T!Demanded(1) \subseteq passed'
      PROVE  TestInv'
  <2>1. pc' = "step" /\ UNCHANGED <<T!setting, step, prof, attempt, result, killed>> /\ step = 1 /\ prof = 1
    BY <1>5 DEF T!Goto, TestInv, PlaceRight
  <2>2. /\ config' = config /\ build_only' = build_only /\ client' = client /\ user' = user
        /\ fmt_check' = fmt_check /\ editable' = editable /\ compiles' = compiles
    BY <2>1 DEF T!setting
  <2>3. SettingRight' /\ PlaceRight'  BY <2>1, <2>2, <1>5 DEF TestInv, SettingRight, PlaceRight
  <2>4. T!TypeOK'  BY <2>1, <2>2, <1>5 DEF TestInv, T!TypeOK
  <2>5. BehindRight'
    <3>1. T!Demanded(step)' = T!Demanded(1)  BY <2>1, <2>2 DEF T!Demanded, T!Searches, T!Commands, T!Formatting
    <3>2. 1 .. prof' - 1 = {} /\ 1 .. step' - 1 = {}  BY <2>1
    <3>3. QED  BY <2>1, <2>2, <3>1, <3>2, <1>5 DEF BehindRight
  <2>6. T!OkMeansDone' /\ T!BuildErrorsAreReal'
    BY <2>1, <1>5 DEF TestInv, PlaceRight, T!OkMeansDone, T!BuildErrorsAreReal
  <2>7. T!BuildOnlyOnlyBuilds'  BY <2>2, <1>5 DEF TestInv, T!BuildOnlyOnlyBuilds
  <2>8. QED  BY <2>3, <2>4, <2>5, <2>6, <2>7 DEF TestInv
<1>6. ASSUME NEW x \in T!Demanded(1) PROVE fmt_check /\ editable = "c++" /\ x = <<0, "format">>
  <2>1. 1 .. 1 - 1 = {}  OBVIOUS
  <2>2. QED  BY <2>1, <1>6, InDemanded
<1>7. CASE T!SkipFormat
  <2>1. pc = "format" /\ T!Goto("step") /\ UNCHANGED <<dir, cmake, recorded, passed>>  BY <1>7 DEF T!SkipFormat
  <2>2. ~build_only => T!Demanded(1) = {}  BY <1>6, <1>7 DEF T!SkipFormat
  <2>3. QED  BY <2>1, <2>2, <1>5
(* A return with an error, or the success of the last step.                *)
<1>8. ASSUME NEW r \in {"format", "no files", "forbidden", "test", "report"}, T!Return(r),
             UNCHANGED <<dir, cmake, recorded, passed>>
      PROVE  TestInv'
  <2>1. pc' = "idle" /\ result' = r /\ UNCHANGED <<T!setting, step, prof, attempt, killed>>
    BY <1>8 DEF T!Return
  <2>2. killed' \in 0 .. MaxKilled  BY <2>1, <1>0
  <2>3. QED  BY <2>1, <2>2, <1>8, ReturnKeeps
<1>9. ASSUME NEW ok \in BOOLEAN, T!CheckFormat(ok) PROVE TestInv'
  <2>1. CASE ok
    <3>1. pc = "format" /\ T!Goto("step") /\ UNCHANGED <<dir, cmake, recorded>> /\ ~build_only
          /\ passed' = passed \cup {<<0, "format">>}
      BY <1>9, <2>1 DEF T!CheckFormat, T!Pass
    <3>2. T!Demanded(1) \subseteq passed'  BY <3>1, <1>6
    <3>3. QED  BY <3>1, <3>2, <1>5
  <2>2. CASE ~ok
    <3>1. T!Return("format") /\ UNCHANGED <<dir, cmake, recorded, passed>>  BY <1>9, <2>2 DEF T!CheckFormat
    <3>2. PICK r : r = "format"  OBVIOUS
    <3>3. QED  BY <3>1, <3>2, <1>8
  <2>3. QED  BY <2>1, <2>2
<1>10. CASE T!NoFilesToFormat \/ T!NoFilesToSearch \/ T!NoTimeToReport
  <2>1. PICK r \in {"no files", "report"} : T!Return(r) /\ UNCHANGED <<dir, cmake, recorded, passed>>
    BY <1>10 DEF T!NoFilesToFormat, T!NoFilesToSearch, T!NoTimeToReport
  <2>2. QED  BY <2>1, <1>8
(* A step that is no command.                                              *)
<1>11. ASSUME T!AtStep("forbidden-patterns") \/ T!AtStep("report-score")
       PROVE  /\ step \in 1 .. Len(config) /\ pc = "step" /\ result = "none"
              /\ \A x \in T!Demanded(step + 1) :
                   x \in T!Demanded(step) \/ (config[step].type = "forbidden-patterns" /\ x = <<step, "clean">>)
  <2>1. pc = "step" /\ step <= Len(config) /\ config[step].type # "run-cmd"
    BY <1>11 DEF T!AtStep, T!Step
  <2>2. step \in 1 .. Len(config)  BY <2>1, <1>0, <1>00
  <2>3. DOMAIN config[step].profiles = {}
    <3>1. /\ DOMAIN config[step].profiles = 1 .. Len(config[step].profiles)
          /\ Len(config[step].profiles) = 0
      BY <2>1, <2>2, ConfigFacts DEF TestInv
    <3>2. QED  BY <3>1
  <2>4. result = "none"  BY <2>1 DEF TestInv, PlaceRight
  <2>5. ASSUME NEW x \in T!Demanded(step + 1)
        PROVE  x \in T!Demanded(step) \/ (config[step].type = "forbidden-patterns" /\ x = <<step, "clean">>)
    <3>1. PICK k \in 1 .. Len(config) : k = step  BY <2>2
    <3>2. x \in T!Demanded(k + 1) /\ DOMAIN config[k].profiles = {} /\ SettingRight
      BY <3>1, <2>3, <2>5 DEF TestInv
    <3>3. x \in T!Demanded(k) \/ (config[k].type = "forbidden-patterns" /\ x = <<k, "clean">>)
      BY <3>2, DemandedNext
    <3>4. QED  BY <3>1, <3>3
  <2>6. QED  BY <2>1, <2>2, <2>4, <2>5
<1>12. ASSUME NEW found \in BOOLEAN, T!ForbiddenPatterns(found) PROVE TestInv'
  <2>1. CASE found
    <3>1. T!Return("forbidden") /\ UNCHANGED <<dir, cmake, recorded, passed>>
      BY <1>12, <2>1 DEF T!ForbiddenPatterns
    <3>2. PICK r : r = "forbidden"  OBVIOUS
    <3>3. QED  BY <3>1, <3>2, <1>8
  <2>2. CASE ~found
    <3>1. T!NextStep /\ UNCHANGED <<dir, cmake, recorded>> /\ passed' = passed \cup {<<step, "clean">>}
          /\ T!AtStep("forbidden-patterns")
      BY <1>12, <2>2 DEF T!ForbiddenPatterns, T!Pass
    <3>2. step <= Len(config) /\ pc = "step" /\ T!Demanded(step + 1) \subseteq T!Demanded(step) \cup passed'
      BY <3>1, <1>11, <1>0, <1>00
    <3>3. config[step].type = "forbidden-patterns"  BY <3>1 DEF T!AtStep, T!Step
    <3>4. /\ recorded' \in [DOMAIN config -> Nat] /\ \A k \in DOMAIN config : recorded'[k] >= recorded[k]
      BY <3>1, <1>0
    <3>5. QED  BY <3>1, <3>2, <3>3, <3>4, NextStepKeeps
  <2>3. QED  BY <2>1, <2>2
(* The build.                                                              *)
<1>13. ASSUME NEW where \in {"configure", "build", "fresh", "rebuild", "run"}, T!Goto(where),
              UNCHANGED <<recorded, passed>>,
              pc \in {"configure", "build", "fresh", "rebuild", "run"} \/ T!AtStep("run-cmd"),
              NEW s \in {"empty", "configured"}, dir' = dir \/ dir' = [dir EXCEPT ![T!P] = s],
              cmake' \in {"not run", "ok", "failed"},
              where = "rebuild" => dir'[T!P] = "configured" \/ cmake' = "failed"
       PROVE  TestInv'
  <2>1. dir' \in [Profile -> {"absent", "empty", "stale", "configured"}]  BY <1>0, <1>13
  <2>2. QED  BY <2>1, <1>1, <1>13, GotoKeeps
<1>14. ASSUME NEW ok \in BOOLEAN, T!RunCmake(ok), T!P \in Profile
       PROVE  \E s \in {"empty", "configured"} :
                /\ dir' = [dir EXCEPT ![T!P] = s] /\ cmake' \in {"not run", "ok", "failed"}
                /\ dir'[T!P] = "configured" \/ cmake' = "failed"
  <2>1. CASE ok
    <3>1. dir' = [dir EXCEPT ![T!P] = "configured"] /\ cmake' = "ok"  BY <1>14, <2>1 DEF T!RunCmake
    <3>2. dir'[T!P] = "configured"  BY <3>1, <1>14, <1>0
    <3>3. QED  BY <3>1, <3>2
  <2>2. CASE ~ok  BY <1>14, <2>2 DEF T!RunCmake
  <2>3. QED  BY <2>1, <2>2
<1>15. CASE T!CreateDir \/ T!FindDir \/ T!Build
  <2>1. PICK where \in {"configure", "build", "fresh", "run"}, s \in {"empty", "configured"} :
          /\ T!Goto(where) /\ UNCHANGED <<cmake, recorded, passed>>
          /\ dir' = dir \/ dir' = [dir EXCEPT ![T!P] = s]
          /\ pc = "build" \/ T!AtStep("run-cmd")
    BY <1>15 DEF T!CreateDir, T!FindDir, T!Build
  <2>2. cmake' \in {"not run", "ok", "failed"}  BY <2>1, <1>01
  <2>3. QED  BY <2>1, <2>2, <1>13
<1>16. ASSUME NEW ok \in BOOLEAN, T!Configure(ok) \/ T!ConfigureFresh(ok) PROVE TestInv'
  <2>1. PICK where \in {"build", "rebuild"} :
          /\ T!Goto(where) /\ UNCHANGED <<recorded, passed>> /\ T!RunCmake(ok)
          /\ pc \in {"configure", "fresh"}
    BY <1>16 DEF T!Configure, T!ConfigureFresh
  <2>2. PICK s \in {"empty", "configured"} :
          /\ dir' = [dir EXCEPT ![T!P] = s] /\ cmake' \in {"not run", "ok", "failed"}
          /\ dir'[T!P] = "configured" \/ cmake' = "failed"
    BY <2>1, <1>1, <1>14
  <2>3. QED  BY <2>1, <2>2, <1>13
(* A build after a cmake --fresh that succeeded fails only where the       *)
(* solution is to blame.                                                   *)
<1>17. CASE T!Rebuild
  <2>1. CASE T!Builds
    <3>1. pc = "rebuild" /\ T!Goto("run") /\ UNCHANGED <<dir, cmake, recorded, passed>>
      BY <1>17, <2>1 DEF T!Rebuild
    <3>2. PICK where, s : where = "run" /\ s = "empty"  OBVIOUS
    <3>3. cmake' \in {"not run", "ok", "failed"}  BY <3>1, <1>01
    <3>4. QED  BY <3>1, <3>2, <3>3, <1>13
  <2>2. CASE ~T!Builds
    <3>1. pc = "rebuild" /\ T!Return("build") /\ UNCHANGED <<dir, cmake, recorded, passed>>
      BY <1>17, <2>2 DEF T!Rebuild
    <3>2. dir[T!P] = "configured" \/ cmake = "failed"  BY <3>1 DEF TestInv, PlaceRight
    <3>3. T!P \notin compiles \/ cmake = "failed"  BY <2>2, <3>2 DEF T!Builds
    <3>4. pc' = "idle" /\ result' = "build" /\ UNCHANGED <<T!setting, step, prof, attempt, killed>>
      BY <3>1 DEF T!Return
    <3>5. compiles' = compiles /\ cmake' = cmake /\ config' = config  BY <3>1, <3>4 DEF T!setting
    <3>6. T!BuildErrorsAreReal'
      BY <3>3, <3>4, <3>5 DEF T!BuildErrorsAreReal, T!P, T!Step
    <3>7. PICK r : r = "build"  OBVIOUS
    <3>8. killed' \in 0 .. MaxKilled  BY <3>4, <1>0
    <3>9. QED  BY <3>1, <3>4, <3>6, <3>7, <3>8, ReturnKeeps
  <2>3. QED  BY <2>1, <2>2
<1>18. ASSUME NEW ok \in BOOLEAN, T!RunCmd(ok) PROVE TestInv'
  <2>1. CASE ok
    <3>1. /\ pc = "run" /\ ~build_only /\ T!NextProfile /\ passed' = passed \cup {<<step, T!P>>}
          /\ UNCHANGED <<dir, cmake, recorded>>
      BY <1>18, <2>1 DEF T!RunCmd, T!Pass
    <3>2. QED  BY <3>1, NextProfileKeeps
  <2>2. CASE ~ok
    <3>1. T!Return("test") /\ UNCHANGED <<dir, cmake, recorded, passed>>  BY <1>18, <2>2 DEF T!RunCmd
    <3>2. PICK r : r = "test"  OBVIOUS
    <3>3. QED  BY <3>1, <3>2, <1>8
  <2>3. QED  BY <2>1, <2>2
<1>19. CASE T!OnlyBuilt
  <2>1. pc = "run" /\ build_only /\ T!NextProfile /\ UNCHANGED <<dir, cmake, recorded, passed>>
    BY <1>19 DEF T!OnlyBuilt
  <2>2. QED  BY <2>1, NextProfileKeeps
(* The report.                                                             *)
<1>20. CASE T!NothingToReport
  <2>1. /\ T!AtStep("report-score") /\ T!NextStep /\ UNCHANGED <<dir, cmake, recorded, passed>>
        /\ build_only \/ ~client \/ user = "unknown"
    BY <1>20 DEF T!NothingToReport
  <2>2. config[step].type = "report-score"  BY <2>1 DEF T!AtStep, T!Step
  <2>3. step <= Len(config) /\ pc = "step" /\ T!Demanded(step + 1) \subseteq T!Demanded(step) \cup passed'
    BY <2>1, <2>2, <1>11, <1>0, <1>00
  <2>4. recorded' \in [DOMAIN config -> Nat] /\ \A k \in DOMAIN config : recorded'[k] >= recorded[k]
    BY <2>1, <1>0
  <2>5. QED  BY <2>1, <2>2, <2>3, <2>4, NextStepKeeps
<1>21. ASSUME NEW received \in BOOLEAN, NEW answered \in BOOLEAN, T!Post(received, answered)
       PROVE  TestInv'
  <2>1. /\ T!AtStep("report-score") /\ ~build_only /\ client /\ user = "known"
        /\ UNCHANGED <<dir, cmake, passed>> /\ (answered => received)
        /\ recorded' = IF received THEN [recorded EXCEPT ![step] = @ + 1] ELSE recorded
    BY <1>21 DEF T!Post, T!Attempt
  <2>2. config[step].type = "report-score"  BY <2>1 DEF T!AtStep, T!Step
  <2>3. /\ step \in DOMAIN config /\ step <= Len(config) /\ pc = "step" /\ result = "none"
        /\ T!Demanded(step + 1) \subseteq T!Demanded(step) \cup passed'
    BY <2>1, <2>2, <1>11, <1>0, <1>00
  <2>4. /\ recorded' \in [DOMAIN config -> Nat] /\ \A k \in DOMAIN config : recorded'[k] >= recorded[k]
        /\ received => recorded'[step] > 0
    BY <2>1, <2>3, <1>0
  <2>5. CASE answered
    <3>1. T!NextStep  BY <1>21, <2>5 DEF T!Post, T!Attempt
    <3>2. QED  BY <3>1, <2>1, <2>2, <2>3, <2>4, <2>5, NextStepKeeps
  <2>6. CASE ~answered /\ attempt + 1 < 3
    <3>1. attempt' = attempt + 1 /\ UNCHANGED <<T!setting, pc, step, prof, result, killed>>
      BY <1>21, <2>6 DEF T!Post, T!Attempt
    <3>2. /\ config' = config /\ build_only' = build_only /\ client' = client /\ user' = user
          /\ fmt_check' = fmt_check /\ editable' = editable /\ compiles' = compiles
      BY <3>1 DEF T!setting
    <3>3. SettingRight' /\ PlaceRight'
      BY <2>1, <2>3, <3>1, <3>2 DEF TestInv, SettingRight, PlaceRight, T!Step
    <3>4. T!TypeOK'
      <4>1. attempt' \in 0 .. 2  BY <2>6, <3>1, <1>0
      <4>2. QED  BY <2>1, <2>3, <2>4, <3>1, <3>2, <4>1, <1>0 DEF TestInv, T!TypeOK
    <3>5. BehindRight'
      <4>1. T!Demanded(step)' = T!Demanded(step)  BY <3>1, <3>2 DEF T!Demanded, T!Searches, T!Commands, T!Formatting
      <4>2. \A k \in 1 .. step - 1 : recorded[k] > 0 => recorded'[k] > 0
        <5> SUFFICES ASSUME NEW k \in 1 .. step - 1, recorded[k] > 0 PROVE recorded'[k] > 0  OBVIOUS
        <5>1. k \in DOMAIN config  BY <2>3, <1>0, <1>00
        <5>2. recorded'[k] >= recorded[k] /\ recorded'[k] \in Nat /\ recorded[k] \in Nat
          BY <5>1, <2>4, <1>0
        <5>3. QED  BY <5>2
      <4>3. QED  BY <2>1, <2>3, <3>1, <3>2, <4>1, <4>2 DEF TestInv, BehindRight
    <3>6. T!OkMeansDone' /\ T!BuildErrorsAreReal' /\ T!BuildOnlyOnlyBuilds'
      BY <2>1, <2>3, <3>1, <3>2 DEF T!OkMeansDone, T!BuildErrorsAreReal, T!BuildOnlyOnlyBuilds
    <3>7. QED  BY <3>3, <3>4, <3>5, <3>6 DEF TestInv
  <2>7. CASE ~answered /\ attempt + 1 = 3
    <3>0. attempt = 2 /\ attempt + 1 = 3 /\ ~(attempt + 1 < 3)  BY <2>7, <1>0
    <3>1. T!Return("report")  BY <3>0, <1>21, <2>7 DEF T!Post, T!Attempt
    <3>2. /\ pc' = "idle" /\ result' = "report" /\ UNCHANGED <<T!setting, step, prof, attempt, killed>>
      BY <3>1 DEF T!Return
    <3>3. /\ config' = config /\ build_only' = build_only /\ client' = client /\ user' = user
          /\ fmt_check' = fmt_check /\ editable' = editable /\ compiles' = compiles
      BY <3>2 DEF T!setting
    <3>4. SettingRight' /\ PlaceRight' /\ BehindRight'
      BY <3>2, <3>3 DEF TestInv, SettingRight, PlaceRight, BehindRight
    <3>5. T!TypeOK'  BY <2>1, <2>4, <3>2, <3>3, <1>0 DEF TestInv, T!TypeOK
    <3>6. T!OkMeansDone' /\ T!BuildErrorsAreReal' /\ T!BuildOnlyOnlyBuilds'
      BY <2>1, <3>2, <3>3 DEF T!OkMeansDone, T!BuildErrorsAreReal, T!BuildOnlyOnlyBuilds
    <3>7. QED  BY <3>4, <3>5, <3>6 DEF TestInv
  <2>8. attempt + 1 = 3 \/ attempt + 1 < 3  BY <1>0
  <2>9. QED  BY <2>5, <2>6, <2>7, <2>8
<1>22. CASE T!Finish
  <2>1. pc = "step" /\ step > Len(config) /\ T!Return("ok") /\ UNCHANGED <<dir, cmake, recorded, passed>>
    BY <1>22 DEF T!Finish
  <2>2. /\ pc' = "idle" /\ result' = "ok" /\ UNCHANGED <<T!setting, step, prof, attempt, killed>>
    BY <2>1 DEF T!Return
  <2>3. step = Len(config) + 1 /\ 1 .. step - 1 = DOMAIN config  BY <2>1, <1>0, <1>00
  <2>4. T!OkMeansDone'
    <3>1. /\ config' = config /\ build_only' = build_only /\ client' = client /\ user' = user
          /\ fmt_check' = fmt_check /\ editable' = editable
      BY <2>2 DEF T!setting
    <3>2. T!Demanded(Len(config) + 1)' = T!Demanded(step)  BY <2>3, <3>1 DEF T!Demanded, T!Searches, T!Commands, T!Formatting
    <3>3. QED  BY <2>1, <2>3, <3>1, <3>2 DEF TestInv, BehindRight, T!OkMeansDone
  <2>5. PICK r : r = "ok"  OBVIOUS
  <2>6. killed' \in 0 .. MaxKilled  BY <2>2, <1>0
  <2>7. QED  BY <2>1, <2>2, <2>4, <2>5, <2>6, ReturnKeeps
<1>23. QED
  BY <1>2, <1>3, <1>4, <1>7, <1>9, <1>10, <1>12, <1>14, <1>15, <1>16, <1>17, <1>18, <1>19, <1>20,
     <1>21, <1>22
     DEF T!Next, T!Work

(* The run of the model is a run of each command.                          *)
LEMMA RunsTest == AllSpec => T!Init /\ [][T!Next]_T!vars
<1>1. AllInit => T!Init  BY DEF AllInit
<1>2. [AllNext]_allVars => [T!Next]_T!vars
  BY DEF AllNext, allVars, Compose, testVars, T!vars, T!setting
<1>3. QED  BY <1>1, <1>2, PTL DEF AllSpec

LEMMA TestInvariance == AllSpec => []TestInv
BY RunsTest, InitTestInv, StepTestInv, PTL

(* A run that succeeds has passed, and had recorded, all that its          *)
(* testing.yaml asks for, and with --build-only nothing but builds.        *)
THEOREM TestsAsAsked == AllSpec => []DoesAsAsked
<1>1. TestInv => DoesAsAsked  BY DEF TestInv, DoesAsAsked
<1>2. QED  BY <1>1, TestInvariance, PTL

(* A run that ends with a failed build has come to a profile the solution  *)
(* cannot be built for, or its own cmake --fresh has just failed; what     *)
(* earlier runs left in the build directories is never the cause.          *)
THEOREM BuildsFailForPresentFaults == AllSpec => []BuildErrorsAreReal
<1>1. TestInv => BuildErrorsAreReal  BY DEF TestInv, BuildErrorsAreReal
<1>2. QED  BY <1>1, TestInvariance, PTL

(* No step records a score that the run has not earned.                    *)
LEMMA StepEarns ==
  ASSUME TestInv, [T!Next]_T!vars, NEW k \in DOMAIN config, recorded'[k] > recorded[k]
  PROVE  T!Demanded(k) \subseteq passed
<1>0. /\ recorded \in [DOMAIN config -> Nat] /\ step \in 1 .. Len(config) + 1
  BY DEF TestInv, T!TypeOK
<1>1. CASE recorded' = recorded  BY <1>0, <1>1
<1>2. ASSUME NEW received \in BOOLEAN, NEW answered \in BOOLEAN, T!Post(received, answered)
      PROVE  T!Demanded(k) \subseteq passed
  <2>1. /\ pc = "step" /\ ~build_only
        /\ recorded' = IF received THEN [recorded EXCEPT ![step] = @ + 1] ELSE recorded
    BY <1>2 DEF T!Post, T!Attempt, T!AtStep
  <2>2. k = step  BY <2>1, <1>0, <1>1
  <2>3. QED  BY <2>1, <2>2 DEF TestInv, BehindRight
<1>3. QED
  BY <1>1, <1>2
     DEF T!Next, T!Work, T!SkipFormat, T!NoFilesToFormat, T!NoFilesToSearch, T!CreateDir,
         T!Configure, T!FindDir, T!Build, T!ConfigureFresh, T!Rebuild, T!OnlyBuilt, T!Finish,
         T!NothingToReport, T!NoTimeToReport, T!CheckFormat, T!ForbiddenPatterns, T!RunCmd,
         T!Crash, T!Start, T!vars

(* A score is sent only for a solution that has passed, in the same run,   *)
(* everything its testing.yaml puts before the report.                     *)
THEOREM ScoresAreEarned == AllSpec => ScoreIsEarned
<1> DEFINE Earned == \A k \in DOMAIN config : recorded'[k] > recorded[k] => T!Demanded(k) \subseteq passed
<1>1. TestInv /\ [T!Next]_T!vars => [Earned]_T!vars  BY StepEarns
<1>2. [][TestInv /\ [T!Next]_T!vars]_T!vars => [][Earned]_T!vars  BY <1>1, PTL
<1>3. QED  BY <1>2, RunsTest, TestInvariance, PTL DEF ScoreIsEarned, T!ScoreIsEarned
-----------------------------------------------------------------------------
(* ComposeTree.  Both trees are trees; a link in the public one is one the *)
(* private tree may have there, too.                                       *)
TreesRight ==
  /\ C!IsTree(src) /\ \A p \in Path : src[p] \in Nodes[p]
  /\ C!IsTree(out)
  /\ \A p \in Path : out[p].kind = "link" => out[p] \in Nodes[p] /\ p \notin Unexported

(* A call of process_dir is for a directory that the call before it has    *)
(* entered; what it has before it is what its phase deals with.            *)
Entered(f, d) ==
  /\ f.phase = "copy" /\ d \in C!Children(f.dir) \ f.todo
  /\ C!Selected(d) /\ src[d] = C!Dir
Before(f) ==
  /\ f.todo \subseteq C!Children(f.dir)
  /\ f.phase = "copy" => \A p \in f.todo : src[p] # C!Absent
  /\ f.phase = "prune" => f.todo \cap C!Processed(f.dir) = {}
Calls == [dir : Path \cup {C!Root}, phase : {"copy", "prune"}, todo : SUBSET Path]
CallsRight ==
  /\ stack \in Seq(Calls) /\ Len(stack) \in 0 .. 3
  /\ (turn = "running") = (stack # <<>>)
  /\ \A i \in DOMAIN stack :
       /\ Before(stack[i]) /\ Len(stack[i].dir) = i - 1
       /\ IF i = 1 THEN stack[i].dir = C!Root ELSE Entered(stack[i - 1], stack[i].dir)
  /\ Len(stack) > 1 => out[C!Follow(stack[2].dir)] = C!Dir

(* A directory is done: its entries are what they should be.               *)
EntriesRight(d) ==
  \A p \in C!Children(d) :
    /\ C!Selected(p) => out[p] = src[p]
    /\ p \in Unexported => out[p] = C!Absent

(* What the calls have been through is right.                              *)
CopiesRight ==
  \A i \in DOMAIN stack : \A p \in C!Children(stack[i].dir) \ stack[i].todo :
    C!Selected(p) /\ src[p] # C!Absent => out[p] = src[p]
PruningRight ==
  \A i \in DOMAIN stack : \A p \in C!Children(stack[i].dir) \ C!Processed(stack[i].dir) :
    stack[i].phase = "prune" /\ out[p] # C!Absent => p \in stack[i].todo
LeftRight ==
  \A d \in C!Children(C!Root) \ stack[1].todo :
    C!Selected(d) /\ src[d] = C!Dir /\ (Len(stack) > 1 => d # stack[2].dir) => EntriesRight(d)
LinksRight == \A p \in Path : out[p].kind = "link" => src[p].kind = "link"

Progress == LinksRight /\ CopiesRight /\ PruningRight /\ LeftRight

CountsRight ==
  /\ turn \in {"idle", "running", "done", "failed", "crashed"} /\ stale \in BOOLEAN
  /\ edits \in 0 .. MaxEdits /\ aborted \in 0 .. MaxCrashes

TreeInv ==
  /\ CountsRight /\ TreesRight /\ CallsRight
  /\ turn = "running" /\ ~stale => Progress
  /\ turn = "done" /\ ~stale => C!Mirrors

-----------------------------------------------------------------------------
LEMMA Appended ==
  ASSUME NEW S, NEW u, u \in Seq(S), NEW y, y \in S, NEW t, t = Append(u, y)
  PROVE  /\ t \in Seq(S) /\ Len(t) = Len(u) + 1 /\ t[Len(u) + 1] = y
         /\ \A i \in 1 .. Len(u) : t[i] = u[i]
<1>1. t \in Seq(S)  OBVIOUS
<1>2. Len(t) = Len(u) + 1 /\ t[Len(u) + 1] = y  BY AppendProperties, Zenon
<1>3. \A i \in 1 .. Len(u) : t[i] = u[i]  BY ZenonT(30), AppendProperties
<1>4. QED  BY <1>1, <1>2, <1>3

LEMMA Pair ==
  ASSUME NEW S, NEW u, u \in Seq(S), NEW v, v \in Seq(S), Len(u) = 1, Len(v) = 2, u[1] = v[1]
  PROVE  Append(u, v[2]) = v /\ SubSeq(v, 1, Len(v) - 1) = u
<1>1. Append(u, v[2]) = v
  <2>1. PICK y : y = v[2]  OBVIOUS
  <2>2. y \in S  BY <2>1
  <2>3. PICK t : t = Append(u, y)  OBVIOUS
  <2>4. /\ t \in Seq(S) /\ Len(t) = Len(u) + 1 /\ t[Len(u) + 1] = y
        /\ \A i \in 1 .. Len(u) : t[i] = u[i]
    BY ONLY u \in Seq(S), <2>2, <2>3, Appended
  <2>5. t[1] = v[1] /\ t[2] = v[2] /\ Len(t) = 2  BY <2>1, <2>4
  <2>6. QED  BY <2>1, <2>3, <2>4, <2>5, SeqEqual
<1>2. SubSeq(v, 1, Len(v) - 1) = u
  <2>1. SubSeq(v, 1, Len(v) - 1) \in Seq(S) /\ Len(SubSeq(v, 1, Len(v) - 1)) = 1  OBVIOUS
  <2>2. SubSeq(v, 1, Len(v) - 1)[1] = v[1]  OBVIOUS
  <2>3. QED  BY <2>1, <2>2, SeqEqual
<1>3. QED  BY <1>1, <1>2

(* Paths are one or two names long.                                        *)
LEMMA PathFacts ==
  ASSUME NEW p \in Path
  PROVE  /\ Len(p) \in {1, 2} /\ p # C!Root
         /\ Len(p) = 1 => C!Parent(p) = C!Root
         /\ Len(p) = 2 => C!Parent(p) \in Path /\ Len(C!Parent(p)) = 1
         /\ Append(C!Parent(p), p[Len(p)]) = p
<1>1. PICK x, y : p = <<x>> \/ (p = <<x, y>> /\ <<x>> \in Path)
  BY TreeAssumption DEF C!PathAssumption
<1>2. CASE p = <<x>>
  <2>1. C!Parent(p) = <<>>  BY <1>2 DEF C!Parent
  <2>2. QED  BY <1>2, <2>1 DEF C!Root
<1>3. CASE p = <<x, y>> /\ <<x>> \in Path
  <2>0. PICK u : u = <<x>>  OBVIOUS
  <2>1. /\ Len(p) = 2 /\ p[Len(p)] = y /\ Len(u) = 1 /\ Append(u, y) = p
        /\ C!Parent(p) = u
    <3>1. u \in Seq({x, y}) /\ Len(u) = 1 /\ u[1] = x  BY <2>0
    <3>2. p \in Seq({x, y}) /\ Len(p) = 2 /\ p[1] = x /\ p[2] = y  BY <1>3
    <3>3. Append(u, p[2]) = p /\ SubSeq(p, 1, Len(p) - 1) = u  BY ONLY <3>1, <3>2, Pair
    <3>4. QED  BY <3>1, <3>2, <3>3 DEF C!Parent
  <2>2. p # C!Root  BY <2>1 DEF C!Root
  <2>3. u \in Path  BY <1>3, <2>0
  <2>4. QED  BY <2>1, <2>2, <2>3
<1>4. QED  BY <1>1, <1>2, <1>3

LEMMA RootFacts == C!Root \notin Path /\ Len(C!Root) = 0
BY PathFacts DEF C!Root

LEMMA ChildFacts ==
  ASSUME NEW d, NEW p \in C!Children(d), d = C!Root \/ d \in Path
  PROVE  /\ p \in Path /\ C!Parent(p) = d /\ Len(p) = Len(d) + 1
         /\ d \in Path => Len(d) = 1 /\ C!Parent(d) = C!Root
<1>1. p \in Path /\ C!Parent(p) = d  BY DEF C!Children
<1>2. QED  BY <1>1, PathFacts, RootFacts

(* What a link is to, and what is there.                                   *)
LEMMA LinkFacts ==
  ASSUME NEW p \in Path, NEW n \in Nodes[p], n.kind = "link"
  PROVE  /\ n.to \in C!Children(C!Root) /\ n.to \in Path /\ Len(n.to) = 1
         /\ \A m \in Nodes[n.to] : m.kind # "link"
         /\ \A c \in C!Children(p) :
              /\ Append(n.to, c[Len(c)]) \in C!Children(n.to)
              /\ \A m \in Nodes[c] : m.kind # "link"
<1>1. /\ n.to \in C!Children(C!Root) /\ \A m \in Nodes[n.to] : m.kind # "link"
      /\ \A c \in C!Children(p) : Append(n.to, c[2]) \in Path /\ \A m \in Nodes[c] : m.kind # "link"
  BY TreeAssumption DEF C!NodesAssumption
<1>2. n.to \in Path /\ Len(n.to) = 1
  <2>1. PICK q : q = n.to  OBVIOUS
  <2>2. q \in C!Children(C!Root)  BY <1>1, <2>1
  <2>3. q \in Path /\ Len(q) = 0 + 1  BY <2>2, ChildFacts, RootFacts
  <2>4. QED  BY <2>1, <2>3
<1>3. ASSUME NEW c \in C!Children(p)  PROVE  Append(n.to, c[Len(c)]) \in C!Children(n.to)
  <2>1. c \in Path /\ Len(c) = 2  BY ChildFacts, <1>3, PathFacts
  <2>2. Append(n.to, c[2]) \in Path  BY <1>1
  <2>3. PICK u, v : n.to = <<u>> \/ n.to = <<u, v>>
    BY <1>2, TreeAssumption DEF C!PathAssumption
  <2>4. n.to = <<u>>  BY <1>2, <2>3
  <2>5. PICK s, y, t : s = n.to /\ y = c[2] /\ t = <<u, y>>  OBVIOUS
  <2>6. Append(s, y) = t /\ SubSeq(t, 1, Len(t) - 1) = s
    <3>1. s \in Seq({u, y}) /\ Len(s) = 1 /\ s[1] = u  BY <2>4, <2>5
    <3>2. t \in Seq({u, y}) /\ Len(t) = 2 /\ t[1] = u /\ t[2] = y  BY <2>5
    <3>3. Append(s, t[2]) = t /\ SubSeq(t, 1, Len(t) - 1) = s  BY ONLY <3>1, <3>2, Pair
    <3>4. QED  BY <3>2, <3>3
  <2>7. QED  BY <2>1, <2>2, <2>5, <2>6 DEF C!Children, C!Parent
<1>4. QED  BY <1>1, <1>2, <1>3

LEMMA NodeFacts ==
  /\ C!Absent # C!Dir /\ C!Absent.kind = "absent" /\ C!Dir.kind = "dir"
  /\ C!Torn # C!Absent /\ C!Torn # C!Dir /\ C!Torn.kind = "file"
BY DEF C!Absent, C!Dir, C!Torn, C!File

LEMMA TreeNode ==
  ASSUME NEW t, C!IsTree(t), NEW p \in Path
  PROVE  /\ t[p].kind \in {"absent", "dir", "file", "link"}
         /\ t[p].kind = "absent" <=> t[p] = C!Absent
         /\ t[p].kind = "dir" <=> t[p] = C!Dir
BY NodeFacts DEF C!IsTree


(* Another last call in place of the last one.                             *)
Replaced(s, t, f) ==
  /\ t \in Seq(Calls) /\ Len(t) = Len(s) /\ \A i \in 1 .. Len(s) - 1 : t[i] = s[i]
  /\ t[Len(s)] = f
TakesFrom(f, p) == [f EXCEPT !.todo = @ \ {p}]

LEMMA PopFacts ==
  ASSUME NEW s, s \in Seq(Calls), s # <<>>, NEW n, n = Len(s), NEW u, u = SubSeq(s, 1, n - 1)
  PROVE  /\ n \in Nat /\ n > 0 /\ s[n] \in Calls
         /\ u \in Seq(Calls) /\ Len(u) = n - 1 /\ \A i \in 1 .. n - 1 : u[i] = s[i]
<1>1. n \in Nat /\ n > 0  OBVIOUS
<1>2. s[n] \in Calls  BY <1>1
<1>3. u \in Seq(Calls) /\ Len(u) = n - 1  BY <1>1
<1>4. \A i \in 1 .. n - 1 : u[i] = s[i]  BY <1>1
<1>5. QED  BY <1>1, <1>2, <1>3, <1>4

LEMMA PushFacts ==
  ASSUME NEW u, u \in Seq(Calls), NEW f, f \in Calls, NEW n, n \in Nat, Len(u) = n,
         NEW t, t = Append(u, f)
  PROVE  /\ t \in Seq(Calls) /\ Len(t) = n + 1 /\ t[n + 1] = f
         /\ \A i \in 1 .. n : t[i] = u[i]
<1>1. /\ t \in Seq(Calls) /\ Len(t) = Len(u) + 1 /\ t[Len(u) + 1] = f
      /\ \A i \in 1 .. Len(u) : t[i] = u[i]
  BY Appended
<1>2. QED  BY <1>1

LEMMA ReplacedFacts ==
  ASSUME NEW s, s \in Seq(Calls), s # <<>>, NEW f, f \in Calls
  PROVE  Replaced(s, Append(SubSeq(s, 1, Len(s) - 1), f), f)
<1>1. PICK n, u, t : n = Len(s) /\ u = SubSeq(s, 1, n - 1) /\ t = Append(u, f)  OBVIOUS
<1>2. /\ n \in Nat /\ n > 0
      /\ u \in Seq(Calls) /\ Len(u) = n - 1 /\ \A i \in 1 .. n - 1 : u[i] = s[i]
  BY <1>1, PopFacts
<1>3. PICK m : m = n - 1  OBVIOUS
<1>4. m \in Nat /\ Len(u) = m  BY <1>2, <1>3
<1>5. /\ t \in Seq(Calls) /\ Len(t) = m + 1 /\ t[m + 1] = f /\ \A i \in 1 .. m : t[i] = u[i]
  BY <1>1, <1>2, <1>4, PushFacts
<1>6. m + 1 = n  BY <1>2, <1>3
<1>7. \A i \in 1 .. n - 1 : t[i] = s[i]  BY <1>2, <1>3, <1>5
<1>8. t = Append(SubSeq(s, 1, Len(s) - 1), f)  BY <1>1
<1>9. Replaced(s, t, f)  BY <1>1, <1>5, <1>6, <1>7 DEF Replaced
<1>10. QED  BY <1>8, <1>9

LEMMA TakesFacts ==
  ASSUME NEW f, f \in Calls, NEW p
  PROVE  /\ TakesFrom(f, p) \in Calls /\ TakesFrom(f, p).dir = f.dir
         /\ TakesFrom(f, p).phase = f.phase /\ TakesFrom(f, p).todo = f.todo \ {p}
BY DEF Calls, TakesFrom

LEMMA TakenFacts ==
  ASSUME CallsRight, stack # <<>>, NEW p
  PROVE  Replaced(stack, C!Taken(p), TakesFrom(C!Top, p)) /\ C!Top \in Calls
<1>1. stack \in Seq(Calls)  BY DEF CallsRight
<1>2. PICK n, f : n = Len(stack) /\ f = stack[n]  OBVIOUS
<1>3. f \in Calls  BY <1>1, <1>2, PopFacts
<1>4. TakesFrom(f, p) \in Calls  BY <1>3, TakesFacts
<1>5. Replaced(stack, Append(SubSeq(stack, 1, Len(stack) - 1), TakesFrom(f, p)), TakesFrom(f, p))
  BY <1>1, <1>4, ReplacedFacts
<1>6. C!Top = f /\ C!Taken(p) = Append(SubSeq(stack, 1, Len(stack) - 1), TakesFrom(f, p))
  BY <1>2 DEF C!Top, C!Taken, C!Pop, TakesFrom
<1>7. QED  BY <1>3, <1>5, <1>6

(* The place of the public tree that a path leads to.                      *)
LEMMA LandFacts ==
  ASSUME TreesRight, NEW p \in Path, NEW d, d = C!Parent(p)
  PROVE  /\ d = C!Root \/ out[d].kind # "link" => C!Land(p) = p
         /\ d # C!Root /\ out[d].kind = "link" =>
              /\ C!Land(p) \in Path /\ Len(C!Land(p)) = 2
              /\ C!Parent(C!Land(p)) = out[d].to /\ out[d].to \in C!Children(C!Root)
              /\ \A m \in Nodes[p] : m.kind # "link"
<1>1. Append(d, p[Len(p)]) = p  BY PathFacts
<1>2. CASE d = C!Root \/ out[d].kind # "link"
  <2>1. C!Follow(d) = d  BY <1>2 DEF C!Follow
  <2>2. QED  BY <1>1, <1>2, <2>1 DEF C!Land
<1>3. CASE d # C!Root /\ out[d].kind = "link"
  <2>1. d \in Path /\ p \in C!Children(d)  BY <1>3, PathFacts DEF C!Children
  <2>2. PICK n : n = out[d]  OBVIOUS
  <2>3. n \in Nodes[d] /\ n.kind = "link"  BY <1>3, <2>1, <2>2 DEF TreesRight
  <2>4. /\ n.to \in C!Children(C!Root) /\ n.to \in Path
        /\ Append(n.to, p[Len(p)]) \in C!Children(n.to) /\ \A m \in Nodes[p] : m.kind # "link"
    BY <2>1, <2>3, LinkFacts
  <2>5. C!Land(p) = Append(n.to, p[Len(p)])  BY <1>3, <2>2 DEF C!Land, C!Follow
  <2>6. PICK q, u : q = C!Land(p) /\ u = n.to  OBVIOUS
  <2>7. q \in C!Children(u) /\ u \in Path  BY <2>4, <2>5, <2>6
  <2>8. q \in Path /\ C!Parent(q) = u /\ Len(q) = Len(u) + 1 /\ Len(u) = 1  BY <2>7, ChildFacts
  <2>9. QED  BY <1>3, <2>2, <2>4, <2>6, <2>8
<1>4. QED  BY <1>2, <1>3

(* Where a step works: an entry of the directory of the last call.         *)
AtWork(ph, p, q) ==
  LET n == Len(stack)  d == C!Parent(p) IN
  /\ p \in Path /\ n \in {1, 2} /\ Len(p) = n
  /\ stack[n].dir = d /\ p \in stack[n].todo /\ stack[n].phase = ph
  /\ n = 1 => d = C!Root
  /\ n = 2 => /\ d = stack[2].dir /\ d \in C!Children(C!Root) /\ src[d] = C!Dir
              /\ out[C!Follow(d)] = C!Dir /\ C!Parent(q) = C!Follow(d)
  /\ q \in Path /\ Len(q) = n
  /\ C!Parent(q) = C!Root \/ out[C!Parent(q)] = C!Dir
  /\ q = p \/ (out[d].kind = "link" /\ n = 2 /\ \A m \in Nodes[p] : m.kind # "link")

LEMMA WorkFacts ==
  ASSUME TreesRight, CallsRight, NEW ph, NEW p, C!Working(ph, p), turn = "running"
  PROVE  AtWork(ph, p, C!Land(p))
<1>1. PICK n, d, q : n = Len(stack) /\ d = stack[n].dir /\ q = C!Land(p)  OBVIOUS
<1>2. stack \in Seq(Calls) /\ stack # <<>> /\ n \in 0 .. 3  BY <1>1 DEF CallsRight
<1>3. n \in 1 .. 3  BY <1>1, <1>2
<1>4. n \in DOMAIN stack  BY <1>1, <1>2, <1>3
<1>5. p \in stack[n].todo /\ stack[n].phase = ph  BY <1>1 DEF C!Working, C!Top
<1>6. /\ p \in C!Children(d) /\ Len(d) = n - 1
      /\ n = 1 => d = C!Root
      /\ n # 1 => Entered(stack[n - 1], d)
  BY <1>1, <1>4, <1>5 DEF CallsRight, Before
<1>7. stack[n] \in Calls  BY <1>2, <1>4
<1>8. d = C!Root \/ d \in Path  BY <1>1, <1>7 DEF Calls
<1>9. p \in Path /\ C!Parent(p) = d /\ Len(p) = n /\ n \in {1, 2}
  <2>1. /\ p \in Path /\ C!Parent(p) = d /\ Len(p) = Len(d) + 1
    BY <1>6, <1>8, ChildFacts
  <2>2. Len(p) \in {1, 2}  BY <2>1, PathFacts
  <2>3. QED  BY <2>1, <2>2, <1>3, <1>6
<1>10. CASE n = 1
  <2>1. d = C!Root /\ q = p  BY <1>1, <1>6, <1>9, <1>10, LandFacts
  <2>2. QED  BY <1>1, <1>5, <1>9, <1>10, <2>1 DEF AtWork
<1>11. CASE n = 2
  <2>1. d \in Path /\ d # C!Root  BY <1>6, <1>8, <1>11, RootFacts
  <2>2. Entered(stack[1], d)  BY <1>6, <1>11
  <2>3. stack[1].dir = C!Root  BY <1>1, <1>2, <1>11 DEF CallsRight
  <2>4. d \in C!Children(C!Root) /\ src[d] = C!Dir  BY <2>2, <2>3 DEF Entered
  <2>5. out[C!Follow(d)] = C!Dir  BY <1>1, <1>11 DEF CallsRight
  <2>6. CASE out[d].kind = "link"
    <3>1. /\ q \in Path /\ Len(q) = 2 /\ C!Parent(q) = out[d].to /\ \A m \in Nodes[p] : m.kind # "link"
      BY <1>1, <1>9, <2>1, <2>6, LandFacts
    <3>2. C!Follow(d) = out[d].to  BY <2>1, <2>6 DEF C!Follow
    <3>3. out[C!Parent(q)] = C!Dir  BY <2>5, <3>1, <3>2
    <3>4. /\ p \in Path /\ Len(p) = 2 /\ stack[2].dir = d /\ p \in stack[2].todo /\ stack[2].phase = ph
          /\ C!Parent(p) = d /\ Len(stack) = 2
      BY <1>1, <1>5, <1>9, <1>11
    <3>5. QED  BY <1>1, <2>4, <2>5, <2>6, <3>1, <3>2, <3>3, <3>4 DEF AtWork
  <2>7. CASE out[d].kind # "link"
    <3>1. q = p  BY <1>1, <1>9, <2>7, LandFacts
    <3>2. C!Follow(d) = d  BY <2>7 DEF C!Follow
    <3>3. out[C!Parent(q)] = C!Dir  BY <2>5, <3>1, <3>2, <1>9
    <3>4. /\ p \in Path /\ Len(p) = 2 /\ stack[2].dir = d /\ p \in stack[2].todo /\ stack[2].phase = ph
          /\ C!Parent(p) = d /\ Len(stack) = 2
      BY <1>1, <1>5, <1>9, <1>11
    <3>5. QED  BY <1>1, <2>4, <2>5, <3>1, <3>2, <3>3, <3>4 DEF AtWork
  <2>8. QED  BY <2>6, <2>7
<1>12. QED  BY <1>9, <1>10, <1>11

(* Unless a link has become something else, that is the path itself.       *)
LEMMA LandsThere ==
  ASSUME TreesRight, CallsRight, LinksRight, NEW ph, NEW p, C!Working(ph, p), turn = "running"
  PROVE  C!Land(p) = p
<1>1. PICK d, q : d = C!Parent(p) /\ q = C!Land(p)  OBVIOUS
<1>2. AtWork(ph, p, q)  BY WorkFacts, <1>1
<1>3. ASSUME Len(stack) = 2  PROVE out[d].kind # "link"
  <2>1. d \in Path /\ src[d] = C!Dir  BY <1>1, <1>2, <1>3 DEF AtWork, C!Children
  <2>2. src[d].kind = "dir"  BY <2>1, NodeFacts
  <2>3. QED  BY <2>1, <2>2 DEF LinksRight
<1>4. QED  BY <1>1, <1>2, <1>3 DEF AtWork

(* A write follows a last link; what it is to is not a link.               *)
LEMMA WrittenFacts ==
  ASSUME TreesRight, CallsRight, NEW ph, NEW p, C!Working(ph, p), turn = "running"
  PROVE  /\ C!Written(p) \in Path /\ out[C!Written(p)].kind # "link"
         /\ C!Parent(C!Written(p)) = C!Root \/ out[C!Parent(C!Written(p))] = C!Dir
         /\ LinksRight /\ src[p].kind # "link" => C!Written(p) = p
<1>1. PICK q, w : q = C!Land(p) /\ w = C!Written(p)  OBVIOUS
<1>2. AtWork(ph, p, q)  BY WorkFacts, <1>1
<1>3. q \in Path /\ (C!Parent(q) = C!Root \/ out[C!Parent(q)] = C!Dir) /\ p \in Path
  BY <1>2 DEF AtWork
<1>4. CASE out[q].kind = "link"
  <2>1. PICK n : n = out[q]  OBVIOUS
  <2>2. n \in Nodes[q] /\ n.kind = "link"  BY <1>3, <1>4, <2>1 DEF TreesRight
  <2>3. n.to \in C!Children(C!Root) /\ n.to \in Path /\ \A m \in Nodes[n.to] : m.kind # "link"
    BY <1>3, <2>2, LinkFacts
  <2>4. q # C!Root  BY <1>3, RootFacts
  <2>5. w = n.to  BY <1>1, <1>4, <2>1, <2>4 DEF C!Written, C!Follow
  <2>6. out[w].kind # "link"  BY <2>3, <2>5 DEF TreesRight
  <2>7. C!Parent(w) = C!Root  BY <2>3, <2>5 DEF C!Children
  <2>8. LinksRight => q = p  BY LandsThere, <1>1
  <2>9. LinksRight => src[q].kind = "link"  BY <1>3, <1>4 DEF LinksRight
  <2>10. QED  BY <1>1, <2>3, <2>5, <2>6, <2>7, <2>8, <2>9
<1>5. CASE out[q].kind # "link"
  <2>1. w = q  BY <1>1, <1>5 DEF C!Written, C!Follow
  <2>2. LinksRight => q = p  BY LandsThere, <1>1
  <2>3. QED  BY <1>1, <1>3, <1>5, <2>1, <2>2
<1>6. QED  BY <1>4, <1>5

(* Changes of a tree.                                                      *)
Put(t, p, n) == [t EXCEPT ![p] = n]
NodeRight(n) == n \in {C!Absent, C!Dir} \/ n.kind \in {"file", "link"}

LEMMA PutFacts ==
  ASSUME NEW t, t = [q \in Path |-> t[q]], NEW p \in Path, NEW n
  PROVE  /\ Put(t, p, n) = [q \in Path |-> Put(t, p, n)[q]]
         /\ Put(t, p, n)[p] = n /\ \A q \in Path : q # p => Put(t, p, n)[q] = t[q]
BY DEF Put

LEMMA WithoutFacts ==
  ASSUME NEW t, NEW p \in Path
  PROVE  /\ C!Without(t, p) = [q \in Path |-> C!Without(t, p)[q]]
         /\ \A q \in Path : C!Without(t, p)[q] = IF q = p \/ C!Parent(q) = p THEN C!Absent ELSE t[q]
BY DEF C!Without

LEMMA ParentFacts ==
  ASSUME NEW p \in Path
  PROVE  /\ C!Parent(p) # p
         /\ \A q \in Path : C!Parent(q) = p => C!Parent(p) = C!Root /\ C!Parent(p) # q
         /\ C!Parent(p) = C!Root \/ (C!Parent(p) \in Path /\ C!Parent(C!Parent(p)) = C!Root)
<1>1. C!Parent(p) = C!Root \/ (C!Parent(p) \in Path /\ Len(C!Parent(p)) = 1 /\ Len(p) = 2)
  BY PathFacts
<1>2. \A q \in Path : Len(q) = 1 => C!Parent(q) = C!Root  BY PathFacts
<1>3. \A q \in Path : C!Parent(q) = p => Len(p) = 1
  <2> TAKE q \in Path
  <2>1. C!Parent(q) = C!Root \/ Len(C!Parent(q)) = 1  BY PathFacts
  <2>2. QED  BY <2>1, RootFacts
<1>4. QED  BY <1>1, <1>2, <1>3, RootFacts

LEMMA PutTree ==
  ASSUME NEW t, C!IsTree(t), NEW p \in Path, NEW n, NodeRight(n),
         n # C!Absent => C!Parent(p) = C!Root \/ t[C!Parent(p)] = C!Dir,
         n = C!Dir \/ \A q \in Path : C!Parent(q) = p => t[q] = C!Absent
  PROVE  C!IsTree(Put(t, p, n))
<1>1. PICK u : u = Put(t, p, n)  OBVIOUS
<1>2. t = [q \in Path |-> t[q]]  BY DEF C!IsTree
<1>3. u = [q \in Path |-> u[q]] /\ u[p] = n /\ \A q \in Path : q # p => u[q] = t[q]
  BY <1>1, <1>2, PutFacts
<1>4. ASSUME NEW q \in Path  PROVE NodeRight(u[q])
  BY <1>3 DEF C!IsTree, NodeRight
<1>5. ASSUME NEW q \in Path, u[q] # C!Absent
      PROVE  C!Parent(q) = C!Root \/ u[C!Parent(q)] = C!Dir
  <2>1. C!Parent(q) = C!Root \/ t[C!Parent(q)] = C!Dir
    BY <1>3, <1>5 DEF C!IsTree
  <2>2. CASE C!Parent(q) = p
    <3>1. q # p  BY <2>2, ParentFacts
    <3>2. n = C!Dir  BY <1>3, <1>5, <2>2, <3>1
    <3>3. QED  BY <1>3, <2>2, <3>2
  <2>3. CASE C!Parent(q) # p
    <3>1. C!Parent(q) = C!Root \/ C!Parent(q) \in Path  BY ParentFacts
    <3>2. QED  BY <1>3, <2>1, <2>3, <3>1
  <2>4. QED  BY <2>2, <2>3
<1>6. C!IsTree(u)  BY <1>3, <1>4, <1>5 DEF C!IsTree, NodeRight
<1>7. QED  BY <1>1, <1>6

LEMMA WithoutTree ==
  ASSUME NEW t, C!IsTree(t), NEW p \in Path
  PROVE  C!IsTree(C!Without(t, p))
<1>1. PICK u : u = C!Without(t, p)  OBVIOUS
<1>2. /\ u = [q \in Path |-> u[q]]
      /\ \A q \in Path : u[q] = IF q = p \/ C!Parent(q) = p THEN C!Absent ELSE t[q]
  BY <1>1, WithoutFacts
<1>3. ASSUME NEW q \in Path  PROVE NodeRight(u[q])
  BY <1>2 DEF C!IsTree, NodeRight
<1>4. ASSUME NEW q \in Path, u[q] # C!Absent
      PROVE  C!Parent(q) = C!Root \/ u[C!Parent(q)] = C!Dir
  <2>1. q # p /\ C!Parent(q) # p /\ u[q] = t[q]  BY <1>2, <1>4
  <2>2. C!Parent(q) = C!Root \/ t[C!Parent(q)] = C!Dir  BY <1>4, <2>1 DEF C!IsTree
  <2>3. C!Parent(q) = C!Root \/ (C!Parent(q) \in Path /\ C!Parent(C!Parent(q)) = C!Root)
    BY ParentFacts
  <2>4. p # C!Root  BY RootFacts
  <2>5. QED  BY <1>2, <2>1, <2>2, <2>3, <2>4
<1>5. C!IsTree(u)  BY <1>2, <1>3, <1>4 DEF C!IsTree, NodeRight
<1>6. QED  BY <1>1, <1>5

(* A removal that is cut short leaves a tree.                              *)
LEMMA PartFacts ==
  ASSUME C!IsTree(out), NEW p \in Path, C!RemovedInPart(p)
  PROVE  /\ C!IsTree(out')
         /\ \A q \in Path : \/ out'[q] = out[q]
                            \/ out'[q] = C!Absent /\ (q = p \/ C!Parent(q) = p)
<1>1. PICK gone \in (SUBSET C!Children(p)) \cup {{p} \cup C!Children(p)} :
        out' = [q \in Path |-> IF q \in gone THEN C!Absent ELSE out[q]]
  BY DEF C!RemovedInPart
<1>2. PICK u : u = out'  OBVIOUS
<1>3. /\ u = [q \in Path |-> u[q]]
      /\ \A q \in Path : u[q] = IF q \in gone THEN C!Absent ELSE out[q]
  BY <1>1, <1>2
<1>4. \A q \in gone : q = p \/ C!Parent(q) = p  BY <1>1 DEF C!Children
<1>5. \A q \in Path : p \in gone /\ C!Parent(q) = p => q \in gone
  <2> SUFFICES ASSUME NEW q \in Path, p \in gone, C!Parent(q) = p  PROVE q \in gone  OBVIOUS
  <2>1. C!Parent(p) # p  BY ParentFacts
  <2>2. p \notin C!Children(p)  BY <2>1 DEF C!Children
  <2>3. gone = {p} \cup C!Children(p)  BY <1>1, <2>2
  <2>4. QED  BY <2>3 DEF C!Children
<1>6. ASSUME NEW q \in Path  PROVE NodeRight(u[q])
  BY <1>3 DEF C!IsTree, NodeRight
<1>7. ASSUME NEW q \in Path, u[q] # C!Absent
      PROVE  C!Parent(q) = C!Root \/ u[C!Parent(q)] = C!Dir
  <2>1. q \notin gone /\ u[q] = out[q]  BY <1>3, <1>7
  <2>2. C!Parent(q) = C!Root \/ out[C!Parent(q)] = C!Dir  BY <1>7, <2>1 DEF C!IsTree
  <2>3. C!Parent(q) = C!Root \/ (C!Parent(q) \in Path /\ C!Parent(C!Parent(q)) = C!Root)
    BY ParentFacts
  <2>4. C!Parent(q) \in gone => C!Parent(q) = C!Root
    <3>1. p # C!Root  BY RootFacts
    <3>2. QED  BY <1>4, <1>5, <2>1, <2>3, <3>1
  <2>5. QED  BY <1>3, <2>2, <2>3, <2>4
<1>8. C!IsTree(u)  BY <1>3, <1>6, <1>7 DEF C!IsTree, NodeRight
<1>9. QED  BY <1>2, <1>3, <1>4, <1>8

LEMMA LinkPutTree ==
  ASSUME NEW t, C!IsTree(t), NEW p \in Path, NEW n, NodeRight(n),
         n # C!Absent => C!Parent(p) = C!Root \/ t[C!Parent(p)] = C!Dir
  PROVE  C!IsTree(Put(C!Without(t, p), p, n))
<1>1. PICK u : u = C!Without(t, p)  OBVIOUS
<1>2. C!IsTree(u)  BY <1>1, WithoutTree
<1>3. \A q \in Path : u[q] = IF q = p \/ C!Parent(q) = p THEN C!Absent ELSE t[q]
  BY <1>1, WithoutFacts
<1>4. n # C!Absent => C!Parent(p) = C!Root \/ u[C!Parent(p)] = C!Dir
  <2>1. C!Parent(p) = C!Root \/ (C!Parent(p) \in Path /\ C!Parent(C!Parent(p)) = C!Root)
    BY ParentFacts
  <2>2. p # C!Root /\ C!Parent(p) # p  BY RootFacts, ParentFacts
  <2>3. QED  BY <1>3, <2>1, <2>2
<1>5. \A q \in Path : C!Parent(q) = p => u[q] = C!Absent  BY <1>3
<1>6. C!IsTree(Put(u, p, n))  BY <1>2, <1>4, <1>5, PutTree
<1>7. QED  BY <1>1, <1>6

-----------------------------------------------------------------------------
(* A step with an entry of the directory of the last call.                 *)
Smaller(s, t, p) ==
  LET n == Len(s) IN
  /\ t \in Seq(Calls) /\ Len(t) = n
  /\ \A i \in 1 .. n :
       /\ t[i].dir = s[i].dir /\ t[i].phase = s[i].phase
       /\ t[i].todo = IF i = n THEN s[i].todo \ {p} ELSE s[i].todo

LEMMA SmallerFacts ==
  ASSUME CallsRight, stack # <<>>, NEW p, stack' = C!Taken(p)
  PROVE  Smaller(stack, stack', p)
<1>1. PICK n, f, t, g : n = Len(stack) /\ f = C!Top /\ g = TakesFrom(f, p) /\ t = stack'  OBVIOUS
<1>2. Replaced(stack, t, g) /\ f \in Calls  BY <1>1, TakenFacts
<1>3. g.dir = f.dir /\ g.phase = f.phase /\ g.todo = f.todo \ {p}  BY <1>1, <1>2, TakesFacts
<1>4. f = stack[n]  BY <1>1 DEF C!Top
<1>5. /\ t \in Seq(Calls) /\ Len(t) = n /\ t[n] = g /\ \A i \in 1 .. n - 1 : t[i] = stack[i]
  BY <1>1, <1>2 DEF Replaced
<1>6. n \in Nat  BY <1>1 DEF CallsRight
<1>7. ASSUME NEW i \in 1 .. n
      PROVE  /\ t[i].dir = stack[i].dir /\ t[i].phase = stack[i].phase
             /\ t[i].todo = IF i = n THEN stack[i].todo \ {p} ELSE stack[i].todo
  <2>1. i = n \/ i \in 1 .. n - 1  BY <1>6
  <2>2. CASE i = n  BY <1>3, <1>4, <1>5, <2>2
  <2>3. CASE i \in 1 .. n - 1 /\ i # n  BY <1>5, <2>3
  <2>4. QED  BY <2>1, <2>2, <2>3
<1>8. QED  BY <1>1, <1>5, <1>7 DEF Smaller

LEMMA CallsTake ==
  ASSUME CallsRight, stack # <<>>, NEW p, stack' = C!Taken(p), src' = src, turn' = turn,
         \A d : Len(stack) > 1 /\ d = stack[2].dir => out'[C!Follow(d)'] = C!Dir
  PROVE  CallsRight'
<1>1. PICK n, t : n = Len(stack) /\ t = stack'  OBVIOUS
<1>2. /\ t \in Seq(Calls) /\ Len(t) = n
      /\ \A i \in 1 .. n :
           /\ t[i].dir = stack[i].dir /\ t[i].phase = stack[i].phase
           /\ t[i].todo = IF i = n THEN stack[i].todo \ {p} ELSE stack[i].todo
  BY <1>1, SmallerFacts DEF Smaller
<1>11. n \in 0 .. 3 /\ (turn = "running") = (stack # <<>>) /\ stack \in Seq(Calls)
  BY <1>1 DEF CallsRight
<1>12. DOMAIN stack = 1 .. n  BY <1>1, <1>11
<1>3. /\ n \in 0 .. 3 /\ (turn = "running") = (stack # <<>>) /\ stack \in Seq(Calls)
      /\ \A i \in 1 .. n :
           /\ Before(stack[i]) /\ Len(stack[i].dir) = i - 1
           /\ IF i = 1 THEN stack[i].dir = C!Root ELSE Entered(stack[i - 1], stack[i].dir)
  BY <1>1, <1>11, <1>12 DEF CallsRight
<1>4. t # <<>> /\ turn = "running"  BY <1>1, <1>2, <1>3
<1>5. ASSUME NEW i \in 1 .. n  PROVE Before(t[i])'
  <2>1. Before(stack[i])  BY <1>3
  <2>2. \A q \in t[i].todo : q \in stack[i].todo  BY <1>2
  <2>3. t[i].dir = stack[i].dir /\ t[i].phase = stack[i].phase  BY <1>2
  <2>4. QED  BY <1>1, <2>1, <2>2, <2>3 DEF Before, C!Processed
<1>6. ASSUME NEW i \in 1 .. n, i # 1  PROVE Entered(t[i - 1], t[i].dir)'
  <2>1. Entered(stack[i - 1], stack[i].dir)  BY <1>3, <1>6
  <2>2. i - 1 \in 1 .. n  BY <1>3, <1>6
  <2>3. \A q \in t[i - 1].todo : q \in stack[i - 1].todo  BY <1>2, <2>2
  <2>4. /\ t[i].dir = stack[i].dir /\ t[i - 1].dir = stack[i - 1].dir
        /\ t[i - 1].phase = stack[i - 1].phase
    BY <1>2, <2>2
  <2>5. QED  BY <1>1, <2>1, <2>3, <2>4 DEF Entered
<1>7. /\ \A i \in 1 .. n : Len(t[i].dir) = i - 1
      /\ 1 \in 1 .. n => t[1].dir = C!Root
  BY <1>2, <1>3
<1>8. n > 1 => out'[C!Follow(t[2].dir)'] = C!Dir
  <2>1. n > 1 => 2 \in 1 .. n  BY <1>11
  <2>2. PICK d : d = stack[2].dir  OBVIOUS
  <2>3. n > 1 => t[2].dir = d  BY <1>2, <2>1, <2>2
  <2>4. n > 1 => out'[C!Follow(d)'] = C!Dir  BY <1>1, <2>2
  <2>5. QED  BY <2>3, <2>4
<1>9. DOMAIN t = 1 .. n  BY <1>2
<1>10. QED  BY <1>1, <1>2, <1>3, <1>4, <1>5, <1>6, <1>7, <1>8, <1>9 DEF CallsRight

(* What the second call works in stays as long as nothing else is written. *)
LEMMA SecondCall ==
  ASSUME TreesRight, CallsRight, Len(stack) > 1, NEW w \in Path,
         (out[w] # C!Dir /\ out[w].kind # "link") \/ C!Parent(w) # C!Root,
         \A r \in Path : r # w /\ C!Parent(r) # w => out'[r] = out[r],
         NEW d, d = stack[2].dir
  PROVE  out'[C!Follow(d)'] = C!Dir
<1>1. PICK u : u = C!Follow(d)  OBVIOUS
<1>2. out[u] = C!Dir  BY <1>1 DEF CallsRight
<1>3. d \in C!Children(C!Root)
  <2>1. 1 \in DOMAIN stack /\ 2 \in DOMAIN stack  BY DEF CallsRight
  <2>2. stack[1].dir = C!Root /\ Entered(stack[1], d)  BY <1>1, <2>1 DEF CallsRight
  <2>3. QED  BY <2>2 DEF Entered
<1>4. d \in Path /\ C!Parent(d) = C!Root /\ d # C!Root  BY <1>3, RootFacts DEF C!Children
<1>5. u \in Path /\ C!Parent(u) = C!Root
  <2>1. CASE out[d].kind = "link"
    <3>1. PICK m : m = out[d]  OBVIOUS
    <3>2. m \in Nodes[d] /\ m.kind = "link"  BY <1>4, <2>1, <3>1 DEF TreesRight
    <3>3. m.to \in C!Children(C!Root)  BY <1>4, <3>2, LinkFacts
    <3>4. u = m.to  BY <1>1, <1>4, <2>1, <3>1 DEF C!Follow
    <3>5. QED  BY <3>3, <3>4 DEF C!Children
  <2>2. CASE out[d].kind # "link"  BY <1>1, <1>4, <2>2 DEF C!Follow
  <2>3. QED  BY <2>1, <2>2
<1>6. out[d].kind = "link" \/ out[d] = C!Dir  BY <1>1, <1>2 DEF C!Follow
<1>7. w # d /\ w # u  BY <1>2, <1>4, <1>5, <1>6
<1>8. w # C!Root  BY RootFacts
<1>9. out'[d] = out[d] /\ out'[u] = out[u]  BY <1>4, <1>5, <1>7, <1>8
<1>10. C!Follow(d)' = u  BY <1>1, <1>9 DEF C!Follow
<1>11. QED  BY <1>2, <1>9, <1>10

(* What a step does to an entry and what is under it settles that entry    *)
(* and leaves the others as they are.                                      *)
Settles(ph, p) ==
  /\ \A q \in Path : q # p /\ C!Parent(q) # p => out'[q] = out[q]
  /\ \A q \in Path : C!Parent(q) = p => out'[q] = out[q] \/ out'[q] = C!Absent
  /\ out'[p].kind = "link" => src[p].kind = "link"
  /\ ph = "copy" /\ C!Selected(p) => out'[p] = src[p] /\ src[p] # C!Dir
  /\ ph = "prune" => out'[p] = C!Absent

LEMMA ProgressTakes ==
  ASSUME TreesRight, CallsRight, Progress, turn = "running", NEW ph \in {"copy", "prune"}, NEW p,
         C!Working(ph, p), Settles(ph, p), stack' = C!Taken(p), src' = src
  PROVE  Progress'
<1>1. PICK n, t, e : n = Len(stack) /\ t = stack' /\ e = C!Parent(p)  OBVIOUS
<1>2. stack # <<>> /\ stack \in Seq(Calls)  BY DEF CallsRight
<1>3. /\ t \in Seq(Calls) /\ Len(t) = n
      /\ \A i \in 1 .. n :
           /\ t[i].dir = stack[i].dir /\ t[i].phase = stack[i].phase
           /\ t[i].todo = IF i = n THEN stack[i].todo \ {p} ELSE stack[i].todo
  BY <1>1, <1>2, SmallerFacts DEF Smaller
<1>4. AtWork(ph, p, C!Land(p))  BY WorkFacts
<1>5. /\ p \in Path /\ n \in {1, 2} /\ Len(p) = n /\ stack[n].dir = e
      /\ p \in stack[n].todo /\ stack[n].phase = ph /\ p \in C!Children(e)
      /\ n = 1 => e = C!Root
  BY <1>1, <1>4 DEF AtWork, C!Children
<1>6. DOMAIN stack = 1 .. n /\ DOMAIN t = 1 .. n  BY <1>1, <1>2, <1>3
<1>7. \A i \in 1 .. n : Len(stack[i].dir) = i - 1 /\ Before(stack[i])
  BY <1>6 DEF CallsRight
<1>8. \A i \in 1 .. n : stack[i].dir # p
  <2> TAKE i \in 1 .. n
  <2>1. Len(stack[i].dir) # Len(p)  BY <1>5, <1>7
  <2>2. QED  BY <2>1
<1>9. \A i \in 1 .. n : stack[i].dir = e => i = n
  <2> TAKE i \in 1 .. n
  <2>1. n \in 1 .. n  BY <1>5
  <2>2. Len(stack[i].dir) = i - 1 /\ Len(stack[n].dir) = n - 1  BY <1>7, <2>1
  <2>3. QED  BY <2>2, <1>5
<1>10. \A i \in 1 .. n : \A q \in C!Children(stack[i].dir) :
         q \in Path /\ (q # p => out'[q] = out[q]) /\ (q = p => i = n)
  BY <1>5, <1>8, <1>9 DEF C!Children, Settles
<1>11. ph = "prune" => p \notin C!Processed(e)  BY <1>5, <1>7 DEF Before
<1>12. ph = "prune" => ~(C!Selected(p) /\ src[p] # C!Absent)
  BY <1>5, <1>11 DEF C!Processed, C!Selected
<1>13. LinksRight'
  <2>1. C!Absent.kind = "absent"  BY NodeFacts
  <2> SUFFICES ASSUME NEW q \in Path, out'[q].kind = "link"  PROVE src[q].kind = "link"
    BY DEF LinksRight
  <2>2. CASE q = p  BY <2>2 DEF Settles
  <2>3. CASE q # p  BY <2>1, <2>3 DEF Settles, Progress, LinksRight
  <2>4. QED  BY <2>2, <2>3
<1>14. ASSUME NEW i \in 1 .. n, NEW q \in C!Children(t[i].dir) \ t[i].todo,
              C!Selected(q), src[q] # C!Absent
       PROVE  out'[q] = src[q]
  <2>1. q \in C!Children(stack[i].dir)  BY <1>3
  <2>2. CASE q = p  BY <1>5, <1>12, <1>14, <2>2 DEF Settles
  <2>3. CASE q # p
    <3>1. q \notin stack[i].todo  BY <1>3, <1>14, <2>3
    <3>2. out[q] = src[q]  BY <1>6, <1>14, <2>1, <3>1 DEF Progress, CopiesRight
    <3>3. QED  BY <1>10, <2>1, <2>3, <3>2
  <2>4. QED  BY <2>2, <2>3
<1>15. ASSUME NEW i \in 1 .. n, NEW q \in C!Children(t[i].dir) \ C!Processed(t[i].dir),
              t[i].phase = "prune", out'[q] # C!Absent
       PROVE  q \in t[i].todo
  <2>1. q \in C!Children(stack[i].dir) \ C!Processed(stack[i].dir) /\ stack[i].phase = "prune"
    BY <1>3, <1>15
  <2>2. q # p  BY <1>5, <1>10, <1>15, <2>1 DEF Settles
  <2>3. out[q] # C!Absent  BY <1>10, <1>15, <2>1, <2>2
  <2>4. q \in stack[i].todo  BY <1>6, <2>1, <2>3 DEF Progress, PruningRight
  <2>5. QED  BY <1>3, <2>2, <2>4
<1>16. ASSUME NEW d \in C!Children(C!Root) \ t[1].todo, C!Selected(d), src[d] = C!Dir,
              n > 1 => d # t[2].dir, NEW q \in C!Children(d)
       PROVE  /\ C!Selected(q) => out'[q] = src[q]
              /\ q \in Unexported => out'[q] = C!Absent
  <2>1. d # p
    <3>1. SUFFICES ASSUME d = p PROVE FALSE  OBVIOUS
    <3>2. src[d] # C!Absent  BY <1>16, NodeFacts
    <3>3. ph = "copy"  BY <1>12, <1>16, <3>1, <3>2
    <3>4. QED  BY <1>16, <3>1, <3>3 DEF Settles
  <2>2. 1 \in 1 .. n /\ (n > 1 => 2 \in 1 .. n)  BY <1>5
  <2>3. d \notin stack[1].todo  BY <1>3, <1>16, <2>1, <2>2
  <2>4. n > 1 => d # stack[2].dir  BY <1>3, <1>16, <2>2
  <2>5. EntriesRight(d)  BY <1>1, <1>16, <2>3, <2>4 DEF Progress, LeftRight
  <2>6. d \in Path /\ q \in Path /\ C!Parent(q) = d  BY <1>16 DEF C!Children
  <2>7. q # p
    <3>1. SUFFICES ASSUME q = p PROVE FALSE  OBVIOUS
    <3>2. e = d /\ d # C!Root  BY <1>1, <2>6, <3>1, RootFacts
    <3>3. n = 2  BY <1>5, <3>2
    <3>4. QED  BY <1>5, <2>4, <3>2, <3>3
  <2>8. out'[q] = out[q]  BY <2>1, <2>6, <2>7 DEF Settles
  <2>9. QED  BY <1>16, <2>5, <2>8 DEF EntriesRight
<1>17. CopiesRight'  BY <1>1, <1>6, <1>14 DEF CopiesRight
<1>18. PruningRight'  BY <1>1, <1>6, <1>15 DEF PruningRight, C!Processed
<1>19. LeftRight'  BY <1>1, <1>3, <1>16 DEF LeftRight, EntriesRight
<1>20. QED  BY <1>13, <1>17, <1>18, <1>19 DEF Progress

-----------------------------------------------------------------------------
(* The invariant holds at first, and each step keeps it.                   *)
LEMMA InitTree == C!NoRunYet /\ out \in Foreign => TreeInv
<1> SUFFICES ASSUME C!NoRunYet, out \in Foreign PROVE TreeInv  OBVIOUS
<1>1. src = Private /\ turn = "idle" /\ stack = <<>> /\ stale = FALSE /\ edits = 0 /\ aborted = 0
  BY DEF C!NoRunYet
<1>2. CountsRight
  <2>1. MaxEdits \in Nat /\ MaxCrashes \in Nat  BY TreeAssumption DEF C!BoundsAssumption
  <2>2. edits \in 0 .. MaxEdits /\ aborted \in 0 .. MaxCrashes  BY <1>1, <2>1
  <2>3. stale \in BOOLEAN /\ turn \in {"idle", "running", "done", "failed", "crashed"}  BY <1>1
  <2>4. QED  BY <2>2, <2>3 DEF CountsRight
<1>3. TreesRight  BY <1>1, TreeAssumption DEF TreesRight, C!TreesAssumption
<1>4. CallsRight
  <2>1. stack \in Seq(Calls) /\ Len(stack) = 0 /\ DOMAIN stack = {}  BY <1>1
  <2>2. QED  BY <1>1, <2>1 DEF CallsRight
<1>5. QED  BY <1>1, <1>2, <1>3, <1>4 DEF TreeInv

LEMMA Taking ==
  ASSUME TreeInv, NEW ph \in {"copy", "prune"}, NEW p, C!Working(ph, p), TreesRight',
         stack' = C!Taken(p), UNCHANGED <<src, turn, stale, edits, aborted>>,
         LinksRight => Settles(ph, p),
         \A d : Len(stack) > 1 /\ d = stack[2].dir => out'[C!Follow(d)'] = C!Dir
  PROVE  TreeInv'
<1>1. turn = "running" /\ TreesRight /\ CallsRight /\ stack # <<>>
  BY DEF C!Working, TreeInv, CallsRight
<1>2. CallsRight'  BY <1>1, CallsTake
<1>3. CountsRight'  BY DEF TreeInv, CountsRight
<1>4. ASSUME ~stale  PROVE Progress'
  <2>1. Progress  BY <1>1, <1>4 DEF TreeInv
  <2>2. Settles(ph, p)  BY <2>1 DEF Progress
  <2>3. src' = src  OBVIOUS
  <2>4. QED  BY <1>1, <2>1, <2>2, <2>3, ProgressTakes
<1>5. QED  BY <1>1, <1>2, <1>3, <1>4 DEF TreeInv

LEMMA SameTrees == TreesRight /\ src' = src /\ out' = out => TreesRight'
BY DEF TreesRight

LEMMA PassOverKeeps == ASSUME TreeInv, NEW p, C!PassOver(p)  PROVE TreeInv'
<1>1. /\ C!Working("copy", p) /\ ~C!Selected(p) /\ stack' = C!Taken(p)
      /\ UNCHANGED <<src, turn, stale, edits, aborted>> /\ out' = out
  BY DEF C!PassOver
<1>2. TreesRight /\ CallsRight /\ turn = "running"  BY <1>1 DEF TreeInv, C!Working
<1>3. TreesRight'  BY <1>1, <1>2, SameTrees
<1>4. AtWork("copy", p, C!Land(p))  BY <1>1, <1>2, WorkFacts
<1>5. p \in Path  BY <1>4 DEF AtWork
<1>6. LinksRight => Settles("copy", p)  BY <1>1, <1>5 DEF LinksRight, Settles
<1>7. \A d : Len(stack) > 1 /\ d = stack[2].dir => out'[C!Follow(d)'] = C!Dir
  BY <1>1, <1>2 DEF CallsRight, C!Follow
<1>8. QED  BY <1>1, <1>3, <1>6, <1>7, Taking

LEMMA CopyLinkKeeps == ASSUME TreeInv, NEW p, C!CopyLink(p)  PROVE TreeInv'
<1>1. PICK q, u, n : q = C!Land(p) /\ u = C!Without(out, q) /\ n = src[p]  OBVIOUS
<1>2. /\ C!Working("copy", p) /\ C!Selected(p) /\ n.kind = "link" /\ stack' = C!Taken(p)
      /\ UNCHANGED <<src, turn, stale, edits, aborted>> /\ out' = Put(u, q, n)
  BY <1>1 DEF C!CopyLink, Put
<1>3. TreesRight /\ CallsRight /\ turn = "running"  BY <1>2 DEF TreeInv, C!Working
<1>4. AtWork("copy", p, q)  BY <1>1, <1>2, <1>3, WorkFacts
<1>5. p \in Path /\ n \in Nodes[p]  BY <1>1, <1>3, <1>4 DEF AtWork, TreesRight
<1>6. q = p  BY <1>2, <1>4, <1>5 DEF AtWork
<1>7. C!Parent(p) = C!Root \/ out[C!Parent(p)] = C!Dir  BY <1>4, <1>6 DEF AtWork
<1>8. NodeRight(n)  BY <1>2 DEF NodeRight
<1>9. C!IsTree(out')
  BY <1>1, <1>2, <1>3, <1>5, <1>6, <1>7, <1>8, LinkPutTree DEF TreesRight
<1>10. /\ u = [r \in Path |-> u[r]]
       /\ \A r \in Path : u[r] = IF r = p \/ C!Parent(r) = p THEN C!Absent ELSE out[r]
  BY <1>1, <1>5, <1>6, WithoutFacts
<1>11. out'[p] = n /\ \A r \in Path : r # p => out'[r] = u[r]
  BY <1>2, <1>5, <1>6, <1>10, PutFacts
<1>12. TreesRight'
  <2>1. C!Absent.kind # "link"  BY NodeFacts
  <2>2. ASSUME NEW r \in Path, out'[r].kind = "link"
        PROVE  out'[r] \in Nodes[r] /\ r \notin Unexported
    <3>1. CASE r = p  BY <1>2, <1>5, <1>11, <3>1 DEF C!Selected
    <3>2. CASE r # p
      <4>1. out'[r] = out[r]  BY <1>10, <1>11, <2>1, <2>2, <3>2
      <4>2. QED  BY <1>3, <2>2, <4>1 DEF TreesRight
    <3>3. QED  BY <3>1, <3>2
  <2>3. QED  BY <1>2, <1>3, <1>9, <2>2 DEF TreesRight
<1>13. n # C!Dir  BY <1>2, NodeFacts
<1>14. Settles("copy", p)
  <2>1. \A r \in Path : C!Parent(r) = p => r # p  BY ParentFacts
  <2>2. \A r \in Path : C!Parent(r) = p => out'[r] = C!Absent  BY <1>10, <1>11, <2>1
  <2>3. \A r \in Path : r # p /\ C!Parent(r) # p => out'[r] = out[r]  BY <1>10, <1>11
  <2>4. QED  BY <1>1, <1>2, <1>11, <1>13, <2>2, <2>3 DEF Settles
<1>15. ASSUME NEW d, Len(stack) > 1, d = stack[2].dir  PROVE out'[C!Follow(d)'] = C!Dir
  <2>1. C!Parent(p) # C!Root
    <3>1. Len(stack) = 2 /\ Len(p) = 2  BY <1>4, <1>15 DEF AtWork
    <3>2. C!Parent(p) \in Path  BY <1>5, <3>1, PathFacts
    <3>3. QED  BY <3>2, RootFacts
  <2>2. \A r \in Path : r # p /\ C!Parent(r) # p => out'[r] = out[r]  BY <1>10, <1>11
  <2>3. QED  BY <1>3, <1>5, <1>15, <2>1, <2>2, SecondCall
<1>16. QED  BY <1>2, <1>12, <1>14, <1>15, Taking

LEMMA CopyFileKeeps == ASSUME TreeInv, NEW p, C!CopyFile(p)  PROVE TreeInv'
<1>1. PICK w, n : w = C!Written(p) /\ n = src[p]  OBVIOUS
<1>2. /\ C!Working("copy", p) /\ C!Selected(p) /\ n.kind = "file" /\ stack' = C!Taken(p)
      /\ UNCHANGED <<src, turn, stale, edits, aborted>> /\ out' = Put(out, w, n) /\ ~C!IsDir(w)
  BY <1>1 DEF C!CopyFile, Put
<1>3. TreesRight /\ CallsRight /\ turn = "running"  BY <1>2 DEF TreeInv, C!Working
<1>4. AtWork("copy", p, C!Land(p))  BY <1>2, <1>3, WorkFacts
<1>5. p \in Path  BY <1>4 DEF AtWork
<1>6. /\ w \in Path /\ out[w].kind # "link"
      /\ C!Parent(w) = C!Root \/ out[C!Parent(w)] = C!Dir
      /\ LinksRight /\ src[p].kind # "link" => w = p
  BY <1>1, <1>2, <1>3, WrittenFacts
<1>7. out[w] # C!Dir  BY <1>2, NodeFacts DEF C!IsDir
<1>8. /\ out = [q \in Path |-> out[q]] /\ C!IsTree(out)
      /\ \A q \in Path : C!Parent(q) = w => out[q] = C!Absent
  <2>1. w # C!Root  BY <1>6, RootFacts
  <2>2. QED  BY <1>3, <1>7, <2>1 DEF TreesRight, C!IsTree
<1>9. NodeRight(n)  BY <1>2 DEF NodeRight
<1>10. C!IsTree(out')  BY <1>2, <1>6, <1>8, <1>9, PutTree
<1>11. out'[w] = n /\ \A q \in Path : q # w => out'[q] = out[q]  BY <1>2, <1>6, <1>8, PutFacts
<1>12. TreesRight'  BY <1>2, <1>3, <1>10, <1>11 DEF TreesRight
<1>13. ASSUME LinksRight  PROVE Settles("copy", p)
  <2>1. w = p  BY <1>1, <1>2, <1>6, <1>13
  <2>2. n # C!Dir  BY <1>2, NodeFacts
  <2>3. C!Parent(p) # p  BY <1>5, ParentFacts
  <2>4. QED  BY <1>1, <1>2, <1>11, <2>1, <2>2, <2>3 DEF Settles
<1>14. ASSUME NEW d, Len(stack) > 1, d = stack[2].dir  PROVE out'[C!Follow(d)'] = C!Dir
  BY <1>3, <1>6, <1>7, <1>11, <1>14, SecondCall
<1>15. QED  BY <1>2, <1>12, <1>13, <1>14, Taking

LEMMA PruneKeeps == ASSUME TreeInv, NEW p, C!Prune(p)  PROVE TreeInv'
<1>1. PICK q, u : q = C!Land(p) /\ u = C!Without(out, q)  OBVIOUS
<1>2. /\ C!Working("prune", p) /\ stack' = C!Taken(p)
      /\ UNCHANGED <<src, turn, stale, edits, aborted>>
      /\ out' = IF out[C!Follow(q)] # C!Absent THEN u ELSE out
  BY <1>1 DEF C!Prune
<1>3. TreesRight /\ CallsRight /\ turn = "running"  BY <1>2 DEF TreeInv, C!Working
<1>4. AtWork("prune", p, q)  BY <1>1, <1>2, <1>3, WorkFacts
<1>5. p \in Path /\ q \in Path  BY <1>4 DEF AtWork
<1>6. C!IsTree(u)  BY <1>1, <1>3, <1>5, WithoutTree DEF TreesRight
<1>7. \A r \in Path : u[r] = IF r = q \/ C!Parent(r) = q THEN C!Absent ELSE out[r]
  BY <1>1, <1>5, WithoutFacts
<1>8. \A r \in Path : out'[r] = out[r] \/ (out'[r] = C!Absent /\ (r = q \/ C!Parent(r) = q))
  BY <1>2, <1>7
<1>9. TreesRight'
  <2>1. C!Absent.kind # "link"  BY NodeFacts
  <2>2. C!IsTree(out')  BY <1>2, <1>3, <1>6 DEF TreesRight
  <2>3. \A r \in Path : out'[r].kind = "link" => out'[r] = out[r]  BY <1>8, <2>1
  <2>4. QED  BY <1>2, <1>3, <2>2, <2>3 DEF TreesRight
<1>10. ASSUME LinksRight  PROVE Settles("prune", p)
  <2>1. q = p  BY <1>1, <1>2, <1>3, <1>10, LandsThere
  <2>2. p \notin C!Processed(C!Parent(p)) /\ p \in C!Children(C!Parent(p))
    <3>1. PICK n : n = Len(stack)  OBVIOUS
    <3>2. /\ n \in DOMAIN stack /\ stack[n].dir = C!Parent(p) /\ p \in stack[n].todo
          /\ stack[n].phase = "prune"
      BY <1>3, <1>4, <3>1 DEF AtWork, CallsRight
    <3>3. Before(stack[n])  BY <1>3, <3>2 DEF CallsRight
    <3>4. QED  BY <3>2, <3>3 DEF Before
  <2>3. src[p] = C!Absent \/ p \in Unexported  BY <2>2 DEF C!Processed
  <2>4. out[p].kind # "link"
    <3>1. out[p].kind = "link" => src[p].kind = "link" /\ p \notin Unexported
      BY <1>3, <1>5, <1>10 DEF LinksRight, TreesRight
    <3>2. QED  BY <2>3, <3>1, NodeFacts
  <2>5. C!Follow(q) = p  BY <2>1, <2>4 DEF C!Follow
  <2>6. out'[p] = C!Absent  BY <1>2, <1>5, <1>7, <2>1, <2>5
  <2>7. \A r \in Path : r # p /\ C!Parent(r) # p => out'[r] = out[r]  BY <1>8, <2>1
  <2>8. QED  BY <1>8, <2>6, <2>7, NodeFacts DEF Settles
<1>11. ASSUME NEW d, Len(stack) > 1, d = stack[2].dir  PROVE out'[C!Follow(d)'] = C!Dir
  <2>1. C!Parent(q) # C!Root
    <3>1. Len(stack) = 2 /\ Len(q) = 2  BY <1>4, <1>11 DEF AtWork
    <3>2. C!Parent(q) \in Path  BY <1>5, <3>1, PathFacts
    <3>3. QED  BY <3>2, RootFacts
  <2>2. \A r \in Path : r # q /\ C!Parent(r) # q => out'[r] = out[r]  BY <1>8
  <2>3. QED  BY <1>3, <1>5, <1>11, <2>1, <2>2, SecondCall
<1>12. QED  BY <1>2, <1>9, <1>10, <1>11, Taking

(* A run that is not going on has no calls.                                *)
LEMMA NotRunning ==
  ASSUME TreeInv, TreesRight', CountsRight', turn' \in {"idle", "failed", "crashed"}, stack' = <<>>
  PROVE  TreeInv'
<1>1. stack' \in Seq(Calls) /\ Len(stack') = 0 /\ DOMAIN stack' = {}  OBVIOUS
<1>2. CallsRight'  BY <1>1 DEF CallsRight
<1>3. QED  BY <1>2 DEF TreeInv

LEMMA EditKeeps ==
  ASSUME TreeInv, NEW p \in Path, NEW n \in Nodes[p], C!Edit(p, n)
  PROVE  TreeInv'
<1>1. PICK u : u = C!Without(src, p)  OBVIOUS
<1>2. /\ turn # "running" /\ edits < MaxEdits
      /\ C!Parent(p) # C!Root => src[C!Parent(p)] = C!Dir
      /\ src' = Put(u, p, n) /\ turn' = "idle" /\ edits' = edits + 1
      /\ UNCHANGED <<out, stack, stale, aborted>>
  BY <1>1 DEF C!Edit, Put
<1>3. stack = <<>>  BY <1>2 DEF TreeInv, CallsRight
<1>4. CountsRight'
  <2>1. MaxEdits \in Nat  BY TreeAssumption DEF C!BoundsAssumption
  <2>2. QED  BY <1>2, <2>1 DEF TreeInv, CountsRight
<1>5. NodeRight(n)  BY TreeAssumption DEF C!NodesAssumption, NodeRight
<1>6. C!IsTree(src')  BY <1>1, <1>2, <1>5, LinkPutTree DEF TreeInv, TreesRight
<1>7. /\ u = [q \in Path |-> u[q]]
      /\ \A q \in Path : u[q] = IF q = p \/ C!Parent(q) = p THEN C!Absent ELSE src[q]
  BY <1>1, WithoutFacts
<1>8. src'[p] = n /\ \A q \in Path : q # p => src'[q] = u[q]  BY <1>2, <1>7, PutFacts
<1>9. \A q \in Path : C!Absent \in Nodes[q]  BY TreeAssumption DEF C!NodesAssumption
<1>10. TreesRight'  BY <1>2, <1>6, <1>7, <1>8, <1>9 DEF TreeInv, TreesRight
<1>11. QED  BY <1>2, <1>3, <1>4, <1>10, NotRunning

LEMMA StartKeeps == ASSUME TreeInv, C!Start  PROVE TreeInv'
<1>1. PICK f : f = C!Frame(C!Root)  OBVIOUS
<1>2. /\ turn' = "running" /\ stack' = <<f>>
      /\ stale' = \E p \in Path : out[p].kind = "link" /\ src[p].kind # "link"
      /\ UNCHANGED <<src, out, edits, aborted>>
  BY <1>1 DEF C!Start
<1>3. /\ f.dir = C!Root /\ f.phase = "copy"
      /\ f.todo = {p \in C!Children(C!Root) : src[p] # C!Absent} /\ f \in Calls
  BY <1>1 DEF C!Frame, Calls, C!Children
<1>4. CountsRight'  BY <1>2 DEF TreeInv, CountsRight
<1>5. TreesRight'  BY <1>2, SameTrees DEF TreeInv
<1>6. stack' \in Seq(Calls) /\ Len(stack') = 1 /\ stack'[1] = f /\ stack' # <<>> /\ DOMAIN stack' = {1}
  BY <1>2, <1>3
<1>7. Before(f)'  BY <1>2, <1>3 DEF Before
<1>8. CallsRight'  BY <1>2, <1>3, <1>6, <1>7, RootFacts DEF CallsRight
<1>9. ASSUME ~stale'  PROVE Progress'
  <2>1. LinksRight'  BY <1>2, <1>9 DEF LinksRight
  <2>2. CopiesRight'  BY <1>2, <1>3, <1>6 DEF CopiesRight
  <2>3. PruningRight'  BY <1>2, <1>3, <1>6 DEF PruningRight
  <2>4. LeftRight'  BY <1>2, <1>3, <1>6, NodeFacts DEF LeftRight
  <2>5. QED  BY <2>1, <2>2, <2>3, <2>4 DEF Progress
<1>10. QED  BY <1>2, <1>4, <1>5, <1>8, <1>9 DEF TreeInv

LEMMA AbortKeeps ==
  ASSUME TreeInv, NEW why \in {"failed", "crashed"}, C!Abort(why), aborted' \in 0 .. MaxCrashes
  PROVE  TreeInv'
<1>1. turn' = why /\ stack' = <<>> /\ UNCHANGED <<src, out, stale, edits>>  BY DEF C!Abort
<1>2. CountsRight'  BY <1>1 DEF TreeInv, CountsRight
<1>3. TreesRight'  BY <1>1, SameTrees DEF TreeInv
<1>4. QED  BY <1>1, <1>2, <1>3, NotRunning

LEMMA KillFacts == ASSUME TreeInv, C!Kill  PROVE aborted' \in 0 .. MaxCrashes
<1>1. MaxCrashes \in Nat  BY TreeAssumption DEF C!BoundsAssumption
<1>2. QED  BY <1>1 DEF C!Kill, TreeInv, CountsRight

(* Killed while it removes what is at a path.                              *)
LEMMA CrashInRemoval ==
  ASSUME TreeInv, NEW p, NEW ph, C!Kill, C!Working(ph, p), NEW q, q = C!Land(p),
         C!RemovedInPart(q), turn' = "crashed", stack' = <<>>, UNCHANGED <<src, stale, edits>>
  PROVE  TreeInv'
<1>1. TreesRight /\ CallsRight /\ turn = "running"  BY DEF TreeInv, C!Kill
<1>2. CountsRight'  BY KillFacts DEF TreeInv, CountsRight
<1>3. AtWork(ph, p, q)  BY <1>1, WorkFacts
<1>4. q \in Path  BY <1>3 DEF AtWork
<1>5. C!IsTree(out') /\ \A r \in Path : out'[r] = out[r] \/ out'[r] = C!Absent
  BY <1>1, <1>4, PartFacts DEF TreesRight
<1>6. TreesRight'  BY <1>1, <1>5, NodeFacts DEF TreesRight
<1>7. QED  BY <1>2, <1>6, NotRunning

LEMMA CrashInPruneKeeps == ASSUME TreeInv, NEW p, C!CrashInPrune(p)  PROVE TreeInv'
<1>1. PICK q, ph : q = C!Land(p) /\ ph = "prune"  OBVIOUS
<1>2. QED  BY <1>1, CrashInRemoval DEF C!CrashInPrune

LEMMA CrashInCopyKeeps == ASSUME TreeInv, NEW p, C!CrashInCopy(p)  PROVE TreeInv'
<1>1. PICK q, w, ph : q = C!Land(p) /\ w = C!Written(p) /\ ph = "copy"  OBVIOUS
<1>2. /\ C!Kill /\ C!Working(ph, p)
      /\ turn' = "crashed" /\ stack' = <<>> /\ UNCHANGED <<src, stale, edits>>
      /\ \/ C!RemovedInPart(q)
         \/ ~C!IsDir(w) /\ out' = Put(out, w, C!Torn)
  BY <1>1 DEF C!CrashInCopy, Put
<1>3. TreesRight /\ CallsRight /\ turn = "running"  BY <1>2 DEF TreeInv, C!Kill
<1>4. CountsRight'  BY <1>2, KillFacts DEF TreeInv, CountsRight
<1>5. CASE C!RemovedInPart(q)  BY <1>1, <1>2, <1>5, CrashInRemoval
<1>6. CASE ~C!IsDir(w) /\ out' = Put(out, w, C!Torn)
  <2>1. /\ w \in Path /\ out[w].kind # "link"
        /\ C!Parent(w) = C!Root \/ out[C!Parent(w)] = C!Dir
    BY <1>1, <1>2, <1>3, WrittenFacts
  <2>2. out[w] # C!Dir  BY <1>6, NodeFacts DEF C!IsDir
  <2>3. /\ out = [r \in Path |-> out[r]] /\ C!IsTree(out)
        /\ \A r \in Path : C!Parent(r) = w => out[r] = C!Absent
    <3>1. w # C!Root  BY <2>1, RootFacts
    <3>2. QED  BY <1>3, <2>2, <3>1 DEF TreesRight, C!IsTree
  <2>4. NodeRight(C!Torn)  BY NodeFacts DEF NodeRight
  <2>5. C!IsTree(out')  BY <1>6, <2>1, <2>3, <2>4, PutTree
  <2>6. out'[w] = C!Torn /\ \A r \in Path : r # w => out'[r] = out[r]
    BY <1>6, <2>1, <2>3, PutFacts
  <2>7. TreesRight'  BY <1>2, <1>3, <2>5, <2>6, NodeFacts DEF TreesRight
  <2>8. QED  BY <1>2, <1>4, <2>7, NotRunning
<1>7. QED  BY <1>2, <1>5, <1>6

(* The tree is as the calls say.                                           *)
LEMMA CallFacts ==
  ASSUME CallsRight, NEW n, n = Len(stack)
  PROVE  /\ stack \in Seq(Calls) /\ n \in 0 .. 3 /\ DOMAIN stack = 1 .. n
         /\ \A i \in 1 .. n :
              /\ stack[i] \in Calls /\ Before(stack[i]) /\ Len(stack[i].dir) = i - 1
              /\ IF i = 1 THEN stack[i].dir = C!Root ELSE Entered(stack[i - 1], stack[i].dir)
<1>1. stack \in Seq(Calls) /\ n \in 0 .. 3  BY DEF CallsRight
<1>2. DOMAIN stack = 1 .. n  BY <1>1
<1>3. \A i \in 1 .. n : stack[i] \in Calls  BY <1>1, <1>2
<1>4. QED  BY <1>1, <1>2, <1>3 DEF CallsRight

LEMMA EnterDirKeeps == ASSUME TreeInv, NEW p, C!EnterDir(p)  PROVE TreeInv'
<1>1. PICK n, q, f, m, u, t : /\ n = Len(stack) /\ q = C!Land(p) /\ f = C!Frame(p)
                              /\ m = n + 1 /\ u = C!Taken(p) /\ t = stack'
  OBVIOUS
<1>2. /\ C!Working("copy", p) /\ C!Selected(p) /\ src[p] = C!Dir
      /\ out[q] = C!Absent \/ C!IsDir(C!Follow(q))
      /\ out' = IF out[q] = C!Absent THEN Put(out, q, C!Dir) ELSE out
      /\ t = Append(u, f)
      /\ UNCHANGED <<src, turn, stale, edits, aborted>>
  BY <1>1 DEF C!EnterDir, Put
<1>3. TreesRight /\ CallsRight /\ turn = "running" /\ stack # <<>>
  BY <1>2 DEF TreeInv, C!Working, CallsRight
<1>4. AtWork("copy", p, q)  BY <1>1, <1>2, <1>3, WorkFacts
<1>5. /\ p \in Path /\ n \in {1, 2} /\ Len(p) = n /\ stack[n].dir = C!Parent(p)
      /\ p \in stack[n].todo /\ stack[n].phase = "copy" /\ p \in C!Children(C!Parent(p))
      /\ q \in Path /\ Len(q) = n
      /\ C!Parent(q) = C!Root \/ out[C!Parent(q)] = C!Dir
      /\ n = 1 => q = p /\ C!Parent(p) = C!Root
  BY <1>1, <1>4 DEF AtWork, C!Children
<1>6. /\ f.dir = p /\ f.phase = "copy" /\ f \in Calls
      /\ f.todo = {r \in C!Children(p) : src[r] # C!Absent}
  BY <1>1, <1>5 DEF C!Frame, Calls, C!Children
<1>7. Smaller(stack, u, p)
  <2>1. PICK g : g = TakesFrom(C!Top, p)  OBVIOUS
  <2>2. Replaced(stack, u, g) /\ C!Top \in Calls  BY <1>1, <1>3, <2>1, TakenFacts
  <2>3. g.dir = C!Top.dir /\ g.phase = C!Top.phase /\ g.todo = C!Top.todo \ {p}
    BY <2>1, <2>2, TakesFacts
  <2>4. C!Top = stack[n]  BY <1>1 DEF C!Top
  <2>5. /\ u \in Seq(Calls) /\ Len(u) = n /\ u[n] = g /\ \A i \in 1 .. n - 1 : u[i] = stack[i]
    BY <1>1, <2>2 DEF Replaced
  <2>6. ASSUME NEW i \in 1 .. n
        PROVE  /\ u[i].dir = stack[i].dir /\ u[i].phase = stack[i].phase
               /\ u[i].todo = IF i = n THEN stack[i].todo \ {p} ELSE stack[i].todo
    <3>1. i = n \/ i \in 1 .. n - 1  BY <1>5
    <3>2. CASE i = n  BY <2>3, <2>4, <2>5, <3>2
    <3>3. CASE i \in 1 .. n - 1 /\ i # n  BY <2>5, <3>3
    <3>4. QED  BY <3>1, <3>2, <3>3
  <2>7. QED  BY <1>1, <2>5, <2>6 DEF Smaller
<1>8. /\ t \in Seq(Calls) /\ Len(t) = m /\ t[m] = f
      /\ \A i \in 1 .. n :
           /\ t[i].dir = stack[i].dir /\ t[i].phase = stack[i].phase
           /\ t[i].todo = IF i = n THEN stack[i].todo \ {p} ELSE stack[i].todo
  <2>1. u \in Seq(Calls) /\ Len(u) = n  BY <1>1, <1>7 DEF Smaller
  <2>2. t \in Seq(Calls) /\ Len(t) = n + 1 /\ t[n + 1] = f /\ \A i \in 1 .. n : t[i] = u[i]
    BY <1>2, <1>5, <1>6, <2>1, PushFacts
  <2>3. QED  BY ZenonT(40), <1>1, <1>7, <2>2 DEF Smaller
<1>9. /\ stack \in Seq(Calls) /\ DOMAIN stack = 1 .. n
      /\ \A i \in 1 .. n :
           /\ Before(stack[i]) /\ Len(stack[i].dir) = i - 1
           /\ IF i = 1 THEN stack[i].dir = C!Root ELSE Entered(stack[i - 1], stack[i].dir)
  BY <1>1, <1>3, CallFacts
<1>10. DOMAIN t = 1 .. m /\ t # <<>> /\ m \in 2 .. 3 /\ n = m - 1  BY <1>1, <1>5, <1>8
<1>11. /\ C!IsTree(out') /\ \A r \in Path : r # q => out'[r] = out[r]
       /\ out'[q] = IF out[q] = C!Absent THEN C!Dir ELSE out[q]
  <2>1. CASE out[q] = C!Absent
    <3>1. NodeRight(C!Dir)  BY DEF NodeRight
    <3>2. C!IsTree(out) /\ out = [r \in Path |-> out[r]]  BY <1>3 DEF TreesRight, C!IsTree
    <3>3. C!IsTree(Put(out, q, C!Dir))  BY <1>5, <3>1, <3>2, PutTree
    <3>4. QED  BY <1>2, <1>5, <2>1, <3>2, <3>3, PutFacts
  <2>2. CASE out[q] # C!Absent  BY <1>2, <1>3, <2>2 DEF TreesRight
  <2>3. QED  BY <2>1, <2>2
<1>12. TreesRight'  BY <1>2, <1>3, <1>11, NodeFacts DEF TreesRight
<1>13. CountsRight'  BY <1>2 DEF TreeInv, CountsRight
<1>14. ASSUME NEW d, d = t[2].dir  PROVE out'[C!Follow(d)'] = C!Dir
  <2>1. CASE n = 1
    <3>1. d = p /\ q = p  BY <1>1, <1>5, <1>6, <1>8, <1>14, <2>1
    <3>2. p # C!Root  BY <1>5, RootFacts
    <3>3. CASE out[p] = C!Absent
      <4>1. out'[p] = C!Dir  BY <1>11, <3>1, <3>3
      <4>2. C!Follow(d)' = p  BY <3>1, <4>1, NodeFacts DEF C!Follow
      <4>3. QED  BY <4>1, <4>2
    <3>4. CASE out[p] # C!Absent
      <4>1. out' = out  BY <1>2, <3>1, <3>4
      <4>2. C!Follow(d)' = C!Follow(p)  BY <3>1, <4>1 DEF C!Follow
      <4>3. C!IsDir(C!Follow(p))  BY <1>2, <3>1, <3>4
      <4>4. C!Follow(p) \in Path
        <5>1. CASE out[p].kind = "link"
          <6>1. PICK k : k = out[p]  OBVIOUS
          <6>2. k \in Nodes[p] /\ k.kind = "link"  BY <1>3, <1>5, <5>1, <6>1 DEF TreesRight
          <6>3. k.to \in Path  BY <1>5, <6>2, LinkFacts
          <6>4. QED  BY <3>2, <5>1, <6>1, <6>3 DEF C!Follow
        <5>2. CASE out[p].kind # "link"  BY <1>5, <5>2 DEF C!Follow
        <5>3. QED  BY <5>1, <5>2
      <4>5. C!IsTree(out)  BY <1>3 DEF TreesRight
      <4>6. out[C!Follow(p)] = C!Dir  BY <4>3, <4>4, <4>5, TreeNode DEF C!IsDir
      <4>7. QED  BY <4>1, <4>2, <4>6
    <3>5. QED  BY <3>3, <3>4
  <2>2. CASE n = 2
    <3>1. d = stack[2].dir /\ Len(stack) > 1  BY <1>1, <1>8, <1>14, <2>2
    <3>2. C!Parent(q) # C!Root
      <4>1. C!Parent(q) \in Path  BY <1>5, <2>2, PathFacts
      <4>2. QED  BY <4>1, RootFacts
    <3>3. \A r \in Path : r # q /\ C!Parent(r) # q => out'[r] = out[r]  BY <1>11
    <3>4. QED  BY <1>3, <1>5, <3>1, <3>2, <3>3, SecondCall
  <2>3. QED  BY <1>5, <2>1, <2>2
<1>15. CallsRight'
  <2>1. ASSUME NEW i \in 1 .. m  PROVE Before(t[i])'
    <3>1. CASE i = m  BY <1>2, <1>6, <1>8, <3>1 DEF Before
    <3>2. CASE i \in 1 .. n
      <4>1. Before(stack[i])  BY <1>9, <3>2
      <4>2. \A r \in t[i].todo : r \in stack[i].todo  BY <1>8, <3>2
      <4>3. t[i].dir = stack[i].dir /\ t[i].phase = stack[i].phase  BY <1>8, <3>2
      <4>4. QED  BY <1>2, <4>1, <4>2, <4>3 DEF Before, C!Processed
    <3>3. QED  BY <1>10, <3>1, <3>2
  <2>2. ASSUME NEW i \in 1 .. m, i # 1  PROVE Entered(t[i - 1], t[i].dir)'
    <3>1. i - 1 \in 1 .. n  BY <1>10, <2>2
    <3>2. /\ t[i - 1].dir = stack[i - 1].dir /\ t[i - 1].phase = stack[i - 1].phase
          /\ \A r \in t[i - 1].todo : r \in stack[i - 1].todo
      BY <1>8, <3>1
    <3>3. CASE i = m
      <4>1. i - 1 = n /\ t[i].dir = p  BY <1>6, <1>8, <1>10, <3>3
      <4>2. p \notin t[n].todo  BY <1>8, <3>1, <4>1
      <4>3. QED  BY <1>2, <1>5, <3>2, <4>1, <4>2 DEF Entered
    <3>4. CASE i \in 1 .. n
      <4>1. Entered(stack[i - 1], stack[i].dir)  BY <1>9, <2>2, <3>4
      <4>2. t[i].dir = stack[i].dir  BY <1>8, <3>4
      <4>3. QED  BY <1>2, <3>2, <4>1, <4>2 DEF Entered
    <3>5. QED  BY <1>10, <3>3, <3>4
  <2>3. \A i \in 1 .. m : Len(t[i].dir) = i - 1
    <3> TAKE i \in 1 .. m
    <3>1. CASE i = m  BY <1>5, <1>6, <1>8, <1>10, <3>1
    <3>2. CASE i \in 1 .. n  BY <1>8, <1>9, <3>2
    <3>3. QED  BY <1>10, <3>1, <3>2
  <2>4. t[1].dir = C!Root
    <3>1. 1 \in 1 .. n  BY <1>5
    <3>2. QED  BY <1>8, <1>9, <3>1
  <2>5. turn' = "running"  BY <1>2, <1>3
  <2>6. m \in 0 .. 3  BY <1>10
  <2>7. QED  BY <1>1, <1>8, <1>10, <1>14, <2>1, <2>2, <2>3, <2>4, <2>5, <2>6 DEF CallsRight
<1>16. ASSUME ~stale  PROVE Progress'
  <2>1. Progress  BY <1>3, <1>16 DEF TreeInv
  <2>2. q = p  BY <1>1, <1>2, <1>3, <2>1, LandsThere DEF Progress
  <2>3. out[p].kind # "link"  BY <1>2, <1>5, <2>1, NodeFacts DEF Progress, LinksRight
  <2>4. out'[p] = C!Dir
    <3>1. C!Follow(p) = p  BY <2>3 DEF C!Follow
    <3>2. C!IsTree(out)  BY <1>3 DEF TreesRight
    <3>3. out[p] = C!Absent \/ out[p] = C!Dir  BY <1>2, <1>5, <2>2, <3>1, <3>2, TreeNode DEF C!IsDir
    <3>4. QED  BY <1>11, <2>2, <3>3
  <2>5. \A r \in Path : r # p => out'[r] = out[r]  BY <1>11, <2>2
  <2>6. LinksRight'  BY <1>2, <2>1, <2>4, <2>5, NodeFacts DEF Progress, LinksRight
  <2>7. CopiesRight'
    <3> SUFFICES ASSUME NEW i \in 1 .. m, NEW r \in C!Children(t[i].dir) \ t[i].todo,
                        C!Selected(r), src[r] # C!Absent
                 PROVE  out'[r] = src[r]
      BY <1>1, <1>2, <1>10 DEF CopiesRight
    <3>1. r \in Path  BY DEF C!Children
    <3>2. CASE r = p  BY <1>2, <2>4, <3>2
    <3>3. CASE r # p /\ i = m  BY <1>6, <1>8, <3>3
    <3>4. CASE r # p /\ i \in 1 .. n
      <4>1. r \in C!Children(stack[i].dir) \ stack[i].todo  BY <1>8, <3>4
      <4>2. out[r] = src[r]  BY <1>9, <2>1, <3>4, <4>1 DEF Progress, CopiesRight
      <4>3. QED  BY <2>5, <3>1, <3>4, <4>2
    <3>5. QED  BY <1>10, <3>2, <3>3, <3>4
  <2>8. PruningRight'
    <3> SUFFICES ASSUME NEW i \in 1 .. m, NEW r \in C!Children(t[i].dir) \ C!Processed(t[i].dir),
                        t[i].phase = "prune", out'[r] # C!Absent
                 PROVE  r \in t[i].todo
      BY <1>1, <1>2, <1>10 DEF PruningRight, C!Processed
    <3>1. i \in 1 .. n  BY <1>6, <1>8, <1>10
    <3>2. stack[i].dir = t[i].dir /\ stack[i].phase = "prune"  BY <1>8, <3>1
    <3>3. r \in Path  BY DEF C!Children
    <3>4. r # p
      <4>1. SUFFICES ASSUME r = p PROVE FALSE  OBVIOUS
      <4>2. p \notin C!Processed(C!Parent(p))  BY <4>1 DEF C!Children
      <4>3. QED  BY <1>2, <1>5, <4>2, NodeFacts DEF C!Processed, C!Selected
    <3>5. out[r] # C!Absent  BY <2>5, <3>3, <3>4
    <3>6. r \in stack[i].todo  BY <1>9, <2>1, <3>1, <3>2, <3>5 DEF Progress, PruningRight
    <3>7. QED  BY <1>8, <3>1, <3>4, <3>6
  <2>9. LeftRight'
    <3> SUFFICES ASSUME NEW d \in C!Children(C!Root) \ t[1].todo, C!Selected(d), src[d] = C!Dir,
                        d # t[2].dir, NEW r \in C!Children(d)
                 PROVE  /\ C!Selected(r) => out'[r] = src[r]
                        /\ r \in Unexported => out'[r] = C!Absent
      BY <1>1, <1>2, <1>8, <1>10 DEF LeftRight, EntriesRight
    <3>1. 1 \in 1 .. n  BY <1>5
    <3>2. r \in Path /\ C!Parent(r) = d /\ d \in Path /\ C!Parent(d) = C!Root  BY DEF C!Children
    <3>3. d # p
      <4>1. n = 1 => t[2].dir = p  BY <1>1, <1>6, <1>8
      <4>2. n = 2 => C!Parent(p) # C!Root
        <5>1. n = 2 => C!Parent(p) \in Path  BY <1>5, PathFacts
        <5>2. QED  BY <5>1, RootFacts
      <4>3. QED  BY <1>5, <3>2, <4>1, <4>2
    <3>4. d \notin stack[1].todo  BY <1>8, <3>1, <3>3
    <3>5. Len(stack) > 1 => d # stack[2].dir
      <4>1. Len(stack) > 1 => 2 \in 1 .. n  BY <1>1, <1>5
      <4>2. QED  BY <1>8, <4>1
    <3>6. EntriesRight(d)  BY <2>1, <3>4, <3>5 DEF Progress, LeftRight
    <3>7. r # p
      <4>1. SUFFICES ASSUME r = p PROVE FALSE  OBVIOUS
      <4>2. d # C!Root  BY <3>2, RootFacts
      <4>3. n = 2  BY <1>5, <3>2, <4>1, <4>2
      <4>4. stack[2].dir = d  BY <1>5, <3>2, <4>1, <4>3
      <4>5. QED  BY <1>1, <3>5, <4>3, <4>4
    <3>8. out'[r] = out[r]  BY <2>5, <3>2, <3>7
    <3>9. QED  BY <3>6, <3>8 DEF EntriesRight
  <2>10. QED  BY <2>6, <2>7, <2>8, <2>9 DEF Progress
<1>17. QED  BY <1>2, <1>3, <1>12, <1>13, <1>15, <1>16 DEF TreeInv

Pruned(f, S) == [f EXCEPT !.phase = "prune", !.todo = S]
LEMMA AtPrune ==
  ASSUME NEW f, f \in Calls, NEW S, S \subseteq Path
  PROVE  /\ Pruned(f, S) \in Calls /\ Pruned(f, S).dir = f.dir
         /\ Pruned(f, S).phase = "prune" /\ Pruned(f, S).todo = S
BY DEF Pruned, Calls

LEMMA StartPruningKeeps == ASSUME TreeInv, C!StartPruning  PROVE TreeInv'
<1>1. PICK n, d, S, g, t :
        /\ n = Len(stack) /\ d = C!Top.dir /\ t = stack'
        /\ S = {p \in C!Children(d) \ C!Processed(d) : out[C!Land(p)] # C!Absent}
        /\ g = [C!Top EXCEPT !.phase = "prune", !.todo = S]
  OBVIOUS
<1>2. /\ turn = "running" /\ C!Top.phase = "copy" /\ C!Top.todo = {}
      /\ t = Append(C!Pop, g) /\ UNCHANGED <<src, out, turn, stale, edits, aborted>>
  BY <1>1 DEF C!StartPruning
<1>3. TreesRight /\ CallsRight /\ stack # <<>>  BY <1>2 DEF TreeInv, CallsRight
<1>4. /\ stack \in Seq(Calls) /\ n \in 1 .. 3 /\ DOMAIN stack = 1 .. n /\ C!Top = stack[n]
      /\ \A i \in 1 .. n :
           /\ stack[i] \in Calls /\ Before(stack[i]) /\ Len(stack[i].dir) = i - 1
           /\ IF i = 1 THEN stack[i].dir = C!Root ELSE Entered(stack[i - 1], stack[i].dir)
  <2>1. /\ stack \in Seq(Calls) /\ n \in 0 .. 3 /\ DOMAIN stack = 1 .. n
        /\ \A i \in 1 .. n :
             /\ stack[i] \in Calls /\ Before(stack[i]) /\ Len(stack[i].dir) = i - 1
             /\ IF i = 1 THEN stack[i].dir = C!Root ELSE Entered(stack[i - 1], stack[i].dir)
    BY <1>1, <1>3, CallFacts
  <2>2. n # 0  BY <1>1, <1>3
  <2>3. C!Top = stack[n]  BY <1>1 DEF C!Top
  <2>4. QED  BY <2>1, <2>2, <2>3
<1>5. S \subseteq C!Children(d) /\ S \subseteq Path /\ S \cap C!Processed(d) = {}
  BY <1>1 DEF C!Children
<1>6. g \in Calls /\ g.dir = d /\ g.phase = "prune" /\ g.todo = S
  <2>1. C!Top \in Calls  BY <1>4
  <2>2. g = Pruned(C!Top, S)  BY <1>1 DEF Pruned
  <2>3. QED  BY <1>1, <1>5, <2>1, <2>2, AtPrune
<1>7. /\ t \in Seq(Calls) /\ Len(t) = n /\ t[n] = g /\ \A i \in 1 .. n - 1 : t[i] = stack[i]
  <2>1. Replaced(stack, Append(SubSeq(stack, 1, Len(stack) - 1), g), g)
    BY <1>3, <1>4, <1>6, ReplacedFacts
  <2>2. QED  BY <1>1, <1>2, <2>1 DEF Replaced, C!Pop
<1>8. DOMAIN t = 1 .. n /\ t # <<>> /\ \A i \in 1 .. n : i = n \/ i \in 1 .. n - 1
  BY <1>4, <1>7
<1>9. \A i \in 1 .. n : t[i].dir = stack[i].dir  BY <1>1, <1>4, <1>6, <1>7, <1>8
<1>10. TreesRight'  BY <1>2, <1>3, SameTrees
<1>11. CountsRight'  BY <1>2 DEF TreeInv, CountsRight
<1>12. CallsRight'
  <2>1. ASSUME NEW i \in 1 .. n  PROVE Before(t[i])'
    <3>1. CASE i = n  BY <1>2, <1>5, <1>6, <1>7, <3>1 DEF Before, C!Processed
    <3>2. CASE i \in 1 .. n - 1
      <4>1. Before(stack[i]) /\ t[i] = stack[i]  BY <1>4, <1>7, <3>2
      <4>2. QED  BY <1>2, <4>1 DEF Before, C!Processed
    <3>3. QED  BY <1>8, <3>1, <3>2
  <2>2. ASSUME NEW i \in 1 .. n, i # 1  PROVE Entered(t[i - 1], t[i].dir)'
    <3>1. i - 1 \in 1 .. n - 1  BY <1>4, <2>2
    <3>2. Entered(stack[i - 1], stack[i].dir) /\ t[i - 1] = stack[i - 1]
      BY <1>4, <1>7, <2>2, <3>1
    <3>3. QED  BY <1>2, <1>9, <3>2 DEF Entered
  <2>3. \A i \in 1 .. n : Len(t[i].dir) = i - 1  BY <1>4, <1>9
  <2>4. t[1].dir = C!Root  BY SMTT(30), <1>4, <1>9
  <2>5. n > 1 => out'[C!Follow(t[2].dir)'] = C!Dir
    <3>1. n > 1 => 2 \in 1 .. n  BY <1>4
    <3>2. PICK e : e = stack[2].dir  OBVIOUS
    <3>3. n > 1 => t[2].dir = e  BY <1>9, <3>1, <3>2
    <3>4. n > 1 => out[C!Follow(e)] = C!Dir  BY <1>1, <1>3, <3>2 DEF CallsRight
    <3>5. C!Follow(e)' = C!Follow(e)  BY <1>2 DEF C!Follow
    <3>6. n > 1 => out'[C!Follow(e)'] = C!Dir  BY <1>2, <3>4, <3>5
    <3>7. QED  BY <3>3, <3>6
  <2>6. turn' = "running" /\ n \in 0 .. 3  BY <1>2, <1>4
  <2>7. QED  BY <1>1, <1>7, <1>8, <2>1, <2>2, <2>3, <2>4, <2>5, <2>6 DEF CallsRight
<1>13. ASSUME ~stale  PROVE Progress'
  <2>1. Progress  BY <1>2, <1>13 DEF TreeInv
  <2>2. ASSUME NEW p \in C!Children(d)  PROVE C!Land(p) = p
    <3>1. p \in Path /\ C!Parent(p) = d  BY DEF C!Children
    <3>2. CASE d = C!Root  BY <1>3, <3>1, <3>2, LandFacts
    <3>3. CASE d # C!Root
      <4>1. n # 1 /\ n \in 1 .. n  BY <1>1, <1>4, <3>3
      <4>2. src[d] = C!Dir  BY <1>1, <1>4, <4>1 DEF Entered
      <4>3. d \in Path  BY <1>1, <1>4, <3>3 DEF Calls
      <4>4. out[d].kind # "link"  BY <2>1, <4>2, <4>3, NodeFacts DEF Progress, LinksRight
      <4>5. QED  BY <1>3, <3>1, <4>4, LandFacts
    <3>4. QED  BY <3>2, <3>3
  <2>3. LinksRight'  BY <1>2, <2>1 DEF Progress, LinksRight
  <2>4. CopiesRight'
    <3> SUFFICES ASSUME NEW i \in 1 .. n, NEW r \in C!Children(t[i].dir) \ t[i].todo,
                        C!Selected(r), src[r] # C!Absent
                 PROVE  out[r] = src[r]
      BY <1>1, <1>2, <1>8 DEF CopiesRight
    <3>1. r \notin stack[i].todo
      <4>1. i = n => stack[i].todo = {}  BY <1>2, <1>4
      <4>2. i # n => t[i] = stack[i]  BY <1>7, <1>8
      <4>3. QED  BY <4>1, <4>2
    <3>2. r \in C!Children(stack[i].dir) \ stack[i].todo  BY <1>9, <3>1
    <3>3. QED  BY <1>4, <2>1, <3>2 DEF Progress, CopiesRight
  <2>5. PruningRight'
    <3> SUFFICES ASSUME NEW i \in 1 .. n, NEW r \in C!Children(t[i].dir) \ C!Processed(t[i].dir),
                        t[i].phase = "prune", out[r] # C!Absent
                 PROVE  r \in t[i].todo
      BY <1>1, <1>2, <1>8 DEF PruningRight, C!Processed
    <3>1. CASE i = n
      <4>1. r \in C!Children(d) \ C!Processed(d) /\ t[i].todo = S  BY <1>6, <1>7, <3>1
      <4>2. C!Land(r) = r  BY <2>2, <4>1
      <4>3. QED  BY <1>1, <4>1, <4>2
    <3>2. CASE i # n
      <4>1. t[i] = stack[i]  BY <1>7, <1>8, <3>2
      <4>2. QED  BY <1>4, <2>1, <4>1 DEF Progress, PruningRight
    <3>3. QED  BY <3>1, <3>2
  <2>6. ASSUME NEW e \in C!Children(C!Root) \ t[1].todo, C!Selected(e), src[e] = C!Dir,
               n > 1 => e # t[2].dir
        PROVE  EntriesRight(e)
    <3>1. e \notin stack[1].todo
      <4>1. n = 1 => stack[1].todo = {}  BY <1>2, <1>4
      <4>2. n # 1 => t[1] = stack[1]  BY <1>4, <1>7
      <4>3. QED  BY <2>6, <4>1, <4>2
    <3>2. n > 1 => e # stack[2].dir
      <4>1. n > 1 => 2 \in 1 .. n  BY <1>4
      <4>2. QED  BY <1>9, <2>6, <4>1
    <3>3. QED  BY <1>1, <2>1, <2>6, <3>1, <3>2 DEF Progress, LeftRight
  <2>8. LeftRight'
    <3>1. Len(stack') = n /\ stack' = t  BY <1>1, <1>7
    <3>2. QED  BY <1>2, <2>6, <3>1 DEF LeftRight, EntriesRight
  <2>7. QED  BY <2>3, <2>4, <2>5, <2>8 DEF Progress
<1>14. QED  BY <1>2, <1>10, <1>11, <1>12, <1>13 DEF TreeInv

(* A call that has pruned leaves its directory right.                      *)
LEMMA LastIsRight ==
  ASSUME CallsRight, Progress, NEW n, n = Len(stack), n # 0,
         stack[n].phase = "prune", stack[n].todo = {}, NEW d, d = stack[n].dir
  PROVE  \A p \in C!Children(d) :
           /\ src[p] # C!Absent /\ C!Selected(p) => out[p] = src[p]
           /\ src[p] = C!Absent \/ p \in Unexported => out[p] = C!Absent
<1>1. n \in DOMAIN stack  BY CallFacts
<1>2. ASSUME NEW p \in C!Children(d), src[p] = C!Absent \/ p \in Unexported
      PROVE  out[p] = C!Absent
  <2>1. p \notin C!Processed(d)  BY <1>2 DEF C!Processed
  <2>2. QED  BY <1>1, <2>1 DEF Progress, PruningRight
<1>3. QED  BY <1>1, <1>2 DEF Progress, CopiesRight

LEMMA LeaveDirKeeps == ASSUME TreeInv, C!LeaveDir  PROVE TreeInv'
<1>1. PICK n, t, m : n = Len(stack) /\ t = stack' /\ m = n - 1  OBVIOUS
<1>2. /\ turn = "running" /\ C!Top.phase = "prune" /\ C!Top.todo = {} /\ t = C!Pop
      /\ turn' = IF n = 1 THEN "done" ELSE "running"
      /\ UNCHANGED <<src, out, stale, edits, aborted>>
  BY <1>1 DEF C!LeaveDir
<1>3. TreesRight /\ CallsRight /\ stack # <<>>  BY <1>2 DEF TreeInv, CallsRight
<1>4. /\ stack \in Seq(Calls) /\ n \in 1 .. 3 /\ DOMAIN stack = 1 .. n /\ C!Top = stack[n]
      /\ \A i \in 1 .. n :
           /\ stack[i] \in Calls /\ Before(stack[i]) /\ Len(stack[i].dir) = i - 1
           /\ IF i = 1 THEN stack[i].dir = C!Root ELSE Entered(stack[i - 1], stack[i].dir)
  <2>1. /\ stack \in Seq(Calls) /\ n \in 0 .. 3 /\ DOMAIN stack = 1 .. n
        /\ \A i \in 1 .. n :
             /\ stack[i] \in Calls /\ Before(stack[i]) /\ Len(stack[i].dir) = i - 1
             /\ IF i = 1 THEN stack[i].dir = C!Root ELSE Entered(stack[i - 1], stack[i].dir)
    BY <1>1, <1>3, CallFacts
  <2>2. n # 0  BY <1>1, <1>3
  <2>3. C!Top = stack[n]  BY <1>1 DEF C!Top
  <2>4. QED  BY <2>1, <2>2, <2>3
<1>5. t \in Seq(Calls) /\ Len(t) = m /\ \A i \in 1 .. m : t[i] = stack[i]
  BY <1>1, <1>2, <1>3, <1>4, PopFacts DEF C!Pop
<1>6. m \in 0 .. 2 /\ DOMAIN t = 1 .. m /\ n = m + 1 /\ \A i \in 1 .. m : i \in 1 .. n
  BY <1>1, <1>4, <1>5
<1>7. TreesRight'  BY <1>2, <1>3, SameTrees
<1>8. CountsRight'  BY <1>2 DEF TreeInv, CountsRight
<1>9. CallsRight'
  <2>1. \A i \in 1 .. m : Before(t[i])'
    BY SMTT(30), <1>2, <1>4, <1>5, <1>6 DEF Before, C!Processed
  <2>2. ASSUME NEW i \in 1 .. m, i # 1  PROVE Entered(t[i - 1], t[i].dir)'
    <3>1. i - 1 \in 1 .. m  BY <1>6, <2>2
    <3>2. Entered(stack[i - 1], stack[i].dir)  BY <1>4, <1>6, <2>2
    <3>3. QED  BY <1>2, <1>5, <3>1, <3>2 DEF Entered
  <2>3. \A i \in 1 .. m : Len(t[i].dir) = i - 1 /\ (i = 1 => t[i].dir = C!Root)
    BY <1>4, <1>5, <1>6
  <2>4. m > 1 => out'[C!Follow(t[2].dir)'] = C!Dir
    <3>1. m > 1 => 2 \in 1 .. m  BY <1>6
    <3>2. PICK e : e = stack[2].dir  OBVIOUS
    <3>3. m > 1 => t[2].dir = e  BY <1>5, <3>1, <3>2
    <3>4. m > 1 => out[C!Follow(e)] = C!Dir  BY <1>1, <1>3, <1>6, <3>2 DEF CallsRight
    <3>5. C!Follow(e)' = C!Follow(e)  BY <1>2 DEF C!Follow
    <3>6. m > 1 => out'[C!Follow(e)'] = C!Dir  BY <1>2, <3>4, <3>5
    <3>7. QED  BY <3>3, <3>6
  <2>5. (turn' = "running") = (t # <<>>)
    <3>1. t = <<>> <=> m = 0  BY <1>5
    <3>2. QED  BY <1>2, <1>6, <3>1
  <2>6. m \in 0 .. 3  BY <1>6
  <2>7. QED  BY <1>1, <1>5, <1>6, <2>1, <2>2, <2>3, <2>4, <2>5, <2>6 DEF CallsRight
<1>10. PICK d : d = stack[n].dir  OBVIOUS
<1>11. ASSUME ~stale
       PROVE  /\ Progress
              /\ \A p \in C!Children(d) :
                   /\ src[p] # C!Absent /\ C!Selected(p) => out[p] = src[p]
                   /\ src[p] = C!Absent \/ p \in Unexported => out[p] = C!Absent
  <2>1. Progress  BY <1>2, <1>11 DEF TreeInv
  <2>2. n # 0 /\ stack[n].phase = "prune" /\ stack[n].todo = {}  BY <1>2, <1>4
  <2>3. QED  BY <1>1, <1>3, <1>10, <2>1, <2>2, LastIsRight
<1>12. ASSUME ~stale, n # 1  PROVE Progress'
  <2>1. LinksRight'  BY <1>2, <1>11, <1>12 DEF Progress, LinksRight
  <2>2. CopiesRight'
    <3>1. \A i \in 1 .. m : \A p \in C!Children(t[i].dir) \ t[i].todo :
            C!Selected(p) /\ src[p] # C!Absent => out[p] = src[p]
      BY <1>4, <1>5, <1>6, <1>11, <1>12 DEF Progress, CopiesRight
    <3>2. QED  BY <1>1, <1>2, <1>6, <3>1 DEF CopiesRight
  <2>3. PruningRight'
    <3>1. \A i \in 1 .. m : \A p \in C!Children(t[i].dir) \ C!Processed(t[i].dir) :
            t[i].phase = "prune" /\ out[p] # C!Absent => p \in t[i].todo
      BY <1>4, <1>5, <1>6, <1>11, <1>12 DEF Progress, PruningRight
    <3>2. QED  BY <1>1, <1>2, <1>6, <3>1 DEF PruningRight, C!Processed
  <2>4. LeftRight'
    <3> SUFFICES ASSUME NEW e \in C!Children(C!Root) \ t[1].todo, C!Selected(e), src[e] = C!Dir,
                        m > 1 => e # t[2].dir
                 PROVE  EntriesRight(e)
      BY <1>1, <1>2, <1>5 DEF LeftRight, EntriesRight
    <3>1. 1 \in 1 .. m /\ (m > 1 => 2 \in 1 .. m)  BY <1>6, <1>12
    <3>2. t[1] = stack[1] /\ (m > 1 => t[2] = stack[2])  BY <1>5, <3>1
    <3>3. CASE e = stack[2].dir
      <4>1. n = 2  BY <1>6, <1>12, <3>1, <3>2, <3>3
      <4>2. e = d  BY <1>10, <3>3, <4>1
      <4>3. QED  BY <1>11, <1>12, <4>2 DEF EntriesRight
    <3>4. CASE e # stack[2].dir
      BY <1>11, <1>12, <3>2, <3>4 DEF Progress, LeftRight
    <3>5. QED  BY <3>3, <3>4
  <2>5. QED  BY <2>1, <2>2, <2>3, <2>4 DEF Progress
<1>13. ASSUME ~stale, n = 1  PROVE C!Mirrors'
  <2>1. d = C!Root /\ 1 \in 1 .. n /\ Len(stack) = 1 /\ stack[1].todo = {}
    BY <1>1, <1>2, <1>4, <1>10, <1>13
  <2>2. \A e \in C!Children(C!Root) : C!Selected(e) /\ src[e] = C!Dir => EntriesRight(e)
    BY <1>11, <1>13, <2>1 DEF Progress, LeftRight
  <2>3. ASSUME NEW p \in Path
        PROVE  /\ C!Reached(p) => out[p] = src[p]
               /\ p \in Unexported /\ C!Parent(p) \notin Skipped => out[p] = C!Absent
    <3>1. PICK e : e = C!Parent(p)  OBVIOUS
    <3>2. CASE e = C!Root
      <4>1. p \in C!Children(d)  BY <2>1, <3>1, <3>2 DEF C!Children
      <4>2. QED  BY <1>11, <1>13, <4>1 DEF C!Reached
    <3>3. CASE e # C!Root
      <4>1. e \in Path /\ C!Parent(e) = C!Root  BY <3>1, <3>3, ParentFacts
      <4>2. p \in C!Children(e) /\ e \in C!Children(C!Root)  BY <3>1, <4>1 DEF C!Children
      <4>3. CASE C!Selected(e) /\ src[e] = C!Dir
        BY <2>2, <4>2, <4>3 DEF EntriesRight, C!Reached
      <4>4. CASE C!Selected(e) /\ src[e] # C!Dir
        <5>1. out[e] = src[e]  BY <1>11, <1>13, <2>1, <4>2, <4>4
        <5>2. out[p] = C!Absent /\ src[p] = C!Absent
          BY <1>3, <3>1, <3>3, <4>4, <5>1 DEF TreesRight, C!IsTree
        <5>3. QED  BY <5>2
      <4>5. CASE e \in Unexported
        <5>1. out[e] = C!Absent  BY <1>11, <1>13, <2>1, <4>2, <4>5
        <5>2. out[p] = C!Absent
          BY <1>3, <3>1, <3>3, <5>1, NodeFacts DEF TreesRight, C!IsTree
        <5>3. ~C!Reached(p)  BY <3>1, <3>3, <4>5 DEF C!Reached, C!Selected
        <5>4. QED  BY <5>2, <5>3
      <4>6. CASE e \in Skipped
        <5>1. ~C!Reached(p)  BY <3>1, <3>3, <4>6 DEF C!Reached, C!Selected
        <5>2. QED  BY <3>1, <4>6, <5>1
      <4>7. QED  BY <4>3, <4>4, <4>5, <4>6 DEF C!Selected
    <3>4. QED  BY <3>2, <3>3
  <2>4. QED  BY <1>2, <2>3 DEF C!Mirrors
<1>14. QED  BY <1>2, <1>7, <1>8, <1>9, <1>12, <1>13 DEF TreeInv

LEMMA StepTree == TreeInv /\ [C!Next]_C!vars => TreeInv'
<1> SUFFICES ASSUME TreeInv, [C!Next]_C!vars PROVE TreeInv'  OBVIOUS
<1>1. CASE C!StartPruning  BY <1>1, StartPruningKeeps
<1>2. CASE C!LeaveDir  BY <1>2, LeaveDirKeeps
<1>3. ASSUME NEW p \in Path,
             C!PassOver(p) \/ C!CopyLink(p) \/ C!CopyFile(p) \/ C!EnterDir(p) \/ C!Prune(p)
      PROVE  TreeInv'
  BY <1>3, PassOverKeeps, CopyLinkKeeps, CopyFileKeeps, EnterDirKeeps, PruneKeeps
<1>4. ASSUME NEW p \in Path, C!RefuseFile(p) \/ C!RefuseDir(p)  PROVE TreeInv'
  <2>1. C!Abort("failed") /\ aborted' = aborted  BY <1>4 DEF C!RefuseFile, C!RefuseDir
  <2>2. aborted' \in 0 .. MaxCrashes  BY <2>1 DEF TreeInv, CountsRight
  <2>3. QED  BY <2>1, <2>2, AbortKeeps
<1>5. CASE C!Start  BY <1>5, StartKeeps
<1>6. CASE C!Crash
  <2>1. C!Abort("crashed") /\ C!Kill  BY <1>6 DEF C!Crash
  <2>2. QED  BY <2>1, KillFacts, AbortKeeps
<1>7. ASSUME NEW p \in Path, C!CrashInCopy(p) \/ C!CrashInPrune(p)  PROVE TreeInv'
  BY <1>7, CrashInCopyKeeps, CrashInPruneKeeps
<1>8. ASSUME NEW p \in Path, NEW n \in Nodes[p], C!Edit(p, n)  PROVE TreeInv'
  BY <1>8, EditKeeps
<1>9. CASE UNCHANGED C!vars
  <2>1. UNCHANGED <<src, out, turn, stack, stale, edits, aborted>>  BY <1>9 DEF C!vars
  <2>2. TreesRight' /\ CountsRight'  BY <2>1, SameTrees DEF TreeInv, CountsRight
  <2>3. CallsRight'
    BY <2>1 DEF TreeInv, CallsRight, Before, Entered, C!Processed, C!Follow
  <2>4. Progress => Progress'
    BY <2>1 DEF Progress, LinksRight, CopiesRight, PruningRight, LeftRight, EntriesRight, C!Processed
  <2>5. C!Mirrors => C!Mirrors'  BY <2>1 DEF C!Mirrors
  <2>6. QED  BY <2>1, <2>2, <2>3, <2>4, <2>5 DEF TreeInv
<1>10. QED
  BY <1>1, <1>2, <1>3, <1>4, <1>5, <1>6, <1>7, <1>8, <1>9 DEF C!Next, C!Step

LEMMA TreeTypes == TreeInv => C!TypeOK
<1> SUFFICES ASSUME TreeInv PROVE C!TypeOK  OBVIOUS
<1>1. CountsRight /\ TreesRight /\ CallsRight  BY DEF TreeInv
<1>2. DOMAIN src = Path /\ DOMAIN out = Path  BY <1>1 DEF TreesRight, C!IsTree
<1>3. PICK n : n = Len(stack)  OBVIOUS
<1>4. /\ DOMAIN stack = 1 .. n /\ n \in 0 .. 3
      /\ \A i \in 1 .. n :
           /\ stack[i] \in Calls
           /\ IF i = 1 THEN stack[i].dir = C!Root ELSE Entered(stack[i - 1], stack[i].dir)
  BY <1>1, <1>3, CallFacts
<1>5. \A i \in 1 .. n :
        /\ stack[i].phase \in {"copy", "prune"} /\ stack[i].todo \subseteq Path
        /\ IF i = 1 THEN stack[i].dir = C!Root ELSE src[stack[i].dir] = C!Dir
  BY <1>4 DEF Calls, Entered
<1>6. (turn = "running") = (stack # <<>>)  BY <1>1 DEF CallsRight
<1>7. QED  BY <1>1, <1>2, <1>4, <1>5, <1>6 DEF C!TypeOK, CountsRight

(* What is skipped, in a directory that is exported, is not touched.       *)
LEMMA SkippedKept ==
  ASSUME TreeInv, [C!Next]_C!vars, NEW p \in Skipped, src[p] # C!Absent,
         {p, C!Parent(p)} \cap Unexported = {}, ~stale
  PROVE  out'[p] = out[p]
<1>1. /\ p \in Path /\ ~C!Selected(p) /\ TreesRight /\ CallsRight
      /\ C!Parent(p) = C!Root \/ src[C!Parent(p)] = C!Dir
  BY TreeAssumption DEF C!PathAssumption, C!Selected, TreeInv, TreesRight, C!IsTree
<1>2. turn = "running" => LinksRight  BY DEF TreeInv, Progress
<1>3. ASSUME NEW q, NEW ph, C!Working(ph, q)
      PROVE  /\ turn = "running" /\ AtWork(ph, q, q) /\ C!Land(q) = q /\ q \in Path
             /\ src[q].kind # "link" => C!Written(q) = q
  <2>1. turn = "running"  BY <1>3 DEF C!Working
  <2>2. C!Land(q) = q  BY <1>1, <1>2, <1>3, <2>1, LandsThere
  <2>3. AtWork(ph, q, q)  BY <1>1, <1>3, <2>1, <2>2, WorkFacts
  <2>4. QED  BY <1>1, <1>2, <1>3, <2>1, <2>2, <2>3, WrittenFacts DEF AtWork
<1>4. ASSUME NEW q \in Path, q # p, src[q] # C!Dir \/ q # C!Parent(p), C!Parent(p) # q
      PROVE  C!Without(out, q)[p] = out[p]
  BY <1>1, <1>4, WithoutFacts
<1>5. ASSUME NEW q \in Path, src[q].kind = "link"  PROVE C!Parent(p) # q
  <2>1. q # C!Root /\ src[q] # C!Dir  BY <1>5, RootFacts, NodeFacts
  <2>2. QED  BY <1>1, <2>1
<1>6. out = [r \in Path |-> out[r]]  BY <1>1 DEF TreesRight, C!IsTree
<1>7. ASSUME NEW q, C!CopyLink(q)  PROVE out'[p] = out[p]
  <2>1. PICK n, u : n = src[q] /\ u = C!Without(out, q)  OBVIOUS
  <2>2. C!Working("copy", q) /\ C!Selected(q) /\ n.kind = "link"
    BY <1>7, <2>1 DEF C!CopyLink
  <2>3. C!Land(q) = q /\ q \in Path  BY <1>3, <2>2
  <2>4. out' = Put(u, q, n)  BY <1>7, <2>1, <2>3 DEF C!CopyLink, Put
  <2>5. q # p  BY <1>1, <2>2
  <2>6. u[p] = out[p]  BY <1>4, <1>5, <2>1, <2>2, <2>3, <2>5
  <2>7. u = [r \in Path |-> u[r]]  BY <2>1, <2>3, WithoutFacts
  <2>8. QED  BY <1>1, <2>3, <2>4, <2>5, <2>6, <2>7, PutFacts
<1>8. ASSUME NEW q, NEW n, C!Working("copy", q), C!Selected(q), src[q].kind = "file",
             out' = Put(out, C!Written(q), n)
      PROVE  out'[p] = out[p]
  <2>1. C!Written(q) = q /\ q \in Path  BY <1>3, <1>8
  <2>2. q # p  BY <1>1, <1>8
  <2>3. QED  BY <1>1, <1>6, <1>8, <2>1, <2>2, PutFacts
<1>9. ASSUME NEW q, C!CopyFile(q)  PROVE out'[p] = out[p]
  <2>1. PICK n : n = src[q]  OBVIOUS
  <2>2. /\ C!Working("copy", q) /\ C!Selected(q) /\ src[q].kind = "file"
        /\ out' = Put(out, C!Written(q), n)
    BY <1>9, <2>1 DEF C!CopyFile, Put
  <2>3. QED  BY <1>8, <2>2
<1>10. ASSUME NEW q, C!EnterDir(q)  PROVE out'[p] = out[p]
  <2>1. C!Working("copy", q) /\ C!Selected(q)  BY <1>10 DEF C!EnterDir
  <2>2. C!Land(q) = q /\ q \in Path  BY <1>3, <2>1
  <2>3. q # p  BY <1>1, <2>1
  <2>4. out' = Put(out, q, C!Dir) \/ out' = out  BY <1>10, <2>2 DEF C!EnterDir, Put
  <2>5. QED  BY <1>1, <1>6, <2>2, <2>3, <2>4, PutFacts
<1>11. ASSUME NEW q, C!Prune(q) \/ C!CrashInPrune(q)  PROVE out'[p] = out[p]
  <2>1. C!Working("prune", q)  BY <1>11 DEF C!Prune, C!CrashInPrune
  <2>2. C!Land(q) = q /\ q \in Path /\ AtWork("prune", q, q)  BY <1>3, <2>1
  <2>3. q \notin C!Processed(C!Parent(q)) /\ q \in C!Children(C!Parent(q))
    <3>1. PICK n : n = Len(stack)  OBVIOUS
    <3>2. /\ n \in DOMAIN stack /\ stack[n].dir = C!Parent(q) /\ q \in stack[n].todo
          /\ stack[n].phase = "prune"
      BY <1>1, <2>2, <3>1 DEF AtWork, CallsRight
    <3>3. Before(stack[n])  BY <1>1, <3>2 DEF CallsRight
    <3>4. QED  BY <3>2, <3>3 DEF Before
  <2>4. src[q] = C!Absent \/ q \in Unexported  BY <2>3 DEF C!Processed
  <2>5. q # p  BY <2>4
  <2>6. C!Parent(p) # q
    <3>1. q # C!Root /\ C!Dir # C!Absent  BY <2>2, RootFacts, NodeFacts
    <3>2. QED  BY <1>1, <2>4, <3>1
  <2>7. C!Without(out, q)[p] = out[p]  BY <1>4, <2>2, <2>5, <2>6
  <2>8. out' = C!Without(out, q) \/ out' = out \/ C!RemovedInPart(q)
    BY <1>11, <2>2 DEF C!Prune, C!CrashInPrune
  <2>9. C!RemovedInPart(q) => out'[p] = out[p]  BY <1>1, <2>2, <2>5, <2>6, PartFacts DEF TreesRight
  <2>10. QED  BY <2>7, <2>8, <2>9
<1>12. ASSUME NEW q, C!CrashInCopy(q)  PROVE out'[p] = out[p]
  <2>1. C!Working("copy", q) /\ C!Selected(q)  BY <1>12 DEF C!CrashInCopy
  <2>2. C!Land(q) = q /\ q \in Path /\ q # p  BY <1>1, <1>3, <2>1
  <2>3. CASE src[q].kind = "link" /\ C!RemovedInPart(q)
    BY <1>1, <1>5, <2>2, <2>3, PartFacts DEF TreesRight
  <2>4. CASE src[q].kind = "file" /\ out' = Put(out, C!Written(q), C!Torn)
    BY <1>8, <2>1, <2>4
  <2>5. QED  BY <1>12, <2>2, <2>3, <2>4 DEF C!CrashInCopy, Put
<1>13. CASE out' = out  BY <1>13
<1>14. QED
  BY <1>7, <1>9, <1>10, <1>11, <1>12, <1>13
     DEF C!Next, C!Step, C!StartPruning, C!LeaveDir, C!PassOver, C!RefuseFile, C!RefuseDir,
         C!Abort, C!Start, C!Crash, C!Edit, C!vars

LEMMA TreeInvariance == AllSpec => [](use = "compose" => TreeInv)
<1> DEFINE I == use = "compose" => TreeInv
<1>1. AllInit => I  BY InitTree DEF AllInit
<1>2. I /\ [AllNext]_allVars => I'
  <2> SUFFICES ASSUME I, [AllNext]_allVars, use' = "compose" PROVE TreeInv'  OBVIOUS
  <2>1. use = "compose" /\ [C!Next]_C!vars
    BY DEF AllNext, allVars, Compose, treeVars, C!vars
  <2>2. QED  BY <2>1, StepTree
<1>3. QED  BY <1>1, <1>2, PTL DEF AllSpec

(* A compose that succeeds leaves a mirror of the private tree, whatever   *)
(* earlier runs, kills and edits have left behind, for trees of any size   *)
(* and any entries that are skipped or not exported.                       *)
THEOREM MirrorsAreLeft == AllSpec => []SuccessMirrors
<1>1. (use = "compose" => TreeInv) => SuccessMirrors
  BY TreeTypes DEF TreeInv, SuccessMirrors, C!SuccessMirrors
<1>2. QED  BY <1>1, TreeInvariance, PTL

(* No step of a compose touches what is skipped, as long as the private    *)
(* tree has it and its directory is exported.                              *)
THEOREM SkippedIsKept == AllSpec => SkippedUntouched
<1> DEFINE I == use = "compose" => TreeInv
           Kept == \A p \in Skipped :
                     src[p] # C!Absent /\ {p, C!Parent(p)} \cap Unexported = {} /\ ~stale =>
                       out'[p] = out[p]
<1>1. I /\ [AllNext]_allVars => [Kept]_C!vars
  <2> SUFFICES ASSUME I, [AllNext]_allVars, ~UNCHANGED C!vars PROVE Kept  OBVIOUS
  <2>1. use = "compose" /\ [C!Next]_C!vars
    BY DEF AllNext, allVars, Compose, treeVars, C!vars
  <2>2. QED  BY <2>1, SkippedKept
<1>2. QED  BY <1>1, TreeInvariance, PTL DEF AllSpec, SkippedUntouched, C!SkippedUntouched
=============================================================================
