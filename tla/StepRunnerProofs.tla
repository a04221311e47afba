-------------------------- MODULE StepRunnerProofs --------------------------
(***************************************************************************)
(* Proofs about StepRunner: whatever the number of workers, the schedule   *)
(* and the moments their deadlines pass, the harness keeps its invariant   *)
(* and behaves as StepBarrier.                                             *)
(***************************************************************************)
EXTENDS StepRunner, FiniteSetTheorems, TLAPS

USE DEF kDefaultLastStep

(* The two sets of workers that the counters of the source count are       *)
(* finite, so that adding or removing one worker moves them by one.        *)
LEMMA AliveFinite == IsFiniteSet(Alive)
BY WorkerAssumption, FS_Subset DEF Alive

LEMMA CountedFinite == IsFiniteSet(Counted)
BY WorkerAssumption, FS_Subset DEF Counted

LEMMA InitIInv == Init => IInv
<1> SUFFICES ASSUME Init PROVE IInv OBVIOUS
<1>1. TypeOK BY MaxStepAssumption DEF Init, TypeOK, WorkerPc, MainPc
<1>2. LastNotBehind BY MaxStepAssumption DEF Init, LastNotBehind
<1>3. CountersRight
  <2>1. Alive = {} BY DEF Init, Alive
  <2>2. QED BY <2>1, FS_EmptySet DEF Init, CountersRight
<1>4. CoordinatorRight BY MaxStepAssumption DEF Init, CoordinatorRight
<1>5. \A w \in Worker : WorkerRight(w) BY DEF Init, WorkerRight, Left
<1>6. QED BY <1>1, <1>2, <1>3, <1>4, <1>5 DEF IInv

(* Every action of the coordinator, of a worker or of the clock preserves  *)
(* the invariant.                                                          *)
LEMMA StepIInv == IInv /\ [Next]_vars => IInv'
<1> SUFFICES ASSUME IInv, [Next]_vars PROVE IInv' OBVIOUS
<1> USE MaxStepAssumption

<1>1. CASE DoStepReset
  <2>1. TypeOK' BY <1>1 DEF IInv, TypeOK, WorkerPc, MainPc, DoStepReset
  <2>2. LastNotBehind' BY <1>1 DEF IInv, LastNotBehind, DoStepReset
  <2>3. CountersRight' BY <1>1 DEF IInv, CountersRight, Counted, Alive,
       TypeOK, DoStepReset
  <2>4. CoordinatorRight' BY <1>1 DEF IInv, CoordinatorRight, TypeOK,
       WithinBound, DoStepReset
  <2>5. (\A u \in Worker : WorkerRight(u))' BY <1>1 DEF IInv, TypeOK,
       WorkerRight, Left, LastNotBehind, CoordinatorRight, DoStepReset
  <2>6. QED BY <2>1, <2>2, <2>3, <2>4, <2>5 DEF IInv
<1>2. CASE DoStepAdvance
  <2>1. TypeOK' BY <1>2 DEF IInv, TypeOK, WorkerPc, MainPc, CoordinatorRight,
       DoStepAdvance
  <2>2. LastNotBehind' BY <1>2 DEF IInv, LastNotBehind, TypeOK,
       CoordinatorRight, DoStepAdvance
  <2>3. CountersRight'
    <3>1. Counted' = {}
      BY <1>2 DEF IInv, TypeOK, WorkerRight, Counted, DoStepAdvance
    <3>2. QED
      BY <1>2, <3>1, FS_EmptySet DEF IInv, CountersRight, Alive, DoStepAdvance
  <2>4. CoordinatorRight' BY <1>2 DEF IInv, CoordinatorRight, TypeOK,
       DoStepAdvance
  <2>5. (\A u \in Worker : WorkerRight(u))' BY <1>2 DEF IInv, TypeOK,
       WorkerRight, Left, LastNotBehind, CoordinatorRight, DoStepAdvance
  <2>6. QED BY <2>1, <2>2, <2>3, <2>4, <2>5 DEF IInv
<1>3. CASE DoStepAwait
  <2>1. TypeOK' BY <1>3 DEF IInv, TypeOK, WorkerPc, MainPc, DoStepAwait,
       shared
  <2>2. LastNotBehind' BY <1>3 DEF IInv, LastNotBehind, DoStepAwait, shared
  <2>3. CountersRight' BY <1>3 DEF IInv, CountersRight, Counted, Alive,
       TypeOK, DoStepAwait, shared
  <2>4. CoordinatorRight' BY <1>3 DEF IInv, CoordinatorRight, TypeOK,
       DoStepAwait, shared
  <2>5. (\A u \in Worker : WorkerRight(u))'
    <3>1. Cardinality(Counted) = Cardinality(Worker)
      <4>1. {u \in Worker : pc[u] # "absent"} = Worker
        BY <1>3 DEF IInv, CoordinatorRight, DoStepAwait
      <4>2. QED BY <1>3, <4>1 DEF IInv, CountersRight, TotalWorkers, DoStepAwait
    <3>2. Counted = Worker BY <3>1, CountedFinite, WorkerAssumption, FS_Subset
      DEF Counted
    <3>3. \A u \in Worker : cur[u] = step + 1 BY <3>2 DEF Counted
    <3>4. QED BY <1>3, <3>3 DEF IInv, TypeOK, WorkerRight, Left, DoStepAwait, shared
  <2>6. QED BY <2>1, <2>2, <2>3, <2>4, <2>5 DEF IInv
<1>4. CASE DoStepReturn
  <2>1. TypeOK' BY <1>4 DEF IInv, TypeOK, WorkerPc, MainPc, DoStepReturn,
       shared
  <2>2. LastNotBehind' BY <1>4 DEF IInv, LastNotBehind, DoStepReturn, shared
  <2>3. CountersRight' BY <1>4 DEF IInv, CountersRight, Counted, Alive,
       TypeOK, DoStepReturn, shared
  <2>4. CoordinatorRight' BY <1>4 DEF IInv, CoordinatorRight, TypeOK,
       LastNotBehind, DoStepReturn, shared
  <2>5. (\A u \in Worker : WorkerRight(u))' BY <1>4 DEF IInv, TypeOK,
       WorkerRight, Left, LastNotBehind, CoordinatorRight, DoStepReturn,
       shared
  <2>6. QED BY <2>1, <2>2, <2>3, <2>4, <2>5 DEF IInv
<1>5. CASE Join
  <2>1. TypeOK' BY <1>5 DEF IInv, TypeOK, WorkerPc, MainPc, Join, shared
  <2>2. LastNotBehind' BY <1>5 DEF IInv, LastNotBehind, Join, shared
  <2>3. CountersRight' BY <1>5 DEF IInv, CountersRight, Counted, Alive,
       TypeOK, Join, shared
  <2>4. CoordinatorRight' BY <1>5 DEF IInv, CoordinatorRight, TypeOK, Join,
       shared
  <2>5. (\A u \in Worker : WorkerRight(u))' BY <1>5 DEF IInv, TypeOK,
       WorkerRight, Left, Join, shared
  <2>6. QED BY <2>1, <2>2, <2>3, <2>4, <2>5 DEF IInv
<1>6. ASSUME NEW w \in Worker, Add(w) PROVE IInv'
  <2>1. TypeOK' BY <1>6 DEF IInv, TypeOK, WorkerPc, Add
  <2>2. LastNotBehind' BY <1>6 DEF IInv, LastNotBehind, Add
  <2>3. CountersRight'
    <3>1. Alive' = Alive \cup {w} /\ w \notin Alive
      BY <1>6 DEF IInv, TypeOK, Alive, Add
    <3>2. Cardinality(Alive') = Cardinality(Alive) + 1
      BY <3>1, AliveFinite, FS_AddElement
    <3>3. QED BY <1>6, <3>2 DEF IInv, CountersRight, Counted, Add
  <2>4. CoordinatorRight' BY <1>6 DEF IInv, CoordinatorRight, TypeOK, Add
  <2>5. (\A u \in Worker : WorkerRight(u))' BY <1>6 DEF IInv, TypeOK,
       WorkerRight, Left, LastNotBehind, CoordinatorRight, Add
  <2>6. QED BY <2>1, <2>2, <2>3, <2>4, <2>5 DEF IInv
<1>7. ASSUME NEW w \in Worker, EnterRunSteps(w) PROVE IInv'
  <2>1. TypeOK' BY <1>7 DEF IInv, TypeOK, WorkerPc, EnterRunSteps, shared,
       Goto
  <2>2. LastNotBehind' BY <1>7 DEF IInv, LastNotBehind, EnterRunSteps, shared,
       Goto
  <2>3. CountersRight'
    <3>1. mpc = "await" => Counted' = Counted
      BY <1>7 DEF IInv, TypeOK, CoordinatorRight, WorkerRight, Counted,
                  EnterRunSteps, shared, Goto
    <3>2. Alive' = Alive
      BY <1>7 DEF IInv, TypeOK, Alive, EnterRunSteps, Goto
    <3>3. QED BY <1>7, <3>1, <3>2 DEF IInv, CountersRight, EnterRunSteps, shared
  <2>4. CoordinatorRight' BY <1>7 DEF IInv, CoordinatorRight, TypeOK,
       WorkerRight, EnterRunSteps, shared, Goto
  <2>5. (\A u \in Worker : WorkerRight(u))' BY <1>7 DEF IInv, TypeOK,
       WorkerRight, Left, LastNotBehind, CoordinatorRight, EnterRunSteps,
       shared, Goto
  <2>6. QED BY <2>1, <2>2, <2>3, <2>4, <2>5 DEF IInv
<1>8. ASSUME NEW w \in Worker, LeaveLoop(w) PROVE IInv'
  <2>1. TypeOK' BY <1>8 DEF IInv, TypeOK, WorkerPc, LeaveLoop, shared, Goto
  <2>2. LastNotBehind' BY <1>8 DEF IInv, LastNotBehind, LeaveLoop, shared,
       Goto
  <2>3. CountersRight' BY <1>8 DEF IInv, CountersRight, Counted, Alive,
       TypeOK, LeaveLoop, shared, Goto
  <2>4. CoordinatorRight' BY <1>8 DEF IInv, CoordinatorRight, TypeOK,
       LeaveLoop, shared, Goto
  <2>5. (\A u \in Worker : WorkerRight(u))' BY <1>8 DEF IInv, TypeOK,
       WorkerRight, Left, LeaveLoop, shared, Goto
  <2>6. QED BY <2>1, <2>2, <2>3, <2>4, <2>5 DEF IInv
<1>9. ASSUME NEW w \in Worker, Exit(w) PROVE IInv'
  <2>1. TypeOK'
    <3>1. running \in Nat \ {0}
      <4>1. w \in Alive BY <1>9 DEF Exit, Goto, Alive
      <4>2. Cardinality(Alive) # 0 BY <4>1, AliveFinite, FS_EmptySet
      <4>3. QED BY <4>2 DEF IInv, TypeOK, CountersRight
    <3>2. QED BY <1>9, <3>1 DEF IInv, TypeOK, WorkerPc, Exit, Goto
  <2>2. LastNotBehind' BY <1>9 DEF IInv, LastNotBehind, Exit, Goto
  <2>3. CountersRight'
    <3>1. Alive' = Alive \ {w} /\ w \in Alive
      BY <1>9 DEF IInv, TypeOK, Alive, Exit, Goto
    <3>2. Cardinality(Alive') = Cardinality(Alive) - 1
      BY <3>1, AliveFinite, FS_RemoveElement
    <3>3. QED BY <1>9, <3>2 DEF IInv, CountersRight, Counted, Exit
  <2>4. CoordinatorRight' BY <1>9 DEF IInv, CoordinatorRight, TypeOK, Exit,
       Goto
  <2>5. (\A u \in Worker : WorkerRight(u))' BY <1>9 DEF IInv, TypeOK,
       WorkerRight, Left, Exit, Goto
  <2>6. QED BY <2>1, <2>2, <2>3, <2>4, <2>5 DEF IInv
<1>10. ASSUME NEW w \in Worker, SpinOut(w) PROVE IInv'
  <2>1. TypeOK' BY <1>10 DEF IInv, TypeOK, WorkerPc, SpinOut, shared, Goto
  <2>2. LastNotBehind' BY <1>10 DEF IInv, LastNotBehind, SpinOut, shared, Goto
  <2>3. CountersRight' BY <1>10 DEF IInv, CountersRight, Counted, Alive,
       TypeOK, SpinOut, shared, Goto
  <2>4. CoordinatorRight' BY <1>10 DEF IInv, CoordinatorRight, TypeOK,
       SpinOut, shared, Goto
  <2>5. (\A u \in Worker : WorkerRight(u))' BY <1>10 DEF IInv, TypeOK,
       WorkerRight, Left, LastNotBehind, CoordinatorRight, SpinOut, shared,
       Goto
  <2>6. QED BY <2>1, <2>2, <2>3, <2>4, <2>5 DEF IInv
<1>11. ASSUME NEW w \in Worker, LoadStep(w) PROVE IInv'
  <2>1. TypeOK' BY <1>11 DEF IInv, TypeOK, WorkerPc, LoadStep, shared, Goto
  <2>2. LastNotBehind' BY <1>11 DEF IInv, LastNotBehind, LoadStep, shared,
       Goto
  <2>3. CountersRight' BY <1>11 DEF IInv, CountersRight, Counted, Alive,
       TypeOK, LoadStep, shared, Goto
  <2>4. CoordinatorRight' BY <1>11 DEF IInv, CoordinatorRight, TypeOK,
       LoadStep, shared, Goto
  <2>5. (\A u \in Worker : WorkerRight(u))' BY <1>11 DEF IInv, TypeOK,
       WorkerRight, Left, LastNotBehind, CoordinatorRight, LoadStep, shared,
       Goto
  <2>6. QED BY <2>1, <2>2, <2>3, <2>4, <2>5 DEF IInv
<1>12. ASSUME NEW w \in Worker, CheckDeadline(w) PROVE IInv'
  <2>1. TypeOK' BY <1>12 DEF IInv, TypeOK, WorkerPc, CheckDeadline, shared,
       Goto
  <2>2. LastNotBehind' BY <1>12 DEF IInv, LastNotBehind, CheckDeadline,
       shared, Goto
  <2>3. CountersRight' BY <1>12 DEF IInv, CountersRight, Counted, Alive,
       TypeOK, CheckDeadline, shared, Goto
  <2>4. CoordinatorRight' BY <1>12 DEF IInv, CoordinatorRight, TypeOK,
       CheckDeadline, shared, Goto
  <2>5. (\A u \in Worker : WorkerRight(u))' BY <1>12 DEF IInv, TypeOK,
       WorkerRight, Left, LastNotBehind, CoordinatorRight, CheckDeadline,
       shared, Goto
  <2>6. QED BY <2>1, <2>2, <2>3, <2>4, <2>5 DEF IInv
<1>13. ASSUME NEW w \in Worker, LoadLast(w) PROVE IInv'
  <2>1. TypeOK' BY <1>13 DEF IInv, TypeOK, WorkerPc, LoadLast, shared, Goto
  <2>2. LastNotBehind' BY <1>13 DEF IInv, LastNotBehind, LoadLast, shared,
       Goto
  <2>3. CountersRight' BY <1>13 DEF IInv, CountersRight, Counted, Alive,
       TypeOK, LoadLast, shared, Goto
  <2>4. CoordinatorRight' BY <1>13 DEF IInv, CoordinatorRight, TypeOK,
       LoadLast, shared, Goto
  <2>5. (\A u \in Worker : WorkerRight(u))' BY <1>13 DEF IInv, TypeOK,
       WorkerRight, Left, LoadLast, shared, Goto
  <2>6. QED BY <2>1, <2>2, <2>3, <2>4, <2>5 DEF IInv
<1>14. ASSUME NEW w \in Worker, CasSucceeds(w) PROVE IInv'
  <2>1. TypeOK' BY <1>14 DEF IInv, TypeOK, WorkerPc, WorkerRight, CasSucceeds,
       Goto
  <2>2. LastNotBehind' BY <1>14 DEF IInv, LastNotBehind, TypeOK, WorkerRight,
       CasSucceeds, Goto
  <2>3. CountersRight' BY <1>14 DEF IInv, CountersRight, Counted, Alive,
       TypeOK, CasSucceeds, Goto
  <2>4. CoordinatorRight' BY <1>14 DEF IInv, CoordinatorRight, TypeOK,
       WorkerRight, CasSucceeds, Goto
  <2>5. (\A u \in Worker : WorkerRight(u))' BY <1>14 DEF IInv, TypeOK,
       WorkerRight, Left, LastNotBehind, CoordinatorRight, CasSucceeds, Goto
  <2>6. QED BY <2>1, <2>2, <2>3, <2>4, <2>5 DEF IInv
<1>15. ASSUME NEW w \in Worker, CasFails(w) PROVE IInv'
  <2>1. TypeOK' BY <1>15 DEF IInv, TypeOK, WorkerPc, CasFails, shared, Goto
  <2>2. LastNotBehind' BY <1>15 DEF IInv, LastNotBehind, CasFails, shared,
       Goto
  <2>3. CountersRight' BY <1>15 DEF IInv, CountersRight, Counted, Alive,
       TypeOK, CasFails, shared, Goto
  <2>4. CoordinatorRight' BY <1>15 DEF IInv, CoordinatorRight, TypeOK,
       CasFails, shared, Goto
  <2>5. (\A u \in Worker : WorkerRight(u))' BY <1>15 DEF IInv, TypeOK,
       WorkerRight, Left, LastNotBehind, CoordinatorRight, CasFails, shared,
       Goto
  <2>6. QED BY <2>1, <2>2, <2>3, <2>4, <2>5 DEF IInv
<1>16. ASSUME NEW w \in Worker, CheckLast(w) PROVE IInv'
  <2>1. TypeOK' BY <1>16 DEF IInv, TypeOK, WorkerPc, CheckLast, shared, Goto
  <2>2. LastNotBehind' BY <1>16 DEF IInv, LastNotBehind, CheckLast, shared,
       Goto
  <2>3. CountersRight' BY <1>16 DEF IInv, CountersRight, Counted, Alive,
       TypeOK, CheckLast, shared, Goto
  <2>4. CoordinatorRight' BY <1>16 DEF IInv, CoordinatorRight, TypeOK,
       CheckLast, shared, Goto
  <2>5. (\A u \in Worker : WorkerRight(u))' BY <1>16 DEF IInv, TypeOK,
       WorkerRight, Left, LastNotBehind, CoordinatorRight, CheckLast, shared,
       Goto
  <2>6. QED BY <2>1, <2>2, <2>3, <2>4, <2>5 DEF IInv
<1>17. ASSUME NEW w \in Worker, ReturnF(w) PROVE IInv'
  <2>1. TypeOK' BY <1>17 DEF IInv, TypeOK, WorkerPc, WorkerRight, ReturnF,
       shared, Goto
  <2>2. LastNotBehind' BY <1>17 DEF IInv, LastNotBehind, ReturnF, shared, Goto
  <2>3. CountersRight' BY <1>17 DEF IInv, CountersRight, Counted, Alive,
       TypeOK, ReturnF, shared, Goto
  <2>4. CoordinatorRight' BY <1>17 DEF IInv, CoordinatorRight, TypeOK,
       ReturnF, shared, Goto
  <2>5. (\A u \in Worker : WorkerRight(u))' BY <1>17 DEF IInv, TypeOK,
       WorkerRight, Left, LastNotBehind, CoordinatorRight, ReturnF, shared,
       Goto
  <2>6. QED BY <2>1, <2>2, <2>3, <2>4, <2>5 DEF IInv
<1>18. ASSUME NEW w \in Worker, FinishStep(w) PROVE IInv'
  <2>1. TypeOK' BY <1>18 DEF IInv, TypeOK, WorkerPc, WorkerRight, FinishStep,
       Goto
  <2>2. LastNotBehind' BY <1>18 DEF IInv, LastNotBehind, FinishStep, Goto
  <2>3. CountersRight'
    <3>1. mpc = "await" /\ cur[w] = step
      BY <1>18 DEF IInv, TypeOK, WorkerRight, FinishStep, Goto
    <3>2. Counted' = Counted \cup {w} /\ w \notin Counted
      BY <1>18, <3>1 DEF IInv, TypeOK, Counted, FinishStep
    <3>3. Cardinality(Counted') = Cardinality(Counted) + 1
      BY <3>2, CountedFinite, FS_AddElement
    <3>4. Alive' = Alive
      BY <1>18 DEF IInv, TypeOK, Alive, FinishStep, Goto
    <3>5. QED BY <1>18, <3>1, <3>3, <3>4 DEF IInv, CountersRight, FinishStep
  <2>4. CoordinatorRight' BY <1>18 DEF IInv, CoordinatorRight, TypeOK,
       WorkerRight, FinishStep, Goto
  <2>5. (\A u \in Worker : WorkerRight(u))' BY <1>18 DEF IInv, TypeOK,
       WorkerRight, Left, LastNotBehind, CoordinatorRight, FinishStep, Goto
  <2>6. QED BY <2>1, <2>2, <2>3, <2>4, <2>5 DEF IInv
<1>19. ASSUME NEW w \in Worker, Expire(w) PROVE IInv'
  <2>1. TypeOK' BY <1>19 DEF IInv, TypeOK, Expire, shared
  <2>2. LastNotBehind' BY <1>19 DEF IInv, LastNotBehind, Expire, shared
  <2>3. CountersRight' BY <1>19 DEF IInv, CountersRight, Counted, Alive,
       Expire, shared
  <2>4. CoordinatorRight' BY <1>19 DEF IInv, CoordinatorRight, Expire, shared
  <2>5. (\A u \in Worker : WorkerRight(u))' BY <1>19 DEF IInv, TypeOK,
       WorkerRight, Left, Expire, shared
  <2>6. QED BY <2>1, <2>2, <2>3, <2>4, <2>5 DEF IInv
<1>20. CASE UNCHANGED vars
  BY <1>20 DEF vars, IInv, TypeOK, LastNotBehind, CountersRight, Counted, Alive,
       CoordinatorRight, WorkerRight, Left
<1>21. QED
  BY <1>1, <1>2, <1>3, <1>4, <1>5, <1>6, <1>7, <1>8, <1>9, <1>10, <1>11,
       <1>12, <1>13, <1>14, <1>15, <1>16, <1>17, <1>18, <1>19, <1>20 DEF Next,
       Main, Thread, Finished

(* The inductive invariant holds in every reachable state.                 *)
THEOREM Invariance == Spec => []IInv
BY InitIInv, StepIInv, PTL DEF Spec

(* Type correctness: in particular step_ never passes last_step_'s initial *)
(* value and the counters stay natural numbers.                            *)
THEOREM TypeCorrect == Spec => []TypeOK
<1>1. IInv => TypeOK BY DEF IInv
<1>2. QED BY <1>1, Invariance, PTL

(* Between two steps, and after the last, no worker is inside f.           *)
THEOREM QuiescentBetweenSteps == Spec => []NobodyInsideBetweenSteps
<1>1. IInv => NobodyInsideBetweenSteps
  BY DEF IInv, TypeOK, NobodyInsideBetweenSteps, WorkerRight
<1>2. QED BY <1>1, Invariance, PTL

(* When DoStep has returned, every worker has run every step once.         *)
THEOREM StepsInLockstep == Spec => []EveryWorkerRanEveryStep
<1>1. IInv => EveryWorkerRanEveryStep
  BY DEF IInv, TypeOK, EveryWorkerRanEveryStep, WorkerRight, CoordinatorRight
<1>2. QED BY <1>1, Invariance, PTL

(* A worker leaves only after the step DoStep reports as the last.         *)
THEOREM LeavesWithTheLastStep == Spec => []NobodyLeavesEarly
<1>1. IInv => NobodyLeavesEarly
  BY DEF IInv, TypeOK, NobodyLeavesEarly, LastNotBehind, WorkerRight, Left,
         CoordinatorRight, MainPc
<1>2. QED BY <1>1, Invariance, PTL

(* step_finishes_ counts the workers that completed the current step.      *)
THEOREM CountsThisStep == Spec => []FinishesCountsThisStep
<1>1. IInv => FinishesCountsThisStep
  BY DEF IInv, CountersRight, Counted, FinishesCountsThisStep
<1>2. QED BY <1>1, Invariance, PTL

(* A step that has begun is never called off.                              *)
THEOREM LastKeepsUp == Spec => []LastNotBehind
<1>1. IInv => LastNotBehind BY DEF IInv
<1>2. QED BY <1>1, Invariance, PTL

(* An accepted proposal ends the run with the current step or the next.    *)
THEOREM FinalProposal == Spec => ProposalIsFinal
<1>1. IInv /\ [Next]_vars
        => [last' # last => last' < last /\ last' \in {step, step + 1}]_vars
  <2> SUFFICES ASSUME IInv, [Next]_vars, last' # last
               PROVE  last' < last /\ last' \in {step, step + 1}
    OBVIOUS
  <2>1. PICK w \in Worker : CasSucceeds(w)
    BY DEF Next, Main, Thread, Finished, vars, shared, DoStepReset,
           DoStepAdvance, DoStepAwait, DoStepReturn, Join, Add, Expire,
           EnterRunSteps, LeaveLoop, Exit, SpinOut, LoadStep, CheckDeadline,
           LoadLast, CasFails, CheckLast, ReturnF, FinishStep
  <2>2. QED BY <2>1 DEF IInv, TypeOK, WorkerRight, CasSucceeds, Goto
<1>2. QED BY <1>1, Invariance, PTL DEF Spec, ProposalIsFinal

(* Step by step the harness does what StepBarrier does: storing the new    *)
(* step number opens a round, the return of DoStep closes it, loading the  *)
(* number calls f, and the rest is invisible.                              *)
LEMMA StepSimulation == IInv /\ [Next]_vars => [Barrier!Next]_(Barrier!vars)
<1> SUFFICES ASSUME IInv, [Next]_vars
             PROVE  Barrier!Next \/ UNCHANGED Barrier!vars
  OBVIOUS
<1>1. CASE DoStepAdvance
  <2>1. Barrier!OpenRound
    BY <1>1 DEF IInv, TypeOK, DoStepAdvance, Barrier!OpenRound, Phase, Inside, Ran
  <2>2. QED BY <2>1 DEF Barrier!Next
<1>2. CASE DoStepReturn
  <2>1. Inside = {} /\ \A w \in Worker : Ran[w] = step
    BY <1>2 DEF IInv, TypeOK, WorkerRight, CoordinatorRight, DoStepReturn, Inside, Ran
  <2>2. Barrier!CloseRound
    BY <1>2, <2>1 DEF DoStepReturn, Barrier!CloseRound, Phase, Inside, Ran, shared
  <2>3. QED BY <2>2 DEF Barrier!Next
<1>3. ASSUME NEW w \in Worker, LoadStep(w)
      PROVE  Barrier!Next \/ UNCHANGED Barrier!vars
  <2>1. CASE step = cur[w]
    <3>1. mpc = "await" /\ w \notin Inside /\ Ran[w] < step
      BY <1>3, <2>1 DEF IInv, TypeOK, WorkerRight, LoadStep, Goto, Inside, Ran
    <3>2. Inside' = Inside \cup {w} /\ Ran' = Ran
      BY <1>3, <2>1 DEF IInv, TypeOK, LoadStep, Goto, Inside, Ran
    <3>3. Barrier!Call(w)
      BY <1>3, <3>1, <3>2 DEF LoadStep, Barrier!Call, Phase, shared
    <3>4. QED BY <3>3 DEF Barrier!Next
  <2>2. CASE step # cur[w]
    BY <1>3, <2>2 DEF IInv, TypeOK, LoadStep, Goto, shared, Barrier!vars, Phase,
                      Inside, Ran
  <2>3. QED BY <2>1, <2>2
<1>4. ASSUME NEW w \in Worker, ReturnF(w) PROVE Barrier!Return(w)
  <2>1. w \in Inside /\ Inside' = Inside \ {w}
    BY <1>4 DEF IInv, TypeOK, ReturnF, Goto, Inside
  <2>2. Ran' = [Ran EXCEPT ![w] = @ + 1]
    <3>1. Ran[w] = cur[w] - 1 /\ cur[w] \in Nat
      BY <1>4 DEF IInv, TypeOK, WorkerRight, ReturnF, Goto, Ran
    <3>2. Ran' = [u \in Worker |-> IF u = w THEN cur[w] ELSE Ran[u]]
      BY <1>4 DEF IInv, TypeOK, ReturnF, Goto, shared, Ran
    <3>3. Ran = [u \in Worker |-> Ran[u]] BY DEF Ran
    <3>4. QED BY <3>1, <3>2, <3>3
  <2>3. QED
    BY <1>4, <2>1, <2>2 DEF ReturnF, shared, Barrier!Return, Phase
<1>5. ASSUME NEW w \in Worker, FinishStep(w) PROVE UNCHANGED Barrier!vars
  BY <1>5 DEF IInv, TypeOK, WorkerRight, FinishStep, Goto, Barrier!vars, Phase,
              Inside, Ran
<1>6. ASSUME NEW w \in Worker, EnterRunSteps(w) PROVE UNCHANGED Barrier!vars
  BY <1>6 DEF IInv, TypeOK, WorkerRight, EnterRunSteps, Goto, shared,
              Barrier!vars, Phase, Inside, Ran
<1>7. CASE DoStepReset \/ DoStepAwait \/ Join \/ UNCHANGED vars
  BY <1>7 DEF DoStepReset, DoStepAwait, Join, vars, shared, Barrier!vars, Phase,
              Inside, Ran
<1>8. ASSUME NEW w \in Worker,
             Add(w) \/ LeaveLoop(w) \/ Exit(w) \/ SpinOut(w) \/ CheckDeadline(w)
               \/ LoadLast(w) \/ CasSucceeds(w) \/ CasFails(w) \/ CheckLast(w)
               \/ Expire(w)
      PROVE  UNCHANGED Barrier!vars
  BY <1>8 DEF IInv, TypeOK, Add, LeaveLoop, Exit, SpinOut, CheckDeadline, LoadLast,
              CasSucceeds, CasFails, CheckLast, Expire, Goto, shared, Barrier!vars,
              Phase, Inside, Ran
<1>9. QED
  BY <1>1, <1>2, <1>3, <1>4, <1>5, <1>6, <1>7, <1>8
     DEF Next, Main, Thread, Finished, Barrier!Next

(* The harness implements the rounds that the tests rely on.               *)
THEOREM Refinement == Spec => ImplementsStepBarrier
<1>1. Init => Barrier!Init
  BY DEF Init, Barrier!Init, Phase, Inside, Ran
<1>2. QED
  BY <1>1, StepSimulation, Invariance, PTL
     DEF Spec, ImplementsStepBarrier, Barrier!Spec
=============================================================================
