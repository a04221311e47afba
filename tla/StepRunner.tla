----------------------------- MODULE StepRunner -----------------------------
(***************************************************************************)
(* StepThreadRunner and the ThreadRunner it is built on (common/catch/     *)
(* utils/include/step-thread-runner.hpp, thread-runner.hpp): the harness   *)
(* that drives every "do this on all threads at once, then look" test of   *)
(* the threading tasks.  One coordinator thread calls Add for each worker, *)
(* DoStep until it returns false, and Join; each worker runs RunSteps.     *)
(*                                                                         *)
(* Every atomic operation of the source is one action.  step_ is written   *)
(* by the coordinator only, so its load and store in DoStep are one        *)
(* action.  A spurious failure of compare_exchange_weak reloads the value  *)
(* it already holds, which is a stuttering step.                           *)
(***************************************************************************)
EXTENDS Naturals, FiniteSets

CONSTANTS
  Worker,       \* the threads given to Add
  MaxStep,      \* bound on the number of DoStep calls
  Needs,        \* Needs[w]: the workers whose f of the same step f of w awaits
  PromptStart   \* a worker always reaches its first should_run() in time

ASSUME WorkerAssumption == IsFiniteSet(Worker) /\ Worker # {}
ASSUME MaxStepAssumption == MaxStep \in Nat \ {0}
ASSUME NeedsAssumption == Needs \in [Worker -> SUBSET Worker]
ASSUME PromptStartAssumption == PromptStart \in BOOLEAN

VARIABLES
  step,      \* step_
  finishes,  \* step_finishes_
  last,      \* last_step_
  running,   \* running_
  expired,   \* expired[w]: should_run() of w answers false from now on
  pc,        \* where each worker is
  cur,       \* cur_step of each worker, 0 before RunSteps is entered
  seen,      \* cur of ProposeLastStep
  mpc        \* where the coordinator is

shared == <<step, finishes, last, running>>
vars == <<step, finishes, last, running, expired, pc, cur, seen, mpc>>

(* Step numbers stay below MaxStep + 1, which stands for UINT64_MAX.       *)
kDefaultLastStep == MaxStep + 1

WorkerPc == {"absent", "loop", "wait", "check", "propose", "cas", "last",
             "run", "fin", "spin", "exit", "done"}
MainPc == {"idle", "advance", "await", "return", "over", "joined"}

TotalWorkers == Cardinality({w \in Worker : pc[w] # "absent"})

Init ==
  /\ step = 0
  /\ finishes = 0
  /\ last = kDefaultLastStep
  /\ running = 0
  /\ expired = [w \in Worker |-> FALSE]
  /\ pc = [w \in Worker |-> "absent"]
  /\ cur = [w \in Worker |-> 0]
  /\ seen = [w \in Worker |-> 0]
  /\ mpc = "idle"

-----------------------------------------------------------------------------
(* The coordinator.                                                        *)

(* Add: the tests add every worker before the first DoStep.                *)
Add(w) ==
  /\ mpc = "idle" /\ step = 0 /\ pc[w] = "absent"
  /\ running' = running + 1
  /\ pc' = [pc EXCEPT ![w] = "loop"]
  /\ UNCHANGED <<step, finishes, last, expired, cur, seen, mpc>>

(* Whether this call of DoStep is explored: the last one within the bound  *)
(* waits until a worker has seen its deadline pass.                        *)
WithinBound == step + 1 < MaxStep \/ last <= step + 1

(* DoStep: step_finishes_.store(0)                                         *)
DoStepReset ==
  /\ mpc = "idle" /\ \A w \in Worker : pc[w] # "absent"
  /\ WithinBound
  /\ finishes' = 0
  /\ mpc' = "advance"
  /\ UNCHANGED <<step, last, running, expired, pc, cur, seen>>

(* DoStep: step_.store(step_.load() + 1)                                   *)
DoStepAdvance ==
  /\ mpc = "advance"
  /\ step' = step + 1
  /\ mpc' = "await"
  /\ UNCHANGED <<finishes, last, running, expired, pc, cur, seen>>

(* Fault: one worker fewer is waited for.                                  *)
AwaitTooFew ==
  /\ mpc = "await" /\ finishes >= TotalWorkers - 1
  /\ mpc' = "return"
  /\ UNCHANGED <<shared, expired, pc, cur, seen>>

(* DoStep: the spin on step_finishes_ ends.                                *)
DoStepAwait ==
  /\ mpc = "await" /\ finishes = TotalWorkers
  /\ mpc' = "return"
  /\ UNCHANGED <<shared, expired, pc, cur, seen>>

(* DoStep: return step_.load() < last_step_.load(); the tests call DoStep  *)
(* again after true and never after false.                                 *)
DoStepReturn ==
  /\ mpc = "return"
  /\ mpc' = IF step < last THEN "idle" ELSE "over"
  /\ UNCHANGED <<shared, expired, pc, cur, seen>>

(* Join, or the destructor of the jthreads.                                *)
Join ==
  /\ mpc = "over" /\ \A w \in Worker : pc[w] = "done"
  /\ mpc' = "joined"
  /\ UNCHANGED <<shared, expired, pc, cur, seen>>

-----------------------------------------------------------------------------
(* The workers.                                                            *)

Goto(w, from, to) == pc[w] = from /\ pc' = [pc EXCEPT ![w] = to]

(* should_run() of w starts to answer false.                               *)
Expire(w) ==
  /\ pc[w] # "absent" /\ ~expired[w]
  /\ PromptStart => cur[w] # 0
  /\ expired' = [expired EXCEPT ![w] = TRUE]
  /\ UNCHANGED <<shared, pc, cur, seen, mpc>>

(* ThreadRunner::Run: while (should_run()) f(should_run); RunSteps starts  *)
(* with cur_step = 1.                                                      *)
EnterRunSteps(w) ==
  /\ ~expired[w] /\ Goto(w, "loop", "wait")
  /\ cur' = [cur EXCEPT ![w] = 1]
  /\ UNCHANGED <<shared, expired, seen, mpc>>

LeaveLoop(w) ==
  /\ expired[w] /\ Goto(w, "loop", "exit")
  /\ UNCHANGED <<shared, expired, cur, seen, mpc>>

(* ThreadRunner::Run: running_.fetch_sub(1), the thread ends.              *)
Exit(w) ==
  /\ Goto(w, "exit", "done")
  /\ running' = running - 1
  /\ UNCHANGED <<step, finishes, last, expired, cur, seen, mpc>>

(* RunSteps: while (step_.load() != cur_step)                              *)
LoadStep(w) ==
  /\ Goto(w, "wait", IF step = cur[w] THEN "run" ELSE "check")
  /\ UNCHANGED <<shared, expired, cur, seen, mpc>>

(* RunSteps: if (!should_run())                                            *)
CheckDeadline(w) ==
  /\ Goto(w, "check", IF expired[w] THEN "propose" ELSE "last")
  /\ UNCHANGED <<shared, expired, cur, seen, mpc>>

(* ProposeLastStep: cur = last_step_.load(); while (cur > step)            *)
LoadLast(w) ==
  /\ Goto(w, "propose", IF last > cur[w] THEN "cas" ELSE "last")
  /\ seen' = [seen EXCEPT ![w] = last]
  /\ UNCHANGED <<shared, expired, cur, mpc>>

(* Fault: a plain store where the code compares.                           *)
PlainStore(w) ==
  /\ Goto(w, "cas", "last")
  /\ last' = cur[w]
  /\ UNCHANGED <<step, finishes, running, expired, cur, seen, mpc>>

(* ProposeLastStep: compare_exchange_weak succeeds.                        *)
CasSucceeds(w) ==
  /\ last = seen[w] /\ Goto(w, "cas", "last")
  /\ last' = cur[w]
  /\ UNCHANGED <<step, finishes, running, expired, cur, seen, mpc>>

(* ProposeLastStep: it fails, reloads, and the loop condition is checked.  *)
CasFails(w) ==
  /\ last # seen[w] /\ Goto(w, "cas", IF last > cur[w] THEN "cas" ELSE "last")
  /\ seen' = [seen EXCEPT ![w] = last]
  /\ UNCHANGED <<shared, expired, cur, mpc>>

(* Fault: a worker leaves before the last step instead of after it.        *)
LeaveBeforeLast(w) ==
  /\ Goto(w, "last", IF last <= cur[w] THEN "spin" ELSE "wait")
  /\ UNCHANGED <<shared, expired, cur, seen, mpc>>

(* RunSteps: if (last_step_.load() < cur_step) leave, else back off.       *)
CheckLast(w) ==
  /\ Goto(w, "last", IF last < cur[w] THEN "spin" ELSE "wait")
  /\ UNCHANGED <<shared, expired, cur, seen, mpc>>

(* f of w in step k has been called.                                       *)
Started(w, k) == cur[w] > k \/ (cur[w] = k /\ pc[w] \in {"run", "fin"})

(* f() returns; it may have had to wait for f of other workers, as Pop     *)
(* waits for Push.                                                         *)
ReturnF(w) ==
  /\ \A u \in Needs[w] : Started(u, cur[w])
  /\ Goto(w, "run", "fin")
  /\ UNCHANGED <<shared, expired, cur, seen, mpc>>

(* Fault: cur_step is not advanced.                                        *)
SameStepAgain(w) ==
  /\ Goto(w, "fin", "wait")
  /\ finishes' = finishes + 1
  /\ UNCHANGED <<step, last, running, expired, cur, seen, mpc>>

(* RunSteps: step_finishes_.fetch_add(1); ++cur_step                       *)
FinishStep(w) ==
  /\ Goto(w, "fin", "wait")
  /\ finishes' = finishes + 1
  /\ cur' = [cur EXCEPT ![w] = @ + 1]
  /\ UNCHANGED <<step, last, running, expired, seen, mpc>>

(* Add's lambda: while (should_run()) Backoff()                            *)
SpinOut(w) ==
  /\ expired[w] /\ Goto(w, "spin", "loop")
  /\ UNCHANGED <<shared, expired, cur, seen, mpc>>

-----------------------------------------------------------------------------
Main == DoStepReset \/ DoStepAdvance \/ DoStepAwait \/ DoStepReturn \/ Join

Thread(w) ==
  \/ EnterRunSteps(w) \/ LeaveLoop(w) \/ Exit(w) \/ SpinOut(w)
  \/ LoadStep(w) \/ CheckDeadline(w) \/ LoadLast(w)
  \/ CasSucceeds(w) \/ CasFails(w) \/ CheckLast(w)
  \/ ReturnF(w) \/ FinishStep(w)

(* Everything is over: the program may stop.                               *)
Finished == mpc = "joined" /\ UNCHANGED vars

Next ==
  \/ Main
  \/ \E w \in Worker : Add(w) \/ Thread(w) \/ Expire(w)
  \/ Finished

Spec == Init /\ [][Next]_vars

(* Every thread is scheduled again and again, and time passes.             *)
Fairness ==
  /\ WF_vars(Main)
  /\ \A w \in Worker : WF_vars(Add(w)) /\ WF_vars(Thread(w)) /\ WF_vars(Expire(w))

FairSpec == Spec /\ Fairness

-----------------------------------------------------------------------------
TypeOK ==
  /\ step \in 0 .. MaxStep
  /\ finishes \in Nat
  /\ last \in 1 .. kDefaultLastStep
  /\ running \in Nat
  /\ expired \in [Worker -> BOOLEAN]
  /\ pc \in [Worker -> WorkerPc]
  /\ cur \in [Worker -> 0 .. MaxStep + 1]
  /\ seen \in [Worker -> 0 .. kDefaultLastStep]
  /\ mpc \in MainPc

(* While DoStep is not running, no worker is inside f: the tests re-create *)
(* the queue, the contract or the message between two steps without any    *)
(* synchronisation of their own (queue/test.cpp, limbo/test.cpp).          *)
NobodyInsideBetweenSteps ==
  mpc \in {"idle", "advance", "return", "over", "joined"}
    => \A w \in Worker : pc[w] # "run"

(* Whenever DoStep has returned, every worker has run f exactly once per   *)
(* call: no worker is skipped and none runs a step twice, whichever worker *)
(* sees its deadline first.                                                *)
EveryWorkerRanEveryStep ==
  mpc \in {"return", "over"} \/ (mpc = "idle" /\ step > 0)
    => \A w \in Worker : cur[w] = step + 1

(* A worker gives up only after the step that DoStep reported as the last  *)
(* one: the answer false of DoStep and the decision of each worker to stop *)
(* are taken at different moments, from different loads of last_step_.     *)
NobodyLeavesEarly ==
  \A w \in Worker :
    pc[w] \in {"spin", "exit", "done"} /\ cur[w] # 0
      => /\ step = last
         /\ mpc \in {"await", "return", "over", "joined"}
         /\ cur[w] = step + 1

(* While a step is in progress step_finishes_ is the number of workers     *)
(* that completed it, so the coordinator can neither miss a worker nor     *)
(* count one left over from the previous step.                             *)
FinishesCountsThisStep ==
  mpc = "await"
    => finishes = Cardinality({w \in Worker : cur[w] = step + 1})

(* last_step_ never falls behind the step being run, so a step that has    *)
(* begun is never called off half-way.                                     *)
LastNotBehind == step <= last

(* Once a worker's proposal has been accepted the run ends with the step   *)
(* in progress or the next one, and no later proposal revokes it.          *)
ProposalIsFinal ==
  [][last' # last => last' < last /\ last' \in {step, step + 1}]_vars

(* Every DoStep returns: nobody it waits for is gone or waits for somebody *)
(* who is gone (queue/test.cpp:61, while (r.DoStep())).                    *)
DoStepReturns == mpc = "await" ~> mpc \in {"idle", "over"}

(* The test ends: some DoStep returns false and all the threads are joined.*)
TestEnds == <>(mpc = "joined" /\ running = 0)
-----------------------------------------------------------------------------
(* The rounds of StepBarrier that a run of the harness goes through.       *)
Phase ==
  CASE mpc \in {"await", "return"} -> "running"
    [] mpc \in {"idle", "advance"} -> "between"
    [] mpc \in {"over", "joined"}  -> "over"

Inside == {w \in Worker : pc[w] = "run"}

Ran == [w \in Worker |-> IF cur[w] = 0 \/ pc[w] = "fin" THEN cur[w] ELSE cur[w] - 1]

Barrier == INSTANCE StepBarrier
             WITH round <- step, phase <- Phase, inside <- Inside, ran <- Ran

(* The harness implements StepBarrier: what the tests see between two      *)
(* calls of DoStep is a sequence of rounds that everybody ran once.        *)
ImplementsStepBarrier == Barrier!Spec

-----------------------------------------------------------------------------
(* The inductive invariant behind the safety properties.  Counted is what  *)
(* step_finishes_ must be, Left who has decided to stop.                   *)
Counted == {w \in Worker : cur[w] = step + 1}

Alive == {w \in Worker : pc[w] \notin {"absent", "done"}}

Left(w) == pc[w] = "spin" \/ (pc[w] \in {"loop", "exit", "done"} /\ cur[w] # 0)

CountersRight ==
  /\ mpc = "advance" => finishes = 0
  /\ mpc = "await" => finishes = Cardinality(Counted)
  /\ running = Cardinality(Alive)

CoordinatorRight ==
  /\ mpc # "idle" \/ step > 0 => \A w \in Worker : pc[w] # "absent"
  /\ mpc \in {"idle", "advance"} => step < last
  /\ mpc = "advance" => step < MaxStep /\ (step + 1 = MaxStep => last <= MaxStep)
  /\ step = MaxStep => last <= MaxStep
  /\ mpc \in {"over", "joined"} => last = step
  /\ mpc \in {"await", "return", "over", "joined"} => step > 0

WorkerRight(w) ==
  /\ cur[w] # 0 => cur[w] \in {step, step + 1}
  /\ mpc # "await" => cur[w] = step + 1 \/ (cur[w] = 0 /\ step = 0)
  /\ cur[w] = 0 => step = 0 \/ (step = 1 /\ mpc = "await")
  /\ (cur[w] = 0) => pc[w] \in {"absent", "loop", "exit", "done"}
  /\ pc[w] = "absent" => cur[w] = 0
  /\ pc[w] \in {"run", "fin"} => cur[w] = step
  /\ pc[w] = "cas" => seen[w] > cur[w]
  /\ pc[w] = "loop" /\ cur[w] # 0 => expired[w]
  /\ Left(w) => last < cur[w]

IInv ==
  /\ TypeOK
  /\ LastNotBehind
  /\ CountersRight
  /\ CoordinatorRight
  /\ \A w \in Worker : WorkerRight(w)
=============================================================================
