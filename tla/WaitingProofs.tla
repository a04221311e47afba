--------------------------- MODULE WaitingProofs ---------------------------
(***************************************************************************)
(* Proofs about programs whose parts wait for each other.  Philosophers,   *)
(* for a table of any size: the positions of the philosophers tell who     *)
(* holds each mutex, and so neighbours never eat together.  TestPy, for    *)
(* any numbers of tests, rounds and attempts and whatever the solution     *)
(* forks: what is passed was earned, and leaves no process behind.         *)
(* ChatSession, for any connections and files: barriers are kept and the   *)
(* verdict is deserved.                                                    *)
(***************************************************************************)
EXTENDS MCWaiting, Sequences, FiniteSetTheorems, TLAPS

IInv == TypeOK /\ ForksMatchPositions

(* The right fork of a philosopher is the left fork of exactly one other.  *)
LEMMA RightForkType ==
  ASSUME NEW i \in Seats
  PROVE  /\ RightFork(i) \in Seats /\ RightFork(i) # i
         /\ \A j \in Seats : RightFork(j) = RightFork(i) => j = i
BY NAssumption DEF Seats, RightFork

LEMMA InitIInv == Init => IInv
<1> SUFFICES ASSUME Init PROVE IInv OBVIOUS
<1>1. TypeOK BY DEF Init, TypeOK
<1>2. ForksMatchPositions
  BY GuestsAssumption, NobodyAssumption, RightForkType
     DEF Init, ForksMatchPositions, HoldsLeft, HoldsRight, LeftFork
<1>3. QED BY <1>1, <1>2 DEF IInv

LEMMA StepIInv == IInv /\ [Next]_vars => IInv'
<1> SUFFICES ASSUME IInv, [Next]_vars PROVE IInv' OBVIOUS
<1> USE GuestsAssumption, NobodyAssumption
<1>1. ASSUME NEW i \in Guests, TakeLeft(i) PROVE IInv'
  <2>1. TypeOK' BY <1>1 DEF IInv, TypeOK, TakeLeft, Goto, Lock
  <2>2. forks' = [forks EXCEPT ![i] = i] /\ forks[i] = Nobody
    BY <1>1 DEF TakeLeft, Lock, LeftFork
  <2>3. pc[i] = "hungry" /\ pc' = [pc EXCEPT ![i] = "waiting"]
    BY <1>1 DEF TakeLeft, Goto
  <2>4. ForksMatchPositions'
    BY <2>2, <2>3, RightForkType
       DEF IInv, TypeOK, ForksMatchPositions, HoldsLeft, HoldsRight, LeftFork
  <2>5. QED BY <2>1, <2>4 DEF IInv
<1>2. ASSUME NEW i \in Guests, TakeRight(i) PROVE IInv'
  <2>1. TypeOK' BY <1>2 DEF IInv, TypeOK, TakeRight, Goto, Lock
  <2>2. forks' = [forks EXCEPT ![RightFork(i)] = i] /\ forks[RightFork(i)] = Nobody
    BY <1>2 DEF TakeRight, Lock
  <2>3. pc[i] = "waiting" /\ pc' = [pc EXCEPT ![i] = "eating"]
    BY <1>2 DEF TakeRight, Goto
  <2>4. ForksMatchPositions'
    BY <2>2, <2>3, RightForkType
       DEF IInv, TypeOK, ForksMatchPositions, HoldsLeft, HoldsRight, LeftFork
  <2>5. QED BY <2>1, <2>4 DEF IInv
<1>3. ASSUME NEW i \in Guests, PutLeft(i) PROVE IInv'
  <2>1. TypeOK' BY <1>3 DEF IInv, TypeOK, PutLeft, Goto, Unlock
  <2>2. forks' = [forks EXCEPT ![i] = Nobody]
    BY <1>3 DEF PutLeft, Unlock, LeftFork
  <2>3. pc[i] = "eating" /\ pc' = [pc EXCEPT ![i] = "full"]
    BY <1>3 DEF PutLeft, Goto
  <2>4. ForksMatchPositions'
    BY <2>2, <2>3, RightForkType
       DEF IInv, TypeOK, ForksMatchPositions, HoldsLeft, HoldsRight, LeftFork
  <2>5. QED BY <2>1, <2>4 DEF IInv
<1>4. ASSUME NEW i \in Guests, PutRight(i) PROVE IInv'
  <2>1. TypeOK' BY <1>4 DEF IInv, TypeOK, PutRight, Goto, Unlock
  <2>2. forks' = [forks EXCEPT ![RightFork(i)] = Nobody]
    BY <1>4 DEF PutRight, Unlock
  <2>3. pc[i] = "full" /\ pc' = [pc EXCEPT ![i] = "think"]
    BY <1>4 DEF PutRight, Goto
  <2>4. ForksMatchPositions'
    BY <2>2, <2>3, RightForkType
       DEF IInv, TypeOK, ForksMatchPositions, HoldsLeft, HoldsRight, LeftFork
  <2>5. QED BY <2>1, <2>4 DEF IInv
<1>5. ASSUME NEW i \in Guests, GetHungry(i) \/ Leave(i) \/ Expire(i) PROVE IInv'
  <2>1. TypeOK'
    <3>1. CASE GetHungry(i) BY <3>1 DEF IInv, TypeOK, GetHungry, Goto
    <3>2. CASE Leave(i) BY <3>2 DEF IInv, TypeOK, Leave, Goto
    <3>3. CASE Expire(i) BY <3>3 DEF IInv, TypeOK, Expire
    <3>4. QED BY <1>5, <3>1, <3>2, <3>3
  <2>2. ForksMatchPositions'
    BY <1>5 DEF IInv, TypeOK, ForksMatchPositions, HoldsLeft, HoldsRight,
                GetHungry, Leave, Expire, Goto
  <2>3. QED BY <2>1, <2>2 DEF IInv
<1>6. CASE Join \/ UNCHANGED vars
  <2>1. TypeOK'
    <3>1. CASE Join BY <3>1 DEF Join, IInv, TypeOK
    <3>2. CASE UNCHANGED vars BY <3>2 DEF vars, IInv, TypeOK
    <3>3. QED BY <1>6, <3>1, <3>2
  <2>2. ForksMatchPositions'
    BY <1>6 DEF Join, vars, IInv, ForksMatchPositions, HoldsLeft, HoldsRight
  <2>3. QED BY <2>1, <2>2 DEF IInv
<1>7. QED
  BY <1>1, <1>2, <1>3, <1>4, <1>5, <1>6 DEF Next, Philosopher, Done

(* Types, and that Join returns only when every guest has left.            *)
THEOREM TypeCorrect == Spec => []TypeOK
<1>1. IInv => TypeOK BY DEF IInv
<1>2. QED BY <1>1, InitIInv, StepIInv, PTL DEF Spec

(* The mutexes are owned as the program counters say.                      *)
THEOREM ForksAreHeldByTheirEaters == Spec => []ForksMatchPositions
<1>1. IInv => ForksMatchPositions BY DEF IInv
<1>2. QED BY <1>1, InitIInv, StepIInv, PTL DEF Spec

(* Mutual exclusion of neighbours, for every number of seats and guests.   *)
THEOREM Exclusion == Spec => []NeighboursNeverEatTogether
<1>1. IInv => NeighboursNeverEatTogether
  BY GuestsAssumption, RightForkType
     DEF IInv, ForksMatchPositions, NeighboursNeverEatTogether, Neighbours, NextTo,
         HoldsLeft, HoldsRight, LeftFork, RightFork, Seats
<1>2. QED BY <1>1, InitIInv, StepIInv, PTL DEF Spec

-----------------------------------------------------------------------------
(* TestPy.  The processes form a tree under the runner: a process has a    *)
(* living parent, and no set of processes has all its parents in itself.   *)
Somebody == \E x \in R!All : state[x] # "none"

ProcessesRight ==
  /\ parent["solution"] = "runner"
  /\ rpc # "wait" => state["solution"] = "none"
  /\ \A x \in R!All : state[x] # "none" /\ parent[x] # "runner" => R!Alive(parent[x])
  /\ \A X \in SUBSET R!All :
       X # {} /\ (\A x \in X : state[x] # "none") => \E x \in X : parent[x] \notin X

(* What each check has established, as long as nobody is left to undo it.  *)
ChecksRight ==
  /\ at.test = 0 => rpc = "round"
  /\ at.round = 1 /\ rpc = "round" => ~Somebody /\ at.test = 0 /\ \A t \in R!Test : ans[t] = "right"
  /\ at.round = 1 /\ rpc # "round" => \A t \in R!Test : sums[t] = "right"
  /\ checker = "cmp" /\ ~lenient =>
       /\ at.round > 1 \/ rpc = "all passed" => earned = R!Test
       /\ at.round = 1 => 1 .. at.test - 1 \subseteq earned
       /\ rpc \in {"output", "checksum", "time", "orphans"} => ok
       /\ at.round = 1 /\ rpc = "checksum" => Somebody \/ res = ans[at.test]
       /\ at.round = 1 /\ rpc \in {"time", "orphans"} => Somebody \/ res = "right"

RunnerInv == R!TypeOK /\ ProcessesRight /\ ChecksRight /\ R!NobodyLeft

LEMMA RunnerConstants ==
  /\ Tests \in Nat /\ Rounds \in Nat /\ Attempts \in Nat /\ Tests > 0 /\ Rounds > 0 /\ Attempts > 0
  /\ "solution" \in R!All /\ "runner" \notin R!All /\ R!Test = 1 .. Tests
<1>1. "solution" \in R!All /\ "runner" \notin R!All
  BY RunnerAssumption DEF R!NamesAssumption, R!All
<1>2. QED  BY <1>1, RunnerAssumption DEF R!BoundsAssumption, R!Test

LEMMA InitRunnerInv == R!Init => RunnerInv
<1> SUFFICES ASSUME R!Init PROVE RunnerInv  OBVIOUS
<1> USE RunnerConstants
<1>1. /\ at = [round |-> 1, test |-> 0, attempt |-> 1] /\ rpc = "round"
      /\ ans = [t \in R!Test |-> "right"] /\ sums = ans
      /\ cwd = "problem" /\ ok = FALSE /\ res = "none" /\ iok = FALSE
      /\ state = [x \in R!All |-> "none"] /\ parent = [x \in R!All |-> "runner"] /\ earned = {}
  BY DEF R!Init, R!Start
<1>2. R!TypeOK
  <2>1. at \in [round : 1 .. Rounds, test : 0 .. Tests, attempt : 1 .. Attempts]  BY <1>1
  <2>2. ans \in [R!Test -> {"right", "other"}] /\ sums \in [R!Test -> {"right", "other"}]  BY <1>1
  <2>3. /\ state \in [R!All -> {"none", "alive", "quiet", "zombie"}]
        /\ parent \in [R!All -> R!All \cup {"runner"}]
    BY <1>1
  <2>4. QED  BY <1>1, <2>1, <2>2, <2>3 DEF R!TypeOK
<1>3. ProcessesRight  BY <1>1 DEF ProcessesRight
<1>4. ChecksRight  BY <1>1 DEF ChecksRight, Somebody
<1>5. R!NobodyLeft  BY <1>1 DEF R!NobodyLeft
<1>6. QED  BY <1>2, <1>3, <1>4, <1>5 DEF RunnerInv

(* When the runner has no child, there is no process at all.               *)
LEMMA FoundAll ==
  ASSUME R!TypeOK, ProcessesRight, R!Found = {}
  PROVE  ~Somebody
<1> SUFFICES ASSUME Somebody PROVE FALSE  OBVIOUS
<1> DEFINE X == {x \in R!All : state[x] # "none"}
<1>1. X # {} /\ X \in SUBSET R!All /\ \A x \in X : state[x] # "none"  BY DEF Somebody
<1>2. PICK x \in X : parent[x] \notin X  BY <1>1 DEF ProcessesRight
<1>3. parent[x] # "runner"  BY <1>2 DEF R!Found, R!Children
<1>4. R!Alive(parent[x]) /\ parent[x] \in R!All  BY <1>2, <1>3 DEF ProcessesRight, R!TypeOK
<1>5. QED  BY <1>2, <1>4 DEF R!Alive

(* Whatever a process does, it is still there, and the runner is where it  *)
(* was.                                                                    *)
LEMMA ProcessKeeps ==
  ASSUME RunnerInv, NEW x \in R!All, R!Alive(x), state'[x] # "none",
         UNCHANGED <<R!config, at, rpc, sums, cwd, iok, earned>>,
         R!TypeOK', ProcessesRight', x # "solution" => UNCHANGED <<ok, res>>
  PROVE  RunnerInv'
<1>1. Somebody /\ Somebody'
  <2>1. state[x] # "none"  BY DEF R!Alive
  <2>2. QED  BY <2>1 DEF Somebody
<1>2. checker' = checker /\ interactor' = interactor /\ lenient' = lenient /\ pipeline' = pipeline
  BY DEF R!config
<1>3. rpc # "wait" => UNCHANGED <<ok, res>>
  BY DEF RunnerInv, ProcessesRight, R!Alive
<1>4. ChecksRight'
  <2>1. ~(at.round = 1 /\ rpc = "round")  BY <1>1 DEF RunnerInv, ChecksRight
  <2>2. QED  BY <1>1, <1>2, <1>3, <2>1 DEF RunnerInv, ChecksRight
<1>5. R!NobodyLeft'
  <2>1. ~R!Moved  BY <1>1 DEF RunnerInv, R!NobodyLeft, Somebody
  <2>2. ~R!Moved'  BY <2>1 DEF R!Moved
  <2>3. QED  BY <2>2 DEF R!NobodyLeft
<1>6. QED  BY <1>4, <1>5 DEF RunnerInv

LEMMA ProcessSteps ==
  ASSUME RunnerInv, NEW x \in R!All,
         \/ R!Exit(x) \/ R!CloseOutput(x)
         \/ \E y \in R!All : R!Fork(x, y) \/ R!Reap(x, y)
         \/ \E t \in R!Test : R!Scribble(x, t)
  PROVE  RunnerInv'
<1> USE RunnerConstants
<1>0. R!TypeOK /\ ProcessesRight  BY DEF RunnerInv
<1>1. /\ state \in [R!All -> {"none", "alive", "quiet", "zombie"}]
      /\ parent \in [R!All -> R!All \cup {"runner"}]
  BY <1>0 DEF R!TypeOK
<1>2. CASE R!Exit(x)
  <2>1. /\ R!Alive(x) /\ state' = [state EXCEPT ![x] = "zombie"]
        /\ parent' = [y \in R!All |-> IF parent[y] = x THEN "runner" ELSE parent[y]]
        /\ UNCHANGED <<R!config, at, rpc, sums, ans, cwd, iok, earned>>
        /\ x # "solution" => UNCHANGED <<ok, res>>
    BY <1>2 DEF R!Exit
  <2>2. ok' \in BOOLEAN /\ res' \in {"right", "other", "none"}
    BY <1>0, <1>2 DEF R!Exit, R!TypeOK
  <2>3. R!TypeOK'  BY <1>0, <2>1, <2>2 DEF R!TypeOK
  <2>4. ProcessesRight'
    <3>1. parent'["solution"] = "runner"  BY <1>0, <2>1 DEF ProcessesRight
    <3>2. rpc' # "wait" => state'["solution"] = "none"  BY <1>0, <1>1, <2>1 DEF ProcessesRight, R!Alive
    <3>3. ASSUME NEW y \in R!All, state'[y] # "none", parent'[y] # "runner"
          PROVE  state'[parent'[y]] \in {"alive", "quiet"}
      <4>1. parent[y] # x /\ parent'[y] = parent[y] /\ state[y] # "none"  BY <1>1, <2>1, <3>3 DEF R!Alive
      <4>2. R!Alive(parent[y]) /\ parent[y] \in R!All  BY <1>0, <1>1, <3>3, <4>1 DEF ProcessesRight
      <4>3. state'[parent[y]] = state[parent[y]]  BY <1>1, <2>1, <4>1, <4>2
      <4>4. QED  BY <4>1, <4>2, <4>3 DEF R!Alive
    <3>4. ASSUME NEW X \in SUBSET R!All, X # {}, \A y \in X : state'[y] # "none"
          PROVE  \E y \in X : parent'[y] \notin X
      <4>1. \A y \in X : state[y] # "none"  BY <1>1, <2>1, <3>4 DEF R!Alive
      <4>2. PICK y \in X : parent[y] \notin X  BY <1>0, <3>4, <4>1 DEF ProcessesRight
      <4>3. parent'[y] \notin X  BY <2>1, <4>2
      <4>4. QED  BY <4>3
    <3>5. QED  BY <3>1, <3>2, <3>3, <3>4 DEF ProcessesRight, R!Alive
  <2>5. state'[x] # "none"  BY <1>1, <2>1
  <2>6. QED  BY <2>1, <2>3, <2>4, <2>5, ProcessKeeps
<1>3. CASE R!CloseOutput(x)
  <2>1. /\ state[x] = "alive" /\ state' = [state EXCEPT ![x] = "quiet"]
        /\ UNCHANGED <<R!config, at, rpc, sums, ans, cwd, ok, res, iok, parent, earned>>
    BY <1>3 DEF R!CloseOutput, R!outcome
  <2>2. R!TypeOK'  BY <1>0, <2>1 DEF R!TypeOK
  <2>3. \A y \in R!All : /\ state'[y] # "none" <=> state[y] # "none"
                        /\ R!Alive(y) => R!Alive(y)'
    BY <1>1, <2>1 DEF R!Alive
  <2>4. ProcessesRight'
    <3>1. /\ parent'["solution"] = "runner" /\ (rpc' # "wait" => state'["solution"] = "none")
      BY <1>0, <1>1, <2>1, <2>3 DEF ProcessesRight
    <3>3. ASSUME NEW y \in R!All, state'[y] # "none", parent'[y] # "runner"
          PROVE  state'[parent'[y]] \in {"alive", "quiet"}
      <4>1. PICK z : z = parent[y]  OBVIOUS
      <4>2. z \in R!All /\ R!Alive(z)  BY <1>0, <1>1, <2>1, <2>3, <3>3, <4>1 DEF ProcessesRight
      <4>3. state'[z] \in {"alive", "quiet"}  BY <1>1, <2>1, <4>2 DEF R!Alive
      <4>4. parent'[y] = z  BY <2>1, <4>1
      <4>5. QED  BY <4>3, <4>4 DEF R!Alive
    <3>4. ASSUME NEW X \in SUBSET R!All, X # {}, \A y \in X : state'[y] # "none"
          PROVE  \E y \in X : parent'[y] \notin X
      BY <1>0, <2>1, <2>3, <3>4 DEF ProcessesRight
    <3>5. QED  BY <3>1, <3>3, <3>4 DEF ProcessesRight, R!Alive
  <2>5. R!Alive(x) /\ state'[x] # "none"  BY <1>1, <2>1 DEF R!Alive
  <2>6. QED  BY <2>1, <2>2, <2>4, <2>5, ProcessKeeps
<1>4. ASSUME NEW y \in R!All, R!Fork(x, y) PROVE RunnerInv'
  <2>1. /\ R!Alive(x) /\ y # "solution" /\ state[y] = "none" /\ x # y
        /\ state' = [state EXCEPT ![y] = state[x]] /\ parent' = [parent EXCEPT ![y] = x]
        /\ UNCHANGED <<R!config, at, rpc, sums, ans, cwd, ok, res, iok, earned>>
    BY <1>4 DEF R!Fork, R!outcome, R!Alive
  <2>2. R!TypeOK'  BY <1>0, <1>1, <2>1 DEF R!TypeOK
  <2>3. /\ \A z \in R!All : z # y => state'[z] = state[z] /\ parent'[z] = parent[z]
        /\ parent'[y] = x /\ state'[y] = state[x]
    BY <1>1, <2>1
  <2>4. \A z \in R!All : state[z] # "none" => parent[z] # y
    BY <1>0, <2>1 DEF ProcessesRight, R!Alive
  <2>5. ProcessesRight'
    <3>1. /\ parent'["solution"] = "runner" /\ (rpc' # "wait" => state'["solution"] = "none")
      BY <1>0, <2>1, <2>3 DEF ProcessesRight
    <3>3. ASSUME NEW z \in R!All, state'[z] # "none", parent'[z] # "runner"
          PROVE  state'[parent'[z]] \in {"alive", "quiet"}
      <4>1. CASE z = y
        <5>1. parent'[z] = x /\ state'[x] = state[x]  BY <4>1, <2>1, <2>3
        <5>2. QED  BY <5>1, <2>1 DEF R!Alive
      <4>2. CASE z # y
        <5>1. PICK w : w = parent[z]  OBVIOUS
        <5>2. parent'[z] = w /\ state[z] # "none" /\ w # "runner"  BY <2>3, <3>3, <4>2, <5>1
        <5>3. w \in R!All /\ R!Alive(w) /\ w # y  BY <1>0, <1>1, <2>4, <5>1, <5>2 DEF ProcessesRight
        <5>4. state'[w] = state[w]  BY <2>3, <5>3
        <5>5. QED  BY <5>2, <5>3, <5>4 DEF R!Alive
      <4>3. QED  BY <4>1, <4>2
    <3>4. ASSUME NEW X \in SUBSET R!All, X # {}, \A z \in X : state'[z] # "none"
          PROVE  \E z \in X : parent'[z] \notin X
      <4>1. CASE X \ {y} = {}
        <5>1. X = {y}  BY <3>4, <4>1
        <5>2. QED  BY <5>1, <2>1, <2>3
      <4>2. CASE X \ {y} # {}
        <5>1. PICK Y : Y = X \ {y}  OBVIOUS
        <5>2. Y # {} /\ Y \in SUBSET R!All /\ \A z \in Y : state[z] # "none"
          BY <4>2, <5>1, <2>3, <3>4
        <5>3. PICK z \in Y : parent[z] \notin Y  BY <1>0, <5>2 DEF ProcessesRight
        <5>4. parent[z] # y /\ parent'[z] = parent[z]  BY <2>3, <2>4, <5>1, <5>2, <5>3
        <5>5. QED  BY <5>1, <5>3, <5>4
      <4>3. QED  BY <4>1, <4>2
    <3>5. QED  BY <3>1, <3>3, <3>4 DEF ProcessesRight, R!Alive
  <2>6. state'[x] # "none"  BY <2>1, <2>3 DEF R!Alive
  <2>7. QED  BY <2>1, <2>2, <2>5, <2>6, ProcessKeeps
<1>5. ASSUME NEW y \in R!All, R!Reap(x, y) PROVE RunnerInv'
  <2>1. /\ R!Alive(x) /\ parent[y] = x /\ state[y] = "zombie" /\ x # y
        /\ state' = [state EXCEPT ![y] = "none"] /\ parent' = [parent EXCEPT ![y] = "runner"]
        /\ UNCHANGED <<R!config, at, rpc, sums, ans, cwd, ok, res, iok, earned>>
    BY <1>5 DEF R!Reap, R!outcome, R!Alive
  <2>2. R!TypeOK'  BY <1>0, <1>1, <2>1 DEF R!TypeOK
  <2>3. /\ \A z \in R!All : z # y => state'[z] = state[z] /\ parent'[z] = parent[z]
        /\ parent'[y] = "runner" /\ state'[y] = "none"
    BY <1>1, <2>1
  <2>4. \A z \in R!All : state[z] # "none" => parent[z] # y
    BY <1>0, <2>1 DEF ProcessesRight, R!Alive
  <2>5. ProcessesRight'
    <3>1. /\ parent'["solution"] = "runner" /\ (rpc' # "wait" => state'["solution"] = "none")
      BY <1>0, <2>1, <2>3 DEF ProcessesRight
    <3>3. ASSUME NEW z \in R!All, state'[z] # "none", parent'[z] # "runner"
          PROVE  state'[parent'[z]] \in {"alive", "quiet"}
      <4>1. z # y  BY <2>3, <3>3
      <4>2. PICK w : w = parent[z]  OBVIOUS
      <4>3. parent'[z] = w /\ state[z] # "none" /\ w # "runner"  BY <2>3, <3>3, <4>1, <4>2
      <4>4. w \in R!All /\ R!Alive(w) /\ w # y  BY <1>0, <1>1, <2>4, <4>2, <4>3 DEF ProcessesRight
      <4>5. state'[w] = state[w]  BY <2>3, <4>4
      <4>6. QED  BY <4>3, <4>4, <4>5 DEF R!Alive
    <3>4. ASSUME NEW X \in SUBSET R!All, X # {}, \A z \in X : state'[z] # "none"
          PROVE  \E z \in X : parent'[z] \notin X
      <4>1. \A z \in X : z # y /\ state[z] # "none"  BY <2>3, <3>4
      <4>2. PICK z \in X : parent[z] \notin X  BY <1>0, <3>4, <4>1 DEF ProcessesRight
      <4>3. QED  BY <2>3, <4>1, <4>2
    <3>5. QED  BY <3>1, <3>3, <3>4 DEF ProcessesRight, R!Alive
  <2>6. state'[x] # "none"  BY <2>1, <2>3 DEF R!Alive
  <2>7. QED  BY <2>1, <2>2, <2>5, <2>6, ProcessKeeps
<1>6. ASSUME NEW t \in R!Test, R!Scribble(x, t) PROVE RunnerInv'
  <2>1. /\ R!Alive(x) /\ UNCHANGED <<R!config, at, rpc, sums, cwd, ok, res, iok, state, parent, earned>>
    BY <1>6 DEF R!Scribble, R!outcome, R!processes
  <2>2. ans' \in [R!Test -> {"right", "other"}]  BY <1>0, <1>6 DEF R!Scribble, R!TypeOK
  <2>3. R!TypeOK'  BY <1>0, <2>1, <2>2 DEF R!TypeOK
  <2>4. ProcessesRight'  BY <1>0, <2>1 DEF ProcessesRight, R!Alive
  <2>5. state'[x] # "none"  BY <2>1 DEF R!Alive
  <2>6. QED  BY <2>1, <2>3, <2>4, <2>5, ProcessKeeps
<1>7. QED  BY <1>2, <1>3, <1>4, <1>5, <1>6

(* A step of the runner that leaves the processes alone.                   *)
LEMMA RunnerOnly ==
  ASSUME RunnerInv, rpc # "wait", rpc' # "wait",
         UNCHANGED <<R!config, ans, R!outcome, R!processes>>,
         R!TypeOK', ChecksRight', R!Moved' => ~Somebody
  PROVE  RunnerInv'
<1>1. UNCHANGED <<state, parent>>  BY DEF R!processes
<1>2. ProcessesRight'  BY <1>1 DEF RunnerInv, ProcessesRight, R!Alive
<1>3. R!NobodyLeft'  BY <1>1 DEF R!NobodyLeft, Somebody
<1>4. QED  BY <1>2, <1>3 DEF RunnerInv

(* An attempt that fails is followed by another, or is the last one.       *)
LEMMA RaiseKeeps ==
  ASSUME RunnerInv, rpc \in {"enter", "code", "output", "checksum", "time", "orphans"},
         R!Raise, UNCHANGED <<R!config, sums, ans, R!outcome, R!processes, earned>>,
         cwd' \in {"problem", "run"}
  PROVE  RunnerInv'
<1> USE RunnerConstants
<1>1. R!TypeOK /\ ChecksRight  BY DEF RunnerInv
<1>2. at \in [round : 1 .. Rounds, test : 0 .. Tests, attempt : 1 .. Attempts]
  BY <1>1 DEF R!TypeOK
<1>3. /\ checker' = checker /\ interactor' = interactor /\ lenient' = lenient
      /\ ok' = ok /\ res' = res /\ iok' = iok /\ state' = state /\ parent' = parent
  BY DEF R!config, R!outcome, R!processes
<1>4. \/ /\ rpc' = "enter" /\ at' = [at EXCEPT !.attempt = @ + 1] /\ at.attempt < Attempts
      \/ rpc' = "failed" /\ at' = at
  BY DEF R!Raise
<1>5. /\ at' \in [round : 1 .. Rounds, test : 0 .. Tests, attempt : 1 .. Attempts]
      /\ at'.round = at.round /\ at'.test = at.test
      /\ rpc' = "enter" => at'.attempt # 1
  BY <1>2, <1>4
<1>6. R!TypeOK'  BY <1>1, <1>3, <1>4, <1>5 DEF R!TypeOK, R!Ended
<1>7. ~R!Moved'  BY <1>4, <1>5 DEF R!Moved
<1>8. Somebody' <=> Somebody  BY <1>3 DEF Somebody
<1>9. ChecksRight'  BY <1>1, <1>3, <1>4, <1>5, <1>8 DEF ChecksRight
<1>10. QED  BY <1>4, <1>6, <1>7, <1>9, RunnerOnly

LEMMA RunnerSteps == ASSUME RunnerInv, R!Runner PROVE RunnerInv'
<1> USE RunnerConstants
<1>0. R!TypeOK /\ ProcessesRight /\ ChecksRight /\ R!NobodyLeft  BY DEF RunnerInv
<1>1. /\ at \in [round : 1 .. Rounds, test : 0 .. Tests, attempt : 1 .. Attempts]
      /\ state \in [R!All -> {"none", "alive", "quiet", "zombie"}]
      /\ parent \in [R!All -> R!All \cup {"runner"}]
  BY <1>0 DEF R!TypeOK
<1>2. R!config' = R!config => checker' = checker /\ interactor' = interactor /\ lenient' = lenient
  BY DEF R!config
<1>3. R!outcome' = R!outcome => ok' = ok /\ res' = res /\ iok' = iok  BY DEF R!outcome
<1>4. R!processes' = R!processes => state' = state /\ parent' = parent /\ (Somebody' <=> Somebody)
  BY DEF R!processes, Somebody
<1>5. CASE R!StartRound
  <2>1. /\ rpc = "round" /\ rpc' = "enter" /\ sums' = ans
        /\ at' = [at EXCEPT !.test = 1, !.attempt = 1]
        /\ UNCHANGED <<R!config, ans, cwd, R!outcome, R!processes, earned>>
    BY <1>5 DEF R!StartRound
  <2>2. /\ at' \in [round : 1 .. Rounds, test : 0 .. Tests, attempt : 1 .. Attempts]
        /\ at'.round = at.round /\ at'.test = 1
    <3>1. 1 \in 0 .. Tests /\ 1 \in 1 .. Attempts  OBVIOUS
    <3>2. PICK r \in 1 .. Rounds, t \in 0 .. Tests, a \in 1 .. Attempts :
            at = [round |-> r, test |-> t, attempt |-> a]
      BY <1>1
    <3>3. at' = [round |-> r, test |-> 1, attempt |-> 1]  BY <2>1, <3>2
    <3>4. QED  BY <3>1, <3>2, <3>3
  <2>3. R!TypeOK'  BY <1>0, <1>2, <1>3, <1>4, <2>1, <2>2 DEF R!TypeOK, R!Ended
  <2>4. ~R!Moved'  BY <2>1, <2>2 DEF R!Moved
  <2>5. ChecksRight'  BY <1>0, <1>1, <1>2, <1>3, <1>4, <2>1, <2>2 DEF ChecksRight
  <2>6. QED  BY <2>1, <2>3, <2>4, <2>5, RunnerOnly
<1>6. CASE R!Enter
  <2>0. /\ rpc = "enter" /\ UNCHANGED <<R!config, sums, ans, R!outcome, R!processes, earned>>
    BY <1>6 DEF R!Enter
  <2>1. CASE rpc' = "spawn" /\ UNCHANGED <<at, cwd>>
    <3>1. R!TypeOK'  BY <1>0, <1>2, <1>3, <1>4, <2>0, <2>1 DEF R!TypeOK, R!Ended
    <3>2. ~R!Moved'  BY <2>1 DEF R!Moved
    <3>3. ChecksRight'  BY <1>0, <1>2, <1>3, <1>4, <2>0, <2>1 DEF ChecksRight
    <3>4. QED  BY <2>0, <2>1, <3>1, <3>2, <3>3, RunnerOnly
  <2>2. CASE R!Raise /\ cwd' = "run"  BY <2>0, <2>2, RaiseKeeps
  <2>3. QED  BY <1>6, <2>1, <2>2 DEF R!Enter
<1>7. CASE R!Spawn
  <2>0. /\ rpc = "spawn" /\ UNCHANGED <<R!config, at, sums, ans, cwd, R!outcome, parent, earned>>
    BY <1>7 DEF R!Spawn
  <2>1. CASE rpc' = "crashed" /\ UNCHANGED state
    <3>0. UNCHANGED R!processes  BY <2>0, <2>1 DEF R!processes
    <3>1. R!TypeOK'  BY <1>0, <1>2, <1>3, <1>4, <2>0, <2>1 DEF R!TypeOK, R!Ended
    <3>2. ~R!Moved'  BY <2>1 DEF R!Moved
    <3>3. ChecksRight'  BY <1>0, <1>2, <1>3, <1>4, <2>0, <2>1, <3>0 DEF ChecksRight
    <3>4. QED  BY <2>0, <2>1, <3>0, <3>1, <3>2, <3>3, RunnerOnly
  <2>2. CASE rpc' = "wait" /\ state' = [state EXCEPT !["solution"] = "alive"]
    <3>1. R!TypeOK'  BY <1>0, <1>1, <1>2, <1>3, <2>0, <2>2 DEF R!TypeOK, R!Ended
    <3>2. /\ state'["solution"] = "alive"
          /\ \A y \in R!All : y # "solution" => state'[y] = state[y]
      BY <1>1, <2>2
    <3>3. ProcessesRight'
      <4>1. ASSUME NEW y \in R!All, state'[y] # "none", parent'[y] # "runner"
            PROVE  state'[parent'[y]] \in {"alive", "quiet"}
        <5>1. PICK w : w = parent[y]  OBVIOUS
        <5>2. parent'[y] = w /\ y # "solution"  BY <2>0, <4>1, <5>1, <1>0 DEF ProcessesRight
        <5>3. w \in R!All /\ R!Alive(w)  BY <1>0, <1>1, <3>2, <4>1, <5>1, <5>2 DEF ProcessesRight
        <5>4. state'[w] \in {"alive", "quiet"}  BY <3>2, <5>3 DEF R!Alive
        <5>5. QED  BY <5>2, <5>4
      <4>2. ASSUME NEW X \in SUBSET R!All, X # {}, \A y \in X : state'[y] # "none"
            PROVE  \E y \in X : parent'[y] \notin X
        <5>1. CASE "solution" \in X  BY <1>0, <2>0, <5>1 DEF ProcessesRight
        <5>2. CASE "solution" \notin X
          <6>1. \A y \in X : state[y] # "none"  BY <3>2, <4>2, <5>2
          <6>2. QED  BY <1>0, <2>0, <4>2, <6>1 DEF ProcessesRight
        <5>3. QED  BY <5>1, <5>2
      <4>3. QED  BY <1>0, <2>0, <2>2, <4>1, <4>2 DEF ProcessesRight, R!Alive
    <3>4. Somebody'  BY <3>2 DEF Somebody
    <3>5. ChecksRight'  BY <1>0, <1>2, <1>3, <2>0, <2>2, <3>4 DEF ChecksRight
    <3>6. R!NobodyLeft'  BY <2>2 DEF R!NobodyLeft, R!Moved
    <3>7. QED  BY <3>1, <3>3, <3>5, <3>6 DEF RunnerInv
  <2>3. QED  BY <1>7, <2>1, <2>2 DEF R!Spawn
<1>8. CASE R!Wait
  <2>1. /\ rpc = "wait" /\ rpc' = "code" /\ state["solution"] = "zombie"
        /\ state' = [state EXCEPT !["solution"] = "none"]
        /\ UNCHANGED <<R!config, at, sums, ans, cwd, ok, res, parent, earned>> /\ iok' \in BOOLEAN
    BY <1>8 DEF R!Wait
  <2>2. R!TypeOK'  BY <1>0, <1>1, <1>2, <2>1 DEF R!TypeOK, R!Ended
  <2>3. /\ state'["solution"] = "none"
        /\ \A y \in R!All : y # "solution" => state'[y] = state[y]
    BY <1>1, <2>1
  <2>4. ProcessesRight'
    <3>1. ASSUME NEW y \in R!All, state'[y] # "none", parent'[y] # "runner"
          PROVE  state'[parent'[y]] \in {"alive", "quiet"}
      <4>1. PICK w : w = parent[y]  OBVIOUS
      <4>2. parent'[y] = w /\ y # "solution"  BY <2>1, <2>3, <3>1, <4>1
      <4>3. w \in R!All /\ R!Alive(w)  BY <1>0, <1>1, <2>3, <3>1, <4>1, <4>2 DEF ProcessesRight
      <4>4. state'[w] \in {"alive", "quiet"}  BY <2>1, <2>3, <4>3 DEF R!Alive
      <4>5. QED  BY <4>2, <4>4
    <3>2. ASSUME NEW X \in SUBSET R!All, X # {}, \A y \in X : state'[y] # "none"
          PROVE  \E y \in X : parent'[y] \notin X
      <4>1. \A y \in X : state[y] # "none"  BY <2>1, <2>3, <3>2
      <4>2. QED  BY <1>0, <2>1, <3>2, <4>1 DEF ProcessesRight
    <3>3. QED  BY <1>0, <2>1, <2>3, <3>1, <3>2 DEF ProcessesRight, R!Alive
  <2>5. ChecksRight'  BY <1>0, <1>2, <2>1 DEF ChecksRight
  <2>6. R!NobodyLeft'  BY <2>1 DEF R!NobodyLeft, R!Moved
  <2>7. QED  BY <2>2, <2>4, <2>5, <2>6 DEF RunnerInv
<1>9. ASSUME UNCHANGED <<R!config, at, sums, ans, cwd, R!outcome, R!processes, earned>>,
             \/ rpc = "code" /\ rpc' \in {"crashed", "output"}
             \/ rpc = "output" /\ rpc' = "checksum"
             \/ rpc = "checksum" /\ rpc' = "time"
             \/ rpc = "time" /\ rpc' = "orphans",
             rpc = "code" /\ rpc' = "output" /\ checker = "cmp" /\ ~lenient => ok,
             rpc = "output" /\ checker = "cmp" /\ ~lenient => res = ans[at.test],
             rpc = "checksum" => ans[at.test] = sums[at.test]
      PROVE  RunnerInv'
  <2>1. R!TypeOK'  BY <1>0, <1>2, <1>3, <1>4, <1>9 DEF R!TypeOK, R!Ended
  <2>2. ~R!Moved'  BY <1>9 DEF R!Moved
  <2>3. at.test \in R!Test
    <3>1. rpc # "round"  BY <1>9
    <3>2. at.test # 0 /\ at.test \in 0 .. Tests  BY <1>0, <1>1, <3>1 DEF ChecksRight
    <3>3. QED  BY <3>2
  <2>a. /\ checker' = checker /\ lenient' = lenient /\ sums' = sums /\ ans' = ans
        /\ ok' = ok /\ res' = res /\ at' = at /\ earned' = earned /\ (Somebody' <=> Somebody)
    BY <1>2, <1>3, <1>4, <1>9
  <2>4. ChecksRight'
    <3>1. CASE rpc = "code"  BY <1>0, <1>9, <2>3, <2>a, <3>1 DEF ChecksRight
    <3>2. CASE rpc = "output"  BY <1>0, <1>9, <2>3, <2>a, <3>2 DEF ChecksRight
    <3>3. CASE rpc = "checksum"
      <4>1. at.round = 1 => ans[at.test] = "right"  BY <1>0, <1>9, <2>3, <3>3 DEF ChecksRight
      <4>2. QED  BY <1>0, <1>9, <2>3, <2>a, <3>3, <4>1 DEF ChecksRight
    <3>4. CASE rpc = "time"  BY <1>0, <1>9, <2>3, <2>a, <3>4 DEF ChecksRight
    <3>5. QED  BY <1>9, <3>1, <3>2, <3>3, <3>4
  <2>5. QED  BY <1>9, <2>1, <2>2, <2>4, RunnerOnly
<1>10. CASE R!CheckCode
  <2>0. /\ rpc = "code" /\ UNCHANGED <<R!config, sums, ans, cwd, R!outcome, R!processes, earned>>
    BY <1>10 DEF R!CheckCode
  <2>1. cwd' \in {"problem", "run"}  BY <1>0, <2>0 DEF R!TypeOK
  <2>2. \/ R!Raise
        \/ rpc' = "crashed" /\ UNCHANGED at
        \/ rpc' = "output" /\ UNCHANGED at /\ (checker = "cmp" /\ ~lenient => ok)
    BY <1>10 DEF R!CheckCode
  <2>3. QED  BY <1>9, <2>0, <2>1, <2>2, RaiseKeeps
<1>11. CASE R!CheckOutput
  <2>0. /\ rpc = "output" /\ UNCHANGED <<R!config, sums, ans, cwd, R!outcome, R!processes, earned>>
    BY <1>11 DEF R!CheckOutput
  <2>1. cwd' \in {"problem", "run"}  BY <1>0, <2>0 DEF R!TypeOK
  <2>2. R!Raise \/ (rpc' = "checksum" /\ UNCHANGED at
                    /\ (checker = "cmp" /\ ~lenient => res = ans[at.test]))
    BY <1>11 DEF R!CheckOutput
  <2>3. QED  BY <1>9, <2>0, <2>1, <2>2, RaiseKeeps
<1>12. CASE R!CheckAnswer
  <2>0. /\ rpc = "checksum" /\ UNCHANGED <<R!config, sums, ans, cwd, R!outcome, R!processes, earned>>
    BY <1>12 DEF R!CheckAnswer
  <2>1. cwd' \in {"problem", "run"}  BY <1>0, <2>0 DEF R!TypeOK
  <2>2. R!Raise \/ (rpc' = "time" /\ UNCHANGED at /\ ans[at.test] = sums[at.test])
    BY <1>12 DEF R!CheckAnswer
  <2>3. QED  BY <1>9, <2>0, <2>1, <2>2, RaiseKeeps
<1>13. CASE R!CheckTime
  <2>0. /\ rpc = "time" /\ UNCHANGED <<R!config, sums, ans, cwd, R!outcome, R!processes, earned>>
    BY <1>13 DEF R!CheckTime
  <2>1. cwd' \in {"problem", "run"}  BY <1>0, <2>0 DEF R!TypeOK
  <2>2. R!Raise \/ (rpc' = "orphans" /\ UNCHANGED at)  BY <1>13 DEF R!CheckTime
  <2>3. QED  BY <1>9, <2>0, <2>1, <2>2, RaiseKeeps
<1>14. CASE R!CheckOrphans
  <2>0. /\ rpc = "orphans" /\ UNCHANGED <<R!config, sums, ans, cwd, R!outcome, R!processes>>
    BY <1>14 DEF R!CheckOrphans
  <2>1. CASE R!Found # {}
    <3>1. cwd' \in {"problem", "run"}  BY <1>0, <2>0 DEF R!TypeOK
    <3>2. R!Raise /\ UNCHANGED earned  BY <1>14, <2>1 DEF R!CheckOrphans
    <3>3. QED  BY <2>0, <3>1, <3>2, RaiseKeeps
  <2>2. CASE R!Found = {}
    <3>1. ~Somebody  BY <1>0, <2>2, FoundAll
    <3>2. R!Passed /\ earned' = IF ok /\ res = "right" THEN earned \cup {at.test} ELSE earned
      BY <1>14, <2>2 DEF R!CheckOrphans
    <3>3. at.test \in R!Test  BY <1>0, <1>1, <2>0 DEF ChecksRight
    <3>4. earned \subseteq earned' /\ earned' \subseteq R!Test  BY <1>0, <3>2, <3>3 DEF R!TypeOK
    <3>5. \/ /\ at.test < Tests /\ at' = [at EXCEPT !.test = @ + 1, !.attempt = 1] /\ rpc' = "enter"
          \/ /\ at.test = Tests /\ at.round < Rounds
             /\ at' = [at EXCEPT !.round = @ + 1] /\ rpc' = "round"
          \/ at.test = Tests /\ at' = at /\ rpc' = "all passed"
      <4>1. at.test < Tests \/ at.test = Tests  BY <3>3
      <4>2. QED  BY <3>2, <4>1 DEF R!Passed
    <3>6. /\ at' \in [round : 1 .. Rounds, test : 0 .. Tests, attempt : 1 .. Attempts]
          /\ at'.test # 0
      <4>1. PICK r \in 1 .. Rounds, t \in 0 .. Tests, a \in 1 .. Attempts :
              at = [round |-> r, test |-> t, attempt |-> a]
        BY <1>1
      <4>2. t # 0 /\ 1 \in 1 .. Attempts  BY <3>3, <4>1
      <4>3. CASE at.test < Tests /\ at' = [at EXCEPT !.test = @ + 1, !.attempt = 1]
        <5>1. at' = [round |-> r, test |-> t + 1, attempt |-> 1]  BY <4>1, <4>3
        <5>2. t + 1 \in 0 .. Tests /\ t + 1 # 0  BY <4>1, <4>3
        <5>3. QED  BY <4>2, <5>1, <5>2
      <4>4. CASE at.round < Rounds /\ at' = [at EXCEPT !.round = @ + 1]
        <5>1. at' = [round |-> r + 1, test |-> t, attempt |-> a]  BY <4>1, <4>4
        <5>2. r + 1 \in 1 .. Rounds  BY <4>1, <4>4
        <5>3. QED  BY <4>2, <5>1, <5>2
      <4>5. CASE at' = at  BY <1>1, <4>1, <4>2, <4>5
      <4>6. QED  BY <3>5, <4>3, <4>4, <4>5
    <3>7. R!TypeOK'
      <4>1. rpc' \in {"enter", "round", "all passed"}  BY <3>5
      <4>2. QED  BY <1>0, <1>2, <1>3, <1>4, <2>0, <3>4, <3>6, <4>1 DEF R!TypeOK, R!Ended
    <3>8. ASSUME checker = "cmp", ~lenient
          PROVE  IF at.round > 1 THEN earned' = R!Test
                 ELSE at.round = 1 /\ 1 .. at.test \subseteq earned'
      <4>1. CASE at.round > 1  BY <1>0, <3>4, <3>8, <4>1 DEF ChecksRight
      <4>2. CASE ~(at.round > 1)
        <5>1. at.round = 1  BY <1>1, <4>2
        <5>2. ok /\ res = "right" /\ 1 .. at.test - 1 \subseteq earned
          BY <1>0, <2>0, <3>1, <3>8, <5>1 DEF ChecksRight
        <5>3. earned' = earned \cup {at.test}  BY <3>2, <5>2
        <5>4. \A t \in 1 .. at.test : t \in 1 .. at.test - 1 \/ t = at.test  BY <3>3
        <5>5. QED  BY <4>2, <5>1, <5>2, <5>3, <5>4
      <4>3. QED  BY <4>1, <4>2
    <3>9. ChecksRight'
      <4>1. /\ checker' = checker /\ lenient' = lenient /\ sums' = sums /\ ans' = ans /\ ok' = ok /\ res' = res
        BY <1>2, <1>3, <2>0
      <4>2. CASE rpc' = "enter" /\ at' = [at EXCEPT !.test = @ + 1, !.attempt = 1] /\ at.test < Tests
        <5>1. at'.round = at.round /\ at'.test = at.test + 1 /\ at'.test - 1 = at.test  BY <1>1, <3>3, <4>2
        <5>2. QED  BY <1>0, <1>1, <2>0, <3>8, <4>1, <4>2, <5>1, <3>6 DEF ChecksRight
      <4>3. CASE rpc' = "round" /\ at' = [at EXCEPT !.round = @ + 1] /\ at.test = Tests
        <5>1. at'.round = at.round + 1 /\ at'.round > 1 /\ at'.test = at.test  BY <1>1, <4>3
        <5>2. checker = "cmp" /\ ~lenient => earned' = R!Test
          BY <3>4, <3>8, <4>3
        <5>3. QED  BY <4>1, <4>3, <5>1, <5>2, <3>6 DEF ChecksRight
      <4>4. CASE rpc' = "all passed" /\ at' = at /\ at.test = Tests
        <5>1. checker = "cmp" /\ ~lenient => earned' = R!Test  BY <3>4, <3>8, <4>4
        <5>2. at.round = 1 => 1 .. at.test - 1 \subseteq R!Test  BY <3>3
        <5>3. QED  BY <1>0, <2>0, <4>1, <4>4, <5>1, <5>2, <3>6 DEF ChecksRight
      <4>5. QED  BY <3>5, <4>2, <4>3, <4>4
    <3>10. QED  BY <2>0, <3>1, <3>5, <3>7, <3>9, RunnerOnly
  <2>3. QED  BY <2>1, <2>2
<1>15. QED  BY <1>5, <1>6, <1>7, <1>8, <1>10, <1>11, <1>12, <1>13, <1>14 DEF R!Runner

LEMMA StepRunnerInv == RunnerInv /\ [R!Next]_(R!testPyVars) => RunnerInv'
<1> SUFFICES ASSUME RunnerInv, [R!Next]_(R!testPyVars) PROVE RunnerInv'  OBVIOUS
<1>1. CASE R!Runner  BY <1>1, RunnerSteps
<1>2. ASSUME NEW x \in R!All,
             \/ R!Exit(x) \/ R!CloseOutput(x)
             \/ \E y \in R!All : R!Fork(x, y) \/ R!Reap(x, y)
             \/ \E t \in R!Test : R!Scribble(x, t)
      PROVE  RunnerInv'
  BY <1>2, ProcessSteps
<1>3. CASE UNCHANGED R!testPyVars
  <2>1. /\ UNCHANGED <<checker, interactor, lenient, pipeline, at, rpc, sums, ans, cwd>>
        /\ UNCHANGED <<ok, res, iok, state, parent, earned>>
    BY <1>3 DEF R!testPyVars, R!config, R!outcome, R!processes
  <2>2. R!TypeOK'  BY <2>1 DEF RunnerInv, R!TypeOK
  <2>3. ProcessesRight'  BY <2>1 DEF RunnerInv, ProcessesRight, R!Alive
  <2>4. ChecksRight'  BY <2>1 DEF RunnerInv, ChecksRight, Somebody
  <2>5. R!NobodyLeft'  BY <2>1 DEF RunnerInv, R!NobodyLeft, R!Moved
  <2>6. QED  BY <2>2, <2>3, <2>4, <2>5 DEF RunnerInv
<1>4. QED  BY <1>1, <1>2, <1>3 DEF R!Next

(* Seen from the runner, the specification of all is its own.              *)
LEMMA RunsRunner == AllSpec => R!Init /\ [][R!Next]_(R!testPyVars)
<1>1. AllInit => R!Init
  BY DEF AllInit, NoRunner, R!Init, R!Input
<1>2. [AllNext]_allVars => [R!Next]_(R!testPyVars)
  BY DEF AllNext, allVars, Table, Chat, Runner, runnerVars,
         R!testPyVars, R!config, R!outcome, R!processes
<1>3. QED  BY <1>1, <1>2, PTL DEF AllSpec

(* "All tests passed" is said only of a solution that passed them all, and *)
(* no test is passed while a process that the solution started is left,    *)
(* alive or not: test.py, for any tests, rounds, attempts and processes.   *)
THEOREM PassesAreEarned == AllSpec => []PassIsEarned
<1>1. RunnerInv => PassIsEarned
  <2>1. ASSUME RunnerInv PROVE R!PassIsEarned  BY <2>1 DEF RunnerInv, ChecksRight, R!PassIsEarned
  <2>2. QED  BY <2>1 DEF RunnerInv, PassIsEarned
<1>2. QED  BY <1>1, InitRunnerInv, StepRunnerInv, RunsRunner, PTL

-----------------------------------------------------------------------------
(* ChatSession.  What the task of a connection still has before it are     *)
(* items of increasing lines, where f gives the lines of the latches.      *)
Has(c, i) == cur[c] = i \/ \E k \in DOMAIN queue[c] : queue[c][k] = i
Busy(c) == cur[c].method \notin {"none", "raised"}
IsGate(i) == i.method \in {"arrive", "wait"}
LineOf(f, i) == IF IsGate(i) THEN f[i.arg] ELSE i.arg
Comes(c, l) == Has(c, C!Item("arrive", l))
Coming(l) == {c \in Client : Comes(c, l)}

FileRight(f) ==
  /\ f \in Seq(Nat) /\ Len(f) = Len(latches)
  /\ \A l \in DOMAIN f : f[l] \in DOMAIN lines /\ lines[f[l]].method = "barrier"
  /\ \A b \in DOMAIN lines : lines[b].method = "barrier" => \E l \in DOMAIN f : f[l] = b
  /\ \A l, m \in DOMAIN f : l < m => f[l] < f[m]

ItemRight(f, i) ==
  /\ i.method \in C!Commands \cup {"arrive", "wait"} /\ i.arg \in Nat
  /\ IsGate(i) => i.arg \in DOMAIN f
  /\ i.method = "done" => i.arg > Len(lines)
  /\ LineOf(f, i) <= Len(lines) + 1 /\ (mpc = "parse" => LineOf(f, i) <= Len(lines))

QueueRight(f, c) ==
  /\ \A k \in DOMAIN queue[c] : ItemRight(f, queue[c][k])
  /\ \A k, m \in DOMAIN queue[c] : k < m => LineOf(f, queue[c][k]) < LineOf(f, queue[c][m])
  /\ Busy(c) => /\ ItemRight(f, cur[c])
                /\ \A k \in DOMAIN queue[c] : LineOf(f, cur[c]) < LineOf(f, queue[c][k])
  /\ \A k \in DOMAIN queue[c] : queue[c][k].method = "wait" => k = 1 /\ cur[c] = C!None

(* What is above a line of "=" comes before the latch.                     *)
CommandRight(f, c, i, l) ==
  Has(c, i) /\ i.method \in C!Commands /\ i.arg < f[l] => Comes(c, l)

Layout(f) ==
  /\ FileRight(f)
  /\ \A c \in Client : QueueRight(f, c)
  /\ \A c \in Client, i \in C!Items, l \in DOMAIN f : CommandRight(f, c, i, l)

(* A latch that is not done is still before every task, or the latch of a  *)
(* later line is, and as many come to it as remain.                        *)
Before(c, l) ==
  Comes(c, l) \/ \E m \in DOMAIN latches : m >= l /\ Has(c, C!Item("wait", m))

GatesRight ==
  /\ \A c \in known, l \in DOMAIN latches :
       latches[l].done \/ cur[c].method = "raised" \/ Before(c, l)
  /\ \A l, m \in DOMAIN latches : l < m /\ latches[m].done => latches[l].done
  /\ \A l \in DOMAIN latches :
       /\ latches[l].remaining = Cardinality(Coming(l))
       /\ latches[l].done => latches[l].remaining = 0

EndsRight ==
  /\ \A c \in Client \ known : queue[c] = <<>> /\ cur[c] = C!None
  /\ mpc = "parse" => done = {} /\ \A c \in Client : cur[c] = C!None
  /\ \A c \in done : queue[c] = <<>> /\ cur[c] = C!None
  /\ mpc \in {"kill", "drain", "exit"} /\ status = "OK" => done = known
  /\ mpc = "exit" /\ status # "CF" => server = "ended"
  /\ bad => status # "OK"
  /\ status \in {"WA", "PE"} => bad

Line == [method : {"barrier"}] \cup [client : Client, method : Method \cup {"type"}]
Latch == [remaining : 0 .. Cardinality(Client), done : BOOLEAN]

ChatTyped ==
  /\ lines \in Seq(Line) /\ Len(lines) <= MaxLines /\ latches \in Seq(Latch)
  /\ cur \in [Client -> C!Items] /\ queue \in [Client -> Seq(C!Items)]
  /\ known \subseteq Client /\ started \subseteq known /\ writer_closed \subseteq started
  /\ reader_closed \subseteq started /\ done \subseteq known
  /\ status \in {"OK", "WA", "PE", "CF"} /\ bad \in BOOLEAN
  /\ mpc \in {"parse", "run", "kill", "drain", "exit"} /\ server \in {"up", "term", "ended"}

ChatInv == ChatTyped /\ (\E f : Layout(f)) /\ GatesRight /\ EndsRight

LEMMA SameCardinality ==
  ASSUME NEW S
  PROVE  C!Cardinality(S) = Cardinality(S) /\ (C!IsFiniteSet(S) <=> IsFiniteSet(S))
<1>1. C!Cardinality(S) = Cardinality(S)  BY DEF C!Cardinality, Cardinality
<1>2. C!IsFiniteSet(S) <=> IsFiniteSet(S)  BY DEF C!IsFiniteSet, IsFiniteSet
<1>3. QED  BY <1>1, <1>2

LEMMA ChatConstants ==
  /\ IsFiniteSet(Client) /\ MaxLines \in Nat
  /\ \A m \in C!Commands : m \notin {"arrive", "wait", "raised", "none", "barrier"}
<1>1. \A m \in C!Commands : m \in {"conn", "send", "recv", "stop", "rstop", "type", "done"}
  BY ChatAssumption DEF C!MethodAssumption, C!Commands
<1>2. IsFiniteSet(Client) /\ MaxLines \in Nat  BY ChatAssumption, SameCardinality DEF C!BoundsAssumption
<1>3. ASSUME NEW m \in C!Commands PROVE m \notin {"arrive", "wait", "raised", "none", "barrier"}
  BY <1>1
<1>4. QED  BY <1>2, <1>3

LEMMA LineNat ==
  ASSUME NEW f \in Seq(Nat), NEW i, ItemRight(f, i)
  PROVE  LineOf(f, i) \in Nat /\ (i.method \in C!Commands => LineOf(f, i) = i.arg)
<1>1. i.arg \in Nat /\ (IsGate(i) => f[i.arg] \in Nat)  BY DEF ItemRight
<1>2. i.method \in C!Commands => ~IsGate(i)  BY ChatConstants DEF IsGate
<1>3. QED  BY <1>1, <1>2 DEF LineOf

LEMMA InitChatInv == C!Init => ChatInv
<1> SUFFICES ASSUME C!Init PROVE ChatInv  OBVIOUS
<1> USE ChatConstants
<1>1. /\ lines = <<>> /\ known = {} /\ queue = [c \in Client |-> <<>>] /\ latches = <<>>
      /\ cur = [c \in Client |-> C!None] /\ C!None \in C!Items
      /\ started = {} /\ writer_closed = {} /\ reader_closed = {} /\ done = {}
      /\ status = "OK" /\ mpc = "parse" /\ server = "up" /\ bad = FALSE
  BY DEF C!Init, C!None, C!Items
<1>2. ChatTyped
  <2>1. lines \in Seq(Line) /\ latches \in Seq(Latch) /\ Len(lines) <= MaxLines  BY <1>1
  <2>2. cur \in [Client -> C!Items] /\ queue \in [Client -> Seq(C!Items)]
    <3>1. <<>> \in Seq(C!Items)  OBVIOUS
    <3>2. QED  BY <1>1, <3>1
  <2>3. QED  BY <1>1, <2>1, <2>2 DEF ChatTyped
<1>3. PICK f : f = <<>>  OBVIOUS
<1>4. FileRight(f)  BY <1>1, <1>3 DEF FileRight
<1>5. \A c \in Client : QueueRight(f, c)  BY <1>1 DEF QueueRight, Busy, C!None
<1>6. \A c \in Client, i \in C!Items, l \in DOMAIN f : CommandRight(f, c, i, l)  BY <1>3
<1>7. GatesRight  BY <1>1 DEF GatesRight
<1>8. EndsRight  BY <1>1 DEF EndsRight
<1>9. QED  BY <1>2, <1>4, <1>5, <1>6, <1>7, <1>8 DEF ChatInv, Layout

(* Some connections are given an item, while main reads the file.          *)
Given(S, i) ==
  /\ S \subseteq Client /\ i \in C!Items
  /\ queue' = [c \in Client |-> IF c \in S THEN Append(queue[c], i) ELSE queue[c]]
  /\ cur' = cur

LEMMA GivenHas ==
  ASSUME ChatTyped, NEW S, NEW i, Given(S, i), NEW c \in Client, NEW j
  PROVE  Has(c, j)' <=> Has(c, j) \/ (c \in S /\ j = i)
<1>1. PICK q \in Seq(C!Items) : q = queue[c]  BY DEF ChatTyped
<1>2. queue'[c] = IF c \in S THEN Append(q, i) ELSE q  BY <1>1 DEF Given
<1>3. CASE c \notin S  BY <1>1, <1>2, <1>3 DEF Has, Given
<1>4. CASE c \in S
  <2>1. PICK r : r = Append(q, i)  OBVIOUS
  <2>2. /\ DOMAIN r = 1 .. Len(q) + 1 /\ r[Len(q) + 1] = i /\ DOMAIN q = 1 .. Len(q)
        /\ \A k \in 1 .. Len(q) : r[k] = q[k]
    BY <2>1 DEF Given
  <2>3. (\E k \in DOMAIN r : r[k] = j) <=> (\E k \in DOMAIN q : q[k] = j) \/ j = i
    <3>1. ASSUME NEW k \in DOMAIN r, r[k] = j PROVE (\E n \in DOMAIN q : q[n] = j) \/ j = i
      BY <2>2, <3>1
    <3>2. ASSUME NEW k \in DOMAIN q, q[k] = j PROVE \E n \in DOMAIN r : r[n] = j
      BY <2>2, <3>2
    <3>3. j = i => \E n \in DOMAIN r : r[n] = j  BY <2>2
    <3>4. QED  BY <3>1, <3>2, <3>3
  <2>4. queue'[c] = r /\ cur' = cur  BY <1>2, <1>4, <2>1 DEF Given
  <2>5. QED  BY <1>1, <1>4, <2>3, <2>4 DEF Has
<1>5. QED  BY <1>3, <1>4

LEMMA GivenQueue ==
  ASSUME ChatTyped, EndsRight, mpc = "parse", NEW S, NEW i, Given(S, i),
         NEW f \in Seq(Nat), NEW g \in Seq(Nat), ItemRight(g, i)',
         \A j : ItemRight(f, j) => ItemRight(g, j)' /\ LineOf(g, j) = LineOf(f, j),
         NEW c \in Client, QueueRight(f, c),
         c \in S => /\ i.method = "wait" => queue[c] = <<>>
                    /\ \A k \in DOMAIN queue[c] : LineOf(f, queue[c][k]) < LineOf(g, i)
  PROVE  QueueRight(g, c)'
<1>1. PICK q \in Seq(C!Items) : q = queue[c]  BY DEF ChatTyped
<1>2. queue'[c] = IF c \in S THEN Append(q, i) ELSE q  BY <1>1 DEF Given
<1>3. cur[c] = C!None /\ cur'[c] = C!None  BY DEF EndsRight, Given
<1>4. /\ \A k \in DOMAIN q : ItemRight(g, q[k])' /\ LineOf(g, q[k]) = LineOf(f, q[k])
      /\ \A k, m \in DOMAIN q : k < m => LineOf(f, q[k]) < LineOf(f, q[m])
      /\ \A k \in DOMAIN q : q[k].method = "wait" => k = 1
  BY <1>1 DEF QueueRight
<1>5. CASE c \notin S
  <2>1. PICK r : r = queue'[c]  OBVIOUS
  <2>2. r = q  BY <1>2, <1>5, <2>1
  <2>3. /\ \A k \in DOMAIN r : ItemRight(g, r[k])'
        /\ \A k, m \in DOMAIN r : k < m => LineOf(g, r[k]) < LineOf(g, r[m])
    BY <1>4, <2>2
  <2>4. QED  BY <1>3, <1>4, <2>1, <2>2, <2>3 DEF QueueRight, Busy, C!None
<1>6. CASE c \in S
  <2>1. PICK r : r = Append(q, i)  OBVIOUS
  <2>2. /\ DOMAIN r = 1 .. Len(q) + 1 /\ r[Len(q) + 1] = i /\ DOMAIN q = 1 .. Len(q) /\ Len(q) \in Nat
        /\ \A k \in 1 .. Len(q) : r[k] = q[k]
    BY <2>1 DEF Given
  <2>3. \A k \in DOMAIN r : ItemRight(g, r[k])'
    <3>1. TAKE k \in DOMAIN r
    <3>2. CASE k = Len(q) + 1  BY <2>2, <3>2
    <3>3. CASE k # Len(q) + 1  BY SMTT(30), <1>4, <2>2, <3>3
    <3>4. QED  BY <3>2, <3>3
  <2>4. ASSUME NEW k \in DOMAIN r, NEW m \in DOMAIN r, k < m
        PROVE  LineOf(g, r[k]) < LineOf(g, r[m])
    <3>1. k \in DOMAIN q /\ r[k] = q[k]  BY <2>2, <2>4
    <3>2. CASE m = Len(q) + 1  BY <1>1, <1>4, <1>6, <2>2, <3>1, <3>2
    <3>3. CASE m # Len(q) + 1
      <4>1. m \in DOMAIN q /\ r[m] = q[m]  BY <2>2, <3>3
      <4>2. LineOf(f, q[k]) < LineOf(f, q[m])  BY <1>4, <2>4, <3>1, <4>1
      <4>3. LineOf(g, q[k]) = LineOf(f, q[k]) /\ LineOf(g, q[m]) = LineOf(f, q[m])  BY <1>4, <3>1, <4>1
      <4>4. QED  BY <3>1, <4>1, <4>2, <4>3
    <3>4. QED  BY <3>2, <3>3
  <2>5. \A k \in DOMAIN r : r[k].method = "wait" => k = 1
    <3>1. TAKE k \in DOMAIN r
    <3>2. CASE k = Len(q) + 1
      <4>1. i.method = "wait" => Len(q) = 0  BY <1>1, <1>6
      <4>2. QED  BY <2>2, <3>2, <4>1
    <3>3. CASE k # Len(q) + 1  BY <1>4, <2>2, <3>3
    <3>4. QED  BY <3>2, <3>3
  <2>6. queue'[c] = r  BY <1>2, <1>6, <2>1
  <2>7. QED  BY <1>3, <2>3, <2>4, <2>5, <2>6 DEF QueueRight, Busy, C!None
<1>7. QED  BY <1>5, <1>6

LEMMA GivenGates ==
  ASSUME ChatTyped, GatesRight, NEW S, NEW i, Given(S, i), i.method # "arrive",
         UNCHANGED latches, known \subseteq known', known' \subseteq Client,
         \A c \in known' \ known, l \in DOMAIN latches : Before(c, l)'
  PROVE  GatesRight'
<1>1. ASSUME NEW c \in Client, NEW j
      PROVE  /\ Has(c, j) => Has(c, j)'
             /\ j # i => (Has(c, j)' <=> Has(c, j))
  BY GivenHas
<1>2. ASSUME NEW c \in Client, NEW l PROVE Comes(c, l)' <=> Comes(c, l)
  <2>1. PICK j : j = C!Item("arrive", l)  OBVIOUS
  <2>2. j # i  BY <2>1 DEF C!Item
  <2>3. QED  BY <1>1, <2>1, <2>2 DEF Comes
<1>3. \A c \in Client, l \in DOMAIN latches : Before(c, l) => Before(c, l)'
  <2>1. ASSUME NEW c \in Client, NEW l \in DOMAIN latches, NEW m \in DOMAIN latches,
               m >= l, Has(c, C!Item("wait", m))
        PROVE  \E n \in DOMAIN latches : n >= l /\ Has(c, C!Item("wait", n))'
    <3>1. PICK j : j = C!Item("wait", m)  OBVIOUS
    <3>2. Has(c, j)'  BY <1>1, <2>1, <3>1
    <3>3. QED  BY <2>1, <3>1, <3>2 DEF C!Item
  <2>2. QED  BY <1>2, <2>1 DEF Before
<1>4. \A l : Coming(l)' = Coming(l)  BY <1>2 DEF Coming
<1>5. cur' = cur  BY DEF Given
<1>6. \A c \in known', l \in DOMAIN latches' :
        latches'[l].done \/ cur'[c].method = "raised" \/ Before(c, l)'
  <2>1. TAKE c \in known', l \in DOMAIN latches'
  <2>2. S \subseteq Client /\ known \subseteq Client  BY DEF Given, ChatTyped
  <2>3. CASE c \in known  BY <1>3, <1>5, <2>2, <2>3 DEF GatesRight
  <2>4. CASE c \notin known  BY <2>4
  <2>5. QED  BY <2>3, <2>4
<1>7. QED  BY <1>4, <1>6 DEF GatesRight

(* Reading a line, or the end, with the same latches.                      *)
LEMMA GivenKeeps ==
  ASSUME ChatInv, mpc = "parse", NEW S, NEW i, Given(S, i), i.method # "arrive", ChatTyped',
         UNCHANGED <<latches, done, bad, server>>,
         \/ lines' = lines
         \/ \E line : lines' = Append(lines, line) /\ line.method # "barrier",
         known \subseteq known', S \subseteq known',
         \A c \in known' \ known, l \in DOMAIN latches : Before(c, l)',
         mpc' \in {"parse", "run"}, status' = status,
         mpc' = "run" => lines' = lines,
         i.arg \in Nat, i.method \in C!Commands \cup {"wait"},
         \/ /\ i.method = "wait" /\ i.arg = Len(latches) /\ i.arg # 0 /\ S \cap known = {}
         \/ /\ i.method \in C!Commands /\ i.arg = Len(lines) + 1
            /\ (i.method = "done" <=> mpc' = "run")
            /\ (mpc' = "parse" => lines' # lines)
  PROVE  ChatInv'
<1> USE ChatConstants
<1>0. ChatTyped /\ GatesRight /\ EndsRight  BY DEF ChatInv
<1>1. PICK f : Layout(f)  BY DEF ChatInv
<1>2. f \in Seq(Nat) /\ Len(f) = Len(latches) /\ DOMAIN f = 1 .. Len(latches)
      /\ DOMAIN latches = 1 .. Len(latches) /\ Len(latches) \in Nat
  BY <1>0, <1>1 DEF Layout, FileRight, ChatTyped
<1>3. PICK n \in Nat : n = Len(lines) /\ DOMAIN lines = 1 .. n  BY <1>0 DEF ChatTyped
<1>4. /\ Len(lines') \in {n, n + 1} /\ (mpc' = "run" => Len(lines') = n)
      /\ DOMAIN lines' = 1 .. Len(lines')
      /\ \A b \in 1 .. n : lines'[b] = lines[b]
      /\ \A b \in DOMAIN lines' : b > n => lines'[b].method # "barrier"
      /\ lines' = lines \/ Len(lines') = n + 1
  <2>1. CASE lines' = lines  BY <1>3, <2>1
  <2>2. ASSUME NEW line, lines' = Append(lines, line), line.method # "barrier"
        PROVE  /\ Len(lines') = n + 1 /\ DOMAIN lines' = 1 .. n + 1
               /\ \A b \in 1 .. n : lines'[b] = lines[b]
               /\ lines'[n + 1].method # "barrier"
    <3>1. PICK q : q = Append(lines, line)  OBVIOUS
    <3>2. Len(q) = n + 1 /\ DOMAIN q = 1 .. n + 1 /\ q[n + 1] = line /\ \A b \in 1 .. n : q[b] = lines[b]
      BY <1>0, <1>3, <3>1 DEF ChatTyped
    <3>3. QED  BY <2>2, <3>1, <3>2
  <2>3. mpc' = "run" => lines' = lines  OBVIOUS
  <2>4. CASE \E line : lines' = Append(lines, line) /\ line.method # "barrier"
    <3>1. /\ Len(lines') = n + 1 /\ DOMAIN lines' = 1 .. n + 1
          /\ \A b \in 1 .. n : lines'[b] = lines[b]
          /\ lines'[n + 1].method # "barrier"
      BY <2>2, <2>4
    <3>2. mpc' # "run"  BY <1>3, <2>3, <3>1
    <3>3. \A b \in DOMAIN lines' : b > n => b = n + 1  BY <3>1
    <3>4. QED  BY <3>1, <3>2, <3>3
  <2>5. QED  BY <2>1, <2>4
<1>c. PICK p : p = Len(lines')  OBVIOUS
<1>a. p \in Nat /\ p = Len(lines') /\ DOMAIN lines' = 1 .. p /\ (p = n \/ p = n + 1)
  <2>1. p = n \/ p = n + 1  BY <1>4, <1>c
  <2>2. p \in Nat  BY <2>1
  <2>3. QED  BY <1>4, <1>c, <2>1, <2>2
<1>5. FileRight(f)'
  <2>1. FileRight(f)  BY <1>1 DEF Layout
  <2>2. \A l \in DOMAIN f : f[l] \in 1 .. n /\ lines[f[l]].method = "barrier"
    BY <1>3, <2>1 DEF FileRight
  <2>3. \A l \in DOMAIN f : f[l] \in DOMAIN lines' /\ lines'[f[l]].method = "barrier"
    <3>1. TAKE l \in DOMAIN f
    <3>2. PICK b : b = f[l]  OBVIOUS
    <3>3. b \in 1 .. n /\ lines[b].method = "barrier"  BY <2>2, <3>2
    <3>4. b \in 1 .. p /\ lines'[b] = lines[b]
      <4>1. b \in 1 .. p  BY <1>a, <3>3
      <4>2. lines'[b] = lines[b]  BY <1>4, <3>3
      <4>3. QED  BY <4>1, <4>2
    <3>5. QED  BY <1>a, <3>2, <3>3, <3>4
  <2>4. \A b \in DOMAIN lines' : lines'[b].method = "barrier" => \E l \in DOMAIN f : f[l] = b
    <3>1. TAKE b \in DOMAIN lines'
    <3>2. HAVE lines'[b].method = "barrier"
    <3>3. b \in 1 .. n
      <4>1. b \in 1 .. p /\ ~(b > n)  BY <1>4, <1>a, <3>2
      <4>2. QED  BY <1>a, <4>1
    <3>4. lines[b].method = "barrier" /\ b \in DOMAIN lines  BY <1>3, <1>4, <3>2, <3>3
    <3>5. QED  BY <2>1, <3>4 DEF FileRight
  <2>5. QED  BY <2>1, <2>3, <2>4 DEF FileRight
<1>6. ASSUME NEW j, ItemRight(f, j) PROVE ItemRight(f, j)' /\ LineOf(f, j) <= n
  <2>1. LineOf(f, j) \in Nat /\ j.arg \in Nat  BY <1>2, <1>6, LineNat DEF ItemRight
  <2>2. LineOf(f, j) <= n  BY <1>3, <1>6 DEF ItemRight
  <2>3. j.method # "done"
    <3>1. ASSUME j.method = "done" PROVE FALSE
      <4>1. LineOf(f, j) = j.arg /\ j.arg > n  BY <1>3, <1>6, <3>1 DEF LineOf, IsGate, ItemRight
      <4>2. QED  BY <2>1, <2>2, <4>1
    <3>2. QED  BY <3>1
  <2>4. n <= p  BY <1>a
  <2>5. QED  BY <1>a, <1>6, <2>1, <2>2, <2>3, <2>4 DEF ItemRight
<1>7. ItemRight(f, i)' /\ i \in C!Items
  <2>1. CASE i.method = "wait"
    <3>1. i.arg \in DOMAIN f /\ LineOf(f, i) = f[i.arg]  BY <1>2, <2>1 DEF LineOf, IsGate
    <3>2. f[i.arg] \in 1 .. n  BY <1>1, <1>3, <3>1 DEF Layout, FileRight
    <3>3. QED  BY <1>a, <2>1, <3>1, <3>2 DEF ItemRight, Given
  <2>2. CASE i.method \in C!Commands
    <3>1. LineOf(f, i) = n + 1 /\ ~IsGate(i) /\ i.arg = n + 1  BY <1>3, <2>2 DEF LineOf, IsGate
    <3>2. mpc' = "parse" => p = n + 1  BY <1>4, <1>a, <2>2
    <3>3. i.method = "done" => p = n  BY <1>4, <1>a, <2>2
    <3>4. QED  BY <1>a, <2>2, <3>1, <3>2, <3>3 DEF ItemRight, Given
  <2>3. QED  BY <2>1, <2>2
<1>8. \A c \in Client : QueueRight(f, c)'
  <2>1. TAKE c \in Client
  <2>2. QueueRight(f, c)  BY <1>1 DEF Layout
  <2>3. ASSUME c \in S
        PROVE  /\ i.method = "wait" => queue[c] = <<>>
               /\ \A k \in DOMAIN queue[c] : LineOf(f, queue[c][k]) < LineOf(f, i)
    <3>1. CASE i.method = "wait"
      <4>1. c \notin known  BY <2>3, <3>1
      <4>2. queue[c] = <<>>  BY <1>0, <4>1 DEF EndsRight
      <4>3. QED  BY <4>2
    <3>2. CASE i.method \in C!Commands
      <4>1. LineOf(f, i) = n + 1  BY <1>3, <3>2 DEF LineOf, IsGate
      <4>2. \A k \in DOMAIN queue[c] : LineOf(f, queue[c][k]) \in Nat /\ LineOf(f, queue[c][k]) <= n
        BY <1>2, <1>6, <2>2, LineNat DEF QueueRight
      <4>3. QED  BY <3>2, <4>1, <4>2
    <3>3. QED  BY <3>1, <3>2
  <2>4. QED  BY <1>0, <1>2, <1>6, <1>7, <2>2, <2>3, GivenQueue
<1>9. ASSUME NEW c \in Client, NEW j \in C!Items, NEW l \in DOMAIN f
      PROVE  CommandRight(f, c, j, l)'
  <2>1. ASSUME Has(c, j)', j.method \in C!Commands, j.arg < f[l] PROVE Comes(c, l)'
    <3>1. Has(c, j)
      <4>1. CASE j # i  BY <1>0, <2>1, <4>1, GivenHas
      <4>2. CASE j = i
        <5>1. j.arg = n + 1 /\ f[l] \in 1 .. n  BY <1>1, <1>3, <2>1, <4>2 DEF Layout, FileRight
        <5>2. QED  BY <2>1, <5>1
      <4>3. QED  BY <4>1, <4>2
    <3>2. Comes(c, l)  BY <1>1, <2>1, <3>1 DEF Layout, CommandRight
    <3>3. PICK a : a = C!Item("arrive", l)  OBVIOUS
    <3>4. Has(c, a)'  BY <1>0, <3>2, <3>3, GivenHas DEF Comes
    <3>5. QED  BY <3>3, <3>4 DEF Comes
  <2>2. QED  BY <2>1 DEF CommandRight
<1>b. known' \subseteq Client  BY DEF ChatTyped
<1>10. GatesRight'  BY <1>0, <1>b, GivenGates
<1>11. EndsRight'
  <2>1. \A c \in Client : c \notin S => queue'[c] = queue[c]  BY DEF Given
  <2>2. S \subseteq known'  OBVIOUS
  <2>3. known \subseteq known' /\ cur' = cur  BY DEF Given
  <2>4. QED  BY <1>0, <2>1, <2>2, <2>3 DEF EndsRight
<1>12. QED  BY <1>5, <1>8, <1>9, <1>10, <1>11 DEF ChatInv, Layout

LEMMA ChatTypesRight == ChatTyped => C!TypeOK
<1> SUFFICES ASSUME ChatTyped PROVE C!TypeOK  OBVIOUS
<1>1. ASSUME NEW c \in Client
      PROVE  cur[c] \in C!Items /\ \A k \in DOMAIN queue[c] : queue[c][k] \in C!Items
  <2>1. PICK q \in Seq(C!Items) : q = queue[c]  BY DEF ChatTyped
  <2>2. \A k \in DOMAIN q : q[k] \in C!Items  OBVIOUS
  <2>3. QED  BY <2>1, <2>2 DEF ChatTyped
<1>2. ASSUME NEW l \in DOMAIN latches
      PROVE  latches[l] \in [remaining : 0 .. C!Cardinality(Client), done : BOOLEAN]
  <2>1. latches[l] \in Latch  BY DEF ChatTyped
  <2>2. PICK n : n = Cardinality(Client)  OBVIOUS
  <2>3. C!Cardinality(Client) = n  BY <2>2, SameCardinality
  <2>4. latches[l] \in [remaining : 0 .. n, done : BOOLEAN]  BY <2>1, <2>2 DEF Latch
  <2>5. QED  BY <2>3, <2>4
<1>3. QED  BY <1>1, <1>2 DEF ChatTyped, C!TypeOK

LEMMA ReadsTyped ==
  ASSUME ChatTyped, NEW line \in Line,
         lines' = Append(lines, line) \/ lines' = lines, Len(lines') <= MaxLines,
         NEW S, NEW i, Given(S, i), latches' \in Seq(Latch),
         known \subseteq known', known' \subseteq Client, mpc' \in {"parse", "run"},
         UNCHANGED <<started, writer_closed, reader_closed, done, status, bad, server>>
  PROVE  ChatTyped'
<1>1. \A c \in Client : Append(queue[c], i) \in Seq(C!Items)
  BY DEF ChatTyped, Given
<1>2. queue' \in [Client -> Seq(C!Items)] /\ cur' \in [Client -> C!Items]
  BY <1>1 DEF ChatTyped, Given
<1>3. lines' \in Seq(Line)
  <2>1. lines \in Seq(Line)  BY DEF ChatTyped
  <2>2. Append(lines, line) \in Seq(Line)  BY <2>1
  <2>3. QED  BY <2>1, <2>2
<1>4. QED  BY <1>2, <1>3 DEF ChatTyped

LEMMA ReadsChat ==
  ASSUME ChatInv,
         (\E c \in Client : C!NewConnection(c) \/ \E m \in Method \cup {"type"} : C!Command(c, m))
           \/ C!EndOfFile
  PROVE  ChatInv'
<1> USE ChatConstants
<1>0. ChatTyped /\ GatesRight /\ EndsRight  BY DEF ChatInv
<1>1. PICK n \in Nat : n = Len(lines)  BY <1>0 DEF ChatTyped
<1>2. PICK L \in Nat : L = Len(latches) /\ DOMAIN latches = 1 .. L  BY <1>0 DEF ChatTyped
<1>3. known \subseteq Client /\ queue \in [Client -> Seq(C!Items)]
  BY <1>0 DEF ChatTyped
<1>4. \A line : lines' = Append(lines, line) => lines' # lines
  <2>1. ASSUME NEW line, lines' = Append(lines, line) PROVE Len(lines') = n + 1
    BY <1>0, <1>1, <2>1 DEF ChatTyped
  <2>2. QED  BY <1>1, <2>1
<1>8. ASSUME Len(lines) < MaxLines, NEW line, lines' = Append(lines, line)
      PROVE  Len(lines') <= MaxLines
  BY <1>0, <1>1, <1>8 DEF ChatTyped
<1>9. latches \in Seq(Latch)
  BY <1>0 DEF ChatTyped
<1>5. ASSUME NEW c \in Client, C!NewConnection(c) PROVE ChatInv'
  <2>1. /\ c \notin known /\ mpc = "parse" /\ known' = known \cup {c}
        /\ lines' = Append(lines, [client |-> c, method |-> "type"])
        /\ UNCHANGED <<cur, started, writer_closed, reader_closed, done, bad, server, latches, status, mpc>>
    BY <1>5 DEF C!NewConnection, C!ReadLine, C!conns
  <2>0. PICK line : line = [client |-> c, method |-> "type"]  OBVIOUS
  <2>2. \E x : lines' = Append(lines, x) /\ x.method # "barrier"
    <3>1. line.method # "barrier"  BY <2>0
    <3>2. QED  BY <2>0, <2>1, <3>1
  <2>a. lines' = Append(lines, line) /\ line \in Line
    BY <2>0, <2>1 DEF Line
  <2>b. Len(lines') <= MaxLines  BY <1>5, <1>8, <2>a DEF C!NewConnection, C!ReadLine
  <2>3. lines' # lines  BY <1>4, <2>1
  <2>4. CASE latches = <<>>
    <3>1. queue' = queue  BY <1>5, <2>4 DEF C!NewConnection
    <3>2. PICK i : i = C!Item("type", n + 1)  OBVIOUS
    <3>3. i \in C!Items /\ i.method = "type" /\ i.arg = n + 1 /\ "type" \in C!Commands
      BY <3>2 DEF C!Item, C!Items, C!Commands
    <3>4. Given({}, i)  BY <1>3, <2>1, <3>1, <3>3 DEF Given
    <3>5. DOMAIN latches = {}  BY <2>4
    <3>6. ChatTyped'  BY <1>0, <1>3, <1>9, <2>1, <2>a, <2>b, <3>4, ReadsTyped
    <3>7. QED  BY <1>1, <2>1, <2>2, <2>3, <3>3, <3>4, <3>5, <3>6, GivenKeeps
  <2>5. CASE latches # <<>>
    <3>1. L # 0  BY <1>0, <1>2, <2>5 DEF ChatTyped
    <3>2. PICK i : i = C!Item("wait", L)  OBVIOUS
    <3>3. i \in C!Items /\ i.method = "wait" /\ i.arg = L
      BY <3>2 DEF C!Item, C!Items
    <3>4. queue' = [queue EXCEPT ![c] = Append(@, i)]
      BY <1>5, <1>2, <2>5, <3>2 DEF C!NewConnection
    <3>5. Given({c}, i)  BY <1>3, <2>1, <3>3, <3>4 DEF Given
    <3>6. ASSUME NEW l \in DOMAIN latches PROVE Before(c, l)'
      <4>1. Has(c, i)'  BY <1>0, <3>5, GivenHas
      <4>2. L >= l /\ L \in DOMAIN latches'  BY <1>2, <2>1, <3>1
      <4>3. QED  BY <3>2, <4>1, <4>2 DEF Before, C!Item
    <3>7. ChatTyped'  BY <1>0, <1>3, <1>9, <2>1, <2>a, <2>b, <3>5, ReadsTyped
    <3>8. QED  BY <1>1, <1>2, <2>1, <2>2, <2>3, <3>1, <3>3, <3>5, <3>6, <3>7, GivenKeeps
  <2>6. QED  BY <2>4, <2>5
<1>6. ASSUME NEW c \in Client, NEW m \in Method \cup {"type"}, C!Command(c, m) PROVE ChatInv'
  <2>1. /\ c \in known /\ mpc = "parse" /\ known' = known
        /\ lines' = Append(lines, [client |-> c, method |-> m])
        /\ UNCHANGED <<cur, started, writer_closed, reader_closed, done, bad, server, latches, status, mpc>>
    BY <1>6 DEF C!Command, C!ReadLine, C!conns
  <2>2. m \in C!Commands /\ m # "done"
    BY ChatAssumption DEF C!Commands, C!MethodAssumption
  <2>0. PICK line : line = [client |-> c, method |-> m]  OBVIOUS
  <2>3. \E x : lines' = Append(lines, x) /\ x.method # "barrier"
    <3>1. line.method # "barrier"  BY <2>0, <2>2
    <3>2. QED  BY <2>0, <2>1, <3>1
  <2>a. lines' = Append(lines, line) /\ line \in Line
    BY <2>0, <2>1 DEF Line
  <2>b. Len(lines') <= MaxLines  BY <1>6, <1>8, <2>a DEF C!Command, C!ReadLine
  <2>4. lines' # lines  BY <1>4, <2>1
  <2>5. PICK i : i = C!Item(m, n + 1)  OBVIOUS
  <2>6. i \in C!Items /\ i.method = m /\ i.arg = n + 1
    BY <2>2, <2>5 DEF C!Item, C!Items
  <2>7. queue' = [queue EXCEPT ![c] = Append(@, i)]  BY <1>1, <1>6, <2>5 DEF C!Command
  <2>8. Given({c}, i)  BY <1>3, <2>1, <2>6, <2>7 DEF Given
  <2>9. ChatTyped'  BY <1>0, <1>3, <1>9, <2>1, <2>a, <2>b, <2>8, ReadsTyped
  <2>10. QED  BY <1>1, <2>1, <2>2, <2>3, <2>4, <2>6, <2>8, <2>9, GivenKeeps
<1>7. CASE C!EndOfFile
  <2>1. /\ mpc = "parse" /\ mpc' = "run" /\ C!Put(C!Item("done", Len(lines) + 1))
        /\ UNCHANGED <<lines, known, cur, started, writer_closed, reader_closed, done, bad, server, latches, status>>
    BY <1>7 DEF C!EndOfFile, C!conns, C!file
  <2>2. PICK i : i = C!Item("done", n + 1)  OBVIOUS
  <2>3. i \in C!Items /\ i.method = "done" /\ i.arg = n + 1 /\ "done" \in C!Commands
    BY <2>2 DEF C!Item, C!Items, C!Commands
  <2>4. Given(known, i)  BY <1>1, <1>3, <2>1, <2>2, <2>3 DEF Given, C!Put
  <2>5. PICK line : line = [method |-> "barrier"]  OBVIOUS
  <2>6. line \in Line /\ Len(lines') <= MaxLines
    BY <1>0, <2>1, <2>5 DEF ChatTyped, Line
  <2>7. ChatTyped'  BY <1>0, <1>3, <1>9, <2>1, <2>4, <2>6, ReadsTyped
  <2>8. QED  BY <1>1, <2>1, <2>3, <2>4, <2>7, GivenKeeps
<1>10. QED  BY <1>5, <1>6, <1>7

LEMMA BarrierKeeps == ASSUME ChatInv, C!Barrier PROVE ChatInv'
<1> USE ChatConstants
<1>0. ChatTyped /\ GatesRight /\ EndsRight  BY DEF ChatInv
<1>1. PICK f : Layout(f)  BY DEF ChatInv
<1>2. PICK n \in Nat : n = Len(lines) /\ DOMAIN lines = 1 .. n  BY <1>0 DEF ChatTyped
<1>3. PICK L \in Nat : L = Len(latches) /\ DOMAIN latches = 1 .. L  BY <1>0 DEF ChatTyped
<1>4. f \in Seq(Nat) /\ Len(f) = L /\ DOMAIN f = 1 .. L  BY <1>1, <1>3 DEF Layout, FileRight
<1>5. PICK line : line = [method |-> "barrier"]  OBVIOUS
<1>6. PICK i : i = C!Item("arrive", L + 1)  OBVIOUS
<1>7. PICK x : x = [remaining |-> Cardinality(known), done |-> FALSE]  OBVIOUS
<1>8. /\ mpc = "parse" /\ mpc' = "parse" /\ Len(lines) < MaxLines /\ lines' = Append(lines, line)
      /\ latches' = Append(latches, x) /\ C!Put(i)
      /\ UNCHANGED <<known, cur, started, writer_closed, reader_closed, done, bad, server, status>>
  <2>1. C!Cardinality(known) = Cardinality(known)  BY SameCardinality
  <2>2. QED  BY <1>3, <1>5, <1>6, <1>7, <2>1 DEF C!Barrier, C!ReadLine, C!conns
<1>9. i \in C!Items /\ i.method = "arrive" /\ i.arg = L + 1 /\ line.method = "barrier" /\ line \in Line
  BY <1>5, <1>6 DEF C!Item, C!Items, Line
<1>10. known \subseteq Client /\ Given(known, i)
  BY <1>0, <1>8, <1>9 DEF Given, C!Put, ChatTyped
<1>11. IsFiniteSet(known) /\ Cardinality(known) \in Nat /\ Cardinality(known) <= Cardinality(Client)
       /\ Cardinality(Client) \in Nat
  BY <1>10, FS_Subset, FS_CardinalityType
<1>12. /\ Len(lines') = n + 1 /\ DOMAIN lines' = 1 .. n + 1 /\ lines'[n + 1].method = "barrier"
       /\ \A b \in 1 .. n : lines'[b] = lines[b]
  <2>1. lines \in Seq(Line)  BY <1>0 DEF ChatTyped
  <2>2. QED  BY <1>2, <1>8, <1>9, <2>1
<1>13. /\ latches' \in Seq(Latch) /\ Len(latches') = L + 1 /\ DOMAIN latches' = 1 .. L + 1
       /\ latches'[L + 1] = x /\ \A l \in 1 .. L : latches'[l] = latches[l]
  <2>1. x \in Latch  BY <1>7, <1>11 DEF Latch
  <2>2. latches \in Seq(Latch)  BY <1>0 DEF ChatTyped
  <2>3. QED  BY <1>3, <1>8, <2>1, <2>2
<1>14. ChatTyped'
  <2>1. Len(lines') <= MaxLines  BY <1>2, <1>8, <1>12
  <2>2. QED  BY <1>0, <1>8, <1>9, <1>10, <1>13, <2>1, ReadsTyped
<1>15. PICK g : g = Append(f, n + 1)  OBVIOUS
<1>16. /\ g \in Seq(Nat) /\ Len(g) = L + 1 /\ DOMAIN g = 1 .. L + 1 /\ g[L + 1] = n + 1
       /\ \A l \in 1 .. L : g[l] = f[l]
  BY <1>4, <1>15
<1>17. \A l \in 1 .. L : f[l] \in 1 .. n /\ lines[f[l]].method = "barrier"
  BY <1>1, <1>2, <1>4 DEF Layout, FileRight
<1>18. FileRight(g)'
  <2>1. ASSUME NEW l \in DOMAIN g PROVE g[l] \in 1 .. n + 1 /\ lines'[g[l]].method = "barrier"
    <3>1. CASE l = L + 1  BY <1>12, <1>16, <3>1
    <3>2. CASE l # L + 1
      <4>1. PICK b : b = f[l]  OBVIOUS
      <4>2. g[l] = b /\ b \in 1 .. n /\ lines[b].method = "barrier"  BY <1>16, <1>17, <3>2, <4>1
      <4>3. lines'[b] = lines[b]  BY <1>12, <4>2
      <4>4. QED  BY <4>2, <4>3
    <3>3. QED  BY <3>1, <3>2
  <2>2. ASSUME NEW b \in 1 .. n + 1, lines'[b].method = "barrier" PROVE \E l \in DOMAIN g : g[l] = b
    <3>1. CASE b = n + 1  BY <1>16, <3>1
    <3>2. CASE b # n + 1
      <4>1. b \in 1 .. n /\ lines[b].method = "barrier"  BY <1>12, <2>2, <3>2
      <4>2. PICK l \in DOMAIN f : f[l] = b  BY <1>1, <1>2, <4>1 DEF Layout, FileRight
      <4>3. QED  BY <1>4, <1>16, <4>2
    <3>3. QED  BY <3>1, <3>2
  <2>3. ASSUME NEW l \in DOMAIN g, NEW m \in DOMAIN g, l < m PROVE g[l] < g[m]
    <3>1. l \in 1 .. L /\ g[l] = f[l]  BY <1>16, <2>3
    <3>2. CASE m = L + 1  BY <1>16, <1>17, <3>1, <3>2
    <3>3. CASE m # L + 1
      <4>1. m \in 1 .. L /\ g[m] = f[m]  BY <1>16, <3>3
      <4>2. f[l] < f[m]  BY <1>1, <1>4, <2>3, <3>1, <4>1 DEF Layout, FileRight
      <4>3. QED  BY <3>1, <4>1, <4>2
    <3>4. QED  BY <3>2, <3>3
  <2>4. QED  BY <1>12, <1>13, <1>16, <2>1, <2>2, <2>3 DEF FileRight
<1>19. ASSUME NEW j, ItemRight(f, j)
       PROVE  ItemRight(g, j)' /\ LineOf(g, j) = LineOf(f, j) /\ LineOf(f, j) <= n
  <2>1. LineOf(f, j) \in Nat /\ j.arg \in Nat  BY <1>4, <1>19, LineNat DEF ItemRight
  <2>2. LineOf(f, j) <= n  BY <1>2, <1>8, <1>19 DEF ItemRight
  <2>3. j.method # "done"
    <3>1. ASSUME j.method = "done" PROVE FALSE
      <4>1. LineOf(f, j) = j.arg /\ j.arg > n  BY <1>2, <1>19, <3>1 DEF LineOf, IsGate, ItemRight
      <4>2. QED  BY <2>1, <2>2, <4>1
    <3>2. QED  BY <3>1
  <2>4. LineOf(g, j) = LineOf(f, j)  BY <1>4, <1>16, <1>19 DEF ItemRight, LineOf
  <2>5. IsGate(j) => j.arg \in DOMAIN g  BY <1>4, <1>16, <1>19 DEF ItemRight
  <2>6. LineOf(g, j) <= n + 1 /\ LineOf(g, j) <= n + 1 + 1  BY <2>1, <2>2, <2>4
  <2>7. QED  BY <1>12, <1>19, <2>2, <2>3, <2>4, <2>5, <2>6 DEF ItemRight
<1>20. ItemRight(g, i)' /\ LineOf(g, i) = n + 1
  BY <1>9, <1>12, <1>16 DEF ItemRight, LineOf, IsGate
<1>21. ASSUME NEW c \in Client PROVE QueueRight(g, c)'
  <2>1. QueueRight(f, c)  BY <1>1 DEF Layout
  <2>2. \A k \in DOMAIN queue[c] : LineOf(f, queue[c][k]) < LineOf(g, i)
    <3>1. TAKE k \in DOMAIN queue[c]
    <3>2. PICK j : j = queue[c][k]  OBVIOUS
    <3>3. ItemRight(f, j)  BY <2>1, <3>2 DEF QueueRight
    <3>4. LineOf(f, j) \in Nat /\ LineOf(f, j) <= n  BY <1>4, <1>19, <3>3, LineNat
    <3>5. QED  BY <1>20, <3>2, <3>4
  <2>3. QED  BY <1>0, <1>4, <1>8, <1>9, <1>10, <1>16, <1>19, <1>20, <2>1, <2>2, GivenQueue
<1>22. ASSUME NEW c \in Client, NEW j
       PROVE  Has(c, j)' <=> Has(c, j) \/ (c \in known /\ j = i)
  BY <1>0, <1>10, GivenHas
<1>23. ASSUME NEW c \in Client, NEW l \in 1 .. L PROVE Comes(c, l)' <=> Comes(c, l)
  <2>1. PICK j : j = C!Item("arrive", l)  OBVIOUS
  <2>2. j # i  BY <1>6, <2>1 DEF C!Item
  <2>3. QED  BY <1>22, <2>1, <2>2 DEF Comes
<1>24. ASSUME NEW c \in Client PROVE Comes(c, L + 1)' <=> c \in known
  <2>1. ~Has(c, i)
    <3>1. ASSUME Has(c, i) PROVE ItemRight(f, i)
      <4>1. cur[c] = C!None  BY <1>0, <1>8 DEF EndsRight
      <4>2. cur[c] # i  BY <1>9, <4>1 DEF C!None
      <4>3. QED  BY <1>1, <3>1, <4>2 DEF Layout, QueueRight, Has
    <3>2. ItemRight(f, i) => i.arg \in 1 .. L  BY <1>4, <1>9 DEF ItemRight, IsGate
    <3>3. QED  BY <1>9, <3>1, <3>2
  <2>2. QED  BY <1>6, <1>22, <2>1 DEF Comes
<1>25. ASSUME NEW c \in Client, NEW j \in C!Items, NEW l \in DOMAIN g
       PROVE  CommandRight(g, c, j, l)'
  <2>1. ASSUME Has(c, j)', j.method \in C!Commands, j.arg < g[l] PROVE Comes(c, l)'
    <3>1. Has(c, j)
      <4>1. j # i  BY <1>9, <2>1
      <4>2. QED  BY <1>22, <2>1, <4>1
    <3>2. CASE l = L + 1
      <4>1. c \in known
        <5>1. ASSUME c \notin known PROVE FALSE
          <6>1. queue[c] = <<>> /\ cur[c] = C!None  BY <1>0, <5>1 DEF EndsRight
          <6>2. j = C!None  BY <3>1, <6>1 DEF Has
          <6>3. QED  BY <2>1, <6>2 DEF C!None
        <5>2. QED  BY <5>1
      <4>2. QED  BY <1>24, <3>2, <4>1
    <3>3. CASE l # L + 1
      <4>1. l \in DOMAIN f /\ g[l] = f[l] /\ l \in 1 .. L  BY <1>4, <1>16, <3>3
      <4>2. Comes(c, l)  BY <1>1, <2>1, <3>1, <4>1 DEF Layout, CommandRight
      <4>3. QED  BY <1>23, <4>1, <4>2
    <3>4. QED  BY <3>2, <3>3
  <2>2. QED  BY <2>1 DEF CommandRight
<1>26. GatesRight'
  <2>1. ASSUME NEW c \in known', NEW l \in DOMAIN latches'
        PROVE  latches'[l].done \/ cur'[c].method = "raised" \/ Before(c, l)'
    <3>1. c \in known /\ c \in Client  BY <1>8, <1>10, <2>1
    <3>2. CASE l = L + 1  BY <1>24, <3>1, <3>2 DEF Before
    <3>3. CASE l # L + 1
      <4>1. l \in 1 .. L /\ latches'[l] = latches[l]  BY <1>13, <3>3
      <4>2. CASE Comes(c, l)  BY <1>23, <3>1, <4>1, <4>2 DEF Before
      <4>3. ASSUME NEW m \in DOMAIN latches, m >= l, Has(c, C!Item("wait", m)) PROVE Before(c, l)'
        <5>1. PICK j : j = C!Item("wait", m)  OBVIOUS
        <5>2. Has(c, j)'  BY <1>22, <3>1, <4>3, <5>1
        <5>3. m \in DOMAIN latches'  BY <1>3, <1>13
        <5>4. QED  BY <4>3, <5>1, <5>2, <5>3 DEF Before, C!Item
      <4>4. QED  BY <1>0, <1>3, <1>8, <3>1, <4>1, <4>2, <4>3 DEF GatesRight, Before
    <3>4. QED  BY <3>2, <3>3
  <2>2. ASSUME NEW l \in DOMAIN latches', NEW m \in DOMAIN latches', l < m, latches'[m].done
        PROVE  latches'[l].done
    <3>1. m # L + 1  BY <1>7, <1>13, <2>2
    <3>2. l \in 1 .. L /\ m \in 1 .. L  BY <1>13, <2>2, <3>1
    <3>3. QED  BY <1>0, <1>3, <1>13, <2>2, <3>2 DEF GatesRight
  <2>3. ASSUME NEW l \in DOMAIN latches'
        PROVE  /\ latches'[l].remaining = Cardinality(Coming(l)')
               /\ latches'[l].done => latches'[l].remaining = 0
    <3>1. CASE l = L + 1
      <4>1. Coming(l)' = known  BY <1>10, <1>24, <3>1 DEF Coming
      <4>2. QED  BY <1>7, <1>13, <3>1, <4>1
    <3>2. CASE l # L + 1
      <4>1. l \in 1 .. L /\ latches'[l] = latches[l]  BY <1>13, <3>2
      <4>2. Coming(l)' = Coming(l)  BY <1>23, <4>1 DEF Coming
      <4>3. QED  BY <1>0, <1>3, <4>1, <4>2 DEF GatesRight
    <3>3. QED  BY <3>1, <3>2
  <2>4. QED  BY <2>1, <2>2, <2>3 DEF GatesRight
<1>27. EndsRight'
  <2>1. \A c \in Client : c \notin known => queue'[c] = queue[c]  BY <1>10 DEF Given
  <2>2. QED  BY <1>0, <1>8, <2>1 DEF EndsRight
<1>28. QED  BY <1>14, <1>18, <1>21, <1>25, <1>26, <1>27 DEF ChatInv, Layout

(* A task gets its next item.                                              *)
LEMMA GetKeeps == ASSUME ChatInv, NEW c \in Client, C!Get(c) PROVE ChatInv'
<1> USE ChatConstants
<1>0. ChatTyped /\ GatesRight /\ EndsRight  BY DEF ChatInv
<1>1. PICK f : Layout(f)  BY DEF ChatInv
<1>2. PICK q \in Seq(C!Items) : q = queue[c]  BY <1>0 DEF ChatTyped
<1>3. PICK r : r = Tail(q)  OBVIOUS
<1>4. PICK h : h = Head(q)  OBVIOUS
<1>5. /\ mpc = "run" /\ cur[c] = C!None /\ q # <<>>
      /\ cur' = [cur EXCEPT ![c] = h] /\ queue' = [queue EXCEPT ![c] = r]
      /\ UNCHANGED <<lines, known, latches, started, writer_closed, reader_closed, done, bad, status, mpc, server>>
  BY <1>2, <1>3, <1>4 DEF C!Get, C!file
<1>6. PICK n \in Nat : n = Len(q) /\ DOMAIN q = 1 .. n  OBVIOUS
<1>7. /\ n > 0 /\ r \in Seq(C!Items) /\ DOMAIN r = 1 .. n - 1 /\ h = q[1] /\ h \in C!Items
      /\ \A k \in 1 .. n - 1 : r[k] = q[k + 1]
  BY <1>3, <1>4, <1>5, <1>6
<1>8. /\ cur'[c] = h /\ queue'[c] = r
      /\ \A d \in Client : d # c => cur'[d] = cur[d] /\ queue'[d] = queue[d]
      /\ cur' \in [Client -> C!Items] /\ queue' \in [Client -> Seq(C!Items)]
  BY <1>0, <1>5, <1>7 DEF ChatTyped
<1>9. ChatTyped'  BY <1>0, <1>5, <1>8 DEF ChatTyped
<1>10. ASSUME NEW d \in Client, NEW j, j # C!None PROVE Has(d, j)' <=> Has(d, j)
  <2>1. CASE d # c  BY <1>8, <2>1 DEF Has
  <2>2. CASE d = c
    <3>1. (\E k \in DOMAIN q : q[k] = j) <=> h = j \/ \E k \in DOMAIN r : r[k] = j
      <4>1. ASSUME NEW k \in DOMAIN q, q[k] = j PROVE h = j \/ \E m \in DOMAIN r : r[m] = j
        <5>1. CASE k = 1  BY <1>7, <4>1, <5>1
        <5>2. CASE k # 1
          <6>1. k - 1 \in 1 .. n - 1  BY <1>6, <5>2
          <6>2. r[k - 1] = q[k - 1 + 1] /\ k - 1 + 1 = k  BY <1>6, <1>7, <6>1
          <6>3. QED  BY <1>7, <4>1, <6>1, <6>2
        <5>3. QED  BY <5>1, <5>2
      <4>2. ASSUME h = j PROVE \E k \in DOMAIN q : q[k] = j
        <5>1. 1 \in DOMAIN q /\ q[1] = j  BY <1>6, <1>7, <4>2
        <5>2. QED  BY <5>1
      <4>3. ASSUME NEW k \in DOMAIN r, r[k] = j PROVE \E m \in DOMAIN q : q[m] = j
        <5>1. k \in 1 .. n - 1 /\ n \in Nat  BY <1>6, <1>7
        <5>2. k + 1 \in 1 .. n  BY <5>1
        <5>3. q[k + 1] = j /\ k + 1 \in DOMAIN q  BY <1>6, <1>7, <4>3, <5>1, <5>2
        <5>4. QED  BY <5>3
      <4>4. QED  BY <4>1, <4>2, <4>3
    <3>2. Has(d, j) <=> \E k \in DOMAIN q : q[k] = j  BY <1>2, <1>5, <1>10, <2>2 DEF Has
    <3>3. Has(d, j)' <=> h = j \/ \E k \in DOMAIN r : r[k] = j  BY <1>8, <2>2 DEF Has
    <3>4. QED  BY <3>1, <3>2, <3>3
  <2>3. QED  BY <2>1, <2>2
<1>11. ASSUME NEW d \in Client, NEW l PROVE Comes(d, l)' <=> Comes(d, l)
  <2>1. PICK j : j = C!Item("arrive", l)  OBVIOUS
  <2>2. j # C!None  BY <2>1 DEF C!Item, C!None
  <2>3. QED  BY <1>10, <2>1, <2>2 DEF Comes
<1>12. ASSUME NEW j PROVE ItemRight(f, j)' <=> ItemRight(f, j)
  BY <1>5 DEF ItemRight
<1>13. FileRight(f)'  BY <1>1, <1>5 DEF Layout, FileRight
<1>14. ASSUME NEW d \in Client PROVE QueueRight(f, d)'
  <2>1. QueueRight(f, d)  BY <1>1 DEF Layout
  <2>2. CASE d # c  BY <1>8, <1>12, <2>1, <2>2 DEF QueueRight, Busy
  <2>3. CASE d = c
    <3>1. /\ \A k \in 1 .. n : ItemRight(f, q[k])
          /\ \A k, m \in 1 .. n : k < m => LineOf(f, q[k]) < LineOf(f, q[m])
          /\ \A k \in 1 .. n : q[k].method = "wait" => k = 1
      BY <1>2, <1>6, <2>1, <2>3 DEF QueueRight
    <3>2. \A k \in 1 .. n - 1 : k + 1 \in 1 .. n /\ k + 1 > 1  OBVIOUS
    <3>3. \A k \in DOMAIN r : ItemRight(f, r[k])' /\ LineOf(f, h) < LineOf(f, r[k]) /\ r[k].method # "wait"
      <4>1. TAKE k \in DOMAIN r
      <4>2. k + 1 \in 1 .. n /\ k + 1 > 1 /\ r[k] = q[k + 1] /\ 1 \in 1 .. n  BY <1>7, <3>2
      <4>3. QED  BY <1>7, <1>12, <3>1, <4>2
    <3>4. ASSUME NEW k \in DOMAIN r, NEW m \in DOMAIN r, k < m PROVE LineOf(f, r[k]) < LineOf(f, r[m])
      <4>1. k + 1 \in 1 .. n /\ m + 1 \in 1 .. n /\ k + 1 < m + 1  BY <1>7, <3>4
      <4>2. QED  BY <1>7, <3>1, <3>4, <4>1
    <3>5. ItemRight(f, h)'  BY <1>7, <1>12, <3>1
    <3>6. QED  BY <1>8, <2>3, <3>3, <3>4, <3>5 DEF QueueRight
  <2>4. QED  BY <2>2, <2>3
<1>15. ASSUME NEW d \in Client, NEW j \in C!Items, NEW l \in DOMAIN f PROVE CommandRight(f, d, j, l)'
  <2>1. ASSUME Has(d, j)', j.method \in C!Commands, j.arg < f[l] PROVE Comes(d, l)'
    <3>1. j # C!None  BY <2>1 DEF C!None
    <3>2. Has(d, j)  BY <1>10, <2>1, <3>1
    <3>3. Comes(d, l)  BY <1>1, <2>1, <3>2 DEF Layout, CommandRight
    <3>4. QED  BY <1>11, <3>3
  <2>2. QED  BY <2>1 DEF CommandRight
<1>16. GatesRight'
  <2>1. ASSUME NEW d \in known', NEW l \in DOMAIN latches'
        PROVE  latches'[l].done \/ cur'[d].method = "raised" \/ Before(d, l)'
    <3>1. d \in known /\ d \in Client  BY <1>0, <1>5, <2>1 DEF ChatTyped
    <3>2. cur[d].method = "raised" => cur'[d].method = "raised"  BY <1>5, <1>8 DEF C!None
    <3>3. CASE Comes(d, l)  BY <1>11, <3>1, <3>3 DEF Before
    <3>4. ASSUME NEW m \in DOMAIN latches, m >= l, Has(d, C!Item("wait", m)) PROVE Before(d, l)'
      <4>1. PICK j : j = C!Item("wait", m)  OBVIOUS
      <4>2. j # C!None  BY <4>1 DEF C!Item, C!None
      <4>3. Has(d, j)'  BY <1>10, <3>1, <3>4, <4>1, <4>2
      <4>4. QED  BY <1>5, <3>4, <4>1, <4>3 DEF Before, C!Item
    <3>5. QED  BY <1>0, <1>5, <2>1, <3>1, <3>2, <3>3, <3>4 DEF GatesRight, Before
  <2>2. \A l : Coming(l)' = Coming(l)  BY <1>11 DEF Coming
  <2>3. QED  BY <1>0, <1>5, <2>1, <2>2 DEF GatesRight
<1>17. EndsRight'
  <2>1. c \in known /\ c \notin done  BY <1>0, <1>2, <1>5 DEF EndsRight
  <2>2. QED  BY <1>0, <1>5, <1>8, <2>1 DEF EndsRight
<1>18. QED  BY <1>9, <1>13, <1>14, <1>15, <1>16, <1>17 DEF ChatInv, Layout

(* A task has carried out what it was at, or has ended with an exception.  *)
LEMMA FinishKeeps ==
  ASSUME ChatInv, NEW c \in Client, mpc = "run", NEW y \in {C!None, C!Item("raised", 0)},
         cur[c].method \notin {"none", "raised", "arrive"}, cur' = [cur EXCEPT ![c] = y],
         cur[c].method = "wait" => latches[cur[c].arg].done,
         UNCHANGED <<lines, known, queue, latches, mpc, server>>,
         started' \subseteq started \cup {c}, started \subseteq started',
         writer_closed' \subseteq started', reader_closed' \subseteq started',
         \/ done' = done
         \/ done' = done \cup {c} /\ cur[c].method = "done" /\ y = C!None,
         status' \in {"OK", "WA", "PE", "CF"}, bad' \in BOOLEAN,
         bad' => status' # "OK", status' \in {"WA", "PE"} => bad'
  PROVE  ChatInv'
<1> USE ChatConstants
<1>0. ChatTyped /\ GatesRight /\ EndsRight  BY DEF ChatInv
<1>1. PICK f : Layout(f)  BY DEF ChatInv
<1>2. PICK h \in C!Items : h = cur[c]  BY <1>0 DEF ChatTyped
<1>3. y \in C!Items /\ y.method \in {"none", "raised"}  BY DEF C!None, C!Item, C!Items
<1>4. /\ cur'[c] = y /\ cur' \in [Client -> C!Items]
      /\ \A d \in Client : d # c => cur'[d] = cur[d]
  BY <1>0, <1>3 DEF ChatTyped
<1>5. c \in known  BY <1>0, <1>2 DEF EndsRight, C!None
<1>6. ChatTyped'
  <2>1. started' \subseteq known' /\ done' \subseteq known' /\ known' \subseteq Client
    BY <1>0, <1>5 DEF ChatTyped
  <2>2. QED  BY <1>0, <1>4, <2>1 DEF ChatTyped
<1>7. ASSUME NEW d \in Client, NEW j, j.method \notin {"none", "raised"}
      PROVE  /\ Has(d, j)' => Has(d, j)
             /\ Has(d, j) => Has(d, j)' \/ (d = c /\ j = h)
  <2>1. j # y  BY <1>3, <1>7
  <2>2. CASE d = c  BY <1>2, <1>4, <2>1, <2>2 DEF Has
  <2>3. CASE d # c  BY <1>4, <2>3 DEF Has
  <2>4. QED  BY <2>2, <2>3
<1>8. ASSUME NEW d \in Client, NEW l PROVE Comes(d, l)' <=> Comes(d, l)
  <2>1. PICK j : j = C!Item("arrive", l)  OBVIOUS
  <2>2. j.method = "arrive" /\ j # h  BY <1>2, <2>1 DEF C!Item
  <2>3. QED  BY <1>7, <2>1, <2>2 DEF Comes
<1>9. ASSUME NEW j PROVE ItemRight(f, j)' <=> ItemRight(f, j)  BY DEF ItemRight
<1>10. FileRight(f)'  BY <1>1 DEF Layout, FileRight
<1>11. ASSUME NEW d \in Client PROVE QueueRight(f, d)'
  <2>1. QueueRight(f, d)  BY <1>1 DEF Layout
  <2>2. CASE d # c  BY <1>4, <1>9, <2>1, <2>2 DEF QueueRight, Busy
  <2>3. CASE d = c
    <3>1. \A k \in DOMAIN queue[d] : queue[d][k].method # "wait"
      BY <1>2, <2>1, <2>3 DEF QueueRight, C!None
    <3>2. ~Busy(d)'  BY <1>3, <1>4, <2>3 DEF Busy
    <3>3. QED  BY <1>9, <2>1, <3>1, <3>2 DEF QueueRight
  <2>4. QED  BY <2>2, <2>3
<1>12. ASSUME NEW d \in Client, NEW j \in C!Items, NEW l \in DOMAIN f PROVE CommandRight(f, d, j, l)'
  <2>1. ASSUME Has(d, j)', j.method \in C!Commands, j.arg < f[l] PROVE Comes(d, l)'
    <3>1. j.method \notin {"none", "raised"}  BY <2>1
    <3>2. Has(d, j)  BY <1>7, <2>1, <3>1
    <3>3. Comes(d, l)  BY <1>1, <2>1, <3>2 DEF Layout, CommandRight
    <3>4. QED  BY <1>8, <3>3
  <2>2. QED  BY <2>1 DEF CommandRight
<1>13. GatesRight'
  <2>1. ASSUME NEW d \in known', NEW l \in DOMAIN latches'
        PROVE  latches'[l].done \/ cur'[d].method = "raised" \/ Before(d, l)'
    <3>1. d \in known /\ d \in Client  BY <1>0, <2>1 DEF ChatTyped
    <3>2. cur[d].method = "raised" => cur'[d].method = "raised"  BY <1>2, <1>4, <3>1
    <3>3. CASE Comes(d, l)  BY <1>8, <3>1, <3>3 DEF Before
    <3>4. ASSUME NEW m \in DOMAIN latches, m >= l, Has(d, C!Item("wait", m))
          PROVE  Before(d, l)' \/ latches'[l].done
      <4>1. PICK j : j = C!Item("wait", m)  OBVIOUS
      <4>2. j.method = "wait" /\ j.arg = m  BY <4>1 DEF C!Item
      <4>3. CASE Has(d, j)'  BY <3>4, <4>1, <4>3 DEF Before, C!Item
      <4>4. CASE ~Has(d, j)'
        <5>1. j = h /\ d = c  BY <1>7, <3>1, <3>4, <4>1, <4>2, <4>4
        <5>2. latches[m].done  BY <1>2, <4>2, <5>1
        <5>3. m = l \/ l < m  BY <1>0, <2>1, <3>4 DEF ChatTyped
        <5>4. latches[l].done  BY <1>0, <2>1, <5>2, <5>3 DEF GatesRight
        <5>5. QED  BY <5>4
      <4>5. QED  BY <4>3, <4>4
    <3>5. QED  BY <1>0, <2>1, <3>1, <3>2, <3>3, <3>4 DEF GatesRight, Before
  <2>2. \A l : Coming(l)' = Coming(l)  BY <1>8 DEF Coming
  <2>3. QED  BY <1>0, <2>1, <2>2 DEF GatesRight
<1>14. EndsRight'
  <2>1. ASSUME cur[c].method = "done" PROVE queue[c] = <<>>
    <3>1. PICK q \in Seq(C!Items) : q = queue[c]  BY <1>0 DEF ChatTyped
    <3>2. ASSUME NEW k \in DOMAIN q PROVE FALSE
      <4>1. QueueRight(f, c) /\ Busy(c)  BY <1>1, <2>1 DEF Layout, Busy
      <4>2. /\ ItemRight(f, h) /\ ItemRight(f, q[k]) /\ LineOf(f, h) < LineOf(f, q[k])
        BY <1>2, <3>1, <4>1 DEF QueueRight
      <4>3. PICK n \in Nat : n = Len(lines)  BY <1>0 DEF ChatTyped
      <4>4. LineOf(f, h) = h.arg /\ h.arg > n /\ h.arg \in Nat
        BY <1>2, <2>1, <4>2, <4>3 DEF ItemRight, LineOf, IsGate
      <4>5. f \in Seq(Nat)  BY <1>1 DEF Layout, FileRight
      <4>6. LineOf(f, q[k]) \in Nat /\ LineOf(f, q[k]) <= n + 1  BY <4>2, <4>3, <4>5, LineNat DEF ItemRight
      <4>7. QED  BY <4>2, <4>3, <4>4, <4>6
    <3>3. q = <<>>
      <4>1. Len(q) \in Nat /\ DOMAIN q = 1 .. Len(q)  OBVIOUS
      <4>2. Len(q) # 0 => 1 \in DOMAIN q  BY <4>1
      <4>3. Len(q) = 0  BY <3>2, <4>2
      <4>4. QED  BY <4>3
    <3>4. QED  BY <3>1, <3>3
  <2>2. c \notin done  BY <1>0, <1>2 DEF EndsRight, C!None
  <2>3. \A d \in done' : queue'[d] = <<>> /\ cur'[d] = C!None
    <3>1. TAKE d \in done'
    <3>2. d \in Client  BY <1>6 DEF ChatTyped
    <3>3. CASE d = c  BY <1>4, <2>1, <2>2, <3>3
    <3>4. CASE d # c  BY <1>0, <1>4, <3>2, <3>4 DEF EndsRight
    <3>5. QED  BY <3>3, <3>4
  <2>4. \A d \in Client \ known : queue'[d] = <<>> /\ cur'[d] = C!None
    BY <1>0, <1>4, <1>5 DEF EndsRight
  <2>5. QED  BY <1>0, <2>3, <2>4 DEF EndsRight
<1>15. QED  BY <1>6, <1>10, <1>11, <1>12, <1>13, <1>14 DEF ChatInv, Layout

LEMMA ArriveKeeps == ASSUME ChatInv, NEW c \in Client, C!Arrive(c) PROVE ChatInv'
<1> USE ChatConstants
<1>0. ChatTyped /\ GatesRight /\ EndsRight  BY DEF ChatInv
<1>1. PICK f : Layout(f)  BY DEF ChatInv
<1>2. PICK h \in C!Items : h = cur[c]  BY <1>0 DEF ChatTyped
<1>3. PICK l : l = h.arg  OBVIOUS
<1>4. mpc = "run" /\ h.method = "arrive" /\ h = C!Item("arrive", l)
  BY <1>2, <1>3 DEF C!Arrive, C!At, C!Item, C!Items
<1>a. cur[c] # C!None /\ cur[c].method # "raised"  BY <1>2, <1>4 DEF C!None
<1>b. c \in known /\ c \notin done  BY <1>0, <1>a DEF EndsRight
<1>5. PICK L \in Nat : L = Len(latches) /\ DOMAIN latches = 1 .. L  BY <1>0 DEF ChatTyped
<1>6. f \in Seq(Nat) /\ Len(f) = L /\ DOMAIN f = 1 .. L  BY <1>1, <1>5 DEF Layout, FileRight
<1>7. QueueRight(f, c) /\ Busy(c)  BY <1>1, <1>2, <1>4 DEF Layout, Busy
<1>8. /\ l \in 1 .. L /\ LineOf(f, h) = f[l] /\ f[l] \in Nat
      /\ \A k \in DOMAIN queue[c] : f[l] < LineOf(f, queue[c][k]) /\ queue[c][k].method # "wait"
  <2>1. ItemRight(f, h)  BY <1>2, <1>7 DEF QueueRight
  <2>2. l \in 1 .. L /\ LineOf(f, h) = f[l]
    BY <1>3, <1>4, <1>6, <2>1 DEF ItemRight, LineOf, IsGate
  <2>3. f[l] \in Nat  BY <1>6, <2>2
  <2>4. QED  BY <1>2, <1>4, <1>7, <2>2, <2>3 DEF QueueRight, C!None
<1>9. PICK s \in 0 .. Cardinality(Client) : s = latches[l].remaining /\ latches[l] \in Latch
  <2>1. latches[l] \in Latch  BY <1>0, <1>5, <1>8 DEF ChatTyped
  <2>2. QED  BY <2>1 DEF Latch
<1>10. s # 0 /\ c \in Coming(l) /\ s = Cardinality(Coming(l)) /\ IsFiniteSet(Coming(l)) /\ s \in Nat
  <2>1. c \in Coming(l)  BY <1>2, <1>4 DEF Coming, Comes, Has
  <2>2. IsFiniteSet(Coming(l))  BY FS_Subset DEF Coming
  <2>3. s = Cardinality(Coming(l))  BY <1>0, <1>5, <1>8, <1>9 DEF GatesRight
  <2>4. QED  BY <2>1, <2>2, <2>3, FS_EmptySet, FS_CardinalityType
<1>11. PICK y : y = IF s - 1 = 0 THEN C!None ELSE C!Item("wait", l)  OBVIOUS
<1>12. PICK x : x = [remaining |-> s - 1, done |-> s - 1 = 0]  OBVIOUS
<1>13. /\ latches' = [latches EXCEPT ![l] = x] /\ cur' = [cur EXCEPT ![c] = y]
       /\ UNCHANGED <<lines, known, queue, started, writer_closed, reader_closed, done, bad, mpc, server, status>>
  BY <1>2, <1>3, <1>9, <1>10, <1>11, <1>12 DEF C!Arrive, C!sync, C!file
<1>14. y \in C!Items /\ y.method \in {"none", "wait"} /\ x \in Latch /\ x.remaining = s - 1
       /\ (x.done <=> s - 1 = 0) /\ (y.method = "wait" <=> s - 1 # 0) /\ (y.method = "wait" => y.arg = l)
  <2>0. Cardinality(Client) \in Nat  BY FS_CardinalityType
  <2>1. s - 1 \in 0 .. Cardinality(Client)  BY <1>9, <1>10, <2>0
  <2>2. l \in Nat  BY <1>8
  <2>3. y \in C!Items /\ y.method \in {"none", "wait"} /\ (y.method = "wait" <=> s - 1 # 0)
        /\ (y.method = "wait" => y.arg = l)
    BY <1>11, <2>2 DEF C!None, C!Item, C!Items
  <2>4. x \in Latch /\ x.remaining = s - 1 /\ (x.done <=> s - 1 = 0)  BY <1>12, <2>1 DEF Latch
  <2>5. QED  BY <2>3, <2>4
<1>15. /\ cur'[c] = y /\ cur' \in [Client -> C!Items]
       /\ \A d \in Client : d # c => cur'[d] = cur[d]
       /\ latches' \in Seq(Latch) /\ Len(latches') = L /\ DOMAIN latches' = 1 .. L /\ latches'[l] = x
       /\ \A m \in 1 .. L : m # l => latches'[m] = latches[m]
  <2>1. latches \in Seq(Latch) /\ cur \in [Client -> C!Items]  BY <1>0 DEF ChatTyped
  <2>2. /\ cur'[c] = y /\ cur' \in [Client -> C!Items]
        /\ \A d \in Client : d # c => cur'[d] = cur[d]
    BY <1>13, <1>14, <2>1
  <2>3. latches \in [1 .. L -> Latch]  BY <1>5, <2>1
  <2>4. latches' \in [1 .. L -> Latch] /\ latches'[l] = x
        /\ \A m \in 1 .. L : m # l => latches'[m] = latches[m]
    BY <1>8, <1>13, <1>14, <2>3
  <2>5. latches' \in Seq(Latch) /\ Len(latches') = L /\ DOMAIN latches' = 1 .. L  BY <2>4
  <2>6. QED  BY <2>2, <2>4, <2>5
<1>16. ChatTyped'  BY <1>0, <1>13, <1>15 DEF ChatTyped
<1>17. ASSUME NEW d \in Client, NEW j, j # h, j # y PROVE Has(d, j)' <=> Has(d, j)
  <2>1. CASE d = c  BY <1>2, <1>13, <1>15, <1>17, <2>1 DEF Has
  <2>2. CASE d # c  BY <1>13, <1>15, <2>2 DEF Has
  <2>3. QED  BY <2>1, <2>2
<1>18. ASSUME NEW d \in Client, NEW m PROVE Comes(d, m)' <=> Comes(d, m) /\ ~(d = c /\ m = l)
  <2>1. PICK j : j = C!Item("arrive", m)  OBVIOUS
  <2>2. j # y /\ (j = h <=> m = l)  BY <1>4, <1>14, <2>1 DEF C!Item
  <2>3. CASE m # l  BY <1>17, <2>1, <2>2, <2>3 DEF Comes
  <2>4. CASE m = l /\ d # c  BY <1>13, <1>15, <2>4 DEF Comes, Has
  <2>5. CASE m = l /\ d = c
    <3>1. \A k \in DOMAIN queue[c] : queue[c][k] # j
      <4>1. SUFFICES ASSUME NEW k \in DOMAIN queue[c], queue[c][k] = j PROVE FALSE  OBVIOUS
      <4>2. queue[c][k] = j  BY <4>1
      <4>3. f[l] < LineOf(f, j) /\ LineOf(f, j) = f[l]
        BY <1>8, <1>4, <2>2, <2>5, <4>2
      <4>4. QED  BY <1>8, <4>3
    <3>2. QED  BY <1>13, <1>15, <2>1, <2>2, <2>5, <3>1 DEF Comes, Has
  <2>6. QED  BY <2>3, <2>4, <2>5
<1>19. ASSUME NEW j PROVE ItemRight(f, j)' <=> ItemRight(f, j)  BY <1>13 DEF ItemRight
<1>20. FileRight(f)'  BY <1>1, <1>5, <1>13, <1>15 DEF Layout, FileRight
<1>21. ASSUME NEW d \in Client PROVE QueueRight(f, d)'
  <2>1. QueueRight(f, d)  BY <1>1 DEF Layout
  <2>2. CASE d # c  BY <1>13, <1>15, <1>19, <2>1, <2>2 DEF QueueRight, Busy
  <2>3. CASE d = c
    <3>1. y.method = "wait" => ItemRight(f, y) /\ LineOf(f, y) = f[l]
      <4>1. y.method = "wait" => LineOf(f, y) = f[l]  BY <1>14 DEF LineOf, IsGate
      <4>2. ItemRight(f, h)  BY <1>2, <1>7 DEF QueueRight
      <4>3. QED  BY <1>3, <1>4, <1>8, <1>14, <4>1, <4>2 DEF ItemRight, IsGate
    <3>2. Busy(d)' => y.method = "wait"  BY <1>14, <1>15, <2>3 DEF Busy
    <3>3. QED  BY <1>8, <1>13, <1>15, <1>19, <2>1, <2>3, <3>1, <3>2 DEF QueueRight
  <2>4. QED  BY <2>2, <2>3
<1>22. ASSUME NEW d \in Client, NEW j \in C!Items, NEW m \in DOMAIN f PROVE CommandRight(f, d, j, m)'
  <2>1. ASSUME Has(d, j)', j.method \in C!Commands, j.arg < f[m] PROVE Comes(d, m)'
    <3>1. j # y /\ j # h  BY <1>4, <1>14, <2>1
    <3>2. Has(d, j)  BY <1>17, <2>1, <3>1
    <3>3. Comes(d, m)  BY <1>1, <2>1, <3>2 DEF Layout, CommandRight
    <3>4. ~(d = c /\ m = l)
      <4>1. ASSUME d = c, m = l PROVE FALSE
        <5>1. PICK k \in DOMAIN queue[c] : queue[c][k] = j  BY <1>2, <3>1, <3>2, <4>1 DEF Has
        <5>2. f[l] < LineOf(f, j) /\ ItemRight(f, j)  BY <1>7, <1>8, <5>1 DEF QueueRight
        <5>3. LineOf(f, j) = j.arg /\ j.arg \in Nat  BY <1>6, <2>1, <5>2, LineNat DEF ItemRight
        <5>4. QED  BY <1>8, <2>1, <4>1, <5>2, <5>3
      <4>2. QED  BY <4>1
    <3>5. QED  BY <1>18, <3>3, <3>4
  <2>2. QED  BY <2>1 DEF CommandRight
<1>23. \A d \in Client : d # c => \A j : Has(d, j)' <=> Has(d, j)  BY <1>13, <1>15 DEF Has
<1>24. ASSUME NEW m \in 1 .. L, m # l PROVE latches[m].done \/ Before(c, m)'
  <2>2. latches[m].done \/ Before(c, m)  BY <1>0, <1>5, <1>a, <1>b DEF GatesRight
  <2>3. CASE Comes(c, m)  BY <1>18, <1>24, <2>3 DEF Before
  <2>4. ASSUME NEW k \in DOMAIN latches, Has(c, C!Item("wait", k)) PROVE FALSE
    <3>1. PICK j : j = C!Item("wait", k)  OBVIOUS
    <3>2. j.method = "wait"  BY <3>1 DEF C!Item
    <3>3. QED  BY <1>2, <1>4, <1>8, <2>4, <3>1, <3>2 DEF Has
  <2>5. QED  BY <2>2, <2>3, <2>4 DEF Before
<1>25. \A m \in 1 .. L : latches[m].done => latches'[m].done
  <2>1. ~latches[l].done  BY <1>0, <1>5, <1>8, <1>9, <1>10 DEF GatesRight
  <2>2. QED  BY <1>15, <2>1
<1>26. s - 1 = 0 => \A m \in 1 .. L : m < l => latches[m].done
  <2>1. ASSUME s - 1 = 0, NEW m \in 1 .. L, m < l PROVE latches[m].done
    <3>1. m # l  BY <1>8, <2>1
    <3>2. ASSUME Before(c, m)' PROVE FALSE
      <4>1. CASE Comes(c, m)
        <5>1. PICK j : j = C!Item("arrive", m)  OBVIOUS
        <5>2. j # h /\ IsGate(j) /\ j.arg = m  BY <1>4, <3>1, <5>1 DEF C!Item, IsGate
        <5>3. PICK k \in DOMAIN queue[c] : queue[c][k] = j  BY <1>2, <4>1, <5>1, <5>2 DEF Comes, Has
        <5>4. f[l] < f[m]  BY <1>8, <5>2, <5>3 DEF LineOf
        <5>5. f[m] < f[l]  BY <1>1, <1>6, <1>8, <2>1 DEF Layout, FileRight
        <5>6. f[m] \in Nat  BY <1>6
        <5>7. QED  BY <1>8, <5>4, <5>5, <5>6
      <4>2. ASSUME NEW k \in DOMAIN latches', Has(c, C!Item("wait", k))' PROVE FALSE
        <5>1. PICK j : j = C!Item("wait", k)  OBVIOUS
        <5>2. j.method = "wait" /\ j # y  BY <1>14, <2>1, <5>1 DEF C!Item
        <5>3. QED  BY <1>8, <1>13, <1>15, <4>2, <5>1, <5>2 DEF Has
      <4>3. QED  BY <1>18, <3>2, <4>1, <4>2 DEF Before
    <3>3. QED  BY <1>24, <3>1, <3>2
  <2>2. QED  BY <2>1
<1>27. GatesRight'
  <2>1. ASSUME NEW d \in known', NEW m \in DOMAIN latches'
        PROVE  latches'[m].done \/ cur'[d].method = "raised" \/ Before(d, m)'
    <3>1. d \in known /\ d \in Client /\ m \in 1 .. L  BY <1>0, <1>13, <1>15, <2>1 DEF ChatTyped
    <3>2. CASE d # c
      <4>1. CASE Comes(d, m)  BY <1>18, <3>1, <3>2, <4>1 DEF Before
      <4>2. ASSUME NEW k \in DOMAIN latches, k >= m, Has(d, C!Item("wait", k)) PROVE Before(d, m)'
        <5>1. PICK j : j = C!Item("wait", k)  OBVIOUS
        <5>2. Has(d, j)' /\ k \in DOMAIN latches'  BY <1>5, <1>15, <1>23, <3>1, <3>2, <4>2, <5>1
        <5>3. QED  BY <4>2, <5>1, <5>2 DEF Before, C!Item
      <4>3. latches[m].done \/ cur[d].method = "raised" \/ Before(d, m)  BY <1>0, <1>5, <3>1 DEF GatesRight
      <4>4. QED  BY <1>15, <1>25, <3>1, <3>2, <4>1, <4>2, <4>3 DEF Before
    <3>3. CASE d = c /\ m # l  BY <1>24, <1>25, <3>1, <3>3
    <3>4. CASE d = c /\ m = l
      <4>1. CASE s - 1 = 0  BY <1>14, <1>15, <3>4, <4>1
      <4>2. CASE s - 1 # 0
        <5>1. PICK j : j = C!Item("wait", l)  OBVIOUS
        <5>2. Has(c, j)'  BY <1>11, <1>15, <4>2, <5>1 DEF Has
        <5>3. l \in DOMAIN latches' /\ l >= l  BY <1>8, <1>15
        <5>4. QED  BY <3>4, <5>1, <5>2, <5>3 DEF Before, C!Item
      <4>3. QED  BY <4>1, <4>2
    <3>5. QED  BY <3>2, <3>3, <3>4
  <2>2. ASSUME NEW k \in DOMAIN latches', NEW m \in DOMAIN latches', k < m, latches'[m].done
        PROVE  latches'[k].done
    <3>1. k \in 1 .. L /\ m \in 1 .. L  BY <1>15, <2>2
    <3>2. CASE m = l  BY <1>14, <1>15, <1>25, <1>26, <2>2, <3>1, <3>2
    <3>3. CASE m # l
      <4>1. latches[m].done  BY <1>15, <2>2, <3>1, <3>3
      <4>2. latches[k].done  BY <1>0, <1>5, <2>2, <3>1, <4>1 DEF GatesRight
      <4>3. QED  BY <1>25, <3>1, <4>2
    <3>4. QED  BY <3>2, <3>3
  <2>3. ASSUME NEW m \in DOMAIN latches'
        PROVE  /\ latches'[m].remaining = Cardinality(Coming(m)')
               /\ latches'[m].done => latches'[m].remaining = 0
    <3>1. m \in 1 .. L  BY <1>15, <2>3
    <3>2. CASE m = l
      <4>1. Coming(m)' = Coming(l) \ {c}  BY <1>18, <3>2 DEF Coming
      <4>2. Cardinality(Coming(l) \ {c}) = s - 1  BY <1>10, FS_RemoveElement
      <4>3. QED  BY <1>14, <1>15, <3>2, <4>1, <4>2
    <3>3. CASE m # l
      <4>1. Coming(m)' = Coming(m)  BY <1>18, <3>3 DEF Coming
      <4>2. QED  BY <1>0, <1>5, <1>15, <3>1, <3>3, <4>1 DEF GatesRight
    <3>4. QED  BY <3>2, <3>3
  <2>4. QED  BY <2>1, <2>2, <2>3 DEF GatesRight
<1>28. EndsRight'
  <2>1. QED  BY <1>0, <1>4, <1>13, <1>15, <1>b DEF EndsRight
<1>29. QED  BY <1>16, <1>20, <1>21, <1>22, <1>27, <1>28 DEF ChatInv, Layout

LEMMA ConnectionKeeps == ASSUME ChatInv, NEW c \in Client, C!Connection(c) PROVE ChatInv'
<1> USE ChatConstants
<1>0. ChatTyped /\ GatesRight /\ EndsRight  BY DEF ChatInv
<1>1. CASE C!Get(c)  BY <1>1, GetKeeps
<1>2. CASE C!Arrive(c)  BY <1>2, ArriveKeeps
<1>3. PICK y \in {C!None, C!Item("raised", 0)} : y = IF C!Return(c) THEN C!None ELSE C!Item("raised", 0)
  OBVIOUS
<1>4. /\ started \subseteq known /\ writer_closed \subseteq started /\ reader_closed \subseteq started
      /\ status \in {"OK", "WA", "PE", "CF"} /\ bad \in BOOLEAN
      /\ (bad => status # "OK") /\ (status \in {"WA", "PE"} => bad)
  BY <1>0 DEF ChatTyped, EndsRight
<1>5. ASSUME C!Right(c)
      PROVE  /\ cur' = [cur EXCEPT ![c] = C!None] /\ status' = status /\ bad' = bad
  BY <1>5 DEF C!Right, C!Return
<1>6. ASSUME NEW V \in SUBSET {"WA", "PE", "CF"}, C!Wrong(c, V)
      PROVE  /\ cur' = [cur EXCEPT ![c] = C!Item("raised", 0)] /\ bad' = TRUE
             /\ status' \in {"WA", "PE", "CF"}
  BY <1>4, <1>6 DEF C!Wrong, C!Raise
<1>7. ASSUME C!Raise(c, "CF"), bad' = bad
      PROVE  /\ cur' = [cur EXCEPT ![c] = C!Item("raised", 0)]
             /\ status' \in {"OK", "WA", "PE", "CF"}
             /\ (bad' => status' # "OK") /\ (status' \in {"WA", "PE"} => bad')
  BY <1>4, <1>7 DEF C!Raise
<1>8. ASSUME NEW m \in {"wait", "conn", "send", "recv", "stop", "rstop", "done", "type"}, C!At(c, m),
             UNCHANGED <<lines, known, queue, latches, mpc, server>>,
             \/ cur' = [cur EXCEPT ![c] = C!None]
             \/ cur' = [cur EXCEPT ![c] = C!Item("raised", 0)],
             m = "wait" => latches[cur[c].arg].done,
             started' \subseteq started \cup {c}, started \subseteq started',
             writer_closed' \subseteq started', reader_closed' \subseteq started',
             \/ done' = done
             \/ done' = done \cup {c} /\ m = "done" /\ cur' = [cur EXCEPT ![c] = C!None],
             status' \in {"OK", "WA", "PE", "CF"}, bad' \in BOOLEAN,
             bad' => status' # "OK", status' \in {"WA", "PE"} => bad'
      PROVE  ChatInv'
  <2>1. mpc = "run" /\ cur[c].method = m  BY <1>8 DEF C!At
  <2>2. cur[c].method \notin {"none", "raised", "arrive"}  BY <2>1
  <2>3. CASE cur' = [cur EXCEPT ![c] = C!None]
    <3>1. PICK z \in {C!None, C!Item("raised", 0)} : z = C!None  OBVIOUS
    <3>2. QED  BY <1>8, <2>1, <2>2, <2>3, <3>1, FinishKeeps
  <2>4. CASE cur' = [cur EXCEPT ![c] = C!Item("raised", 0)] /\ done' = done
    <3>1. PICK z \in {C!None, C!Item("raised", 0)} : z = C!Item("raised", 0)  OBVIOUS
    <3>2. QED  BY <1>8, <2>1, <2>2, <2>4, <3>1, FinishKeeps
  <2>5. QED  BY <1>8, <2>3, <2>4
<1>9. CASE C!Wait(c)
  <2>1. /\ C!At(c, "wait") /\ latches[cur[c].arg].done /\ cur' = [cur EXCEPT ![c] = C!None]
        /\ UNCHANGED <<lines, known, queue, latches, mpc, server, status, started, writer_closed, reader_closed, done, bad>>
    BY <1>9 DEF C!Wait, C!Return, C!sync, C!file
  <2>2. QED  BY <1>4, <1>8, <2>1
<1>10. CASE C!Conn(c)
  <2>1. C!At(c, "conn") /\ UNCHANGED <<lines, known, queue, latches, mpc, server, writer_closed, reader_closed, done>>
    BY <1>10 DEF C!Conn, C!rest, C!file
  <2>2. CASE C!Right(c) /\ started' = started \cup {c}  BY <1>4, <1>5, <1>8, <2>1, <2>2
  <2>3. CASE C!Wrong(c, {"PE"}) /\ UNCHANGED started
    <3>1. {"PE"} \in SUBSET {"WA", "PE", "CF"}  OBVIOUS
    <3>2. QED  BY <1>4, <1>6, <1>8, <2>1, <2>3, <3>1
  <2>4. QED  BY <1>10, <2>2, <2>3 DEF C!Conn
<1>11. CASE C!Send(c)
  <2>1. C!At(c, "send") /\ UNCHANGED <<lines, known, queue, latches, mpc, server, writer_closed, reader_closed, done>>
    BY <1>11 DEF C!Send, C!rest, C!file
  <2>2. CASE C!Raise(c, "CF") /\ UNCHANGED <<started, bad>>  BY <1>4, <1>7, <1>8, <2>1, <2>2
  <2>3. CASE C!Right(c) /\ started' = started \cup {c}  BY <1>4, <1>5, <1>8, <2>1, <2>3
  <2>4. CASE C!Wrong(c, {"PE"}) /\ started' \in {started, started \cup {c}}
    <3>1. {"PE"} \in SUBSET {"WA", "PE", "CF"}  OBVIOUS
    <3>2. QED  BY <1>4, <1>6, <1>8, <2>1, <2>4, <3>1
  <2>5. QED  BY <1>11, <2>2, <2>3, <2>4 DEF C!Send
<1>12. CASE C!Recv(c)
  <2>1. C!At(c, "recv") /\ UNCHANGED <<lines, known, queue, latches, mpc, server, writer_closed, reader_closed, done>>
    BY <1>12 DEF C!Recv, C!rest, C!file
  <2>2. CASE C!Raise(c, "CF") /\ UNCHANGED <<started, bad>>  BY <1>4, <1>7, <1>8, <2>1, <2>2
  <2>3. CASE C!Right(c) /\ started' = started \cup {c}  BY <1>4, <1>5, <1>8, <2>1, <2>3
  <2>4. CASE C!Wrong(c, {"WA", "PE"}) /\ started' \in {started, started \cup {c}}
    <3>1. {"WA", "PE"} \in SUBSET {"WA", "PE", "CF"}  OBVIOUS
    <3>2. QED  BY <1>4, <1>6, <1>8, <2>1, <2>4, <3>1
  <2>5. QED  BY <1>12, <2>2, <2>3, <2>4 DEF C!Recv
<1>13. CASE C!Stop(c)
  <2>1. C!At(c, "stop") /\ UNCHANGED <<lines, known, queue, latches, mpc, server, started, reader_closed, done>>
    BY <1>13 DEF C!Stop, C!rest, C!file
  <2>2. CASE c \in started \cup writer_closed /\ C!Right(c) /\ writer_closed' = writer_closed \cup {c}
    BY <1>4, <1>5, <1>8, <2>1, <2>2
  <2>3. CASE C!Wrong(c, {"PE"}) /\ UNCHANGED writer_closed
    <3>1. {"PE"} \in SUBSET {"WA", "PE", "CF"}  OBVIOUS
    <3>2. QED  BY <1>4, <1>6, <1>8, <2>1, <2>3, <3>1
  <2>4. CASE C!Raise(c, "CF") /\ UNCHANGED <<writer_closed, bad>>  BY <1>4, <1>7, <1>8, <2>1, <2>4
  <2>5. QED  BY <1>13, <2>2, <2>3, <2>4 DEF C!Stop
<1>14. CASE C!RStop(c)
  <2>1. C!At(c, "rstop") /\ UNCHANGED <<lines, known, queue, latches, mpc, server, started, writer_closed, done>>
    BY <1>14 DEF C!RStop, C!rest, C!file
  <2>2. CASE c \in started \cup reader_closed /\ C!Right(c) /\ reader_closed' = reader_closed \cup {c}
    BY <1>4, <1>5, <1>8, <2>1, <2>2
  <2>3. CASE C!Wrong(c, {"PE", "CF"}) /\ UNCHANGED reader_closed
    <3>1. {"PE", "CF"} \in SUBSET {"WA", "PE", "CF"}  OBVIOUS
    <3>2. QED  BY <1>4, <1>6, <1>8, <2>1, <2>3, <3>1
  <2>4. CASE C!Raise(c, "CF") /\ UNCHANGED <<reader_closed, bad>>  BY <1>4, <1>7, <1>8, <2>1, <2>4
  <2>5. QED  BY <1>14, <2>2, <2>3, <2>4 DEF C!RStop
<1>15. CASE C!Done(c)
  <2>1. /\ C!At(c, "done") /\ writer_closed' \subseteq started
        /\ UNCHANGED <<lines, known, queue, latches, mpc, server, started, reader_closed>>
    BY <1>4, <1>15 DEF C!Done, C!rest, C!file
  <2>2. CASE C!Raise(c, "CF") /\ UNCHANGED <<done, bad>>  BY <1>4, <1>7, <1>8, <2>1, <2>2
  <2>3. CASE C!Right(c) /\ done' = done \cup {c}  BY <1>4, <1>5, <1>8, <2>1, <2>3
  <2>4. CASE C!Wrong(c, {"WA", "PE"}) /\ UNCHANGED done
    <3>1. {"WA", "PE"} \in SUBSET {"WA", "PE", "CF"}  OBVIOUS
    <3>2. QED  BY <1>4, <1>6, <1>8, <2>1, <2>4, <3>1
  <2>5. CASE C!Wrong(c, {"PE"}) /\ UNCHANGED done
    <3>1. {"PE"} \in SUBSET {"WA", "PE", "CF"}  OBVIOUS
    <3>2. QED  BY <1>4, <1>6, <1>8, <2>1, <2>5, <3>1
  <2>6. QED
    <3>1. CASE c \notin started  BY <1>4, <1>15, <2>2, <2>5, <3>1 DEF C!Done
    <3>2. CASE c \in started /\ c \in reader_closed  BY <1>15, <2>3, <2>5, <3>2 DEF C!Done
    <3>3. CASE c \in started /\ c \notin reader_closed  BY <1>15, <2>3, <2>4, <2>5, <3>3 DEF C!Done
    <3>4. QED  BY <3>1, <3>2, <3>3
<1>16. CASE C!Unexpected(c)
  <2>1. /\ C!At(c, "type") /\ C!Raise(c, "CF")
        /\ UNCHANGED <<lines, known, queue, latches, mpc, server, started, writer_closed, reader_closed, done, bad>>
    BY <1>16 DEF C!Unexpected, C!rest, C!file
  <2>2. QED  BY <1>4, <1>7, <1>8, <2>1
<1>17. QED
  BY <1>1, <1>2, <1>9, <1>10, <1>11, <1>12, <1>13, <1>14, <1>15, <1>16 DEF C!Connection

(* What main does, or the server, after the tasks are made, and whatever   *)
(* leaves the tasks and the latches alone.                                 *)
LEMMA MainKeeps ==
  ASSUME ChatInv, ChatTyped', EndsRight',
         UNCHANGED <<known, queue, latches, cur>>,
         \/ lines' = lines
         \/ \E line : lines' = Append(lines, line) /\ line.method # "barrier" /\ mpc' # "parse" /\ mpc = "parse",
         mpc' = "parse" => mpc = "parse"
  PROVE  ChatInv'
<1> USE ChatConstants
<1>0. ChatTyped /\ GatesRight  BY DEF ChatInv
<1>1. PICK f : Layout(f)  BY DEF ChatInv
<1>2. PICK n \in Nat : n = Len(lines) /\ DOMAIN lines = 1 .. n  BY <1>0 DEF ChatTyped
<1>3. PICK q : q = lines'  OBVIOUS
<1>4. /\ Len(q) \in {n, n + 1} /\ DOMAIN q = 1 .. Len(q)
      /\ \A b \in 1 .. n : q[b] = lines[b]
      /\ \A b \in DOMAIN q : b > n => q[b].method # "barrier"
      /\ Len(q) = n \/ (mpc = "parse" /\ mpc' # "parse")
  <2>1. CASE lines' = lines  BY <1>2, <1>3, <2>1
  <2>2. ASSUME NEW line, q = Append(lines, line), line.method # "barrier"
        PROVE  /\ Len(q) = n + 1 /\ DOMAIN q = 1 .. n + 1
               /\ \A b \in 1 .. n : q[b] = lines[b]
               /\ q[n + 1].method # "barrier"
    BY <1>0, <1>2, <2>2 DEF ChatTyped
  <2>3. CASE \E line : lines' = Append(lines, line) /\ line.method # "barrier"
                        /\ mpc' # "parse" /\ mpc = "parse"
    <3>1. /\ Len(q) = n + 1 /\ DOMAIN q = 1 .. n + 1
          /\ \A b \in 1 .. n : q[b] = lines[b]
          /\ q[n + 1].method # "barrier"
      BY <1>3, <2>2, <2>3
    <3>2. \A b \in 1 .. n + 1 : b > n => b = n + 1  OBVIOUS
    <3>3. QED  BY <2>3, <3>1, <3>2
  <2>4. QED  BY <2>1, <2>3
<1>a. PICK p : p = Len(q)  OBVIOUS
<1>b. p \in {n, n + 1} /\ p \in Nat /\ DOMAIN q = 1 .. p /\ (p = n \/ (mpc = "parse" /\ mpc' # "parse"))
  <2>1. p \in {n, n + 1}  BY <1>4, <1>a
  <2>2. p \in Nat  BY <2>1
  <2>3. QED  BY <1>4, <1>a, <2>1, <2>2
<1>5. FileRight(f)'
  <2>1. ASSUME NEW l \in DOMAIN f PROVE f[l] \in DOMAIN q /\ q[f[l]].method = "barrier"
    <3>1. PICK b : b = f[l]  OBVIOUS
    <3>2. b \in 1 .. n /\ lines[b].method = "barrier"  BY <1>1, <1>2, <2>1, <3>1 DEF Layout, FileRight
    <3>3. b \in 1 .. p  BY <1>b, <3>2
    <3>4. q[b] = lines[b]  BY <1>4, <3>2
    <3>5. QED  BY <1>b, <3>1, <3>2, <3>3, <3>4
  <2>2. ASSUME NEW b \in DOMAIN q, q[b].method = "barrier" PROVE \E l \in DOMAIN f : f[l] = b
    <3>1. b \in 1 .. p /\ ~(b > n)  BY <1>4, <1>b, <2>2
    <3>2. b \in 1 .. n  BY <1>b, <3>1
    <3>3. lines[b].method = "barrier" /\ b \in DOMAIN lines  BY <1>2, <1>4, <2>2, <3>2
    <3>4. QED  BY <1>1, <3>3 DEF Layout, FileRight
  <2>3. QED  BY <1>1, <1>3, <2>1, <2>2 DEF Layout, FileRight
<1>6. ASSUME NEW j, ItemRight(f, j) PROVE ItemRight(f, j)'
  <2>1. f \in Seq(Nat)  BY <1>1 DEF Layout, FileRight
  <2>2. LineOf(f, j) \in Nat /\ j.arg \in Nat  BY <1>6, <2>1, LineNat DEF ItemRight
  <2>3. LineOf(f, j) <= p + 1 /\ (mpc' = "parse" => LineOf(f, j) <= p)
    <3>1. LineOf(f, j) <= n + 1 /\ (mpc = "parse" => LineOf(f, j) <= n)  BY <1>2, <1>6 DEF ItemRight
    <3>2. CASE p = n  BY <2>2, <3>1, <3>2
    <3>3. CASE p = n + 1 /\ mpc' # "parse"  BY <2>2, <3>1, <3>3
    <3>4. QED  BY <1>b, <3>2, <3>3
  <2>4. j.method = "done" => j.arg > p
    <3>1. ASSUME j.method = "done" PROVE j.arg > p
      <4>1. LineOf(f, j) = j.arg /\ j.arg > n  BY <1>2, <1>6, <3>1 DEF LineOf, IsGate, ItemRight
      <4>2. mpc # "parse"  BY <1>2, <1>6, <2>2, <4>1 DEF ItemRight
      <4>3. QED  BY <1>b, <4>1, <4>2
    <3>2. QED  BY <3>1
  <2>5. QED  BY <1>3, <1>a, <1>6, <2>3, <2>4 DEF ItemRight
<1>7. ASSUME NEW d \in Client PROVE QueueRight(f, d)'
  <2>1. QueueRight(f, d)  BY <1>1 DEF Layout
  <2>2. QED  BY <1>6, <2>1 DEF QueueRight, Busy
<1>8. \A d \in Client, j \in C!Items, l \in DOMAIN f : CommandRight(f, d, j, l)'
  BY <1>1 DEF Layout, CommandRight, Comes, Has
<1>9. GatesRight'
  <2>1. \A l : Coming(l)' = Coming(l)  BY DEF Coming, Comes, Has
  <2>2. ASSUME NEW d \in known, NEW l \in DOMAIN latches
        PROVE  latches'[l].done \/ cur'[d].method = "raised" \/ Before(d, l)'
    <3>1. Before(d, l) => Before(d, l)'  BY DEF Before, Comes, Has
    <3>2. QED  BY <1>0, <3>1 DEF GatesRight
  <2>3. QED  BY <1>0, <2>1, <2>2 DEF GatesRight
<1>10. QED  BY <1>5, <1>7, <1>8, <1>9 DEF ChatInv, Layout

LEMMA StepChatInv == ChatInv /\ [C!Next]_(C!chatVars) => ChatInv'
<1> SUFFICES ASSUME ChatInv, [C!Next]_(C!chatVars) PROVE ChatInv'  OBVIOUS
<1> USE ChatConstants
<1>0. ChatTyped /\ EndsRight  BY DEF ChatInv
<1>1. CASE C!Barrier  BY <1>1, BarrierKeeps
<1>2. ASSUME NEW c \in Client, C!Connection(c) PROVE ChatInv'  BY <1>2, ConnectionKeeps
<1>3. CASE C!EndOfFile  BY <1>3, ReadsChat
<1>4. CASE C!Gathered
  <2>1. /\ mpc = "run" /\ (done = known \/ status # "OK")
        /\ mpc' = IF status = "CF" THEN "exit" ELSE "kill"
        /\ UNCHANGED <<lines, known, queue, latches, cur, started, writer_closed, reader_closed, done, bad, status, server>>
    BY <1>4 DEF C!Gathered, C!file, C!conns
  <2>2. ChatTyped'  BY <1>0, <2>1 DEF ChatTyped
  <2>3. EndsRight'  BY <1>0, <2>1 DEF EndsRight
  <2>4. QED  BY <2>1, <2>2, <2>3, MainKeeps
<1>5. CASE C!Kill
  <2>1. /\ mpc = "kill" /\ mpc' = "drain" /\ server' = IF server = "up" THEN "term" ELSE server
        /\ UNCHANGED <<lines, known, queue, latches, cur, started, writer_closed, reader_closed, done, bad, status>>
    BY <1>5 DEF C!Kill, C!file, C!conns
  <2>2. ChatTyped'  BY <1>0, <2>1 DEF ChatTyped
  <2>3. EndsRight'  BY <1>0, <2>1 DEF EndsRight
  <2>4. QED  BY <2>1, <2>2, <2>3, MainKeeps
<1>6. CASE C!Drain
  <2>1. /\ mpc = "drain" /\ mpc' = "exit" /\ server = "ended"
        /\ UNCHANGED <<lines, known, queue, latches, cur, started, writer_closed, reader_closed, done, bad, status, server>>
    BY <1>6 DEF C!Drain, C!file, C!conns
  <2>2. ChatTyped'  BY <1>0, <2>1 DEF ChatTyped
  <2>3. EndsRight'  BY <1>0, <2>1 DEF EndsRight
  <2>4. QED  BY <2>1, <2>2, <2>3, MainKeeps
<1>7. CASE C!ServerEnds
  <2>1. /\ server' = "ended"
        /\ UNCHANGED <<lines, known, queue, latches, cur, started, writer_closed, reader_closed, done, bad, status, mpc>>
    BY <1>7 DEF C!ServerEnds, C!file, C!conns
  <2>2. ChatTyped'  BY <1>0, <2>1 DEF ChatTyped
  <2>3. EndsRight'  BY <1>0, <2>1 DEF EndsRight
  <2>4. QED  BY <2>1, <2>2, <2>3, MainKeeps
<1>8. ASSUME NEW c \in Client, C!NewConnection(c) PROVE ChatInv'  BY <1>8, ReadsChat
<1>9. ASSUME NEW c \in Client, NEW m \in Method \cup {"type"}, C!Command(c, m) PROVE ChatInv'
  BY <1>9, ReadsChat
<1>10. ASSUME NEW c \in Client, NEW m \in Method \cup {"type"}, C!NoType(c, m) PROVE ChatInv'
  <2>1. PICK line : line = [client |-> c, method |-> m]  OBVIOUS
  <2>2. /\ mpc = "parse" /\ mpc' = "exit" /\ status' = "CF" /\ lines' = Append(lines, line) /\ Len(lines) < MaxLines
        /\ UNCHANGED <<known, queue, latches, cur, started, writer_closed, reader_closed, done, bad, server>>
    BY <1>10, <2>1 DEF C!NoType, C!ReadLine, C!conns
  <2>3. m \in C!Commands  BY DEF C!Commands
  <2>4. line \in Line /\ line.method # "barrier"  BY <2>1, <2>3 DEF Line
  <2>5. lines' \in Seq(Line) /\ Len(lines') <= MaxLines
    <3>1. lines \in Seq(Line)  BY <1>0 DEF ChatTyped
    <3>2. QED  BY <2>2, <2>4, <3>1
  <2>6. ChatTyped'  BY <1>0, <2>2, <2>5 DEF ChatTyped
  <2>7. EndsRight'  BY <1>0, <2>2 DEF EndsRight
  <2>8. QED  BY <2>2, <2>4, <2>6, <2>7, MainKeeps
<1>11. CASE UNCHANGED C!chatVars
  <2>1. UNCHANGED <<lines, known, queue, latches, cur, started, writer_closed, reader_closed, done, bad, status, mpc, server>>
    BY <1>11 DEF C!chatVars, C!file, C!conns
  <2>2. ChatTyped'  BY <1>0, <2>1 DEF ChatTyped
  <2>3. EndsRight'  BY <1>0, <2>1 DEF EndsRight
  <2>4. QED  BY <2>1, <2>2, <2>3, MainKeeps
<1>12. QED
  BY <1>1, <1>2, <1>3, <1>4, <1>5, <1>6, <1>7, <1>8, <1>9, <1>10, <1>11 DEF C!Next, C!Main

(* What the invariant is for.                                              *)
LEMMA BarriersAreKept == ChatInv => C!BarrierKept
<1> SUFFICES ASSUME ChatInv, NEW c \in Client, cur[c].method \in C!Commands,
                    NEW b \in 1 .. cur[c].arg - 1, lines[b].method = "barrier",
                    NEW above \in 1 .. b - 1, C!IsPending(above)
             PROVE  FALSE
  BY DEF C!BarrierKept
<1> USE ChatConstants
<1>0. ChatTyped /\ GatesRight /\ EndsRight  BY DEF ChatInv
<1>1. PICK f : Layout(f)  BY DEF ChatInv
<1>2. PICK h \in C!Items : h = cur[c]  BY <1>0 DEF ChatTyped
<1>3. PICK n \in Nat : n = Len(lines) /\ DOMAIN lines = 1 .. n  BY <1>0 DEF ChatTyped
<1>4. f \in Seq(Nat) /\ DOMAIN f = DOMAIN latches  BY <1>0, <1>1 DEF Layout, FileRight, ChatTyped
<1>5. QueueRight(f, c) /\ Busy(c) /\ ItemRight(f, h) /\ LineOf(f, h) = h.arg /\ h.arg \in Nat /\ h.arg <= n + 1
  <2>1. QueueRight(f, c) /\ Busy(c)  BY <1>1 DEF Layout, Busy
  <2>2. ItemRight(f, h)  BY <1>2, <2>1 DEF QueueRight
  <2>3. LineOf(f, h) = h.arg /\ LineOf(f, h) \in Nat  BY <1>2, <1>4, <2>2, LineNat
  <2>4. QED  BY <1>3, <2>1, <2>2, <2>3 DEF ItemRight
<1>6. b \in 1 .. n /\ b < h.arg  BY <1>2, <1>5
<1>7. PICK l \in DOMAIN f : f[l] = b  BY <1>1, <1>3, <1>6 DEF Layout, FileRight
<1>8. latches[l].done
  <2>1. c \in known /\ h.method # "raised" /\ h.method # "wait" /\ h.method # "arrive" /\ h # C!None
    BY <1>0, <1>2 DEF EndsRight, C!None
  <2>2. ~Comes(c, l)
    <3>1. SUFFICES ASSUME Comes(c, l) PROVE FALSE  OBVIOUS
    <3>2. PICK j : j = C!Item("arrive", l)  OBVIOUS
    <3>3. j # h /\ IsGate(j) /\ j.arg = l  BY <2>1, <3>2 DEF C!Item, IsGate
    <3>4. PICK k \in DOMAIN queue[c] : queue[c][k] = j  BY <1>2, <3>1, <3>2, <3>3 DEF Comes, Has
    <3>5. h.arg < b  BY <1>2, <1>5, <1>7, <3>3, <3>4 DEF QueueRight, LineOf
    <3>6. QED  BY <1>5, <1>6, <3>5
  <2>3. ASSUME NEW m, Has(c, C!Item("wait", m)) PROVE FALSE
    <3>1. PICK j : j = C!Item("wait", m)  OBVIOUS
    <3>2. j # h /\ j.method = "wait"  BY <2>1, <3>1 DEF C!Item
    <3>3. QED  BY <1>2, <1>5, <2>1, <2>3, <3>1, <3>2 DEF Has, QueueRight
  <2>4. QED  BY <1>0, <1>2, <1>4, <1>7, <2>1, <2>2, <2>3 DEF GatesRight, Before
<1>9. PICK d \in Client, i \in C!Items : Has(d, i) /\ i.method \in C!Commands /\ i.arg = above
  <2>1. PICK d \in Client : \/ cur[d].method \in C!Commands /\ cur[d].arg = above
                            \/ \E k \in DOMAIN queue[d] : queue[d][k].method \in C!Commands /\ queue[d][k].arg = above
    BY DEF C!IsPending
  <2>2. cur[d] \in C!Items  BY <1>0 DEF ChatTyped
  <2>3. PICK q \in Seq(C!Items) : q = queue[d]  BY <1>0 DEF ChatTyped
  <2>4. \A k \in DOMAIN q : q[k] \in C!Items  OBVIOUS
  <2>5. QED  BY <2>1, <2>2, <2>3, <2>4 DEF Has
<1>10. Comes(d, l)
  <2>1. i.arg < f[l]  BY <1>6, <1>7, <1>9
  <2>2. QED  BY <1>1, <1>9, <2>1 DEF Layout, CommandRight
<1>11. d \in Coming(l) /\ IsFiniteSet(Coming(l)) /\ Cardinality(Coming(l)) = 0
  <2>1. IsFiniteSet(Coming(l))  BY FS_Subset DEF Coming
  <2>2. Cardinality(Coming(l)) = 0  BY <1>0, <1>4, <1>7, <1>8 DEF GatesRight
  <2>3. QED  BY <1>10, <2>1, <2>2 DEF Coming
<1>12. QED  BY <1>11, FS_EmptySet

LEMMA VerdictsAreDeserved == ChatInv => C!VerdictDeserved
<1> SUFFICES ASSUME ChatInv, mpc = "exit" PROVE C!VerdictDeserved  BY DEF C!VerdictDeserved
<1>1. ChatTyped /\ EndsRight  BY DEF ChatInv
<1>2. ASSUME status = "OK", NEW k, C!IsPending(k) PROVE FALSE
  <2>1. done = known  BY <1>1, <1>2 DEF EndsRight
  <2>2. \A c \in Client : queue[c] = <<>> /\ cur[c] = C!None  BY <1>1, <2>1 DEF EndsRight
  <2>3. \A c \in Client : DOMAIN queue[c] = {} /\ cur[c].method \notin C!Commands
    BY <2>2, ChatConstants DEF C!None
  <2>4. QED  BY <1>2, <2>3 DEF C!IsPending
<1>3. QED  BY <1>1, <1>2 DEF EndsRight, C!VerdictDeserved

LEMMA RunsChat == AllSpec => C!Init /\ [][C!Next]_(C!chatVars)
<1>1. AllInit => C!Init  BY DEF AllInit
<1>2. [AllNext]_allVars => [C!Next]_(C!chatVars)
  BY DEF AllNext, allVars, Table, Chat, Runner, chatVars, C!chatVars, C!file, C!conns
<1>3. QED  BY <1>1, <1>2, PTL DEF AllSpec

(* In the chat interactor a connection carries out nothing below a line of *)
(* "=" before all above it, of all connections, has been carried out, and  *)
(* the verdict is the one that the server has deserved: for any            *)
(* connections and any file.                                               *)
THEOREM ChatIsRight == AllSpec => []ChatRight
<1>1. ChatInv => ChatRight
  BY ChatTypesRight, BarriersAreKept, VerdictsAreDeserved DEF ChatInv, ChatRight
<1>2. QED  BY <1>1, InitChatInv, StepChatInv, RunsChat, PTL
=============================================================================
