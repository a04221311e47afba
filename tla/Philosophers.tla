---------------------------- MODULE Philosophers ----------------------------
(***************************************************************************)
(* Table (tasks/09-fp-thr/philosophers/table.cpp), used as its StressTest  *)
(* uses it: each philosopher is a ThreadRunner thread that eats again and  *)
(* again until its deadline passes, and the main thread joins them all.    *)
(* A mutex is the philosopher that holds it, or nobody.                    *)
(***************************************************************************)
EXTENDS Naturals

CONSTANTS
  N,        \* how many philosophers the Table is made for
  Guests,   \* the philosophers that come to eat
  Nobody    \* the owner of a free fork

Seats == 0 .. N - 1

ASSUME NAssumption == N \in Nat /\ N >= 2
ASSUME GuestsAssumption == Guests \subseteq Seats
ASSUME NobodyAssumption == Nobody \notin Seats

VARIABLES
  forks,     \* forks_: the owner of each mutex
  pc,        \* where each philosopher is in StartEating and StopEating
  expired,   \* should_run() of a philosopher answers false from now on
  joined     \* Join has returned

vars == <<forks, pc, expired, joined>>

RightFork(i) == IF i + 1 = N THEN 0 ELSE i + 1
LeftFork(i) == i

Init ==
  /\ forks = [f \in Seats |-> Nobody]
  /\ pc = [i \in Guests |-> "think"]
  /\ expired = [i \in Guests |-> FALSE]
  /\ joined = FALSE

-----------------------------------------------------------------------------
Lock(f, i) == forks[f] = Nobody /\ forks' = [forks EXCEPT ![f] = i]
Unlock(f) == forks' = [forks EXCEPT ![f] = Nobody]
Goto(i, from, to) == pc[i] = from /\ pc' = [pc EXCEPT ![i] = to]

Expire(i) ==
  /\ ~expired[i] /\ expired' = [expired EXCEPT ![i] = TRUE]
  /\ UNCHANGED <<forks, pc, joined>>

(* ThreadRunner: while (should_run()) StartEating(i), StopEating(i)        *)
GetHungry(i) ==
  /\ ~expired[i] /\ Goto(i, "think", "hungry")
  /\ UNCHANGED <<forks, expired, joined>>

Leave(i) ==
  /\ expired[i] /\ Goto(i, "think", "gone")
  /\ UNCHANGED <<forks, expired, joined>>

(* StartEating: forks_[LeftFork(i)].lock(); forks_[RightFork(i)].lock()    *)
TakeLeft(i) ==
  /\ Goto(i, "hungry", "waiting") /\ Lock(LeftFork(i), i)
  /\ UNCHANGED <<expired, joined>>

(* Fault: try_lock, and what it returns is not looked at.                  *)
TryRight(i) ==
  /\ Goto(i, "waiting", "eating")
  /\ IF forks[RightFork(i)] = Nobody THEN Lock(RightFork(i), i) ELSE UNCHANGED forks
  /\ UNCHANGED <<expired, joined>>

TakeRight(i) ==
  /\ Goto(i, "waiting", "eating") /\ Lock(RightFork(i), i)
  /\ UNCHANGED <<expired, joined>>

(* StopEating: the forks are put back in the same order.                   *)
PutLeft(i) ==
  /\ Goto(i, "eating", "full") /\ Unlock(LeftFork(i))
  /\ UNCHANGED <<expired, joined>>

(* Fault: the right fork is not put back.                                  *)
KeepRight(i) == Goto(i, "full", "think") /\ UNCHANGED <<forks, expired, joined>>

PutRight(i) ==
  /\ Goto(i, "full", "think") /\ Unlock(RightFork(i))
  /\ UNCHANGED <<expired, joined>>

Join ==
  /\ ~joined /\ \A i \in Guests : pc[i] = "gone"
  /\ joined' = TRUE
  /\ UNCHANGED <<forks, pc, expired>>

Done == joined /\ UNCHANGED vars

Philosopher(i) ==
  \/ GetHungry(i) \/ Leave(i)
  \/ TakeLeft(i) \/ TakeRight(i) \/ PutLeft(i) \/ PutRight(i)

Next == (\E i \in Guests : Philosopher(i) \/ Expire(i)) \/ Join \/ Done

Spec == Init /\ [][Next]_vars

(* std::mutex promises no order among waiters: only a philosopher whose    *)
(* step stays possible is sure to take it.                                 *)
FairSpec ==
  /\ Spec
  /\ \A i \in Guests : WF_vars(Philosopher(i)) /\ WF_vars(Expire(i))
  /\ WF_vars(Join)

-----------------------------------------------------------------------------
TypeOK ==
  /\ forks \in [Seats -> Guests \cup {Nobody}]
  /\ pc \in [Guests -> {"think", "hungry", "waiting", "eating", "full", "gone"}]
  /\ expired \in [Guests -> BOOLEAN]
  /\ joined \in BOOLEAN
  /\ joined => \A i \in Guests : pc[i] = "gone"

NextTo(i, j) == j = i + 1 \/ (i = N - 1 /\ j = 0)
Neighbours(i, j) == NextTo(i, j) \/ NextTo(j, i)

(* No two neighbours are between StartEating and StopEating at once.       *)
NeighboursNeverEatTogether ==
  \A i, j \in Guests : Neighbours(i, j) => ~(pc[i] = "eating" /\ pc[j] = "eating")

(* A fork is held exactly by the philosopher whose position in the code    *)
(* says so: StopEating never releases a neighbour's mutex.                 *)
HoldsLeft(i) == pc[i] \in {"waiting", "eating"}
HoldsRight(i) == pc[i] \in {"eating", "full"}

ForksMatchPositions ==
  \A i \in Guests :
    /\ HoldsLeft(i) <=> forks[LeftFork(i)] = i
    /\ HoldsRight(i) <=> forks[RightFork(i)] = i

(* StressTest and AllSizes need Join to return once the deadlines have     *)
(* passed.  It does unless the whole table is seated and everybody holds   *)
(* just the left fork: no shorter chain of waiting philosophers, whoever   *)
(* has left the table already, can block for good.                         *)
FullCircle == Guests = Seats /\ \A i \in Guests : pc[i] = "waiting"

HomeOrFullCircle == <>(joined \/ FullCircle)
=============================================================================
