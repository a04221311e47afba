---------------------------- MODULE HarnessProofs ----------------------------
(***************************************************************************)
(* Proofs about what unit tests run in and about two of the solutions they *)
(* run: the verdict of RunTestsForked is about a session that came to its  *)
(* end, however many processes the tests fork; the guards see what has     *)
(* changed and change nothing, whatever is open and whatever the tests do  *)
(* with it; fib-root is right whatever the width of the type, and          *)
(* binary-tree whatever the tree and however its reads are cut.            *)
(***************************************************************************)
EXTENDS MCHarness, FiniteSetTheorems, TLAPS

-----------------------------------------------------------------------------
LEMMA TesterFinite == IsFiniteSet(Tester)
BY GrandchildAssumption, FS_AddElement DEF Tester

(* What the invariant needs to know of the number of reports in the pipe.  *)
LEMMA ReportedBound ==
  ASSUME ran \subseteq Tester
  PROVE  /\ IsFiniteSet(ran) /\ IsFiniteSet(Reported)
         /\ Cardinality(Reported) <= Cardinality(ran)
         /\ Cardinality(Reported) \in Nat /\ Cardinality(ran) \in Nat
<1>1. IsFiniteSet(ran) BY TesterFinite, FS_Subset
<1>2. IsFiniteSet(Reported) /\ Cardinality(Reported) <= Cardinality(ran)
  BY <1>1, FS_Subset DEF Reported
<1>3. QED BY <1>1, <1>2, FS_CardinalityType

LEMMA InitIInv == Init => IInv
<1> SUFFICES ASSUME Init PROVE IInv OBVIOUS
<1>1. Reported = {} /\ Cardinality(Reported) = 0 BY FS_EmptySet DEF Init, Reported
<1>2. Cardinality(ran) = 0 BY FS_EmptySet DEF Init
<1>3. TypeOK BY <1>2, CodeAssumption DEF Init, TypeOK, Tester
<1>4. SessionsRight BY <1>1 DEF Init, SessionsRight
<1>5. QED
  BY <1>3, <1>4
     DEF Init, IInv, ParentRight, PipeRight, PassMeansASessionPassed, WithoutIntruders,
         Passed, Tester

(* The steps of the parent leave the processes and their reports alone.    *)
LEMMA ParentStep == IInv /\ Parent => IInv'
<1> SUFFICES ASSUME IInv, Parent PROVE IInv' OBVIOUS
<1>0. /\ ran \subseteq Tester /\ "child" \in Tester /\ pipe \in Seq(Code)
      /\ code["child"] \in Code
  BY DEF IInv, TypeOK, Tester
<1>1. CASE WaitKilled
  BY <1>0, <1>1 DEF WaitKilled, IInv, TypeOK, SessionsRight, ParentRight, PipeRight,
       PassMeansASessionPassed, WithoutIntruders, Passed, Reported
<1>2. CASE WaitExited
  BY <1>0, <1>2 DEF WaitExited, IInv, TypeOK, SessionsRight, ParentRight, PipeRight,
       PassMeansASessionPassed, WithoutIntruders, Passed, Reported
<1>3. CASE ReadReport
  <2>1. /\ pipe # <<>> /\ pipe' = Tail(pipe) /\ parent = "read"
        /\ parent' = IF Head(pipe) = code["child"] THEN "returned" ELSE "died"
        /\ UNCHANGED <<pc, code, ran, ret>>
    BY <1>3 DEF ReadReport
  <2>2. /\ pipe' \in Seq(Code) /\ Len(pipe') = Len(pipe) - 1 /\ Len(pipe) \in Nat
        /\ \A i \in DOMAIN pipe' : i + 1 \in DOMAIN pipe /\ pipe'[i] = pipe[i + 1]
    BY <1>0, <2>1
  <2>3. Head(pipe) = pipe[1] /\ 1 \in DOMAIN pipe BY <1>0, <2>1
  <2>4. PICK p \in ran : code[p] = Head(pipe) BY <2>3 DEF IInv, SessionsRight
  <2>5. code["child"] = 0 /\ ret = 0 /\ pc["child"] = "exited"
    BY <2>1 DEF IInv, ParentRight
  <2>6. Reported' = Reported BY <2>1 DEF Reported
  <2>7. TypeOK'
    <3>1. Len(pipe') <= Cardinality(ran)
      BY <1>0, <2>2, ReportedBound DEF IInv, TypeOK
    <3>2. QED BY <2>1, <2>2, <3>1 DEF IInv, TypeOK
  <2>8. SessionsRight'
    <3>1. Len(pipe') <= Cardinality(Reported)
      BY <1>0, <2>2, ReportedBound DEF IInv, SessionsRight
    <3>2. QED BY <2>1, <2>2, <2>6, <3>1 DEF IInv, SessionsRight
  <2>9. ParentRight' /\ PipeRight'
    BY <2>1, <2>5 DEF IInv, ParentRight, PipeRight
  <2>10. PassMeansASessionPassed'
    BY <2>1, <2>4, <2>5 DEF PassMeansASessionPassed, Passed
  <2>11. WithoutIntruders'
    <3>1. ran = {"child"} => Head(pipe) = code["child"] BY <2>4
    <3>2. ran # {} BY <2>4
    <3>3. QED BY <2>1, <2>5, <3>1, <3>2 DEF WithoutIntruders, Passed
  <2>12. QED BY <2>7, <2>8, <2>9, <2>10, <2>11 DEF IInv
<1>4. CASE ReadEnd
  <2>1. /\ pipe = <<>> /\ parent = "read" /\ parent' = "returned" /\ ret' = 1
        /\ UNCHANGED <<pc, code, ran, pipe>>
    BY <1>4 DEF ReadEnd
  <2>2. ran # {"child"}
    BY <2>1 DEF IInv, PipeRight, ParentRight
  <2>3. QED
    BY <2>1, <2>2 DEF IInv, TypeOK, SessionsRight, ParentRight, PipeRight,
       PassMeansASessionPassed, WithoutIntruders, Passed, Reported
<1>5. QED BY <1>1, <1>2, <1>3, <1>4 DEF Parent

(* A process that forks, exits or is killed reports nothing; one that ends *)
(* its session was not in ran, and has its report still to write.          *)
LEMMA ForkStep ==
  ASSUME IInv, NEW p \in Tester, NEW g \in Grandchild, Fork(p, g)
  PROVE  IInv'
<1>1. g \in Tester /\ g # "child" /\ g \notin ran
  BY GrandchildAssumption DEF Tester, IInv, TypeOK, SessionsRight, Fork, Goto
<1>2. Reported' = Reported BY <1>1 DEF Fork, Goto, Reported, IInv, TypeOK
<1>3. QED
  BY <1>1, <1>2 DEF Fork, Goto, IInv, TypeOK, SessionsRight, ParentRight, PipeRight,
       PassMeansASessionPassed, WithoutIntruders, Passed

LEMMA EndStep ==
  ASSUME IInv, NEW p \in Tester, NEW c \in Code, EndSession(p, c)
  PROVE  IInv'
<1>0. /\ ran \subseteq Tester /\ pc \in [Tester -> {"unborn", "session", "report", "exiting", "exited", "killed"}]
      /\ pc[p] = "session" /\ pc' = [pc EXCEPT ![p] = "report"]
      /\ code' = [code EXCEPT ![p] = c] /\ ran' = ran \cup {p} /\ code \in [Tester -> Code]
      /\ UNCHANGED <<pipe, parent, ret>> /\ "child" \in Tester
  BY DEF IInv, TypeOK, EndSession, Goto, Tester
<1>1. p \notin ran BY <1>0 DEF IInv, SessionsRight
<1>2. Reported' = Reported BY <1>0, <1>1 DEF Reported
<1>3. \A q \in ran : code'[q] = code[q] BY <1>0, <1>1
<1>4. TypeOK'
  <2>1. Cardinality(ran') = Cardinality(ran) + 1 /\ Cardinality(ran) \in Nat
    BY <1>0, <1>1, ReportedBound, FS_AddElement
  <2>2. Len(pipe) \in Nat BY DEF IInv, TypeOK
  <2>3. QED BY <1>0, <2>1, <2>2 DEF IInv, TypeOK
<1>5. SessionsRight' BY <1>0, <1>1, <1>2, <1>3 DEF IInv, SessionsRight
<1>6. ParentRight' BY <1>0 DEF IInv, ParentRight
<1>7. PipeRight' BY <1>0, <1>1 DEF IInv, PipeRight
<1>8. PassMeansASessionPassed'
  BY <1>0, <1>3 DEF IInv, PassMeansASessionPassed, Passed
<1>9. WithoutIntruders'
  <2>1. Passed => ran # {} BY DEF IInv, PassMeansASessionPassed
  <2>2. QED BY <1>0, <1>1, <2>1 DEF IInv, WithoutIntruders, Passed
<1>10. QED BY <1>4, <1>5, <1>6, <1>7, <1>8, <1>9 DEF IInv

LEMMA ExitStep ==
  ASSUME IInv, NEW p \in Tester, NEW c \in Code, Exit(p, c)
  PROVE  IInv'
<1>1. p \notin ran /\ pc[p] = "session" BY DEF IInv, SessionsRight, Exit, Goto
<1>2. Reported' = Reported BY <1>1 DEF Exit, Goto, Reported, IInv, TypeOK
<1>3. \A q \in ran : code'[q] = code[q] BY <1>1 DEF Exit, IInv, TypeOK
<1>4. QED
  BY <1>1, <1>2, <1>3 DEF Exit, Goto, IInv, TypeOK, SessionsRight, ParentRight,
       PipeRight, PassMeansASessionPassed, WithoutIntruders, Passed, Tester

LEMMA WriteStep ==
  ASSUME IInv, NEW p \in Tester, WriteReport(p)
  PROVE  IInv'
<1>0. /\ ran \subseteq Tester /\ pc[p] = "report" /\ p \in ran /\ pipe \in Seq(Code)
      /\ pipe' = Append(pipe, code[p]) /\ code[p] \in Code
      /\ UNCHANGED <<code, ran, parent, ret>>
      /\ pc \in [Tester -> {"unborn", "session", "report", "exiting", "exited", "killed"}]
      /\ pc' = [pc EXCEPT ![p] = "exiting"] /\ "child" \in Tester
  BY DEF IInv, TypeOK, SessionsRight, WriteReport, Goto, Tester
<1>1. p \notin Reported /\ Reported' = Reported \cup {p} BY <1>0 DEF Reported
<1>2. Cardinality(Reported') = Cardinality(Reported) + 1
  BY <1>0, <1>1, ReportedBound, FS_AddElement
<1>3. /\ pipe' \in Seq(Code) /\ Len(pipe') = Len(pipe) + 1 /\ Len(pipe) \in Nat
      /\ \A i \in DOMAIN pipe' : (i \in DOMAIN pipe /\ pipe'[i] = pipe[i]) \/ pipe'[i] = code[p]
  BY <1>0
<1>4. Len(pipe') <= Cardinality(Reported')
  BY <1>0, <1>2, <1>3, ReportedBound DEF IInv, SessionsRight
<1>5. Cardinality(Reported') <= Cardinality(ran)
  <2>1. Reported' \subseteq ran BY <1>0 DEF Reported
  <2>2. QED BY <1>0, <2>1, ReportedBound, FS_Subset
<1>6. TypeOK'
  <2>1. Len(pipe') <= Cardinality(ran)
    BY <1>0, <1>2, <1>3, <1>4, <1>5, ReportedBound
  <2>2. QED BY <1>0, <1>3, <2>1 DEF IInv, TypeOK
<1>7. SessionsRight' BY <1>0, <1>3, <1>4 DEF IInv, SessionsRight
<1>8. ParentRight' BY <1>0 DEF IInv, ParentRight
<1>9. PipeRight'
  <2> SUFFICES ASSUME parent \in {"wait", "read"}, ran = {"child"}
               PROVE  pipe' = <<code["child"]>> /\ pc'["child"] = "exiting"
    BY <1>0 DEF PipeRight
  <2>1. p = "child" BY <1>0
  <2>2. pipe = <<>> BY <1>0, <2>1 DEF IInv, PipeRight
  <2>3. Append(<<>>, code["child"]) = <<code["child"]>> BY <1>0, <2>1
  <2>4. QED BY <1>0, <2>1, <2>2, <2>3
<1>10. PassMeansASessionPassed' /\ WithoutIntruders'
  BY <1>0 DEF IInv, PassMeansASessionPassed, WithoutIntruders, Passed
<1>11. QED BY <1>6, <1>7, <1>8, <1>9, <1>10 DEF IInv

LEMMA LeaveStep ==
  ASSUME IInv, NEW p \in Tester, Leave(p)
  PROVE  IInv'
<1>1. Reported' = Reported BY DEF Leave, Goto, Reported, IInv, TypeOK
<1>2. parent \in {"read", "returned", "died"} => p # "child"
  BY DEF Leave, Goto, IInv, ParentRight
<1>3. parent \in {"wait", "read", "returned", "died"} /\ "child" \in Tester
  BY DEF IInv, TypeOK, Tester
<1>4. TypeOK' /\ SessionsRight' /\ ParentRight' /\ PipeRight'
  BY <1>1, <1>2, <1>3 DEF Leave, Goto, IInv, TypeOK, SessionsRight, ParentRight, PipeRight
<1>5. PassMeansASessionPassed' /\ WithoutIntruders'
  BY <1>2, <1>3 DEF Leave, Goto, IInv, TypeOK, PassMeansASessionPassed,
       WithoutIntruders, Passed
<1>6. QED BY <1>4, <1>5 DEF IInv

LEMMA KillStep ==
  ASSUME IInv, NEW p \in Tester, Kill(p)
  PROVE  IInv'
<1>0. /\ ran \subseteq Tester /\ "child" \in Tester
      /\ pc \in [Tester -> {"unborn", "session", "report", "exiting", "exited", "killed"}]
      /\ pc[p] \in {"session", "report", "exiting"}
      /\ pc' = [pc EXCEPT ![p] = "killed"] /\ UNCHANGED <<code, ran, pipe, parent, ret>>
      /\ parent \in {"wait", "read", "returned", "died"}
  BY DEF IInv, TypeOK, Kill, Alive, Tester
<1>1. Cardinality(Reported) <= Cardinality(Reported') /\ Cardinality(Reported') \in Nat
  <2>1. Reported \subseteq Reported' /\ Reported' \subseteq ran BY <1>0 DEF Reported
  <2>2. IsFiniteSet(Reported') BY <1>0, <2>1, ReportedBound, FS_Subset
  <2>3. QED BY <2>1, <2>2, FS_Subset, FS_CardinalityType
<1>2. Len(pipe) \in Nat /\ Len(pipe) <= Cardinality(Reported')
  <2>1. Len(pipe) \in Nat /\ Len(pipe) <= Cardinality(Reported)
    BY DEF IInv, TypeOK, SessionsRight
  <2>2. QED BY <1>0, <1>1, <2>1, ReportedBound
<1>3. parent \in {"read", "returned", "died"} => p # "child"
  BY <1>0 DEF IInv, ParentRight
<1>4. TypeOK' BY <1>0 DEF IInv, TypeOK
<1>5. SessionsRight' BY <1>0, <1>2 DEF IInv, SessionsRight
<1>6. ParentRight' /\ PipeRight' BY <1>0, <1>3 DEF IInv, ParentRight, PipeRight
<1>7. PassMeansASessionPassed' /\ WithoutIntruders'
  BY <1>0, <1>3 DEF IInv, PassMeansASessionPassed, WithoutIntruders, Passed
<1>8. QED BY <1>4, <1>5, <1>6, <1>7 DEF IInv

LEMMA StepIInv == IInv /\ [Next]_vars => IInv'
<1> SUFFICES ASSUME IInv, [Next]_vars PROVE IInv' OBVIOUS
<1>1. CASE Parent BY <1>1, ParentStep
<1>2. ASSUME NEW p \in Tester, Test(p) PROVE IInv'
  BY <1>2, WriteStep, LeaveStep, KillStep, EndStep, ExitStep DEF Test
<1>3. ASSUME NEW p \in Tester, NEW g \in Grandchild, Fork(p, g) PROVE IInv'
  BY <1>3, ForkStep
<1>4. CASE UNCHANGED vars
  <2>1. Reported' = Reported BY <1>4 DEF vars, Reported
  <2>2. QED
    BY <1>4, <2>1 DEF vars, IInv, TypeOK, SessionsRight, ParentRight, PipeRight,
         PassMeansASessionPassed, WithoutIntruders, Passed
<1>5. QED BY <1>1, <1>2, <1>3, <1>4 DEF Next, Over

LEMMA Invariance == Spec => []IInv
BY InitIInv, StepIInv, PTL DEF Spec

(* Type correctness; there are never more reports than ended sessions.     *)
THEOREM TypeCorrect == Spec => []TypeOK
<1>1. IInv => TypeOK BY DEF IInv
<1>2. QED BY <1>1, Invariance, PTL

(* RunTestsForked answers 0 only when a session has come to its end with 0.*)
THEOREM PassIsEarned == Spec => []PassMeansASessionPassed
<1>1. IInv => PassMeansASessionPassed BY DEF IInv
<1>2. QED BY <1>1, Invariance, PTL

(* Unless a grandchild comes back from the session, the verdict is that of *)
(* the child's own session.                                                *)
THEOREM VerdictIsTheChilds == Spec => []WithoutIntruders
<1>1. IInv => WithoutIntruders BY DEF IInv
<1>2. QED BY <1>1, Invariance, PTL
-----------------------------------------------------------------------------
(* The table without its last element is the Fibonacci sequence.           *)
TableRight ==
  /\ F!Exact
  /\ \A k \in 1 .. Len(sequence) - 1 : sequence[k] >= 1
  /\ \A j, k \in 1 .. Len(sequence) - 1 :
       /\ j < k => sequence[j] <= sequence[k]
       /\ 1 < j /\ j < k => sequence[j] < sequence[k]

(* The last element is the next one modulo modulus, until it is replaced.    *)
LastRight ==
  IF fpc = "fill"
  THEN F!Last = (F!Previous + sequence[Len(sequence) - 2]) % modulus
  ELSE F!Last = modulus - 1 /\ F!Previous + sequence[Len(sequence) - 2] >= modulus

AnswersRight == \A k \in DOMAIN answers : F!IsRoot(answers[k], input[k])

RootInv ==
  /\ F!TypeOK /\ TableRight /\ LastRight
  /\ fpc = "fill" => answers = <<>>
  /\ AnswersRight

(* A sum of two numbers of the type wraps around once at most.             *)
LEMMA WrapsOnce ==
  ASSUME NEW n \in Nat, n >= 4, NEW s \in Nat, s < 2 * n
  PROVE  s % n = IF s < n THEN s ELSE s - n
<1>1. CASE s < n  BY <1>1
<1>2. CASE s >= n
  <2>1. s = n * 1 + (s - n) /\ s - n \in 0 .. n - 1  BY <1>2
  <2>2. QED  BY <2>1, <1>2
<1>3. QED  BY <1>1, <1>2

LEMMA RootsCardinality == \A S : F!Cardinality(S) = Cardinality(S)
BY DEF F!Cardinality, Cardinality

(* What a finished table holds below x comes first in it.                  *)
LEMMA LowerBoundSplits ==
  ASSUME F!TypeOK, F!LimitsAssumption, F!Sorted, NEW x \in Nat
  PROVE  /\ F!LowerBound(x) \in 0 .. Len(sequence)
         /\ \A k \in DOMAIN sequence : sequence[k] < x <=> k <= F!LowerBound(x)
<1> DEFINE S == {k \in DOMAIN sequence : sequence[k] < x}
           m == Cardinality(S)
<1>1. /\ DOMAIN sequence = 1 .. Len(sequence) /\ Len(sequence) \in Nat
      /\ \A k \in DOMAIN sequence : sequence[k] \in Int
  BY DEF F!TypeOK, F!Input, F!Number, F!LimitsAssumption
<1>2. IsFiniteSet(DOMAIN sequence) /\ Cardinality(DOMAIN sequence) = Len(sequence)
  <2>1. PICK n \in Nat : n = Len(sequence)  BY <1>1
  <2>2. IsFiniteSet(1 .. n) /\ Cardinality(1 .. n) = n  BY FS_Interval
  <2>3. QED  BY <1>1, <2>1, <2>2
<1>3. IsFiniteSet(S) /\ m <= Len(sequence)
  BY <1>2, FS_Subset, S \in SUBSET DOMAIN sequence
<1>4. m \in Nat
  BY <1>3, FS_CardinalityType
<1>5. \A k \in S : 1 .. k \subseteq S
  BY <1>1 DEF F!Sorted
<1>6. ASSUME NEW k \in S PROVE k <= m
  <2>1. k \in Int /\ k >= 1  BY <1>1
  <2>2. Cardinality(1 .. k) = k  BY <2>1, FS_Interval, 1 \in Int
  <2>3. 1 .. k \in SUBSET S  BY <1>5
  <2>4. Cardinality(1 .. k) <= m  BY <2>3, <1>3, FS_Subset
  <2>5. QED  BY <2>2, <2>4
<1>7. S \in SUBSET (1 .. m)
  BY <1>6, <1>1, <1>4
<1>8. IsFiniteSet(1 .. m) /\ Cardinality(1 .. m) = m
  BY <1>4, FS_Interval, 1 \in Int, m \in Int
<1>9. S = 1 .. m
  BY <1>7, <1>8, FS_Subset
<1>10. F!LowerBound(x) = m
  BY RootsCardinality DEF F!LowerBound
<1>11. QED
  BY <1>1, <1>3, <1>4, <1>9, <1>10

LEMMA TableIsSorted ==
  ASSUME RootInv, F!LimitsAssumption, fpc # "fill"
  PROVE  F!Sorted
<1> USE DEF RootInv, F!TypeOK, F!Input, F!Number, TableRight, LastRight, F!Last
<1>1. modulus \in Nat /\ modulus >= 4  BY DEF F!LimitsAssumption
<1>2. \A k \in DOMAIN sequence : sequence[k] \in Nat /\ sequence[k] <= F!Last
  BY <1>1
<1>3. \A j, k \in DOMAIN sequence : j < k => j \in 1 .. Len(sequence) - 1 /\ (k \in 1 .. Len(sequence) - 1 \/ k = Len(sequence))
  OBVIOUS
<1>4. QED  BY <1>1, <1>2, <1>3 DEF F!Sorted

LEMMA ElementsOf ==
  ASSUME NEW E, NEW s \in Seq(E)
  PROVE  Len(s) \in Nat /\ DOMAIN s = 1 .. Len(s) /\ \A k \in 1 .. Len(s) : s[k] \in E
OBVIOUS

(* RootInv in terms of the length of the table.                               *)
LEMMA TableFacts ==
  ASSUME F!LimitsAssumption, RootInv, NEW n, n = Len(sequence)
  PROVE  /\ modulus \in Nat /\ modulus >= 4 /\ n \in Nat /\ n >= 3
         /\ DOMAIN sequence = 1 .. n
         /\ \A k \in 1 .. n : sequence[k] \in 0 .. modulus - 1
         /\ \A k \in 1 .. n - 1 : sequence[k] >= 1
         /\ sequence[1] = 1 /\ sequence[2] = 1
         /\ \A k \in 3 .. n - 1 : sequence[k] = sequence[k - 1] + sequence[k - 2]
         /\ \A j, k \in 1 .. n - 1 : j < k => sequence[j] <= sequence[k]
         /\ \A j, k \in 1 .. n - 1 : 1 < j /\ j < k => sequence[j] < sequence[k]
<1>1. modulus \in Nat /\ modulus >= 4  BY DEF F!LimitsAssumption, RootInv, F!TypeOK, F!Input, F!Number
<1>2. sequence \in Seq(0 .. modulus - 1)  BY DEF RootInv, F!TypeOK, F!Input, F!Number
<1>3. n \in Nat /\ DOMAIN sequence = 1 .. n /\ \A k \in 1 .. n : sequence[k] \in 0 .. modulus - 1
  <2>1. PICK E : E = 0 .. modulus - 1  OBVIOUS
  <2>2. sequence \in Seq(E)  BY <1>2, <2>1
  <2>3. n \in Nat /\ DOMAIN sequence = 1 .. n /\ \A k \in 1 .. n : sequence[k] \in E
    BY <2>2, ElementsOf
  <2>4. QED  BY <2>1, <2>3
<1>4. TableRight  BY DEF RootInv
<1>5. QED  BY <1>1, <1>3, <1>4 DEF TableRight, F!Exact

(* The same of the last element, taken modulo modulus or not.                *)
LEMMA LastFacts ==
  ASSUME F!LimitsAssumption, RootInv, NEW n, n = Len(sequence)
  PROVE  /\ fpc # "fill" => sequence[n] = modulus - 1 /\ sequence[n - 1] + sequence[n - 2] >= modulus
         /\ fpc = "fill" =>
              sequence[n] = IF sequence[n - 1] + sequence[n - 2] < modulus
                            THEN sequence[n - 1] + sequence[n - 2]
                            ELSE sequence[n - 1] + sequence[n - 2] - modulus
<1>1. LastRight  BY DEF RootInv
<1>2. CASE fpc # "fill"  BY <1>1, <1>2 DEF LastRight, F!Last, F!Previous
<1>3. CASE fpc = "fill"
  <2>1. sequence[n] = (sequence[n - 1] + sequence[n - 2]) % modulus
    BY <1>1, <1>3 DEF LastRight, F!Last, F!Previous
  <2>2. /\ sequence[n - 1] \in 0 .. modulus - 1 /\ sequence[n - 2] \in 0 .. modulus - 1
        /\ modulus \in Nat /\ modulus >= 4
    <3>1. n \in Nat /\ n - 1 \in 1 .. n /\ n - 2 \in 1 .. n  BY TableFacts
    <3>2. QED  BY <3>1, TableFacts
  <2>3. PICK s : s = sequence[n - 1] + sequence[n - 2]  OBVIOUS
  <2>4. s \in Nat /\ s < 2 * modulus  BY <2>2, <2>3
  <2>5. s % modulus = IF s < modulus THEN s ELSE s - modulus  BY <2>2, <2>4, WrapsOnce
  <2>6. sequence[n] = IF s < modulus THEN s ELSE s - modulus  BY <2>1, <2>3, <2>5
  <2>7. QED  BY <1>3, <2>2, <2>3, <2>6
<1>4. QED  BY <1>2, <1>3

(* A number of the signed type never reaches the last element.             *)
LEMMA RootIsRight ==
  ASSUME RootInv, F!LimitsAssumption, fpc # "fill", NEW x \in Nat, F!Fits(x)
  PROVE  F!FibRootOf(x) \in Int /\ F!IsRoot(F!FibRootOf(x), x)
<1>0. PICK n, m : n = Len(sequence) /\ m = F!LowerBound(x)  OBVIOUS
<1>1. modulus \in Nat /\ modulus >= 4 /\ n \in Nat /\ n >= 3 /\ sequence[1] = 1 /\ sequence[2] = 1
  BY <1>0, TableFacts
<1>2. x < modulus - 1  BY <1>1 DEF F!Fits
<1>3. /\ \A k \in 1 .. n : sequence[k] \in 0 .. modulus - 1
      /\ \A k \in 1 .. n - 1 : sequence[k] >= 1
      /\ \A k \in 3 .. n - 1 : sequence[k] = sequence[k - 1] + sequence[k - 2]
  BY <1>0, TableFacts
<1>4. sequence[n] = modulus - 1 /\ sequence[n - 1] + sequence[n - 2] >= modulus
  BY <1>0, LastFacts
<1>5. m \in 0 .. n /\ \A k \in 1 .. n : sequence[k] < x <=> k <= m
  <2>1. F!Sorted /\ F!TypeOK  BY TableIsSorted DEF RootInv
  <2>2. DOMAIN sequence = 1 .. n  BY <1>0, TableFacts
  <2>3. QED  BY <2>1, <2>2, <1>0, LowerBoundSplits
<1>6. CASE x = 0  BY <1>6 DEF F!FibRootOf, F!IsRoot
<1>7. CASE x = 1  BY <1>7, <1>0, <1>1 DEF F!FibRootOf, F!IsRoot
<1>8. CASE x > 1
  <2>1. m >= 2 /\ m < n
    <3>1. sequence[2] < x /\ 2 \in 1 .. n  BY <1>1, <1>8
    <3>2. ~(sequence[n] < x) /\ n \in 1 .. n  BY <1>1, <1>2, <1>4
    <3>3. QED  BY <3>1, <3>2, <1>1, <1>5
  <2>2. m \in Nat /\ m \in 2 .. n - 1 /\ m \in 1 .. n /\ m + 1 \in 1 .. n /\ m - 1 \in 1 .. n - 2
    BY <2>1, <1>1, <1>5
  <2>3. /\ sequence[m] \in 0 .. modulus - 1 /\ sequence[m] >= 1 /\ sequence[m - 1] \in 0 .. modulus - 1
        /\ sequence[m + 1] \in 0 .. modulus - 1
    <3>1. m \in 1 .. n - 1 /\ m - 1 \in 1 .. n  BY <2>2, <1>1
    <3>2. QED  BY <3>1, <2>2, <1>3
  <2>4. sequence[m] < x /\ x <= sequence[m + 1]
    <3>1. sequence[m] < x /\ ~(sequence[m + 1] < x)  BY <2>2, <1>5
    <3>2. QED  BY <3>1, <2>3, <1>1
  <2>5. CASE sequence[m + 1] = x
    <3>1. m \in 1 .. n - 2  BY <2>5, <1>1, <1>2, <1>4, <2>2
    <3>2. F!FibRootOf(x) = m  BY <2>5, <1>0, <1>8 DEF F!FibRootOf
    <3>3. QED  BY <3>1, <3>2, <2>3, <2>5, <1>0, <1>1, <1>8 DEF F!IsRoot
  <2>6. CASE sequence[m + 1] # x
    <3>1. F!FibRootOf(x) = m - 1  BY <2>6, <1>0, <1>8 DEF F!FibRootOf
    <3>2. x < sequence[m - 1] + sequence[m]
      <4>1. CASE m = n - 1
        <5>1. m - 1 = n - 2  BY <4>1, <1>1
        <5>2. sequence[m] + sequence[m - 1] >= modulus  BY <4>1, <5>1, <1>4
        <5>3. QED  BY <5>2, <2>3, <1>1, <1>2
      <4>2. CASE m # n - 1
        <5>1. PICK p : p = m + 1  OBVIOUS
        <5>2. sequence[p] = sequence[m] + sequence[m - 1]
          <6>1. p \in 3 .. n - 1 /\ p - 1 = m /\ p - 2 = m - 1  BY <5>1, <4>2, <2>2, <1>1
          <6>2. sequence[p] = sequence[p - 1] + sequence[p - 2]  BY <6>1, <1>3
          <6>3. QED  BY <6>1, <6>2
        <5>3. x < sequence[m + 1]  BY <2>3, <2>4, <2>6, <1>1
        <5>4. QED  BY <5>1, <5>2, <5>3, <2>3, <1>1
      <4>3. QED  BY <4>1, <4>2
    <3>3. m - 1 + 1 = m /\ m - 1 \in Int  BY <2>2
    <3>4. QED  BY SMTT(30), <3>1, <3>2, <3>3, <2>2, <2>3, <2>4, <1>0, <1>1, <1>8 DEF F!IsRoot
  <2>7. QED  BY <2>5, <2>6
<1>9. QED  BY <1>6, <1>7, <1>8

LEMMA RootInit ==
  ASSUME F!LimitsAssumption, F!Init
  PROVE  RootInv
<1>1. modulus \in Limits /\ modulus \in Nat /\ modulus >= 4  BY DEF F!Init, F!Input, F!LimitsAssumption
<1>2. sequence = <<1, 1, 2>> /\ Len(sequence) = 3 /\ fpc = "fill" /\ answers = <<>>
  BY DEF F!Init, F!Start
<1>3. \E n \in 0 .. MaxNumbers : input \in [1 .. n -> F!Number]  BY DEF F!Init, F!Input
<1>4. F!TypeOK
  BY <1>1, <1>2, <1>3 DEF F!TypeOK, F!Input, F!Number
<1>5. TableRight  BY <1>2 DEF TableRight, F!Exact
<1>6. 2 % modulus = 2  BY <1>1, WrapsOnce
<1>7. LastRight  BY <1>1, <1>2, <1>6 DEF LastRight, F!Last, F!Previous
<1>8. AnswersRight  BY <1>2 DEF AnswersRight
<1>9. QED  BY <1>2, <1>4, <1>5, <1>7, <1>8 DEF RootInv

LEMMA FillStep ==
  ASSUME F!LimitsAssumption, RootInv, F!Fill
  PROVE  RootInv'
<1>0. PICK n : n = Len(sequence)  OBVIOUS
<1>1. /\ modulus \in Nat /\ modulus >= 4 /\ n \in Nat /\ n >= 3
      /\ \A k \in 1 .. n : sequence[k] \in 0 .. modulus - 1
      /\ \A k \in 1 .. n - 1 : sequence[k] >= 1
      /\ sequence[1] = 1 /\ sequence[2] = 1
      /\ \A k \in 3 .. n - 1 : sequence[k] = sequence[k - 1] + sequence[k - 2]
  BY <1>0, TableFacts
<1>2. /\ \A j, k \in 1 .. n - 1 : j < k => sequence[j] <= sequence[k]
      /\ \A j, k \in 1 .. n - 1 : 1 < j /\ j < k => sequence[j] < sequence[k]
  BY <1>0, TableFacts
<1>3. /\ fpc = "fill" /\ UNCHANGED <<modulus, input, fpc, answers>>
      /\ sequence' = Append(sequence, (sequence[n] + sequence[n - 1]) % modulus)
      /\ sequence[n - 1] < sequence[n]
  BY <1>0 DEF F!Fill, F!Last, F!Previous
<1>4. n \in 1 .. n /\ n - 1 \in 1 .. n /\ n - 2 \in 1 .. n /\ n - 1 \in 1 .. n - 1 /\ n - 2 \in 1 .. n - 1
  BY <1>1
<1>5. (sequence[n] + sequence[n - 1]) % modulus \in 0 .. modulus - 1
  <2>1. sequence[n] + sequence[n - 1] \in Nat  BY <1>1, <1>4
  <2>2. QED  BY <2>1, <1>1
<1>6. /\ sequence' \in Seq(0 .. modulus - 1) /\ Len(sequence') = n + 1
      /\ \A k \in 1 .. n : sequence'[k] = sequence[k]
      /\ sequence'[n + 1] = (sequence[n] + sequence[n - 1]) % modulus
  <2>1. sequence \in Seq(0 .. modulus - 1)  BY DEF RootInv, F!TypeOK, F!Input, F!Number
  <2>2. QED  BY <2>1, <1>0, <1>3, <1>5
<1>7. F!TypeOK'  BY <1>3, <1>6 DEF RootInv, F!TypeOK, F!Input, F!Number
(* The last element has not wrapped around: it is above the previous one.  *)
<1>8. sequence[n] = sequence[n - 1] + sequence[n - 2]
  <2>1. /\ sequence[n] \in 0 .. modulus - 1 /\ sequence[n - 1] \in 0 .. modulus - 1
        /\ sequence[n - 2] \in 0 .. modulus - 1
    BY <1>1, <1>4
  <2>2. sequence[n] = IF sequence[n - 1] + sequence[n - 2] < modulus
                      THEN sequence[n - 1] + sequence[n - 2]
                      ELSE sequence[n - 1] + sequence[n - 2] - modulus
    BY <1>0, <1>3, LastFacts
  <2>3. PICK a, b, c : a = sequence[n - 2] /\ b = sequence[n - 1] /\ c = sequence[n]  OBVIOUS
  <2>4. /\ a \in 0 .. modulus - 1 /\ b \in 0 .. modulus - 1 /\ c \in 0 .. modulus - 1
        /\ c = IF b + a < modulus THEN b + a ELSE b + a - modulus
    BY <2>1, <2>2, <2>3
  <2>5. b < c  BY <1>3, <2>3
  <2>6. c = b + a  BY <2>4, <2>5, <1>1
  <2>7. QED  BY <2>3, <2>6
<1>9. \A k \in 3 .. n : sequence'[k] = sequence'[k - 1] + sequence'[k - 2]
  <2> SUFFICES ASSUME NEW k \in 3 .. n PROVE sequence[k] = sequence[k - 1] + sequence[k - 2]
    BY <1>1, <1>6
  <2>1. CASE k = n  BY <2>1, <1>8
  <2>2. CASE k # n  BY <2>2, <1>1
  <2>3. QED  BY <2>1, <2>2
<1>10. F!Exact'
  <2>1. 1 \in 1 .. n /\ 2 \in 1 .. n /\ n + 1 - 1 = n /\ n + 1 >= 3  BY <1>1
  <2>2. sequence'[1] = 1 /\ sequence'[2] = 1  BY <2>1, <1>1, <1>6
  <2>3. Len(sequence') >= 3 /\ Len(sequence') - 1 = n
    <3>1. Len(sequence') = n + 1  BY <1>6
    <3>2. QED  BY <3>1, <1>1
  <2>4. 3 .. Len(sequence') - 1 = 3 .. n  BY <2>3
  <2>5. QED  BY <2>2, <2>3, <2>4, <1>9, Zenon DEF F!Exact
<1>11. \A k \in 1 .. n : sequence'[k] >= 1
  <2> SUFFICES ASSUME NEW k \in 1 .. n PROVE sequence[k] >= 1
    BY <1>6
  <2>1. CASE k = n
    <3>1. sequence[n - 1] >= 1 /\ sequence[n] \in Int /\ sequence[n - 1] \in Int  BY <1>1, <1>4
    <3>2. QED  BY <2>1, <3>1, <1>3
  <2>2. CASE k # n  BY <2>2, <1>1
  <2>3. QED  BY <2>1, <2>2
<1>12. \A j, k \in 1 .. n : /\ j < k => sequence'[j] <= sequence'[k]
                            /\ 1 < j /\ j < k => sequence'[j] < sequence'[k]
  <2> SUFFICES ASSUME NEW j \in 1 .. n, NEW k \in 1 .. n, j < k
               PROVE  sequence[j] <= sequence[k] /\ (1 < j => sequence[j] < sequence[k])
    BY <1>6
  <2>1. CASE k # n
    <3>1. j \in 1 .. n - 1 /\ k \in 1 .. n - 1  BY <2>1, <1>1
    <3>2. QED  BY <3>1, <1>2
  <2>2. CASE k = n
    <3>1. j \in 1 .. n - 1  BY <2>2, <1>1
    <3>2. sequence[j] <= sequence[n - 1]
      <4>1. CASE j = n - 1  BY <4>1, <1>1, <1>4
      <4>2. CASE j # n - 1
        <5>1. j < n - 1  BY <3>1, <4>2, <1>1
        <5>2. QED  BY <5>1, <3>1, <1>2, <1>4
      <4>3. QED  BY <4>1, <4>2
    <3>3. sequence[j] \in Int /\ sequence[n] \in Int /\ sequence[n - 1] \in Int  BY <1>1, <1>4
    <3>4. QED  BY <3>2, <3>3, <2>2, <1>3
  <2>3. QED  BY <2>1, <2>2
<1>13. TableRight'
  <2>1. Len(sequence') - 1 = n  BY <1>1, <1>6
  <2>2. QED  BY <2>1, <1>10, <1>11, <1>12 DEF TableRight
<1>14. LastRight'
  <2>1. Len(sequence') - 1 = n /\ Len(sequence') - 2 = n - 1  BY <1>1, <1>6
  <2>2. sequence'[n] = sequence[n] /\ sequence'[n - 1] = sequence[n - 1]  BY <1>4, <1>6
  <2>3. QED  BY <2>1, <2>2, <1>3, <1>6 DEF LastRight, F!Last, F!Previous
<1>15. (fpc = "fill" => answers = <<>>)' /\ AnswersRight'
  BY <1>3 DEF RootInv, AnswersRight
<1>16. QED  BY <1>7, <1>13, <1>14, <1>15 DEF RootInv

LEMMA BoundStep ==
  ASSUME F!LimitsAssumption, RootInv, F!Bound
  PROVE  RootInv'
<1>0. PICK n : n = Len(sequence)  OBVIOUS
<1>1. /\ modulus \in Nat /\ modulus >= 4 /\ n \in Nat /\ n >= 3
      /\ \A k \in 1 .. n : sequence[k] \in 0 .. modulus - 1
      /\ \A k \in 1 .. n - 1 : sequence[k] >= 1
      /\ sequence[1] = 1 /\ sequence[2] = 1
      /\ \A k \in 3 .. n - 1 : sequence[k] = sequence[k - 1] + sequence[k - 2]
  BY <1>0, TableFacts
<1>2. /\ \A j, k \in 1 .. n - 1 : j < k => sequence[j] <= sequence[k]
      /\ \A j, k \in 1 .. n - 1 : 1 < j /\ j < k => sequence[j] < sequence[k]
  BY <1>0, TableFacts
<1>3. /\ sequence' = [sequence EXCEPT ![n] = modulus - 1] /\ sequence[n - 1] >= sequence[n]
      /\ fpc = "fill" /\ fpc' = "answer" /\ UNCHANGED <<modulus, input, answers>>
  BY <1>0 DEF F!Bound, F!Last, F!Previous
<1>4. n \in 1 .. n /\ n - 1 \in 1 .. n /\ n - 2 \in 1 .. n /\ n - 1 \in 1 .. n - 1 /\ n - 2 \in 1 .. n - 1
  BY <1>1
<1>5. /\ sequence' \in Seq(0 .. modulus - 1) /\ Len(sequence') = n
      /\ \A k \in 1 .. n - 1 : sequence'[k] = sequence[k]
      /\ sequence'[n] = modulus - 1
  <2>1. modulus - 1 \in 0 .. modulus - 1  BY <1>1
  <2>2. sequence \in Seq(0 .. modulus - 1)  BY DEF RootInv, F!TypeOK, F!Input, F!Number
  <2>3. QED  BY <1>0, <1>1, <1>3, <2>1, <2>2
<1>6. F!TypeOK'  BY <1>3, <1>5 DEF RootInv, F!TypeOK, F!Input, F!Number
(* The last element has wrapped around: it is not above the previous one.  *)
<1>7. sequence[n - 1] + sequence[n - 2] >= modulus
  <2>1. /\ sequence[n] \in 0 .. modulus - 1 /\ sequence[n - 1] \in 0 .. modulus - 1
        /\ sequence[n - 2] \in 0 .. modulus - 1 /\ sequence[n - 2] >= 1
    BY <1>1, <1>4
  <2>2. sequence[n] = IF sequence[n - 1] + sequence[n - 2] < modulus
                      THEN sequence[n - 1] + sequence[n - 2]
                      ELSE sequence[n - 1] + sequence[n - 2] - modulus
    BY <1>0, <1>3, LastFacts
  <2>3. PICK a, b, c : a = sequence[n - 2] /\ b = sequence[n - 1] /\ c = sequence[n]  OBVIOUS
  <2>4. /\ a \in 0 .. modulus - 1 /\ b \in 0 .. modulus - 1 /\ c \in 0 .. modulus - 1
        /\ c = IF b + a < modulus THEN b + a ELSE b + a - modulus
    BY <2>1, <2>2, <2>3
  <2>5. QED  BY <2>1, <2>3, <2>4, <1>1, <1>3
<1>8. LastRight'
  <2>1. sequence'[n - 1] = sequence[n - 1] /\ sequence'[n - 2] = sequence[n - 2]  BY <1>4, <1>5
  <2>2. QED  BY <2>1, <1>3, <1>5, <1>7 DEF LastRight, F!Last, F!Previous
<1>9. F!Exact'
  <2>1. sequence'[1] = 1 /\ sequence'[2] = 1 /\ Len(sequence') >= 3  BY <1>1, <1>5
  <2>2. ASSUME NEW k \in 3 .. n - 1 PROVE sequence'[k] = sequence'[k - 1] + sequence'[k - 2]
    <3>1. k \in 1 .. n - 1 /\ k - 1 \in 1 .. n - 1 /\ k - 2 \in 1 .. n - 1  BY <1>1
    <3>2. QED  BY <3>1, <1>1, <1>5
  <2>3. QED  BY <2>1, <2>2, <1>5 DEF F!Exact
<1>10. TableRight'
  <2>1. \A k \in 1 .. n - 1 : sequence'[k] >= 1  BY <1>1, <1>5
  <2>2. QED  BY <2>1, <1>2, <1>5, <1>9 DEF TableRight
<1>11. answers' = <<>>  BY <1>3 DEF RootInv
<1>12. QED  BY <1>3, <1>6, <1>8, <1>10, <1>11 DEF RootInv, AnswersRight

LEMMA AnswerStep ==
  ASSUME F!LimitsAssumption, RootInv, F!Answer
  PROVE  RootInv'
<1> DEFINE a == Len(answers) + 1
           x == input[a]
<1>1. /\ fpc = "answer" /\ answers' = Append(answers, F!FibRootOf(x))
      /\ a \in DOMAIN input /\ F!Fits(x)
      /\ UNCHANGED <<modulus, input, sequence, fpc>>
  BY DEF F!Answer, F!MoreNumbers, F!NextNumber
<1>2. answers \in Seq(Int) /\ Len(answers) \in Nat /\ x \in Nat
  <2>1. PICK n \in 0 .. MaxNumbers : input \in [1 .. n -> F!Number]  BY DEF RootInv, F!TypeOK, F!Input
  <2>2. x \in F!Number  BY <1>1, <2>1
  <2>3. QED  BY <2>2 DEF F!Number, RootInv, F!TypeOK
<1>3. F!FibRootOf(x) \in Int /\ F!IsRoot(F!FibRootOf(x), x)
  BY <1>1, <1>2, RootIsRight
<1>4. /\ answers' \in Seq(Int) /\ Len(answers') = a
      /\ \A k \in 1 .. a - 1 : answers'[k] = answers[k]
      /\ answers'[a] = F!FibRootOf(x) /\ DOMAIN answers' = 1 .. a
  BY <1>1, <1>2, <1>3
<1>5. F!TypeOK'
  <2>1. PICK n \in 0 .. MaxNumbers : input \in [1 .. n -> F!Number]  BY DEF RootInv, F!TypeOK, F!Input
  <2>2. DOMAIN answers' \subseteq DOMAIN input  BY <2>1, <1>1, <1>2, <1>4
  <2>3. F!Input'  BY <1>1 DEF RootInv, F!TypeOK, F!Input, F!Number
  <2>4. QED  BY <2>2, <2>3, <1>1, <1>4 DEF RootInv, F!TypeOK
<1>6. TableRight' /\ LastRight'
  BY <1>1 DEF RootInv, TableRight, LastRight, F!Exact, F!Last, F!Previous
<1>7. AnswersRight'
  <2> SUFFICES ASSUME NEW k \in 1 .. a PROVE F!IsRoot(answers'[k], input[k])
    BY <1>1, <1>4 DEF AnswersRight, F!IsRoot
  <2>1. CASE k = a  BY <2>1, <1>3, <1>4
  <2>2. CASE k # a
    <3>1. k \in DOMAIN answers /\ k \in 1 .. a - 1  BY <2>2, <1>2
    <3>2. QED  BY <3>1, <1>4 DEF RootInv, AnswersRight
  <2>3. QED  BY <2>1, <2>2
<1>8. QED  BY <1>1, <1>5, <1>6, <1>7 DEF RootInv

LEMMA RootStep ==
  ASSUME F!LimitsAssumption, RootInv, [F!Next]_(F!rootVars)
  PROVE  RootInv'
<1>1. CASE F!StopReading
  BY <1>1 DEF F!StopReading, RootInv, F!TypeOK, F!Input, F!Number, TableRight, LastRight, AnswersRight, F!Exact, F!Last, F!Previous, F!IsRoot
<1>2. CASE UNCHANGED F!rootVars
  BY <1>2 DEF F!rootVars, RootInv, F!TypeOK, F!Input, F!Number, TableRight, LastRight, AnswersRight, F!Exact, F!Last, F!Previous, F!IsRoot
<1>3. QED
  BY <1>1, <1>2, FillStep, BoundStep, AnswerStep DEF F!Next

-----------------------------------------------------------------------------
LEMMA RunsRoot == AllSpec => F!Init /\ [][F!Next]_(F!rootVars)
<1>1. AllInit => F!Init  <2>1. NoNumbers => F!Input
    <3> SUFFICES ASSUME NoNumbers  PROVE F!Input  OBVIOUS
    <3>1. input \in [1 .. 0 -> F!Number] /\ 0 \in 0 .. MaxNumbers  BY IdleAssumption DEF NoNumbers
    <3>2. QED  BY <3>1, IdleAssumption DEF NoNumbers, F!Input
  <2>2. QED  BY <2>1 DEF AllInit, F!Init
<1>2. [AllNext]_allVars => [F!Next]_(F!rootVars)
  BY DEF AllNext, allVars, Tests, Reader, Root, rootVars, F!rootVars
<1>3. QED  BY <1>1, <1>2, PTL DEF AllSpec

(* fib-root: the table holds nothing that the type cannot, it is sorted    *)
(* when it is searched, and every answer is the index of the greatest      *)
(* Fibonacci number that is not above the number asked about, whatever the *)
(* width of the type.                                                      *)
THEOREM AnswersAreRoots == AllSpec => []RootsRight
<1>1. F!Init => RootInv  BY RootInit, LimitsAssumption
<1>2. RootInv /\ [F!Next]_(F!rootVars) => RootInv'  BY RootStep, LimitsAssumption
<1>3. RootInv => RootsRight
  BY TableIsSorted, LimitsAssumption DEF RootInv, RootsRight, F!RootsRight, TableRight, AnswersRight
<1>4. QED  BY <1>1, <1>2, <1>3, RunsRoot, PTL
-----------------------------------------------------------------------------
(* The guards.  Origs are the descriptors that have a copy, Slots what     *)
(* they were copied to.                                                    *)
Origs == {c[1] : c \in copies}
Slots == {c[2] : c \in copies}

GuardTyped ==
  /\ G!TypeOK /\ kcmp \in BOOLEAN /\ before \in [G!Fd -> File \cup {0}]
  /\ todo \subseteq G!Fd /\ limits \in Seq(0 .. Hard)

(* The first RLimGuard keeps the limit that there was before all of them.  *)
LimitKept == IF limits = <<>> THEN limit = Hard ELSE limits[1] = Hard

(* Copies are of what was open and where nothing was, one of each, and as  *)
(* many of them as the pairs say.                                          *)
PairsRight ==
  /\ Origs \cup todo = G!Open(before) /\ Origs \cap todo = {}
  /\ Slots \cap G!Open(before) = {}
  /\ \A c, d \in copies : c[2] = d[2] => c = d
  /\ Cardinality(Origs) = Cardinality(copies) /\ Cardinality(Slots) = Cardinality(copies)

(* What is closed from cur down.                                           *)
RoomTo(n) == {k \in 0 .. n : k \notin G!Open(before)}

CopyingRight ==
  guard = "copying" =>
    /\ PairsRight /\ table = G!Guarded /\ verdict = "none"
    /\ todo # {} /\ cur \in 0 .. Hard - 1
    /\ \A c \in copies : c[2] > cur
    /\ Cardinality(RoomTo(cur)) >= Cardinality(todo)

(* The tests have not put anything where the copies are.                   *)
LiveRight ==
  guard = "live" =>
    /\ PairsRight /\ todo = {}
    /\ \A c \in copies : table[c[2]] \in {0, before[c[1]]}
    /\ verdict = "same" => Cardinality(G!Open(table)) = 2 * Cardinality(copies)
    /\ verdict = "same" => \A c \in copies : G!TestSameFd(c[1], c[2])
    /\ verdict = "changed" => \/ \E c \in copies : ~G!TestSameFd(c[1], c[2])
                              \/ Cardinality(G!Open(table)) # 2 * Cardinality(copies)

GuardInv ==
  /\ GuardTyped /\ LimitKept /\ CopyingRight /\ LiveRight
  /\ guard = "none" => copies = {}
  /\ guard # "dup3 failed"
  /\ kcmp /\ guard = "gone" /\ verdict = "same" => table = before

-----------------------------------------------------------------------------
LEMMA GuardsCardinality == \A S : G!Cardinality(S) = Cardinality(S)
BY DEF G!Cardinality, Cardinality

LEMMA TableFacts2 == Hard \in Nat /\ Most \in Nat /\ 0 \notin File
BY TableAssumption DEF G!TableAssumption

LEMMA DescriptorsFinite ==
  ASSUME NEW S, S \subseteq G!Fd
  PROVE  IsFiniteSet(S) /\ Cardinality(S) \in Nat
<1>1. IsFiniteSet(G!Fd)
  <2>1. Hard - 1 \in Int /\ 0 \in Int  BY TableFacts2
  <2>2. QED  BY <2>1, FS_Interval DEF G!Fd
<1>2. IsFiniteSet(S)  BY <1>1, FS_Subset
<1>3. QED  BY <1>2, FS_CardinalityType

LEMMA PairsFinite ==
  ASSUME copies \subseteq G!Fd \X G!Fd
  PROVE  IsFiniteSet(copies) /\ Cardinality(copies) \in Nat
<1>1. IsFiniteSet(G!Fd)  BY DescriptorsFinite
<1>2. IsFiniteSet(G!Fd \X G!Fd)  BY <1>1, FS_Product
<1>3. IsFiniteSet(copies)  BY <1>2, FS_Subset
<1>4. QED  BY <1>3, FS_CardinalityType

(* Min and Max of what the guard applies them to.                          *)
LEMMA LeastNumber ==
  ASSUME NEW S \in SUBSET Nat, S # {}
  PROVE  \E n \in S : \A m \in S : n <= m
<1>1. PICK R : R = OpToRel(<, Nat)  OBVIOUS
<1>2. IsWellFoundedOn(R, Nat)  BY <1>1, NatLessThanWellFounded
<1>3. \E n \in S : \A m \in S : ~(<<m, n>> \in R)
  <2>1. S \subseteq Nat  OBVIOUS
  <2>2. QED  BY <1>2, <2>1, WFMin
<1>4. R = {p \in Nat \X Nat : p[1] < p[2]}  BY <1>1 DEF OpToRel
<1>5. \A m, n \in Nat : <<m, n>> \in R <=> m < n  BY <1>4
<1>6. PICK n \in S : \A m \in S : ~(<<m, n>> \in R)  BY <1>3
<1>7. ASSUME NEW m \in S PROVE n <= m
  <2>1. m \in Nat /\ n \in Nat /\ ~(m < n)  BY <1>5, <1>6
  <2>2. QED  BY <2>1
<1>8. QED  BY <1>7

LEMMA MinIs ==
  ASSUME NEW S \in SUBSET Nat, S # {}
  PROVE  G!Min(S) \in S /\ \A m \in S : G!Min(S) <= m
BY LeastNumber DEF G!Min

LEMMA MaxIs ==
  ASSUME NEW n \in Int, NEW S \in SUBSET (-1 .. n), S # {}
  PROVE  G!Max(S) \in S /\ \A m \in S : G!Max(S) >= m
<1>1. PICK D : D = {n - k : k \in S}  OBVIOUS
<1>2. D \in SUBSET Nat /\ D # {}
  <2>1. ASSUME NEW k \in S PROVE n - k \in Nat
    <3>1. k \in -1 .. n  OBVIOUS
    <3>2. QED  BY <3>1
  <2>2. QED  BY <2>1, <1>1
<1>3. PICK d \in D : \A e \in D : d <= e  BY <1>2, LeastNumber
<1>4. PICK k \in S : d = n - k  BY <1>1
<1>5. ASSUME NEW m \in S PROVE k >= m
  <2>1. d <= n - m  BY <1>1, <1>3
  <2>2. m \in -1 .. n /\ k \in -1 .. n  OBVIOUS
  <2>3. QED  BY <2>1, <2>2, <1>4
<1>6. \E x \in S : \A m \in S : x >= m  BY <1>5
<1>7. QED  BY <1>6 DEF G!Max

(* The table the guard has made, descriptor by descriptor.                 *)
Made(cs, t) == [fd \in G!Fd |-> IF \E c \in cs : c[2] = fd
                                 THEN t[(CHOOSE c \in cs : c[2] = fd)[1]] ELSE t[fd]]

LEMMA MadeAt ==
  ASSUME NEW cs, NEW t, cs \subseteq G!Fd \X G!Fd, \A c, d \in cs : c[2] = d[2] => c = d
  PROVE  /\ \A c \in cs : Made(cs, t)[c[2]] = t[c[1]]
         /\ \A fd \in G!Fd \ {c[2] : c \in cs} : Made(cs, t)[fd] = t[fd]
<1>1. ASSUME NEW c \in cs  PROVE Made(cs, t)[c[2]] = t[c[1]]
  <2>1. c[2] \in G!Fd  OBVIOUS
  <2>2. PICK d : d = CHOOSE e \in cs : e[2] = c[2]  OBVIOUS
  <2>3. d \in cs /\ d[2] = c[2]  BY <2>2
  <2>4. d = c  BY <2>3
  <2>5. QED  BY <2>1, <2>2, <2>4 DEF Made
<1>2. \A fd \in G!Fd \ {c[2] : c \in cs} : Made(cs, t)[fd] = t[fd]  BY DEF Made
<1>3. QED  BY <1>1, <1>2

LEMMA GuardedIsMade ==
  G!Guarded = Made(copies, before) /\ G!Guarded' = Made(copies', before')
BY DEF G!Guarded, Made

LEMMA GuardedAt ==
  ASSUME copies \subseteq G!Fd \X G!Fd, \A c, d \in copies : c[2] = d[2] => c = d
  PROVE  /\ \A c \in copies : G!Guarded[c[2]] = before[c[1]]
         /\ \A fd \in G!Fd \ Slots : G!Guarded[fd] = before[fd]
BY MadeAt, GuardedIsMade DEF Slots

LEMMA GuardedAtNext ==
  ASSUME copies' \subseteq G!Fd \X G!Fd, \A c, d \in copies' : c[2] = d[2] => c = d
  PROVE  /\ \A c \in copies' : G!Guarded'[c[2]] = before'[c[1]]
         /\ \A fd \in G!Fd \ Slots' : G!Guarded'[fd] = before'[fd]
BY MadeAt, GuardedIsMade DEF Slots

LEMMA PairIsIn ==
  ASSUME GuardTyped, NEW c \in copies
  PROVE  c[1] \in Origs /\ c[2] \in Slots /\ c[1] \in G!Fd /\ c[2] \in G!Fd /\ c = <<c[1], c[2]>>
<1>1. c \in G!Fd \X G!Fd  BY DEF GuardTyped, G!TypeOK
<1>2. QED  BY <1>1 DEF Origs, Slots

(* With all the copies in it, twice as much is open.                       *)
LEMMA TwiceOpen ==
  ASSUME GuardTyped, PairsRight, todo = {}
  PROVE  /\ Cardinality(Origs \cup Slots) = 2 * Cardinality(copies)
         /\ G!Open(G!Guarded) = Origs \cup Slots
         /\ Origs \cup Slots \subseteq G!Fd
<1>1. copies \subseteq G!Fd \X G!Fd  BY DEF GuardTyped, G!TypeOK
<1>2. Origs \subseteq G!Fd /\ Slots \subseteq G!Fd  BY <1>1 DEF Origs, Slots
<1>3. Origs = G!Open(before) /\ Origs \cap Slots = {}  BY DEF PairsRight
<1>4. IsFiniteSet(Origs) /\ IsFiniteSet(Slots) /\ Cardinality(copies) \in Nat
  BY <1>1, <1>2, DescriptorsFinite, PairsFinite
<1>5. Cardinality(Origs \cup Slots) = 2 * Cardinality(copies)
  <2>1. Cardinality(Origs \cup Slots) = Cardinality(Origs) + Cardinality(Slots) - Cardinality({})
    BY <1>3, <1>4, FS_Union
  <2>2. QED  BY <2>1, <1>4, FS_EmptySet DEF PairsRight
<1>6. /\ \A c \in copies : G!Guarded[c[2]] = before[c[1]]
      /\ \A fd \in G!Fd \ Slots : G!Guarded[fd] = before[fd]
  BY <1>1, GuardedAt DEF PairsRight
<1>7. ASSUME NEW fd \in G!Fd  PROVE G!Guarded[fd] # 0 <=> fd \in Origs \cup Slots
  <2>1. CASE fd \in Slots
    <3>1. PICK c \in copies : fd = c[2]  BY <2>1 DEF Slots
    <3>2. c[1] \in G!Open(before)  BY <1>3 DEF Origs
    <3>3. QED  BY <2>1, <3>1, <3>2, <1>6 DEF G!Open
  <2>2. CASE fd \notin Slots  BY <2>2, <1>3, <1>6 DEF G!Open
  <2>3. QED  BY <2>1, <2>2
<1>8. QED  BY <1>2, <1>5, <1>7 DEF G!Open
-----------------------------------------------------------------------------
LEMMA GuardInit == G!Init => GuardInv
<1> SUFFICES ASSUME G!Init  PROVE GuardInv  OBVIOUS
<1>1. /\ table \in [G!Fd -> File \cup {0}] /\ kcmp \in BOOLEAN /\ before = table
      /\ limit = Hard /\ limits = <<>> /\ guard = "none" /\ todo = {} /\ cur = 0
      /\ copies = {} /\ verdict = "none"
  BY DEF G!Init, G!Input, G!Start
<1>2. GuardTyped
  <2>1. limit \in 0 .. Hard /\ cur \in -2 .. Hard  BY <1>1, TableFacts2
  <2>2. QED  BY <2>1, <1>1 DEF GuardTyped, G!TypeOK
<1>3. QED  BY <1>1, <1>2 DEF GuardInv, LimitKept, CopyingRight, LiveRight

(* What the constructor starts with: as much room below MaxFdNum as there  *)
(* is to copy, and more.                                                   *)
LEMMA RoomAtFirst ==
  ASSUME NEW S, S \subseteq G!Fd, NEW n \in Nat, 2 * Cardinality(S) < n
  PROVE  Cardinality({k \in 0 .. n - 1 : k \notin S}) >= Cardinality(S)
<1>1. IsFiniteSet(S) /\ Cardinality(S) \in Nat  BY DescriptorsFinite
<1>2. IsFiniteSet(0 .. n - 1) /\ Cardinality(0 .. n - 1) = n
  <2>1. 0 \in Int /\ n - 1 \in Int  OBVIOUS
  <2>2. n > 0  BY <1>1
  <2>3. QED  BY <2>1, <2>2, FS_Interval
<1>3. PICK A : A = 0 .. n - 1  OBVIOUS
<1>4. Cardinality(A \ S) = Cardinality(A) - Cardinality(A \cap S)  BY <1>2, <1>3, FS_Difference
<1>5. Cardinality(A \cap S) <= Cardinality(S) /\ Cardinality(A \cap S) \in Nat
  <2>1. A \cap S \in SUBSET S  OBVIOUS
  <2>2. QED  BY <2>1, <1>1, FS_Subset, FS_CardinalityType
<1>6. {k \in 0 .. n - 1 : k \notin S} = A \ S  BY <1>3
<1>7. PICK s, x : s = Cardinality(S) /\ x = Cardinality(A \cap S)  OBVIOUS
<1>8. s \in Nat /\ x \in Nat /\ x <= s /\ 2 * s < n  BY <1>1, <1>5, <1>7
<1>9. n - x >= s  BY <1>8
<1>10. Cardinality(A \ S) = n - x  BY <1>2, <1>3, <1>4, <1>7
<1>11. QED  BY <1>6, <1>7, <1>9, <1>10

LEMMA ConstructStep ==
  ASSUME GuardInv, G!Construct
  PROVE  GuardInv'
<1>1. /\ guard = "none" /\ copies = {} /\ before' = table /\ todo' = G!Open(table)
      /\ cur' = G!MaxFdNum - 1 /\ verdict' = "none"
      /\ UNCHANGED <<table, limit, limits, kcmp, copies>>
  BY DEF GuardInv, G!Construct, G!limitVars
<1>2. GuardTyped  BY DEF GuardInv
<1>3. G!MaxFdNum \in Nat /\ G!MaxFdNum <= limit
  <2>1. limit \in Nat /\ Most \in Nat
    <3>1. limit \in 0 .. Hard  BY <1>2 DEF GuardTyped, G!TypeOK
    <3>2. QED  BY <3>1, TableFacts2
  <2>2. {limit, Most} \in SUBSET Nat /\ {limit, Most} # {}  BY <2>1
  <2>3. QED  BY <2>2, MinIs DEF G!MaxFdNum
<1>4. PICK O : O = G!Open(table)  OBVIOUS
<1>5. O \subseteq G!Fd /\ IsFiniteSet(O) /\ Cardinality(O) \in Nat
  <2>1. O \subseteq G!Fd  BY <1>4 DEF G!Open
  <2>2. QED  BY <2>1, DescriptorsFinite
<1>6. \/ guard' \in {"thrown", "no room"}
      \/ guard' = "live" /\ O = {}
      \/ guard' = "copying" /\ O # {} /\ 2 * Cardinality(O) < G!MaxFdNum
  <2>1. Cardinality(O) = G!Cardinality(O)  BY GuardsCardinality
  <2>2. CASE ~G!CanList  BY <2>2, <1>4 DEF G!Construct
  <2>3. CASE G!CanList /\ O = {}  BY <2>3, <1>4 DEF G!Construct
  <2>4. CASE G!CanList /\ O # {} /\ 2 * G!Cardinality(O) >= G!MaxFdNum  BY <2>4, <1>4 DEF G!Construct
  <2>5. CASE G!CanList /\ O # {} /\ ~(2 * G!Cardinality(O) >= G!MaxFdNum)
    <3>1. guard' = "copying"  BY <2>5, <1>4 DEF G!Construct
    <3>2. 2 * Cardinality(O) < G!MaxFdNum  BY <2>5, <2>1, <1>3, <1>5
    <3>3. QED  BY <3>1, <3>2, <2>5
  <2>6. QED  BY <2>2, <2>3, <2>4, <2>5
<1>7. GuardTyped' /\ LimitKept'
  <2>1. cur' \in -2 .. Hard
    <3>1. limit \in 0 .. Hard  BY <1>2 DEF GuardTyped, G!TypeOK
    <3>2. QED  BY <3>1, <1>1, <1>3, TableFacts2
  <2>2. guard' \in {"none", "copying", "live", "gone", "thrown", "no room", "dup3 failed"}  BY <1>6
  <2>3. GuardTyped'  BY <2>1, <2>2, <1>1, <1>2, <1>4, <1>5 DEF GuardTyped, G!TypeOK
  <2>4. QED  BY <2>3, <1>1 DEF GuardInv, LimitKept
<1>8. Origs' = {} /\ Slots' = {} /\ Cardinality(Origs') = 0 /\ Cardinality(Slots') = 0
      /\ Cardinality(copies') = 0
  <2>1. Origs' = {} /\ Slots' = {}  BY <1>1 DEF Origs, Slots
  <2>2. QED  BY <2>1, <1>1, FS_EmptySet
<1>9. PairsRight'
  BY <1>1, <1>8 DEF PairsRight, G!Open
<1>10. CopyingRight'
  <2> SUFFICES ASSUME guard' = "copying"  PROVE CopyingRight'  BY DEF CopyingRight
  <2>1. O # {} /\ 2 * Cardinality(O) < G!MaxFdNum  BY <1>6
  <2>2. G!Guarded' = table'  BY <1>1, <1>2 DEF G!Guarded, GuardTyped, G!TypeOK
  <2>3. cur' \in 0 .. Hard - 1
    <3>1. limit \in 0 .. Hard  BY <1>2 DEF GuardTyped, G!TypeOK
    <3>2. G!MaxFdNum > 0  BY <2>1, <1>3, <1>5
    <3>3. QED  BY <3>1, <3>2, <1>1, <1>3, TableFacts2
  <2>4. RoomTo(cur)' = {k \in 0 .. G!MaxFdNum - 1 : k \notin O}
    BY <1>1, <1>4 DEF RoomTo, G!Open
  <2>5. Cardinality(RoomTo(cur)') >= Cardinality(O)  BY <2>1, <2>4, <1>3, <1>5, RoomAtFirst
  <2>6. todo' = O  BY <1>1, <1>4
  <2>7. QED  BY <2>1, <2>2, <2>3, <2>5, <2>6, <1>1, <1>9 DEF CopyingRight
<1>11. LiveRight'
  <2> SUFFICES ASSUME guard' = "live"  PROVE LiveRight'  BY DEF LiveRight
  <2>1. todo' = {} /\ copies' = {} /\ verdict' = "none"  BY <1>1, <1>4, <1>6
  <2>2. QED  BY <2>1, <1>9 DEF LiveRight
<1>12. guard' \notin {"none", "dup3 failed", "gone"}  BY <1>6
<1>13. QED  BY <1>7, <1>10, <1>11, <1>12 DEF GuardInv

(* One more copy, to the greatest number there is room at.                 *)
LEMMA CopyStep ==
  ASSUME GuardInv, G!CopyNext
  PROVE  GuardInv'
<1>1. guard = "copying" /\ GuardTyped /\ PairsRight /\ table = G!Guarded /\ verdict = "none"
      /\ todo # {} /\ cur \in 0 .. Hard - 1 /\ (\A c \in copies : c[2] > cur)
      /\ Cardinality(RoomTo(cur)) >= Cardinality(todo)
  BY DEF G!CopyNext, GuardInv, CopyingRight
<1>2. PICK from, to : from = G!Min(todo) /\ to = G!Max({n \in -1 .. cur : n \notin G!fds})
                      /\ G!Copy(from, to)
  BY DEF G!CopyNext
<1>3. todo \subseteq G!Fd /\ G!Open(before) \subseteq G!Fd /\ copies \subseteq G!Fd \X G!Fd
  BY <1>1 DEF GuardTyped, G!TypeOK, G!Open
<1>4. from \in todo /\ from \in G!Open(before) /\ from \in G!Fd
  <2>1. todo \in SUBSET Nat  BY <1>3, TableFacts2 DEF G!Fd
  <2>2. from \in todo  BY <2>1, <1>1, <1>2, MinIs
  <2>3. QED  BY <2>2, <1>1, <1>3 DEF PairsRight
<1>5. G!fds = G!Open(before)  BY <1>1 DEF G!fds, PairsRight, Origs
<1>6. IsFiniteSet(todo) /\ Cardinality(todo) \in Nat /\ Cardinality(todo) > 0
  <2>1. IsFiniteSet(todo) /\ Cardinality(todo) \in Nat  BY <1>3, DescriptorsFinite
  <2>2. Cardinality(todo) # 0  BY <2>1, <1>1, FS_EmptySet
  <2>3. QED  BY <2>1, <2>2
<1>7. RoomTo(cur) \subseteq G!Fd /\ IsFiniteSet(RoomTo(cur)) /\ Cardinality(RoomTo(cur)) \in Nat
  <2>1. RoomTo(cur) \subseteq G!Fd  BY <1>1, TableFacts2 DEF RoomTo, G!Fd
  <2>2. QED  BY <2>1, DescriptorsFinite
<1>8. to \in RoomTo(cur) /\ \A k \in RoomTo(cur) : k <= to
  <2>1. RoomTo(cur) # {}  BY <1>1, <1>6, <1>7, FS_EmptySet
  <2>2. PICK S : S = {n \in -1 .. cur : n \notin G!fds}  OBVIOUS
  <2>3. cur \in Int /\ S \in SUBSET (-1 .. cur)  BY <2>2, <1>1
  <2>4. \A k : k \in RoomTo(cur) <=> k \in S /\ k >= 0
    BY <2>2, <1>1, <1>5 DEF RoomTo
  <2>0. \A k \in S : k \in Int  BY <2>2
  <2>5. S # {}  BY <2>1, <2>4
  <2>6. to \in S /\ \A m \in S : to >= m  BY <2>2, <2>3, <2>5, <1>2, MaxIs
  <2>7. PICK k : k \in RoomTo(cur)  BY <2>1
  <2>8. to >= k /\ k >= 0 /\ k \in Int /\ to \in Int  BY <2>0, <2>4, <2>6, <2>7
  <2>9. to >= 0  BY <2>8
  <2>10. to \in RoomTo(cur)  BY <2>4, <2>6, <2>9
  <2>11. \A m \in RoomTo(cur) : m \in Int /\ to >= m  BY <2>0, <2>4, <2>6
  <2>12. QED  BY <2>8, <2>10, <2>11
<1>9. to \in 0 .. cur /\ to \in G!Fd /\ to \notin G!Open(before) /\ to \notin Slots /\ ~(to < 0)
  <2>1. to \in 0 .. cur /\ to \notin G!Open(before)  BY <1>8 DEF RoomTo
  <2>2. to \notin Slots
    <3> SUFFICES ASSUME to \in Slots  PROVE FALSE  OBVIOUS
    <3>1. PICK c \in copies : to = c[2]  BY DEF Slots
    <3>2. QED  BY <3>1, <2>1, <1>1
  <2>3. QED  BY <2>1, <2>2, <1>7, <1>8
<1>10. PICK p : p = <<from, to>>  OBVIOUS
<1>11. /\ table' = [table EXCEPT ![to] = table[from]] /\ copies' = copies \cup {p}
       /\ guard' = (IF todo = {from} THEN "live" ELSE guard)
       /\ todo' = todo \ {from} /\ cur' = to - 1
       /\ UNCHANGED <<limit, limits, kcmp, before, verdict>>
  BY <1>2, <1>9, <1>10 DEF G!Copy, G!limitVars
<1>12. p[1] = from /\ p[2] = to /\ p \in G!Fd \X G!Fd  BY <1>4, <1>9, <1>10
<1>13. Origs' = Origs \cup {from} /\ Slots' = Slots \cup {to}  BY <1>11, <1>12 DEF Origs, Slots
<1>14. from \notin Origs /\ from \notin Slots /\ p \notin copies
  <2>1. from \notin Origs /\ from \notin Slots  BY <1>1, <1>4 DEF PairsRight
  <2>2. QED  BY <2>1, <1>12 DEF Origs
<1>15. PairsRight'
  <2>1. IsFiniteSet(Origs) /\ IsFiniteSet(Slots) /\ IsFiniteSet(copies)
    <3>1. Origs \subseteq G!Fd /\ Slots \subseteq G!Fd  BY <1>3 DEF Origs, Slots
    <3>2. QED  BY <3>1, <1>3, DescriptorsFinite, PairsFinite
  <2>2. /\ Cardinality(Origs') = Cardinality(Origs) + 1
        /\ Cardinality(Slots') = Cardinality(Slots) + 1
        /\ Cardinality(copies') = Cardinality(copies) + 1
    BY <2>1, <1>9, <1>11, <1>13, <1>14, FS_AddElement
  <2>3. ASSUME NEW c \in copies', NEW d \in copies', c[2] = d[2]  PROVE c = d
    <3>1. \A e \in copies : e[2] # to  BY <1>9 DEF Slots
    <3>2. QED  BY <2>3, <3>1, <1>1, <1>11, <1>12 DEF PairsRight
  <2>4. G!Open(before)' = G!Open(before)  BY <1>11 DEF G!Open
  <2>5. /\ Origs' \cup todo' = G!Open(before)' /\ Origs' \cap todo' = {}
        /\ Slots' \cap G!Open(before)' = {}
    BY <2>4, <1>1, <1>4, <1>9, <1>11, <1>13 DEF PairsRight
  <2>6. QED  BY <2>2, <2>3, <2>5, <1>1 DEF PairsRight
<1>16. GuardTyped'
  <2>1. to - 1 \in -2 .. Hard /\ cur \in Nat  BY <1>1, <1>9, TableFacts2
  <2>2. table' \in [G!Fd -> File \cup {0}]  BY <1>1, <1>4, <1>9, <1>11 DEF GuardTyped, G!TypeOK
  <2>3. copies' \subseteq G!Fd \X G!Fd  BY <1>3, <1>11, <1>12
  <2>4. guard' \in {"live", "copying"}  BY <1>1, <1>11
  <2>5. QED  BY <2>1, <2>2, <2>3, <2>4, <1>1, <1>11 DEF GuardTyped, G!TypeOK
<1>17. table' = G!Guarded'
  <2>1. /\ \A c \in copies' : G!Guarded'[c[2]] = before'[c[1]]
        /\ \A fd \in G!Fd \ Slots' : G!Guarded'[fd] = before'[fd]
    <3>1. copies' \subseteq G!Fd \X G!Fd /\ \A c, d \in copies' : c[2] = d[2] => c = d
      BY <1>15, <1>16 DEF GuardTyped, G!TypeOK, PairsRight
    <3>2. QED  BY <3>1, GuardedAtNext
  <2>2. /\ \A c \in copies : G!Guarded[c[2]] = before[c[1]]
        /\ \A fd \in G!Fd \ Slots : G!Guarded[fd] = before[fd]
    BY <1>1, <1>3, GuardedAt DEF PairsRight
  <2>3. table'[to] = before[from]  BY <2>2, <1>1, <1>4, <1>9, <1>11, <1>14 DEF GuardTyped, G!TypeOK
  <2>4. ASSUME NEW fd \in G!Fd  PROVE table'[fd] = G!Guarded'[fd]
    <3>1. CASE fd = to
      <4>1. p \in copies'  BY <1>11
      <4>2. QED  BY <4>1, <2>1, <2>3, <3>1, <1>11, <1>12
    <3>2. CASE fd # to /\ fd \in Slots
      <4>1. PICK c \in copies : fd = c[2]  BY <3>2 DEF Slots
      <4>2. table'[fd] = before[c[1]]  BY <4>1, <3>2, <2>2, <1>1, <1>11
      <4>3. QED  BY <4>1, <4>2, <2>1, <1>11
    <3>3. CASE fd # to /\ fd \notin Slots
      <4>1. table'[fd] = before[fd]  BY <3>3, <2>2, <1>1, <1>11
      <4>2. QED  BY <4>1, <3>3, <2>1, <1>11, <1>13
    <3>4. QED  BY <3>1, <3>2, <3>3
  <2>5. table' \in [G!Fd -> File \cup {0}]  BY <1>16 DEF GuardTyped, G!TypeOK
  <2>6. G!Guarded' = [fd \in G!Fd |-> G!Guarded'[fd]]  BY DEF G!Guarded
  <2>7. QED  BY <2>4, <2>5, <2>6
<1>18. CASE todo = {from}
  <2>1. guard' = "live" /\ todo' = {} /\ verdict' = "none"  BY <1>18, <1>1, <1>11
  <2>2. \A c \in copies' : table'[c[2]] = before'[c[1]]
    <3>1. copies' \subseteq G!Fd \X G!Fd /\ \A c, d \in copies' : c[2] = d[2] => c = d
      BY <1>15, <1>16 DEF GuardTyped, G!TypeOK, PairsRight
    <3>2. QED  BY <3>1, <1>17, GuardedAtNext
  <2>3. LiveRight' /\ CopyingRight'  BY <2>1, <2>2, <1>15 DEF LiveRight, CopyingRight
  <2>4. LimitKept'  BY <1>11 DEF GuardInv, LimitKept
  <2>5. QED  BY <2>1, <2>3, <2>4, <1>16 DEF GuardInv
<1>19. CASE todo # {from}
  <2>1. guard' = "copying" /\ todo' # {} /\ verdict' = "none"  BY <1>19, <1>1, <1>4, <1>11
  <2>2. Cardinality(todo') = Cardinality(todo) - 1 /\ Cardinality(todo') \in Nat
    <3>1. Cardinality(todo') = Cardinality(todo) - 1  BY <1>4, <1>6, <1>11, FS_RemoveElement
    <3>2. QED  BY <3>1, <1>6
  <2>3. RoomTo(cur)' = RoomTo(cur) \ {to}
    <3>1. G!Open(before)' = G!Open(before)  BY <1>11 DEF G!Open
    <3>2. RoomTo(cur)' = {k \in 0 .. to - 1 : k \notin G!Open(before)}  BY <3>1, <1>11 DEF RoomTo
    <3>3. ASSUME NEW k  PROVE k \in RoomTo(cur)' <=> k \in RoomTo(cur) \ {to}
      <4>1. CASE k \in RoomTo(cur)
        <5>1. k \in 0 .. cur /\ k \notin G!Open(before) /\ k <= to  BY <4>1, <1>8 DEF RoomTo
        <5>2. QED  BY <5>1, <4>1, <3>2, <1>1, <1>9
      <4>2. CASE k \notin RoomTo(cur)
        <5>1. k \notin 0 .. cur \/ k \in G!Open(before)  BY <4>2 DEF RoomTo
        <5>2. QED  BY <5>1, <4>2, <3>2, <1>1, <1>9
      <4>3. QED  BY <4>1, <4>2
    <3>4. QED  BY <3>3
  <2>4. Cardinality(RoomTo(cur)') = Cardinality(RoomTo(cur)) - 1
    BY <2>3, <1>7, <1>8, FS_RemoveElement
  <2>5. Cardinality(RoomTo(cur)') >= Cardinality(todo')
    BY <2>2, <2>4, <1>1, <1>6, <1>7
  <2>6. cur' \in 0 .. Hard - 1
    <3>1. RoomTo(cur)' # {}
      <4> SUFFICES ASSUME RoomTo(cur)' = {}  PROVE FALSE  OBVIOUS
      <4>1. Cardinality(RoomTo(cur)') = 0  BY FS_EmptySet
      <4>2. Cardinality(todo') # 0
        <5>1. IsFiniteSet(todo')  BY <1>6, <1>11, FS_RemoveElement
        <5>2. QED  BY <5>1, <2>1, FS_EmptySet
      <4>3. PICK r, t : r = Cardinality(RoomTo(cur)') /\ t = Cardinality(todo')  OBVIOUS
      <4>4. r = 0 /\ t # 0 /\ t \in Nat /\ r >= t  BY <4>1, <4>2, <4>3, <2>2, <2>5
      <4>5. QED  BY <4>4
    <3>2. PICK k : k \in RoomTo(cur)'  BY <3>1
    <3>3. k \in 0 .. cur'  BY <3>2 DEF RoomTo
    <3>4. QED  BY <3>3, <1>1, <1>9, <1>11, TableFacts2
  <2>7. \A c \in copies' : c[2] > cur'
    <3> SUFFICES ASSUME NEW c \in copies'  PROVE c[2] > cur'  OBVIOUS
    <3>1. CASE c = p  BY <3>1, <1>9, <1>11, <1>12
    <3>2. CASE c \in copies
      <4>1. c[2] > cur /\ c[2] \in Int  BY <3>2, <1>1, <1>3, TableFacts2 DEF G!Fd
      <4>2. QED  BY <4>1, <1>1, <1>9, <1>11
    <3>3. QED  BY <3>1, <3>2, <1>11
  <2>8. LiveRight' /\ CopyingRight'
    BY <2>1, <2>5, <2>6, <2>7, <1>15, <1>17 DEF LiveRight, CopyingRight
  <2>9. LimitKept'  BY <1>11 DEF GuardInv, LimitKept
  <2>10. QED  BY <2>1, <2>8, <2>9, <1>16 DEF GuardInv
<1>20. QED  BY <1>18, <1>19
-----------------------------------------------------------------------------
LEMMA TestStep ==
  ASSUME GuardInv, G!TestDescriptorsState
  PROVE  GuardInv'
<1>1. guard = "live" /\ UNCHANGED <<table, limit, limits, kcmp, guard, todo, cur, copies, before>>
  BY DEF G!TestDescriptorsState, G!limitVars, G!state
<1>2. PICK different : different = \E c \in copies : ~G!TestSameFd(c[1], c[2])  OBVIOUS
<1>3. PICK n, m : n = Cardinality(G!Open(table)) /\ m = Cardinality(copies)  OBVIOUS
<1>4. /\ verdict' = "same" => ~different /\ n = 2 * m
      /\ verdict' = "changed" => different \/ n # 2 * m
      /\ verdict' \in {"same", "changed", "thrown"}
  <2>1. G!Cardinality(G!Open(table)) = n /\ G!Cardinality(copies) = m  BY <1>3, GuardsCardinality
  <2>2. CASE different  BY <2>2, <1>2 DEF G!TestDescriptorsState
  <2>3. CASE ~different /\ ~G!CanList  BY <2>3, <1>2 DEF G!TestDescriptorsState
  <2>4. CASE ~different /\ G!CanList  BY <2>1, <2>4, <1>2 DEF G!TestDescriptorsState
  <2>5. QED  BY <2>2, <2>3, <2>4
<1>5. \A c \in copies : G!TestSameFd(c[1], c[2])' <=> G!TestSameFd(c[1], c[2])
  BY <1>1 DEF G!TestSameFd
<1>6. G!Open(table)' = G!Open(table) /\ Origs' = Origs /\ Slots' = Slots /\ G!Open(before)' = G!Open(before)
  BY <1>1 DEF G!Open, Origs, Slots
<1>7. PairsRight'  BY <1>1, <1>6 DEF GuardInv, LiveRight, PairsRight
<1>8. LiveRight'
  <2>1. todo' = {} /\ \A c \in copies' : table'[c[2]] \in {0, before'[c[1]]}
    BY <1>1 DEF GuardInv, LiveRight
  <2>2. verdict' = "same" => Cardinality(G!Open(table)') = 2 * Cardinality(copies')
    BY <1>1, <1>3, <1>4, <1>6
  <2>3. verdict' = "same" => \A c \in copies' : G!TestSameFd(c[1], c[2])'
    BY <1>1, <1>2, <1>4, <1>5
  <2>4. verdict' = "changed" => \/ \E c \in copies' : ~G!TestSameFd(c[1], c[2])'
                                \/ Cardinality(G!Open(table)') # 2 * Cardinality(copies')
    BY <1>1, <1>2, <1>3, <1>4, <1>5, <1>6
  <2>5. QED  BY <2>1, <2>2, <2>3, <2>4, <1>7 DEF LiveRight
<1>9. GuardTyped' /\ LimitKept'
  BY <1>1, <1>4 DEF GuardInv, GuardTyped, G!TypeOK, LimitKept
<1>10. CopyingRight'  BY <1>1 DEF CopyingRight
<1>11. QED  BY <1>1, <1>8, <1>9, <1>10 DEF GuardInv

(* What the guard says is true, if it can tell the files apart.            *)
LEMMA SameMeansGuarded ==
  ASSUME GuardInv, kcmp, guard = "live", verdict = "same"
  PROVE  table = G!Guarded
<1>1. /\ GuardTyped /\ PairsRight /\ todo = {}
      /\ \A c \in copies : table[c[2]] \in {0, before[c[1]]} /\ G!TestSameFd(c[1], c[2])
      /\ Cardinality(G!Open(table)) = 2 * Cardinality(copies)
  BY DEF GuardInv, LiveRight
<1>2. \A c \in copies : table[c[2]] = before[c[1]] /\ table[c[1]] = before[c[1]] /\ table[c[1]] # 0
  BY <1>1 DEF G!TestSameFd
<1>3. /\ Cardinality(Origs \cup Slots) = 2 * Cardinality(copies)
      /\ G!Open(G!Guarded) = Origs \cup Slots /\ Origs \cup Slots \subseteq G!Fd
  BY <1>1, TwiceOpen
<1>4. Origs \cup Slots \subseteq G!Open(table)
  <2>1. ASSUME NEW c \in copies  PROVE c[1] \in G!Open(table) /\ c[2] \in G!Open(table)
    BY <1>1, <1>2, PairIsIn DEF G!Open
  <2>2. QED  BY <2>1 DEF Origs, Slots
<1>5. Origs \cup Slots = G!Open(table)
  <2>1. IsFiniteSet(G!Open(table))
    <3>1. G!Open(table) \subseteq G!Fd  BY DEF G!Open
    <3>2. QED  BY <3>1, DescriptorsFinite
  <2>2. QED  BY <2>1, <1>1, <1>3, <1>4, FS_Subset
<1>6. ASSUME NEW fd \in G!Fd  PROVE table[fd] = G!Guarded[fd]
  <2>1. copies \subseteq G!Fd \X G!Fd  BY <1>1 DEF GuardTyped, G!TypeOK
  <2>2. /\ \A c \in copies : G!Guarded[c[2]] = before[c[1]]
        /\ \A x \in G!Fd \ Slots : G!Guarded[x] = before[x]
    BY <1>1, <2>1, GuardedAt DEF PairsRight
  <2>3. CASE fd \in Slots
    <3>1. PICK c \in copies : fd = c[2]  BY <2>3 DEF Slots
    <3>2. QED  BY <3>1, <2>2, <1>2
  <2>4. CASE fd \in Origs /\ fd \notin Slots
    <3>1. PICK c \in copies : fd = c[1]  BY <2>4 DEF Origs
    <3>2. QED  BY <3>1, <2>2, <2>4, <1>2
  <2>5. CASE fd \notin Origs /\ fd \notin Slots
    <3>1. table[fd] = 0 /\ G!Guarded[fd] = 0  BY <2>5, <1>3, <1>5 DEF G!Open
    <3>2. QED  BY <3>1
  <2>6. QED  BY <2>3, <2>4, <2>5
<1>7. table \in [G!Fd -> File \cup {0}]  BY <1>1 DEF GuardTyped, G!TypeOK
<1>8. G!Guarded = [fd \in G!Fd |-> G!Guarded[fd]]  BY DEF G!Guarded
<1>9. QED  BY <1>6, <1>7, <1>8

LEMMA GuardedMeansSame ==
  ASSUME GuardInv, guard = "live", table = G!Guarded
  PROVE  verdict # "changed"
<1>1. /\ GuardTyped /\ PairsRight /\ todo = {} /\ copies \subseteq G!Fd \X G!Fd
  BY DEF GuardInv, LiveRight, GuardTyped, G!TypeOK
<1>2. /\ Cardinality(Origs \cup Slots) = 2 * Cardinality(copies)
      /\ G!Open(G!Guarded) = Origs \cup Slots
  BY <1>1, TwiceOpen
<1>3. Cardinality(G!Open(table)) = 2 * Cardinality(copies)  BY <1>2
<1>4. ASSUME NEW c \in copies  PROVE G!TestSameFd(c[1], c[2])
  <2>1. c[1] \in Origs /\ c[1] \in G!Fd  BY <1>1, PairIsIn
  <2>2. c[1] \notin Slots /\ c[1] \in G!Open(before)  BY <2>1, <1>1 DEF PairsRight
  <2>3. table[c[2]] = before[c[1]] /\ table[c[1]] = before[c[1]]
    BY <2>1, <2>2, <1>1, GuardedAt DEF PairsRight
  <2>4. QED  BY <2>2, <2>3 DEF G!TestSameFd, G!Open
<1>5. QED  BY <1>3, <1>4 DEF GuardInv, LiveRight

LEMMA DestructStep ==
  ASSUME GuardInv, G!Destruct
  PROVE  GuardInv'
<1>1. /\ guard = "live" /\ guard' = "gone"
      /\ table' = [fd \in G!Fd |-> IF \E c \in copies : c[2] = fd THEN 0 ELSE table[fd]]
      /\ UNCHANGED <<limit, limits, kcmp, todo, cur, copies, before, verdict>>
  BY DEF G!Destruct, G!limitVars
<1>2. GuardTyped /\ PairsRight /\ copies \subseteq G!Fd \X G!Fd
  BY <1>1 DEF GuardInv, LiveRight, GuardTyped, G!TypeOK
<1>3. GuardTyped' /\ LimitKept'
  <2>1. table' \in [G!Fd -> File \cup {0}]  BY <1>1, <1>2 DEF GuardTyped, G!TypeOK
  <2>2. QED  BY <2>1, <1>1, <1>2 DEF GuardInv, GuardTyped, G!TypeOK, LimitKept
<1>4. ASSUME kcmp, verdict = "same"  PROVE table' = before
  <2>1. table = G!Guarded  BY <1>1, <1>4, SameMeansGuarded
  <2>2. \A fd \in G!Fd \ Slots : G!Guarded[fd] = before[fd]  BY <1>2, GuardedAt DEF PairsRight
  <2>3. ASSUME NEW fd \in G!Fd  PROVE table'[fd] = before[fd]
    <3>1. CASE fd \in Slots
      <4>1. table'[fd] = 0  BY <3>1, <1>1 DEF Slots
      <4>2. before[fd] = 0  BY <3>1, <1>2 DEF PairsRight, G!Open
      <4>3. QED  BY <4>1, <4>2
    <3>2. CASE fd \notin Slots  BY <3>2, <2>1, <2>2, <1>1 DEF Slots
    <3>3. QED  BY <3>1, <3>2
  <2>4. before \in [G!Fd -> File \cup {0}]  BY <1>2 DEF GuardTyped
  <2>5. QED  BY <2>3, <2>4, <1>1
<1>5. QED  BY <1>1, <1>3, <1>4 DEF GuardInv, CopyingRight, LiveRight

(* The limit is no concern of the guard once it has made its copies.       *)
LEMMA LimitStep ==
  ASSUME GuardInv, NEW new \in 0 .. Hard, G!Limit(new)
  PROVE  GuardInv'
<1>1. /\ guard \in {"none", "live", "gone"} /\ limit' = new /\ limits' = Append(limits, limit)
      /\ verdict' = "none" /\ UNCHANGED <<table, kcmp, guard, todo, cur, copies, before>>
  BY DEF G!Limit, G!Outside, G!state
<1>2. GuardTyped'
  <2>1. limit \in 0 .. Hard /\ limits \in Seq(0 .. Hard)  BY DEF GuardInv, GuardTyped, G!TypeOK
  <2>2. limits' \in Seq(0 .. Hard)  BY <2>1, <1>1
  <2>3. QED  BY <2>2, <1>1 DEF GuardInv, GuardTyped, G!TypeOK
<1>3. LimitKept'
  <2>1. limits \in Seq(0 .. Hard)  BY DEF GuardInv, GuardTyped
  <2>2. PICK H : H = 0 .. Hard  OBVIOUS
  <2>3. limit \in H /\ limits \in Seq(H)  BY <2>1, <2>2 DEF GuardInv, GuardTyped, G!TypeOK
  <2>4. CASE limits = <<>>
    <3>1. limit = Hard  BY <2>4 DEF GuardInv, LimitKept
    <3>2. Append(<<>>, limit) = <<limit>>  BY <2>3
    <3>3. limits' = <<Hard>>  BY <3>1, <3>2, <2>4, <1>1
    <3>4. limits' # <<>> /\ limits'[1] = Hard  BY <3>3
    <3>5. QED  BY <3>4 DEF LimitKept
  <2>5. CASE limits # <<>>
    <3>1. limits'[1] = limits[1] /\ limits' # <<>>  BY <2>3, <2>5, <1>1
    <3>2. QED  BY <3>1, <2>5 DEF GuardInv, LimitKept
  <2>6. QED  BY <2>4, <2>5
<1>4. Origs' = Origs /\ Slots' = Slots /\ G!Open(before)' = G!Open(before)
  BY <1>1 DEF Origs, Slots, G!Open
<1>5. LiveRight'  BY <1>1, <1>4 DEF GuardInv, LiveRight, PairsRight
<1>6. QED  BY <1>1, <1>2, <1>3, <1>5 DEF GuardInv, CopyingRight

LEMMA ResetStep ==
  ASSUME GuardInv, G!Reset
  PROVE  GuardInv'
<1>1. /\ guard # "copying" /\ limits # <<>> /\ limit' = limits[Len(limits)]
      /\ limits' = SubSeq(limits, 1, Len(limits) - 1)
      /\ UNCHANGED <<table, kcmp, guard, todo, cur, copies, before, verdict>>
  BY DEF G!Reset, G!state
<1>2. PICK H : H = 0 .. Hard  OBVIOUS
<1>3. limits \in Seq(H)  BY <1>2 DEF GuardInv, GuardTyped
<1>4. PICK n \in Nat : n = Len(limits)  BY <1>3
<1>5. n >= 1 /\ limit' \in H /\ limits' \in Seq(H)  BY <1>1, <1>3, <1>4
<1>6. GuardTyped'  BY <1>1, <1>2, <1>5 DEF GuardInv, GuardTyped, G!TypeOK
<1>7. LimitKept'
  <2>1. limits[1] = Hard  BY <1>1 DEF GuardInv, LimitKept
  <2>2. CASE n = 1  BY <2>1, <2>2, <1>1, <1>3, <1>4 DEF LimitKept
  <2>3. CASE n # 1
    <3>1. n - 1 \in 1 .. n /\ n - 1 \in Nat /\ 1 \in 1 .. n - 1  BY <2>3, <1>4, <1>5
    <3>2. Len(limits') = n - 1 /\ limits'[1] = limits[1]  BY <3>1, <1>1, <1>3, <1>4
    <3>3. limits' # <<>>  BY <3>1, <3>2
    <3>4. QED  BY <3>2, <3>3, <2>1 DEF LimitKept
  <2>4. QED  BY <2>2, <2>3
<1>8. /\ Origs' = Origs /\ Slots' = Slots /\ G!Open(before)' = G!Open(before)
      /\ G!Open(table)' = G!Open(table)
      /\ \A c \in copies : G!TestSameFd(c[1], c[2])' <=> G!TestSameFd(c[1], c[2])
  BY <1>1 DEF Origs, Slots, G!Open, G!TestSameFd
<1>9. PairsRight <=> PairsRight'  BY <1>1, <1>8 DEF PairsRight
<1>10. LiveRight'  BY <1>1, <1>8, <1>9 DEF GuardInv, LiveRight
<1>11. QED  BY <1>1, <1>6, <1>7, <1>10 DEF GuardInv, CopyingRight

(* Whatever the tests do to the table: nothing new where the copies are.   *)
LEMMA UsesStep ==
  ASSUME GuardInv, NEW t \in [G!Fd -> File \cup {0}], G!Uses(t),
         \A c \in copies : t[c[2]] \in {0, table[c[2]]}
  PROVE  GuardInv'
<1>1. /\ guard \in {"none", "live", "gone"} /\ table' = t /\ verdict' = "none"
      /\ UNCHANGED <<limit, limits, kcmp, guard, todo, cur, copies, before>>
  BY DEF G!Uses, G!Outside, G!limitVars, G!state
<1>2. GuardTyped' /\ LimitKept'  BY <1>1 DEF GuardInv, GuardTyped, G!TypeOK, LimitKept
<1>3. Origs' = Origs /\ Slots' = Slots /\ G!Open(before)' = G!Open(before)
  BY <1>1 DEF Origs, Slots, G!Open
<1>4. LiveRight'
  <2> SUFFICES ASSUME guard' = "live"  PROVE LiveRight'  BY DEF LiveRight
  <2>1. PairsRight' /\ todo' = {}  BY <1>1, <1>3 DEF GuardInv, LiveRight, PairsRight
  <2>2. \A c \in copies' : table'[c[2]] \in {0, before'[c[1]]}
    BY <1>1 DEF GuardInv, LiveRight
  <2>3. QED  BY <2>1, <2>2, <1>1 DEF LiveRight
<1>5. QED  BY <1>1, <1>2, <1>4 DEF GuardInv, CopyingRight

LEMMA OpenStep ==
  ASSUME GuardInv, NEW f \in File, G!OpenFile(f)
  PROVE  GuardInv'
<1>1. PICK fd : fd = G!Min(G!Free)  OBVIOUS
<1>2. G!Free \in SUBSET Nat /\ G!Free # {}  BY TableFacts2 DEF G!Free, G!Fd, G!OpenFile
<1>3. fd \in G!Free  BY <1>1, <1>2, MinIs
<1>4. PICK t : t = [table EXCEPT ![fd] = f]  OBVIOUS
<1>5. G!Uses(t) /\ fd \notin Slots  BY <1>1, <1>4 DEF G!OpenFile, Slots
<1>6. t \in [G!Fd -> File \cup {0}]  BY <1>4 DEF GuardInv, GuardTyped, G!TypeOK
<1>7. ASSUME NEW c \in copies  PROVE t[c[2]] = table[c[2]]
  <2>1. c[2] # fd  BY <1>5 DEF Slots
  <2>2. QED  BY <2>1, <1>4
<1>8. QED  BY <1>5, <1>6, <1>7, UsesStep

LEMMA CloseStep ==
  ASSUME GuardInv, NEW fd \in G!Fd, G!Close(fd)
  PROVE  GuardInv'
<1>1. PICK t : t = [table EXCEPT ![fd] = 0]  OBVIOUS
<1>2. G!Uses(t)  BY <1>1 DEF G!Close
<1>3. table \in [G!Fd -> File \cup {0}] /\ copies \subseteq G!Fd \X G!Fd
  BY DEF GuardInv, GuardTyped, G!TypeOK
<1>4. t \in [G!Fd -> File \cup {0}]  BY <1>1, <1>3
<1>5. \A c \in copies : t[c[2]] \in {0, table[c[2]]}  BY <1>1, <1>3
<1>6. QED  BY <1>2, <1>4, <1>5, UsesStep

LEMMA DupStep ==
  ASSUME GuardInv, NEW fd \in G!Fd, NEW to \in G!Fd, G!Dup2(fd, to)
  PROVE  GuardInv'
<1>1. PICK t : t = [table EXCEPT ![to] = table[fd]]  OBVIOUS
<1>2. G!Uses(t) /\ to \notin Slots  BY <1>1 DEF G!Dup2, Slots
<1>3. table \in [G!Fd -> File \cup {0}]  BY DEF GuardInv, GuardTyped, G!TypeOK
<1>4. t \in [G!Fd -> File \cup {0}]  BY <1>1, <1>3
<1>5. ASSUME NEW c \in copies  PROVE t[c[2]] = table[c[2]]
  <2>1. c[2] # to  BY <1>2 DEF Slots
  <2>2. QED  BY <2>1, <1>1
<1>6. QED  BY <1>2, <1>4, <1>5, UsesStep

LEMMA GuardStep == GuardInv /\ [G!Next]_(G!vars) => GuardInv'
<1> SUFFICES ASSUME GuardInv, [G!Next]_(G!vars)  PROVE GuardInv'  OBVIOUS
<1>1. CASE UNCHANGED G!vars
  <2>1. UNCHANGED <<table, limit, limits, kcmp, guard, todo, cur, copies, before, verdict>>
    BY <1>1 DEF G!vars, G!limitVars, G!state
  <2>2. /\ Origs' = Origs /\ Slots' = Slots /\ G!Open(before)' = G!Open(before)
        /\ G!Open(table)' = G!Open(table) /\ G!Guarded' = G!Guarded /\ RoomTo(cur)' = RoomTo(cur)
        /\ \A c \in copies : G!TestSameFd(c[1], c[2])' <=> G!TestSameFd(c[1], c[2])
    BY <2>1 DEF Origs, Slots, G!Open, G!Guarded, RoomTo, G!TestSameFd
  <2>3. PairsRight <=> PairsRight'  BY <2>1, <2>2 DEF PairsRight
  <2>4. CopyingRight' /\ LiveRight'  BY <2>1, <2>2, <2>3 DEF GuardInv, CopyingRight, LiveRight
  <2>5. QED  BY <2>1, <2>4 DEF GuardInv, GuardTyped, G!TypeOK, LimitKept
<1>2. CASE G!Next
  <2>1. CASE G!Construct  BY <2>1, ConstructStep
  <2>2. CASE G!CopyNext  BY <2>2, CopyStep
  <2>3. CASE G!TestDescriptorsState  BY <2>3, TestStep
  <2>4. CASE G!Destruct  BY <2>4, DestructStep
  <2>5. CASE G!Reset  BY <2>5, ResetStep
  <2>6. CASE \E new \in 0 .. Hard : G!Limit(new)  BY <2>6, LimitStep
  <2>7. CASE \E f \in File : G!OpenFile(f)  BY <2>7, OpenStep
  <2>8. CASE \E fd \in G!Fd : G!Close(fd) \/ \E to \in G!Fd : G!Dup2(fd, to)
    BY <2>8, CloseStep, DupStep
  <2>9. QED  BY <1>2, <2>1, <2>2, <2>3, <2>4, <2>5, <2>6, <2>7, <2>8 DEF G!Next
<1>3. QED  BY <1>1, <1>2

LEMMA GuardInvImplies == GuardInv => GuardsRight
<1> SUFFICES ASSUME GuardInv  PROVE GuardsRight  OBVIOUS
<1>1. G!TypeOK  BY DEF GuardInv, GuardTyped
<1>2. G!VerdictRight
  <2>1. ASSUME kcmp, guard = "live", verdict \in {"same", "changed"}
        PROVE  verdict = "same" <=> table = G!Guarded
    BY <2>1, SameMeansGuarded, GuardedMeansSame
  <2>2. ASSUME guard = "live", verdict = "same"
        PROVE  G!Cardinality(G!Open(table)) = G!Cardinality(G!Open(G!Guarded))
    <3>1. GuardTyped /\ PairsRight /\ todo = {} /\ Cardinality(G!Open(table)) = 2 * Cardinality(copies)
      BY <2>2 DEF GuardInv, LiveRight
    <3>2. Cardinality(G!Open(G!Guarded)) = 2 * Cardinality(copies)  BY <3>1, TwiceOpen
    <3>3. QED  BY <3>1, <3>2, GuardsCardinality
  <2>3. QED  BY <2>1, <2>2 DEF G!VerdictRight
<1>3. G!CopiesClobberNothing
  <2>1. ASSUME guard = "copying"
        PROVE  /\ table = G!Guarded /\ \A c \in copies : before[c[2]] = 0
               /\ \A c, d \in copies : c[2] = d[2] => c = d
    <3>1. GuardTyped /\ PairsRight /\ table = G!Guarded  BY <2>1 DEF GuardInv, CopyingRight
    <3>2. ASSUME NEW c \in copies  PROVE before[c[2]] = 0
      <4>1. c[2] \in Slots /\ c[2] \in G!Fd  BY <3>1, PairIsIn
      <4>2. QED  BY <4>1, <3>1 DEF PairsRight, G!Open
    <3>3. QED  BY <3>1, <3>2 DEF PairsRight
  <2>2. QED  BY <2>1 DEF GuardInv, G!CopiesClobberNothing
<1>4. G!NoTrace  BY DEF GuardInv, LimitKept, G!NoTrace
<1>5. QED  BY <1>1, <1>2, <1>3, <1>4 DEF GuardsRight, G!GuardsCostNothing

LEMMA RunsGuards == AllSpec => G!Init /\ [][G!Next]_(G!vars)
<1>1. AllInit => G!Init
  <2>1. NoTable => G!Input  BY DEF NoTable, G!Input
  <2>2. QED  BY <2>1 DEF AllInit, G!Init
<1>2. [AllNext]_allVars => [G!Next]_(G!vars)
  <2>1. UNCHANGED guardVars => UNCHANGED G!vars
    BY DEF guardVars, G!vars, G!limitVars, G!state
  <2>2. QED  BY <2>1 DEF AllNext, allVars, Tests, Reader, Root
<1>3. QED  BY <1>1, <1>2, PTL DEF AllSpec

(* FileDescriptorsGuard, with kcmp, tells exactly whether the table is as  *)
(* it was, and without it at least whether as much is open; the copies it  *)
(* keeps replace nothing and leave no trace, however much is open, and     *)
(* RLimGuard gives back the limit it found.                                *)
THEOREM GuardsAreRight == AllSpec => []GuardsRight
<1>1. GuardInv => GuardsRight  BY GuardInvImplies
<1>2. QED  BY <1>1, GuardInit, GuardStep, RunsGuards, PTL
-----------------------------------------------------------------------------
(* binary-tree.  What is below a child of a node, if there is one; what an *)
(* entry of the stack stands for, and what the node that is being read.    *)
Part(B, c) == IF c = 0 THEN {} ELSE B[c]
Owed(f, B, e) ==
  {e.key} \cup Part(B, f[e.key].left) \cup (IF e.right > 0 THEN Part(B, f[e.key].right) ELSE {})
Owing == [k \in 1 .. Len(tree) |-> Owed(file, T!Below, tree[k])]
Coming == IF reading = T!None THEN {} ELSE T!Below[reading]

Whole ==
  /\ \E n \in 1 .. MaxNodes : T!Node = 0 .. n - 1 /\ size = n * NodeSize
  /\ \A i \in T!Node : /\ file[i].left \in T!Node /\ (file[i].left = 0 \/ file[i].left > i)
                       /\ file[i].right \in T!Node /\ (file[i].right = 0 \/ file[i].right > i)

Entry == [key : T!Node, left : T!Node, right : T!Node \cup {-1}]

(* Below the top of the stack, and all over it while a node is read, the   *)
(* right subtrees have been forgotten.                                     *)
StackTyped ==
  /\ tree \in Seq(Entry)
  /\ \A k \in 1 .. Len(tree) : /\ tree[k].left = file[tree[k].key].left
                               /\ tree[k].right \in {-1, file[tree[k].key].right}
                               /\ k < Len(tree) \/ reading # T!None => tree[k].right = -1
  /\ reading \in T!Node \cup {T!None} /\ totalRead \in 0 .. NodeSize
  /\ reading = T!None => totalRead = 0
  /\ printed \in Seq(T!Node) /\ reads \in Nat /\ least \in Nat

(* b is what is in s, in C and in O[1] to O[m], and P has it that all of s *)
(* is before C, C before O[m], and so on down to O[1].                     *)
Elems(s) == {s[j] : j \in DOMAIN s}
InLine(b, P, m, O, C, s) ==
  /\ b = Elems(s) \cup C \cup UNION {O[k] : k \in 1 .. m}
  /\ \A j, k \in DOMAIN s : j < k => <<s[j], s[k]>> \in P
  /\ \A p \in Elems(s) : /\ \A q \in C : <<p, q>> \in P
                         /\ \A k \in 1 .. m : \A q \in O[k] : <<p, q>> \in P
  /\ \A k \in 1 .. m : \A q \in O[k] :
       /\ \A p \in C : <<p, q>> \in P
       /\ \A l \in k + 1 .. m : \A p \in O[l] : <<p, q>> \in P

Precedence == {p \in T!Below[0] \X T!Below[0] : T!Before(p[1], p[2])}

(* All nodes are printed or owed, and come in their order.                 *)
Sorted == InLine(T!Below[0], Precedence, Len(tree), Owing, Coming, printed)

StackLow ==
  /\ \A k \in 1 .. Len(tree) : k - 1 + T!Height[tree[k].key] <= T!Height[0]
  /\ reading # T!None => Len(tree) + T!Height[reading] <= T!Height[0]

(* Every node has taken a read.                                            *)
ReadsCounted ==
  reads >= least \/ reads >= Len(printed) + Len(tree) + (IF totalRead = 0 THEN 0 ELSE 1)

ReaderRight ==
  /\ rpc \in {"run", "exit 0", "abort"}
  /\ rpc # "run" => tree = <<>> /\ reading = T!None
  /\ rpc = "abort" => reads < least

TreeInv ==
  T!IsTree => Whole /\ StackTyped /\ Sorted /\ StackLow /\ ReadsCounted /\ ReaderRight
-----------------------------------------------------------------------------
(* A function of the nodes that is defined by its values for the children  *)
(* of a node exists, since the children come later.                        *)
Value(g, h, z, l, r, i) ==
  h[<<i, IF l[i] = 0 THEN z ELSE g[l[i]], IF r[i] = 0 THEN z ELSE g[r[i]]>>]
Solves(g, h, z, l, r, k, n, U) ==
  g \in [k .. n - 1 -> U] /\ \A i \in k .. n - 1 : g[i] = Value(g, h, z, l, r, i)

LEMMA SolvesOneMore ==
  ASSUME NEW n \in Nat, NEW k \in 1 .. n, NEW U, NEW z \in U,
         NEW h \in [(0 .. n - 1) \X U \X U -> U],
         NEW l \in [0 .. n - 1 -> 0 .. n - 1], NEW r \in [0 .. n - 1 -> 0 .. n - 1],
         \A i \in 0 .. n - 1 : (l[i] = 0 \/ l[i] > i) /\ (r[i] = 0 \/ r[i] > i),
         NEW g, Solves(g, h, z, l, r, k, n, U)
  PROVE  \E f : Solves(f, h, z, l, r, k - 1, n, U)
<1>1. PICK f : f = [i \in k - 1 .. n - 1 |-> IF i = k - 1 THEN Value(g, h, z, l, r, i) ELSE g[i]]
  OBVIOUS
<1>2. k - 1 \in 0 .. n - 1 /\ k - 1 \in k - 1 .. n - 1 /\ k - 1 \notin k .. n - 1  OBVIOUS
<1>3. \A i \in k - 1 .. n - 1 : i \in 0 .. n - 1 /\ (i = k - 1 \/ i \in k .. n - 1)  OBVIOUS
<1>4. ASSUME NEW i \in k - 1 .. n - 1, NEW c \in 0 .. n - 1, c > i
      PROVE  c \in k .. n - 1 /\ c \in k - 1 .. n - 1 /\ f[c] = g[c]
  <2>1. c \in k .. n - 1 /\ c \in k - 1 .. n - 1 /\ c # k - 1  BY <1>4
  <2>2. QED  BY <2>1, <1>1
<1>5. g \in [k .. n - 1 -> U] /\ \A i \in k .. n - 1 : g[i] = Value(g, h, z, l, r, i)
  BY DEF Solves
<1>6. ASSUME NEW i \in k - 1 .. n - 1  PROVE Value(f, h, z, l, r, i) = Value(g, h, z, l, r, i)
  <2>1. i \in 0 .. n - 1 /\ l[i] \in 0 .. n - 1 /\ r[i] \in 0 .. n - 1  BY <1>3
  <2>2. l[i] # 0 => f[l[i]] = g[l[i]]  BY <2>1, <1>4
  <2>3. r[i] # 0 => f[r[i]] = g[r[i]]  BY <2>1, <1>4
  <2>4. QED  BY <2>2, <2>3 DEF Value
<1>7. ASSUME NEW i \in k - 1 .. n - 1  PROVE f[i] = Value(f, h, z, l, r, i)
  <2>1. CASE i = k - 1  BY <2>1, <1>1, <1>2, <1>6
  <2>2. CASE i # k - 1  BY <2>2, <1>1, <1>3, <1>5, <1>6
  <2>3. QED  BY <2>1, <2>2
<1>8. ASSUME NEW i \in k - 1 .. n - 1  PROVE f[i] \in U
  <2>1. i \in 0 .. n - 1 /\ l[i] \in 0 .. n - 1 /\ r[i] \in 0 .. n - 1  BY <1>3
  <2>2. l[i] # 0 => g[l[i]] \in U  BY <2>1, <1>4, <1>5
  <2>3. r[i] # 0 => g[r[i]] \in U  BY <2>1, <1>4, <1>5
  <2>4. PICK a, b : a = (IF l[i] = 0 THEN z ELSE g[l[i]]) /\ b = (IF r[i] = 0 THEN z ELSE g[r[i]])
    OBVIOUS
  <2>5. a \in U /\ b \in U  BY <2>2, <2>3, <2>4
  <2>6. h[<<i, a, b>>] \in U  BY <2>1, <2>5
  <2>7. QED  BY <2>4, <2>6, <1>6, <1>7 DEF Value
<1>9. f \in [k - 1 .. n - 1 -> U]  BY <1>1, <1>8
<1>10. QED  BY <1>7, <1>9 DEF Solves

LEMMA SolutionExists ==
  ASSUME NEW n \in Nat, NEW U, NEW z \in U,
         NEW h \in [(0 .. n - 1) \X U \X U -> U],
         NEW l \in [0 .. n - 1 -> 0 .. n - 1], NEW r \in [0 .. n - 1 -> 0 .. n - 1],
         \A i \in 0 .. n - 1 : (l[i] = 0 \/ l[i] > i) /\ (r[i] = 0 \/ r[i] > i)
  PROVE  \E g : Solves(g, h, z, l, r, 0, n, U)
<1>1. PICK Bad : Bad = {j \in 0 .. n : ~\E g : Solves(g, h, z, l, r, n - j, n, U)}  OBVIOUS
<1>2. Bad \in SUBSET Nat  BY <1>1
<1>3. CASE Bad = {}
  <2>1. n \in 0 .. n /\ n - n = 0  OBVIOUS
  <2>2. QED  BY <2>1, <1>1, <1>3
<1>4. CASE Bad # {}
  <2>1. PICK j \in Bad : \A m \in Bad : j <= m  BY <1>2, <1>4, LeastNumber
  <2>2. j \in 0 .. n /\ ~\E g : Solves(g, h, z, l, r, n - j, n, U)  BY <1>1
  <2>3. j # 0
    <3> SUFFICES ASSUME j = 0  PROVE FALSE  OBVIOUS
    <3>1. PICK g : g = [i \in n .. n - 1 |-> z]  OBVIOUS
    <3>2. n .. n - 1 = {}  OBVIOUS
    <3>3. Solves(g, h, z, l, r, n, n, U)  BY <3>1, <3>2 DEF Solves
    <3>4. n - j = n  OBVIOUS
    <3>5. QED  BY <3>3, <3>4, <2>2
  <2>4. j - 1 \in 0 .. n /\ j - 1 \notin Bad /\ n - (j - 1) \in 1 .. n /\ n - (j - 1) - 1 = n - j
    <3>1. j \in 1 .. n  BY <2>2, <2>3
    <3>2. ~(j <= j - 1)  BY <3>1
    <3>3. QED  BY <3>1, <3>2, <2>1
  <2>5. PICK g : Solves(g, h, z, l, r, n - (j - 1), n, U)  BY <2>4, <1>1
  <2>6. \E f : Solves(f, h, z, l, r, n - (j - 1) - 1, n, U)  BY <2>4, <2>5, SolvesOneMore
  <2>7. QED  BY <2>2, <2>4, <2>6
<1>5. QED  BY <1>3, <1>4

LEMMA NodeFacts ==
  ASSUME Whole
  PROVE  \E n \in Nat : /\ n >= 1 /\ n <= MaxNodes /\ T!Node = 0 .. n - 1 /\ size = n * NodeSize
BY SizeAssumption DEF Whole, T!SizeAssumption

LEMMA BelowIs ==
  ASSUME Whole
  PROVE  \A i \in T!Node : T!Below[i] = {i} \cup Part(T!Below, file[i].left) \cup Part(T!Below, file[i].right)
<1>1. PICK n \in Nat : T!Node = 0 .. n - 1  BY NodeFacts
<1>2. PICK U, z : U = SUBSET T!Node /\ z = {}  OBVIOUS
<1>3. PICK h : h = [t \in (0 .. n - 1) \X U \X U |-> {t[1]} \cup t[2] \cup t[3]]  OBVIOUS
<1>4. PICK l, r : l = [i \in T!Node |-> file[i].left] /\ r = [i \in T!Node |-> file[i].right]  OBVIOUS
<1>5. h \in [(0 .. n - 1) \X U \X U -> U]
  <2>1. ASSUME NEW t \in (0 .. n - 1) \X U \X U  PROVE {t[1]} \cup t[2] \cup t[3] \in U
    <3>1. t[1] \in T!Node /\ t[2] \in U /\ t[3] \in U  BY <1>1
    <3>2. QED  BY <3>1, <1>2
  <2>2. QED  BY <2>1, <1>3
<1>6. /\ l \in [0 .. n - 1 -> 0 .. n - 1] /\ r \in [0 .. n - 1 -> 0 .. n - 1]
      /\ \A i \in 0 .. n - 1 : (l[i] = 0 \/ l[i] > i) /\ (r[i] = 0 \/ r[i] > i)
  BY <1>1, <1>4 DEF Whole
<1>7. z \in U  BY <1>2
<1>8. PICK g : Solves(g, h, z, l, r, 0, n, U)  BY <1>5, <1>6, <1>7, SolutionExists
<1>9. g \in [T!Node -> U] /\ \A i \in T!Node : g[i] = Value(g, h, z, l, r, i)
  BY <1>1, <1>8 DEF Solves
<1>10. ASSUME NEW i \in T!Node
       PROVE  g[i] = {i} \cup (IF file[i].left = 0 THEN {} ELSE g[file[i].left])
                         \cup (IF file[i].right = 0 THEN {} ELSE g[file[i].right])
  <2>1. l[i] = file[i].left /\ r[i] = file[i].right /\ l[i] \in T!Node /\ r[i] \in T!Node
    BY <1>1, <1>4, <1>6
  <2>2. PICK a, b : a = (IF l[i] = 0 THEN z ELSE g[l[i]]) /\ b = (IF r[i] = 0 THEN z ELSE g[r[i]])
    OBVIOUS
  <2>3. a \in U /\ b \in U  BY <2>1, <2>2, <1>7, <1>9
  <2>4. h[<<i, a, b>>] = {i} \cup a \cup b  BY <2>3, <1>1, <1>3
  <2>5. g[i] = h[<<i, a, b>>]  BY <2>2, <1>9 DEF Value
  <2>6. QED  BY <2>1, <2>2, <2>4, <2>5, <1>2
<1>11. g = [i \in T!Node |-> {i} \cup (IF file[i].left = 0 THEN {} ELSE g[file[i].left])
                               \cup (IF file[i].right = 0 THEN {} ELSE g[file[i].right])]
  BY <1>9, <1>10
<1>12. T!Below = [i \in T!Node |-> {i} \cup (IF file[i].left = 0 THEN {} ELSE T!Below[file[i].left])
                                     \cup (IF file[i].right = 0 THEN {} ELSE T!Below[file[i].right])]
  BY <1>11, Zenon DEF T!Below
<1>13. QED  BY <1>12 DEF Part

LEMMA HeightIs ==
  ASSUME Whole
  PROVE  \A i \in T!Node :
           /\ T!Height[i] \in Nat /\ T!Height[i] >= 1
           /\ file[i].left # 0 => T!Height[file[i].left] < T!Height[i]
           /\ file[i].right # 0 => T!Height[file[i].right] < T!Height[i]
<1>1. PICK n \in Nat : n >= 1 /\ T!Node = 0 .. n - 1  BY NodeFacts
<1>2. PICK U, z : U = Nat /\ z = 0  OBVIOUS
<1>3. PICK h : h = [t \in (0 .. n - 1) \X U \X U |-> 1 + (IF t[2] < t[3] THEN t[3] ELSE t[2])]
  OBVIOUS
<1>4. PICK l, r : l = [i \in T!Node |-> file[i].left] /\ r = [i \in T!Node |-> file[i].right]  OBVIOUS
<1>5. h \in [(0 .. n - 1) \X U \X U -> U]
  <2>1. ASSUME NEW t \in (0 .. n - 1) \X U \X U
        PROVE  1 + (IF t[2] < t[3] THEN t[3] ELSE t[2]) \in U
    <3>1. t[2] \in U /\ t[3] \in U  OBVIOUS
    <3>2. QED  BY <3>1, <1>2
  <2>2. QED  BY <2>1, <1>3
<1>6. /\ l \in [0 .. n - 1 -> 0 .. n - 1] /\ r \in [0 .. n - 1 -> 0 .. n - 1]
      /\ \A i \in 0 .. n - 1 : (l[i] = 0 \/ l[i] > i) /\ (r[i] = 0 \/ r[i] > i)
  BY <1>1, <1>4 DEF Whole
<1>7. z \in U  BY <1>2
<1>8. PICK g : Solves(g, h, z, l, r, 0, n, U)  BY <1>5, <1>6, <1>7, SolutionExists
<1>9. g \in [T!Node -> U] /\ \A i \in T!Node : g[i] = Value(g, h, z, l, r, i)
  BY <1>1, <1>8 DEF Solves
<1>10. ASSUME NEW i \in T!Node
       PROVE  g[i] = LET left == IF file[i].left = 0 THEN 0 ELSE g[file[i].left]
                         right == IF file[i].right = 0 THEN 0 ELSE g[file[i].right]
                     IN 1 + (IF left < right THEN right ELSE left)
  <2>1. l[i] = file[i].left /\ r[i] = file[i].right /\ l[i] \in T!Node /\ r[i] \in T!Node
    BY <1>1, <1>4, <1>6
  <2>2. PICK a, b : a = (IF l[i] = 0 THEN z ELSE g[l[i]]) /\ b = (IF r[i] = 0 THEN z ELSE g[r[i]])
    OBVIOUS
  <2>3. a \in U /\ b \in U  BY <2>1, <2>2, <1>7, <1>9
  <2>4. h[<<i, a, b>>] = 1 + (IF a < b THEN b ELSE a)  BY <2>3, <1>1, <1>3
  <2>5. g[i] = h[<<i, a, b>>]  BY <2>2, <1>9 DEF Value
  <2>6. a = (IF file[i].left = 0 THEN 0 ELSE g[file[i].left])
        /\ b = (IF file[i].right = 0 THEN 0 ELSE g[file[i].right])
    BY <2>1, <2>2, <1>2
  <2>7. QED  BY <2>4, <2>5, <2>6
<1>11. g = [i \in T!Node |->
              LET left == IF file[i].left = 0 THEN 0 ELSE g[file[i].left]
                  right == IF file[i].right = 0 THEN 0 ELSE g[file[i].right]
              IN 1 + (IF left < right THEN right ELSE left)]
  BY <1>9, <1>10
<1>12. T!Height = [i \in T!Node |->
              LET left == IF file[i].left = 0 THEN 0 ELSE T!Height[file[i].left]
                  right == IF file[i].right = 0 THEN 0 ELSE T!Height[file[i].right]
              IN 1 + (IF left < right THEN right ELSE left)]
  BY <1>11, Zenon DEF T!Height
<1> DEFINE H(c) == IF c = 0 THEN 0 ELSE T!Height[c]
<1>13. \A i \in T!Node : T!Height[i] =
         1 + (IF H(file[i].left) < H(file[i].right) THEN H(file[i].right) ELSE H(file[i].left))
  BY <1>12
<1>14. \A i \in T!Node : T!Height[i] \in Nat
  <2>1. PICK Bad : Bad = {j \in 0 .. n - 1 : T!Height[n - 1 - j] \notin Nat}  OBVIOUS
  <2>2. Bad \in SUBSET Nat  BY <2>1
  <2>3. Bad = {}
    <3> SUFFICES ASSUME Bad # {}  PROVE FALSE  OBVIOUS
    <3>1. PICK j \in Bad : \A m \in Bad : j <= m  BY <2>2, LeastNumber
    <3>2. PICK i : i = n - 1 - j  OBVIOUS
    <3>3. j \in 0 .. n - 1 /\ i \in T!Node /\ T!Height[i] \notin Nat  BY <3>1, <3>2, <2>1, <1>1
    <3>4. ASSUME NEW c \in T!Node, c = 0 \/ c > i  PROVE H(c) \in Nat
      <4>1. CASE c = 0  BY <4>1
      <4>2. CASE c # 0
        <5>1. n - 1 - c \in 0 .. n - 1 /\ n - 1 - (n - 1 - c) = c /\ ~(j <= n - 1 - c)
          BY <4>2, <3>2, <3>3, <3>4, <1>1
        <5>2. n - 1 - c \notin Bad  BY <5>1, <3>1
        <5>3. QED  BY <5>1, <5>2, <4>2, <2>1
      <4>3. QED  BY <4>1, <4>2
    <3>5. H(file[i].left) \in Nat /\ H(file[i].right) \in Nat
      <4>1. /\ file[i].left \in T!Node /\ (file[i].left = 0 \/ file[i].left > i)
            /\ file[i].right \in T!Node /\ (file[i].right = 0 \/ file[i].right > i)
        BY <3>3 DEF Whole
      <4>2. QED  BY <4>1, <3>4
    <3>6. PICK a, b : a = H(file[i].left) /\ b = H(file[i].right)  OBVIOUS
    <3>7. a \in Nat /\ b \in Nat  BY <3>5, <3>6
    <3>8. T!Height[i] = 1 + (IF a < b THEN b ELSE a)  BY <3>3, <3>6, <1>13
    <3>9. QED  BY <3>3, <3>7, <3>8
  <2>4. ASSUME NEW i \in T!Node  PROVE T!Height[i] \in Nat
    <3>1. n - 1 - i \in 0 .. n - 1 /\ n - 1 - (n - 1 - i) = i  BY <1>1
    <3>2. QED  BY <3>1, <2>1, <2>3
  <2>5. QED  BY <2>4
<1>15. ASSUME NEW i \in T!Node
       PROVE  /\ T!Height[i] >= 1
              /\ file[i].left # 0 => T!Height[file[i].left] < T!Height[i]
              /\ file[i].right # 0 => T!Height[file[i].right] < T!Height[i]
  <2>1. file[i].left \in T!Node /\ file[i].right \in T!Node  BY DEF Whole
  <2>2. PICK a, b : a = H(file[i].left) /\ b = H(file[i].right)  OBVIOUS
  <2>3. a \in Nat /\ b \in Nat  BY <2>1, <2>2, <1>14
  <2>4. T!Height[i] = 1 + (IF a < b THEN b ELSE a)  BY <2>2, <1>13
  <2>5. T!Height[i] >= 1 /\ a < T!Height[i] /\ b < T!Height[i]  BY <2>3, <2>4
  <2>6. QED  BY <2>2, <2>5
<1>16. QED  BY <1>14, <1>15
-----------------------------------------------------------------------------
(* Pushing what was coming, which nothing follows at once.                 *)
LEMMA LinePush ==
  ASSUME NEW b, NEW P, NEW m \in Nat, NEW O, NEW C, NEW s, InLine(b, P, m, O, C, s),
         NEW Q, Q[m + 1] = C, \A k \in 1 .. m : Q[k] = O[k]
  PROVE  InLine(b, P, m + 1, Q, {}, s)
<1>1. \A k \in 1 .. m + 1 : k \in 1 .. m \/ k = m + 1  OBVIOUS
<1>2. \A k \in 1 .. m : k \in 1 .. m + 1 /\ k # m + 1  OBVIOUS
<1>3. m + 1 \in 1 .. m + 1 /\ m + 2 .. m + 1 = {}  OBVIOUS
<1>4. b = Elems(s) \cup {} \cup UNION {Q[k] : k \in 1 .. m + 1}
  <2>1. UNION {Q[k] : k \in 1 .. m + 1} = C \cup UNION {O[k] : k \in 1 .. m}  BY <1>1, <1>2, <1>3
  <2>2. QED  BY <2>1 DEF InLine
<1>5. ASSUME NEW k \in 1 .. m + 1, NEW q \in Q[k], NEW p \in Elems(s)  PROVE <<p, q>> \in P
  BY <1>1, <1>5 DEF InLine
<1>6. ASSUME NEW k \in 1 .. m + 1, NEW q \in Q[k], NEW l \in k + 1 .. m + 1, NEW p \in Q[l]
      PROVE  <<p, q>> \in P
  <2>1. k \in 1 .. m /\ (l = m + 1 \/ l \in k + 1 .. m)  OBVIOUS
  <2>2. q \in O[k]  BY <2>1
  <2>3. CASE l = m + 1  BY <2>1, <2>2, <2>3 DEF InLine
  <2>4. CASE l \in k + 1 .. m
    <3>1. l \in 1 .. m  BY <2>1, <2>4
    <3>2. p \in O[l]  BY <3>1
    <3>3. QED  BY <3>2, <2>1, <2>2, <2>4 DEF InLine
  <2>5. QED  BY <2>1, <2>3, <2>4
<1>7. \A j, k \in DOMAIN s : j < k => <<s[j], s[k]>> \in P  BY DEF InLine
<1>8. QED  BY <1>4, <1>5, <1>6, <1>7 DEF InLine

(* Of what is last, X comes first and Y stays.                             *)
LEMMA LineSplit ==
  ASSUME NEW b, NEW P, NEW m \in Nat, m >= 1, NEW O, NEW s, InLine(b, P, m, O, {}, s),
         NEW X, NEW Y, O[m] = X \cup Y, \A x \in X, y \in Y : <<x, y>> \in P,
         NEW Q, Q[m] = Y, \A k \in 1 .. m - 1 : Q[k] = O[k]
  PROVE  InLine(b, P, m, Q, X, s)
<1>1. \A k \in 1 .. m : k = m \/ k \in 1 .. m - 1  OBVIOUS
<1>2. \A k \in 1 .. m - 1 : k \in 1 .. m /\ m \in k + 1 .. m  OBVIOUS
<1>3. m \in 1 .. m  OBVIOUS
<1>4. \A k \in 1 .. m : Q[k] \subseteq O[k]  BY <1>1
<1>5. b = Elems(s) \cup X \cup UNION {Q[k] : k \in 1 .. m}
  <2>1. X \cup UNION {Q[k] : k \in 1 .. m} = UNION {O[k] : k \in 1 .. m}  BY <1>1, <1>2, <1>3
  <2>2. QED  BY <2>1 DEF InLine
<1>6. ASSUME NEW p \in Elems(s)
      PROVE  (\A q \in X : <<p, q>> \in P) /\ \A k \in 1 .. m : \A q \in Q[k] : <<p, q>> \in P
  BY <1>3, <1>4 DEF InLine
<1>7. ASSUME NEW k \in 1 .. m, NEW q \in Q[k]
      PROVE  (\A p \in X : <<p, q>> \in P) /\ \A l \in k + 1 .. m : \A p \in Q[l] : <<p, q>> \in P
  <2>1. ASSUME NEW p \in X  PROVE <<p, q>> \in P
    <3>1. CASE k = m  BY <3>1
    <3>2. CASE k \in 1 .. m - 1
      <4>1. q \in O[k] /\ p \in O[m] /\ m \in k + 1 .. m  BY <3>2, <1>2
      <4>2. QED  BY <4>1 DEF InLine
    <3>3. QED  BY <1>1, <3>1, <3>2
  <2>2. ASSUME NEW l \in k + 1 .. m, NEW p \in Q[l]  PROVE <<p, q>> \in P
    <3>1. l \in 1 .. m  OBVIOUS
    <3>2. p \in O[l] /\ q \in O[k]  BY <3>1, <1>4
    <3>3. QED  BY <3>2 DEF InLine
  <2>3. QED  BY <2>1, <2>2
<1>8. \A j, k \in DOMAIN s : j < k => <<s[j], s[k]>> \in P  BY DEF InLine
<1>9. QED  BY <1>5, <1>6, <1>7, <1>8 DEF InLine

(* Of what is last, x is printed and Y comes next.                         *)
LEMMA LinePrint ==
  ASSUME NEW b, NEW P, NEW m \in Nat, m >= 1, NEW O, NEW E, NEW s \in Seq(E),
         InLine(b, P, m, O, {}, s),
         NEW x \in E, NEW Y, O[m] = {x} \cup Y, \A y \in Y : <<x, y>> \in P,
         NEW Q, \A k \in 1 .. m - 1 : Q[k] = O[k]
  PROVE  InLine(b, P, m - 1, Q, Y, Append(s, x))
<1>1. \A k \in 1 .. m : k = m \/ k \in 1 .. m - 1  OBVIOUS
<1>2. \A k \in 1 .. m - 1 : k \in 1 .. m /\ m \in k + 1 .. m  OBVIOUS
<1>3. m \in 1 .. m  OBVIOUS
<1>4. PICK n \in Nat : n = Len(s) /\ DOMAIN s = 1 .. n  OBVIOUS
<1>5. PICK t : t = Append(s, x)  OBVIOUS
<1>6. DOMAIN t = 1 .. n + 1 /\ t[n + 1] = x /\ \A j \in 1 .. n : t[j] = s[j]  BY <1>4, <1>5
<1>7. Elems(t) = Elems(s) \cup {x}
  <2>1. \A j \in 1 .. n + 1 : j \in 1 .. n \/ j = n + 1  BY <1>4
  <2>2. n + 1 \in 1 .. n + 1 /\ \A j \in 1 .. n : j \in 1 .. n + 1  BY <1>4
  <2>3. QED  BY <2>1, <2>2, <1>4, <1>6 DEF Elems
<1>8. b = Elems(t) \cup Y \cup UNION {Q[k] : k \in 1 .. m - 1}
  <2>1. UNION {O[k] : k \in 1 .. m} = {x} \cup Y \cup UNION {Q[k] : k \in 1 .. m - 1}
    BY <1>1, <1>2, <1>3
  <2>2. QED  BY <2>1, <1>7 DEF InLine
<1>9. ASSUME NEW j \in DOMAIN t, NEW k \in DOMAIN t, j < k  PROVE <<t[j], t[k]>> \in P
  <2>1. j \in 1 .. n /\ (k \in 1 .. n \/ k = n + 1)  BY <1>9, <1>4, <1>6
  <2>2. CASE k \in 1 .. n  BY <2>1, <2>2, <1>4, <1>6, <1>9 DEF InLine
  <2>3. CASE k = n + 1
    <3>1. t[j] \in Elems(s) /\ t[k] \in O[m]  BY <2>1, <2>3, <1>4, <1>6 DEF Elems
    <3>2. QED  BY <3>1, <1>3 DEF InLine
  <2>4. QED  BY <2>1, <2>2, <2>3
<1>10. ASSUME NEW k \in 1 .. m - 1, NEW q \in Q[k]
       PROVE  /\ <<x, q>> \in P /\ \A p \in Y : <<p, q>> \in P
              /\ \A l \in k + 1 .. m - 1 : \A p \in Q[l] : <<p, q>> \in P
  <2>1. k \in 1 .. m /\ q \in O[k] /\ m \in k + 1 .. m  BY <1>2
  <2>2. \A p \in O[m] : <<p, q>> \in P  BY <2>1 DEF InLine
  <2>3. ASSUME NEW l \in k + 1 .. m - 1, NEW p \in Q[l]  PROVE <<p, q>> \in P
    <3>1. l \in k + 1 .. m /\ l \in 1 .. m - 1  OBVIOUS
    <3>2. p \in O[l]  BY <3>1
    <3>3. QED  BY <3>1, <3>2, <2>1 DEF InLine
  <2>4. QED  BY <2>2, <2>3
<1>11. ASSUME NEW p \in Elems(t)
       PROVE  (\A q \in Y : <<p, q>> \in P) /\ \A k \in 1 .. m - 1 : \A q \in Q[k] : <<p, q>> \in P
  <2>1. CASE p = x  BY <2>1, <1>10
  <2>2. CASE p \in Elems(s)
    <3>1. \A k \in 1 .. m : \A q \in O[k] : <<p, q>> \in P  BY <2>2 DEF InLine
    <3>2. QED  BY <3>1, <1>2, <1>3
  <2>3. QED  BY <2>1, <2>2, <1>7
<1>12. QED  BY <1>5, <1>8, <1>9, <1>10, <1>11 DEF InLine
-----------------------------------------------------------------------------
(* What the file says stays as it is.                                      *)
BelowOf(f) ==
  CHOOSE B : B = [i \in DOMAIN f |-> {i} \cup (IF f[i].left = 0 THEN {} ELSE B[f[i].left])
                                         \cup (IF f[i].right = 0 THEN {} ELSE B[f[i].right])]
HeightOf(f) ==
  CHOOSE H : H = [i \in DOMAIN f |->
                    LET left == IF f[i].left = 0 THEN 0 ELSE H[f[i].left]
                        right == IF f[i].right = 0 THEN 0 ELSE H[f[i].right]
                    IN 1 + (IF left < right THEN right ELSE left)]

LEMMA StaysBelow == file' = file => T!Below' = T!Below
<1>1. T!Below = BelowOf(file)  BY DEF T!Below, BelowOf, T!Node
<1>2. T!Below' = BelowOf(file')  BY DEF T!Below, BelowOf, T!Node
<1>3. QED  BY <1>1, <1>2

LEMMA StaysHigh == file' = file => T!Height' = T!Height
<1>1. T!Height = HeightOf(file)  BY DEF T!Height, HeightOf, T!Node
<1>2. T!Height' = HeightOf(file')  BY DEF T!Height, HeightOf, T!Node
<1>3. QED  BY <1>1, <1>2

LEMMA FileStays ==
  ASSUME UNCHANGED T!inputs
  PROVE  /\ file' = file /\ size' = size /\ opened' = opened /\ least' = least
         /\ (T!IsTree' <=> T!IsTree) /\ T!Node' = T!Node /\ Entry' = Entry /\ (Whole => Whole')
         /\ T!Below' = T!Below /\ T!Height' = T!Height /\ Precedence' = Precedence
<1>1. file' = file /\ size' = size /\ opened' = opened /\ least' = least  BY DEF T!inputs
<1>2. T!Below' = T!Below /\ T!Height' = T!Height  BY <1>1, StaysBelow, StaysHigh
<1>3. T!Node' = T!Node  BY <1>1 DEF T!Node
<1>4. Entry' = Entry  BY <1>3 DEF Entry
<1>5. T!IsTree' <=> T!IsTree  BY <1>1, <1>3 DEF T!IsTree
<1>6. Whole => Whole'  BY <1>1, <1>3 DEF Whole
<1>7. Precedence' = Precedence  BY <1>1, <1>2 DEF Precedence, T!Before
<1>8. QED  BY <1>1, <1>2, <1>3, <1>4, <1>5, <1>6, <1>7

LEMMA TreeInit == (T!Input \/ NoTree) /\ T!Start => TreeInv
<1> SUFFICES ASSUME T!Input \/ NoTree, T!Start, T!IsTree  PROVE TreeInv  BY DEF TreeInv
<1>1. T!Input  BY DEF NoTree, T!IsTree
<1>2. PICK n \in 0 .. MaxNodes : file \in T!FileOf(n)  BY <1>1 DEF T!Input
<1>3. n \in Nat /\ T!Node = 0 .. n - 1 /\ n >= 1 /\ n <= MaxNodes /\ MaxNodes \in Nat
  <2>1. T!Node = 0 .. n - 1  BY <1>2 DEF T!FileOf, T!Node
  <2>2. T!Node # {}  BY DEF T!IsTree
  <2>3. QED  BY <2>1, <2>2, SizeAssumption DEF T!SizeAssumption
<1>4. size = n * NodeSize
  <2>1. Cardinality(0 .. n - 1) = n
    <3>1. 0 \in Int /\ n - 1 \in Int /\ ~(0 > n - 1) /\ n - 1 - 0 + 1 = n  BY <1>3
    <3>2. Cardinality(0 .. n - 1) = n - 1 - 0 + 1  BY <3>1, FS_Interval
    <3>3. QED  BY <3>1, <3>2
  <2>2. T!Cardinality(T!Node) = n  BY <2>1, <1>3 DEF T!Cardinality, Cardinality
  <2>3. QED  BY <2>2 DEF T!IsTree
<1>5. Whole
  <2>1. ASSUME NEW i \in T!Node
        PROVE  /\ file[i].left \in T!Node /\ (file[i].left = 0 \/ file[i].left > i)
               /\ file[i].right \in T!Node /\ (file[i].right = 0 \/ file[i].right > i)
    <3>1. file[i].left \in T!Node /\ file[i].right \in T!Node  BY DEF T!IsTree
    <3>2. file[i].left \in T!Child(i, n) /\ file[i].right \in T!Child(i, n)
      BY <1>2, <1>3 DEF T!FileOf
    <3>3. ASSUME NEW c \in T!Node, c \in T!Child(i, n)  PROVE c = 0 \/ c > i
      BY <3>3, <1>3 DEF T!Child
    <3>4. QED  BY <3>1, <3>2, <3>3
  <2>2. n \in 1 .. MaxNodes  BY <1>3
  <2>3. QED  BY <2>1, <2>2, <1>3, <1>4 DEF Whole
<1>6. /\ tree = <<>> /\ reading = 0 /\ totalRead = 0 /\ printed = <<>> /\ reads = 0 /\ rpc = "run"
      /\ Len(tree) = 0 /\ Len(printed) = 0 /\ 0 \in T!Node /\ T!None # 0
  BY <1>3 DEF T!Start, T!None
<1>7. StackTyped
  <2>1. least \in Nat  BY <1>1 DEF T!Input
  <2>2. 0 \in 0 .. NodeSize  BY SizeAssumption DEF T!SizeAssumption
  <2>3. QED  BY <2>1, <2>2, <1>6 DEF StackTyped
<1>8. Sorted
  <2>1. Coming = T!Below[0]  BY <1>6 DEF Coming
  <2>2. Elems(printed) = {} /\ 1 .. Len(tree) = {} /\ DOMAIN printed = {}  BY <1>6 DEF Elems
  <2>3. QED  BY <2>1, <2>2 DEF Sorted, InLine
<1>9. StackLow
  <2>1. T!Height[0] \in Nat  BY <1>5, <1>6, HeightIs
  <2>2. QED  BY <2>1, <1>6 DEF StackLow
<1>10. ReadsCounted /\ ReaderRight  BY <1>6 DEF ReadsCounted, ReaderRight
<1>11. QED  BY <1>5, <1>7, <1>8, <1>9, <1>10 DEF TreeInv

(* A node that is in the file is there to its last byte.                   *)
LEMMA BytesThere ==
  ASSUME NEW r \in Nat, NEW n \in Nat, r < n, NEW N \in Nat, NEW t \in Nat, NEW c \in Nat, t + c <= N
  PROVE  r * N + t + c <= n * N /\ r * N \in Nat
<1>1. PICK d : d = n - r - 1  OBVIOUS
<1>2. d \in Nat /\ n = r + 1 + d  BY <1>1
<1>3. n * N = r * N + N + d * N  BY <1>2
<1>4. d * N \in Nat /\ r * N \in Nat  BY <1>2
<1>5. PICK a, b : a = r * N /\ b = d * N  OBVIOUS
<1>6. a + t + c <= a + N + b  BY <1>4, <1>5
<1>7. QED  BY <1>3, <1>4, <1>5, <1>6

LEMMA PReadStep ==
  ASSUME Whole, StackTyped, Sorted, StackLow, ReadsCounted, ReaderRight, T!IsTree,
         NEW count \in 1 .. NodeSize, T!PRead(count)
  PROVE  StackTyped' /\ Sorted' /\ StackLow' /\ ReadsCounted' /\ ReaderRight'
<1>1. /\ rpc = "run" /\ reading # T!None /\ totalRead < NodeSize /\ count \in 1 .. NodeSize - totalRead
      /\ reads' = (IF reads < least THEN reads + 1 ELSE reads)
      /\ UNCHANGED T!inputs /\ tree' = tree /\ reading' = reading /\ printed' = printed
  BY DEF T!PRead, T!Call
<1>2. /\ least' = least /\ file' = file /\ T!Node' = T!Node /\ Entry' = Entry /\ T!Below' = T!Below
      /\ T!Height' = T!Height /\ Precedence' = Precedence
  BY <1>1, FileStays
<1>3. NodeSize \in Nat /\ totalRead \in Nat /\ reads \in Nat /\ least \in Nat /\ count \in Nat
      /\ count >= 1 /\ totalRead + count <= NodeSize /\ reading \in T!Node
  BY <1>1, SizeAssumption DEF T!SizeAssumption, StackTyped
<1>4. totalRead' = totalRead + count /\ rpc' = rpc
  <2>1. PICK n \in Nat : T!Node = 0 .. n - 1 /\ size = n * NodeSize  BY NodeFacts
  <2>2. reading \in Nat /\ reading < n  BY <2>1, <1>3
  <2>3. reading * NodeSize + totalRead + count <= size /\ reading * NodeSize \in Nat
    BY <2>1, <2>2, <1>3, BytesThere
  <2>4. PICK x : x = T!From  OBVIOUS
  <2>5. x \in Nat /\ x + count <= size  BY <2>3, <2>4, <1>3 DEF T!From
  <2>6. T!NumBytes(count) = count  BY <2>4, <2>5 DEF T!NumBytes
  <2>7. ~(x < 0) /\ count # 0 /\ opened  BY <2>5, <1>3 DEF T!IsTree
  <2>8. QED  BY <2>4, <2>6, <2>7 DEF T!PRead
<1>5. StackTyped'
  <2>1. totalRead' \in 0 .. NodeSize /\ reads' \in Nat  BY <1>1, <1>3, <1>4
  <2>2. QED  BY <2>1, <1>1, <1>2 DEF StackTyped
<1>6. Sorted'
  <2>1. Owing' = Owing /\ Coming' = Coming  BY <1>1, <1>2 DEF Owing, Coming
  <2>2. QED  BY <2>1, <1>1, <1>2 DEF Sorted
<1>7. StackLow'  BY <1>1, <1>2 DEF StackLow
<1>8. ReadsCounted'
  <2>1. PICK p, m : p = Len(printed) /\ m = Len(tree)  OBVIOUS
  <2>2. p \in Nat /\ m \in Nat /\ Len(printed') = p /\ Len(tree') = m  BY <2>1, <1>1 DEF StackTyped
  <2>3. totalRead' # 0  BY <1>3, <1>4
  <2>4. reads >= least \/ reads >= p + m  BY <2>1, <2>2, <1>3 DEF ReadsCounted
  <2>5. reads' >= least' \/ reads' >= p + m + 1  BY <2>2, <2>4, <1>1, <1>2, <1>3
  <2>6. QED  BY <2>2, <2>3, <2>5 DEF ReadsCounted
<1>9. ReaderRight'  BY <1>1, <1>4 DEF ReaderRight
<1>10. QED  BY <1>5, <1>6, <1>7, <1>8, <1>9

LEMMA PushStep ==
  ASSUME Whole, StackTyped, Sorted, StackLow, ReadsCounted, ReaderRight, T!Push
  PROVE  StackTyped' /\ Sorted' /\ StackLow' /\ ReadsCounted' /\ ReaderRight'
<1> DEFINE e == [key |-> reading, left |-> file[reading].left, right |-> file[reading].right]
<1>1. /\ rpc = "run" /\ reading # T!None /\ totalRead = NodeSize /\ tree' = Append(tree, e)
      /\ reading' = T!None /\ totalRead' = 0
      /\ UNCHANGED T!inputs /\ printed' = printed /\ reads' = reads /\ rpc' = rpc
  BY DEF T!Push
<1>2. /\ least' = least /\ file' = file /\ T!Node' = T!Node /\ Entry' = Entry /\ T!Below' = T!Below
      /\ T!Height' = T!Height /\ Precedence' = Precedence
  BY <1>1, FileStays
<1>3. reading \in T!Node /\ file[reading].left \in T!Node /\ file[reading].right \in T!Node
  BY <1>1 DEF StackTyped, Whole
<1>4. e \in Entry /\ tree \in Seq(Entry)  BY <1>3 DEF Entry, StackTyped
<1>5. PICK m \in Nat : m = Len(tree)  BY <1>4
<1>6. /\ tree' \in Seq(Entry) /\ Len(tree') = m + 1 /\ tree'[m + 1] = e
      /\ \A k \in 1 .. m : tree'[k] = tree[k]
  BY <1>1, <1>4, <1>5
<1>7. \A k \in 1 .. m + 1 : k \in 1 .. m \/ k = m + 1  BY <1>5
<1>8. StackTyped'
  <2>1. ASSUME NEW k \in 1 .. m + 1
        PROVE  /\ tree'[k].left = file[tree'[k].key].left
               /\ tree'[k].right \in {-1, file[tree'[k].key].right}
               /\ k < m + 1 => tree'[k].right = -1
    <3>1. CASE k \in 1 .. m  BY <3>1, <1>1, <1>5, <1>6 DEF StackTyped
    <3>2. CASE k = m + 1  BY <3>2, <1>5, <1>6
    <3>3. QED  BY <3>1, <3>2, <1>7
  <2>2. 0 \in 0 .. NodeSize  BY SizeAssumption DEF T!SizeAssumption
  <2>3. QED  BY <2>1, <2>2, <1>1, <1>2, <1>6 DEF StackTyped
<1>9. Sorted'
  <2>1. InLine(T!Below[0], Precedence, m, Owing, T!Below[reading], printed)
    BY <1>1, <1>5 DEF Sorted, Coming
  <2>2. PICK Q : Q = Owing'  OBVIOUS
  <2>3. Q = [k \in 1 .. m + 1 |-> Owed(file, T!Below, tree'[k])]  BY <2>2, <1>2, <1>6 DEF Owing
  <2>4. Q[m + 1] = T!Below[reading]
    <3>1. Q[m + 1] = Owed(file, T!Below, e)  BY <2>3, <1>5, <1>6
    <3>2. file[reading].right = 0 \/ file[reading].right > 0
      <4>1. PICK n \in Nat : T!Node = 0 .. n - 1  BY NodeFacts
      <4>2. QED  BY <4>1, <1>3
    <3>3. Owed(file, T!Below, e) = {reading} \cup Part(T!Below, file[reading].left)
                                             \cup Part(T!Below, file[reading].right)
      BY <3>2 DEF Owed, Part
    <3>4. QED  BY <3>1, <3>3, <1>3, BelowIs
  <2>5. \A k \in 1 .. m : Q[k] = Owing[k]  BY <2>3, <1>5, <1>6 DEF Owing
  <2>6. InLine(T!Below[0], Precedence, m + 1, Q, {}, printed)  BY <2>1, <2>4, <2>5, LinePush
  <2>7. Coming' = {}  BY <1>1 DEF Coming, T!None
  <2>8. QED  BY <2>2, <2>6, <2>7, <1>1, <1>2, <1>6 DEF Sorted
<1>10. StackLow'
  <2>1. ASSUME NEW k \in 1 .. m + 1  PROVE k - 1 + T!Height[tree'[k].key] <= T!Height[0]
    <3>1. CASE k \in 1 .. m  BY <3>1, <1>5, <1>6 DEF StackLow
    <3>2. CASE k = m + 1
      <4>1. m + T!Height[reading] <= T!Height[0] /\ k - 1 = m  BY <3>2, <1>1, <1>5 DEF StackLow
      <4>2. QED  BY <4>1, <3>2, <1>6
    <3>3. QED  BY <3>1, <3>2, <1>7
  <2>2. QED  BY <2>1, <1>1, <1>2, <1>6 DEF StackLow, T!None
<1>11. ReadsCounted'
  <2>1. PICK p \in Nat : p = Len(printed)  BY DEF StackTyped
  <2>2. reads >= least \/ reads >= p + m + 1
    <3>1. totalRead # 0  BY <1>1, SizeAssumption DEF T!SizeAssumption
    <3>2. QED  BY <2>1, <3>1, <1>5 DEF ReadsCounted
  <2>3. p + (m + 1) + 0 = p + m + 1  BY <1>5
  <2>4. QED  BY <2>1, <2>2, <2>3, <1>1, <1>2, <1>6 DEF ReadsCounted
<1>12. ReaderRight'  BY <1>1 DEF ReaderRight
<1>13. QED  BY <1>8, <1>9, <1>10, <1>11, <1>12
-----------------------------------------------------------------------------
(* The top of the stack: its node, and what is owed for it.                *)
LEMMA TopFacts ==
  ASSUME Whole, StackTyped, Sorted, tree # <<>>, reading = T!None, NEW m, m = Len(tree)
  PROVE  /\ m \in Nat /\ m >= 1 /\ T!Top = tree[m] /\ tree[m] \in Entry
         /\ tree[m].key \in T!Node /\ tree[m].left = file[tree[m].key].left
         /\ tree[m].left \in T!Node /\ tree[m].right \in {-1, file[tree[m].key].right}
         /\ file[tree[m].key].right \in T!Node
         /\ InLine(T!Below[0], Precedence, m, Owing, {}, printed)
         /\ Owing[m] = Owed(file, T!Below, tree[m]) /\ Owing[m] \subseteq T!Below[0]
<1>1. tree \in Seq(Entry) /\ m \in Nat /\ m >= 1  BY DEF StackTyped
<1>2. m \in 1 .. m /\ tree[m] \in Entry /\ T!Top = tree[m]  BY <1>1 DEF T!Top
<1>3. /\ tree[m].left = file[tree[m].key].left
      /\ tree[m].right \in {-1, file[tree[m].key].right}
  BY <1>2 DEF StackTyped
<1>4. tree[m].key \in T!Node /\ tree[m].left \in T!Node /\ file[tree[m].key].right \in T!Node
  BY <1>2, <1>3 DEF Entry, Whole
<1>5. InLine(T!Below[0], Precedence, m, Owing, {}, printed)  BY DEF Sorted, Coming
<1>6. Owing[m] = Owed(file, T!Below, tree[m])  BY <1>2 DEF Owing
<1>7. Owing[m] \subseteq T!Below[0]  BY <1>2, <1>5 DEF InLine
<1>8. QED  BY <1>1, <1>2, <1>3, <1>4, <1>5, <1>6, <1>7

LEMMA GoRightStep ==
  ASSUME Whole, StackTyped, Sorted, StackLow, ReadsCounted, ReaderRight, T!GoRight
  PROVE  StackTyped' /\ Sorted' /\ StackLow' /\ ReadsCounted' /\ ReaderRight'
<1>1. /\ rpc = "run" /\ reading = T!None /\ tree # <<>> /\ T!Top.right > 0
      /\ reading' = T!Top.right /\ tree' = [tree EXCEPT ![Len(tree)].right = -1]
      /\ UNCHANGED T!inputs /\ totalRead' = totalRead /\ printed' = printed /\ reads' = reads
      /\ rpc' = rpc
  BY DEF T!GoRight, T!Idle
<1>2. /\ least' = least /\ file' = file /\ T!Node' = T!Node /\ Entry' = Entry /\ T!Below' = T!Below
      /\ T!Height' = T!Height /\ Precedence' = Precedence
  BY <1>1, FileStays
<1>3. PICK m : m = Len(tree)  OBVIOUS
<1>4. PICK i, c : i = tree[m].key /\ c = file[i].right  OBVIOUS
<1>5. /\ m \in Nat /\ m >= 1 /\ tree[m] \in Entry /\ i \in T!Node /\ c \in T!Node
      /\ tree[m].left = file[i].left /\ tree[m].right \in {-1, c}
      /\ InLine(T!Below[0], Precedence, m, Owing, {}, printed)
      /\ Owing[m] = Owed(file, T!Below, tree[m]) /\ Owing[m] \subseteq T!Below[0]
  BY <1>1, <1>3, <1>4, TopFacts
<1>6. T!Top.right = c /\ c > 0 /\ tree[m].right = c /\ reading' = c
  BY <1>1, <1>3, <1>4, <1>5, TopFacts
<1>7. PICK e : e = [tree[m] EXCEPT !.right = -1]  OBVIOUS
<1>8. e \in Entry /\ e.key = i /\ e.left = file[i].left /\ e.right = -1
  BY <1>4, <1>5, <1>7 DEF Entry
<1>9. tree \in Seq(Entry)  BY DEF StackTyped
<1>10. /\ tree' \in Seq(Entry) /\ Len(tree') = m /\ tree'[m] = e
       /\ \A k \in 1 .. m - 1 : tree'[k] = tree[k]
  <2>1. tree' = [tree EXCEPT ![m] = e]  BY <1>1, <1>3, <1>7
  <2>2. QED  BY <2>1, <1>3, <1>5, <1>8, <1>9
<1>11. \A k \in 1 .. m : k \in 1 .. m - 1 \/ k = m  BY <1>5
<1>12. c # T!None
  <2>1. PICK n \in Nat : T!Node = 0 .. n - 1 /\ n <= MaxNodes  BY NodeFacts
  <2>2. QED  BY <2>1, <1>5, SizeAssumption DEF T!None, T!SizeAssumption
<1>13. StackTyped'
  <2>1. ASSUME NEW k \in 1 .. m
        PROVE  /\ tree'[k].left = file[tree'[k].key].left
               /\ tree'[k].right \in {-1, file[tree'[k].key].right} /\ tree'[k].right = -1
    <3>1. CASE k \in 1 .. m - 1
      <4>1. k \in 1 .. m /\ k < m  BY <3>1, <1>5
      <4>2. QED  BY <4>1, <3>1, <1>3, <1>10 DEF StackTyped
    <3>2. CASE k = m  BY <3>2, <1>8, <1>10
    <3>3. QED  BY <3>1, <3>2, <1>11
  <2>2. reading' \in T!Node /\ reading' # T!None  BY <1>5, <1>6, <1>12
  <2>3. QED  BY <2>1, <2>2, <1>1, <1>2, <1>10 DEF StackTyped, T!None
<1>14. Sorted'
  <2>1. PICK X, Y : X = T!Below[c] /\ Y = {i} \cup Part(T!Below, file[i].left)  OBVIOUS
  <2>2. Owing[m] = X \cup Y
    <3>1. file[i].right = c /\ tree[m].key = i /\ tree[m].right > 0 /\ c # 0  BY <1>4, <1>5, <1>6
    <3>2. Part(T!Below, c) = X  BY <2>1, <3>1 DEF Part
    <3>3. Owing[m] = ({i} \cup Part(T!Below, file[i].left)) \cup Part(T!Below, c)
      BY Zenon, <1>5, <3>1 DEF Owed
    <3>4. QED  BY <2>1, <3>2, <3>3
  <2>3. ASSUME NEW x \in X, NEW y \in Y  PROVE <<x, y>> \in Precedence
    <3>1. i \in T!Below[0] /\ x \in T!Below[0] /\ y \in T!Below[0]  BY <2>1, <2>2, <1>5
    <3>2. CASE y = i  BY <3>1, <3>2, <2>1, <1>4, <1>6 DEF Precedence, T!Before
    <3>3. CASE y \in Part(T!Below, file[i].left)
      <4>1. file[i].left # 0 /\ y \in T!Below[file[i].left]  BY <3>3 DEF Part
      <4>2. file[i].right # 0 /\ x \in T!Below[file[i].right]  BY <2>1, <1>4, <1>6
      <4>3. T!Before(x, y)  BY <4>1, <4>2, <3>1 DEF T!Before
      <4>4. QED  BY <4>3, <3>1 DEF Precedence
    <3>4. QED  BY <3>2, <3>3, <2>1
  <2>4. PICK Q : Q = Owing'  OBVIOUS
  <2>5. Q = [k \in 1 .. m |-> Owed(file, T!Below, tree'[k])]  BY <2>4, <1>2, <1>10 DEF Owing
  <2>6. Q[m] = Y
    <3>1. Q[m] = Owed(file, T!Below, e)  BY <2>5, <1>5, <1>10
    <3>2. QED  BY <3>1, <2>1, <1>8 DEF Owed
  <2>7. \A k \in 1 .. m - 1 : Q[k] = Owing[k]  BY <2>5, <1>3, <1>5, <1>10 DEF Owing
  <2>8. InLine(T!Below[0], Precedence, m, Q, X, printed)
    BY <2>2, <2>3, <2>6, <2>7, <1>5, LineSplit
  <2>9. Coming' = X  BY <2>1, <1>2, <1>6, <1>12 DEF Coming, T!None
  <2>10. QED  BY <2>4, <2>8, <2>9, <1>1, <1>2, <1>10 DEF Sorted
<1>15. StackLow'
  <2>1. ASSUME NEW k \in 1 .. m  PROVE k - 1 + T!Height[tree'[k].key] <= T!Height[0]
    <3>1. tree'[k].key = tree[k].key  BY <1>4, <1>8, <1>10, <1>11
    <3>2. QED  BY <3>1, <1>3 DEF StackLow
  <2>2. m + T!Height[c] <= T!Height[0]
    <3>1. m - 1 + T!Height[i] <= T!Height[0]  BY <1>3, <1>4, <1>5 DEF StackLow
    <3>2. 0 \in T!Node
      <4>1. PICK n \in Nat : n >= 1 /\ T!Node = 0 .. n - 1  BY NodeFacts
      <4>2. QED  BY <4>1
    <3>3. T!Height[c] < T!Height[i]  BY <1>4, <1>5, <1>6, HeightIs
    <3>4. T!Height[c] \in Nat /\ T!Height[i] \in Nat /\ T!Height[0] \in Nat  BY <3>2, <1>5, HeightIs
    <3>5. PICK x, y, z : x = T!Height[c] /\ y = T!Height[i] /\ z = T!Height[0]  OBVIOUS
    <3>6. x \in Nat /\ y \in Nat /\ z \in Nat /\ m - 1 + y <= z /\ x < y  BY <3>1, <3>3, <3>4, <3>5
    <3>7. m + x <= z  BY <3>6, <1>5
    <3>8. QED  BY <3>5, <3>7
  <2>3. QED  BY <2>1, <2>2, <1>2, <1>6, <1>10 DEF StackLow, T!None
<1>16. ReadsCounted'  BY <1>1, <1>2, <1>3, <1>10 DEF ReadsCounted
<1>17. ReaderRight'  BY <1>1 DEF ReaderRight
<1>18. QED  BY <1>13, <1>14, <1>15, <1>16, <1>17

LEMMA PrintStep ==
  ASSUME Whole, StackTyped, Sorted, StackLow, ReadsCounted, ReaderRight, T!PrintNode
  PROVE  StackTyped' /\ Sorted' /\ StackLow' /\ ReadsCounted' /\ ReaderRight'
<1>1. /\ rpc = "run" /\ reading = T!None /\ tree # <<>> /\ T!Top.right <= 0
      /\ printed' = Append(printed, T!Top.key) /\ tree' = T!Popped
      /\ reading' = (IF T!Top.left # 0 THEN T!Top.left ELSE T!None)
      /\ UNCHANGED T!inputs /\ totalRead' = totalRead /\ reads' = reads /\ rpc' = rpc
  BY DEF T!PrintNode, T!Idle
<1>2. /\ least' = least /\ file' = file /\ T!Node' = T!Node /\ Entry' = Entry /\ T!Below' = T!Below
      /\ T!Height' = T!Height /\ Precedence' = Precedence
  BY <1>1, FileStays
<1>3. PICK m : m = Len(tree)  OBVIOUS
<1>4. PICK i, c : i = tree[m].key /\ c = tree[m].left  OBVIOUS
<1>5. /\ m \in Nat /\ m >= 1 /\ tree[m] \in Entry /\ i \in T!Node /\ c \in T!Node
      /\ c = file[i].left /\ tree[m].right \in {-1, file[i].right} /\ T!Top = tree[m]
      /\ InLine(T!Below[0], Precedence, m, Owing, {}, printed)
      /\ Owing[m] = Owed(file, T!Below, tree[m]) /\ Owing[m] \subseteq T!Below[0]
  BY <1>1, <1>3, <1>4, TopFacts
<1>6. PICK n \in Nat : n >= 1 /\ T!Node = 0 .. n - 1 /\ n <= MaxNodes  BY NodeFacts
<1>7. c # T!None /\ 0 \in T!Node  BY <1>5, <1>6, SizeAssumption DEF T!None, T!SizeAssumption
<1>8. tree \in Seq(Entry) /\ printed \in Seq(T!Node)  BY DEF StackTyped
<1>9. m - 1 \in Nat /\ m - 1 \in 0 .. m  BY <1>5
<1>10. /\ tree' \in Seq(Entry) /\ Len(tree') = m - 1
       /\ \A k \in 1 .. m - 1 : tree'[k] = tree[k] /\ k \in 1 .. m /\ k < m
  BY <1>1, <1>3, <1>8, <1>9 DEF T!Popped
<1>11. /\ printed' = Append(printed, i) /\ reading' = (IF c # 0 THEN c ELSE T!None)
       /\ printed' \in Seq(T!Node)
  <2>1. T!Top.key = i /\ T!Top.left = c  BY <1>4, <1>5
  <2>2. printed' = Append(printed, i) /\ reading' = (IF c # 0 THEN c ELSE T!None)  BY <2>1, <1>1
  <2>3. PICK E : E = T!Node  OBVIOUS
  <2>4. printed \in Seq(E) /\ i \in E  BY <2>3, <1>5, <1>8
  <2>5. Append(printed, i) \in Seq(E)  BY <2>4
  <2>6. QED  BY <2>2, <2>3, <2>5
<1>12. StackTyped'
  <2>1. ASSUME NEW k \in 1 .. m - 1
        PROVE  /\ tree'[k].left = file[tree'[k].key].left
               /\ tree'[k].right \in {-1, file[tree'[k].key].right} /\ tree'[k].right = -1
    BY <1>3, <1>10 DEF StackTyped
  <2>2. reading' \in T!Node \cup {T!None}  BY <1>5, <1>11
  <2>3. totalRead = 0  BY <1>1 DEF StackTyped
  <2>4. QED  BY <2>1, <2>2, <2>3, <1>1, <1>2, <1>10, <1>11 DEF StackTyped, T!None
<1>13. Sorted'
  <2>1. PICK Y : Y = Part(T!Below, c)  OBVIOUS
  <2>2. Owing[m] = {i} \cup Y
    <3>1. ~(tree[m].right > 0)
      <4>1. tree[m].right \in Int  BY <1>5, <1>6 DEF Entry
      <4>2. QED  BY <4>1, <1>1, <1>5
    <3>2. QED  BY <3>1, <2>1, <1>4, <1>5 DEF Owed
  <2>3. ASSUME NEW y \in Y  PROVE <<i, y>> \in Precedence
    <3>1. i \in T!Below[0] /\ y \in T!Below[0]  BY <2>2, <1>5
    <3>2. file[i].left # 0 /\ y \in T!Below[file[i].left]  BY <2>1, <1>5 DEF Part
    <3>3. T!Before(i, y)  BY <3>1, <3>2 DEF T!Before
    <3>4. QED  BY <3>1, <3>3 DEF Precedence
  <2>4. PICK Q : Q = Owing'  OBVIOUS
  <2>5. Q = [k \in 1 .. m - 1 |-> Owed(file, T!Below, tree'[k])]  BY <2>4, <1>2, <1>10 DEF Owing
  <2>6. \A k \in 1 .. m - 1 : Q[k] = Owing[k]  BY <2>5, <1>3, <1>10 DEF Owing
  <2>7. InLine(T!Below[0], Precedence, m - 1, Q, Y, Append(printed, i))
    BY <2>2, <2>3, <2>6, <1>5, <1>8, LinePrint
  <2>8. Coming' = Y  BY <2>1, <1>2, <1>7, <1>11 DEF Coming, Part, T!None
  <2>9. QED  BY <2>4, <2>7, <2>8, <1>2, <1>10, <1>11 DEF Sorted
<1>14. StackLow'
  <2>1. ASSUME NEW k \in 1 .. m - 1  PROVE k - 1 + T!Height[tree'[k].key] <= T!Height[0]
    BY <1>3, <1>10 DEF StackLow
  <2>2. ASSUME c # 0  PROVE m - 1 + T!Height[c] <= T!Height[0]
    <3>1. m - 1 + T!Height[i] <= T!Height[0]  BY <1>3, <1>4, <1>5 DEF StackLow
    <3>2. T!Height[c] < T!Height[i]  BY <2>2, <1>5, HeightIs
    <3>3. T!Height[c] \in Nat /\ T!Height[i] \in Nat /\ T!Height[0] \in Nat  BY <1>5, <1>7, HeightIs
    <3>4. PICK x, y, z : x = T!Height[c] /\ y = T!Height[i] /\ z = T!Height[0]  OBVIOUS
    <3>5. x \in Nat /\ y \in Nat /\ z \in Nat /\ m - 1 + y <= z /\ x < y  BY <3>1, <3>2, <3>3, <3>4
    <3>6. m - 1 + x <= z  BY <3>5, <1>5
    <3>7. QED  BY <3>4, <3>6
  <2>3. QED  BY <2>1, <2>2, <1>2, <1>10, <1>11 DEF StackLow, T!None
<1>15. ReadsCounted'
  <2>1. PICK p \in Nat : p = Len(printed)  BY <1>8
  <2>2. Len(printed') = p + 1  BY <2>1, <1>8, <1>11
  <2>3. p + 1 + (m - 1) = p + m  BY <2>1, <1>5
  <2>4. QED  BY <2>1, <2>2, <2>3, <1>1, <1>2, <1>3, <1>10 DEF ReadsCounted
<1>16. ReaderRight'  BY <1>1 DEF ReaderRight
<1>17. QED  BY <1>12, <1>13, <1>14, <1>15, <1>16

LEMMA OtherStep ==
  ASSUME Whole, StackTyped, Sorted, StackLow, ReadsCounted, ReaderRight,
         T!Return \/ UNCHANGED T!treeVars
  PROVE  StackTyped' /\ Sorted' /\ StackLow' /\ ReadsCounted' /\ ReaderRight'
<1>1. UNCHANGED T!inputs /\ UNCHANGED <<tree, reading, totalRead, printed, reads>>
  BY DEF T!Return, T!treeVars
<1>2. /\ least' = least /\ file' = file /\ T!Node' = T!Node /\ Entry' = Entry /\ T!Below' = T!Below
      /\ T!Height' = T!Height /\ Precedence' = Precedence
  BY <1>1, FileStays
<1>3. StackTyped'  BY <1>1, <1>2 DEF StackTyped, T!None
<1>4. Sorted'
  <2>1. Owing' = Owing /\ Coming' = Coming  BY <1>1, <1>2 DEF Owing, Coming, T!None
  <2>2. QED  BY <2>1, <1>1, <1>2 DEF Sorted
<1>5. StackLow' /\ ReadsCounted'  BY <1>1, <1>2 DEF StackLow, ReadsCounted, T!None
<1>6. ReaderRight'
  <2>1. CASE T!Return
    <3>1. tree = <<>> /\ reading = T!None /\ rpc' = (IF reads >= least THEN "exit 0" ELSE "abort")
      BY <2>1, <1>1, <1>2 DEF T!Return, T!Idle, T!Exit
    <3>2. reads \in Nat /\ least \in Nat  BY DEF StackTyped
    <3>3. tree' = <<>> /\ reading' = T!None' /\ reads' = reads /\ least' = least
      BY <3>1, <1>1, <1>2 DEF T!None
    <3>4. CASE reads >= least
      <4>1. rpc' = "exit 0"  BY <3>1, <3>4
      <4>2. QED  BY <3>3, <4>1 DEF ReaderRight
    <3>5. CASE ~(reads >= least)
      <4>1. rpc' = "abort"  BY <3>1, <3>5
      <4>2. reads < least  BY <3>2, <3>5
      <4>3. QED  BY <3>3, <4>1, <4>2 DEF ReaderRight
    <3>6. QED  BY <3>4, <3>5
  <2>2. CASE UNCHANGED T!treeVars  BY <2>2, <1>1, <1>2 DEF T!treeVars, ReaderRight, T!None
  <2>3. QED  BY <2>1, <2>2
<1>7. QED  BY <1>3, <1>4, <1>5, <1>6

LEMMA TreeStep == TreeInv /\ [T!Next]_(T!treeVars) => TreeInv'
<1> SUFFICES ASSUME TreeInv, [T!Next]_(T!treeVars), T!IsTree'  PROVE TreeInv'  BY DEF TreeInv
<1>1. UNCHANGED T!inputs
  BY DEF T!Next, T!Push, T!GoRight, T!PrintNode, T!Return, T!PRead, T!Call, T!treeVars
<1>2. T!IsTree /\ (Whole => Whole')  BY <1>1, FileStays
<1>3. Whole /\ StackTyped /\ Sorted /\ StackLow /\ ReadsCounted /\ ReaderRight  BY <1>2 DEF TreeInv
<1>4. StackTyped' /\ Sorted' /\ StackLow' /\ ReadsCounted' /\ ReaderRight'
  BY <1>2, <1>3, PReadStep, PushStep, GoRightStep, PrintStep, OtherStep DEF T!Next
<1>5. QED  BY <1>2, <1>3, <1>4 DEF TreeInv

LEMMA TreeInvImplies == TreeInv => TreePrinted
<1> SUFFICES ASSUME Whole, StackTyped, Sorted, StackLow, ReadsCounted, ReaderRight
             PROVE  T!TreePrinted
  BY DEF TreeInv, TreePrinted, T!TreePrinted
<1>1. ASSUME rpc # "run"  PROVE T!Below[0] = Elems(printed) /\ tree = <<>> /\ reading = T!None
  <2>1. tree = <<>> /\ reading = T!None  BY <1>1 DEF ReaderRight
  <2>2. Coming = {} /\ 1 .. Len(tree) = {}  BY <2>1 DEF Coming
  <2>3. QED  BY <2>1, <2>2 DEF Sorted, InLine
<1>2. ASSUME rpc = "abort"  PROVE T!Cardinality(T!Below[0]) < least
  <2>1. PICK p \in Nat : p = Len(printed) /\ DOMAIN printed = 1 .. p  BY DEF StackTyped
  <2>2. printed \in Surjection(1 .. p, Elems(printed))
    <3>1. printed \in [1 .. p -> Elems(printed)]  BY <2>1 DEF Elems, StackTyped
    <3>2. \A x \in Elems(printed) : \E j \in 1 .. p : printed[j] = x  BY <2>1 DEF Elems
    <3>3. QED  BY <3>1, <3>2 DEF Surjection
  <2>3. ExistsSurjection(1 .. p, Elems(printed))  BY <2>2 DEF ExistsSurjection
  <2>4. Cardinality(Elems(printed)) <= p /\ IsFiniteSet(Elems(printed))
    BY <2>3, FS_SurjCardinalityBound, FS_NatSurjection
  <2>5. p < least
    <3>1. tree = <<>> /\ totalRead = 0 /\ reads < least /\ reads \in Nat /\ least \in Nat
      BY <1>1, <1>2 DEF ReaderRight, StackTyped
    <3>2. Len(tree) = 0 /\ reads >= p + 0 + 0  BY <3>1, <2>1 DEF ReadsCounted
    <3>3. QED  BY <3>1, <3>2
  <2>6. T!Cardinality(T!Below[0]) = Cardinality(Elems(printed))
    BY <1>1, <1>2 DEF T!Cardinality, Cardinality
  <2>7. Cardinality(Elems(printed)) \in Nat /\ least \in Nat
    BY <2>4, FS_CardinalityType DEF StackTyped
  <2>8. QED  BY <2>4, <2>5, <2>6, <2>7
<1>3. Len(tree) <= T!Height[0]
  <2>1. PICK n \in Nat : n >= 1 /\ T!Node = 0 .. n - 1  BY NodeFacts
  <2>2. PICK m \in Nat : m = Len(tree)  BY DEF StackTyped
  <2>3. T!Height[0] \in Nat  BY <2>1, HeightIs
  <2>4. CASE m = 0  BY <2>2, <2>3, <2>4
  <2>5. CASE m # 0
    <3>1. m \in 1 .. m /\ tree[m].key \in T!Node
      <4>1. m \in 1 .. m  BY <2>5
      <4>2. tree \in Seq(Entry)  BY DEF StackTyped
      <4>3. tree[m] \in Entry  BY <4>1, <4>2, <2>2
      <4>4. QED  BY <4>1, <4>3 DEF Entry
    <3>2. m - 1 + T!Height[tree[m].key] <= T!Height[0]  BY <2>2, <3>1 DEF StackLow
    <3>3. T!Height[tree[m].key] \in Nat /\ T!Height[tree[m].key] >= 1  BY <3>1, HeightIs
    <3>4. QED  BY <2>2, <2>3, <3>2, <3>3
  <2>6. QED  BY <2>4, <2>5
<1>4. ASSUME NEW j \in DOMAIN printed, NEW k \in DOMAIN printed, j < k
      PROVE  T!Before(printed[j], printed[k])
  <2>1. <<printed[j], printed[k]>> \in Precedence  BY <1>4 DEF Sorted, InLine
  <2>2. QED  BY <2>1 DEF Precedence
<1>5. ASSUME rpc = "exit 0"  PROVE {printed[j] : j \in DOMAIN printed} = T!Below[0]
  BY <1>1, <1>5 DEF Elems
<1>6. rpc # "exit 1"  BY DEF ReaderRight
<1>7. QED  BY <1>2, <1>3, <1>4, <1>5, <1>6 DEF T!TreePrinted

LEMMA RunsTree == AllSpec => ((T!Input \/ NoTree) /\ T!Start) /\ [][T!Next]_(T!treeVars)
<1>1. AllInit => (T!Input \/ NoTree) /\ T!Start  BY DEF AllInit
<1>2. [AllNext]_allVars => [T!Next]_(T!treeVars)
  <2>1. UNCHANGED treeVars => UNCHANGED T!treeVars  BY DEF treeVars, T!treeVars, T!inputs
  <2>2. QED  BY <2>1 DEF AllNext, allVars, Tests, Reader, Root
<1>3. QED  BY <1>1, <1>2, PTL DEF AllSpec

(* binary-tree prints every node of a tree, each behind those to the right *)
(* of it, with a stack no deeper than the tree, for trees and nodes of any *)
(* size and however the reads are cut; it fails only where too few reads   *)
(* were made.                                                              *)
THEOREM TreesArePrinted == AllSpec => []TreePrinted
<1>1. TreeInv => TreePrinted  BY TreeInvImplies
<1>2. QED  BY <1>1, TreeInit, TreeStep, RunsTree, PTL
=============================================================================
