----------------------------- MODULE ForkedRun -----------------------------
(***************************************************************************)
(* RunTestsForked (common/catch/ut_main.cpp): how the unit tests run in    *)
(* CI.  A child runs the Catch session and reports its result through a    *)
(* pipe; the parent believes an exit code of 0 only if a report came with  *)
(* it, since solutions may call exit(0).  The tests themselves fork: such  *)
(* a grandchild has the write end too, and if it comes back from the       *)
(* session instead of exiting it goes on as a second child.  A report is   *)
(* below PIPE_BUF, so the pipe holds whole reports.                        *)
(***************************************************************************)
EXTENDS Naturals, Sequences, FiniteSets

CONSTANTS
  Grandchild,   \* the processes forked by the tests and not waited for
  Code          \* what a session, or exit, can be called with

ASSUME CodeAssumption == Code \subseteq Nat /\ 0 \in Code
ASSUME GrandchildAssumption == IsFiniteSet(Grandchild) /\ "child" \notin Grandchild

Tester == Grandchild \cup {"child"}

VARIABLES
  pc,       \* "unborn", "session", "report", "exiting", "exited", "killed"
  code,     \* return_code of a session that is over, or the code of exit
  ran,      \* the processes whose session has come to its end
  pipe,     \* the reports written and not read
  parent,   \* "wait", "read", "returned" or "died"
  ret       \* what main returns, when the parent has returned

vars == <<pc, code, ran, pipe, parent, ret>>

Init ==
  /\ pc = [p \in Tester |-> IF p = "child" THEN "session" ELSE "unborn"]
  /\ code = [p \in Tester |-> 0]
  /\ ran = {}
  /\ pipe = <<>>
  /\ parent = "wait" /\ ret = 0

-----------------------------------------------------------------------------
Alive(p) == pc[p] \in {"session", "report", "exiting"}

(* CLOEXEC closes the write end of a grandchild that calls exec: for the   *)
(* pipe it is then as good as gone.                                        *)
Writers == {p \in Tester : Alive(p)}

Goto(p, from, to) == pc[p] = from /\ pc' = [pc EXCEPT ![p] = to]

Fork(p, g) ==
  /\ pc[p] = "session" /\ Goto(g, "unborn", "session")
  /\ UNCHANGED <<code, ran, pipe, parent, ret>>

(* Fault: the report is forgotten.                                         *)
EndSilently(p, c) ==
  /\ Goto(p, "session", "exiting")
  /\ code' = [code EXCEPT ![p] = c]
  /\ ran' = ran \cup {p}
  /\ UNCHANGED <<pipe, parent, ret>>

(* RunTestsImpl returns.                                                   *)
EndSession(p, c) ==
  /\ Goto(p, "session", "report")
  /\ code' = [code EXCEPT ![p] = c]
  /\ ran' = ran \cup {p}
  /\ UNCHANGED <<pipe, parent, ret>>

(* Somebody calls exit in the middle of a test.                            *)
Exit(p, c) ==
  /\ Goto(p, "session", "exiting")
  /\ code' = [code EXCEPT ![p] = c]
  /\ UNCHANGED <<ran, pipe, parent, ret>>

WriteReport(p) ==
  /\ Goto(p, "report", "exiting")
  /\ pipe' = Append(pipe, code[p])
  /\ UNCHANGED <<code, ran, parent, ret>>

Leave(p) ==
  /\ Goto(p, "exiting", "exited")
  /\ UNCHANGED <<code, ran, pipe, parent, ret>>

(* A signal: a crash in the tests, an assert, the memory limit.            *)
Kill(p) ==
  /\ Alive(p) /\ pc' = [pc EXCEPT ![p] = "killed"]
  /\ UNCHANGED <<code, ran, pipe, parent, ret>>

(* Fault: the exit code is believed whatever it is.                        *)
BelieveExitCode ==
  /\ parent = "wait" /\ pc["child"] = "exited"
  /\ parent' = "returned" /\ ret' = code["child"]
  /\ UNCHANGED <<pc, code, ran, pipe>>

(* waitpid returns: the signal is raised again, a code other than 0 is     *)
(* passed on.                                                              *)
WaitKilled ==
  /\ parent = "wait" /\ pc["child"] = "killed"
  /\ parent' = "died"
  /\ UNCHANGED <<pc, code, ran, pipe, ret>>

WaitExited ==
  /\ parent = "wait" /\ pc["child"] = "exited"
  /\ IF code["child"] # 0 THEN parent' = "returned" /\ ret' = code["child"]
     ELSE parent' = "read" /\ UNCHANGED ret
  /\ UNCHANGED <<pc, code, ran, pipe>>

(* A report is there: assert(result.return_code == exit_code).             *)
ReadReport ==
  /\ parent = "read" /\ pipe # <<>>
  /\ pipe' = Tail(pipe)
  /\ parent' = IF Head(pipe) = code["child"] THEN "returned" ELSE "died"
  /\ UNCHANGED <<pc, code, ran, ret>>

(* Fault: read returning 0 does not end the loop.                          *)
ReadOn == parent = "read" /\ pipe = <<>> /\ Writers = {} /\ UNCHANGED vars

(* End of file, no report: an error is printed and main returns 1.         *)
ReadEnd ==
  /\ parent = "read" /\ pipe = <<>> /\ Writers = {}
  /\ parent' = "returned" /\ ret' = 1
  /\ UNCHANGED <<pc, code, ran, pipe>>

Parent == WaitKilled \/ WaitExited \/ ReadReport \/ ReadEnd

Test(p) ==
  \/ WriteReport(p) \/ Leave(p) \/ Kill(p)
  \/ \E c \in Code : EndSession(p, c) \/ Exit(p, c)

Over == parent \in {"returned", "died"} /\ UNCHANGED vars

Next ==
  \/ Parent \/ Over
  \/ \E p \in Tester : Test(p) \/ \E g \in Grandchild : Fork(p, g)

Spec == Init /\ [][Next]_vars

(* The tests, and what they forked, come to an end.                        *)
FairSpec == Spec /\ WF_vars(Parent) /\ \A p \in Tester : WF_vars(Test(p))

-----------------------------------------------------------------------------
TypeOK ==
  /\ pc \in [Tester -> {"unborn", "session", "report", "exiting", "exited", "killed"}]
  /\ code \in [Tester -> Code]
  /\ ran \subseteq Tester
  /\ pipe \in Seq(Code) /\ Len(pipe) <= Cardinality(ran)
  /\ parent \in {"wait", "read", "returned", "died"}
  /\ ret \in Code \cup {1}

Passed == parent = "returned" /\ ret = 0

(* The tests pass only if a session has come to its end without a failure: *)
(* exit(0) in the middle of a test is never taken for success.             *)
PassMeansASessionPassed == Passed => \E p \in ran : code[p] = 0

(* If no grandchild comes back from the session, passing means that the    *)
(* child itself ran all the tests, and its passing is never turned into a  *)
(* failure.                                                                *)
WithoutIntruders ==
  ran \subseteq {"child"} =>
    /\ Passed => ran = {"child"}
    /\ (ran = {"child"} /\ code["child"] = 0 /\ pc["child"] = "exited") =>
          parent # "died" /\ (parent = "returned" => ret = 0)

(* The parent comes to a verdict.                                          *)
VerdictReached == <>(parent \in {"returned", "died"})

-----------------------------------------------------------------------------
(* The inductive invariant behind the safety properties: who has reported  *)
(* has ended its session, every report is some session's code, and without *)
(* intruders the pipe holds exactly the child's until it is read.          *)
Reported == {p \in ran : pc[p] # "report"}

SessionsRight ==
  /\ \A p \in ran : pc[p] \in {"report", "exiting", "exited", "killed"}
  /\ \A p \in Tester : pc[p] = "report" => p \in ran
  /\ \A i \in DOMAIN pipe : \E p \in ran : code[p] = pipe[i]
  /\ Len(pipe) <= Cardinality(Reported)

ParentRight ==
  /\ parent \in {"wait", "read"} => ret = 0
  /\ parent \in {"read", "returned"} => pc["child"] = "exited"
  /\ parent = "died" => pc["child"] \in {"exited", "killed"}
  /\ parent = "read" => code["child"] = 0

PipeRight ==
  parent \in {"wait", "read"} =>
    /\ ran = {} => pipe = <<>>
    /\ ran = {"child"} =>
         /\ pc["child"] = "report" => pipe = <<>>
         /\ pc["child"] \in {"exiting", "exited"} => pipe = <<code["child"]>>

IInv ==
  /\ TypeOK /\ SessionsRight /\ ParentRight /\ PipeRight
  /\ PassMeansASessionPassed /\ WithoutIntruders
=============================================================================
