----------------------------- MODULE MCWaiting -----------------------------
(***************************************************************************)
(* Programs whose parts wait for each other: philosophers for forks, the   *)
(* connections of the chat interactor at barriers, and test.py for what it *)
(* has started.  Each is checked by the behaviours that are about it: use  *)
(* says which.                                                             *)
(***************************************************************************)
EXTENDS Philosophers

CONSTANTS
  Client, Method, MaxLines,        \* of ChatSession
  Tests, Rounds, Attempts, Proc    \* of TestPy

VARIABLES
  use,
  lines, known, queue, latches, cur, started, writer_closed, reader_closed, done,
  status, mpc, server, bad,
  checker, interactor, lenient, pipeline, at, rpc, sums, ans, cwd, ok, res, iok,
  state, parent, earned

C == INSTANCE ChatSession
R == INSTANCE TestPy WITH pc <- rpc

chatVars ==
  <<lines, known, queue, latches, cur, started, writer_closed, reader_closed, done,
    status, mpc, server, bad>>
runnerVars ==
  <<checker, interactor, lenient, pipeline, at, rpc, sums, ans, cwd, ok, res, iok,
    state, parent, earned>>
allVars == <<use, vars, chatVars, runnerVars>>

NoRunner == checker = "cmp" /\ interactor = FALSE /\ lenient = FALSE /\ pipeline = FALSE

AllInit ==
  /\ \/ use \in {"table", "chat"} /\ NoRunner
     \/ use = "runner" /\ R!Input
  /\ Init /\ C!Init /\ R!Start

Table(A) == use = "table" /\ A /\ UNCHANGED <<use, chatVars, runnerVars>>
Chat(A) == use = "chat" /\ A /\ UNCHANGED <<use, vars, runnerVars>>
Runner(A) == use = "runner" /\ A /\ UNCHANGED <<use, vars, chatVars>>

AllNext == Table(Next) \/ Chat(C!Next) \/ Runner(R!Next)

AllSpec ==
  /\ AllInit /\ [][AllNext]_allVars
  /\ \A i \in Guests : WF_allVars(Table(Philosopher(i))) /\ WF_allVars(Table(Expire(i)))
  /\ WF_allVars(Table(Join))
  /\ WF_allVars(Chat(C!Main)) /\ WF_allVars(Chat(server = "term" /\ C!ServerEnds))
  /\ \A c \in Client : WF_allVars(Chat(C!Connection(c)))
  /\ WF_allVars(Runner(R!Runner)) /\ \A x \in R!All : WF_allVars(Runner(R!Exit(x)))

ASSUME ChatAssumption == C!MethodAssumption /\ C!BoundsAssumption
ASSUME RunnerAssumption == R!BoundsAssumption /\ R!NamesAssumption

-----------------------------------------------------------------------------
(* The chat interactor: what is below a barrier waits for all above it,    *)
(* and the verdict is what the server has deserved.                        *)
ChatRight == C!TypeOK /\ C!BarrierKept /\ C!VerdictDeserved

(* test.py: tests are passed only by runs that deserve it, and leave no    *)
(* process behind.                                                         *)
PassIsEarned == R!TypeOK /\ R!PassIsEarned /\ R!NobodyLeft

(* Nobody waits for ever, but at a full table where all hold a fork each,  *)
(* and at a barrier before the first connection.                           *)
WaitingEnds ==
  /\ use = "table" => HomeOrFullCircle
  /\ use = "chat" => C!ChatEnds
  /\ use = "runner" => R!RunnerEnds
=============================================================================
