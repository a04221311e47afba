# Verification of hse-caos-solutions

TLA+ models of the code of this repository that has state worth arguing about:
the harness of the threading tests and the main and guards of the unit tests,
the runner, checkers and interactors that judge solutions, the `xtask` tool that
publishes, checks and moves them, and the solved tasks with state of their own.
TLC checks each model on small instances; TLAPS proves their safety, all of it,
for every value of the constants that the named assumptions admit. Liveness stays
with TLC.

Line numbers refer to the files under `src/`.

## The repository

| part | where | state it keeps | what happens to it |
| --- | --- | --- | --- |
| step harness | `common/catch/utils/include/{step-,}thread-runner.hpp` | three atomics, the workers' local step, deadlines | one coordinator and any number of workers advance in lockstep until a deadline passes |
| unit test main | `common/catch/ut_main.cpp` | a pipe, a child, what the tests fork | the parent decides from exit status and report whether the tests passed |
| guards of unit tests | `common/catch/utils/src/{fd-guard,rlim-guard}.cpp` | copies of descriptors, limits to restore | taken before a test, compared or restored after it |
| fault injection | `common/glitch` | a table of hooks | system calls of a program are intercepted, fail or are cut short |
| `test.py` | `common/tools/test.py` | checksums and answers of tests, child processes | runs a solution on each test, with rounds, retries, interactors and a search for orphans |
| judge library | `common/include/nejudge` | `.inf` files as records of words, files as lines | read by the checkers and interactors of tasks |
| checkers | `tasks/*/checker.c` | what has been read of two files | compare what a program has made with what it should have |
| interactors | `tasks/11-net-sig/*/test_utils` | FIFOs, pipes, connections, latches | drive a program that a student wrote by data and signals |
| `xtask compose` | `xtask/src/compose.rs` | the output tree, statistics | a private repository is filtered, line by line and file by file, into the public one |
| `xtask test` | `xtask/src/{test,task}.rs`, `util/{manytask-api,clang-fmt}.rs` | build directories, scores on the server | format check, builds, tests, forbidden patterns, report |
| `xtask move` | `xtask/src/move.rs` | two repositories | editable files are replaced, task by task |
| `xtask` rest | `command.rs`, `play.rs`, `dispatch.rs` | none | command lines for a container, Ansible, subcommands |
| solved tasks | `tasks/01-basic-io`, `tasks/02-files`, `allocator/vector.hpp` | a list, a vector, a buffer, a table, a stack of nodes | small sequential programs and containers |
| unsolved tasks | the other `tasks/*` | - | stubs marked `TODO: remove before flight`, with their tests |

The parts meet in few places: `export_to.sh` runs compose in CI whenever the
private repository changes; `xtask test` builds a task through `task.rs` and
runs its tests, which are Catch binaries with `ut_main.cpp` as main, or
`test.py`, which starts the program, an interactor beside it and a checker after
it; the tests of the threading tasks are written on top of the step harness;
`move` and `test` share the search for editable files in `task.rs`.

What is hard in it: the memory protocol of the step harness; runs of compose,
move and test that are killed and started again over what they left; the
processes that tests fork and forget; interactors that can only guess how far
the program is; partial reads and writes; parsers written by hand over buffers
that grow; the report that is retried without knowing whether it arrived.
`PROJECT.json` lists these hazards one by one, with the line where each bites
and the properties that would catch it.

## Modules

| module | models | checked in |
| --- | --- | --- |
| `StepRunner` | `StepThreadRunner`, `ThreadRunner`; implements `StepBarrier` | `StepRunner`, `StepRunnerHang` |
| `StepBarrier` | what a threading test may assume of the harness | |
| `Philosophers` | `Table` and the threads of its stress test | `Waiting` |
| `ChatSession` | `interactor.py` of the chat task | `Waiting` |
| `TestPy` | `test.py` | `Waiting`, `InteractorIgnored` |
| `ForkedRun` | `RunTestsForked` | `Harness` |
| `Guards` | `FileDescriptorsGuard`, `RLimGuard` | `Harness` |
| `TreeReader` | the solution of binary-tree over the wrappers of its reads | `Harness` |
| `FibRoot` | the solution of fib-root | `Harness` |
| `FilesSession` | initializer, interactor and wrappers of the files task | `NetSig` |
| `IgnoreSession` | launcher, interactor and wrappers of the ignore task | `NetSig` |
| `CmdLine` | `parse_cmdline` and the `unparse` functions of `testinfo.h` | `Judge` |
| `TestInfo` | `testinfo_parse`, `testinfo_free` | `Judge` |
| `CheckerLines` | `checker_read_file_by_line`, `checker_normalize_file` | `Judge` |
| `RedirectChecker` | the checker of redirect-io in the main of `checker.h` | `Judge` |
| `LinkedList` | `List`, pointer by pointer; implements `ListSpec` | `Containers`, `LinkedListClear` |
| `ListSpec` | `CorrectList` of `list/test.cpp` | |
| `Vector` | `Vector` over `Memory`, cell by cell; implements `VectorSpec` | `Containers` |
| `VectorSpec` | the sequence a vector is, and its capacity | |
| `BufWriter` | `BufWriter` over `::write` | `Containers` |
| `ComposeSource` | `process_source` | `ComposeSource` |
| `ComposeTree`, `Trees` | `process_dir`, `process_file`, `process_symlink` | `Xtask`, `ComposeTreeLinks` |
| `MoveSolutions` | `MoveContext` and the search for editable files | `Xtask` |
| `TestTask` | `TestContext`, `build_target`, `report_score_with_retries` | `Xtask` |

`MC*.tla` give constants the values a `.cfg` cannot, and put modules together
that are checked by one run: `MCContainers`, `MCHarness`, `MCXtask`, `MCNetSig`,
`MCJudge` and `MCWaiting` EXTEND one module and instantiate others, and a
variable `use`, chosen in the initial state and never changed, says which of them a
behaviour is about; the others stay as they begin. Nothing is lost by this: the
parts share no state in the code either, so a step of one is a stutter for the
others.

`*Proofs.tla` extend a module with its theorems. The operators introduced by a
comment that begins with "Fault" are plausible mistakes in the action that
follows them; `PROJECT.json` pairs each with the property that detects it, and
no specification uses them.

### StepRunner and StepBarrier

`step_`, `step_finishes_`, `last_step_` and `running_` are the variables `step`,
`finishes`, `last` and `running`; `pc[w]` says between which two atomic
operations of `RunSteps` and `ProposeLastStep` worker `w` is, `cur[w]` is its
`cur_step` and `seen[w]` the `cur` of `ProposeLastStep`; `mpc` is the position of
the coordinator in `DoStep`. Every atomic operation is an action. Atomics are
sequentially consistent, as the default memory order of the code is. The clock
of a worker is one bit, `expired[w]`, that may be set at any moment. A worker's
function may wait for functions of the same step (`Needs`), as `Pop` waits for
`Push` and the consumer of `limbo` for its producer.

`StepBarrier` has rounds: one is opened, each worker calls its function and
returns from it once, the round is closed, and perhaps it was the last. Under the
mapping `Phase`, `Inside`, `Ran` the store of `step_` opens a round, the load
that ends a worker's spin calls the function, and everything else the harness
does is invisible.

Bounds: three workers, one of which waits for another; at most `MaxStep = 3`
calls of `DoStep`, the last of which is explored only when a worker has proposed
an end, so that no behaviour is cut in the middle of a step. `kDefaultLastStep`
is `MaxStep + 1`. Three workers are needed for two to race in `ProposeLastStep`
while a third is in another step; three steps for a proposal to arrive before,
in, and after the step it names.

Fairness: weak for each thread (an operating system runs every thread) and for
each deadline (time passes). `PromptStart` says that a worker gets to its first
`should_run()` before its deadline. It is assumed for `TestEnds`, and the run
`StepRunnerHang` shows what happens without it: the worker leaves `Run` without
ever calling its function, is still counted, and `DoStep` never returns.

### Philosophers

The table in the repository is the stub that students replace: left fork first,
then right, for everybody. `NeighboursNeverEatTogether` holds of it;
`HomeOrFullCircle`, a part of `WaitingEnds`, says exactly how far liveness goes:
with weak fairness for each philosopher, the stress test ends unless *all* seats
are taken and everybody holds the left fork. Philosophers who go home early, or a
table that is not full, cannot block. Checked for four, all of whom are guests.

### ChatSession

`interactor.py` reads its whole file before any connection's task runs, because
`put` on an unbounded queue does not suspend. That is why a latch counts the
connections known at its line, and why a connection made later waits for the last
latch only. The actions that read a line append to `queue[c]`; the actions of a
connection are its task between two suspensions; `Main` waits for the tasks, sends
SIGTERM and reads what the server still says. Whatever the server answers, sends
out of turn, resets or closes, is a free choice of each command, and `bad` remembers that
it did something wrong. `BarrierKept` says what a line of `=` is for, by the
positions in the file; `VerdictDeserved` ties the verdict to `bad`. All files of up
to four lines with two connections are run. Fairness: every task that can go on
does, and a server ends once it has SIGTERM. That includes a task that reads: the
server answers, rightly or wrongly, or closes the connection. The interactor itself
has no time limits, those of the test are around it.

### TestPy

One action is a step of an attempt in `run_solution`, or a step of the loop around
it: start the solution, wait for it or for the end of its output, look at its exit
code, its output, the file of the right answer and the time, search for orphans.
Beside it the solution and what it forks may fork, close their output, write to
any answer, and exit; `parent` is there because an orphan is handed to `test.py`.
`PassIsEarned` compares what `test.py` believes with `earned`, the tests that were
really passed; `NobodyLeft` says what the search for orphans achieves, given that
it looks only once. The fairness assumed for `RunnerEnds` is that every process ends:
the limits of the sandbox see to it for the solution. Two tests, one round, two
attempts, one forked process: an attempt can meet what an earlier one, or another
test, has left.

### ForkedRun

The child and up to two processes forked by the tests run, end their session,
exit with 0 or 1, or are killed, at any moment; a forked process that returns from
the session reports like the child, because it executes the same code. A report
is far below `PIPE_BUF`, so the pipe is a sequence of whole reports. The secret of
the report guards against forgery and is not modelled. Fairness: the tests and
what they fork end (a test that hangs is killed by the limits of CI), and the
parent goes on; `VerdictReached` rests on it, since the parent waits for the end
of the pipe.

### Guards

`table` is the descriptor table as a function to open files, `copies` the pairs of
`FileDescriptorsGuard`, `limits` the stack of `RLimGuard`s. The constructor of the
former is one action per descriptor copied; in between the code under test opens,
closes and duplicates what it likes and may close a copy, but it does not put
anything new into the slot of one: the copies are taken from the top of the table
for that reason, and code that asks for such a number is left out.
`INTERNAL_ASSERT` throws, so the constructor can end half way. `VerdictRight` says
that the comparison is exact with `kcmp` and at least counts right without it;
`GuardsCostNothing` that no copy replaces what was open and nothing is left
behind. Two files, six slots and a limit of five (2048 in `MaxFdNum`, `Most` here)
let the copies meet the limit, gaps in the table and each other.

### TreeReader

The file is a tree, cut short, or with children that are not there; the reads
of a node are cut by the wrappers at any byte, and counted by them. Every file of
up to three nodes of two bytes is run: a node can be cut in the middle and at its
ends. `TreePrinted` compares the output with the order of the tree, and the stack
with its height. Files with a cycle are left out: the program does not end on
them.

### FibRoot

The table is filled in an unsigned type until a sum wraps around (`Fill`); the
greatest number of the type then takes the place of the sum that has wrapped
(`Bound`, `solution.cpp:25`). Whether the loop stops at the first sum that wraps, and
whether the numbers before it reach far enough, depends on the width of the type:
`RootsRight` says that the table is sorted and the answers are right, and holds for
each width (`Limits` is the set of sizes tried; 2^64 in the code). Numbers are those the
task allows, and the one too great for the signed type.

### FilesSession

The interactor of the files task writes blocks to FIFOs and tells the program by
signals which one to read. It cannot see how far the program is, so it sleeps. Time
is not modelled; `raced` remembers that a sleep has ended before the program was at
rest, and the properties say what holds without (`RightSums`, `DelayCatches`) and
what holds with (`EndsOrJams`: one jam, in which both sides wait for each other, is
all that a slow machine can cause). Programs are the student's, right or wrong in
one of three ways: they do not block signals, print another PID, or quit. Two FIFOs of two
blocks each and four commands are enough to fill one, close the other and switch in
between. Fairness: every process that can go on does.

### IgnoreSession

The launcher forks program and interactor, with a pipe each way; the interactor
sends lines and signals and expects an echo. The wrappers fail one write with
`EINTR` after part of it and abort on stdio in a handler. Text is made of halves of
lines, so that any part of a line can be read. `stdinHolders` are the processes
that keep the program's input open: the program is one of them unless `O_CLOEXEC` is
set. Two right programs and three wrong ones; `OkMeansServed` for all, `RightPasses`
and `SessionEnds` under fairness of every process.

### CmdLine, TestInfo, CheckerLines, RedirectChecker

`CmdLine` is `parse_cmdline` character by character, over codes: `q` is the word
in `locbuf`, `cap` the capacity of the vector of words, 2 at first (16 in the
code) so that it grows. `InsideBuffers` says that `p`, `q` and the vector stay inside what is
allocated; `RoundTrip` that what the unparse functions write is read back. Values of
up to four characters from eleven are all run: quotes of
both kinds, escapes, octal and hex digits, the comment sign, a byte from 128; and
two words of two characters each.

`TestInfo` is what happens to a line once it is words: `WellFormed` and
`ParsedAsMeant` say what a file means without the loop, `BlocksRight` that each
block is owned by one field or freed. One field stands for each sort; every file of
up to three lines is run.

`CheckerLines` reads a file of up to five bytes of four kinds, `RedirectChecker`
judges two files read in chunks of two (512 in the code), so sizes below, at and above
multiples of it occur. Either file may be impossible to open: the output means WA,
the correct file CF (`checker.c:36`), and then nothing is judged.

`CallsEnd` is about all four: no value, file or output keeps a loop over it going.
The fairness is that of a call: whoever makes it goes on until it returns.

### LinkedList and ListSpec

The heap is a set of nodes, `left`, `right` and `value` their fields. Each method
is one action. Calls the code's preconditions forbid (popping from an empty list)
are not made, and a list is not spliced into itself. `Clear` is an action of
`SpecWithClear` only, since the repository only calls it from the destructor:
the run `LinkedListClear` shows why it cannot be called otherwise. Two lists are
enough for every method (none takes three), three nodes for a list of two and one
of one. Nodes are interchangeable, hence the symmetry.

### Vector and VectorSpec

`mem`, `idx` and `size` are the members of a vector, `cell[b]` what is in a block:
raw memory or an element. `BlocksOwnedOnce` is what manual construction and
destruction must keep: elements are alive in exactly the first `idx_` cells of
blocks that one vector owns. Under `Elements`, each method is what `VectorSpec`
says of sequences and of capacities. `PushBack`, `Resize` and `Vector(n, value)`
take a reference, which may be to an element of any vector and is read after the
space has been made: `Arguments` is what such a reference can find then, for an
element of a vector that has moved to another block whatever is left there
(`Junk`, or the element still). `VectorSpec` makes the same exception, in terms of
its own capacities: what is put into a vector that has to get more room must not
be an element of it. In every other case, elements of other vectors and of a
vector with room included, the right element arrives. Two vectors, three blocks
(one more than there are vectors, for the block that is allocated before the old
one is freed), lengths up to three and capacities up to four, so that a
reallocation doubles.

### BufWriter

Bytes are numbered in the order in which they are given to `Write`, so a lost,
doubled or misplaced byte shows. `::write` takes any positive part of what it is
offered, or fails (twice at most); `FlushArray` is one action per `::write`. With
a capacity of 3 and 8 bytes there are big writes of one and two capacities with
and without a tail, over an empty, partly and completely full buffer.

### ComposeSource

A line of a source is abstracted to the command that `parse_token` finds on it
and to what the loop asks of it: blank or not, `no_hint`, `unimplemented`, the
task. The variables are those of `process_source`; one action is one turn of its
loop, or the return. The properties compare the result with the *meaning* of the
commands, defined without the loop: which lines are private (`Private`), which
sources are well formed (`WellFormed`). Every source of up to five lines of nine
kinds is run: enough for a block with a line inside, before and after it, for two
cuts in a row, and for a command inside a block that is not closed.

### ComposeTree

Both trees are functions from paths to what is there: nothing, a directory, a file
with a content, a link. The recursion of `process_dir` is the variable `stack`. A
step is a system call that changes the public tree, so a run can be killed between
any two, and inside those that are not atomic: a file truncated but not written, a
link removed but not made, a directory removed in part (`RemovedInPart`), when a
link replaces it or pruning takes it away. Between runs the private tree is
edited: entries appear, vanish and change their kind. System calls follow links
where the code's calls do (`Land`, `Follow`, `Written`). Both trees are trees
(`IsTree`): what is in a directory has one around it, and an edit keeps it so.
Links lead to entries of the root that are not links themselves; a chain of links
would only be followed further.

Bounds: two directories with a file each, one of them also a link to the other,
a skipped entry, an unexported one; three edits, two kills. Files that the public
tree had before are among the initial states.

Fairness: a run that has not been killed goes on, and another is started: CI runs
compose again on the next push. `Converges` then says that the kills are made
good, once the edits end. It is limited to runs that are not refused and to public
trees where no link stands for something else (`stale`): such a link is written
through, see *Observations*.

### MoveSolutions

`to[t][n]` and `from[t][n]` say who wrote file `n` of task `t` in the two
repositories. A step is the removal or the copy of a file, the walk goes over the
tasks in any order. A move can be killed between two steps, and inside a copy, which
leaves the file torn. All contents of the source, and all sets of tasks it lacks,
are initial states. Two tasks, three names, two kills: a task can be emptied by
one run and met by the next, with another task done or undone meanwhile.

### TestTask

`config` is the list of steps of a `testing.yaml`; the two shapes checked occur
in the repository and have all the kinds of steps: a command in two profiles, a
search and a report, and a file with two reports. `passed` is a history variable:
the checks that have succeeded in this run. Builds are abstracted to the state of a
build directory (absent, made but not configured, configured, or stale), and to
whether the solution compiles for each profile. `run_cmake` may fail each time: its
status is not looked at, neither by `Configure` nor by `ConfigureFresh`, and the build goes on
over a directory that is not configured. `cmake` remembers how the last one of this run
ended. So a build error need not be the solution's fault, and `BuildErrorsAreReal`
says exactly when it is not: the `cmake --fresh` of the same call has failed. What an
earlier run left - a directory never configured, out of date, or whose first
configuration failed unnoticed - is repaired. A `cmake` that cannot be started at all
ends the run with that error, and is left out. The server may fail to record a
report or to answer one it has recorded.

## Runs

| run | instance | shows |
| --- | --- | --- |
| `StepRunner` | 3 workers, 3 steps | nobody skips or repeats a step; workers leave with the step `DoStep` reports as last; proposals are final; the refinement of `StepBarrier`; the test ends |
| `StepRunnerHang` | 2 workers, late start allowed | **violated**: `DoStepReturns` |
| `Waiting` | 4 philosophers; 2 connections, 4 lines; 2 tests, 2 attempts, 1 forked process | exclusion, barriers and verdicts of the chat interactor, what `test.py` passes is earned and leaves nobody behind; nobody waits for ever but in two circles |
| `InteractorIgnored` | 1 test, 1 attempt | **violated**: `InteractorCounts` |
| `Harness` | child and 2 grandchildren; 6 slots, 2 files; 3 nodes; types of 2 to 6 bits | a pass means a session passed; guards tell and cost nothing; trees are printed however reads are cut; roots are right in every type; a verdict is reached |
| `NetSig` | 2 FIFOs of 2 blocks, 4 commands; 4 lines | correct programs are accepted and sum right, wrong ones caught and not left running; sessions end, but for one jam |
| `Judge` | values of 4 characters, 3 lines, 5 bytes | words survive writing and reading, no buffer is left, files mean what they say, memory is freed once, checkers accept the right file only, every call ends |
| `Containers` | 2 lists, 3 nodes; 2 vectors, 3 blocks; capacity 3, 8 bytes, 2 errors | heaps are right after every sequence of methods; refinement of `ListSpec` and `VectorSpec`, with arguments that are elements; bytes in order, every loss reported |
| `LinkedListClear` | 2 lists, 2 nodes, with `Clear` | **violated**: `ClearEmpties` |
| `ComposeSource` | sources of up to 5 lines | nothing private gets out, nothing public is lost, statistics, refusals |
| `ComposeTreeLinks` | 5 paths, 2 edits | **violated**: `SuccessPrunes` |
| `Xtask` | 2 tasks, 3 files, 2 kills; 2 configurations, 1 kill; 5 paths, 3 edits, 2 kills | a move that succeeds is complete and touches nothing else; scores are earned, ok means done, build errors are the solution's or of a `cmake` that fails at that moment; mirror after success, skipped paths untouched, convergence |

Deadlock is not checked where programs may stop: after the last test, at the end of
a session or a call, in the circle of philosophers. It is checked in `StepRunner`,
`ComposeSource`, `Containers` and `Xtask`.

The violated runs are the findings of `PROJECT.json`: a late worker hangs
`DoStep` (`thread-runner.hpp:18`); a dangling link is announced as removed but
stays (`compose.rs:481`); `Clear` leaves a list that must not be used
(`list.hpp:88`); the verdict of an interactor is not looked at (`test.py:315`).

## Proofs

Each safety property of the runs, invariant or action property, and each
refinement is a theorem.

| module | theorem | says |
| --- | --- | --- |
| `StepRunnerProofs` | `Invariance` | `IInv` is invariant |
| | `TypeCorrect`, `QuiescentBetweenSteps`, `StepsInLockstep`, `LeavesWithTheLastStep`, `CountsThisStep`, `LastKeepsUp` | the safety invariants |
| | `FinalProposal` | `ProposalIsFinal` |
| | `Refinement` | `Spec => ImplementsStepBarrier` |
| `WaitingProofs` | `TypeCorrect`, `ForksAreHeldByTheirEaters`, `Exclusion` | the invariants of the table |
| | `PassesAreEarned` | `PassIsEarned`, for any numbers of tests, rounds, attempts and processes |
| | `ChatIsRight` | `ChatRight`: barriers and verdicts, for any numbers of connections and lines |
| `HarnessProofs` | `TypeCorrect`, `PassIsEarned`, `VerdictIsTheChilds` | the invariants of `ForkedRun`, for any number of forked processes |
| | `AnswersAreRoots` | `RootsRight`, for types of any width and inputs of any length |
| | `GuardsAreRight` | `GuardsRight`, for tables and limits of any size |
| | `TreesArePrinted` | `TreePrinted`, for trees of any size |
| `NetSigProofs` | `SumsAreRight` | `FilesRight`, for any numbers of FIFOs, blocks and commands |
| | `OkIsEarned` | `OkMeansServed`, for any number of commands |
| `JudgeProofs` | `FilesAreParsed` | `InfoRight`, for files of any length |
| | `CheckersAreRight` | `CheckersRight`, for files and chunks of any size |
| | `NothingIsOverrun` | `InsideBuffers`, for values of any length |
| | `WordsSurvive` | `RoundTrip`, for any number of words of any length |
| `ContainersProofs` | `WriterCorrect`, `LossReported` | `WriterRight` and `LossIsReported`, for any capacity |
| | `VectorHeapCorrect`, `VectorImplementsSpec` | `VectorHeapRight` and the refinement of `VectorSpec`, its one exception included |
| | `ListHeapCorrect`, `ListImplementsSpec` | `ListHeapRight` and the refinement of `ListSpec`, for any number of lists and nodes |
| `ComposeSourceProofs` | `TypeCorrect`, `NothingPrivateIsPublished`, `NothingPublicIsLost`, `ReportCorrect` | `PrivateStaysPrivate`, `PublicSurvives` and `ReportRight`, for sources of any length |
| `XtaskProofs` | `TypeCorrect`, `MovesAreComplete`, `NothingElseIsTouched`, `FailureNeedsAnEarlierMove` | the invariants of `MoveSolutions`, for any tasks and names |
| | `TestsAsAsked`, `BuildsFailForPresentFaults`, `ScoresAreEarned` | `DoesAsAsked`, `BuildErrorsAreReal` and `ScoreIsEarned`, for every `testing.yaml` |
| | `MirrorsAreLeft`, `SkippedIsKept` | `SuccessMirrors` and `SkippedUntouched`, for any two trees |

Assumptions are those named in the modules, and TLC evaluates each. Most only say
that a bound is a number or that a name of the model is not one of the things it is
not. Those that say more:

- `StepRunner`: a finite, non-empty set of workers and any relation `Needs`;
  `PromptStart` is not needed for safety. `Philosophers`: at least two seats, any
  set of guests. `ForkedRun`: finitely many forked processes, any exit codes;
  `ChatSession` finitely many connections, `LinkedList` finitely many nodes.
- `FibRoot`: types of at least four values, so that the table the code begins
  with fits. `BufWriter`: a capacity, by which the code divides, that is not 0.
  `Vector`: a block may have as many cells as a vector of the greatest length needs
  when it doubles.
- `ComposeSource`: lines whose fields agree with their command.
  `TestTask`: the steps of a `testing.yaml` are of the three sorts, and only commands
  have profiles. `MoveSolutions`: any function from tasks to sets of names.
- `ComposeTree`: paths of one or two parts, which is what bounds the depth of the calls
  in the theorems, and trees of entries that have a directory around them. A link leads
  to an entry of the root that is not a link. A tree the public repository had before
  may hold anything but links of its own.
- `CmdLine`: no character of a value is 0, and those of words are ASCII and not
  the comment sign (`WordAssumption`); other words do not survive, see *Observations*.

What an inductive invariant adds to the property is in each case the position of
the program: what it has dealt with is right, what it has not is as it was.

*StepRunner.* `NobodyInsideBetweenSteps` is not inductive: it says nothing of a
worker about to load `step_`. `IInv` adds what the protocol rests on. `WorkerRight`:
a worker's `cur_step` is the current step or the one after, and outside the wait
of `DoStep` it is the one after for all of them; a worker that has decided to stop
has seen `last_step_` below its step. `CountersRight`: while `DoStep` waits,
`step_finishes_` is the number of workers whose `cur_step` is one ahead - the
cardinality argument (`FS_Subset`: a subset of as many elements is the whole set)
turns "the count is complete" into "everybody has finished". `CoordinatorRight`
ties `last_step_` to where the coordinator is. One step of the proof per action.
The refinement is then a case analysis: the abstract transition of each action
follows from `IInv` of the state before it.

*Philosophers.* The invariant is `ForksMatchPositions`: a fork is owned by exactly
the philosopher whose position says so; exclusion follows because neighbours share
a fork.

*TestPy.* `ProcessesRight`: the processes form a tree under the runner, in which no
set of processes has all its parents in itself, so that when the search finds no child
nobody is there. `ChecksRight` says what each check of an attempt has
established; it holds as long as *nobody* is left who could undo it, which is what
makes the orphans of an attempt matter to the next test.

*ChatSession.* `Layout`: there is a function `f` from latches to lines by which what a
connection has before it is in the order of the file. `GatesRight`: a
latch that is not set is still before every task that was known at its line,
or the latch of a later line is, and as many come to it as remain to be counted.
So a latch is set only when everybody has passed what is above it. `EndsRight` ties
the status to `bad`.

*ForkedRun.* `SessionsRight`: every report in the pipe is the code of a session that
has ended, so a report that agrees with an exit code of 0 comes from a session that
passed. `PipeRight` says that without intruders the pipe holds exactly the child's
report from the time it is written until it is read.

*FibRoot.* While the table is filled it is sorted but for its last element, which
is the sum of the two before it modulo the size of the type. When the loop stops, that
sum has wrapped, so the true one is at least `limit`, and the sum of the two numbers
before the last is above any number asked about. The greatest number of the type,
which replaces the wrapped sum, keeps the table sorted, and the search ends at it at the
latest.

*Guards.* `PairsRight`: the copies are of what was open, one of each, where nothing
was. The constructor always finds room: below `cur` there are at least as many closed
descriptors as are still to be copied (`RoomTo`), because at most half of them were open
and every slot above has been used or was open. That is why `VerdictRight` can
compare a count with twice the number of pairs.

*TreeReader.* An entry of the stack stands for what is owed: a node, its left
subtree, and its right one until that has been gone into, which comes first.
`Sorted` says that what is printed, what is below the node being read and what is
owed from the top of the stack down are all of the tree, in order (`InLine`);
`StackLow` that the stack and the height of what is being read never exceed the
height of the tree. `Below` and `Height` are recursive functions on the nodes;
that there are such functions is `SolutionExists`.

*FilesSession.* Unless a sleep was too short, the program is where the interactor
believes it to be: `GoodRun` says for each position of the interactor what the program
has read, which signal it has, and that it reads the FIFO that is written.
`DelayedRun` does so for the program that is stopped before it waits.

*IgnoreSession.* `BudgetKept`: what is on its way, from a command not read to output
not read, is never more than what the interactor still expects; `ServedRight`: what
the program has written is what was read and right so far, followed by what is in the
pipe. The text is cut at any place, so the lemmas are about concatenation (`CutText`).

*CmdLine.* `InsideInv`: each character in `locbuf` has taken at least one of the input,
whatever escape it comes from and wherever the value ends in it, and the vector has
room for one word more than it has. `RoundInv` knows where in the value
each word is written, and where in it each character (`Laid`: the offsets of the
parts in what `FlattenSeq` makes of them); the parser, at character `Len(q)` of word
`Len(argv)`, is at that offset. The lemmas about escapes (`EscapedIs`, `OctalIs`)
say what each turn of the parser makes of what one turn of the writer has written.
This proof found that the cases of `Escaped` overlapped - a tab is a control character
too - which TLC resolves by order and TLA+ does not; they no longer do.

*TestInfo.* `FieldsRight` and `Kept`: a field holds the last parameters of its name so
far, and the heap what the fields own; `Sound` says that the lines so far have no error.
*RedirectChecker.* What has been read and what is left of a stream are the file.
*CheckerLines.* The lines so far and the one begun are what has been read; trimming
goes down from the end and has dropped only white space (`Trimmed`).

*BufWriter.* The stream, what is written and then what is held, is increasing; each
action appends what it is given, keeps the stream, or cuts it (`Cuts`), and the last
happens in a failing `::write` only, whose error the method returns.

*Vector.* `VInv`: a block that is allocated belongs to one live vector, and is alive
in its first `idx_` cells. The refinement is a lemma per method that says what becomes
of the sequences and capacities (`Changes`), and one that what an argument can refer to
is the same for both (`ArgumentsStep`).

*LinkedList.* Lists stand for sequences of nodes, `Now(S)`: the ends are the first and
the last, the links lead from each to its neighbours (`Linked`), no node is in two of
them and all are in use. The loop over `nextNode` visits exactly `S` (`Follow`), so the
sequence of elements that the abstraction computes is `S` with its values. Then each
method is a lemma about what it makes of `S` (`Becomes`), from which both theorems
follow. `Clear` is not among them: the violated run says why.

*ComposeSource.* `PrivateStaysPrivate` speaks of what has been copied, so it needs
to know that no block is open where the search goes on (`PassedRight`): then a line
up to the next command can be neither in a block opened before nor in one opened
since. `CutKeepsIInv` is the argument; the lemmas before it say which source lines
a concatenation of copies and markers contains. `PublicSurvives` needs order too
(`OrderedSeq`), and that every line before `next_pos` has been settled
(`SurvivesUpTo`); the line a cut takes along is blank, and then the output ends with
a blank line that stands for it (`TailRight`). `StillStands` says that it goes on to
do so when more is appended. `ReportRight` needs that the blocks before `next_pos` are
paired (`PairedIn`), so that the statistics count each once and what is refused is
really malformed.

*ComposeTree.* `CallsRight`: the stack is a chain of calls, each for a directory
that the one before has entered. While a run goes on over a tree without stale links,
`CopiesRight` and `PruningRight` say of each call that what it has been through is a
copy, or gone, `LeftRight` that the directories already left are as they should be,
`LinksRight` that no link stands for something else - so that a path leads where it says.
When the last call returns this is `Mirrors`.

*MoveSolutions.* `WalkRight`: a task the walk is through with has been moved.
`CurrentRight`: of the task it is at, what is not among the files still to be dealt
with is gone, or copied. `EmptiedRight`: a task without editable files has been
emptied by a killed move, or for want of files to copy, or is the current one.

*TestTask.* `BehindRight`: every step before the current one has passed in this run, for
each profile, and every report before it has been recorded; `PlaceRight` says that the build
directory that is about to be rebuilt is configured, or that `cmake --fresh` has just
failed, without which a failed build could be the fault of what earlier runs left.

Some of what is argued about is defined number by number (`FlattenSeq`, the loop over
`nextNode`, the height of a tree). Its properties are not taken from the library's
induction theorems, which no installed prover can instantiate, but from the least
number for which they fail (`WFMin` over the order of the naturals: `LeastOf`,
`LeastNumber`, `Least`).

Only model-checked: liveness, which is out of reach of the prover, together with all
that follows from fairness - `TestEnds`, `WaitingEnds`, `RunsEnd`, `SessionsEnd`,
`CallsEnd` and `Converges`. The violated runs are refutations and need no proof.

## Observations

Things met in the code that no run of their own is spent on.

Of `xtask`:

- `compose.rs:124` counts the line of a command it cannot parse from where the
  search began, so the message names the right line only for the first command
  of a file; the other errors (148, 156, 167) count from the top.
  `ComposeSource` carries both (`BadToken`, `BadTokenInBlock`).
- `compose.rs:29` says that `--skip` keeps directories from pruning; an entry
  that is skipped but absent from the private tree is pruned all the same,
  because only entries of the private tree become `processed` (432, 473).
- `compose.rs:336` and `342` write through a link that an earlier run made in the
  public tree where the private one now has a file, and change its target;
  this is what the variable `stale` of `ComposeTree` excludes.
- `move.rs:103` says "skipping" after the target's files have been removed (84-97),
  and the next move then fails over the empty task.
- `find_editable_files` never returns an empty set (`task.rs:272`), so the branch
  for one in `check_format` (`test.rs:509`) is never taken: a task without editable
  files fails its format check instead of passing it.
- `test.rs:305` subtracts 100 ms from the wall time limit, which panics for a limit
  of 0.

Of `test.py`:

- `find_children` sees zombies too, so once a test has left an orphan behind,
  every retry fails for the same reason.
- An initializer whose start fails leaves the working directory inside the run
  directory; the retry then fails with an exception that is not caught.
- Before Python 3.11 `file_digest` returns "" for every file, and a changed answer is
  not noticed.
- `p.wait()` after an interactor has no limit: one that ends with CF, without
  SIGTERM, leaves `test.py` waiting for a server that does not end by itself.

Of the interactors:

- chat: a line of `=` before the first connection makes a latch of 0 that is never
  set (`EarlyBarrier`); `done` or `stop` on a connection that was never started is an
  `AttributeError`, reported as CF.
- files: a signal that comes just before a `read`, or two that are handled in the
  other order, jam the session (`Jammed`). A program that prints nothing at all
  passes test 004 although its interactor has answered PE: the finding at
  `test.py:315` again.
- logger: a lost datagram leaves both sides waiting; the branch for
  `BrokenPipeError` cannot be reached over UDP.

Of the judge library:

- A comment behind a space adds an empty word to a command line; `#` is not
  among the characters `need_quotes` looks for, so a word with one is not read
  back; empty words are lost by `unparse`, and bytes from 128 are written so that
  they cannot be read. `RoundTrip` leaves these words out.
- A parse that fails loses the memory of the fields that were set before it; an
  array of no words loses its vector.
- `read_line` errors are taken for the end of the file; `main` in `checker.h` does not look at
  the result of `testinfo_parse`, and a checker whose `.inf` file is refused follows
  a null pointer.
- The C parser refuses names that `test.py` accepts (`nuke_environ`,
  `drop_first_param`, `user_time_limit_ms`).

Of the containers, guards and tasks:

- `PushBack(v[i])` and `Resize(n, v[i])` of an element of the same vector read freed
  memory when they reallocate (`vector.hpp:136-144`, `205-209`), where `std::vector`
  does not: `Junk` in `Vector`, and the exception that `VectorSpec` makes. The tests never
  do it. `Memory::operator=(Memory&&)` has no `return`.
- A `FileDescriptorsGuard` whose constructor throws keeps the copies it has made;
  its destructor closes whatever is in their slots by then; without `kcmp`
  only counts are compared.
- `RLimGuard::Reset` asserts in a destructor, which ends the program if it fails.
- `BufWriter` with a capacity of 0 divides by zero (`writer.hpp:38`).
- binary-tree: on a file with a cycle the program does not end; `MIN_READ_CALLS` above
  1 can abort a correct program on a tree of one node.
- fib-root: -1, which the task rules out, is the greatest number of the unsigned type
  and finds the element that bounds the table; an error of `read` is taken for the end of the input.
- `Table` deadlocks under the tests that come with it, as its author intends.

## Not modelled

- Left out of parts that are modelled: `parse_token` character by character, hint
  and report texts; the report file and `.gitignore` patterns of compose; limits,
  sandbox and the parsing of `testing.yaml` in `xtask test`; `--prepare-answers`,
  external checkers and command lines in `test.py`; reading stdin and writing stdout
  in fib-root; `sleep` in chat; the delay of `sigprocmask` in files
  (`wrappers.c:34-39`), since the programs of the model block before they print.
- `command.rs`, `play.rs`, `dispatch.rs`: command lines are put together and started;
  there is no state between two steps.
- logger: one loop that sends a datagram and reads a line.
- glitch: a table of hooks. What hooks do to a program is in `TreeReader`; the wrappers
  of the network tasks are in `FilesSession` and `IgnoreSession`.
- Reader/writer lock: `rw-lock.hpp` is a stub; the counters of its test are one
  atomic word, and each thread checks what its own change of it returned.
- char-sum, reverse-list, broken-symlinks: short sequential programs whose result a
  test sees directly.
- Runtime without libc, benchmark, shell and report tools: layers over system calls,
  sequences of commands. `run-clang-format.py` is vendored.
- The stubs of unsolved tasks: there is no behaviour to model until a student adds
  it, beyond the way their tests drive the step harness.

Atomics with an order weaker than sequential consistency do not occur.

## Plan

1. Done: the step harness with its abstract barrier; unit test main and guards;
   `test.py`, the interactors and the judge library; compose, move and test; the
   containers and the solved tasks with state; eight proof modules, with a theorem
   for every safety property that a run checks.
2. Next: what the proofs found missing. Invariants that need no history are candidates for
   action properties of their own (a report that is retried, a link that replaces a
   file); the sessions of `NetSig` deserve an abstract specification each, of
   which the proofs already hold the invariant.
3. Then, if they grow state: the parsing of `testing.yaml`, and the reader/writer lock
   once it is more than a stub.
