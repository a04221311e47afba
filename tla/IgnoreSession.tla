--------------------------- MODULE IgnoreSession ---------------------------
(***************************************************************************)
(* A test of tasks/11-net-sig/ignore: test_utils/run_interactor.c starts   *)
(* the program and the interactor with a pipe each way between them,       *)
(* interactor.c sends lines and signals and expects each line, or the      *)
(* message, back, and the wrappers of wrappers.c are linked into the       *)
(* program: they abort it for stdio in a handler and let one write fail.   *)
(* Text is a sequence of halves of lines, since any part of what has been  *)
(* written can be read.  The program is the student's.                     *)
(***************************************************************************)
EXTENDS Naturals, Sequences

CONSTANT MaxCommands   \* bound on the lines of the test

VARIABLES
  lpc, res,          \* the launcher: where it is, what it will return
  stdinHolders,      \* who can write to the program's stdin
  ipc, left,         \* the interactor, and the rest of the test
  expected,          \* what it still wants to read
  owed, wrote,       \* all that the test asks for, and the program has written
  iexit, pexit,      \* "no", or how they ended: "0" or "failed"
  prog, ppc,         \* the sort of program, and where it is
  todo,              \* what its loop has to write
  note,              \* what its handler has to write, <<>> outside of it
  term, rtmax,       \* the signals sent to it and not yet handled
  interrupt,         \* do_interrupt_write
  toProg, toInter    \* the pipes

launcher == <<lpc, res>>
interactor == <<ipc, left, expected, owed, iexit>>
program == <<ppc, todo, note, interrupt, wrote, pexit>>
signals == <<term, rtmax>>
vars == <<prog, launcher, stdinHolders, interactor, program, signals, toProg, toInter>>

Halves(what) == <<[of |-> what, half |-> 1], [of |-> what, half |-> 2]>>
Message == 0            \* and a line is what is left of the test with it
Rest(s, n) == SubSeq(s, n + 1, Len(s))

(* Two right programs: one answers in its handler and has read restarted,  *)
(* one lets SIGTERM in only while it waits.  The others use stdio in the   *)
(* handler, exit with 0 at the signal, or never try a write again.         *)
Right == {"handler", "mask"}
Masked == {"mask", "careless"}

Init ==
  /\ lpc = "fork program" /\ res = "0" /\ stdinHolders = {"launcher"}
  /\ ipc = "none" /\ left \in 1 .. MaxCommands /\ expected = <<>> /\ owed = <<>>
  /\ iexit = "no" /\ pexit = "no"
  /\ prog \in Right \cup {"stdio", "quits", "careless"}
  /\ ppc = "none" /\ todo = <<>> /\ note = <<>> /\ interrupt = FALSE /\ wrote = <<>>
  /\ term = FALSE /\ rtmax = FALSE
  /\ toProg = <<>> /\ toInter = <<>>

-----------------------------------------------------------------------------
(* runproc, twice.  The program is forked with both ends of its own stdin. *)
ForkProgram ==
  /\ lpc = "fork program" /\ lpc' = "fork interactor"
  /\ ppc' = "exec" /\ stdinHolders' = stdinHolders \cup {"program"}
  /\ UNCHANGED <<prog, res, interactor, todo, note, interrupt, wrote, pexit, signals, toProg, toInter>>

ForkInteractor ==
  /\ lpc = "fork interactor" /\ lpc' = "wait"
  /\ ipc' = "next" /\ stdinHolders' = (stdinHolders \ {"launcher"}) \cup {"interactor"}
  /\ UNCHANGED <<prog, res, left, expected, owed, iexit, program, signals, toProg, toInter>>

(* Fault: no O_CLOEXEC.                                                    *)
ExecKeepingAll ==
  /\ ppc = "exec" /\ ppc' = "read"
  /\ UNCHANGED <<prog, launcher, stdinHolders, interactor, todo, note, interrupt, wrote, pexit,
                 signals, toProg, toInter>>

(* execvp closes what is O_CLOEXEC.                                        *)
Exec ==
  /\ ppc = "exec" /\ ppc' = "read" /\ stdinHolders' = stdinHolders \ {"program"}
  /\ UNCHANGED <<prog, launcher, interactor, todo, note, interrupt, wrote, pexit,
                 signals, toProg, toInter>>

(* The loop over wait: 1 unless both have exited with 0.                   *)
Wait ==
  /\ lpc = "wait" /\ iexit # "no" /\ pexit # "no"
  /\ lpc' = "done" /\ res' = IF iexit = "0" /\ pexit = "0" THEN "0" ELSE "1"
  /\ UNCHANGED <<prog, stdinHolders, interactor, program, signals, toProg, toInter>>

-----------------------------------------------------------------------------
IExit(code) == ipc' = "exited" /\ iexit' = code /\ stdinHolders' = stdinHolders \ {"interactor"}

(* The next line of the test.  The first is a plain one.                   *)
NextCommand(plain) == ipc = "next" /\ left > 0 /\ left' = left - 1 /\ (plain \/ owed # <<>>)

ExpectText(text) == expected' = text /\ owed' = owed \o text /\ ipc' = "expect"

(* A plain line: write, or SIGPIPE once the program is gone.               *)
SendLine ==
  /\ NextCommand(TRUE)
  /\ IF pexit # "no" THEN IExit("failed") /\ UNCHANGED <<expected, owed, toProg>>
     ELSE /\ ExpectText(Halves(left)) /\ toProg' = toProg \o Halves(left)
          /\ UNCHANGED <<iexit, stdinHolders>>
  /\ UNCHANGED <<prog, launcher, program, signals, toInter>>

(* TERMINATE.                                                              *)
SendTerm ==
  /\ NextCommand(FALSE)
  /\ term' = (pexit = "no") /\ ExpectText(Halves(Message))
  /\ UNCHANGED <<prog, launcher, stdinHolders, iexit, program, rtmax, toProg, toInter>>

(* WINTERRUPT, and a sleep that is long enough for the handler.            *)
SendInterrupt ==
  /\ NextCommand(FALSE)
  /\ rtmax' = (pexit = "no") /\ ipc' = "sleep"
  /\ UNCHANGED <<prog, launcher, stdinHolders, expected, owed, iexit, program, term, toProg, toInter>>

EndSleep ==
  /\ ipc = "sleep" /\ ~rtmax /\ ipc' = "next"
  /\ UNCHANGED <<prog, launcher, stdinHolders, left, expected, owed, iexit, program, signals, toProg, toInter>>

(* expect: a part of what is wanted has come, and nothing else.            *)
Matches(n) == n <= Len(expected) /\ \A i \in 1 .. n : toInter[i] = expected[i]

Expect(n) ==
  /\ ipc = "expect" /\ n \in 1 .. Len(toInter) /\ toInter' = Rest(toInter, n)
  /\ IF Matches(n)
       THEN /\ expected' = Rest(expected, n)
            /\ ipc' = IF n = Len(expected) THEN "next" ELSE "expect"
            /\ UNCHANGED <<iexit, stdinHolders>>
       ELSE IExit("failed") /\ UNCHANGED expected
  /\ UNCHANGED <<prog, launcher, left, owed, program, signals, toProg>>

(* Fault: the end of the input is taken for the rest of the text.          *)
ExpectNoMore ==
  /\ ipc = "expect" /\ toInter = <<>> /\ pexit # "no"
  /\ ipc' = "next" /\ expected' = <<>>
  /\ UNCHANGED <<prog, launcher, stdinHolders, left, owed, iexit, program, signals, toProg, toInter>>

(* expect: read returns 0.                                                 *)
ExpectEof ==
  /\ ipc = "expect" /\ toInter = <<>> /\ pexit # "no" /\ IExit("failed")
  /\ UNCHANGED <<prog, launcher, left, expected, owed, program, signals, toProg, toInter>>

(* The end of the test: close(STDOUT_FILENO), and nothing more may come.   *)
CloseStdout ==
  /\ ipc = "next" /\ owed # <<>>
  /\ ipc' = "tail" /\ stdinHolders' = stdinHolders \ {"interactor"}
  /\ UNCHANGED <<prog, launcher, left, expected, owed, iexit, program, signals, toProg, toInter>>

ReadTail ==
  /\ ipc = "tail" /\ (toInter # <<>> \/ pexit # "no")
  /\ IExit(IF toInter = <<>> THEN "0" ELSE "failed")
  /\ UNCHANGED <<prog, launcher, left, expected, owed, program, signals, toProg, toInter>>

-----------------------------------------------------------------------------
PExit(code) == ppc' = "exited" /\ pexit' = code

(* read: a part of the input, or its end.                                  *)
Waits == ppc = "read" /\ note = <<>> /\ ~(prog \in Masked /\ term)

Read(n) ==
  /\ Waits /\ n \in 1 .. Len(toProg)
  /\ todo' = SubSeq(toProg, 1, n) /\ toProg' = Rest(toProg, n) /\ ppc' = "write"
  /\ UNCHANGED <<prog, launcher, stdinHolders, interactor, note, interrupt, wrote, pexit, signals, toInter>>

ReadEof ==
  /\ Waits /\ toProg = <<>> /\ stdinHolders = {} /\ PExit("0")
  /\ UNCHANGED <<prog, launcher, stdinHolders, interactor, todo, note, interrupt, wrote, signals, toProg, toInter>>

(* A signal comes while such a program waits: the loop writes the message. *)
Answer ==
  /\ ppc = "read" /\ prog \in Masked /\ term
  /\ term' = FALSE /\ todo' = Halves(Message) /\ ppc' = "write"
  /\ UNCHANGED <<prog, launcher, stdinHolders, interactor, note, interrupt, wrote, pexit, rtmax, toProg, toInter>>

(* SIGTERM in a program that does not block it.                            *)
HandleTerm ==
  /\ term /\ term' = FALSE /\ prog \notin Masked /\ ppc \in {"read", "write"}
  /\ IF prog = "handler" THEN note' = note \o Halves(Message) /\ UNCHANGED <<ppc, pexit>>
     ELSE PExit(IF prog = "quits" THEN "0" ELSE "failed") /\ UNCHANGED note
  /\ UNCHANGED <<prog, launcher, stdinHolders, interactor, todo, interrupt, wrote, rtmax, toProg, toInter>>

(* With SA_RESTART for SIGTERM, as signal has it too, SIGRTMAX is ignored. *)
Ignored == {"handler"}

HandleInterrupt ==
  /\ rtmax /\ rtmax' = FALSE /\ interrupt' = (interrupt \/ prog \notin Ignored)
  /\ UNCHANGED <<prog, launcher, stdinHolders, interactor, ppc, todo, note, wrote, pexit, term, toProg, toInter>>

(* Fault: the wrappers go on failing.                                      *)
StillSet == interrupt

(* do_interrupt_write = 0.                                                 *)
Cleared == FALSE

(* A wrapper of a function that writes, given s: it fails once with EINTR, *)
(* and a careless program has then lost s; or n halves of it are taken.    *)
(* Without an interactor SIGPIPE ends the program.                         *)
Wrapped(s, rest, n) ==
  CASE interrupt ->
         /\ interrupt' = Cleared /\ rest = (IF prog = "careless" THEN <<>> ELSE s)
         /\ UNCHANGED <<ppc, pexit, wrote, toInter>>
    [] ~interrupt /\ iexit # "no" ->
         PExit("failed") /\ rest = s /\ UNCHANGED <<interrupt, wrote, toInter>>
    [] OTHER ->
         /\ toInter' = toInter \o SubSeq(s, 1, n) /\ wrote' = wrote \o SubSeq(s, 1, n)
         /\ rest = Rest(s, n) /\ UNCHANGED <<interrupt, ppc, pexit>>

WriteNote(n) ==
  /\ ppc # "exited" /\ n \in 1 .. Len(note) /\ Wrapped(note, note', n)
  /\ UNCHANGED <<prog, launcher, stdinHolders, interactor, todo, signals, toProg>>

Write(n) ==
  /\ ppc = "write" /\ note = <<>> /\ n \in 1 .. Len(todo) /\ Wrapped(todo, todo', n)
  /\ UNCHANGED <<prog, launcher, stdinHolders, interactor, note, signals, toProg>>

Written ==
  /\ ppc = "write" /\ note = <<>> /\ todo = <<>> /\ ppc' = "read"
  /\ UNCHANGED <<prog, launcher, stdinHolders, interactor, todo, note, interrupt, wrote, pexit,
                 signals, toProg, toInter>>

-----------------------------------------------------------------------------
Launcher == ForkProgram \/ ForkInteractor \/ Wait

Interactor ==
  \/ SendLine \/ SendTerm \/ SendInterrupt \/ EndSleep \/ ExpectEof \/ CloseStdout \/ ReadTail
  \/ \E n \in 1 .. 4 : Expect(n)

Program ==
  \/ Exec \/ ReadEof \/ Answer \/ HandleTerm \/ HandleInterrupt \/ Written
  \/ \E n \in 1 .. 2 : Read(n) \/ WriteNote(n) \/ Write(n)

Next == Launcher \/ Interactor \/ Program

(* The three processes are scheduled.                                      *)
Spec == Init /\ [][Next]_vars /\ WF_vars(Launcher) /\ WF_vars(Interactor) /\ WF_vars(Program)

-----------------------------------------------------------------------------
TypeOK ==
  /\ lpc \in {"fork program", "fork interactor", "wait", "done"} /\ res \in {"0", "1"}
  /\ stdinHolders \subseteq {"launcher", "program", "interactor"}
  /\ ipc \in {"none", "next", "expect", "sleep", "tail", "exited"} /\ left \in 0 .. MaxCommands
  /\ ppc \in {"none", "exec", "read", "write", "exited"}
  /\ iexit \in {"no", "0", "failed"} /\ (iexit = "no" <=> ipc # "exited")
  /\ pexit \in {"no", "0", "failed"} /\ (pexit = "no" <=> ppc # "exited")
  /\ term \in BOOLEAN /\ rtmax \in BOOLEAN /\ interrupt \in BOOLEAN
  /\ Len(expected) <= 2 /\ Len(todo) <= 2 /\ Len(note) <= 2 /\ Len(toProg) <= 2 /\ Len(toInter) <= 2

(* What the launcher calls success is one: the program has written all     *)
(* that the test asks for, in its order, and nothing else.                 *)
OkMeansServed == lpc = "done" /\ res = "0" => wrote = owed

(* Every test ends, but for a program that loses what it has to write, for *)
(* which the interactor waits: the end of the input reaches the program.   *)
SessionEnds == prog # "careless" ~> lpc = "done"

(* A right program passes every test, interrupted or not.                  *)
RightPasses == prog \in Right ~> lpc = "done" /\ res = "0"
=============================================================================
