---------------------------- MODULE FilesSession ----------------------------
(***************************************************************************)
(* A test of tasks/11-net-sig/files: test_utils/initializer.c makes the    *)
(* FIFOs, interactor.c writes blocks to them and tells the program with    *)
(* signals which one to read, wrappers.c delays the program's first        *)
(* sigsuspend or pause and lets the interactor end it.  The interactor     *)
(* cannot see how far the program is: it sleeps and hopes.  Time is not    *)
(* modelled; raced says that a sleep ended before the program was at rest, *)
(* or the delay of the wrappers before the shorter sleep it is to outlast. *)
(* The program is the student's, as the README of the task asks for it, or *)
(* wrong in one of three ways.                                             *)
(***************************************************************************)
EXTENDS Naturals, FiniteSets

CONSTANTS
  Files,        \* how many FIFOs the test has
  PipeSize,     \* how many blocks of 16 bytes a FIFO holds
  MaxCommands   \* bound on the commands of the test

ASSUME BoundsAssumption == Files \in Nat /\ PipeSize \in Nat /\ MaxCommands \in Nat

File == 1 .. Files

(* Signals are numbers: i is SIGRTMIN + i - 1.                             *)
SIGTERM == 0
SIGRTMAX == Files + 1

VARIABLES
  fifos,        \* the FIFOs that exist in the run directory
  ipc,          \* where the interactor is
  left,         \* how many commands the rest of the test has at most
  current,      \* the FIFO being written, 0 for none
  burst,        \* what is left to write of the command being executed
  rpipes, wpipes,   \* the ends of FIFOs the interactor has open
  verdict,      \* of the interactor, once it has exited
  prog, delayed,    \* the sort of program, and whether its first call is delayed
  ppc,          \* where the program is
  signals,      \* sent to the program and not yet handled
  want, term,   \* what the handlers have recorded
  fd,           \* the FIFO the program is about to read or reads, 0 for none
  opened,       \* the FIFOs the program has open
  fifo,         \* how many blocks are in each
  sent, got,    \* how many were written to each, and read from it
  raced

session == <<fifos, prog, delayed>>
interactor == <<ipc, left, current, burst, rpipes, wpipes, verdict>>
program == <<ppc, want, term, fd, opened, got>>
vars == <<session, interactor, program, signals, fifo, sent, raced>>

Nothing == [i \in File |-> 0]

(* The program has exited, perhaps without a word.                         *)
Exited == {"dead", "silent"}

Init ==
  /\ fifos = {} /\ ipc = "start" /\ left \in 0 .. MaxCommands
  /\ current = 0 /\ burst = 0 /\ rpipes = {} /\ wpipes = {} /\ verdict = "none"
  /\ prog \in {"good", "unblocked", "liar", "quits"}
  /\ delayed \in BOOLEAN /\ (delayed => left = 0)   \* as in the tests
  /\ ppc = "none" /\ signals = {} /\ want = 0 /\ term = FALSE /\ fd = 0 /\ opened = {}
  /\ fifo = Nothing /\ sent = Nothing /\ got = Nothing /\ raced = FALSE

-----------------------------------------------------------------------------
(* The initializer's start, in a directory of the test's own; then the     *)
(* runner starts the program and the interactor.                           *)
Start ==
  /\ ipc = "start"
  /\ fifos' = File /\ ipc' = "open" /\ ppc' = "open"
  /\ UNCHANGED <<prog, delayed, left, current, burst, rpipes, wpipes, verdict,
                 want, term, fd, opened, got, signals, fifo, sent, raced>>

(* The initializer's stop.                                                 *)
Stop ==
  /\ ipc = "exited" /\ ppc \in Exited /\ fifos # {}
  /\ fifos' = {}
  /\ UNCHANGED <<prog, delayed, interactor, program, signals, fifo, sent, raced>>

-----------------------------------------------------------------------------
(* Fault: the program is left running.                                     *)
JustExit(why) ==
  /\ verdict' = why /\ ipc' = "exited" /\ rpipes' = {} /\ wpipes' = {}
  /\ UNCHANGED signals

(* kill_and_exit: the handler of SIGRTMAX ends the program.                *)
KillAndExit(why) ==
  /\ signals' = signals \cup {SIGRTMAX}
  /\ verdict' = why /\ ipc' = "exited" /\ rpipes' = {} /\ wpipes' = {}

(* Its own reading end lets the interactor open the writing one at once.   *)
OpenPipes ==
  /\ ipc = "open"
  /\ LET i == Cardinality(wpipes) + 1 IN
     IF i > Files THEN ipc' = "pid" /\ UNCHANGED <<rpipes, wpipes>>
     ELSE rpipes' = rpipes \cup {i} /\ wpipes' = wpipes \cup {i} /\ UNCHANGED ipc
  /\ UNCHANGED <<session, left, current, burst, verdict, program, signals, fifo, sent, raced>>

(* scanf of the PID: nothing but the end of file, another one, or its own. *)
ReadPid ==
  /\ ipc = "pid" /\ ppc \notin {"open", "print"}
  /\ \/ ppc = "silent" /\ KillAndExit("PE")
     \/ ppc # "silent" /\ prog = "liar" /\ KillAndExit("WA")
     \/ ppc # "silent" /\ prog # "liar" /\ rpipes' = {} /\ ipc' = "next" /\ UNCHANGED <<wpipes, verdict, signals>>
  /\ UNCHANGED <<session, left, current, burst, program, fifo, sent, raced>>

(* The commands: a negative number, at most -1 by at least 100, ...        *)
NextCommand == ipc = "next" /\ left > 0 /\ left' = left - 1

(* Fault: the signal is sent at once.                                      *)
SwitchAtOnce(i) ==
  /\ NextCommand
  /\ current' = i
  /\ IF i = 0 THEN UNCHANGED <<ipc, signals>>
     ELSE ipc' = "after kill" /\ signals' = signals \cup {i}
  /\ UNCHANGED <<session, burst, rpipes, wpipes, verdict, program, fifo, sent, raced>>

Switch(i) ==
  /\ NextCommand
  /\ current' = i
  /\ ipc' = IF i = 0 THEN "next" ELSE "before kill"     \* 0: no such file
  /\ UNCHANGED <<session, burst, rpipes, wpipes, verdict, program, signals, fifo, sent, raced>>

ClosePipe ==
  /\ NextCommand
  /\ wpipes' = wpipes \ {current}
  /\ UNCHANGED <<session, ipc, current, burst, rpipes, verdict, program, signals, fifo, sent, raced>>

(* ... n blocks: a positive number, or more than one with a sleep after.   *)
Blocks(n) ==
  /\ NextCommand
  /\ IF current \in wpipes THEN ipc' = (IF n = 1 THEN "write" ELSE "write burst") /\ burst' = n
     ELSE UNCHANGED <<ipc, burst>>
  /\ UNCHANGED <<session, current, rpipes, wpipes, verdict, program, signals, fifo, sent, raced>>

(* write of one block: EPIPE without a reader, blocked by a full FIFO.     *)
Write ==
  /\ ipc \in {"write", "write burst"}
  /\ IF current \notin opened
       THEN KillAndExit("WA") /\ UNCHANGED <<burst, fifo, sent>>
       ELSE /\ fifo[current] < PipeSize
            /\ fifo' = [fifo EXCEPT ![current] = @ + 1]
            /\ sent' = [sent EXCEPT ![current] = @ + 1]
            /\ burst' = burst - 1
            /\ ipc' = IF burst > 1 THEN ipc ELSE IF ipc = "write" THEN "next" ELSE "after burst"
            /\ UNCHANGED <<rpipes, wpipes, verdict, signals>>
  /\ UNCHANGED <<session, left, current, program, raced>>

-----------------------------------------------------------------------------
(* The program has done all it can for now: the sleep was long enough.     *)
Deaf == ppc \in {"decide", "delay"} /\ prog = "good"
AtRest ==
  \/ ppc \in Exited
  \/ signals = {} /\ (ppc \in {"paused", "delay"} \/ (ppc = "read" /\ fifo[fd] = 0 /\ fd \in wpipes))

(* usleep, and the kill after it.                                          *)
AfterSleep ==
  [from \in {"before kill", "after kill", "after burst", "last"} |->
     CASE from = "before kill" -> "after kill" [] from = "last" -> "close" [] OTHER -> "next"]

Wake ==
  /\ ipc \in DOMAIN AfterSleep /\ ipc' = AfterSleep[ipc]
  /\ raced' = (raced \/ ~AtRest)
  /\ signals' = signals \cup (CASE ipc = "before kill" -> {current} [] ipc = "last" -> {SIGTERM}
                                [] OTHER -> {})
  /\ UNCHANGED <<session, left, current, burst, rpipes, wpipes, verdict, program, fifo, sent>>

(* Fault: the FIFOs stay open until the interactor exits.                  *)
KeepPipes ==
  /\ ipc = "close" /\ ipc' = "copy"
  /\ UNCHANGED <<session, left, current, burst, rpipes, wpipes, verdict, program, signals, fifo, sent, raced>>

ClosePipes ==
  /\ ipc = "close" /\ ipc' = "copy" /\ wpipes' = {}
  /\ UNCHANGED <<session, left, current, burst, rpipes, verdict, program, signals, fifo, sent, raced>>

(* The end of the commands.                                                *)
EndOfTest ==
  /\ ipc = "next" /\ ipc' = "last"
  /\ UNCHANGED <<session, left, current, burst, rpipes, wpipes, verdict, program, signals, fifo, sent, raced>>

(* The program's output is copied until its end.                           *)
CopyOutput ==
  /\ ipc = "copy" /\ ppc \in Exited
  /\ ipc' = "exited" /\ verdict' = "OK"
  /\ UNCHANGED <<session, left, current, burst, rpipes, wpipes, program, signals, fifo, sent, raced>>

Interactor ==
  \/ Start \/ Stop \/ OpenPipes \/ ReadPid \/ Write \/ Wake \/ EndOfTest \/ ClosePipes \/ CopyOutput \/ ClosePipe
  \/ \E i \in 0 .. Files : Switch(i)
  \/ \E n \in 1 .. PipeSize + 1 : Blocks(n)

-----------------------------------------------------------------------------
(* The program blocks its signals and opens the FIFOs, in the order of its *)
(* arguments, then prints its PID.                                         *)
Open ==
  /\ ppc = "open"
  /\ LET i == Cardinality(opened) + 1 IN
     IF i > Files THEN ppc' = "print" /\ UNCHANGED opened
     ELSE i \in wpipes /\ opened' = opened \cup {i} /\ UNCHANGED ppc
  /\ UNCHANGED <<session, interactor, signals, want, term, fd, fifo, sent, got, raced>>

PrintPid ==
  /\ ppc = "print" /\ ppc' = "decide"
  /\ UNCHANGED <<session, interactor, signals, want, term, fd, opened, fifo, sent, got, raced>>

(* Fault: the environment is not looked at.                                *)
NeverDelayed == FALSE

(* need_delay && *first_call: the wrappers of the first sigsuspend, pause. *)
NeedsDelay == delayed

(* The top of its loop: print the sums and exit, read, or wait.  A correct *)
(* program waits in sigsuspend, which unblocks and waits in one step; the  *)
(* other one comes to its pause later.                                     *)
Decide ==
  /\ ppc = "decide"
  /\ fd' = IF want \in opened THEN want ELSE 0
  /\ ppc' = CASE term -> "dead"
              [] ~term /\ want \in opened -> "before"
              [] OTHER -> IF NeedsDelay THEN "delay" ELSE IF prog = "good" THEN "paused" ELSE "before"
  /\ opened' = IF term THEN {} ELSE opened
  /\ UNCHANGED <<session, interactor, signals, want, term, fifo, sent, got, raced>>

Quit ==
  /\ prog = "quits" /\ ppc \in {"open", "decide"}
  /\ ppc' = (IF ppc = "open" THEN "silent" ELSE "dead") /\ opened' = {}
  /\ UNCHANGED <<session, interactor, signals, want, term, fd, fifo, sent, got, raced>>

(* read has been called, or pause: a signal handled just before is too     *)
(* late for it.  The race around read is allowed.                          *)
Block ==
  /\ ppc = "before" /\ ppc' = IF fd = 0 THEN "paused" ELSE "read"
  /\ UNCHANGED <<session, interactor, signals, want, term, fd, opened, fifo, sent, got, raced>>

Read ==
  /\ ppc = "read" /\ ppc' = "decide"
  /\ IF fifo[fd] > 0
       THEN /\ fifo' = [fifo EXCEPT ![fd] = @ - 1] /\ got' = [got EXCEPT ![fd] = @ + 1]
            /\ UNCHANGED opened
       ELSE fd \notin wpipes /\ opened' = opened \ {fd} /\ UNCHANGED <<fifo, got>>
  /\ UNCHANGED <<session, interactor, signals, want, term, fd, sent, raced>>

(* The wrappers' delay ends: too early, if SIGTERM has not been sent.  A   *)
(* signal that is not blocked would have ended it at once.                 *)
EndDelay ==
  /\ ppc = "delay" /\ (Deaf \/ signals = {})
  /\ ppc' = IF prog = "good" THEN "paused" ELSE "before"
  /\ raced' = (raced \/ ipc \notin {"close", "copy", "exited"})
  /\ UNCHANGED <<session, interactor, signals, want, term, fd, opened, fifo, sent, got>>

(* A signal: read, pause and the delay are interrupted.  SIGRTMAX exits.   *)
Handle(s) ==
  /\ s \in signals /\ ~Deaf /\ ppc \notin {"none", "open", "print", "silent", "dead"}
  /\ signals' = signals \ {s}
  /\ CASE s = SIGRTMAX -> ppc' = "dead" /\ opened' = {} /\ UNCHANGED <<want, term>>
       [] OTHER ->
            /\ IF s = SIGTERM THEN term' = TRUE /\ UNCHANGED want ELSE want' = s /\ UNCHANGED term
            /\ ppc' = CASE ppc \in {"read", "paused"} -> "decide" [] ppc = "delay" -> "before"
                        [] OTHER -> ppc
            /\ UNCHANGED opened
  /\ UNCHANGED <<session, interactor, fd, fifo, sent, got, raced>>

Program ==
  \/ Open \/ PrintPid \/ Decide \/ Block \/ Read \/ EndDelay
  \/ \E s \in signals : Handle(s)

Next == Interactor \/ Program \/ Quit

(* Both processes are scheduled, and a test has an end.                    *)
Spec == Init /\ [][Next]_vars /\ WF_vars(Interactor) /\ WF_vars(Program)

-----------------------------------------------------------------------------
TypeOK ==
  /\ fifos \in {{}, File} /\ rpipes \subseteq File /\ wpipes \subseteq File /\ opened \subseteq File
  /\ ipc \in {"start", "open", "pid", "next", "write", "write burst", "close", "copy", "exited"}
            \cup DOMAIN AfterSleep
  /\ ppc \in {"none", "open", "print", "decide", "delay", "before", "read", "paused"} \cup Exited
  /\ left \in 0 .. MaxCommands /\ burst \in 0 .. PipeSize + 1
  /\ current \in 0 .. Files /\ want \in 0 .. Files /\ fd \in 0 .. Files
  /\ signals \subseteq File \cup {SIGTERM, SIGRTMAX} /\ term \in BOOLEAN /\ raced \in BOOLEAN
  /\ fifo \in [File -> 0 .. PipeSize]
  /\ \A i \in File : sent[i] = got[i] + fifo[i]

(* A correct program that is never overtaken is accepted, and prints the   *)
(* sum of all that was written to each file: the sleeps are where they     *)
(* have to be, and no command loses a block, whatever the test asks for.   *)
RightSums == prog = "good" /\ ipc = "exited" /\ ~raced => verdict = "OK" /\ got = sent

(* Both wait for each other: the interactor has filled the FIFO it writes  *)
(* to, the program reads another one or waits for a signal.                *)
Jammed ==
  /\ ipc \in {"write", "write burst"} /\ fifo[current] = PipeSize /\ signals = {}
  /\ ppc = "paused" \/ (ppc = "read" /\ fd # current /\ fifo[fd] = 0 /\ fd \in wpipes)

Ended == ipc = "exited" /\ ppc \in Exited /\ fifos = {}

(* A session with a correct program comes to its end, but for one jam: it  *)
(* takes a machine so slow that a signal comes just before a read, or two  *)
(* signals together, to be handled in the other order.                     *)
EndsOrJams == prog = "good" ~> Ended \/ (Jammed /\ raced)

(* The delay does its work: a program that does not block its signals      *)
(* misses SIGTERM and never gets to print anything.                        *)
DelayCatches == prog = "unblocked" /\ delayed /\ ~raced => verdict # "OK"

(* Whatever the program is, it is not left running by an interactor that   *)
(* has found it wrong.                                                     *)
WrongIsKilled == verdict \in {"PE", "WA"} ~> Ended
=============================================================================
