---------------------------- MODULE NetSigProofs ----------------------------
(***************************************************************************)
(* Proofs about the sessions of the two tasks on signals, for any numbers  *)
(* of FIFOs, of commands and of blocks a FIFO holds.                       *)
(***************************************************************************)
EXTENDS MCNetSig, SequenceTheorems, FiniteSetTheorems, TLAPS

(***************************************************************************)
(* files.  Unless a sleep was too short, the program is where the          *)
(* interactor believes it to be (GoodRun): it has the signal that was sent,*)
(* reads the FIFO that is written, and has read all when the next signal   *)
(* is sent.  A program that is delayed gets SIGTERM in the delay and ends  *)
(* up in its pause (DelayedRun).                                           *)
(***************************************************************************)
Moving == {"next", "write", "write burst", "after burst", "before kill", "last"}
Ending == {"close", "copy", "exited"}
Looping == {"decide", "delay", "before", "read", "paused"}

IpcSet == {"start", "open", "pid", "next", "write", "write burst", "close", "copy", "exited",
           "before kill", "after kill", "after burst", "last"}
PpcSet == {"none", "open", "print", "decide", "delay", "before", "read", "paused", "dead", "silent"}

FilesTyped ==
  /\ fifos \in {{}, File} /\ rpipes \subseteq File /\ wpipes \subseteq File /\ opened \subseteq File
  /\ ipc \in IpcSet /\ ppc \in PpcSet
  /\ left \in 0 .. MaxCommands /\ burst \in 0 .. PipeSize + 1
  /\ current \in 0 .. Files /\ want \in 0 .. Files /\ fd \in 0 .. Files
  /\ signals \subseteq 0 .. Files + 1 /\ term \in BOOLEAN /\ raced \in BOOLEAN
  /\ verdict \in {"none", "OK", "WA", "PE"}
  /\ prog \in {"good", "unblocked", "liar", "quits"} /\ delayed \in BOOLEAN

(* The sums, and what has to hold where a FIFO is written, read or opened. *)
FilesCounted ==
  /\ fifo \in [File -> 0 .. PipeSize] /\ sent \in [File -> Nat] /\ got \in [File -> Nat]
  /\ \A i \in File : sent[i] = got[i] + fifo[i]

FilesPlaced ==
  /\ ipc \in {"write", "write burst"} => current \in wpipes /\ burst >= 1
  /\ ipc \in {"before kill", "after kill"} => current \in File
  /\ ppc = "read" => fd \in File
  /\ ipc \in {"start", "open"} => \E k \in 0 .. Files : wpipes = 1 .. k
  /\ ppc \in {"none", "open"} => \E k \in 0 .. Files : opened = 1 .. k
  /\ ipc = "start" <=> ppc = "none"
  /\ delayed => left = 0

(* The program makes of want what it should.                               *)
Follows ==
  /\ ppc \in {"before", "read"} => fd = want
  /\ ppc \in {"paused", "delay"} => want \notin opened

Drained == \A i \in File : fifo[i] = 0

(* Before the first command.                                               *)
Beginning ==
  /\ signals = {} /\ want = 0 /\ Drained /\ current = 0 /\ ~term /\ verdict = "none"
  /\ ppc \in {"none", "open", "print", "decide", "paused", "delay"}
  /\ ppc \in {"print", "decide", "paused", "delay"} => opened = File

InStep ==
  /\ signals = {} /\ Follows
  /\ ipc # "before kill" /\ current # 0 => want = current
  /\ \A i \in File : fifo[i] > 0 => i = want /\ i \in opened

Told ==
  \/ signals = {current} /\ (ppc \in {"paused", "delay"} \/ (ppc = "read" /\ fd \in wpipes))
  \/ signals = {} /\ want = current /\ Follows

GoodRun ==
  /\ ipc \in {"start", "open", "pid"} => Beginning
  /\ ipc \in Moving \cup {"after kill"} =>
       ~term /\ verdict = "none" /\ ppc \in Looping /\ wpipes \subseteq opened
  /\ ipc \in Moving => InStep
  /\ ipc = "after kill" => Drained /\ Told
  /\ ipc \in Ending => Drained
  /\ ipc \in {"close", "copy"} => verdict = "none"
  /\ ipc = "exited" => verdict = "OK"

GoodInv == prog = "good" /\ ~raced => GoodRun

DelayedRun ==
  /\ current = 0 /\ want = 0 /\ fd = 0 /\ verdict = "none"
  /\ ipc \in {"start", "open", "pid", "next", "last", "close", "copy"}
  /\ ipc \in {"start", "open", "pid", "next", "last"} =>
       signals = {} /\ ~term /\ ppc \in {"none", "open", "print", "decide", "delay"}
  /\ ipc \in {"close", "copy"} =>
       \/ signals = {0} /\ ppc = "delay" /\ ~term
       \/ signals = {} /\ term /\ ppc \in {"before", "paused"}

DelayedInv == prog = "unblocked" /\ delayed /\ ~raced => DelayedRun

FilesInv == FilesTyped /\ FilesCounted /\ FilesPlaced /\ GoodInv /\ DelayedInv

-----------------------------------------------------------------------------
LEMMA Naturals3 == Files \in Nat /\ PipeSize \in Nat /\ MaxCommands \in Nat
BY BoundsAssumption

(* The FIFOs are opened one by one, in their order.                        *)
LEMMA OneMore ==
  ASSUME NEW k \in 0 .. Files, NEW s, s = 1 .. k, NEW i, i = Cardinality(s) + 1
  PROVE  /\ i = k + 1
         /\ i > Files => s = File
         /\ ~(i > Files) => k + 1 \in 0 .. Files /\ s \cup {i} = 1 .. k + 1 /\ i \in File
<1>1. Cardinality(1 .. k) = IF 1 > k THEN 0 ELSE k - 1 + 1
  BY Naturals3, FS_Interval
<1>2. k \in Nat /\ Files \in Nat /\ k <= Files  BY Naturals3
<1>3. i = k + 1  BY <1>1, <1>2
<1>4. 1 .. k + 1 = (1 .. k) \cup {k + 1}  BY <1>2
<1>5. QED  BY <1>2, <1>3, <1>4 DEF File

LEMMA FilesInit == Init => FilesInv
<1> SUFFICES ASSUME Init  PROVE FilesInv  OBVIOUS
<1>1. Files \in Nat /\ PipeSize \in Nat /\ MaxCommands \in Nat  BY BoundsAssumption
<1>2. FilesTyped
  <2>1. left \in 0 .. MaxCommands /\ burst \in 0 .. PipeSize + 1  BY <1>1 DEF Init
  <2>2. current \in 0 .. Files /\ want \in 0 .. Files /\ fd \in 0 .. Files  BY <1>1 DEF Init
  <2>3. QED  BY <2>1, <2>2 DEF Init, FilesTyped, IpcSet, PpcSet
<1>3. FilesCounted  BY <1>1 DEF Init, FilesCounted, Nothing
<1>4. FilesPlaced
  <2>1. {} = 1 .. 0 /\ 0 \in 0 .. Files  BY <1>1
  <2>2. QED  BY <2>1 DEF Init, FilesPlaced
<1>5. GoodInv  BY DEF Init, GoodInv, GoodRun, Beginning, Drained, Nothing, Moving, Ending
<1>6. DelayedInv  BY DEF Init, DelayedInv, DelayedRun
<1>7. QED  BY <1>2, <1>3, <1>4, <1>5, <1>6 DEF FilesInv

LEMMA StartKeeps ==
  ASSUME FilesInv, Start
  PROVE  FilesInv'
<1>1. FilesTyped'
  BY Naturals3 DEF FilesInv, FilesTyped, FilesPlaced, IpcSet, PpcSet, File,
     Start, File, session, interactor, program
<1>2. FilesCounted'
  BY Naturals3 DEF FilesInv, FilesCounted, FilesTyped, FilesPlaced,
     Start, File, session, interactor, program
<1>3. FilesPlaced'
  BY Naturals3 DEF FilesInv, FilesTyped, FilesPlaced, IpcSet, PpcSet, File,
     Start, File, session, interactor, program
<1>4. GoodInv'
  <2> SUFFICES ASSUME prog' = "good", ~raced'  PROVE GoodRun'  BY DEF GoodInv
  <2>1. GoodRun  BY DEF FilesInv, FilesTyped, GoodInv, Start, File, session, interactor, program
  <2>2. QED
    BY Naturals3, <2>1
    DEF FilesInv, FilesTyped, FilesPlaced, FilesCounted, IpcSet, PpcSet, File, GoodRun, Beginning,
        InStep, Told, Follows, Drained, Moving, Ending, Looping,
        Start, File, session, interactor, program
<1>5. DelayedInv'
  <2> SUFFICES ASSUME prog' = "unblocked", delayed', ~raced'  PROVE DelayedRun'
    BY DEF DelayedInv
  <2>1. DelayedRun  BY DEF FilesInv, FilesTyped, DelayedInv, Start, File, session, interactor, program
  <2>2. QED
    BY Naturals3, <2>1 DEF FilesInv, FilesTyped, FilesPlaced, DelayedRun, Start, File, session, interactor, program
<1>6. QED  BY <1>1, <1>2, <1>3, <1>4, <1>5 DEF FilesInv

LEMMA StopKeeps ==
  ASSUME FilesInv, Stop
  PROVE  FilesInv'
<1>1. FilesTyped'
  BY Naturals3 DEF FilesInv, FilesTyped, FilesPlaced, IpcSet, PpcSet, File,
     Stop, Exited, session, interactor, program
<1>2. FilesCounted'
  BY Naturals3 DEF FilesInv, FilesCounted, FilesTyped, FilesPlaced,
     Stop, Exited, session, interactor, program
<1>3. FilesPlaced'
  BY Naturals3 DEF FilesInv, FilesTyped, FilesPlaced, IpcSet, PpcSet, File,
     Stop, Exited, session, interactor, program
<1>4. GoodInv'
  <2> SUFFICES ASSUME prog' = "good", ~raced'  PROVE GoodRun'  BY DEF GoodInv
  <2>1. GoodRun  BY DEF FilesInv, FilesTyped, GoodInv, Stop, Exited, session, interactor, program
  <2>2. QED
    BY Naturals3, <2>1
    DEF FilesInv, FilesTyped, FilesPlaced, FilesCounted, IpcSet, PpcSet, File, GoodRun, Beginning,
        InStep, Told, Follows, Drained, Moving, Ending, Looping,
        Stop, Exited, session, interactor, program
<1>5. DelayedInv'
  <2> SUFFICES ASSUME prog' = "unblocked", delayed', ~raced'  PROVE DelayedRun'
    BY DEF DelayedInv
  <2>1. DelayedRun  BY DEF FilesInv, FilesTyped, DelayedInv, Stop, Exited, session, interactor, program
  <2>2. QED
    BY Naturals3, <2>1 DEF FilesInv, FilesTyped, FilesPlaced, DelayedRun, Stop, Exited, session, interactor, program
<1>6. QED  BY <1>1, <1>2, <1>3, <1>4, <1>5 DEF FilesInv

LEMMA ClosePipeKeeps ==
  ASSUME FilesInv, ClosePipe
  PROVE  FilesInv'
<1>1. FilesTyped'
  BY Naturals3 DEF FilesInv, FilesTyped, FilesPlaced, IpcSet, PpcSet, File,
     ClosePipe, NextCommand, session, interactor, program
<1>2. FilesCounted'
  BY Naturals3 DEF FilesInv, FilesCounted, FilesTyped, FilesPlaced,
     ClosePipe, NextCommand, session, interactor, program
<1>3. FilesPlaced'
  BY Naturals3 DEF FilesInv, FilesTyped, FilesPlaced, IpcSet, PpcSet, File,
     ClosePipe, NextCommand, session, interactor, program
<1>4. GoodInv'
  <2> SUFFICES ASSUME prog' = "good", ~raced'  PROVE GoodRun'  BY DEF GoodInv
  <2>1. GoodRun  BY DEF FilesInv, FilesTyped, GoodInv, ClosePipe, NextCommand, session, interactor, program
  <2>2. QED
    BY Naturals3, <2>1
    DEF FilesInv, FilesTyped, FilesPlaced, FilesCounted, IpcSet, PpcSet, File, GoodRun, Beginning,
        InStep, Told, Follows, Drained, Moving, Ending, Looping,
        ClosePipe, NextCommand, session, interactor, program
<1>5. DelayedInv'
  <2> SUFFICES ASSUME prog' = "unblocked", delayed', ~raced'  PROVE DelayedRun'
    BY DEF DelayedInv
  <2>1. DelayedRun  BY DEF FilesInv, FilesTyped, DelayedInv, ClosePipe, NextCommand, session, interactor, program
  <2>2. QED
    BY Naturals3, <2>1 DEF FilesInv, FilesTyped, FilesPlaced, DelayedRun, ClosePipe, NextCommand, session, interactor, program
<1>6. QED  BY <1>1, <1>2, <1>3, <1>4, <1>5 DEF FilesInv

LEMMA EndOfTestKeeps ==
  ASSUME FilesInv, EndOfTest
  PROVE  FilesInv'
<1>1. FilesTyped'
  BY Naturals3 DEF FilesInv, FilesTyped, FilesPlaced, IpcSet, PpcSet, File,
     EndOfTest, session, interactor, program
<1>2. FilesCounted'
  BY Naturals3 DEF FilesInv, FilesCounted, FilesTyped, FilesPlaced,
     EndOfTest, session, interactor, program
<1>3. FilesPlaced'
  BY Naturals3 DEF FilesInv, FilesTyped, FilesPlaced, IpcSet, PpcSet, File,
     EndOfTest, session, interactor, program
<1>4. GoodInv'
  <2> SUFFICES ASSUME prog' = "good", ~raced'  PROVE GoodRun'  BY DEF GoodInv
  <2>1. GoodRun  BY DEF FilesInv, FilesTyped, GoodInv, EndOfTest, session, interactor, program
  <2>2. QED
    BY Naturals3, <2>1
    DEF FilesInv, FilesTyped, FilesPlaced, FilesCounted, IpcSet, PpcSet, File, GoodRun, Beginning,
        InStep, Told, Follows, Drained, Moving, Ending, Looping,
        EndOfTest, session, interactor, program
<1>5. DelayedInv'
  <2> SUFFICES ASSUME prog' = "unblocked", delayed', ~raced'  PROVE DelayedRun'
    BY DEF DelayedInv
  <2>1. DelayedRun  BY DEF FilesInv, FilesTyped, DelayedInv, EndOfTest, session, interactor, program
  <2>2. QED
    BY Naturals3, <2>1 DEF FilesInv, FilesTyped, FilesPlaced, DelayedRun, EndOfTest, session, interactor, program
<1>6. QED  BY <1>1, <1>2, <1>3, <1>4, <1>5 DEF FilesInv

LEMMA ClosePipesKeeps ==
  ASSUME FilesInv, ClosePipes
  PROVE  FilesInv'
<1>1. FilesTyped'
  BY Naturals3 DEF FilesInv, FilesTyped, FilesPlaced, IpcSet, PpcSet, File,
     ClosePipes, session, interactor, program
<1>2. FilesCounted'
  BY Naturals3 DEF FilesInv, FilesCounted, FilesTyped, FilesPlaced,
     ClosePipes, session, interactor, program
<1>3. FilesPlaced'
  BY Naturals3 DEF FilesInv, FilesTyped, FilesPlaced, IpcSet, PpcSet, File,
     ClosePipes, session, interactor, program
<1>4. GoodInv'
  <2> SUFFICES ASSUME prog' = "good", ~raced'  PROVE GoodRun'  BY DEF GoodInv
  <2>1. GoodRun  BY DEF FilesInv, FilesTyped, GoodInv, ClosePipes, session, interactor, program
  <2>2. QED
    BY Naturals3, <2>1
    DEF FilesInv, FilesTyped, FilesPlaced, FilesCounted, IpcSet, PpcSet, File, GoodRun, Beginning,
        InStep, Told, Follows, Drained, Moving, Ending, Looping,
        ClosePipes, session, interactor, program
<1>5. DelayedInv'
  <2> SUFFICES ASSUME prog' = "unblocked", delayed', ~raced'  PROVE DelayedRun'
    BY DEF DelayedInv
  <2>1. DelayedRun  BY DEF FilesInv, FilesTyped, DelayedInv, ClosePipes, session, interactor, program
  <2>2. QED
    BY Naturals3, <2>1 DEF FilesInv, FilesTyped, FilesPlaced, DelayedRun, ClosePipes, session, interactor, program
<1>6. QED  BY <1>1, <1>2, <1>3, <1>4, <1>5 DEF FilesInv

LEMMA CopyOutputKeeps ==
  ASSUME FilesInv, CopyOutput
  PROVE  FilesInv'
<1>1. FilesTyped'
  BY Naturals3 DEF FilesInv, FilesTyped, FilesPlaced, IpcSet, PpcSet, File,
     CopyOutput, Exited, session, interactor, program
<1>2. FilesCounted'
  BY Naturals3 DEF FilesInv, FilesCounted, FilesTyped, FilesPlaced,
     CopyOutput, Exited, session, interactor, program
<1>3. FilesPlaced'
  BY Naturals3 DEF FilesInv, FilesTyped, FilesPlaced, IpcSet, PpcSet, File,
     CopyOutput, Exited, session, interactor, program
<1>4. GoodInv'
  <2> SUFFICES ASSUME prog' = "good", ~raced'  PROVE GoodRun'  BY DEF GoodInv
  <2>1. GoodRun  BY DEF FilesInv, FilesTyped, GoodInv, CopyOutput, Exited, session, interactor, program
  <2>2. QED
    BY Naturals3, <2>1
    DEF FilesInv, FilesTyped, FilesPlaced, FilesCounted, IpcSet, PpcSet, File, GoodRun, Beginning,
        InStep, Told, Follows, Drained, Moving, Ending, Looping,
        CopyOutput, Exited, session, interactor, program
<1>5. DelayedInv'
  <2> SUFFICES ASSUME prog' = "unblocked", delayed', ~raced'  PROVE DelayedRun'
    BY DEF DelayedInv
  <2>1. DelayedRun  BY DEF FilesInv, FilesTyped, DelayedInv, CopyOutput, Exited, session, interactor, program
  <2>2. QED
    BY Naturals3, <2>1 DEF FilesInv, FilesTyped, FilesPlaced, DelayedRun, CopyOutput, Exited, session, interactor, program
<1>6. QED  BY <1>1, <1>2, <1>3, <1>4, <1>5 DEF FilesInv

LEMMA QuitKeeps ==
  ASSUME FilesInv, Quit
  PROVE  FilesInv'
<1>1. FilesTyped'
  BY ZenonT(40), Naturals3 DEF FilesInv, FilesTyped, FilesPlaced, IpcSet, PpcSet, File,
     Quit, session, interactor, program
<1>2. FilesCounted'
  BY Naturals3 DEF FilesInv, FilesCounted, FilesTyped, FilesPlaced,
     Quit, session, interactor, program
<1>3. FilesPlaced'
  BY Naturals3 DEF FilesInv, FilesTyped, FilesPlaced, IpcSet, PpcSet, File,
     Quit, session, interactor, program
<1>4. GoodInv'
  <2> SUFFICES ASSUME prog' = "good", ~raced'  PROVE GoodRun'  BY DEF GoodInv
  <2>1. GoodRun  BY DEF FilesInv, FilesTyped, GoodInv, Quit, session, interactor, program
  <2>2. QED
    BY Naturals3, <2>1
    DEF FilesInv, FilesTyped, FilesPlaced, FilesCounted, IpcSet, PpcSet, File, GoodRun, Beginning,
        InStep, Told, Follows, Drained, Moving, Ending, Looping,
        Quit, session, interactor, program
<1>5. DelayedInv'
  <2> SUFFICES ASSUME prog' = "unblocked", delayed', ~raced'  PROVE DelayedRun'
    BY DEF DelayedInv
  <2>1. DelayedRun  BY DEF FilesInv, FilesTyped, DelayedInv, Quit, session, interactor, program
  <2>2. QED
    BY Naturals3, <2>1 DEF FilesInv, FilesTyped, FilesPlaced, DelayedRun, Quit, session, interactor, program
<1>6. QED  BY <1>1, <1>2, <1>3, <1>4, <1>5 DEF FilesInv

LEMMA EndDelayKeeps ==
  ASSUME FilesInv, EndDelay
  PROVE  FilesInv'
<1>1. FilesTyped'
  BY ZenonT(40), Naturals3 DEF FilesInv, FilesTyped, FilesPlaced, IpcSet, PpcSet, File,
     EndDelay, Deaf, session, interactor, program
<1>2. FilesCounted'
  BY Naturals3 DEF FilesInv, FilesCounted, FilesTyped, FilesPlaced,
     EndDelay, Deaf, session, interactor, program
<1>3. FilesPlaced'
  BY Naturals3 DEF FilesInv, FilesTyped, FilesPlaced, IpcSet, PpcSet, File,
     EndDelay, Deaf, session, interactor, program
<1>4. GoodInv'
  <2> SUFFICES ASSUME prog' = "good", ~raced'  PROVE GoodRun'  BY DEF GoodInv
  <2>1. GoodRun  BY DEF FilesInv, FilesTyped, GoodInv, EndDelay, Deaf, session, interactor, program
  <2>2. QED
    BY Naturals3, <2>1
    DEF FilesInv, FilesTyped, FilesPlaced, FilesCounted, IpcSet, PpcSet, File, GoodRun, Beginning,
        InStep, Told, Follows, Drained, Moving, Ending, Looping,
        EndDelay, Deaf, session, interactor, program
<1>5. DelayedInv'
  <2> SUFFICES ASSUME prog' = "unblocked", delayed', ~raced'  PROVE DelayedRun'
    BY DEF DelayedInv
  <2>1. DelayedRun  BY DEF FilesInv, FilesTyped, DelayedInv, EndDelay, Deaf, session, interactor, program
  <2>2. QED
    BY Naturals3, <2>1 DEF FilesInv, FilesTyped, FilesPlaced, DelayedRun, EndDelay, Deaf, session, interactor, program
<1>6. QED  BY <1>1, <1>2, <1>3, <1>4, <1>5 DEF FilesInv

LEMMA OneLess ==
  left \in 0 .. MaxCommands /\ left > 0 => left - 1 \in 0 .. MaxCommands /\ left # 0
BY Naturals3

LEMMA OpenPipesKeeps ==
  ASSUME FilesInv, OpenPipes
  PROVE  FilesInv'
<1>1. PICK i : i = Cardinality(wpipes) + 1  OBVIOUS
<1>2. PICK k \in 0 .. Files : wpipes = 1 .. k  BY DEF OpenPipes, FilesInv, FilesPlaced
<1>3. /\ i > Files => wpipes = File
      /\ ~(i > Files) => k + 1 \in 0 .. Files /\ wpipes \cup {i} = 1 .. k + 1 /\ i \in File
  BY <1>1, <1>2, OneMore
<1>4. /\ ipc = "open"
      /\ \/ ipc' = "pid" /\ rpipes' = rpipes /\ wpipes' = wpipes
         \/ ~(i > Files) /\ rpipes' = rpipes \cup {i} /\ wpipes' = wpipes \cup {i} /\ ipc' = ipc
      /\ UNCHANGED <<fifos, prog, delayed, left, current, burst, verdict, ppc, want, term, fd, opened, got,
                     signals, fifo, sent, raced>>
  BY <1>1 DEF OpenPipes, session, program
<1>5. FilesTyped'  BY <1>3, <1>4 DEF FilesInv, FilesTyped, IpcSet
<1>6. FilesCounted'  BY <1>4 DEF FilesInv, FilesCounted
<1>7. FilesPlaced'
  <2>1. ipc' \in {"start", "open"} => \E l \in 0 .. Files : wpipes' = 1 .. l  BY <1>3, <1>4
  <2>2. QED  BY <1>4, <2>1 DEF FilesInv, FilesPlaced
<1>8. GoodInv'
  BY <1>4 DEF FilesInv, GoodInv, GoodRun, Beginning, Drained, Moving, Ending
<1>9. DelayedInv'  BY <1>4 DEF FilesInv, DelayedInv, DelayedRun
<1>10. QED  BY <1>5, <1>6, <1>7, <1>8, <1>9 DEF FilesInv

LEMMA OpenKeeps ==
  ASSUME FilesInv, Open
  PROVE  FilesInv'
<1>1. PICK i : i = Cardinality(opened) + 1  OBVIOUS
<1>2. PICK k \in 0 .. Files : opened = 1 .. k  BY DEF Open, FilesInv, FilesPlaced
<1>3. /\ i > Files => opened = File
      /\ ~(i > Files) => k + 1 \in 0 .. Files /\ opened \cup {i} = 1 .. k + 1 /\ i \in File
  BY <1>1, <1>2, OneMore
<1>4. /\ ppc = "open"
      /\ \/ i > Files /\ ppc' = "print" /\ opened' = opened
         \/ ~(i > Files) /\ opened' = opened \cup {i} /\ ppc' = ppc
      /\ UNCHANGED <<fifos, prog, delayed, ipc, left, current, burst, rpipes, wpipes, verdict, want, term, fd,
                     got, signals, fifo, sent, raced>>
  BY <1>1 DEF Open, session, interactor
<1>5. FilesTyped'  BY <1>3, <1>4 DEF FilesInv, FilesTyped, PpcSet
<1>6. FilesCounted'  BY <1>4 DEF FilesInv, FilesCounted
<1>7. FilesPlaced'
  <2>1. ppc' \in {"none", "open"} => \E l \in 0 .. Files : opened' = 1 .. l  BY <1>3, <1>4
  <2>2. QED  BY <1>4, <2>1 DEF FilesInv, FilesPlaced
<1>8. GoodInv'
  <2> SUFFICES ASSUME prog' = "good", ~raced'  PROVE GoodRun'  BY DEF GoodInv
  <2>1. GoodRun  BY <1>4 DEF FilesInv, GoodInv
  <2>2. ipc \notin Moving \cup {"after kill"}  BY <1>4, <2>1 DEF GoodRun, Looping
  <2>3. Beginning => Beginning'  BY <1>3, <1>4 DEF Beginning, Drained
  <2>4. QED  BY <1>4, <2>1, <2>2, <2>3 DEF GoodRun, Moving, Drained
<1>9. DelayedInv'  BY <1>4 DEF FilesInv, DelayedInv, DelayedRun
<1>10. QED  BY <1>5, <1>6, <1>7, <1>8, <1>9 DEF FilesInv

LEMMA ReadPidKeeps ==
  ASSUME FilesInv, ReadPid
  PROVE  FilesInv'
<1>1. /\ ipc = "pid" /\ ppc \notin {"none", "open", "print"}
      /\ UNCHANGED <<fifos, prog, delayed, left, current, burst, ppc, want, term, fd, opened, got, fifo, sent, raced>>
  BY DEF ReadPid, session, program, FilesInv, FilesPlaced
<1>2. \/ /\ ppc = "silent" \/ prog = "liar"
         /\ signals' = signals \cup {Files + 1} /\ verdict' \in {"PE", "WA"}
         /\ ipc' = "exited" /\ rpipes' = {} /\ wpipes' = {}
      \/ /\ ppc # "silent" /\ prog # "liar"
         /\ rpipes' = {} /\ ipc' = "next" /\ UNCHANGED <<wpipes, verdict, signals>>
  BY DEF ReadPid, KillAndExit, SIGRTMAX
<1>3. FilesTyped'
  <2>1. Files + 1 \in 0 .. Files + 1  BY Naturals3
  <2>2. signals' \subseteq 0 .. Files + 1  BY <1>2, <2>1 DEF FilesInv, FilesTyped
  <2>3. ipc' \in IpcSet /\ rpipes' \subseteq File /\ wpipes' \subseteq File
        /\ verdict' \in {"none", "OK", "WA", "PE"}
    BY <1>2 DEF FilesInv, FilesTyped, IpcSet
  <2>4. QED  BY <1>1, <2>2, <2>3 DEF FilesInv, FilesTyped
<1>4. FilesCounted'  BY <1>1 DEF FilesInv, FilesCounted
<1>5. FilesPlaced'
  <2>1. ipc' \in {"exited", "next"}  BY <1>2
  <2>2. QED  BY <1>1, <2>1 DEF FilesInv, FilesPlaced
<1>6. GoodInv'
  <2> SUFFICES ASSUME prog' = "good", ~raced'  PROVE GoodRun'  BY DEF GoodInv
  <2>1. GoodRun /\ Beginning  BY <1>1 DEF FilesInv, GoodInv, GoodRun
  <2>2. ppc \in {"decide", "paused", "delay"} /\ opened = File  BY <1>1, <2>1 DEF Beginning
  <2>3. ipc' = "next" /\ UNCHANGED <<wpipes, verdict, signals>>  BY <1>1, <1>2, <2>2
  <2>4. 0 \notin File  BY DEF File
  <2>5. InStep'
    <3>1. signals' = {} /\ current' = 0 /\ want' = 0 /\ \A i \in File : fifo'[i] = 0
      BY <1>1, <2>1, <2>3 DEF Beginning, Drained
    <3>2. Follows'  BY <1>1, <2>2, <2>4, <3>1 DEF Follows
    <3>3. QED  BY <3>1, <3>2 DEF InStep
  <2>6. wpipes' \subseteq opened'  BY <1>1, <2>2, <2>3 DEF FilesInv, FilesTyped
  <2>7. ~term' /\ verdict' = "none" /\ ppc' \in Looping
    BY <1>1, <2>1, <2>2, <2>3 DEF Beginning, Looping
  <2>8. QED  BY <2>3, <2>5, <2>6, <2>7 DEF GoodRun, Ending
<1>7. DelayedInv'
  <2> SUFFICES ASSUME prog' = "unblocked", delayed', ~raced'  PROVE DelayedRun'
    BY DEF DelayedInv
  <2>1. DelayedRun  BY <1>1 DEF FilesInv, DelayedInv
  <2>2. QED  BY <1>1, <1>2, <2>1 DEF DelayedRun
<1>8. QED  BY <1>3, <1>4, <1>5, <1>6, <1>7 DEF FilesInv

LEMMA SwitchKeeps ==
  ASSUME NEW i \in 0 .. Files, FilesInv, Switch(i)
  PROVE  FilesInv'
<1>1. /\ ipc = "next" /\ left > 0 /\ left' = left - 1 /\ current' = i
      /\ ipc' = (IF i = 0 THEN "next" ELSE "before kill")
      /\ UNCHANGED <<fifos, prog, delayed, burst, rpipes, wpipes, verdict, ppc, want, term, fd, opened, got,
                     signals, fifo, sent, raced>>
  BY DEF Switch, NextCommand, session, program
<1>2. ipc' \in {"next", "before kill"} /\ (ipc' = "before kill" => i \in File) /\ (ipc' = "next" => i = 0)
  <2>1. i # 0 => i \in File  BY Naturals3 DEF File
  <2>2. QED  BY <1>1, <2>1
<1>3. left \in 0 .. MaxCommands /\ left' \in 0 .. MaxCommands /\ left # 0
  <2>1. left \in 0 .. MaxCommands  BY DEF FilesInv, FilesTyped
  <2>2. QED  BY <1>1, <2>1, OneLess
<1>4. FilesTyped'  BY <1>1, <1>2, <1>3 DEF FilesInv, FilesTyped, IpcSet
<1>5. FilesCounted'  BY <1>1 DEF FilesInv, FilesCounted
<1>6. FilesPlaced'  BY <1>1, <1>2, <1>3 DEF FilesInv, FilesPlaced
<1>7. GoodInv'
  BY <1>1, <1>2 DEF FilesInv, GoodInv, GoodRun, InStep, Follows, Moving, Ending, Looping
<1>8. DelayedInv'  BY <1>1, <1>3 DEF FilesInv, FilesPlaced, DelayedInv
<1>9. QED  BY <1>4, <1>5, <1>6, <1>7, <1>8 DEF FilesInv

LEMMA BlocksKeeps ==
  ASSUME NEW n \in 1 .. PipeSize + 1, FilesInv, Blocks(n)
  PROVE  FilesInv'
<1>1. /\ ipc = "next" /\ left > 0 /\ left' = left - 1
      /\ UNCHANGED <<fifos, prog, delayed, current, rpipes, wpipes, verdict, ppc, want, term, fd, opened, got,
                     signals, fifo, sent, raced>>
      /\ \/ current \in wpipes /\ ipc' \in {"write", "write burst"} /\ burst' = n
         \/ ipc' = "next" /\ burst' = burst
  BY DEF Blocks, NextCommand, session, program
<1>2. n \in 0 .. PipeSize + 1 /\ n >= 1  BY Naturals3
<1>3. left \in 0 .. MaxCommands /\ left' \in 0 .. MaxCommands /\ left # 0
  <2>1. left \in 0 .. MaxCommands  BY DEF FilesInv, FilesTyped
  <2>2. QED  BY <1>1, <2>1, OneLess
<1>4. FilesTyped'  BY <1>1, <1>2, <1>3 DEF FilesInv, FilesTyped, IpcSet
<1>5. FilesCounted'  BY <1>1 DEF FilesInv, FilesCounted
<1>6. FilesPlaced'  BY <1>1, <1>2, <1>3 DEF FilesInv, FilesPlaced
<1>7. GoodInv'
  BY <1>1 DEF FilesInv, GoodInv, GoodRun, InStep, Follows, Moving, Ending, Looping
<1>8. DelayedInv'  BY <1>1, <1>3 DEF FilesInv, FilesPlaced, DelayedInv
<1>9. QED  BY <1>4, <1>5, <1>6, <1>7, <1>8 DEF FilesInv

LEMMA PrintPidKeeps ==
  ASSUME FilesInv, PrintPid
  PROVE  FilesInv'
<1>1. /\ ppc = "print" /\ ppc' = "decide"
      /\ UNCHANGED <<fifos, prog, delayed, ipc, left, current, burst, rpipes, wpipes, verdict, want, term, fd,
                     opened, got, signals, fifo, sent, raced>>
  BY DEF PrintPid, session, interactor
<1>2. FilesTyped'  BY <1>1 DEF FilesInv, FilesTyped, PpcSet
<1>3. FilesCounted'  BY <1>1 DEF FilesInv, FilesCounted
<1>4. FilesPlaced'  BY <1>1 DEF FilesInv, FilesPlaced
<1>5. GoodInv'
  <2> SUFFICES ASSUME prog' = "good", ~raced'  PROVE GoodRun'  BY DEF GoodInv
  <2>1. GoodRun  BY <1>1 DEF FilesInv, GoodInv
  <2>2. ipc \notin Moving \cup {"after kill"}  BY <1>1, <2>1 DEF GoodRun, Looping
  <2>3. Beginning => Beginning'  BY <1>1 DEF Beginning, Drained
  <2>4. QED  BY <1>1, <2>1, <2>2, <2>3 DEF GoodRun, Moving, Drained
<1>6. DelayedInv'  BY <1>1 DEF FilesInv, DelayedInv, DelayedRun
<1>7. QED  BY <1>2, <1>3, <1>4, <1>5, <1>6 DEF FilesInv

LEMMA PipeWriteKeeps ==
  ASSUME FilesInv, Write
  PROVE  FilesInv'
<1>1. /\ ipc \in {"write", "write burst"}
      /\ UNCHANGED <<fifos, prog, delayed, left, current, ppc, want, term, fd, opened, got, raced>>
  BY DEF Write, session, program
<1>2. /\ current \in wpipes /\ burst >= 1 /\ wpipes \subseteq File /\ current \in File
      /\ burst \in 0 .. PipeSize + 1
  BY <1>1 DEF FilesInv, FilesPlaced, FilesTyped
<1>3. DelayedInv'
  <2>1. ~(prog = "unblocked" /\ delayed /\ ~raced)  BY <1>1 DEF FilesInv, DelayedInv, DelayedRun
  <2>2. QED  BY <1>1, <2>1 DEF DelayedInv
<1>4. CASE current \notin opened
  <2>1. /\ signals' = signals \cup {Files + 1} /\ verdict' = "WA" /\ ipc' = "exited"
        /\ rpipes' = {} /\ wpipes' = {} /\ UNCHANGED <<burst, fifo, sent>>
    BY <1>4 DEF Write, KillAndExit, SIGRTMAX
  <2>2. FilesTyped'
    <3>1. Files + 1 \in 0 .. Files + 1  BY Naturals3
    <3>2. signals' \subseteq 0 .. Files + 1  BY <2>1, <3>1 DEF FilesInv, FilesTyped
    <3>3. QED  BY <1>1, <2>1, <3>2 DEF FilesInv, FilesTyped, IpcSet
  <2>3. FilesCounted'  BY <1>1, <2>1 DEF FilesInv, FilesCounted
  <2>4. FilesPlaced'  BY <1>1, <2>1 DEF FilesInv, FilesPlaced
  <2>5. GoodInv'
    <3>1. ~(prog = "good" /\ ~raced)  BY <1>1, <1>2, <1>4 DEF FilesInv, GoodInv, GoodRun, Moving
    <3>2. QED  BY <1>1, <3>1 DEF GoodInv
  <2>6. QED  BY <1>3, <2>2, <2>3, <2>4, <2>5 DEF FilesInv
<1>5. CASE current \in opened
  <2>1. /\ fifo[current] < PipeSize
        /\ fifo' = [fifo EXCEPT ![current] = fifo[current] + 1]
        /\ sent' = [sent EXCEPT ![current] = sent[current] + 1]
        /\ burst' = burst - 1
        /\ ipc' = (IF burst > 1 THEN ipc ELSE IF ipc = "write" THEN "next" ELSE "after burst")
        /\ UNCHANGED <<rpipes, wpipes, verdict, signals>>
    BY <1>5 DEF Write
  <2>2. /\ burst' \in 0 .. PipeSize + 1 /\ (burst > 1 => burst' >= 1)
        /\ ipc' \in {"write", "write burst", "next", "after burst"}
        /\ (ipc' \in {"write", "write burst"} => burst > 1)
    <3>1. \A b \in 0 .. PipeSize + 1 :
            b >= 1 => b - 1 \in 0 .. PipeSize + 1 /\ (b > 1 => b - 1 >= 1)
      BY Naturals3
    <3>2. burst' \in 0 .. PipeSize + 1 /\ (burst > 1 => burst' >= 1)  BY <1>2, <2>1, <3>1
    <3>3. QED  BY <1>1, <2>1, <3>2
  <2>3. FilesTyped'  BY <1>1, <2>1, <2>2 DEF FilesInv, FilesTyped, IpcSet
  <2>4. FilesCounted'
    <3>1. /\ fifo \in [File -> 0 .. PipeSize] /\ sent \in [File -> Nat] /\ got \in [File -> Nat]
          /\ \A i \in File : sent[i] = got[i] + fifo[i]
      BY DEF FilesInv, FilesCounted
    <3>2. fifo[current] + 1 \in 0 .. PipeSize /\ sent[current] + 1 \in Nat
      <4>1. \A b \in 0 .. PipeSize : b < PipeSize => b + 1 \in 0 .. PipeSize  BY Naturals3
      <4>2. fifo[current] \in 0 .. PipeSize /\ sent[current] \in Nat  BY <1>2, <3>1
      <4>3. fifo[current] < PipeSize  BY <2>1
      <4>4. fifo[current] + 1 \in 0 .. PipeSize  BY <4>1, <4>2, <4>3
      <4>5. sent[current] + 1 \in Nat  BY <4>2
      <4>6. QED  BY <4>4, <4>5
    <3>3. fifo' \in [File -> 0 .. PipeSize] /\ sent' \in [File -> Nat]  BY <2>1, <3>1, <3>2
    <3>4. ASSUME NEW i \in File  PROVE sent'[i] = got'[i] + fifo'[i]
      <4>1. sent[i] = got[i] + fifo[i] /\ sent[i] \in Nat /\ got[i] \in Nat /\ fifo[i] \in Nat
        BY <3>1
      <4>2. CASE i = current
        <5>1. sent'[i] = sent[i] + 1 /\ fifo'[i] = fifo[i] + 1 /\ got'[i] = got[i]
          BY <1>1, <2>1, <3>1, <4>2
        <5>2. QED  BY <4>1, <5>1
      <4>3. CASE i # current  BY <1>1, <2>1, <3>1, <4>1, <4>3
      <4>4. QED  BY <4>2, <4>3
    <3>5. QED  BY <1>1, <3>1, <3>3, <3>4 DEF FilesCounted
  <2>5. FilesPlaced'  BY <1>1, <1>2, <2>1, <2>2 DEF FilesInv, FilesPlaced
  <2>6. GoodInv'
    <3> SUFFICES ASSUME prog' = "good", ~raced'  PROVE GoodRun'  BY DEF GoodInv
    <3>1. GoodRun /\ InStep /\ ipc \in Moving  BY <1>1 DEF FilesInv, GoodInv, GoodRun, Moving
    <3>2. current # 0 /\ want = current
      <4>1. current # 0  BY <1>2 DEF File
      <4>2. ipc # "before kill"  BY <1>1
      <4>3. QED  BY <3>1, <4>1, <4>2 DEF InStep
    <3>3. \A i \in File : i # current => fifo'[i] = fifo[i]  BY <1>2, <2>1 DEF FilesInv, FilesCounted
    <3>4. \A i \in File : fifo'[i] > 0 => i = want' /\ i \in opened'
      BY <1>1, <1>5, <3>1, <3>2, <3>3 DEF InStep
    <3>5. ipc' \in Moving /\ ipc' # "before kill"  BY <2>2 DEF Moving
    <3>6. InStep'  BY <1>1, <2>1, <3>1, <3>2, <3>4 DEF InStep, Follows
    <3>7. ~term' /\ verdict' = "none" /\ ppc' \in Looping /\ wpipes' \subseteq opened'
      BY <1>1, <2>1, <3>1 DEF GoodRun
    <3>8. QED  BY <2>2, <3>6, <3>7 DEF GoodRun, Ending
  <2>7. QED  BY <1>3, <2>3, <2>4, <2>5, <2>6 DEF FilesInv
<1>6. QED  BY <1>4, <1>5

(* A program at rest has read all there is.                                *)
LEMMA RestIsDrained ==
  ASSUME FilesInv, InStep, AtRest, ppc \in Looping
  PROVE  Drained /\ (ppc \in {"paused", "delay"} \/ (ppc = "read" /\ fd \in wpipes))
<1>1. ppc \in {"paused", "delay"} \/ (ppc = "read" /\ fifo[fd] = 0 /\ fd \in wpipes)
  BY DEF AtRest, Exited, Looping
<1>2. \A i \in File : fifo[i] \in Nat  BY DEF FilesInv, FilesCounted
<1>3. ASSUME NEW i \in File, fifo[i] > 0  PROVE FALSE
  <2>1. i = want /\ i \in opened  BY <1>3 DEF InStep
  <2>2. ppc \notin {"paused", "delay"}  BY <2>1 DEF InStep, Follows
  <2>3. fifo[fd] = 0 /\ fd = want  BY <1>1, <2>2 DEF InStep, Follows
  <2>4. fifo[i] = 0  BY <2>1, <2>3
  <2>5. QED  BY <1>3, <2>4
<1>4. QED  BY <1>1, <1>2, <1>3 DEF Drained

LEMMA WakeKeeps ==
  ASSUME FilesInv, Wake
  PROVE  FilesInv'
<1>1. /\ ipc \in {"before kill", "after kill", "after burst", "last"}
      /\ raced' = (raced \/ ~AtRest)
      /\ UNCHANGED <<fifos, prog, delayed, left, current, burst, rpipes, wpipes, verdict, ppc, want, term, fd,
                     opened, got, fifo, sent>>
  BY DEF Wake, AfterSleep, session, program
<1>2. /\ ipc = "before kill" => ipc' = "after kill" /\ signals' = signals \cup {current}
      /\ ipc = "last" => ipc' = "close" /\ signals' = signals \cup {0}
      /\ ipc \in {"after kill", "after burst"} => ipc' = "next" /\ signals' = signals
  <2>1. ipc' = AfterSleep[ipc]  BY DEF Wake
  <2>2. ipc' = (CASE ipc = "before kill" -> "after kill" [] ipc = "last" -> "close" [] OTHER -> "next")
    BY <1>1, <2>1 DEF AfterSleep
  <2>3. signals' = signals \cup (CASE ipc = "before kill" -> {current} [] ipc = "last" -> {0} [] OTHER -> {})
    BY DEF Wake, SIGTERM
  <2>4. CASE ipc = "before kill"  BY <2>2, <2>3, <2>4
  <2>5. CASE ipc = "last"  BY <2>2, <2>3, <2>5
  <2>6. CASE ipc \in {"after kill", "after burst"}  BY <2>2, <2>3, <2>6
  <2>7. QED  BY <1>1, <2>4, <2>5, <2>6
<1>3. FilesTyped'
  <2>1. current \in 0 .. Files + 1 /\ 0 \in 0 .. Files + 1  BY Naturals3 DEF FilesInv, FilesTyped
  <2>2. signals' \subseteq 0 .. Files + 1  BY <1>1, <1>2, <2>1 DEF FilesInv, FilesTyped
  <2>3. ipc' \in IpcSet  BY <1>1, <1>2 DEF IpcSet
  <2>4. raced' \in BOOLEAN  BY <1>1
  <2>5. QED  BY <1>1, <2>2, <2>3, <2>4 DEF FilesInv, FilesTyped
<1>4. FilesCounted'  BY <1>1 DEF FilesInv, FilesCounted
<1>5. FilesPlaced'  BY <1>1, <1>2 DEF FilesInv, FilesPlaced
<1>6. GoodInv'
  <2> SUFFICES ASSUME prog' = "good", ~raced'  PROVE GoodRun'  BY DEF GoodInv
  <2>1. GoodRun /\ AtRest  BY <1>1 DEF FilesInv, GoodInv
  <2>2. ~term /\ verdict = "none" /\ ppc \in Looping /\ wpipes \subseteq opened
    BY <1>1, <2>1 DEF GoodRun, Moving
  <2>3. CASE ipc = "before kill"
    <3>1. InStep  BY <2>1, <2>3 DEF GoodRun, Moving
    <3>2. Drained /\ (ppc \in {"paused", "delay"} \/ (ppc = "read" /\ fd \in wpipes))
      BY <2>1, <2>2, <3>1, RestIsDrained
    <3>3. signals' = {current} /\ ipc' = "after kill"  BY <1>2, <2>3, <3>1 DEF InStep
    <3>4. Drained' /\ Told'  BY <1>1, <3>2, <3>3 DEF Drained, Told
    <3>5. QED  BY <1>1, <2>2, <3>3, <3>4 DEF GoodRun, Moving, Ending
  <2>4. CASE ipc = "last"
    <3>1. InStep  BY <2>1, <2>4 DEF GoodRun, Moving
    <3>2. Drained  BY <2>1, <2>2, <3>1, RestIsDrained
    <3>3. ipc' = "close"  BY <1>2, <2>4
    <3>4. Drained'  BY <1>1, <3>2 DEF Drained
    <3>5. QED  BY <1>1, <2>2, <3>3, <3>4 DEF GoodRun, Moving
  <2>5. CASE ipc = "after kill"
    <3>1. Drained /\ Told  BY <2>1, <2>5 DEF GoodRun
    <3>2. signals = {} \/ ppc \in Exited  BY <2>1 DEF AtRest
    <3>3. signals = {}  BY <2>2, <3>2 DEF Exited, Looping
    <3>4. want = current /\ Follows  BY <3>1, <3>3 DEF Told
    <3>5. ipc' = "next" /\ signals' = {}  BY <1>2, <2>5, <3>3
    <3>6. InStep'
      <4>1. \A i \in File : fifo'[i] = 0  BY <1>1, <3>1 DEF Drained
      <4>2. \A i \in File : ~(fifo'[i] > 0)  BY <4>1
      <4>3. Follows' /\ want' = current'  BY <1>1, <3>4 DEF Follows
      <4>4. QED  BY <3>5, <4>2, <4>3 DEF InStep
    <3>7. QED  BY <1>1, <2>2, <3>5, <3>6 DEF GoodRun, Ending
  <2>6. CASE ipc = "after burst"
    <3>1. InStep  BY <2>1, <2>6 DEF GoodRun, Moving
    <3>2. ipc' = "next" /\ signals' = signals  BY <1>2, <2>6
    <3>3. InStep'  BY <1>1, <2>6, <3>1, <3>2 DEF InStep, Follows
    <3>4. QED  BY <1>1, <2>2, <3>2, <3>3 DEF GoodRun, Ending
  <2>7. QED  BY <1>1, <2>3, <2>4, <2>5, <2>6
<1>7. DelayedInv'
  <2> SUFFICES ASSUME prog' = "unblocked", delayed', ~raced'  PROVE DelayedRun'
    BY DEF DelayedInv
  <2>1. DelayedRun /\ AtRest  BY <1>1 DEF FilesInv, DelayedInv
  <2>2. ipc = "last"  BY <1>1, <2>1 DEF DelayedRun
  <2>3. signals = {} /\ ~term /\ ppc \in {"none", "open", "print", "decide", "delay"}
    BY <2>1, <2>2 DEF DelayedRun
  <2>4. ppc = "delay"  BY <2>1, <2>3 DEF AtRest, Exited
  <2>5. ipc' = "close" /\ signals' = {0}  BY <1>2, <2>2, <2>3
  <2>6. QED  BY <1>1, <2>1, <2>3, <2>4, <2>5 DEF DelayedRun
<1>8. QED  BY <1>3, <1>4, <1>5, <1>6, <1>7 DEF FilesInv

LEMMA DecideKeeps ==
  ASSUME FilesInv, Decide
  PROVE  FilesInv'
<1>1. /\ ppc = "decide" /\ fd' = (IF want \in opened THEN want ELSE 0)
      /\ opened' = (IF term THEN {} ELSE opened)
      /\ UNCHANGED <<fifos, prog, delayed, ipc, left, current, burst, rpipes, wpipes, verdict, want, term,
                     got, signals, fifo, sent, raced>>
  BY DEF Decide, session, interactor
<1>2. /\ term => ppc' = "dead"
      /\ ~term /\ want \in opened => ppc' = "before"
      /\ ~term /\ want \notin opened =>
           ppc' = IF delayed THEN "delay" ELSE IF prog = "good" THEN "paused" ELSE "before"
  <2>1. ppc' = CASE term -> "dead"
                 [] ~term /\ want \in opened -> "before"
                 [] OTHER -> IF delayed THEN "delay" ELSE IF prog = "good" THEN "paused" ELSE "before"
    BY DEF Decide, NeedsDelay
  <2>2. CASE term  BY <2>1, <2>2
  <2>3. CASE ~term /\ want \in opened  BY <2>1, <2>3
  <2>4. CASE ~term /\ want \notin opened  BY <2>1, <2>4
  <2>5. QED  BY <2>2, <2>3, <2>4
<1>3. ppc' \in {"dead", "before", "delay", "paused"}  BY <1>2
<1>4. FilesTyped'
  <2>1. fd' \in 0 .. Files /\ opened' \subseteq File  BY <1>1, Naturals3 DEF FilesInv, FilesTyped
  <2>2. ppc' \in PpcSet  BY <1>3 DEF PpcSet
  <2>3. QED  BY <1>1, <2>1, <2>2 DEF FilesInv, FilesTyped
<1>5. FilesCounted'  BY <1>1 DEF FilesInv, FilesCounted
<1>6. FilesPlaced'  BY <1>1, <1>3 DEF FilesInv, FilesPlaced
<1>7. GoodInv'
  <2> SUFFICES ASSUME prog' = "good", ~raced'  PROVE GoodRun'  BY DEF GoodInv
  <2>1. GoodRun /\ prog = "good"  BY <1>1 DEF FilesInv, GoodInv
  <2>2. Drained => Drained'  BY <1>1 DEF Drained
  <2>3. CASE ipc \in {"start", "open", "pid"}
    <3>1. Beginning /\ opened = File  BY <1>1, <2>1, <2>3 DEF GoodRun, Beginning
    <3>2. want \notin opened /\ ~term  BY <3>1 DEF Beginning, File
    <3>3. ppc' \in {"delay", "paused"} /\ opened' = opened  BY <1>1, <1>2, <2>1, <3>2
    <3>4. Beginning'  BY <1>1, <2>2, <3>1, <3>3 DEF Beginning
    <3>5. QED  BY <1>1, <2>3, <3>4 DEF GoodRun, Moving, Ending
  <2>4. CASE ipc \in Moving \cup {"after kill"}
    <3>1. ~term /\ verdict = "none" /\ wpipes \subseteq opened  BY <2>1, <2>4 DEF GoodRun
    <3>2. /\ want \in opened => ppc' = "before" /\ fd' = want
          /\ want \notin opened => ppc' \in {"delay", "paused"}
          /\ opened' = opened
      BY <1>1, <1>2, <2>1, <3>1
    <3>3. Follows'  BY <1>1, <3>2 DEF Follows
    <3>4. ppc' \in Looping  BY <3>2 DEF Looping
    <3>5. InStep => InStep'  BY <1>1, <3>2, <3>3 DEF InStep
    <3>6. Told => Told'  BY <1>1, <3>3 DEF Told
    <3>7. QED
      BY <1>1, <2>1, <2>2, <2>4, <3>1, <3>2, <3>4, <3>5, <3>6 DEF GoodRun, Moving, Ending
  <2>5. CASE ipc \in Ending
    BY <1>1, <2>1, <2>2, <2>5 DEF GoodRun, Moving, Ending
  <2>6. QED  BY <2>3, <2>4, <2>5 DEF FilesInv, FilesTyped, IpcSet, Moving, Ending
<1>8. DelayedInv'
  <2> SUFFICES ASSUME prog' = "unblocked", delayed', ~raced'  PROVE DelayedRun'
    BY DEF DelayedInv
  <2>1. DelayedRun /\ delayed  BY <1>1 DEF FilesInv, DelayedInv
  <2>2. /\ ipc \in {"start", "open", "pid", "next", "last"} /\ signals = {} /\ ~term /\ want = 0
    BY <1>1, <2>1 DEF DelayedRun
  <2>3. 0 \notin opened  BY DEF FilesInv, FilesTyped, File
  <2>4. ppc' = "delay" /\ fd' = 0  BY <1>1, <1>2, <2>1, <2>2, <2>3
  <2>5. QED  BY <1>1, <2>1, <2>2, <2>4 DEF DelayedRun
<1>9. QED  BY <1>4, <1>5, <1>6, <1>7, <1>8 DEF FilesInv

LEMMA BlockKeeps ==
  ASSUME FilesInv, Block
  PROVE  FilesInv'
<1>1. /\ ppc = "before" /\ ppc' = (IF fd = 0 THEN "paused" ELSE "read")
      /\ UNCHANGED <<fifos, prog, delayed, ipc, left, current, burst, rpipes, wpipes, verdict, want, term,
                     fd, opened, got, signals, fifo, sent, raced>>
  BY DEF Block, session, interactor
<1>2. ppc' \in {"paused", "read"} /\ (ppc' = "read" => fd \in File) /\ (ppc' = "paused" => fd = 0)
  <2>1. fd # 0 => fd \in File  BY Naturals3 DEF FilesInv, FilesTyped, File
  <2>2. QED  BY <1>1, <2>1
<1>3. FilesTyped'  BY <1>1, <1>2 DEF FilesInv, FilesTyped, PpcSet
<1>4. FilesCounted'  BY <1>1 DEF FilesInv, FilesCounted
<1>5. FilesPlaced'  BY <1>1, <1>2 DEF FilesInv, FilesPlaced
<1>6. GoodInv'
  <2> SUFFICES ASSUME prog' = "good", ~raced'  PROVE GoodRun'  BY DEF GoodInv
  <2>1. GoodRun  BY <1>1 DEF FilesInv, GoodInv
  <2>2. Drained => Drained'  BY <1>1 DEF Drained
  <2>3. ipc \notin {"start", "open", "pid"}  BY <1>1, <2>1 DEF GoodRun, Beginning
  <2>4. 0 \notin opened  BY DEF FilesInv, FilesTyped, File
  <2>5. Follows => Follows'  BY <1>1, <1>2, <2>4 DEF Follows
  <2>6. InStep => InStep'  BY <1>1, <2>5 DEF InStep
  <2>7. Told => Told'  BY <1>1, <2>5 DEF Told
  <2>8. ppc' \in Looping  BY <1>2 DEF Looping
  <2>9. QED  BY <1>1, <2>1, <2>2, <2>3, <2>6, <2>7, <2>8 DEF GoodRun
<1>7. DelayedInv'
  BY <1>1, <1>2, Naturals3 DEF FilesInv, DelayedInv, DelayedRun, File
<1>8. QED  BY <1>3, <1>4, <1>5, <1>6, <1>7 DEF FilesInv

LEMMA PipeReadKeeps ==
  ASSUME FilesInv, Read
  PROVE  FilesInv'
<1>1. /\ ppc = "read" /\ ppc' = "decide"
      /\ UNCHANGED <<fifos, prog, delayed, ipc, left, current, burst, rpipes, wpipes, verdict, want, term,
                     fd, signals, sent, raced>>
  BY DEF Read, session, interactor
<1>2. fd \in File  BY <1>1 DEF FilesInv, FilesPlaced
<1>3. \/ /\ fifo[fd] > 0 /\ fifo' = [fifo EXCEPT ![fd] = fifo[fd] - 1]
         /\ got' = [got EXCEPT ![fd] = got[fd] + 1] /\ opened' = opened
      \/ /\ ~(fifo[fd] > 0) /\ fd \notin wpipes /\ opened' = opened \ {fd}
         /\ fifo' = fifo /\ got' = got
  BY DEF Read
<1>4. /\ fifo \in [File -> 0 .. PipeSize] /\ sent \in [File -> Nat] /\ got \in [File -> Nat]
      /\ \A i \in File : sent[i] = got[i] + fifo[i]
  BY DEF FilesInv, FilesCounted
<1>5. FilesTyped'  BY <1>1, <1>3 DEF FilesInv, FilesTyped, PpcSet
<1>6. FilesCounted'
  <2>1. CASE fifo[fd] > 0
    <3>1. fifo' = [fifo EXCEPT ![fd] = fifo[fd] - 1] /\ got' = [got EXCEPT ![fd] = got[fd] + 1]
      BY <1>3, <2>1
    <3>2. fifo[fd] - 1 \in 0 .. PipeSize /\ got[fd] + 1 \in Nat  BY <1>2, <1>4, <2>1, Naturals3
    <3>3. fifo' \in [File -> 0 .. PipeSize] /\ got' \in [File -> Nat]  BY <1>4, <3>1, <3>2
    <3>4. ASSUME NEW i \in File  PROVE sent'[i] = got'[i] + fifo'[i]
      <4>1. sent[i] = got[i] + fifo[i] /\ sent[i] \in Nat /\ got[i] \in Nat /\ fifo[i] \in Nat
        BY <1>4
      <4>2. CASE i = fd
        <5>1. got'[i] = got[i] + 1 /\ fifo'[i] = fifo[i] - 1 /\ sent'[i] = sent[i]
          BY <1>1, <1>4, <3>1, <4>2
        <5>2. QED  BY <4>1, <5>1
      <4>3. CASE i # fd  BY <1>1, <1>4, <3>1, <4>1, <4>3
      <4>4. QED  BY <4>2, <4>3
    <3>5. QED  BY <1>1, <1>4, <3>3, <3>4 DEF FilesCounted
  <2>2. CASE ~(fifo[fd] > 0)
    <3>1. fifo' = fifo /\ got' = got  BY <1>3, <2>2
    <3>2. QED  BY <1>1, <1>4, <3>1 DEF FilesCounted
  <2>3. QED  BY <2>1, <2>2
<1>7. FilesPlaced'  BY <1>1 DEF FilesInv, FilesPlaced
<1>8. GoodInv'
  <2> SUFFICES ASSUME prog' = "good", ~raced'  PROVE GoodRun'  BY DEF GoodInv
  <2>1. GoodRun  BY <1>1 DEF FilesInv, GoodInv
  <2>2. ipc \notin {"start", "open", "pid"}  BY <1>1, <2>1 DEF GoodRun, Beginning
  <2>3. ASSUME Drained  PROVE Drained' /\ opened' = opened \ {fd} /\ fd \notin wpipes
    <3>1. fifo[fd] = 0  BY <1>2, <2>3 DEF Drained
    <3>2. QED  BY <1>3, <2>3, <3>1 DEF Drained
  <2>4. wpipes \subseteq opened => wpipes' \subseteq opened'  BY <1>1, <1>3
  <2>5. Follows'  BY <1>1 DEF Follows
  <2>6. ASSUME InStep  PROVE InStep'
    <3>1. fd = want  BY <1>1, <2>6 DEF InStep, Follows
    <3>2. ASSUME NEW i \in File, fifo'[i] > 0  PROVE i = want' /\ i \in opened'
      <4>1. fifo[i] \in Nat /\ (i # fd => fifo'[i] = fifo[i])  BY <1>2, <1>3, <1>4
      <4>2. CASE fifo[fd] > 0
        <5>1. fifo[i] > 0  BY <4>1, <4>2, <3>2
        <5>2. QED  BY <1>1, <1>3, <2>6, <4>2, <5>1 DEF InStep
      <4>3. CASE ~(fifo[fd] > 0)
        <5>1. fifo' = fifo  BY <1>3, <4>3
        <5>2. fifo[i] > 0 /\ i = want  BY <2>6, <3>2, <5>1 DEF InStep
        <5>3. QED  BY <3>1, <4>3, <5>2
      <4>4. QED  BY <4>2, <4>3
    <3>3. QED  BY <1>1, <2>5, <2>6, <3>2 DEF InStep
  <2>7. ASSUME Drained, Told  PROVE Told'
    <3>1. fd \notin wpipes  BY <2>3, <2>7
    <3>2. signals = {} /\ want = current  BY <1>1, <2>7, <3>1 DEF Told
    <3>3. QED  BY <1>1, <2>5, <3>2 DEF Told
  <2>8. ppc' \in Looping  BY <1>1 DEF Looping
  <2>9. QED  BY <1>1, <2>1, <2>2, <2>3, <2>4, <2>6, <2>7, <2>8 DEF GoodRun
<1>9. DelayedInv'
  <2>1. ~(prog = "unblocked" /\ delayed /\ ~raced)  BY <1>1 DEF FilesInv, DelayedInv, DelayedRun
  <2>2. QED  BY <1>1, <2>1 DEF DelayedInv
<1>10. QED  BY <1>5, <1>6, <1>7, <1>8, <1>9 DEF FilesInv

LEMMA HandleKeeps ==
  ASSUME NEW s, FilesInv, Handle(s)
  PROVE  FilesInv'
<1>1. /\ s \in signals /\ ppc \notin {"none", "open", "print", "silent", "dead"}
      /\ ~(ppc \in {"decide", "delay"} /\ prog = "good")
      /\ signals' = signals \ {s}
      /\ UNCHANGED <<fifos, prog, delayed, ipc, left, current, burst, rpipes, wpipes, verdict, fd, got,
                     fifo, sent, raced>>
  BY DEF Handle, Deaf, session, interactor
<1>2. CASE s = Files + 1
  <2>1. ppc' = "dead" /\ opened' = {} /\ UNCHANGED <<want, term>>
    BY <1>2 DEF Handle, SIGRTMAX
  <2>2. FilesTyped'  BY <1>1, <2>1 DEF FilesInv, FilesTyped, PpcSet
  <2>3. FilesCounted'  BY <1>1 DEF FilesInv, FilesCounted
  <2>4. FilesPlaced'  BY <1>1, <2>1 DEF FilesInv, FilesPlaced
  <2>5. GoodInv'
    <3> SUFFICES ASSUME prog' = "good", ~raced'  PROVE GoodRun'  BY DEF GoodInv
    <3>1. GoodRun  BY <1>1 DEF FilesInv, GoodInv
    <3>2. signals # {} /\ s # current  BY <1>1, <1>2, Naturals3 DEF FilesInv, FilesTyped
    <3>3. ipc \in Ending
      BY <1>1, <3>1, <3>2 DEF GoodRun, Beginning, InStep, Told, FilesInv, FilesTyped, IpcSet, Moving, Ending
    <3>4. Drained => Drained'  BY <1>1 DEF Drained
    <3>5. QED  BY <1>1, <3>1, <3>3, <3>4 DEF GoodRun, Moving, Ending
  <2>6. DelayedInv'
    <3>1. ~(prog = "unblocked" /\ delayed /\ ~raced)
      BY <1>1, <1>2, Naturals3 DEF FilesInv, DelayedInv, DelayedRun
    <3>2. QED  BY <1>1, <3>1 DEF DelayedInv
  <2>7. QED  BY <2>2, <2>3, <2>4, <2>5, <2>6 DEF FilesInv
<1>3. CASE s # Files + 1
  <2>1. /\ opened' = opened
        /\ IF s = 0 THEN term' = TRUE /\ want' = want ELSE want' = s /\ term' = term
    BY <1>3 DEF Handle, SIGRTMAX, SIGTERM
  <2>2. /\ ppc \in {"read", "paused"} => ppc' = "decide"
        /\ ppc = "delay" => ppc' = "before"
        /\ ppc \notin {"read", "paused", "delay"} => ppc' = ppc
    <3>1. ppc' = CASE ppc \in {"read", "paused"} -> "decide" [] ppc = "delay" -> "before" [] OTHER -> ppc
      BY <1>3 DEF Handle, SIGRTMAX
    <3>2. CASE ppc \in {"read", "paused"}  BY <3>1, <3>2
    <3>3. CASE ppc = "delay"  BY <3>1, <3>3
    <3>4. CASE ppc \notin {"read", "paused", "delay"}  BY <3>1, <3>4
    <3>5. QED  BY <3>2, <3>3, <3>4
  <2>3. ppc' \in {"decide", "before"}  BY <1>1, <2>2 DEF FilesInv, FilesTyped, PpcSet
  <2>4. FilesTyped'
    <3>1. s \in 0 .. Files  BY <1>1, <1>3, Naturals3 DEF FilesInv, FilesTyped
    <3>2. want' \in 0 .. Files /\ term' \in BOOLEAN  BY <2>1, <3>1 DEF FilesInv, FilesTyped
    <3>3. QED  BY <1>1, <2>1, <2>3, <3>2 DEF FilesInv, FilesTyped, PpcSet
  <2>5. FilesCounted'  BY <1>1 DEF FilesInv, FilesCounted
  <2>6. FilesPlaced'  BY <1>1, <2>1, <2>3 DEF FilesInv, FilesPlaced
  <2>7. GoodInv'
    <3> SUFFICES ASSUME prog' = "good", ~raced'  PROVE GoodRun'  BY DEF GoodInv
    <3>1. GoodRun  BY <1>1 DEF FilesInv, GoodInv
    <3>2. Drained => Drained'  BY <1>1 DEF Drained
    <3>3. CASE ipc \in Ending  BY <1>1, <3>1, <3>2, <3>3 DEF GoodRun, Moving, Ending
    <3>4. CASE ipc = "after kill"
      <4>1. signals = {current} /\ ppc \in {"read", "paused"}
        BY <1>1, <3>1, <3>4 DEF GoodRun, Told
      <4>2. s = current /\ signals' = {} /\ ppc' = "decide" /\ s # 0
        <5>1. s = current /\ signals' = {}  BY <1>1, <4>1
        <5>2. current \in File  BY <3>4 DEF FilesInv, FilesPlaced
        <5>3. current # 0  BY <5>2 DEF File
        <5>4. ppc' = "decide"  BY <2>2, <4>1
        <5>5. QED  BY <5>1, <5>3, <5>4
      <4>3. want' = current' /\ term' = term  BY <1>1, <2>1, <4>2
      <4>4. Told'  BY <4>2, <4>3 DEF Told, Follows
      <4>5. QED  BY <1>1, <2>1, <3>1, <3>2, <3>4, <4>2, <4>3, <4>4 DEF GoodRun, Moving, Ending, Looping
    <3>5. CASE ipc \in Moving \cup {"start", "open", "pid"}
      BY <1>1, <3>1, <3>5 DEF GoodRun, Beginning, InStep
    <3>6. QED  BY <3>3, <3>4, <3>5 DEF FilesInv, FilesTyped, IpcSet, Moving, Ending
  <2>8. DelayedInv'
    <3> SUFFICES ASSUME prog' = "unblocked", delayed', ~raced'  PROVE DelayedRun'
      BY DEF DelayedInv
    <3>1. DelayedRun  BY <1>1 DEF FilesInv, DelayedInv
    <3>2. ipc \in {"close", "copy"} /\ signals = {0} /\ ppc = "delay"
      BY <1>1, <3>1 DEF DelayedRun
    <3>3. s = 0 /\ signals' = {} /\ ppc' = "before" /\ term' = TRUE /\ want' = want
      BY <1>1, <2>1, <2>2, <3>2
    <3>4. QED  BY <1>1, <3>1, <3>2, <3>3 DEF DelayedRun
  <2>9. QED  BY <2>4, <2>5, <2>6, <2>7, <2>8 DEF FilesInv
<1>4. QED  BY <1>2, <1>3

LEMMA FilesStepKeeps == FilesInv /\ [Next]_vars => FilesInv'
<1> SUFFICES ASSUME FilesInv, [Next]_vars  PROVE FilesInv'  OBVIOUS
<1>1. CASE Interactor
  BY <1>1, StartKeeps, StopKeeps, OpenPipesKeeps, ReadPidKeeps, PipeWriteKeeps, WakeKeeps, EndOfTestKeeps,
     ClosePipesKeeps, CopyOutputKeeps, ClosePipeKeeps, SwitchKeeps, BlocksKeeps DEF Interactor
<1>2. CASE Program
  BY <1>2, OpenKeeps, PrintPidKeeps, DecideKeeps, BlockKeeps, PipeReadKeeps, EndDelayKeeps, HandleKeeps
  DEF Program
<1>3. CASE Quit  BY <1>3, QuitKeeps
<1>4. CASE UNCHANGED vars
  <2>1. UNCHANGED <<fifos, prog, delayed, ipc, left, current, burst, rpipes, wpipes, verdict, ppc, want,
                    term, fd, opened, got, signals, fifo, sent, raced>>
    BY <1>4 DEF vars, session, interactor, program
  <2>2. FilesTyped'  BY <2>1 DEF FilesInv, FilesTyped
  <2>3. FilesCounted'  BY <2>1 DEF FilesInv, FilesCounted
  <2>4. FilesPlaced'  BY <2>1 DEF FilesInv, FilesPlaced
  <2>5. GoodInv'
    BY <2>1 DEF FilesInv, GoodInv, GoodRun, Beginning, InStep, Told, Follows, Drained
  <2>6. DelayedInv'  BY <2>1 DEF FilesInv, DelayedInv, DelayedRun
  <2>7. QED  BY <2>2, <2>3, <2>4, <2>5, <2>6 DEF FilesInv
<1>5. QED  BY <1>1, <1>2, <1>3, <1>4 DEF Next

LEMMA FilesInvImplies == FilesInv => FilesRight
<1> SUFFICES ASSUME FilesInv  PROVE FilesRight  OBVIOUS
<1>1. TypeOK
  <2>1. signals \subseteq File \cup {SIGTERM, SIGRTMAX}
    BY Naturals3 DEF FilesInv, FilesTyped, File, SIGTERM, SIGRTMAX
  <2>2. ipc \in {"start", "open", "pid", "next", "write", "write burst", "close", "copy", "exited"}
                  \cup DOMAIN AfterSleep
    BY DEF FilesInv, FilesTyped, IpcSet, AfterSleep
  <2>3. QED  BY <2>1, <2>2 DEF FilesInv, FilesTyped, FilesCounted, PpcSet, Exited, TypeOK
<1>2. RightSums
  <2> SUFFICES ASSUME prog = "good", ipc = "exited", ~raced  PROVE verdict = "OK" /\ got = sent
    BY DEF RightSums
  <2>1. verdict = "OK" /\ Drained  BY DEF FilesInv, GoodInv, GoodRun, Ending
  <2>2. \A i \in File : got[i] = sent[i]  BY <2>1 DEF FilesInv, FilesCounted, Drained
  <2>3. QED  BY <2>1, <2>2 DEF FilesInv, FilesCounted
<1>3. DelayCatches  BY DEF FilesInv, DelayedInv, DelayedRun, DelayCatches
<1>4. QED  BY <1>1, <1>2, <1>3 DEF FilesRight

(* A behaviour that is about the other task leaves this session alone.     *)
LEMMA RunsFiles == AllSpec => Init /\ [][Next]_vars
<1>1. AllInit => Init  BY DEF AllInit
<1>2. [AllNext]_allVars => [Next]_vars  BY DEF AllNext, allVars, FilesStep, IgnoreStep
<1>3. QED  BY <1>1, <1>2, PTL DEF AllSpec

(* In a test of files a correct program that no sleep was too short for is *)
(* accepted, having read all that was written to each FIFO; and a program  *)
(* that does not block its signals is not, when it is delayed.             *)
THEOREM SumsAreRight == AllSpec => []FilesRight
<1>1. FilesInv => FilesRight  BY FilesInvImplies
<1>2. QED  BY <1>1, FilesInit, FilesStepKeeps, RunsFiles, PTL

(***************************************************************************)
(* ignore.  What the program has been asked for and has not written yet is *)
(* never more than what the interactor still expects (BudgetKept), and     *)
(* what it has written is what was read so far and right, followed by what *)
(* is in the pipe (ServedRight).                                           *)
(***************************************************************************)
Half == [of : 0 .. MaxCommands, half : {1, 2}]

IgnoreTyped ==
  /\ lpc \in {"fork program", "fork interactor", "wait", "done"} /\ res \in {"0", "1"}
  /\ stdinHolders \subseteq {"launcher", "program", "interactor"}
  /\ icat \in {"none", "next", "expect", "sleep", "tail", "exited"} /\ rest \in 0 .. MaxCommands
  /\ pcat \in {"none", "exec", "read", "write", "exited"}
  /\ iexit \in {"no", "0", "failed"} /\ (iexit = "no" <=> icat # "exited")
  /\ pexit \in {"no", "0", "failed"} /\ (pexit = "no" <=> pcat # "exited")
  /\ sigterm \in BOOLEAN /\ rtmax \in BOOLEAN /\ interrupt \in BOOLEAN
  /\ lpc \in {"fork program", "fork interactor"} => icat = "none"
  /\ lpc = "fork program" => pcat = "none"

TextTyped ==
  /\ expected \in Seq(Half) /\ owed \in Seq(Half) /\ wrote \in Seq(Half)
  /\ todo \in Seq(Half) /\ note \in Seq(Half) /\ toProg \in Seq(Half) /\ toInter \in Seq(Half)

(* What is on its way to become output, or is output not read yet.         *)
OnTheWay ==
  Len(toProg) + Len(todo) + Len(note) + Len(toInter) + (IF sigterm THEN 2 ELSE 0)

BudgetKept ==
  /\ OnTheWay <= 2 /\ Len(expected) <= 2
  /\ icat # "exited" => OnTheWay <= Len(expected)
  /\ icat \notin {"expect", "exited"} => expected = <<>>

(* What was read and matched, s, then what is in the pipe, is all output.  *)
ReadSoFar(s) == s \in Seq(Half) /\ wrote = s \o toInter /\ owed = s \o expected

ServedRight ==
  /\ iexit # "failed" => \E s : ReadSoFar(s)
  /\ iexit = "0" => wrote = owed
  /\ lpc = "done" /\ res = "0" => iexit = "0"

IgnoreInv == IgnoreTyped /\ TextTyped /\ BudgetKept /\ ServedRight

-----------------------------------------------------------------------------
(* Cutting a text in two.                                                  *)
Cut(s, n, p, r) ==
  /\ p \in Seq(Half) /\ Len(p) = n
  /\ r \in Seq(Half) /\ Len(r) = Len(s) - n
  /\ p \o r = s
  /\ \A i \in 1 .. n : p[i] = s[i]

LEMMA CutText ==
  ASSUME NEW s \in Seq(Half), NEW n \in 1 .. Len(s)
  PROVE  Cut(s, n, SubSeq(s, 1, n), S!Rest(s, n))
<1>1. PICK m : m = Len(s)  OBVIOUS
<1>2. m \in Nat /\ n \in 1 .. m /\ \A i \in 1 .. m : s[i] \in Half  BY <1>1
<1>3. /\ SubSeq(s, 1, n) \in Seq(Half)
      /\ Len(SubSeq(s, 1, n)) = n
      /\ \A i \in 1 .. n - 1 + 1 : SubSeq(s, 1, n)[i] = s[1 + i - 1]
  <2>1. \A i \in 1 .. n : s[i] \in Half  BY <1>2
  <2>2. 1 \in Int /\ n \in Int  BY <1>2
  <2>3. Len(SubSeq(s, 1, n)) = IF 1 <= n THEN n - 1 + 1 ELSE 0  BY <2>1, <2>2, SubSeqProperties
  <2>4. QED  BY <1>2, <2>1, <2>2, <2>3, SubSeqProperties
<1>4. SubSeq(s, n + 1, m) \in Seq(Half) /\ Len(SubSeq(s, n + 1, m)) = m - n
  <2>1. \A i \in n + 1 .. m : s[i] \in Half  BY <1>2
  <2>2. n + 1 \in Int /\ m \in Int  BY <1>2
  <2>3. Len(SubSeq(s, n + 1, m)) = IF n + 1 <= m THEN m - (n + 1) + 1 ELSE 0
    BY <2>1, <2>2, SubSeqProperties
  <2>4. QED  BY <1>2, <2>1, <2>2, <2>3, SubSeqProperties
<1>5. SubSeq(s, 1, n) \o SubSeq(s, n + 1, m) = SubSeq(s, 1, m)
  <2>1. 1 \in 1 .. Len(s) + 1 /\ n \in 1 - 1 .. Len(s) /\ m \in n .. Len(s)  BY <1>1, <1>2
  <2>2. QED  BY <2>1, ConcatAdjacentSubSeq
<1>6. SubSeq(s, 1, m) = s
  <2>1. PICK t : t = SubSeq(s, 1, m)  OBVIOUS
  <2>2. 1 \in Int /\ m \in Int /\ 1 <= m  BY <1>2
  <2>3. t \in Seq(Half) /\ Len(t) = (IF 1 <= m THEN m - 1 + 1 ELSE 0)
        /\ \A i \in 1 .. m - 1 + 1 : t[i] = s[1 + i - 1]
    BY <1>2, <2>1, <2>2, SubSeqProperties
  <2>4. Len(t) = m /\ \A i \in 1 .. m : t[i] = s[i]  BY <1>2, <2>3
  <2>5. QED  BY <1>1, <2>1, <2>3, <2>4, SeqEqual
<1>7. S!Rest(s, n) = SubSeq(s, n + 1, m)  BY <1>1 DEF S!Rest
<1>8. \A i \in 1 .. n : SubSeq(s, 1, n)[i] = s[i]  BY <1>2, <1>3
<1>9. QED  BY <1>1, <1>3, <1>4, <1>5, <1>6, <1>7, <1>8 DEF Cut

LEMMA JoinTexts ==
  ASSUME NEW s \in Seq(Half), NEW t \in Seq(Half)
  PROVE  s \o t \in Seq(Half) /\ Len(s \o t) = Len(s) + Len(t)
BY ConcatProperties

LEMMA Regroup ==
  \A s, t, u \in Seq(Half) : (s \o t) \o u = s \o (t \o u)
BY ConcatAssociative

LEMMA HalvesType ==
  ASSUME NEW what \in 0 .. MaxCommands, NEW t, t = S!Halves(what)
  PROVE  t \in Seq(Half) /\ Len(t) = 2
BY DEF S!Halves, Half

LEMMA NoText == <<>> \in Seq(Half) /\ Len(<<>>) = 0
OBVIOUS

LEMMA LensAreNaturals ==
  TextTyped =>
    /\ Len(expected) \in Nat /\ Len(todo) \in Nat /\ Len(note) \in Nat
    /\ Len(toProg) \in Nat /\ Len(toInter) \in Nat
BY DEF TextTyped

LEMMA IgnoreInit == S!Init => IgnoreInv
<1> SUFFICES ASSUME S!Init  PROVE IgnoreInv  OBVIOUS
<1>1. IgnoreTyped
  <2>0. rest \in 1 .. MaxCommands  BY DEF S!Init
  <2>1. rest \in 0 .. MaxCommands  BY <2>0, BoundsAssumption
  <2>2. QED  BY <2>1 DEF S!Init, IgnoreTyped
<1>2. TextTyped  BY NoText DEF S!Init, TextTyped
<1>3. BudgetKept
  <2>1. /\ Len(toProg) = 0 /\ Len(todo) = 0 /\ Len(note) = 0 /\ Len(toInter) = 0
        /\ expected = <<>> /\ Len(expected) = 0 /\ sigterm = FALSE
    BY NoText DEF S!Init
  <2>2. OnTheWay = 0  BY <2>1 DEF OnTheWay
  <2>3. QED  BY <2>1, <2>2 DEF BudgetKept
<1>4. ServedRight
  <2>1. <<>> \o <<>> = <<>>  BY NoText, ConcatEmptySeq
  <2>2. ReadSoFar(<<>>)  BY <2>1, NoText DEF S!Init, ReadSoFar
  <2>3. QED  BY <2>2 DEF S!Init, ServedRight
<1>5. QED  BY <1>1, <1>2, <1>3, <1>4 DEF IgnoreInv

-----------------------------------------------------------------------------
(* A step that leaves all texts alone but perhaps drops some of them, and  *)
(* sends no signal.                                                        *)
TextsKept == UNCHANGED <<expected, owed, wrote, toInter, toProg, todo, note>>

LEMMA TextsKeptKeeps ==
  ASSUME IgnoreInv, TextsKept, (sigterm' => sigterm), (icat' = "exited" \/ icat # "exited"),
         sigterm' \in BOOLEAN,
         (icat' \notin {"expect", "exited"} => expected = <<>>)
  PROVE  TextTyped' /\ BudgetKept'
<1>1. TextTyped'  BY DEF IgnoreInv, TextTyped, TextsKept
<1>2. OnTheWay' <= OnTheWay /\ OnTheWay' \in Nat /\ OnTheWay \in Nat
  <2>1. PICK a, b, c, d : a = Len(toProg) /\ b = Len(todo) /\ c = Len(note) /\ d = Len(toInter)
    OBVIOUS
  <2>2. a \in Nat /\ b \in Nat /\ c \in Nat /\ d \in Nat /\ sigterm \in BOOLEAN
    BY <2>1, LensAreNaturals DEF IgnoreInv, IgnoreTyped
  <2>3. OnTheWay = a + b + c + d + (IF sigterm THEN 2 ELSE 0)  BY <2>1 DEF OnTheWay
  <2>4. OnTheWay' = a + b + c + d + (IF sigterm' THEN 2 ELSE 0)  BY <2>1 DEF OnTheWay, TextsKept
  <2>5. QED  BY <2>2, <2>3, <2>4
<1>3. Len(expected) \in Nat /\ expected' = expected  BY LensAreNaturals DEF IgnoreInv, TextsKept
<1>4. BudgetKept'  BY <1>2, <1>3 DEF IgnoreInv, BudgetKept
<1>5. QED  BY <1>1, <1>4

LEMMA ServedKept ==
  ASSUME IgnoreInv, UNCHANGED <<expected, owed, wrote, toInter>>,
         (iexit' = iexit \/ iexit' = "failed"), (lpc' = "done" /\ res' = "0" => iexit' = "0")
  PROVE  ServedRight'
<1>1. iexit' # "failed" => \E s : ReadSoFar(s)'  BY DEF IgnoreInv, ServedRight, ReadSoFar
<1>2. QED  BY <1>1 DEF IgnoreInv, ServedRight

(* The launcher.                                                           *)
LEMMA LauncherKeeps ==
  ASSUME IgnoreInv, S!Launcher
  PROVE  IgnoreInv'
<1>1. IgnoreTyped'
  <2>1. CASE S!ForkProgram  BY <2>1 DEF S!ForkProgram, S!interactor, S!signals, IgnoreInv, IgnoreTyped
  <2>2. CASE S!ForkInteractor  BY <2>2 DEF S!ForkInteractor, S!program, S!signals, IgnoreInv, IgnoreTyped
  <2>3. CASE S!Wait  BY <2>3 DEF S!Wait, S!interactor, S!program, S!signals, IgnoreInv, IgnoreTyped
  <2>4. QED  BY <2>1, <2>2, <2>3 DEF S!Launcher
<1>2. TextTyped' /\ BudgetKept'
  <2>1. TextsKept /\ sigterm' = sigterm
    BY DEF S!Launcher, S!ForkProgram, S!ForkInteractor, S!Wait, S!interactor, S!program, S!signals, TextsKept
  <2>2. (icat # "exited" /\ expected = <<>>) \/ icat' = icat
    BY DEF S!Launcher, S!ForkProgram, S!ForkInteractor, S!Wait, S!interactor, IgnoreInv, IgnoreTyped, BudgetKept
  <2>3. CASE icat # "exited" /\ expected = <<>>
    BY <2>1, <2>3, TextsKeptKeeps DEF IgnoreInv, IgnoreTyped
  <2>4. CASE icat' = icat
    BY <2>1, <2>4, TextsKeptKeeps DEF IgnoreInv, IgnoreTyped, BudgetKept
  <2>5. QED  BY <2>2, <2>3, <2>4
<1>3. ServedRight'
  <2>1. UNCHANGED <<expected, owed, wrote, toInter, iexit>>
    BY DEF S!Launcher, S!ForkProgram, S!ForkInteractor, S!Wait, S!interactor, S!program
  <2>2. lpc' = "done" /\ res' = "0" => iexit' = "0"
    BY DEF S!Launcher, S!ForkProgram, S!ForkInteractor, S!Wait, S!interactor
  <2>3. QED  BY <2>1, <2>2, ServedKept
<1>4. QED  BY <1>1, <1>2, <1>3 DEF IgnoreInv

LEMMA CountsDown ==
  rest \in 0 .. MaxCommands /\ rest > 0 => rest - 1 \in 0 .. MaxCommands
BY BoundsAssumption

(* The interactor asks for a text when nothing is on its way.              *)
LEMMA AskKeeps ==
  ASSUME IgnoreInv, icat = "next", icat' = "expect", NEW text \in Seq(Half), Len(text) = 2,
         expected' = text, owed' = owed \o text,
         UNCHANGED <<wrote, toInter, todo, note, iexit, lpc, res>>,
         \/ toProg' = toProg \o text /\ sigterm' = sigterm
         \/ toProg' = toProg /\ sigterm' \in BOOLEAN
  PROVE  TextTyped' /\ BudgetKept' /\ ServedRight'
<1>1. PICK a, b, c, d : a = Len(toProg) /\ b = Len(todo) /\ c = Len(note) /\ d = Len(toInter)
  OBVIOUS
<1>2. a \in Nat /\ b \in Nat /\ c \in Nat /\ d \in Nat /\ sigterm \in BOOLEAN
  BY <1>1, LensAreNaturals DEF IgnoreInv, IgnoreTyped
<1>3. expected = <<>> /\ Len(expected) = 0 /\ iexit = "no"
  BY NoText DEF IgnoreInv, BudgetKept, IgnoreTyped
<1>4. a = 0 /\ b = 0 /\ c = 0 /\ d = 0 /\ sigterm = FALSE
  <2>1. OnTheWay = a + b + c + d + (IF sigterm THEN 2 ELSE 0)  BY <1>1 DEF OnTheWay
  <2>2. OnTheWay <= 0  BY <1>3 DEF IgnoreInv, BudgetKept
  <2>3. CASE sigterm = TRUE  BY <1>2, <2>1, <2>2, <2>3
  <2>4. CASE sigterm = FALSE  BY <1>2, <2>1, <2>2, <2>4
  <2>5. QED  BY <1>2, <2>3, <2>4
<1>5. toProg \o text \in Seq(Half) /\ Len(toProg \o text) = a + 2
  <2>1. toProg \in Seq(Half)  BY DEF IgnoreInv, TextTyped
  <2>2. toProg \o text \in Seq(Half) /\ Len(toProg \o text) = Len(toProg) + Len(text)
    BY <2>1, JoinTexts
  <2>3. QED  BY <1>1, <2>2
<1>6. owed \o text \in Seq(Half)  BY JoinTexts DEF IgnoreInv, TextTyped
<1>7. TextTyped'
  <2>1. toProg' \in Seq(Half)  BY <1>5 DEF IgnoreInv, TextTyped
  <2>2. QED  BY <1>6, <2>1 DEF IgnoreInv, TextTyped
<1>8. BudgetKept'
  <2>1. OnTheWay' = Len(toProg') + b + c + d + (IF sigterm' THEN 2 ELSE 0)  BY <1>1 DEF OnTheWay
  <2>2. OnTheWay' <= 2
    <3>1. CASE toProg' = toProg \o text /\ sigterm' = sigterm
      <4>1. Len(toProg') = 2 /\ sigterm' = FALSE  BY <1>2, <1>4, <1>5, <3>1
      <4>2. QED  BY <1>4, <2>1, <4>1
    <3>2. CASE toProg' = toProg /\ sigterm' \in BOOLEAN
      <4>1. Len(toProg') = 0  BY <1>1, <1>4, <3>2
      <4>2. QED  BY <1>4, <2>1, <3>2, <4>1
    <3>3. QED  BY <3>1, <3>2
  <2>3. PICK e : e = expected'  OBVIOUS
  <2>4. Len(e) = 2  BY <2>3
  <2>5. PICK w : w = OnTheWay'  OBVIOUS
  <2>6. w <= 2 /\ Len(e) <= 2 /\ w <= Len(e)  BY <2>2, <2>4, <2>5
  <2>7. OnTheWay' <= 2 /\ Len(expected') <= 2 /\ OnTheWay' <= Len(expected')
    BY <2>3, <2>5, <2>6, Zenon
  <2>8. icat' \in {"expect", "exited"}  OBVIOUS
  <2>9. QED  BY <2>7, <2>8, Zenon DEF BudgetKept
<1>9. ServedRight'
  <2>1. PICK s : ReadSoFar(s)  BY <1>3 DEF IgnoreInv, ServedRight
  <2>2. owed = s /\ s \in Seq(Half)
    BY <1>3, <2>1, ConcatEmptySeq DEF ReadSoFar
  <2>3. ReadSoFar(s)'  BY <2>1, <2>2 DEF ReadSoFar
  <2>4. lpc' = "done" /\ res' = "0" => iexit' = "0"  BY DEF IgnoreInv, ServedRight
  <2>5. QED  BY <1>3, <2>3, <2>4 DEF ServedRight
<1>10. QED  BY <1>7, <1>8, <1>9

LEMMA SendLineKeeps ==
  ASSUME IgnoreInv, S!SendLine
  PROVE  IgnoreInv'
<1>1. CASE pexit # "no"
  <2>1. /\ icat = "next" /\ icat' = "exited" /\ iexit' = "failed" /\ sigterm' = sigterm
        /\ rest' = rest - 1 /\ rest > 0 /\ rtmax' = rtmax
        /\ UNCHANGED <<lpc, res, pcat, interrupt, pexit>>
        /\ stdinHolders' = stdinHolders \ {"interactor"}
    BY <1>1 DEF S!SendLine, S!IExit, S!NextCommand, S!program, S!signals, S!launcher
  <2>2. TextsKept  BY <1>1 DEF S!SendLine, S!program, TextsKept
  <2>3. IgnoreTyped'  BY <2>1, CountsDown DEF IgnoreInv, IgnoreTyped
  <2>4. TextTyped' /\ BudgetKept'  BY <2>1, <2>2, TextsKeptKeeps DEF IgnoreInv, IgnoreTyped
  <2>5. lpc' = "done" /\ res' = "0" => iexit' = "0"  BY <2>1 DEF IgnoreInv, IgnoreTyped, ServedRight
  <2>6. ServedRight'  BY <2>1, <2>2, <2>5, ServedKept DEF TextsKept
  <2>7. QED  BY <2>3, <2>4, <2>6 DEF IgnoreInv
<1>2. CASE pexit = "no"
  <2>1. PICK text : text = S!Halves(rest)  OBVIOUS
  <2>2. /\ icat = "next" /\ icat' = "expect" /\ iexit' = iexit /\ sigterm' = sigterm
        /\ rest' = rest - 1 /\ rest > 0 /\ rtmax' = rtmax
        /\ UNCHANGED <<lpc, res, pcat, interrupt, pexit, wrote, todo, note, toInter, stdinHolders>>
    BY <1>2 DEF S!SendLine, S!ExpectText, S!NextCommand, S!program, S!signals, S!launcher
  <2>3. expected' = text /\ owed' = owed \o text /\ toProg' = toProg \o text
    BY <1>2, <2>1 DEF S!SendLine, S!ExpectText
  <2>4. text \in Seq(Half) /\ Len(text) = 2
    <3>1. rest \in 0 .. MaxCommands  BY DEF IgnoreInv, IgnoreTyped
    <3>2. QED  BY <2>1, <3>1, HalvesType
  <2>5. IgnoreTyped'  BY <2>2, CountsDown DEF IgnoreInv, IgnoreTyped
  <2>6. TextTyped' /\ BudgetKept' /\ ServedRight'  BY <2>2, <2>3, <2>4, AskKeeps
  <2>7. QED  BY <2>5, <2>6 DEF IgnoreInv
<1>3. QED  BY <1>1, <1>2

LEMMA SendTermKeeps ==
  ASSUME IgnoreInv, S!SendTerm
  PROVE  IgnoreInv'
<1>1. PICK text : text = S!Halves(S!Message)  OBVIOUS
<1>2. /\ icat = "next" /\ icat' = "expect" /\ iexit' = iexit /\ sigterm' \in BOOLEAN
      /\ rest' = rest - 1 /\ rest > 0 /\ rtmax' = rtmax /\ toProg' = toProg
      /\ UNCHANGED <<lpc, res, pcat, interrupt, pexit, wrote, todo, note, toInter, stdinHolders>>
  BY DEF S!SendTerm, S!ExpectText, S!NextCommand, S!program, S!launcher
<1>3. expected' = text /\ owed' = owed \o text  BY <1>1 DEF S!SendTerm, S!ExpectText
<1>4. text \in Seq(Half) /\ Len(text) = 2
  <2>1. S!Message \in 0 .. MaxCommands  BY BoundsAssumption DEF S!Message
  <2>2. QED  BY <1>1, <2>1, HalvesType
<1>5. IgnoreTyped'  BY <1>2, CountsDown DEF IgnoreInv, IgnoreTyped
<1>6. TextTyped' /\ BudgetKept' /\ ServedRight'  BY <1>2, <1>3, <1>4, AskKeeps
<1>7. QED  BY <1>5, <1>6 DEF IgnoreInv

(* The actions of the interactor that neither ask nor read.                *)
LEMMA QuietInteractorKeeps ==
  ASSUME IgnoreInv, S!SendInterrupt \/ S!EndSleep \/ S!ExpectEof \/ S!CloseStdout \/ S!ReadTail
  PROVE  IgnoreInv'
<1>1. /\ TextsKept /\ sigterm' = sigterm /\ (icat' = "exited" \/ icat # "exited")
      /\ UNCHANGED <<lpc, res>>
  BY DEF S!SendInterrupt, S!EndSleep, S!ExpectEof, S!CloseStdout, S!ReadTail, S!NextCommand, S!IExit,
         S!program, S!signals, S!launcher, TextsKept
<1>2. icat' \notin {"expect", "exited"} => expected = <<>>
  BY DEF S!SendInterrupt, S!EndSleep, S!ExpectEof, S!CloseStdout, S!ReadTail, S!NextCommand, S!IExit,
         IgnoreInv, BudgetKept
<1>3. IgnoreTyped'
  <2>1. CASE S!SendInterrupt
    BY <2>1, CountsDown DEF S!SendInterrupt, S!NextCommand, S!program, S!launcher, IgnoreInv, IgnoreTyped
  <2>2. CASE S!EndSleep
    BY <2>2 DEF S!EndSleep, S!program, S!signals, S!launcher, IgnoreInv, IgnoreTyped
  <2>3. CASE S!ExpectEof
    BY <2>3 DEF S!ExpectEof, S!IExit, S!program, S!signals, S!launcher, IgnoreInv, IgnoreTyped
  <2>4. CASE S!CloseStdout
    BY <2>4 DEF S!CloseStdout, S!program, S!signals, S!launcher, IgnoreInv, IgnoreTyped
  <2>5. CASE S!ReadTail
    BY <2>5 DEF S!ReadTail, S!IExit, S!program, S!signals, S!launcher, IgnoreInv, IgnoreTyped
  <2>6. QED  BY <2>1, <2>2, <2>3, <2>4, <2>5
<1>4. TextTyped' /\ BudgetKept'
  BY <1>1, <1>2, TextsKeptKeeps DEF IgnoreInv, IgnoreTyped
<1>5. ServedRight'
  <2>1. CASE S!ReadTail
    <3>1. iexit = "no" /\ expected = <<>>
      BY <2>1 DEF S!ReadTail, IgnoreInv, IgnoreTyped, BudgetKept
    <3>2. lpc' = "done" /\ res' = "0" => iexit' = "0"
      BY <1>1, <3>1 DEF IgnoreInv, ServedRight
    <3>3. CASE toInter = <<>>
      <4>1. PICK s : ReadSoFar(s)  BY <3>1 DEF IgnoreInv, ServedRight
      <4>2. wrote = s /\ owed = s  BY <3>1, <3>3, <4>1, ConcatEmptySeq DEF ReadSoFar
      <4>3. ReadSoFar(s)'  BY <1>1, <4>1 DEF ReadSoFar, TextsKept
      <4>4. wrote' = owed'  BY <1>1, <4>2 DEF TextsKept
      <4>5. QED  BY <3>2, <4>3, <4>4 DEF ServedRight
    <3>4. CASE toInter # <<>>
      <4>1. iexit' = "failed"  BY <2>1, <3>4 DEF S!ReadTail, S!IExit
      <4>2. QED  BY <3>2, <4>1 DEF ServedRight
    <3>5. QED  BY <3>3, <3>4
  <2>2. CASE S!ExpectEof
    <3>1. iexit' = "failed" /\ iexit = "no"
      BY <2>2 DEF S!ExpectEof, S!IExit, IgnoreInv, IgnoreTyped
    <3>2. lpc' = "done" /\ res' = "0" => iexit' = "0"
      BY <1>1, <3>1 DEF IgnoreInv, ServedRight
    <3>3. QED  BY <3>1, <3>2 DEF ServedRight
  <2>3. CASE S!SendInterrupt \/ S!EndSleep \/ S!CloseStdout
    <3>1. iexit' = iexit  BY <2>3 DEF S!SendInterrupt, S!EndSleep, S!CloseStdout
    <3>2. lpc' = "done" /\ res' = "0" => iexit' = "0"
      BY <1>1, <3>1 DEF IgnoreInv, ServedRight
    <3>3. QED  BY <1>1, <3>1, <3>2, ServedKept DEF TextsKept
  <2>4. QED  BY <2>1, <2>2, <2>3
<1>6. QED  BY <1>3, <1>4, <1>5 DEF IgnoreInv

LEMMA ExpectKeeps ==
  ASSUME IgnoreInv, NEW n, S!Expect(n)
  PROVE  IgnoreInv'
<1>1. PICK a, b, c, d, e : /\ a = Len(toProg) /\ b = Len(todo) /\ c = Len(note)
                           /\ d = Len(toInter) /\ e = Len(expected)
  OBVIOUS
<1>2. /\ a \in Nat /\ b \in Nat /\ c \in Nat /\ d \in Nat /\ e \in Nat /\ sigterm \in BOOLEAN
      /\ toInter \in Seq(Half) /\ expected \in Seq(Half)
  BY <1>1, LensAreNaturals DEF IgnoreInv, IgnoreTyped, TextTyped
<1>3. /\ icat = "expect" /\ n \in 1 .. Len(toInter) /\ iexit = "no"
      /\ UNCHANGED <<lpc, res, rest, owed, pcat, todo, note, interrupt, wrote, pexit, sigterm, rtmax, toProg>>
  BY DEF S!Expect, S!launcher, S!program, S!signals, IgnoreInv, IgnoreTyped
<1>4. PICK p, r : p = SubSeq(toInter, 1, n) /\ r = S!Rest(toInter, n)  OBVIOUS
<1>5. /\ p \in Seq(Half) /\ Len(p) = n /\ r \in Seq(Half) /\ Len(r) = d - n /\ p \o r = toInter
      /\ n \in 1 .. d /\ toInter' = r /\ \A i \in 1 .. n : p[i] = toInter[i]
  <2>1. toInter' = r  BY <1>4 DEF S!Expect
  <2>2. n \in 1 .. d  BY <1>1, <1>3
  <2>3. Cut(toInter, n, p, r)  BY <1>2, <1>3, <1>4, CutText
  <2>4. QED  BY <1>1, <2>1, <2>2, <2>3 DEF Cut
<1>6. PICK s : ReadSoFar(s)  BY <1>3 DEF IgnoreInv, ServedRight
<1>7. PICK w : w = OnTheWay  OBVIOUS
<1>8. PICK t \in {0, 2} : t = IF sigterm THEN 2 ELSE 0  OBVIOUS
<1>9. w = a + b + c + d + t /\ w <= 2 /\ w <= e /\ e <= 2
  <2>1. w = a + b + c + d + t  BY <1>1, <1>7, <1>8 DEF OnTheWay
  <2>2. w <= 2 /\ w <= e /\ e <= 2  BY <1>1, <1>3, <1>7 DEF IgnoreInv, BudgetKept
  <2>3. QED  BY <2>1, <2>2
<1>10. OnTheWay' = a + b + c + (d - n) + t
  BY <1>1, <1>3, <1>5, <1>8 DEF OnTheWay
<1>11. lpc' = "done" /\ res' = "0" => iexit' = "0"  BY <1>3 DEF IgnoreInv, ServedRight
<1>12. CASE S!Matches(n)
  <2>1. PICK q, f : q = SubSeq(expected, 1, n) /\ f = S!Rest(expected, n)  OBVIOUS
  <2>2. n <= e /\ \A i \in 1 .. n : toInter[i] = expected[i]  BY <1>1, <1>12 DEF S!Matches
  <2>3. n \in 1 .. Len(expected)  BY <1>1, <1>2, <1>5, <2>2
  <2>4. /\ q \in Seq(Half) /\ Len(q) = n /\ f \in Seq(Half) /\ Len(f) = e - n /\ q \o f = expected
        /\ \A i \in 1 .. n : q[i] = expected[i]
    <3>1. Cut(expected, n, q, f)  BY <1>2, <2>1, <2>3, CutText
    <3>2. QED  BY <1>1, <3>1 DEF Cut
  <2>5. p = q
    <3>1. Len(p) = Len(q) /\ \A i \in 1 .. Len(p) : p[i] = q[i]  BY <1>5, <2>2, <2>4
    <3>2. QED  BY <1>5, <2>4, <3>1, SeqEqual
  <2>6. /\ expected' = f /\ icat' = (IF n = e THEN "next" ELSE "expect")
        /\ iexit' = iexit /\ stdinHolders' = stdinHolders
    BY <1>1, <1>12, <2>1 DEF S!Expect
  <2>7. IgnoreTyped'  BY <1>3, <2>6 DEF IgnoreInv, IgnoreTyped
  <2>8. TextTyped'  BY <1>3, <1>5, <2>4, <2>6 DEF IgnoreInv, TextTyped
  <2>9. BudgetKept'
    <3>1. PICK x : x = OnTheWay'  OBVIOUS
    <3>2. x = a + b + c + (d - n) + t  BY <1>10, <3>1
    <3>3. x <= 2 /\ x <= e - n /\ e - n <= 2
      <4>1. n \in Nat /\ x = w - n  BY <1>2, <1>5, <1>8, <1>9, <3>2
      <4>2. w \in Nat  BY <1>2, <1>8, <1>9
      <4>3. QED  BY <1>2, <1>9, <2>2, <4>1, <4>2
    <3>4. Len(expected') = e - n  BY <2>4, <2>6
    <3>5. icat' \notin {"expect", "exited"} => expected' = <<>>
      <4>1. SUFFICES ASSUME n = e  PROVE f = <<>>  BY <2>6
      <4>2. Len(f) = 0  BY <1>2, <2>4, <4>1
      <4>3. QED  BY <2>4, <4>2
    <3>6. QED  BY <3>1, <3>3, <3>4, <3>5 DEF BudgetKept
  <2>10. ServedRight'
    <3>1. s \in Seq(Half) /\ s \o p \in Seq(Half)  BY <1>5, <1>6, JoinTexts DEF ReadSoFar
    <3>2. wrote = (s \o p) \o r
      <4>1. wrote = s \o (p \o r)  BY <1>5, <1>6 DEF ReadSoFar
      <4>2. QED  BY <1>5, <3>1, <4>1, Regroup
    <3>3. owed = (s \o p) \o f
      <4>1. owed = s \o (p \o f)  BY <2>4, <2>5, <1>6 DEF ReadSoFar
      <4>2. s \in Seq(Half) /\ p \in Seq(Half) /\ f \in Seq(Half)  BY <1>5, <2>4, <3>1
      <4>3. (s \o p) \o f = s \o (p \o f)  BY <4>2, Regroup
      <4>4. QED  BY <4>1, <4>3
    <3>4. ReadSoFar(s \o p)'  BY <1>3, <1>5, <2>6, <3>1, <3>2, <3>3 DEF ReadSoFar
    <3>5. QED  BY <1>3, <1>11, <2>6, <3>4 DEF ServedRight
  <2>11. QED  BY <2>7, <2>8, <2>9, <2>10 DEF IgnoreInv
<1>13. CASE ~S!Matches(n)
  <2>1. /\ icat' = "exited" /\ iexit' = "failed" /\ expected' = expected
        /\ stdinHolders' = stdinHolders \ {"interactor"}
    BY <1>13 DEF S!Expect, S!IExit
  <2>2. IgnoreTyped'  BY <1>3, <2>1 DEF IgnoreInv, IgnoreTyped
  <2>3. TextTyped'  BY <1>3, <1>5, <2>1 DEF IgnoreInv, TextTyped
  <2>4. BudgetKept'
    <3>1. PICK x : x = OnTheWay'  OBVIOUS
    <3>2. x <= 2 /\ Len(expected') <= 2
      <4>1. x = a + b + c + (d - n) + t  BY <1>10, <3>1
      <4>2. Len(expected') = e  BY <1>1, <2>1
      <4>3. QED  BY <1>2, <1>5, <1>8, <1>9, <4>1, <4>2
    <3>3. QED  BY <2>1, <3>1, <3>2 DEF BudgetKept
  <2>5. ServedRight'  BY <1>11, <2>1 DEF ServedRight
  <2>6. QED  BY <2>2, <2>3, <2>4, <2>5 DEF IgnoreInv
<1>14. QED  BY <1>12, <1>13

-----------------------------------------------------------------------------
(* The program moves what is on its way towards the interactor.            *)
LEMMA MovesKeep ==
  ASSUME IgnoreInv, IgnoreTyped', TextTyped', NEW w \in Nat, NEW x \in Nat,
         w = OnTheWay, x = OnTheWay', x <= w,
         expected' = expected, owed' = owed, icat' = icat, iexit' = iexit, lpc' = lpc, res' = res,
         \/ wrote' = wrote /\ toInter' = toInter
         \/ iexit = "no" /\ \E p \in Seq(Half) : wrote' = wrote \o p /\ toInter' = toInter \o p
  PROVE  IgnoreInv'
<1>1. BudgetKept'
  <2>1. PICK e : e = Len(expected)  OBVIOUS
  <2>2. e \in Nat  BY <2>1, LensAreNaturals DEF IgnoreInv
  <2>3. /\ w <= 2 /\ e <= 2 /\ (icat # "exited" => w <= e)
        /\ (icat \notin {"expect", "exited"} => expected = <<>>)
    BY <2>1 DEF IgnoreInv, BudgetKept
  <2>4. x <= 2 /\ (icat # "exited" => x <= e)  BY <2>2, <2>3
  <2>5. Len(expected') = e  BY <2>1
  <2>6. QED  BY <2>3, <2>4, <2>5 DEF BudgetKept
<1>2. ServedRight'
  <2>1. CASE wrote' = wrote /\ toInter' = toInter
    <3>1. \A s : ReadSoFar(s) => ReadSoFar(s)'  BY <2>1 DEF ReadSoFar
    <3>2. QED  BY <2>1, <3>1 DEF IgnoreInv, ServedRight
  <2>2. CASE iexit = "no" /\ \E p \in Seq(Half) : wrote' = wrote \o p /\ toInter' = toInter \o p
    <3>1. PICK p \in Seq(Half) : wrote' = wrote \o p /\ toInter' = toInter \o p  BY <2>2
    <3>2. PICK s : ReadSoFar(s)  BY <2>2 DEF IgnoreInv, ServedRight
    <3>3. s \in Seq(Half) /\ toInter \in Seq(Half) /\ wrote = s \o toInter
      BY <3>2 DEF ReadSoFar, IgnoreInv, TextTyped
    <3>4. (s \o toInter) \o p = s \o (toInter \o p)  BY <3>3, Regroup
    <3>5. wrote' = s \o toInter'  BY <3>1, <3>3, <3>4
    <3>6. ReadSoFar(s)'  BY <3>2, <3>5 DEF ReadSoFar
    <3>7. QED  BY <2>2, <3>6 DEF IgnoreInv, ServedRight
  <2>3. QED  BY <2>1, <2>2
<1>3. QED  BY <1>1, <1>2 DEF IgnoreInv

(* Its actions that leave the texts alone.                                 *)
LEMMA QuietProgramKeeps ==
  ASSUME IgnoreInv, S!Exec \/ S!ReadEof \/ S!HandleInterrupt \/ S!Written
  PROVE  IgnoreInv'
<1>1. /\ TextsKept /\ sigterm' = sigterm
      /\ icat' = icat /\ iexit' = iexit /\ lpc' = lpc /\ res' = res
  BY DEF S!Exec, S!ReadEof, S!HandleInterrupt, S!Written, S!interactor, S!signals, S!launcher, TextsKept
<1>2. IgnoreTyped'
  <2>1. CASE S!Exec
    BY <2>1 DEF S!Exec, S!interactor, S!signals, S!launcher, IgnoreInv, IgnoreTyped
  <2>2. CASE S!ReadEof
    BY <2>2 DEF S!ReadEof, S!Waits, S!PExit, S!interactor, S!signals, S!launcher, IgnoreInv, IgnoreTyped
  <2>3. CASE S!HandleInterrupt
    BY <2>3 DEF S!HandleInterrupt, S!interactor, S!launcher, IgnoreInv, IgnoreTyped
  <2>4. CASE S!Written
    BY <2>4 DEF S!Written, S!interactor, S!signals, S!launcher, IgnoreInv, IgnoreTyped
  <2>5. QED  BY <2>1, <2>2, <2>3, <2>4
<1>3. TextTyped' /\ BudgetKept'
  BY <1>1, TextsKeptKeeps DEF IgnoreInv, IgnoreTyped, BudgetKept
<1>4. ServedRight'
  <2>1. lpc' = "done" /\ res' = "0" => iexit' = "0"  BY <1>1 DEF IgnoreInv, ServedRight
  <2>2. QED  BY <1>1, <2>1, ServedKept DEF TextsKept
<1>5. QED  BY <1>2, <1>3, <1>4 DEF IgnoreInv

LEMMA ReadKeeps ==
  ASSUME IgnoreInv, NEW n, S!Read(n)
  PROVE  IgnoreInv'
<1>1. PICK a, b, c, d : a = Len(toProg) /\ b = Len(todo) /\ c = Len(note) /\ d = Len(toInter)
  OBVIOUS
<1>2. /\ a \in Nat /\ b \in Nat /\ c \in Nat /\ d \in Nat /\ sigterm \in BOOLEAN
      /\ toProg \in Seq(Half)
  BY <1>1, LensAreNaturals DEF IgnoreInv, IgnoreTyped, TextTyped
<1>3. n \in 1 .. Len(toProg) /\ pcat = "read" /\ pcat' = "write"
  BY DEF S!Read, S!Waits
<1>4. PICK p, r : p = SubSeq(toProg, 1, n) /\ r = S!Rest(toProg, n)  OBVIOUS
<1>5. /\ p \in Seq(Half) /\ Len(p) = n /\ r \in Seq(Half) /\ Len(r) = a - n /\ n \in 1 .. a
      /\ todo' = p /\ toProg' = r
  <2>1. todo' = p /\ toProg' = r  BY <1>4 DEF S!Read
  <2>2. n \in 1 .. a  BY <1>1, <1>3
  <2>3. Cut(toProg, n, p, r)  BY <1>2, <1>3, <1>4, CutText
  <2>4. QED  BY <1>1, <2>1, <2>2, <2>3 DEF Cut
<1>6. UNCHANGED <<lpc, res, stdinHolders, icat, rest, expected, owed, iexit, note, interrupt, wrote,
                  pexit, sigterm, rtmax, toInter>>
  BY DEF S!Read, S!launcher, S!interactor, S!signals
<1>7. IgnoreTyped'  BY <1>3, <1>6 DEF IgnoreInv, IgnoreTyped
<1>8. TextTyped'  BY <1>5, <1>6 DEF IgnoreInv, TextTyped
<1>9. PICK t \in {0, 2} : t = IF sigterm THEN 2 ELSE 0  OBVIOUS
<1>10. PICK w : w = OnTheWay  OBVIOUS
<1>11. PICK x : x = OnTheWay'  OBVIOUS
<1>12. w = a + b + c + d + t  BY <1>1, <1>9, <1>10 DEF OnTheWay
<1>13. x = (a - n) + n + c + d + t  BY <1>1, <1>5, <1>6, <1>9, <1>11 DEF OnTheWay
<1>14. w \in Nat /\ x \in Nat /\ x <= w  BY <1>2, <1>5, <1>9, <1>12, <1>13
<1>15. QED  BY <1>6, <1>7, <1>8, <1>10, <1>11, <1>14, MovesKeep

LEMMA AnswerKeeps ==
  ASSUME IgnoreInv, S!Answer
  PROVE  IgnoreInv'
<1>1. PICK text : text = S!Halves(S!Message)  OBVIOUS
<1>2. text \in Seq(Half) /\ Len(text) = 2
  <2>1. S!Message \in 0 .. MaxCommands  BY BoundsAssumption DEF S!Message
  <2>2. QED  BY <1>1, <2>1, HalvesType
<1>3. /\ pcat = "read" /\ pcat' = "write" /\ sigterm = TRUE /\ sigterm' = FALSE /\ todo' = text
      /\ UNCHANGED <<lpc, res, stdinHolders, icat, rest, expected, owed, iexit, note, interrupt, wrote,
                     pexit, rtmax, toProg, toInter>>
  BY <1>1 DEF S!Answer, S!launcher, S!interactor, IgnoreInv, IgnoreTyped
<1>4. PICK a, b, c, d : a = Len(toProg) /\ b = Len(todo) /\ c = Len(note) /\ d = Len(toInter)
  OBVIOUS
<1>5. a \in Nat /\ b \in Nat /\ c \in Nat /\ d \in Nat
  BY <1>4, LensAreNaturals DEF IgnoreInv
<1>6. IgnoreTyped'  BY <1>3 DEF IgnoreInv, IgnoreTyped
<1>7. TextTyped'  BY <1>2, <1>3 DEF IgnoreInv, TextTyped
<1>8. PICK w : w = OnTheWay  OBVIOUS
<1>9. PICK x : x = OnTheWay'  OBVIOUS
<1>10. w = a + b + c + d + 2  BY <1>3, <1>4, <1>8 DEF OnTheWay
<1>11. x = a + 2 + c + d + 0
  <2>1. Len(todo') = 2  BY <1>2, <1>3
  <2>2. QED  BY <1>3, <1>4, <1>9, <2>1 DEF OnTheWay
<1>12. w \in Nat /\ x \in Nat /\ x <= w  BY <1>5, <1>10, <1>11
<1>13. QED  BY <1>3, <1>6, <1>7, <1>8, <1>9, <1>12, MovesKeep

LEMMA HandleTermKeeps ==
  ASSUME IgnoreInv, S!HandleTerm
  PROVE  IgnoreInv'
<1>1. PICK text : text = S!Halves(S!Message)  OBVIOUS
<1>2. text \in Seq(Half) /\ Len(text) = 2
  <2>1. S!Message \in 0 .. MaxCommands  BY BoundsAssumption DEF S!Message
  <2>2. QED  BY <1>1, <2>1, HalvesType
<1>3. /\ sigterm = TRUE /\ sigterm' = FALSE
      /\ UNCHANGED <<lpc, res, stdinHolders, icat, rest, expected, owed, iexit, todo, interrupt, wrote,
                     rtmax, toProg, toInter>>
  BY DEF S!HandleTerm, S!launcher, S!interactor, IgnoreInv, IgnoreTyped
<1>4. \/ note' = note \o text /\ pcat' = pcat /\ pexit' = pexit
      \/ note' = note /\ pcat' = "exited" /\ pexit' \in {"0", "failed"}
  BY <1>1 DEF S!HandleTerm, S!PExit
<1>5. PICK a, b, c, d : a = Len(toProg) /\ b = Len(todo) /\ c = Len(note) /\ d = Len(toInter)
  OBVIOUS
<1>6. a \in Nat /\ b \in Nat /\ c \in Nat /\ d \in Nat /\ note \in Seq(Half)
  BY <1>5, LensAreNaturals DEF IgnoreInv, TextTyped
<1>7. note \o text \in Seq(Half) /\ Len(note \o text) = c + 2
  BY <1>2, <1>5, <1>6, JoinTexts
<1>8. PICK k \in {c, c + 2} : k = Len(note') /\ note' \in Seq(Half)  BY <1>4, <1>5, <1>6, <1>7
<1>9. pcat \in {"read", "write"}  BY DEF S!HandleTerm
<1>10. IgnoreTyped'  BY <1>3, <1>4, <1>9 DEF IgnoreInv, IgnoreTyped
<1>11. TextTyped'  BY <1>3, <1>8 DEF IgnoreInv, TextTyped
<1>12. PICK w : w = OnTheWay  OBVIOUS
<1>13. PICK x : x = OnTheWay'  OBVIOUS
<1>14. w = a + b + c + d + 2  BY <1>3, <1>5, <1>12 DEF OnTheWay
<1>15. x = a + b + k + d + 0  BY <1>3, <1>5, <1>8, <1>13 DEF OnTheWay
<1>16. w \in Nat /\ x \in Nat /\ x <= w  BY <1>6, <1>8, <1>14, <1>15
<1>17. QED  BY <1>3, <1>10, <1>11, <1>12, <1>13, <1>16, MovesKeep

(* What a write of s does: nothing is written, or n halves of it are.      *)
Wrote(s, r, n) ==
  /\ r \in Seq(Half) /\ Len(r) <= Len(s)
  /\ interrupt' \in BOOLEAN
  /\ \/ pcat' = pcat /\ pexit' = pexit
     \/ pcat' = "exited" /\ pexit' = "failed"
  /\ \/ wrote' = wrote /\ toInter' = toInter
     \/ /\ iexit = "no" /\ Len(r) = Len(s) - n
        /\ \E p \in Seq(Half) : Len(p) = n /\ wrote' = wrote \o p /\ toInter' = toInter \o p

LEMMA WrappedWrites ==
  ASSUME IgnoreInv, NEW s \in Seq(Half), NEW n \in 1 .. Len(s), NEW r, S!Wrapped(s, r, n)
  PROVE  Wrote(s, r, n)
<1>1. interrupt \in BOOLEAN /\ iexit \in {"no", "0", "failed"}  BY DEF IgnoreInv, IgnoreTyped
<1>2. PICK m \in Nat : m = Len(s)  BY LenProperties
<1>3. CASE interrupt = TRUE
  <2>1. /\ interrupt' = FALSE /\ r = (IF cat = "careless" THEN <<>> ELSE s)
        /\ UNCHANGED <<pcat, pexit, wrote, toInter>>
    BY <1>3 DEF S!Wrapped, S!Cleared
  <2>2. r \in Seq(Half) /\ Len(r) <= m
    <3>1. CASE cat = "careless"  BY <1>2, <2>1, <3>1, NoText
    <3>2. CASE cat # "careless"  BY <1>2, <2>1, <3>2
    <3>3. QED  BY <3>1, <3>2
  <2>3. QED  BY <1>2, <2>1, <2>2 DEF Wrote
<1>4. CASE interrupt = FALSE /\ iexit # "no"
  <2>1. /\ pcat' = "exited" /\ pexit' = "failed" /\ r = s
        /\ UNCHANGED <<interrupt, wrote, toInter>>
    BY <1>4 DEF S!Wrapped, S!PExit
  <2>2. Len(r) <= m  BY <1>2, <2>1
  <2>3. QED  BY <1>1, <1>2, <2>1, <2>2 DEF Wrote
<1>5. CASE interrupt = FALSE /\ iexit = "no"
  <2>1. PICK p : p = SubSeq(s, 1, n)  OBVIOUS
  <2>2. /\ toInter' = toInter \o p /\ wrote' = wrote \o p /\ r = S!Rest(s, n)
        /\ UNCHANGED <<interrupt, pcat, pexit>>
    BY <1>5, <2>1 DEF S!Wrapped
  <2>3. Cut(s, n, p, r)  BY <2>1, <2>2, CutText
  <2>4. p \in Seq(Half) /\ Len(p) = n /\ r \in Seq(Half) /\ Len(r) = m - n /\ n \in 1 .. m
    BY <1>2, <2>3 DEF Cut
  <2>5. Len(r) <= m  BY <1>2, <2>4
  <2>6. QED  BY <1>1, <1>2, <1>5, <2>2, <2>4, <2>5 DEF Wrote
<1>6. QED  BY <1>1, <1>3, <1>4, <1>5

LEMMA WriteKeeps ==
  ASSUME IgnoreInv, NEW n, S!WriteNote(n) \/ S!Write(n)
  PROVE  IgnoreInv'
<1>1. PICK a, b, c, d : a = Len(toProg) /\ b = Len(todo) /\ c = Len(note) /\ d = Len(toInter)
  OBVIOUS
<1>2. /\ a \in Nat /\ b \in Nat /\ c \in Nat /\ d \in Nat
      /\ todo \in Seq(Half) /\ note \in Seq(Half) /\ toInter \in Seq(Half) /\ wrote \in Seq(Half)
  BY <1>1, LensAreNaturals DEF IgnoreInv, TextTyped
<1>3. /\ UNCHANGED <<lpc, res, stdinHolders, icat, rest, expected, owed, iexit, sigterm, rtmax, toProg>>
      /\ pcat # "exited"
  BY DEF S!WriteNote, S!Write, S!launcher, S!interactor, S!signals
<1>4. PICK s, r, other \in Seq(Half) :
         /\ s \in Seq(Half) /\ n \in 1 .. Len(s) /\ Wrote(s, r, n)
         /\ \/ s = note /\ note' = r /\ todo = other /\ todo' = other
            \/ s = todo /\ todo' = r /\ note = other /\ note' = other
  <2>1. CASE S!WriteNote(n)
    <3>1. PICK r : r = note'  OBVIOUS
    <3>2. n \in 1 .. Len(note) /\ S!Wrapped(note, r, n) /\ todo' = todo
      BY <2>1, <3>1 DEF S!WriteNote
    <3>3. Wrote(note, r, n)  BY <1>2, <3>2, WrappedWrites
    <3>4. note \in Seq(Half) /\ r \in Seq(Half) /\ todo \in Seq(Half)  BY <1>2, <3>3 DEF Wrote
    <3>5. QED  BY <3>1, <3>2, <3>3, <3>4, Zenon
  <2>2. CASE S!Write(n)
    <3>1. PICK r : r = todo'  OBVIOUS
    <3>2. n \in 1 .. Len(todo) /\ S!Wrapped(todo, r, n) /\ note' = note
      BY <2>2, <3>1 DEF S!Write
    <3>3. Wrote(todo, r, n)  BY <1>2, <3>2, WrappedWrites
    <3>4. todo \in Seq(Half) /\ r \in Seq(Half) /\ note \in Seq(Half)  BY <1>2, <3>3 DEF Wrote
    <3>5. QED  BY <3>1, <3>2, <3>3, <3>4, Zenon
  <2>3. QED  BY <2>1, <2>2
<1>5. PICK k, l, o \in Nat : k = Len(s) /\ l = Len(r) /\ o = Len(other) /\ l <= k
  BY <1>4, LenProperties DEF Wrote
<1>6. note' \in Seq(Half) /\ todo' \in Seq(Half) /\ r \in Seq(Half)  BY <1>4 DEF Wrote
<1>7. /\ interrupt' \in BOOLEAN
      /\ (pcat' = pcat /\ pexit' = pexit) \/ (pcat' = "exited" /\ pexit' = "failed")
  BY <1>4 DEF Wrote
<1>8. PICK t \in {0, 2} : t = IF sigterm THEN 2 ELSE 0  OBVIOUS
<1>9. PICK w : w = OnTheWay  OBVIOUS
<1>10. PICK x : x = OnTheWay'  OBVIOUS
<1>11. /\ a \in Nat /\ d \in Nat /\ k \in Nat /\ l \in Nat /\ o \in Nat /\ t \in Nat
       /\ l <= k /\ 1 <= k
  <2>1. 1 <= k  BY <1>4, <1>5
  <2>2. QED  BY <1>2, <1>5, <1>8, <2>1
<1>12. w = a + (k + o) + d + t
  <2>1. w = a + b + c + d + t  BY <1>1, <1>8, <1>9 DEF OnTheWay
  <2>2. (b = k /\ c = o) \/ (b = o /\ c = k)  BY <1>1, <1>4, <1>5
  <2>3. QED  BY <1>2, <1>11, <2>1, <2>2
<1>13. IgnoreTyped'
  <2>1. icat # "none"
    <3>1. icat = "none" => w <= 0  BY <1>9, NoText DEF IgnoreInv, BudgetKept
    <3>2. QED  BY <1>11, <1>12, <3>1
  <2>2. QED  BY <1>3, <1>7, <2>1 DEF IgnoreInv, IgnoreTyped
<1>14. ASSUME NEW e \in Nat, e = Len(toInter')  PROVE x = a + (l + o) + e + t
  <2>1. PICK f, g : f = Len(todo') /\ g = Len(note')  OBVIOUS
  <2>2. x = a + f + g + e + t  BY <1>1, <1>3, <1>8, <1>10, <1>14, <2>1 DEF OnTheWay
  <2>3. (f = l /\ g = o) \/ (f = o /\ g = l)  BY <1>4, <1>5, <2>1
  <2>4. QED  BY <1>11, <1>14, <2>2, <2>3
<1>15. CASE wrote' = wrote /\ toInter' = toInter
  <2>1. TextTyped'  BY <1>3, <1>6, <1>15 DEF IgnoreInv, TextTyped
  <2>2. x = a + (l + o) + d + t  BY <1>1, <1>2, <1>15, <1>14
  <2>3. w \in Nat /\ x \in Nat /\ x <= w  BY <1>11, <1>12, <2>2
  <2>4. QED  BY <1>3, <1>13, <1>9, <1>10, <1>15, <2>1, <2>3, MovesKeep
<1>16. CASE ~(wrote' = wrote /\ toInter' = toInter)
  <2>1. PICK p \in Seq(Half) : Len(p) = n /\ wrote' = wrote \o p /\ toInter' = toInter \o p
    BY <1>4, <1>16 DEF Wrote
  <2>2. iexit = "no" /\ l = k - n /\ n \in 1 .. k  BY <1>4, <1>5, <1>16 DEF Wrote
  <2>3. wrote \o p \in Seq(Half) /\ toInter \o p \in Seq(Half) /\ Len(toInter \o p) = d + n
    BY <1>1, <1>2, <2>1, JoinTexts
  <2>4. TextTyped'  BY <1>3, <1>6, <2>1, <2>3 DEF IgnoreInv, TextTyped
  <2>5. PICK e : e = d + n  OBVIOUS
  <2>6. e \in Nat /\ e = Len(toInter')  BY <1>2, <2>1, <2>2, <2>3, <2>5
  <2>7. x = a + (l + o) + e + t  BY <1>14, <2>6
  <2>8. w \in Nat /\ x \in Nat /\ x <= w
    <3>1. l + e = k + d  BY <1>11, <2>2, <2>5
    <3>2. QED  BY <1>11, <1>12, <2>6, <2>7, <3>1
  <2>9. QED  BY <1>3, <1>13, <1>9, <1>10, <2>1, <2>2, <2>4, <2>8, MovesKeep
<1>17. QED  BY <1>15, <1>16

LEMMA IgnoreStepKeeps == IgnoreInv /\ [S!Next]_(S!vars) => IgnoreInv'
<1> SUFFICES ASSUME IgnoreInv, [S!Next]_(S!vars)  PROVE IgnoreInv'  OBVIOUS
<1>1. CASE S!Launcher  BY <1>1, LauncherKeeps
<1>2. CASE S!Interactor
  <2>1. CASE S!SendLine  BY <2>1, SendLineKeeps
  <2>2. CASE S!SendTerm  BY <2>2, SendTermKeeps
  <2>3. CASE S!SendInterrupt \/ S!EndSleep \/ S!ExpectEof \/ S!CloseStdout \/ S!ReadTail
    BY <2>3, QuietInteractorKeeps
  <2>4. CASE \E n \in 1 .. 4 : S!Expect(n)  BY <2>4, ExpectKeeps
  <2>5. QED  BY <1>2, <2>1, <2>2, <2>3, <2>4 DEF S!Interactor
<1>3. CASE S!Program
  <2>1. CASE S!Exec \/ S!ReadEof \/ S!HandleInterrupt \/ S!Written  BY <2>1, QuietProgramKeeps
  <2>2. CASE S!Answer  BY <2>2, AnswerKeeps
  <2>3. CASE S!HandleTerm  BY <2>3, HandleTermKeeps
  <2>4. CASE \E n \in 1 .. 2 : S!Read(n) \/ S!WriteNote(n) \/ S!Write(n)
    <3>1. PICK n \in 1 .. 2 : S!Read(n) \/ S!WriteNote(n) \/ S!Write(n)  BY <2>4
    <3>2. CASE S!Read(n)  BY <3>2, ReadKeeps
    <3>3. CASE S!WriteNote(n) \/ S!Write(n)  BY <3>3, WriteKeeps
    <3>4. QED  BY <3>1, <3>2, <3>3
  <2>5. QED  BY <1>3, <2>1, <2>2, <2>3, <2>4 DEF S!Program
<1>4. CASE UNCHANGED S!vars
  <2>1. /\ UNCHANGED <<lpc, res, stdinHolders, icat, rest, expected, owed, iexit>>
        /\ UNCHANGED <<pcat, todo, note, interrupt, wrote, pexit, sigterm, rtmax, toProg, toInter>>
    BY <1>4 DEF S!vars, S!launcher, S!interactor, S!program, S!signals
  <2>2. IgnoreTyped'  BY ZenonT(40), <2>1 DEF IgnoreInv, IgnoreTyped
  <2>3. TextsKept  BY <2>1 DEF TextsKept
  <2>4. TextTyped' /\ BudgetKept'
    BY <2>1, <2>3, TextsKeptKeeps DEF IgnoreInv, IgnoreTyped, BudgetKept
  <2>5. lpc' = "done" /\ res' = "0" => iexit' = "0"  BY <2>1 DEF IgnoreInv, ServedRight
  <2>6. ServedRight'  BY <2>1, <2>5, ServedKept
  <2>7. QED  BY <2>2, <2>4, <2>6 DEF IgnoreInv
<1>5. QED  BY <1>1, <1>2, <1>3, <1>4 DEF S!Next

LEMMA IgnoreInvImplies == IgnoreInv => OkMeansServed
<1> SUFFICES ASSUME IgnoreInv  PROVE OkMeansServed  OBVIOUS
<1>1. PICK a, b, c, d : a = Len(toProg) /\ b = Len(todo) /\ c = Len(note) /\ d = Len(toInter)
  OBVIOUS
<1>2. a \in Nat /\ b \in Nat /\ c \in Nat /\ d \in Nat
  BY <1>1, LensAreNaturals
<1>3. PICK t \in {0, 2} : t = IF sigterm THEN 2 ELSE 0  OBVIOUS
<1>4. a + b + c + d + t <= 2  BY <1>1, <1>3 DEF IgnoreInv, BudgetKept, OnTheWay
<1>5. a <= 2 /\ b <= 2 /\ c <= 2 /\ d <= 2  BY <1>2, <1>3, <1>4
<1>6. S!TypeOK
  BY <1>1, <1>5 DEF IgnoreInv, IgnoreTyped, BudgetKept, S!TypeOK
<1>7. S!OkMeansServed  BY DEF IgnoreInv, ServedRight, S!OkMeansServed
<1>8. QED  BY <1>6, <1>7 DEF OkMeansServed

(* A behaviour that is not about this task leaves its session alone.       *)
LEMMA RunsIgnore == AllSpec => S!Init /\ [][S!Next]_(S!vars)
<1>1. AllInit => S!Init  BY DEF AllInit
<1>2. [AllNext]_allVars => [S!Next]_(S!vars)
  <2>1. UNCHANGED ignoreVars => UNCHANGED S!vars
    BY DEF ignoreVars, S!vars, S!launcher, S!interactor, S!program, S!signals
  <2>2. QED  BY <2>1 DEF AllNext, allVars, FilesStep, IgnoreStep
<1>3. QED  BY <1>1, <1>2, PTL DEF AllSpec

(* When the launcher of ignore returns 0 the program has written all that  *)
(* the test asked for, in its order, and nothing else: however its writes  *)
(* are cut, interrupted, and overtaken by signals.                         *)
THEOREM OkIsEarned == AllSpec => []OkMeansServed
<1>1. IgnoreInv => OkMeansServed  BY IgnoreInvImplies
<1>2. QED  BY <1>1, IgnoreInit, IgnoreStepKeeps, RunsIgnore, PTL

=============================================================================
