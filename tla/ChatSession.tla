---------------------------- MODULE ChatSession ----------------------------
(***************************************************************************)
(* The interactor of the chat task.  It reads the whole .dat file before   *)
(* any of its connections runs, since putting into an unbounded queue does *)
(* not suspend; then every connection is a task of its own that carries    *)
(* out its commands, and the tasks meet at a latch for each line of "=".   *)
(* What the server does is a free choice of every command.  The command    *)
(* sleep is left out: here, anything may take any time.                    *)
(***************************************************************************)
EXTENDS Naturals, Sequences, FiniteSets

CONSTANTS
  Client,    \* the names of connections
  Method,    \* the commands in files, of "conn", "send", "recv", "stop", "rstop"
  MaxLines   \* bound on the lines of a file

MethodAssumption == Method \subseteq {"conn", "send", "recv", "stop", "rstop"}
BoundsAssumption == IsFiniteSet(Client) /\ MaxLines \in Nat

VARIABLES
  lines,     \* what has been read: [method |-> "barrier"], or [client, method]
  known,     \* connections: those that have a task
  queue,     \* of each, the methods to come, with a line or a latch
  latches,   \* by id: remaining, and whether the event done is set
  cur,       \* what the task of a connection is at, None in between
  started, writer_closed, reader_closed,   \* the sets of connections that have
  done,      \* the tasks that have ended well
  status, mpc,   \* of main
  server,    \* "up", "term" after SIGTERM, or "ended"
  bad        \* whether the server has done anything wrong (for the properties)

conns == <<cur, started, writer_closed, reader_closed, done, bad>>
file == <<lines, known>>
chatVars == <<file, queue, latches, conns, status, mpc, server>>

None == [method |-> "none", arg |-> 0]
Item(method, arg) == [method |-> method, arg |-> arg]

Init ==
  /\ lines = <<>> /\ known = {} /\ queue = [c \in Client |-> <<>>] /\ latches = <<>>
  /\ cur = [c \in Client |-> None]
  /\ started = {} /\ writer_closed = {} /\ reader_closed = {} /\ done = {}
  /\ status = "OK" /\ mpc = "parse" /\ server = "up" /\ bad = FALSE

-----------------------------------------------------------------------------
(* process_input.                                                          *)
Put(item) == queue' = [c \in Client |-> IF c \in known THEN Append(queue[c], item) ELSE queue[c]]

ReadLine(line) ==
  /\ mpc = "parse" /\ Len(lines) < MaxLines
  /\ lines' = Append(lines, line) /\ UNCHANGED <<conns, server>>

Barrier ==
  /\ ReadLine([method |-> "barrier"])
  /\ latches' = Append(latches, [remaining |-> Cardinality(known), done |-> FALSE])
  /\ Put(Item("arrive", Len(latches) + 1))
  /\ UNCHANGED <<known, status, mpc>>

(* Fault: a new connection starts at once.                                 *)
ConnectAtOnce(c) ==
  /\ c \notin known /\ ReadLine([client |-> c, method |-> "type"])
  /\ known' = known \cup {c} /\ UNCHANGED <<queue, latches, status, mpc>>

NewConnection(c) ==
  /\ c \notin known /\ ReadLine([client |-> c, method |-> "type"])
  /\ known' = known \cup {c}
  /\ IF latches = <<>> THEN UNCHANGED queue
     ELSE queue' = [queue EXCEPT ![c] = Append(@, Item("wait", Len(latches)))]
  /\ UNCHANGED <<latches, status, mpc>>

Command(c, method) ==
  /\ c \in known /\ ReadLine([client |-> c, method |-> method])
  /\ queue' = [queue EXCEPT ![c] = Append(@, Item(method, Len(lines) + 1))]
  /\ UNCHANGED <<known, latches, status, mpc>>

(* "socket type is not specified".                                         *)
NoType(c, method) ==
  /\ c \notin known /\ method # "type" /\ ReadLine([client |-> c, method |-> method])
  /\ status' = "CF" /\ mpc' = "exit"
  /\ UNCHANGED <<known, queue, latches>>

EndOfFile ==
  /\ mpc = "parse" /\ mpc' = "run" /\ Put(Item("done", Len(lines) + 1))
  /\ UNCHANGED <<file, latches, conns, status, server>>

-----------------------------------------------------------------------------
(* The task of a connection.                                               *)
Get(c) ==
  /\ mpc = "run" /\ cur[c] = None /\ queue[c] # <<>>
  /\ cur' = [cur EXCEPT ![c] = Head(queue[c])] /\ queue' = [queue EXCEPT ![c] = Tail(@)]
  /\ UNCHANGED <<file, latches, started, writer_closed, reader_closed, done, bad, status, mpc, server>>

At(c, method) == mpc = "run" /\ cur[c].method = method

(* The method returns; or the task ends with an exception, which main sees *)
(* if it is the first.                                                     *)
Return(c) == cur' = [cur EXCEPT ![c] = None] /\ UNCHANGED status
Raise(c, verdict) ==
  /\ cur' = [cur EXCEPT ![c] = Item("raised", 0)]
  /\ status' = IF status = "OK" THEN verdict ELSE status

(* What the server does is right, or wrong and means a verdict.            *)
Right(c) == Return(c) /\ UNCHANGED bad
Wrong(c, verdicts) == bad' = TRUE /\ \E v \in verdicts : Raise(c, v)

sync == <<file, queue, started, writer_closed, reader_closed, done, bad, mpc, server>>

(* Latch.arrive_and_wait, up to and after its await.                       *)
Arrive(c) ==
  LET l == cur[c].arg IN
  /\ At(c, "arrive")
  /\ IF latches[l].remaining = 0 THEN Raise(c, "CF") /\ UNCHANGED latches
     ELSE LET left == latches[l].remaining - 1 IN
          /\ latches' = [latches EXCEPT ![l] = [remaining |-> left, done |-> left = 0]]
          /\ UNCHANGED status
          /\ cur' = [cur EXCEPT ![c] = IF left = 0 THEN None ELSE Item("wait", l)]
  /\ UNCHANGED sync

Wait(c) == At(c, "wait") /\ latches[cur[c].arg].done /\ Return(c) /\ UNCHANGED <<sync, latches>>

rest == <<file, queue, latches, mpc, server>>

(* init_connection.  The methods below begin with it.                      *)
Conn(c) ==
  /\ At(c, "conn")
  /\ \/ Right(c) /\ started' = started \cup {c}
     \/ c \notin started /\ Wrong(c, {"PE"}) /\ UNCHANGED started
  /\ UNCHANGED <<rest, writer_closed, reader_closed, done>>

Send(c) ==
  /\ At(c, "send")
  /\ IF c \in writer_closed THEN Raise(c, "CF") /\ UNCHANGED <<started, bad>>
     ELSE \/ Right(c) /\ started' = started \cup {c}
          \/ Wrong(c, {"PE"}) /\ started' \in {started, started \cup {c}}
  /\ UNCHANGED <<rest, writer_closed, reader_closed, done>>

(* The end of the stream, and other data, are wrong answers.               *)
Recv(c) ==
  /\ At(c, "recv")
  /\ IF c \in reader_closed THEN Raise(c, "CF") /\ UNCHANGED <<started, bad>>
     ELSE \/ Right(c) /\ started' = started \cup {c}
          \/ Wrong(c, {"WA", "PE"}) /\ started' \in {started, started \cup {c}}
  /\ UNCHANGED <<rest, writer_closed, reader_closed, done>>

(* close_writer.  There is no writer before the connection is made; when   *)
(* the server has reset it, write_eof raises OSError.                      *)
Stop(c) ==
  /\ At(c, "stop")
  /\ \/ c \in started \cup writer_closed /\ Right(c) /\ writer_closed' = writer_closed \cup {c}
     \/ c \in started \ writer_closed /\ Wrong(c, {"PE"}) /\ UNCHANGED writer_closed
     \/ c \notin started \cup writer_closed /\ Raise(c, "CF") /\ UNCHANGED <<writer_closed, bad>>
  /\ UNCHANGED <<rest, started, reader_closed, done>>

(* close_reader.  When the connection has been lost it raises OSError, or  *)
(* AttributeError for the socket that is gone.                             *)
RStop(c) ==
  /\ At(c, "rstop")
  /\ \/ c \in started \cup reader_closed /\ Right(c) /\ reader_closed' = reader_closed \cup {c}
     \/ c \in started \ reader_closed /\ Wrong(c, {"PE", "CF"}) /\ UNCHANGED reader_closed
     \/ c \notin started \cup reader_closed /\ Raise(c, "CF") /\ UNCHANGED <<reader_closed, bad>>
  /\ UNCHANGED <<rest, started, writer_closed, done>>

(* Fault: what comes after the last command is not read.                   *)
DoneWithoutTail(c) ==
  /\ At(c, "done")
  /\ writer_closed' = writer_closed \cup (started \cap {c}) /\ bad' \in {bad, TRUE}
  /\ IF c \in started THEN Return(c) /\ done' = done \cup {c} ELSE Raise(c, "CF") /\ UNCHANGED done
  /\ UNCHANGED <<rest, started, reader_closed>>

(* The writer is closed, which can fail as above.  Then the server has to  *)
(* close the connection, and to send nothing more.                         *)
Done(c) ==
  /\ At(c, "done")
  /\ \/ c \in started \ writer_closed /\ Wrong(c, {"PE"}) /\ UNCHANGED <<writer_closed, done>>
     \/ /\ writer_closed' = writer_closed \cup (started \cap {c})
        /\ CASE c \notin started -> Raise(c, "CF") /\ UNCHANGED <<done, bad>>
             [] c \in reader_closed -> Right(c) /\ done' = done \cup {c}
             [] OTHER -> \/ Right(c) /\ done' = done \cup {c}
                         \/ Wrong(c, {"WA", "PE"}) /\ UNCHANGED done
  /\ UNCHANGED <<rest, started, reader_closed>>

(* "unexpected method": the type is given twice.                           *)
Unexpected(c) ==
  /\ At(c, "type") /\ Raise(c, "CF")
  /\ UNCHANGED <<rest, started, writer_closed, reader_closed, done, bad>>

Connection(c) ==
  \/ Get(c) \/ Arrive(c) \/ Wait(c) \/ Conn(c) \/ Send(c) \/ Recv(c) \/ Stop(c)
  \/ RStop(c) \/ Done(c) \/ Unexpected(c)

-----------------------------------------------------------------------------
(* gather returns when all tasks have ended, or at the first exception;    *)
(* asyncio.run then cancels the rest.  Only AssertionError and             *)
(* PresentationError are caught in main.                                   *)
Gathered ==
  /\ mpc = "run" /\ (done = known \/ status # "OK")
  /\ mpc' = IF status = "CF" THEN "exit" ELSE "kill"
  /\ UNCHANGED <<file, queue, latches, conns, status, server>>

Kill ==
  /\ mpc = "kill" /\ mpc' = "drain"
  /\ server' = IF server = "up" THEN "term" ELSE server
  /\ UNCHANGED <<file, queue, latches, conns, status>>

(* sys.stdin is the output of the server: reading it waits for its end.    *)
Drain ==
  /\ mpc = "drain" /\ server = "ended" /\ mpc' = "exit"
  /\ UNCHANGED <<file, queue, latches, conns, status, server>>

Main == EndOfFile \/ Gathered \/ Kill \/ Drain

ServerEnds ==
  /\ server # "ended" /\ server' = "ended"
  /\ UNCHANGED <<file, queue, latches, conns, status, mpc>>

Next ==
  \/ Barrier \/ Main \/ ServerEnds
  \/ \E c \in Client :
       \/ NewConnection(c) \/ Connection(c)
       \/ \E m \in Method \cup {"type"} : Command(c, m) \/ NoType(c, m)

(* The event loop runs every task that can go on; the server answers, and  *)
(* ends when it is told to.                                                *)
Spec ==
  /\ Init /\ [][Next]_chatVars /\ WF_chatVars(Main)
  /\ WF_chatVars(server = "term" /\ ServerEnds)
  /\ \A c \in Client : WF_chatVars(Connection(c))

-----------------------------------------------------------------------------
Commands == Method \cup {"type", "done"}
Items == [method : Commands \cup {"arrive", "wait", "raised", "none"}, arg : Nat]

TypeOK ==
  /\ Len(lines) <= MaxLines /\ known \subseteq Client
  /\ \A c \in Client : cur[c] \in Items /\ \A k \in DOMAIN queue[c] : queue[c][k] \in Items
  /\ \A l \in DOMAIN latches : latches[l] \in [remaining : 0 .. Cardinality(Client), done : BOOLEAN]
  /\ started \subseteq known /\ writer_closed \subseteq started
  /\ reader_closed \subseteq started /\ done \subseteq known
  /\ status \in {"OK", "WA", "PE", "CF"} /\ bad \in BOOLEAN
  /\ mpc \in {"parse", "run", "kill", "drain", "exit"} /\ server \in {"up", "term", "ended"}

IsPending(line) ==
  \E c \in Client :
    \/ cur[c].method \in Commands /\ cur[c].arg = line
    \/ \E k \in DOMAIN queue[c] : queue[c][k].method \in Commands /\ queue[c][k].arg = line

(* A command, or the end of a connection, is begun only when every command *)
(* above a line of "=" before it has been carried out, whoever had to.     *)
BarrierKept ==
  \A c \in Client : cur[c].method \in Commands =>
    \A b \in 1 .. cur[c].arg - 1 : lines[b].method = "barrier" =>
      \A above \in 1 .. b - 1 : ~IsPending(above)

(* OK is given only to a server that has done nothing wrong in any of the  *)
(* commands, all of which have been tried, and WA and PE to none that has  *)
(* done nothing wrong; in all three cases the server has ended.            *)
VerdictDeserved ==
  mpc = "exit" =>
    /\ status = "OK" => ~bad /\ \A k \in DOMAIN lines : ~IsPending(k)
    /\ status \in {"WA", "PE"} => bad
    /\ status # "CF" => server = "ended"

(* A line of "=" before the first connection is never passed.              *)
EarlyBarrier == known # {} /\ \E l \in DOMAIN latches : latches[l] = [remaining |-> 0, done |-> FALSE]

(* Every session ends but those with such a line.                          *)
ChatEnds == <>(mpc = "exit") \/ <>[]EarlyBarrier
=============================================================================
