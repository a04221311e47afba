----------------------------- MODULE BufWriter -----------------------------
(***************************************************************************)
(* BufWriter (tasks/02-files/buf-writer/writer.hpp): a buffer in front of  *)
(* a file descriptor whose ::write may take any part of what it is given,  *)
(* or fail.  Bytes are numbered in the order in which Write is given them, *)
(* so that a byte lost, doubled or out of place shows in the descriptor.   *)
(* One action per ::write; what happens between two of them is local.      *)
(***************************************************************************)
EXTENDS Naturals, Sequences

CONSTANTS
  Capacity,   \* capacity_, at least 1: with 0 Write divides by it
  MaxBytes,   \* bound on the bytes given to all the calls of Write
  MaxErrors   \* bound on the failures of ::write

VARIABLES
  buf,      \* buffer_[0 .. size_)
  out,      \* what the descriptor has received
  given,    \* how many bytes Write has been given so far
  pc,       \* "ready", in the FlushArray of "flush" or of "big", or "dead"
  call,     \* the method being executed, or the last one
  data,     \* argument of the Write being executed
  todo,     \* buf[written .. count) of FlushArray
  result,   \* what the last method returned: 0, or "errno" for -errno
  errors    \* how many times ::write has failed

vars == <<buf, out, given, pc, call, data, todo, result, errors>>

Bytes(first, last) == [k \in 1 .. last - first + 1 |-> first + k - 1]

Init ==
  /\ buf = <<>> /\ out = <<>> /\ data = <<>> /\ todo = <<>>
  /\ given = 0 /\ errors = 0
  /\ pc = "ready" /\ call = "none" /\ result = "0"

-----------------------------------------------------------------------------
Return(value) == pc' = "ready" /\ result' = value

(* Write: size_ + data.size() <= capacity_, the data is only copied.       *)
WriteFits(n) ==
  /\ pc = "ready" /\ given + n <= MaxBytes
  /\ Len(buf) + n <= Capacity
  /\ buf' = buf \o Bytes(given + 1, given + n)
  /\ given' = given + n
  /\ call' = "Write" /\ Return("0")
  /\ UNCHANGED <<out, data, todo, errors>>

(* Write: the buffer must be flushed first.                                *)
WriteFlushes(n) ==
  /\ pc = "ready" /\ given + n <= MaxBytes
  /\ Len(buf) + n > Capacity
  /\ data' = Bytes(given + 1, given + n)
  /\ given' = given + n
  /\ todo' = buf
  /\ call' = "Write" /\ pc' = "flush"
  /\ UNCHANGED <<buf, out, result, errors>>

(* Flush, and the Flush of the destructor.                                 *)
Flush(method) ==
  /\ pc = "ready"
  /\ todo' = buf
  /\ call' = method /\ pc' = "flush"
  /\ UNCHANGED <<buf, out, given, data, result, errors>>

(* Fault: what ::write returns is taken for all or nothing.                *)
WriteOnce(n) ==
  /\ pc \in {"flush", "big"} /\ n \in 1 .. Len(todo)
  /\ out' = out \o SubSeq(todo, 1, n)
  /\ todo' = <<>>
  /\ UNCHANGED <<buf, given, pc, call, data, result, errors>>

(* FlushArray: ::write takes n bytes, at least one.                        *)
WriteSome(n) ==
  /\ pc \in {"flush", "big"} /\ n \in 1 .. Len(todo)
  /\ out' = out \o SubSeq(todo, 1, n)
  /\ todo' = SubSeq(todo, n + 1, Len(todo))
  /\ UNCHANGED <<buf, given, pc, call, data, result, errors>>

(* The end of a method: Flush always forgets the buffer, the destructor    *)
(* drops the result and frees it.                                          *)
EndCall(value) ==
  IF call = "Destroy" THEN pc' = "dead" /\ UNCHANGED result ELSE Return(value)

(* Faults: the buffer is kept after an error, and the error is dropped.    *)
FailAndKeep ==
  /\ pc \in {"flush", "big"} /\ todo # <<>> /\ errors < MaxErrors
  /\ errors' = errors + 1
  /\ todo' = <<>> /\ data' = <<>>
  /\ EndCall("errno")
  /\ UNCHANGED <<buf, out, given, call>>

FailQuietly ==
  /\ pc \in {"flush", "big"} /\ todo # <<>> /\ errors < MaxErrors
  /\ errors' = errors + 1
  /\ buf' = <<>> /\ todo' = <<>> /\ data' = <<>>
  /\ EndCall("0")
  /\ UNCHANGED <<out, given, call>>

(* FlushArray: ::write fails, the method returns -errno.                   *)
WriteFails ==
  /\ pc \in {"flush", "big"} /\ todo # <<>> /\ errors < MaxErrors
  /\ errors' = errors + 1
  /\ buf' = <<>> /\ todo' = <<>> /\ data' = <<>>
  /\ EndCall("errno")
  /\ UNCHANGED <<out, given, call>>

(* Flush returns 0 to its caller, or to Write, which copies its data or    *)
(* starts on the part of it that is a multiple of the capacity.            *)
FlushEnds ==
  /\ pc = "flush" /\ todo = <<>>
  /\ CASE call # "Write" ->
            buf' = <<>> /\ EndCall("0") /\ UNCHANGED <<data, todo>>
       [] call = "Write" /\ Len(data) <= Capacity ->
            buf' = data /\ data' = <<>> /\ Return("0") /\ UNCHANGED todo
       [] call = "Write" /\ Len(data) > Capacity ->
            LET big == Len(data) - (Len(data) % Capacity) IN
            /\ todo' = SubSeq(data, 1, big)
            /\ data' = SubSeq(data, big + 1, Len(data))
            /\ buf' = <<>> /\ pc' = "big" /\ UNCHANGED result
  /\ UNCHANGED <<out, given, call, errors>>

(* Write: the big part is out, the tail goes to the buffer.                *)
BigEnds ==
  /\ pc = "big" /\ todo = <<>>
  /\ buf' = data /\ data' = <<>>
  /\ Return("0")
  /\ UNCHANGED <<out, given, call, todo, errors>>

Dead == pc = "dead" /\ UNCHANGED vars

Call ==
  \/ \E n \in 0 .. MaxBytes : WriteFits(n) \/ WriteFlushes(n)
  \/ Flush("Flush") \/ Flush("Destroy")

Progress ==
  \/ \E n \in 1 .. MaxBytes : WriteSome(n)
  \/ WriteFails \/ FlushEnds \/ BigEnds

Next == Call \/ Progress \/ Dead

Spec == Init /\ [][Next]_vars

-----------------------------------------------------------------------------
ByteSeq == Seq(1 .. MaxBytes)

(* The copies into buffer_ stay inside its capacity_ bytes.                *)
BufferBounded == Len(buf) <= Capacity /\ (pc = "big" => Len(data) < Capacity)

TypeOK ==
  /\ BufferBounded
  /\ buf \in ByteSeq /\ out \in ByteSeq /\ data \in ByteSeq /\ todo \in ByteSeq
  /\ given \in 0 .. MaxBytes /\ errors \in 0 .. MaxErrors
  /\ pc \in {"ready", "flush", "big", "dead"}
  /\ call \in {"none", "Write", "Flush", "Destroy"}
  /\ result \in {"0", "errno"}

Increasing(s) == \A i, j \in DOMAIN s : i < j => s[i] < s[j]

(* The bytes the writer still holds, in the order they will be written.    *)
Held ==
  CASE pc = "ready" -> buf
    [] pc = "flush" -> IF call = "Write" THEN todo \o data ELSE todo
    [] pc = "big"   -> todo \o data
    [] pc = "dead"  -> <<>>

(* Whatever fails and however ::write cuts its input, the descriptor never *)
(* receives a byte twice or out of order, and nothing held precedes what   *)
(* has been written.                                                       *)
OrderKept == Increasing(out \o Held)

(* As long as no ::write has failed, the descriptor and the buffer hold    *)
(* exactly the bytes given to Write; the destructor writes out the rest.   *)
NothingLostWithoutError == errors = 0 => out \o Held = Bytes(1, given)

Present == {out[i] : i \in DOMAIN out} \cup {Held[i] : i \in DOMAIN Held}

(* A byte accepted earlier disappears only in a step in which ::write      *)
(* failed, and unless that was in the destructor the method says so.       *)
LossIsReported ==
  [][Present \ Present' # {}
       => errors' > errors /\ (result' = "errno" \/ call' = "Destroy")]_vars
=============================================================================
