-------------------------- MODULE ContainersProofs --------------------------
(***************************************************************************)
(* Proofs about the containers of MCContainers, for every capacity and     *)
(* every number of bytes, vectors, blocks, lists and nodes.                *)
(***************************************************************************)
EXTENDS MCContainers, SequenceTheorems, FiniteSetTheorems, WellFoundedInduction, TLAPS

(***************************************************************************)
(* BufWriter.  What matters of a state is Stream, the bytes written and    *)
(* those held, in order: a method appends to it what it is given, and a    *)
(* ::write only cuts what is held off, when it fails.                      *)
(***************************************************************************)
Stream == out \o W!Held

CallRight ==
  /\ pc \in {"flush", "big"} => call \in {"Write", "Flush", "Destroy"}
  /\ pc = "big" => call = "Write"
  /\ pc = "dead" => call = "Destroy"
  /\ pc = "ready" \/ (pc = "flush" /\ call # "Write") => data = <<>>

WInv ==
  /\ W!TypeOK /\ CallRight
  /\ W!Increasing(Stream) /\ Stream \in Seq(1 .. given)
  /\ errors = 0 => Stream = W!Bytes(1, given)

(* The three things a step can do to the stream.                           *)
Appends == Stream' = Stream \o W!Bytes(given + 1, given') /\ given' >= given /\ errors' = errors
Keeps == Stream' = Stream /\ given' = given /\ errors' = errors
Cuts ==
  /\ Stream' = out /\ given' = given /\ errors' = errors + 1
  /\ result' = "errno" \/ call' = "Destroy"

-----------------------------------------------------------------------------
(* The n numbers after g.                                                  *)
Run(t, g, n) ==
  n \in Nat /\ t \in Seq(g + 1 .. g + n) /\ Len(t) = n /\ \A k \in 1 .. n : t[k] = g + k

LEMMA BytesType ==
  ASSUME NEW g \in Nat, NEW h \in Nat, g <= h
  PROVE  Run(W!Bytes(g + 1, h), g, h - g)
<1>1. PICK n : n = h - g  OBVIOUS
<1>2. n \in Nat /\ h - (g + 1) + 1 = n /\ g + n = h  BY <1>1
<1>3. PICK t : t = W!Bytes(g + 1, h)  OBVIOUS
<1>4. t = [k \in 1 .. n |-> (g + 1) + k - 1]  BY <1>2, <1>3 DEF W!Bytes
<1>5. \A k \in 1 .. n : (g + 1) + k - 1 \in g + 1 .. g + n /\ (g + 1) + k - 1 = g + k
  BY <1>2
<1>6. t \in [1 .. n -> g + 1 .. g + n]  BY <1>4, <1>5
<1>7. Run(t, g, n)  BY <1>2, <1>4, <1>5, <1>6 DEF Run
<1>8. QED  BY <1>1, <1>3, <1>7

LEMMA FirstBytesType ==
  ASSUME NEW h \in Nat, NEW t, t = W!Bytes(1, h)
  PROVE  t \in Seq(1 .. h) /\ Len(t) = h /\ \A k \in 1 .. h : t[k] = k
<1>1. t = [k \in 1 .. h |-> 1 + k - 1]  BY DEF W!Bytes
<1>2. QED  BY <1>1

LEMMA ConcatAt ==
  ASSUME NEW S, NEW s \in Seq(S), NEW t \in Seq(S), NEW m, NEW n, m = Len(s), n = Len(t),
         NEW u, u = s \o t
  PROVE  /\ m \in Nat /\ n \in Nat /\ DOMAIN s = 1 .. m /\ DOMAIN t = 1 .. n
         /\ u \in Seq(S) /\ Len(u) = m + n /\ DOMAIN u = 1 .. m + n
         /\ \A i \in 1 .. m : u[i] = s[i]
         /\ \A i \in m + 1 .. m + n : u[i] = t[i - m]
OBVIOUS

(* Two runs of numbers one behind the other are one run.                   *)
LEMMA BytesConcat ==
  ASSUME NEW g \in Nat, NEW h \in Nat, g <= h
  PROVE  W!Bytes(1, g) \o W!Bytes(g + 1, h) = W!Bytes(1, h)
<1>1. PICK s, t, u, n : s = W!Bytes(1, g) /\ t = W!Bytes(g + 1, h) /\ u = W!Bytes(1, h) /\ n = h - g
  OBVIOUS
<1>2. s \in Seq(1 .. g) /\ Len(s) = g /\ \A k \in 1 .. g : s[k] = k  BY <1>1, FirstBytesType
<1>3. n \in Nat /\ t \in Seq(g + 1 .. h) /\ Len(t) = n /\ \A k \in 1 .. n : t[k] = g + k
  <2>1. Run(t, g, n)  BY <1>1, BytesType
  <2>2. g + n = h  BY <1>1
  <2>3. QED  BY <2>1, <2>2 DEF Run
<1>4. u \in Seq(1 .. h) /\ Len(u) = h /\ \A k \in 1 .. h : u[k] = k  BY <1>1, FirstBytesType
<1>5. s \in Seq(Nat) /\ t \in Seq(Nat) /\ u \in Seq(Nat)
  <2>1. 1 .. g \subseteq Nat /\ g + 1 .. h \subseteq Nat /\ 1 .. h \subseteq Nat  OBVIOUS
  <2>2. QED  BY <1>2, <1>3, <1>4, <2>1, SeqMonotonic
<1>6. PICK v : v = s \o t  OBVIOUS
<1>7. /\ v \in Seq(Nat) /\ Len(v) = g + n
      /\ \A i \in 1 .. g : v[i] = s[i]
      /\ \A i \in g + 1 .. g + n : v[i] = t[i - g]
  <2>1. g = Len(s) /\ n = Len(t)  BY <1>2, <1>3
  <2>2. QED  BY <2>1, <1>5, <1>6, ConcatAt
<1>8. Len(v) = h /\ \A i \in 1 .. h : v[i] = i
  <2>1. g + n = h  BY <1>1
  <2> SUFFICES ASSUME NEW i \in 1 .. h  PROVE v[i] = i  BY <1>7, <2>1
  <2>2. CASE i <= g  BY <2>2, <1>2, <1>7
  <2>3. CASE g < i
    <3>1. i \in g + 1 .. g + n /\ i - g \in 1 .. n  BY <2>1, <2>3, <1>3
    <3>2. QED  BY <3>1, <1>3, <1>7
  <2>4. QED  BY <2>2, <2>3
<1>9. v = u  BY <1>4, <1>5, <1>7, <1>8, SeqEqual
<1>10. QED  BY <1>1, <1>6, <1>9

(* Numbers above all of an increasing sequence may be appended to it.      *)
LEMMA IncreasingConcat ==
  ASSUME NEW g \in Nat, NEW h \in Nat, g <= h, NEW s \in Seq(1 .. g), W!Increasing(s)
  PROVE  W!Increasing(s \o W!Bytes(g + 1, h)) /\ s \o W!Bytes(g + 1, h) \in Seq(1 .. h)
<1>1. PICK t, n : t = W!Bytes(g + 1, h) /\ n = h - g  OBVIOUS
<1>2. n \in Nat /\ t \in Seq(g + 1 .. h) /\ Len(t) = n /\ \A k \in 1 .. n : t[k] = g + k
  <2>1. Run(t, g, n)  BY <1>1, BytesType
  <2>2. g + n = h  BY <1>1
  <2>3. QED  BY <2>1, <2>2 DEF Run
<1>3. s \in Seq(1 .. h) /\ t \in Seq(1 .. h)
  <2>1. 1 .. g \subseteq 1 .. h /\ g + 1 .. h \subseteq 1 .. h  OBVIOUS
  <2>2. QED  BY <1>2, <2>1, SeqMonotonic
<1>4. PICK m \in Nat : m = Len(s) /\ DOMAIN s = 1 .. m /\ \A i \in 1 .. m : s[i] \in 1 .. g
  <2>1. \A i \in 1 .. Len(s) : s[i] \in 1 .. g  BY ElementOfSeq
  <2>2. QED  BY <2>1, LenProperties
<1>5. PICK u : u = s \o t  OBVIOUS
<1>6. /\ u \in Seq(1 .. h) /\ DOMAIN u = 1 .. m + n
      /\ \A i \in 1 .. m : u[i] = s[i]
      /\ \A i \in m + 1 .. m + n : u[i] = t[i - m]
  <2>1. m = Len(s) /\ n = Len(t)  BY <1>2, <1>4
  <2>2. QED  BY <2>1, <1>3, <1>5, ConcatAt
<1>7. \A i \in m + 1 .. m + n : u[i] = g + (i - m)
  <2> SUFFICES ASSUME NEW i \in m + 1 .. m + n  PROVE u[i] = g + (i - m)  OBVIOUS
  <2>1. i - m \in 1 .. n  BY <1>2, <1>4
  <2>2. QED  BY <2>1, <1>2, <1>6
<1>8. ASSUME NEW i \in DOMAIN u, NEW j \in DOMAIN u, i < j  PROVE u[i] < u[j]
  <2>0. i \in 1 .. m + n /\ j \in 1 .. m + n /\ i < j  BY <1>6, <1>8
  <2>1. CASE j <= m
    <3>1. i \in 1 .. m /\ j \in 1 .. m  BY <2>0, <2>1
    <3>2. s[i] < s[j]  BY <2>0, <3>1, <1>4 DEF W!Increasing
    <3>3. QED  BY <3>1, <3>2, <1>6
  <2>2. CASE i <= m /\ m < j
    <3>1. i \in 1 .. m /\ j \in m + 1 .. m + n /\ j - m > 0  BY <2>0, <2>2, <1>2, <1>4
    <3>2. u[i] \in 1 .. g  BY <3>1, <1>4, <1>6
    <3>3. u[j] = g + (j - m)  BY <3>1, <1>7
    <3>4. QED  BY <3>1, <3>2, <3>3, <1>4
  <2>3. CASE m < i
    <3>1. i \in m + 1 .. m + n /\ j \in m + 1 .. m + n  BY <2>0, <2>3, <1>2, <1>4
    <3>2. u[i] = g + (i - m) /\ u[j] = g + (j - m)  BY <3>1, <1>7
    <3>3. QED  BY <3>1, <3>2, <2>0
  <2>4. QED  BY <2>0, <2>1, <2>2, <2>3, <1>2, <1>4
<1>9. QED  BY <1>1, <1>5, <1>6, <1>8 DEF W!Increasing

LEMMA IncreasingPrefix ==
  ASSUME NEW g \in Nat, NEW S, NEW s \in Seq(S), NEW t \in Seq(S),
         W!Increasing(s \o t), s \o t \in Seq(1 .. g)
  PROVE  W!Increasing(s) /\ s \in Seq(1 .. g)
<1>1. PICK u, m, n : u = s \o t /\ m = Len(s) /\ n = Len(t)  OBVIOUS
<1>2. /\ m \in Nat /\ n \in Nat /\ DOMAIN s = 1 .. m /\ DOMAIN u = 1 .. m + n
      /\ \A i \in 1 .. m : u[i] = s[i]
  BY <1>1, ConcatAt
<1>3. \A i \in 1 .. m : i \in DOMAIN u  BY <1>2
<1>4. W!Increasing(s)  BY <1>1, <1>2, <1>3 DEF W!Increasing
<1>5. \A i \in 1 .. m : s[i] \in 1 .. g
  <2>1. u \in Seq(1 .. g)  BY <1>1
  <2>2. \A i \in DOMAIN u : u[i] \in 1 .. g  BY <2>1
  <2>3. QED  BY <1>2, <1>3, <2>2
<1>6. s \in Seq(1 .. g)
  <2>1. s \in [1 .. m -> S]  BY <1>1, LenProperties
  <2>2. s \in [1 .. m -> 1 .. g]  BY <2>1, <1>5
  <2>3. QED  BY <2>2, <1>2
<1>7. QED  BY <1>4, <1>6

-----------------------------------------------------------------------------
LEMMA JoinBytes ==
  ASSUME NEW s \in W!ByteSeq, NEW t \in W!ByteSeq
  PROVE  s \o t \in W!ByteSeq /\ Len(s \o t) = Len(s) + Len(t)
BY DEF W!ByteSeq

LEMMA JoinThree ==
  ASSUME NEW s \in W!ByteSeq, NEW t \in W!ByteSeq, NEW r \in W!ByteSeq
  PROVE  (s \o t) \o r = s \o (t \o r)
<1>1. s \in Seq(1 .. MaxBytes) /\ t \in Seq(1 .. MaxBytes) /\ r \in Seq(1 .. MaxBytes)  BY DEF W!ByteSeq
<1>2. QED  BY <1>1, ConcatAssociative

(* What Write is given is a sequence of bytes that fits its type.          *)
LEMMA GivenBytes ==
  ASSUME W!TypeOK, NEW n \in Nat, given + n <= MaxBytes
  PROVE  /\ W!Bytes(given + 1, given + n) \in W!ByteSeq
         /\ Len(W!Bytes(given + 1, given + n)) = n
         /\ given + n \in 0 .. MaxBytes
<1>1. given \in Nat /\ given + n \in Nat /\ given <= given + n /\ (given + n) - given = n
  BY DEF W!TypeOK
<1>2. PICK t : t = W!Bytes(given + 1, given + n)  OBVIOUS
<1>3. Run(t, given, n)  BY <1>1, <1>2, BytesType
<1>4. t \in Seq(given + 1 .. given + n) /\ Len(t) = n  BY <1>3 DEF Run
<1>5. given + 1 .. given + n \subseteq 1 .. MaxBytes  BY <1>1, WriterAssumption
<1>6. t \in W!ByteSeq  BY <1>4, <1>5, SeqMonotonic DEF W!ByteSeq
<1>7. QED  BY <1>1, <1>2, <1>4, <1>6, WriterAssumption

LEMMA HeldType ==
  ASSUME W!TypeOK
  PROVE  W!Held \in W!ByteSeq /\ out \in W!ByteSeq
<1>1. /\ buf \in W!ByteSeq /\ out \in W!ByteSeq /\ data \in W!ByteSeq /\ todo \in W!ByteSeq
      /\ pc \in {"ready", "flush", "big", "dead"}
  BY DEF W!TypeOK
<1>2. todo \o data \in W!ByteSeq /\ <<>> \in W!ByteSeq  BY <1>1 DEF W!ByteSeq
<1>3. CASE pc = "ready"  BY <1>1, <1>3 DEF W!Held
<1>4. CASE pc = "flush"  BY <1>1, <1>2, <1>4 DEF W!Held
<1>5. CASE pc = "big"  BY <1>1, <1>2, <1>5 DEF W!Held
<1>6. CASE pc = "dead"  BY <1>1, <1>2, <1>6 DEF W!Held
<1>7. QED  BY <1>1, <1>3, <1>4, <1>5, <1>6

-----------------------------------------------------------------------------
(* The effect of each action on the stream, and the types it leaves.       *)
Typed == W!TypeOK /\ CallRight

LEMMA FitsStep ==
  ASSUME Typed, NEW n \in 0 .. MaxBytes, W!WriteFits(n)
  PROVE  Typed' /\ Appends
<1>1. n \in Nat /\ given + n <= MaxBytes  BY WriterAssumption DEF W!WriteFits
<1>2. PICK t : t = W!Bytes(given + 1, given + n)  OBVIOUS
<1>3. t \in W!ByteSeq /\ Len(t) = n /\ given + n \in 0 .. MaxBytes
  BY <1>1, <1>2, GivenBytes DEF Typed
<1>4. /\ pc = "ready" /\ pc' = "ready" /\ buf' = buf \o t /\ given' = given + n /\ call' = "Write"
      /\ Len(buf) + n <= Capacity
      /\ result' = "0" /\ out' = out /\ data' = data /\ todo' = todo /\ errors' = errors
  BY <1>2 DEF W!WriteFits, W!Return
<1>5. /\ buf \in W!ByteSeq /\ out \in W!ByteSeq /\ data \in W!ByteSeq /\ todo \in W!ByteSeq
      /\ errors \in 0 .. MaxErrors /\ data = <<>>
  BY <1>4 DEF Typed, W!TypeOK, CallRight
<1>6. buf' \in W!ByteSeq /\ Len(buf') = Len(buf) + n  BY <1>3, <1>4, <1>5, JoinBytes
<1>7. W!TypeOK'
  BY <1>3, <1>4, <1>5, <1>6 DEF W!TypeOK, W!BufferBounded, W!ByteSeq
<1>8. CallRight'  BY <1>4, <1>5 DEF CallRight
<1>9. W!Held = buf /\ W!Held' = buf \o t  BY <1>4 DEF W!Held
<1>10. out \o (buf \o t) = (out \o buf) \o t
  <2>1. out \in W!ByteSeq /\ buf \in W!ByteSeq /\ t \in W!ByteSeq  BY <1>3, <1>5
  <2>2. QED  BY <2>1, JoinThree
<1>11. given' >= given  BY <1>1, <1>4 DEF Typed, W!TypeOK
<1>12. Appends  BY <1>2, <1>4, <1>9, <1>10, <1>11 DEF Appends, Stream
<1>13. QED  BY <1>7, <1>8, <1>12 DEF Typed

LEMMA FlushesStep ==
  ASSUME Typed, NEW n \in 0 .. MaxBytes, W!WriteFlushes(n)
  PROVE  Typed' /\ Appends
<1>1. n \in Nat /\ given + n <= MaxBytes  BY WriterAssumption DEF W!WriteFlushes
<1>2. PICK t : t = W!Bytes(given + 1, given + n)  OBVIOUS
<1>3. t \in W!ByteSeq /\ Len(t) = n /\ given + n \in 0 .. MaxBytes
  BY <1>1, <1>2, GivenBytes DEF Typed
<1>4. /\ pc = "ready" /\ pc' = "flush" /\ data' = t /\ given' = given + n /\ call' = "Write"
      /\ todo' = buf /\ buf' = buf /\ out' = out /\ result' = result /\ errors' = errors
  BY <1>2 DEF W!WriteFlushes
<1>5. /\ buf \in W!ByteSeq /\ out \in W!ByteSeq /\ Len(buf) <= Capacity
      /\ errors \in 0 .. MaxErrors /\ result \in {"0", "errno"}
  BY DEF Typed, W!TypeOK, W!BufferBounded
<1>6. W!TypeOK'
  BY <1>3, <1>4, <1>5 DEF W!TypeOK, W!BufferBounded, W!ByteSeq
<1>7. CallRight'  BY <1>4 DEF CallRight
<1>8. W!Held = buf /\ W!Held' = buf \o t  BY <1>4 DEF W!Held
<1>9. out \o (buf \o t) = (out \o buf) \o t  BY <1>3, <1>5, JoinThree
<1>10. given' >= given  BY <1>1, <1>4 DEF Typed, W!TypeOK
<1>11. Appends  BY <1>2, <1>4, <1>8, <1>9, <1>10 DEF Appends, Stream
<1>12. QED  BY <1>6, <1>7, <1>11 DEF Typed

LEMMA FlushStep ==
  ASSUME Typed, NEW method \in {"Flush", "Destroy"}, W!Flush(method)
  PROVE  Typed' /\ Keeps
<1>1. /\ pc = "ready" /\ pc' = "flush" /\ call' = method /\ todo' = buf
      /\ buf' = buf /\ out' = out /\ given' = given /\ data' = data /\ result' = result
      /\ errors' = errors
  BY DEF W!Flush
<1>2. data = <<>>  BY <1>1 DEF Typed, CallRight
<1>3. W!TypeOK'  BY <1>1 DEF Typed, W!TypeOK, W!BufferBounded, W!ByteSeq
<1>4. CallRight'  BY <1>1, <1>2 DEF CallRight
<1>5. W!Held = buf /\ W!Held' = buf  BY <1>1 DEF W!Held
<1>6. QED  BY <1>1, <1>3, <1>4, <1>5 DEF Typed, Keeps, Stream

(* A partial ::write moves bytes from what is held to the descriptor.      *)
LEMMA SomeStep ==
  ASSUME Typed, NEW n, W!WriteSome(n)
  PROVE  Typed' /\ Keeps
<1>1. /\ pc \in {"flush", "big"} /\ n \in 1 .. Len(todo)
      /\ out' = out \o SubSeq(todo, 1, n) /\ todo' = SubSeq(todo, n + 1, Len(todo))
      /\ buf' = buf /\ given' = given /\ pc' = pc /\ call' = call /\ data' = data
      /\ result' = result /\ errors' = errors
  BY DEF W!WriteSome
<1>2. /\ out \in W!ByteSeq /\ data \in W!ByteSeq /\ todo \in W!ByteSeq
  BY DEF Typed, W!TypeOK
<1>3. PICK first, rest : first = SubSeq(todo, 1, n) /\ rest = SubSeq(todo, n + 1, Len(todo))
  OBVIOUS
<1>4. first \in W!ByteSeq /\ rest \in W!ByteSeq
  <2>1. PICK m \in Nat : m = Len(todo)  BY <1>2 DEF W!ByteSeq
  <2>2. todo \in [1 .. m -> 1 .. MaxBytes]  BY <2>1, <1>2, LenProperties DEF W!ByteSeq
  <2>3. \A i \in 1 .. m : todo[i] \in 1 .. MaxBytes  BY <2>2
  <2>4. first \in Seq(1 .. MaxBytes)  BY <2>1, <2>3, <1>1, <1>3, SubSeqProperties
  <2>5. rest \in Seq(1 .. MaxBytes)  BY <2>1, <2>3, <1>1, <1>3, SubSeqProperties
  <2>6. QED  BY <2>4, <2>5 DEF W!ByteSeq
<1>5. first \o rest = todo
  <2>1. PICK m \in Nat : m = Len(todo)  BY <1>2 DEF W!ByteSeq
  <2>2. 1 \in 1 .. m + 1 /\ n \in 1 - 1 .. m /\ m \in n .. m  BY <1>1, <2>1
  <2>3. SubSeq(todo, 1, n) \o SubSeq(todo, n + 1, m) = SubSeq(todo, 1, m)
    BY <2>1, <2>2, <1>2, ConcatAdjacentSubSeq DEF W!ByteSeq
  <2>4. SubSeq(todo, 1, m) = todo  BY <2>1, <1>2, SubSeqFull DEF W!ByteSeq
  <2>5. QED  BY <1>3, <2>1, <2>3, <2>4
<1>6. out' \in W!ByteSeq  BY <1>1, <1>2, <1>3, <1>4 DEF W!ByteSeq
<1>7. W!TypeOK'
  BY <1>1, <1>3, <1>4, <1>6 DEF Typed, W!TypeOK, W!BufferBounded, W!ByteSeq
<1>8. CallRight'  BY <1>1 DEF Typed, CallRight
<1>9. (out \o first) \o rest = out \o todo
  BY ZenonT(40), <1>2, <1>4, <1>5, JoinThree
<1>10. (out \o first) \o (rest \o data) = out \o (todo \o data)
  <2>1. out \o first \in W!ByteSeq  BY <1>2, <1>4 DEF W!ByteSeq
  <2>2. ((out \o first) \o rest) \o data = (out \o first) \o (rest \o data)
    BY <2>1, <1>2, <1>4, JoinThree
  <2>3. (out \o todo) \o data = out \o (todo \o data)
    BY <1>2, JoinThree
  <2>4. QED  BY <2>2, <2>3, <1>9
<1>11. out' \o W!Held' = out \o W!Held
  <2>1. CASE pc = "big" \/ call = "Write"
    <3>1. W!Held = todo \o data /\ W!Held' = rest \o data  BY <2>1, <1>1, <1>3 DEF W!Held, Typed, CallRight
    <3>2. QED  BY <3>1, <1>1, <1>3, <1>10
  <2>2. CASE pc = "flush" /\ call # "Write"
    <3>1. W!Held = todo /\ W!Held' = rest  BY <2>2, <1>1, <1>3 DEF W!Held
    <3>2. QED  BY <3>1, <1>1, <1>3, <1>9
  <2>3. QED  BY <1>1, <2>1, <2>2
<1>12. QED  BY <1>1, <1>7, <1>8, <1>11 DEF Typed, Keeps, Stream

LEMMA FailsStep ==
  ASSUME Typed, W!WriteFails
  PROVE  Typed' /\ Cuts
<1>1. /\ pc \in {"flush", "big"} /\ errors < MaxErrors /\ errors' = errors + 1
      /\ buf' = <<>> /\ todo' = <<>> /\ data' = <<>>
      /\ out' = out /\ given' = given /\ call' = call
  BY DEF W!WriteFails
<1>2. /\ out \in W!ByteSeq /\ errors \in 0 .. MaxErrors /\ given \in 0 .. MaxBytes
      /\ call \in {"Write", "Flush", "Destroy"} /\ result \in {"0", "errno"}
  BY <1>1 DEF Typed, W!TypeOK, CallRight
<1>3. <<>> \in W!ByteSeq /\ Len(<<>>) = 0  BY DEF W!ByteSeq
<1>4. \/ call = "Destroy" /\ pc' = "dead" /\ result' = result
      \/ call # "Destroy" /\ pc' = "ready" /\ result' = "errno"
  BY DEF W!WriteFails, W!EndCall, W!Return
<1>5. errors' \in 0 .. MaxErrors  BY <1>1, <1>2, WriterAssumption
<1>6. W!TypeOK'
  <2>1. W!BufferBounded'  BY <1>1, <1>3, <1>4, WriterAssumption DEF W!BufferBounded
  <2>2. QED  BY <1>1, <1>2, <1>3, <1>4, <1>5, <2>1 DEF W!TypeOK
<1>7. CallRight'  BY <1>1, <1>2, <1>4 DEF CallRight
<1>8. W!Held' = <<>>  BY <1>1, <1>4 DEF W!Held
<1>9. out \o <<>> = out  BY <1>2, ConcatEmptySeq DEF W!ByteSeq
<1>10. Cuts  BY <1>1, <1>4, <1>8, <1>9 DEF Cuts, Stream
<1>11. QED  BY <1>6, <1>7, <1>10 DEF Typed

(* The big part of a Write and its tail are the whole of it, and the tail  *)
(* is shorter than the buffer.                                             *)
LEMMA BigPart ==
  ASSUME NEW d \in W!ByteSeq, NEW big, big = Len(d) - (Len(d) % Capacity)
  PROVE  /\ SubSeq(d, 1, big) \in W!ByteSeq /\ SubSeq(d, big + 1, Len(d)) \in W!ByteSeq
         /\ Len(SubSeq(d, big + 1, Len(d))) < Capacity
         /\ SubSeq(d, 1, big) \o SubSeq(d, big + 1, Len(d)) = d
<1>1. PICK m \in Nat : m = Len(d)  BY DEF W!ByteSeq
<1>2. PICK tail_ : tail_ = m % Capacity  OBVIOUS
<1>3. tail_ \in 0 .. Capacity - 1 /\ tail_ <= m
  <2>1. m % Capacity \in 0 .. Capacity - 1  BY WriterAssumption
  <2>2. m % Capacity <= m  BY WriterAssumption
  <2>3. QED  BY <2>1, <2>2, <1>2
<1>4. big = m - tail_ /\ big \in 0 .. m /\ m - (big + 1) + 1 = tail_ /\ big \in Int
  BY <1>1, <1>2, <1>3, WriterAssumption
<1>5. \A i \in 1 .. m : d[i] \in 1 .. MaxBytes
  <2>1. d \in [1 .. m -> 1 .. MaxBytes]  BY <1>1, LenProperties DEF W!ByteSeq
  <2>2. QED  BY <2>1
<1>6. SubSeq(d, 1, big) \in W!ByteSeq
  <2>1. \A i \in 1 .. big : d[i] \in 1 .. MaxBytes  BY <1>4, <1>5
  <2>2. QED  BY <2>1, <1>4, SubSeqProperties DEF W!ByteSeq
<1>7. SubSeq(d, big + 1, m) \in W!ByteSeq /\ Len(SubSeq(d, big + 1, m)) = tail_
  <2>1. \A i \in big + 1 .. m : d[i] \in 1 .. MaxBytes  BY <1>4, <1>5
  <2>2. big + 1 \in Int /\ m \in Int /\ (big + 1 <= m <=> tail_ > 0) /\ tail_ \in Nat
    BY <1>3, <1>4, WriterAssumption
  <2>3. QED  BY <2>1, <2>2, <1>4, SubSeqProperties DEF W!ByteSeq
<1>8. SubSeq(d, 1, big) \o SubSeq(d, big + 1, m) = d
  <2>1. 1 \in 1 .. m + 1 /\ big \in 1 - 1 .. m /\ m \in big .. m  BY <1>4
  <2>2. SubSeq(d, 1, big) \o SubSeq(d, big + 1, m) = SubSeq(d, 1, m)
    BY <2>1, <1>1, ConcatAdjacentSubSeq DEF W!ByteSeq
  <2>3. SubSeq(d, 1, m) = d  BY <1>1, SubSeqFull DEF W!ByteSeq
  <2>4. QED  BY <2>2, <2>3
<1>9. tail_ < Capacity  BY <1>3, WriterAssumption
<1>10. QED  BY <1>1, <1>6, <1>7, <1>8, <1>9

LEMMA FlushEndsStep ==
  ASSUME Typed, W!FlushEnds
  PROVE  Typed' /\ Keeps
<1>1. /\ pc = "flush" /\ todo = <<>>
      /\ out' = out /\ given' = given /\ call' = call /\ errors' = errors
  BY DEF W!FlushEnds
<1>2. /\ out \in W!ByteSeq /\ data \in W!ByteSeq /\ errors \in 0 .. MaxErrors
      /\ given \in 0 .. MaxBytes /\ todo \in W!ByteSeq
      /\ call \in {"Write", "Flush", "Destroy"} /\ result \in {"0", "errno"}
  BY <1>1 DEF Typed, W!TypeOK, CallRight
<1>3. <<>> \in W!ByteSeq /\ Len(<<>>) = 0  BY DEF W!ByteSeq
<1>4. <<>> \o data = data  BY <1>2, ConcatEmptySeq DEF W!ByteSeq
<1>5. CASE call # "Write"
  <2>1. /\ buf' = <<>> /\ data' = data /\ todo' = todo
        /\ \/ call = "Destroy" /\ pc' = "dead" /\ result' = result
           \/ call # "Destroy" /\ pc' = "ready" /\ result' = "0"
    BY <1>5 DEF W!FlushEnds, W!EndCall, W!Return
  <2>2. data = <<>>  BY <1>1, <1>5 DEF Typed, CallRight
  <2>3. W!BufferBounded'  BY <2>1, <1>3, WriterAssumption DEF W!BufferBounded
  <2>4. W!TypeOK'  BY <1>1, <1>2, <1>3, <2>1, <2>3 DEF W!TypeOK
  <2>5. CallRight'  BY <1>1, <1>2, <2>1, <2>2 DEF CallRight
  <2>6. W!Held = <<>> /\ W!Held' = <<>>  BY <1>1, <1>5, <2>1 DEF W!Held
  <2>7. QED  BY <1>1, <2>4, <2>5, <2>6 DEF Typed, Keeps, Stream
<1>6. CASE call = "Write" /\ Len(data) <= Capacity
  <2>1. buf' = data /\ data' = <<>> /\ pc' = "ready" /\ result' = "0" /\ todo' = todo
    <3>1. Len(data) \in Nat /\ ~(Len(data) > Capacity)  BY <1>2, <1>6, WriterAssumption DEF W!ByteSeq
    <3>2. QED  BY <3>1, <1>6 DEF W!FlushEnds, W!Return
  <2>2. W!BufferBounded'  BY <2>1, <1>6 DEF W!BufferBounded
  <2>3. W!TypeOK'  BY <1>1, <1>2, <1>3, <2>1, <2>2 DEF W!TypeOK
  <2>4. CallRight'  BY <1>1, <1>2, <2>1 DEF CallRight
  <2>5. W!Held = <<>> \o data /\ W!Held' = data  BY <1>1, <1>6, <2>1 DEF W!Held
  <2>6. QED  BY <1>1, <1>4, <2>3, <2>4, <2>5 DEF Typed, Keeps, Stream
<1>7. CASE call = "Write" /\ Len(data) > Capacity
  <2>1. PICK big : big = Len(data) - (Len(data) % Capacity)  OBVIOUS
  <2>2. /\ todo' = SubSeq(data, 1, big) /\ data' = SubSeq(data, big + 1, Len(data))
        /\ buf' = <<>> /\ pc' = "big" /\ result' = result
    BY <1>7, <1>2, <2>1, WriterAssumption DEF W!FlushEnds, W!ByteSeq
  <2>3. /\ todo' \in W!ByteSeq /\ data' \in W!ByteSeq /\ Len(data') < Capacity
        /\ todo' \o data' = data
    BY <1>2, <2>1, <2>2, BigPart
  <2>4. W!BufferBounded'
    <3>1. Len(buf') <= Capacity  BY <2>2, <1>3, WriterAssumption
    <3>2. QED  BY <3>1, <2>3 DEF W!BufferBounded
  <2>5. W!TypeOK'  BY <1>1, <1>2, <1>3, <2>2, <2>3, <2>4 DEF W!TypeOK
  <2>6. CallRight'  BY <1>1, <1>2, <1>7, <2>2 DEF CallRight
  <2>7. W!Held = <<>> \o data /\ W!Held' = data  BY <1>1, <1>7, <2>2, <2>3 DEF W!Held
  <2>8. QED  BY <1>1, <1>4, <2>5, <2>6, <2>7 DEF Typed, Keeps, Stream
<1>8. QED
  <2>1. Len(data) \in Nat  BY <1>2 DEF W!ByteSeq
  <2>2. QED  BY <2>1, <1>5, <1>6, <1>7, WriterAssumption

LEMMA BigEndsStep ==
  ASSUME Typed, W!BigEnds
  PROVE  Typed' /\ Keeps
<1>1. /\ pc = "big" /\ todo = <<>> /\ buf' = data /\ data' = <<>> /\ pc' = "ready"
      /\ result' = "0"
      /\ out' = out /\ given' = given /\ call' = call /\ errors' = errors /\ todo' = todo
  BY DEF W!BigEnds, W!Return
<1>2. /\ out \in W!ByteSeq /\ data \in W!ByteSeq /\ errors \in 0 .. MaxErrors
      /\ given \in 0 .. MaxBytes /\ todo \in W!ByteSeq /\ Len(data) < Capacity
      /\ call \in {"Write", "Flush", "Destroy"}
  BY <1>1 DEF Typed, W!TypeOK, CallRight, W!BufferBounded
<1>3. <<>> \in W!ByteSeq /\ <<>> \o data = data  BY <1>2, ConcatEmptySeq DEF W!ByteSeq
<1>4. W!BufferBounded'  BY <1>1, <1>2, WriterAssumption DEF W!BufferBounded, W!ByteSeq
<1>5. W!TypeOK'  BY <1>1, <1>2, <1>3, <1>4 DEF W!TypeOK
<1>6. CallRight'  BY <1>1, <1>2 DEF CallRight
<1>7. W!Held = <<>> \o data /\ W!Held' = data  BY <1>1 DEF W!Held
<1>8. QED  BY <1>1, <1>3, <1>5, <1>6, <1>7 DEF Typed, Keeps, Stream

(* A step of the writer: which of the three it is.                         *)
LEMMA WriterStep ==
  ASSUME Typed, W!Next \/ UNCHANGED writerVars
  PROVE  Typed' /\ (Appends \/ Keeps \/ Cuts)
<1>1. CASE UNCHANGED writerVars
  <2>1. Typed'
    BY <1>1 DEF writerVars, Typed, W!TypeOK, W!BufferBounded, CallRight
  <2>2. W!Held' = W!Held  BY <1>1 DEF writerVars, W!Held
  <2>3. QED  BY <1>1, <2>1, <2>2 DEF writerVars, Keeps, Stream
<1>2. ASSUME NEW n \in 0 .. MaxBytes, W!WriteFits(n)  PROVE Typed' /\ Appends
  BY <1>2, FitsStep
<1>3. ASSUME NEW n \in 0 .. MaxBytes, W!WriteFlushes(n)  PROVE Typed' /\ Appends
  BY <1>3, FlushesStep
<1>4. ASSUME NEW n \in 1 .. MaxBytes, W!WriteSome(n)  PROVE Typed' /\ Keeps
  BY <1>4, SomeStep
<1>5. CASE W!Flush("Flush")
  <2>1. PICK method : method = "Flush"  OBVIOUS
  <2>2. method \in {"Flush", "Destroy"} /\ W!Flush(method)  BY <2>1, <1>5
  <2>3. QED  BY <2>2, FlushStep
<1>6. CASE W!Flush("Destroy")
  <2>1. PICK method : method = "Destroy"  OBVIOUS
  <2>2. method \in {"Flush", "Destroy"} /\ W!Flush(method)  BY <2>1, <1>6
  <2>3. QED  BY <2>2, FlushStep
<1>7. CASE W!Dead  BY <1>1, <1>7 DEF W!Dead, W!vars, writerVars
<1>8. QED
  BY <1>1, <1>2, <1>3, <1>4, <1>5, <1>6, <1>7, FailsStep, FlushEndsStep, BigEndsStep
  DEF W!Next, W!Call, W!Progress

-----------------------------------------------------------------------------
LEMMA InitWInv == AllInit => WInv
<1> SUFFICES ASSUME AllInit  PROVE WInv  OBVIOUS
<1>1. /\ buf = <<>> /\ out = <<>> /\ data = <<>> /\ todo = <<>> /\ given = 0 /\ errors = 0
      /\ pc = "ready" /\ call = "none" /\ result = "0"
  BY DEF AllInit, W!Init
<1>2. <<>> \in W!ByteSeq /\ Len(<<>>) = 0 /\ <<>> \in Seq(1 .. 0) /\ <<>> \o <<>> = <<>>
  BY DEF W!ByteSeq
<1>3. W!TypeOK
  BY <1>1, <1>2, WriterAssumption DEF W!TypeOK, W!BufferBounded
<1>4. CallRight  BY <1>1 DEF CallRight
<1>5. Stream = <<>>  BY <1>1, <1>2 DEF Stream, W!Held
<1>6. W!Increasing(<<>>)  BY DEF W!Increasing
<1>7. W!Bytes(1, 0) = <<>>
  <2>1. PICK t : t = W!Bytes(1, 0)  OBVIOUS
  <2>2. t \in Seq(1 .. 0) /\ Len(t) = 0  BY <2>1, FirstBytesType
  <2>3. t = <<>>  BY <2>2
  <2>4. QED  BY <2>1, <2>3
<1>8. QED  BY <1>1, <1>2, <1>3, <1>4, <1>5, <1>6, <1>7 DEF WInv

LEMMA StepWInv == WInv /\ [AllNext]_allVars => WInv'
<1> SUFFICES ASSUME WInv, [AllNext]_allVars  PROVE WInv'  OBVIOUS
<1>1. W!Next \/ UNCHANGED writerVars  BY DEF AllNext, allVars
<1>2. Typed' /\ (Appends \/ Keeps \/ Cuts)  BY <1>1, WriterStep DEF WInv, Typed
<1>3. given \in Nat /\ given' \in Nat /\ errors \in Nat
  BY <1>2, WriterAssumption DEF WInv, Typed, W!TypeOK
<1>4. W!Increasing(Stream) /\ Stream \in Seq(1 .. given) /\ (errors = 0 => Stream = W!Bytes(1, given))
  BY DEF WInv
<1>5. CASE Appends
  <2>1. W!Increasing(Stream') /\ Stream' \in Seq(1 .. given')
    BY <1>3, <1>4, <1>5, IncreasingConcat DEF Appends
  <2>2. errors' = 0 => Stream' = W!Bytes(1, given')
    BY <1>3, <1>4, <1>5, BytesConcat DEF Appends
  <2>3. QED  BY <1>2, <2>1, <2>2 DEF WInv, Typed, W!Increasing
<1>6. CASE Keeps
  BY <1>2, <1>4, <1>6 DEF WInv, Typed, Keeps, W!Increasing
<1>7. CASE Cuts
  <2>1. W!Held \in Seq(1 .. MaxBytes) /\ out \in Seq(1 .. MaxBytes)
    BY HeldType DEF WInv, W!ByteSeq
  <2>2. W!Increasing(out) /\ out \in Seq(1 .. given)
    BY <2>1, <1>3, <1>4, IncreasingPrefix DEF Stream
  <2>3. errors' # 0  BY <1>3, <1>7 DEF Cuts
  <2>4. QED  BY <1>2, <1>7, <2>2, <2>3 DEF Cuts, WInv, Typed, W!Increasing
<1>8. QED  BY <1>2, <1>5, <1>6, <1>7

(* However ::write cuts its input and whenever it fails, the descriptor    *)
(* never receives a byte twice or out of order, the copies stay inside the *)
(* buffer, and without a failure no byte is missing.                       *)
THEOREM WriterCorrect == AllSpec => []WriterRight
<1>1. WInv => WriterRight
  <2> SUFFICES ASSUME WInv  PROVE WriterRight  OBVIOUS
  <2>1. W!TypeOK  BY DEF WInv
  <2>2. W!OrderKept  BY DEF WInv, W!OrderKept, Stream
  <2>3. W!NothingLostWithoutError  BY DEF WInv, W!NothingLostWithoutError, Stream
  <2>4. QED  BY <2>1, <2>2, <2>3 DEF WriterRight
<1>2. QED  BY <1>1, InitWInv, StepWInv, PTL DEF AllSpec

LEMMA PresentIsRange ==
  ASSUME W!TypeOK
  PROVE  W!Present = Range(Stream)
<1>1. out \in Seq(1 .. MaxBytes) /\ W!Held \in Seq(1 .. MaxBytes)  BY HeldType DEF W!ByteSeq
<1>2. W!Present = Range(out) \cup Range(W!Held)  BY DEF W!Present, Range
<1>3. QED  BY <1>1, <1>2, RangeConcatenation DEF Stream

(* A byte that Write accepted disappears only in a step in which ::write   *)
(* failed, and unless that was in the destructor the method says so.       *)
THEOREM LossReported == AllSpec => LossIsReported
<1>0. (W!TypeOK => W!Present = Range(Stream))'
  <2>1. W!TypeOK => W!Present = Range(Stream)  BY PresentIsRange
  <2>2. QED  BY <2>1, PTL
<1>1. WInv /\ WInv' /\ [AllNext]_allVars =>
        [W!Present \ W!Present' # {} => errors' > errors /\ (result' = "errno" \/ call' = "Destroy")]_W!vars
  <2> SUFFICES ASSUME WInv, WInv', [AllNext]_allVars, W!Present \ W!Present' # {}
               PROVE  errors' > errors /\ (result' = "errno" \/ call' = "Destroy")
    OBVIOUS
  <2>1. W!Next \/ UNCHANGED writerVars  BY DEF AllNext, allVars
  <2>2. Appends \/ Keeps \/ Cuts  BY <2>1, WriterStep DEF WInv, Typed
  <2>3. W!Present = Range(Stream) /\ W!Present' = Range(Stream')
    <3>1. W!Present = Range(Stream)  BY PresentIsRange DEF WInv
    <3>2. W!Present' = Range(Stream')  BY <1>0 DEF WInv
    <3>3. QED  BY <3>1, <3>2
  <2>4. CASE Appends
    <3>1. PICK t : t = W!Bytes(given + 1, given')  OBVIOUS
    <3>2. Stream' = Stream \o t  BY <3>1, <2>4 DEF Appends
    <3>3. t \in Seq(Nat) /\ Stream \in Seq(Nat)
      <4>1. given \in Nat /\ given' \in Nat /\ given <= given'
        BY <2>4, WriterAssumption DEF Appends, WInv, W!TypeOK
      <4>2. PICK n : n = given' - given  OBVIOUS
      <4>3. Run(t, given, n)
        <5>1. PICK g, h : g = given /\ h = given'  OBVIOUS
        <5>2. Run(W!Bytes(g + 1, h), g, h - g)  BY <4>1, <5>1, BytesType
        <5>3. QED  BY <3>1, <4>2, <5>1, <5>2
      <4>4. t \in Seq(given + 1 .. given + n)  BY <4>3 DEF Run
      <4>5. given + 1 .. given + n \subseteq Nat
        <5>1. PICK g, h : g = given + 1 /\ h = given + n /\ g \in Nat  BY <4>1
        <5>2. g .. h \subseteq Nat  BY <5>1
        <5>3. QED  BY <5>1, <5>2
      <4>6. t \in Seq(Nat)  BY <4>4, <4>5, SeqMonotonic
      <4>7. Stream \in Seq(1 .. given)  BY DEF WInv
      <4>8. 1 .. given \subseteq Nat  BY <4>1
      <4>9. Stream \in Seq(Nat)  BY <4>7, <4>8, SeqMonotonic
      <4>10. QED  BY <4>6, <4>9
    <3>4. QED  BY <2>3, <3>2, <3>3, RangeConcatenation
  <2>5. CASE Keeps  BY <2>3, <2>5 DEF Keeps
  <2>6. CASE Cuts  BY <2>6, WriterAssumption DEF Cuts, WInv, W!TypeOK
  <2>7. QED  BY <2>2, <2>4, <2>5, <2>6
<1>2. QED  BY <1>1, InitWInv, StepWInv, PTL DEF AllSpec, LossIsReported, W!LossIsReported

-----------------------------------------------------------------------------
(***************************************************************************)
(* Vector.  A vector owns its block: what a method writes through mem[v]   *)
(* changes the elements of v alone.                                        *)
(***************************************************************************)
Elems == [v \in Vec |-> V!Elements(v)]

VInv ==
  /\ V!TypeOK
  /\ \A v \in valive : mem[v] # Null => mem[v] \in allocated
  /\ \A b \in allocated : \E v \in valive : mem[v] = b
  /\ \A v, w \in valive : mem[v] = mem[w] => v = w \/ mem[v] = Null
  /\ \A v \in Vec \ valive : mem[v] = Null
  /\ \A v \in Vec : idx[v] <= size[v] /\ (mem[v] = Null => size[v] = 0)
  /\ cell[Null] = V!Clean /\ \A b \in Block \ allocated : cell[b] = V!Clean
  /\ \A v \in Vec : \A i \in V!Cells : cell[mem[v]][i] # Raw <=> i <= idx[v]

LEMMA InitVInv == AllInit => VInv /\ Elems = [v \in Vec |-> <<>>]
<1> SUFFICES ASSUME AllInit  PROVE VInv /\ Elems = [v \in Vec |-> <<>>]  OBVIOUS
<1>1. /\ valive = {} /\ allocated = {} /\ mem = [v \in Vec |-> Null]
      /\ idx = [v \in Vec |-> 0] /\ size = [v \in Vec |-> 0]
      /\ cell = [b \in Block \cup {Null} |-> V!Clean]
  BY DEF AllInit, V!Init
<1>2. V!Clean \in [V!Cells -> V!Elem \cup {Raw}] /\ \A i \in V!Cells : V!Clean[i] = Raw
  BY DEF V!Clean
<1>3. V!TypeOK  BY <1>1, <1>2, VectorAssumption DEF V!TypeOK
<1>4. \A i \in V!Cells : ~(i <= 0)  BY DEF V!Cells
<1>5. VInv  BY <1>1, <1>2, <1>3, <1>4 DEF VInv
<1>6. \A v \in Vec : V!Elements(v) = <<>>  BY <1>1 DEF V!Elements
<1>7. QED  BY <1>5, <1>6 DEF Elems

LEMMA ElementsType ==
  ASSUME VInv, NEW v \in Vec
  PROVE  /\ V!Elements(v) \in Seq(V!Elem) /\ Len(V!Elements(v)) = idx[v]
         /\ \A i \in 1 .. idx[v] : V!Elements(v)[i] = cell[mem[v]][i]
         /\ idx[v] \in Nat /\ size[v] \in Nat /\ idx[v] <= MaxLen /\ idx[v] <= size[v] /\ size[v] <= MaxCap
         /\ idx[v] = 0 => V!Elements(v) = <<>>
<1>1. /\ idx[v] \in Nat /\ size[v] \in Nat /\ idx[v] <= MaxLen /\ idx[v] <= size[v] /\ size[v] <= MaxCap
      /\ mem[v] \in Block \cup {Null} /\ cell[mem[v]] \in [V!Cells -> V!Elem \cup {Raw}]
  BY VectorAssumption DEF VInv, V!TypeOK
<1>2. \A i \in 1 .. idx[v] : i \in V!Cells /\ i <= idx[v]  BY <1>1, VectorAssumption DEF V!Cells
<1>3. \A i \in 1 .. idx[v] : cell[mem[v]][i] \in V!Elem  BY <1>1, <1>2 DEF VInv, V!Elem
<1>4. V!Elements(v) \in [1 .. idx[v] -> V!Elem] /\ \A i \in 1 .. idx[v] : V!Elements(v)[i] = cell[mem[v]][i]
  BY <1>3 DEF V!Elements
<1>5. V!Elements(v) \in Seq(V!Elem) /\ Len(V!Elements(v)) = idx[v]  BY <1>1, <1>4
<1>6. QED  BY <1>1, <1>4, <1>5

(* What makes the sequence of v s: a block of its own whose cells hold s.  *)
LEMMA ElementsAre ==
  ASSUME NEW v \in Vec, NEW s \in Seq(V!Elem), idx'[v] = Len(s),
         \A i \in 1 .. Len(s) : cell'[mem'[v]][i] = s[i]
  PROVE  V!Elements(v)' = s
<1>1. PICK n \in Nat : n = Len(s) /\ s \in [1 .. n -> V!Elem]  BY LenProperties
<1>2. V!Elements(v)' = [i \in 1 .. n |-> cell'[mem'[v]][i]]  BY <1>1 DEF V!Elements
<1>3. QED  BY <1>1, <1>2

(* The elements of the vectors whose block and size stay, stay.            *)
LEMMA ElementsStay ==
  ASSUME VInv, NEW v \in Vec, mem'[v] = mem[v], idx'[v] = idx[v],
         \A i \in 1 .. idx[v] : cell'[mem[v]][i] = cell[mem[v]][i]
  PROVE  V!Elements(v)' = V!Elements(v)
BY DEF V!Elements

LEMMA GrownRange ==
  ASSUME VInv, NEW v \in Vec, NEW n \in 0 .. MaxLen
  PROVE  /\ V!Grown(v, n) \in 0 .. MaxCap /\ n <= V!Grown(v, n) /\ size[v] <= V!Grown(v, n)
         /\ n <= size[v] => V!Grown(v, n) = size[v]
<1>1. size[v] \in 0 .. MaxCap  BY DEF VInv, V!TypeOK
<1>2. QED  BY <1>1, VectorAssumption DEF V!Grown

LEMMA Filled ==
  ASSUME NEW s \in Seq(V!Elem), Len(s) <= MaxCap,
         NEW c, c = [i \in V!Cells |-> IF i <= Len(s) THEN s[i] ELSE Raw]
  PROVE  /\ c \in [V!Cells -> V!Elem \cup {Raw}]
         /\ \A i \in V!Cells : c[i] # Raw <=> i <= Len(s)
         /\ \A i \in 1 .. Len(s) : c[i] = s[i]
         /\ Len(s) = 0 => c = V!Clean
<1>1. PICK n \in Nat : n = Len(s) /\ s \in [1 .. n -> V!Elem]  BY LenProperties
<1>2. \A i \in V!Cells : i \in Nat \ {0}  BY DEF V!Cells
<1>3. \A i \in V!Cells : i <= n => s[i] \in V!Elem  BY <1>1, <1>2
<1>4. \A i \in 1 .. n : i \in V!Cells  BY <1>1, VectorAssumption DEF V!Cells
<1>5. Raw \notin V!Elem /\ V!Elem \subseteq V!Elem \cup {Raw}  BY VectorAssumption DEF V!Elem
<1>6. c = [i \in V!Cells |-> IF i <= n THEN s[i] ELSE Raw]  BY <1>1
<1>7. n = 0 => c = V!Clean  BY <1>2, <1>6 DEF V!Clean
<1>8. \A i \in 1 .. n : i <= n  OBVIOUS
<1>9. QED  BY <1>1, <1>3, <1>4, <1>5, <1>6, <1>7, <1>8

(* The common part of the methods that make the sequence of v another.     *)
LEMMA BecomesStep ==
  ASSUME VInv, NEW v \in valive, NEW room \in 0 .. MaxLen, NEW b, NEW s \in Seq(V!Elem),
         Len(s) <= MaxLen, Len(s) <= V!Grown(v, room), V!Becomes(v, room, b, s)
  PROVE  /\ VInv' /\ Elems' = [Elems EXCEPT ![v] = s]
         /\ size' = [size EXCEPT ![v] = V!Grown(v, room)]
<1>1. PICK c : c = [i \in V!Cells |-> IF i <= Len(s) THEN s[i] ELSE Raw]  OBVIOUS
<1>2. PICK n \in Nat : n = Len(s)  BY LenProperties
<1>3. PICK g : g = V!Grown(v, room)  OBVIOUS
<1>4. /\ v \in Vec /\ valive \subseteq Vec /\ allocated \subseteq Block
      /\ mem \in [Vec -> Block \cup {Null}]
      /\ idx \in [Vec -> 0 .. MaxLen] /\ size \in [Vec -> 0 .. MaxCap]
      /\ cell \in [Block \cup {Null} -> [V!Cells -> V!Elem \cup {Raw}]]
  BY DEF VInv, V!TypeOK
<1>5. /\ g \in 0 .. MaxCap /\ n <= g /\ n <= MaxLen /\ n <= MaxCap
      /\ room <= size[v] => g = size[v]
  BY <1>2, <1>3, <1>4, GrownRange, VectorAssumption
<1>6. /\ c \in [V!Cells -> V!Elem \cup {Raw}]
      /\ \A i \in V!Cells : c[i] # Raw <=> i <= n
      /\ \A i \in 1 .. n : c[i] = s[i]
      /\ n = 0 => c = V!Clean
  BY SMTT(30), <1>1, <1>2, <1>5, Filled
<1>7. /\ V!Clean \in [V!Cells -> V!Elem \cup {Raw}] /\ \A i \in V!Cells : V!Clean[i] = Raw
  BY DEF V!Clean
<1>8. /\ cell' = [cell EXCEPT ![mem[v]] = V!Clean, ![b] = c]
      /\ mem' = [mem EXCEPT ![v] = b] /\ idx' = [idx EXCEPT ![v] = n]
      /\ size' = [size EXCEPT ![v] = g] /\ valive' = valive
      /\ allocated' = V!AllocatedWith(v, b) /\ b \in V!Place(v, room)
  BY <1>1, <1>2, <1>3 DEF V!Becomes
<1>9. \/ b = mem[v] /\ g = size[v] /\ allocated' = allocated
      \/ b \in Block \ allocated /\ b # mem[v] /\ allocated' = (allocated \ {mem[v]}) \cup {b}
  <2>1. CASE room <= size[v]
    <3>1. b = mem[v]  BY <2>1, <1>8 DEF V!Place
    <3>2. allocated' = allocated  BY <3>1, <1>8 DEF V!AllocatedWith
    <3>3. g = size[v]  BY <2>1, <1>5
    <3>4. QED  BY <3>1, <3>2, <3>3
  <2>2. CASE ~(room <= size[v])
    <3>1. b \in Block \ allocated  BY <2>2, <1>8 DEF V!Place
    <3>2. b # mem[v]  BY <3>1, VectorAssumption DEF VInv
    <3>3. QED  BY <3>1, <3>2, <1>8 DEF V!AllocatedWith
  <2>3. QED  BY <2>1, <2>2
<1>10. b \in Block \cup {Null} /\ mem[v] \in Block \cup {Null}  BY <1>4, <1>9
<1>11. /\ \A w \in Vec \ {v} : mem'[w] = mem[w] /\ idx'[w] = idx[w] /\ size'[w] = size[w]
       /\ mem'[v] = b /\ idx'[v] = n /\ size'[v] = g
       /\ cell'[b] = c
       /\ \A a \in Block \cup {Null} : a # b /\ a # mem[v] => cell'[a] = cell[a]
       /\ b # mem[v] => cell'[mem[v]] = V!Clean
  BY <1>4, <1>8, <1>10
<1>12. V!TypeOK'
  <2>1. allocated' \subseteq Block  BY <1>4, <1>9
  <2>2. mem' \in [Vec -> Block \cup {Null}]  BY <1>4, <1>8, <1>10
  <2>3. idx' \in [Vec -> 0 .. MaxLen] /\ size' \in [Vec -> 0 .. MaxCap]  BY <1>4, <1>5, <1>8
  <2>4. cell' \in [Block \cup {Null} -> [V!Cells -> V!Elem \cup {Raw}]]
    BY <1>4, <1>6, <1>7, <1>8
  <2>5. QED  BY <2>1, <2>2, <2>3, <2>4, <1>4, <1>8 DEF V!TypeOK
(* No other vector has the block v had or the one it gets.                 *)
<1>13. \A w \in Vec \ {v} : mem[w] # Null => mem[w] # b /\ mem[w] # mem[v]
  <2> SUFFICES ASSUME NEW w \in Vec \ {v}, mem[w] # Null  PROVE mem[w] # b /\ mem[w] # mem[v]
    OBVIOUS
  <2>1. w \in valive /\ mem[w] \in allocated  BY DEF VInv
  <2>2. mem[w] # mem[v]  BY <2>1 DEF VInv
  <2>3. QED  BY <2>1, <2>2, <1>9
<1>14. b = Null => n = 0 /\ mem[v] = Null
  BY <1>4, <1>5, <1>9, VectorAssumption DEF VInv
<1>15. \A u \in valive' : mem'[u] # Null => mem'[u] \in allocated'
  BY <1>4, <1>8, <1>9, <1>11, <1>13 DEF VInv
<1>16. \A a \in allocated' : \E u \in valive' : mem'[u] = a
  BY <1>4, <1>8, <1>9, <1>11, <1>13 DEF VInv
<1>17. \A u, w \in valive' : mem'[u] = mem'[w] => u = w \/ mem'[u] = Null
  BY <1>4, <1>8, <1>11, <1>13 DEF VInv
<1>18. \A u \in Vec \ valive' : mem'[u] = Null
  BY <1>4, <1>8, <1>11 DEF VInv
<1>19. \A u \in Vec : idx'[u] <= size'[u] /\ (mem'[u] = Null => size'[u] = 0)
  <2> SUFFICES ASSUME NEW u \in Vec
               PROVE  idx'[u] <= size'[u] /\ (mem'[u] = Null => size'[u] = 0)
    OBVIOUS
  <2>1. idx[u] <= size[u] /\ (mem[u] = Null => size[u] = 0)  BY DEF VInv
  <2>2. CASE u # v  BY <2>1, <2>2, <1>11
  <2>3. CASE u = v
    <3>1. idx'[u] = n /\ size'[u] = g /\ mem'[u] = b  BY <2>3, <1>11
    <3>2. b = Null => b = mem[v] /\ g = size[v]  BY <1>4, <1>9, VectorAssumption
    <3>3. QED  BY <2>1, <2>3, <3>1, <3>2, <1>5
  <2>4. QED  BY <2>2, <2>3
<1>20. cell'[Null] = V!Clean
  BY <1>6, <1>10, <1>11, <1>14 DEF VInv
<1>21. \A a \in Block \ allocated' : cell'[a] = V!Clean
  <2> SUFFICES ASSUME NEW a \in Block \ allocated'  PROVE cell'[a] = V!Clean  OBVIOUS
  <2>1. a # Null /\ a # b
    <3>1. mem[v] # Null => mem[v] \in allocated  BY DEF VInv
    <3>2. QED  BY <3>1, <1>9, VectorAssumption
  <2>2. CASE a = mem[v]  BY <2>1, <2>2, <1>11
  <2>3. CASE a # mem[v]
    <3>1. a \notin allocated  BY <2>1, <2>3, <1>9
    <3>2. cell[a] = V!Clean  BY <3>1 DEF VInv
    <3>3. QED  BY <2>1, <2>3, <3>2, <1>11
  <2>4. QED  BY <2>2, <2>3
<1>22. \A w \in Vec \ {v} : cell'[mem[w]] = cell[mem[w]]
  <2> SUFFICES ASSUME NEW w \in Vec \ {v}  PROVE cell'[mem[w]] = cell[mem[w]]  OBVIOUS
  <2>1. CASE mem[w] = Null  BY <2>1, <1>20 DEF VInv
  <2>2. CASE mem[w] # Null  BY <2>2, <1>4, <1>11, <1>13
  <2>3. QED  BY <2>1, <2>2
<1>23. \A u \in Vec : \A i \in V!Cells : cell'[mem'[u]][i] # Raw <=> i <= idx'[u]
  BY <1>6, <1>11, <1>22 DEF VInv
<1>24. VInv'
  BY <1>12, <1>15, <1>16, <1>17, <1>18, <1>19, <1>20, <1>21, <1>23 DEF VInv, V!Clean, V!Cells
<1>25. V!Elements(v)' = s
  BY <1>2, <1>4, <1>6, <1>11, ElementsAre
<1>26. \A w \in Vec \ {v} : V!Elements(w)' = V!Elements(w)
  BY <1>11, <1>22, ElementsStay
<1>27. Elems' = [Elems EXCEPT ![v] = s]  BY <1>25, <1>26, <1>4 DEF Elems
<1>28. QED  BY <1>3, <1>8, <1>24, <1>27

-----------------------------------------------------------------------------
(* The steps of VectorSpec that the methods implement, by what they do to  *)
(* the sequences.                                                          *)
Changes(v, s) == Elems' = [Elems EXCEPT ![v] = s]

LEMMA RoomStep ==
  ASSUME VInv, NEW v \in Vec, NEW n \in 0 .. MaxLen, size' = [size EXCEPT ![v] = V!Grown(v, n)]
  PROVE  V!Abstract!Room(v, n)
<1>1. PICK g : g = V!Grown(v, n)  OBVIOUS
<1>2. size \in [Vec -> 0 .. MaxCap] /\ n \in Nat  BY VectorAssumption DEF VInv, V!TypeOK
<1>3. size'[v] = g /\ size' = [size EXCEPT ![v] = size'[v]]  BY <1>1, <1>2
<1>4. IF n <= size[v] THEN g = size[v] ELSE g >= n /\ g >= 2 * size[v]
  BY <1>1, <1>2, VectorAssumption DEF V!Grown
<1>5. QED  BY <1>3, <1>4 DEF V!Abstract!Room

(* What can be read through an argument is what VectorSpec allows.         *)
LEMMA ArgumentsStep ==
  ASSUME VInv, NEW v \in Vec, NEW n, NEW arg \in V!Arguments(v, n)
  PROVE  arg \subseteq V!Elem /\ arg \in V!Abstract!Arguments(v, n)
<1>1. CASE arg \in {{x} : x \in Item \cup {Zero}}
  BY <1>1 DEF V!Elem, V!Abstract!Arguments
<1>2. ASSUME NEW w \in valive, NEW i \in 1 .. idx[w], arg = V!Refers(v, n, w, i)
      PROVE  arg \subseteq V!Elem /\ arg \in V!Abstract!Arguments(v, n)
  <2>1. w \in Vec  BY DEF VInv, V!TypeOK
  <2>2. PICK e : e = V!Elements(w)  OBVIOUS
  <2>3. e \in Seq(V!Elem) /\ Len(e) = idx[w] /\ Elems[w] = e
    BY <2>1, <2>2, ElementsType DEF Elems
  <2>4. e[i] \in V!Elem /\ i \in DOMAIN e  BY <2>3
  <2>5. arg = {e[i]} \cup (IF w = v /\ n > size[v] THEN {Junk} ELSE {})  BY <1>2, <2>2 DEF V!Refers
  <2>6. arg \subseteq V!Elem  BY <2>4, <2>5 DEF V!Elem
  <2>7. arg = V!Abstract!Refers(v, n, w, i)  BY <2>3, <2>5 DEF V!Abstract!Refers, Elems
  <2>8. i \in DOMAIN Elems[w]  BY <2>3, <2>4
  <2>9. QED  BY <2>1, <2>6, <2>7, <2>8 DEF V!Abstract!Arguments, Elems
<1>3. arg \in {{x} : x \in Item \cup {Zero}}
        \/ \E w \in valive : \E i \in 1 .. idx[w] : arg = V!Refers(v, n, w, i)
  BY DEF V!Arguments
<1>4. QED  BY <1>1, <1>2, <1>3

LEMMA PushBackStep ==
  ASSUME VInv, NEW v \in Vec, NEW arg \in SUBSET V!Elem, NEW b, V!PushBack(v, arg, b)
  PROVE  VInv' /\ V!Abstract!PushBack(v, arg)
<1>1. PICK x \in arg : /\ v \in valive /\ idx[v] < MaxLen
                       /\ V!Becomes(v, idx[v] + 1, b, Append(V!Elements(v), x))
  BY DEF V!PushBack
<1>2. PICK s : s = Append(V!Elements(v), x)  OBVIOUS
<1>3. V!Elements(v) \in Seq(V!Elem) /\ Len(V!Elements(v)) = idx[v] /\ idx[v] \in Nat
  BY ElementsType
<1>4. s \in Seq(V!Elem) /\ Len(s) = idx[v] + 1  BY <1>2, <1>3
<1>5. PICK room : room = idx[v] + 1  OBVIOUS
<1>6. room \in 0 .. MaxLen /\ Len(s) = room /\ Len(s) <= MaxLen
  BY <1>1, <1>3, <1>4, <1>5, VectorAssumption
<1>7. Len(s) <= V!Grown(v, room)  BY <1>6, GrownRange
<1>8. V!Becomes(v, room, b, s)  BY <1>1, <1>2, <1>5
<1>9. /\ VInv' /\ Elems' = [Elems EXCEPT ![v] = s]
      /\ size' = [size EXCEPT ![v] = V!Grown(v, room)]
  BY <1>1, <1>4, <1>6, <1>7, <1>8, BecomesStep
<1>10. V!Abstract!Room(v, room)  BY <1>6, <1>9, RoomStep
<1>11. Elems[v] = V!Elements(v)  BY DEF Elems
<1>12. room = Len(Elems[v]) + 1  BY <1>3, <1>5, <1>11
<1>13. \E y \in arg : Elems' = [Elems EXCEPT ![v] = Append(Elems[v], y)]  BY <1>2, <1>9, <1>11
<1>14. QED  BY <1>9, <1>10, <1>12, <1>13 DEF V!Abstract!PushBack, Elems

LEMMA ReserveStep ==
  ASSUME VInv, NEW v \in Vec, NEW n \in 0 .. MaxLen, NEW b, V!Reserve(v, n, b)
  PROVE  VInv' /\ V!Abstract!Reserve(v, n)
<1>1. v \in valive /\ V!Becomes(v, n, b, V!Elements(v))  BY DEF V!Reserve
<1>2. /\ V!Elements(v) \in Seq(V!Elem) /\ Len(V!Elements(v)) = idx[v] /\ idx[v] \in Nat
      /\ idx[v] <= MaxLen /\ idx[v] <= size[v] /\ size[v] \in Nat
  BY ElementsType
<1>3. size[v] <= V!Grown(v, n) /\ V!Grown(v, n) \in 0 .. MaxCap  BY GrownRange
<1>4. Len(V!Elements(v)) <= V!Grown(v, n)  BY <1>2, <1>3, VectorAssumption
<1>5. /\ VInv' /\ Elems' = [Elems EXCEPT ![v] = V!Elements(v)]
      /\ size' = [size EXCEPT ![v] = V!Grown(v, n)]
  BY <1>1, <1>2, <1>4, BecomesStep
<1>6. Elems' = Elems  BY <1>5 DEF Elems
<1>7. V!Abstract!Room(v, n)  BY <1>5, RoomStep
<1>8. QED  BY <1>5, <1>6, <1>7 DEF V!Abstract!Reserve, Elems

LEMMA CopyAssignStep ==
  ASSUME VInv, NEW v \in Vec, NEW w \in Vec, NEW b, V!CopyAssign(v, w, b)
  PROVE  VInv' /\ V!Abstract!Copy(v, w)
<1>1. v \in valive /\ V!Becomes(v, idx[w], b, V!Elements(w))  BY DEF V!CopyAssign
<1>2. /\ V!Elements(w) \in Seq(V!Elem) /\ Len(V!Elements(w)) = idx[w] /\ idx[w] \in Nat
      /\ idx[w] <= MaxLen
  BY ElementsType
<1>3. idx[w] \in 0 .. MaxLen  BY <1>2, VectorAssumption
<1>4. idx[w] <= V!Grown(v, idx[w])  BY <1>3, GrownRange
<1>5. /\ VInv' /\ Elems' = [Elems EXCEPT ![v] = V!Elements(w)]
      /\ size' = [size EXCEPT ![v] = V!Grown(v, idx[w])]
  BY <1>1, <1>2, <1>3, <1>4, BecomesStep
<1>6. V!Abstract!Room(v, idx[w])  BY <1>3, <1>5, RoomStep
<1>7. Elems[w] = V!Elements(w)  BY DEF Elems
<1>8. QED  BY <1>2, <1>5, <1>6, <1>7 DEF V!Abstract!Copy, Elems

LEMMA ResizeStep ==
  ASSUME VInv, NEW v \in Vec, NEW n \in 0 .. MaxLen, NEW arg \in SUBSET V!Elem, NEW b,
         V!Resize(v, n, arg, b)
  PROVE  VInv' /\ V!Abstract!Resize(v, n, arg)
<1>1. PICK e : e = V!Elements(v)  OBVIOUS
<1>2. PICK m : m = idx[v]  OBVIOUS
<1>3. /\ e \in Seq(V!Elem) /\ Len(e) = m /\ m \in Nat /\ m <= MaxLen /\ m <= size[v]
      /\ size[v] \in Nat /\ size[v] <= MaxCap
  BY <1>1, <1>2, ElementsType
<1>4. v \in valive /\ Elems[v] = e  BY <1>1 DEF V!Resize, Elems
<1>5. CASE m < n
  <2>1. PICK k \in Nat : k = n - m  BY <1>3, <1>5, VectorAssumption
  <2>2. PICK f \in [1 .. k -> arg] : V!Becomes(v, n, b, e \o f)
    BY <1>1, <1>2, <1>5, <2>1 DEF V!Resize
  <2>3. f \in Seq(V!Elem) /\ Len(f) = k  BY <2>1, <2>2
  <2>4. e \o f \in Seq(V!Elem) /\ Len(e \o f) = n
    <3>1. e \o f \in Seq(V!Elem) /\ Len(e \o f) = m + k  BY <1>3, <2>3, ConcatProperties
    <3>2. m + k = n  BY <1>3, <2>1, VectorAssumption
    <3>3. QED  BY <3>1, <3>2
  <2>5. n <= V!Grown(v, n) /\ n <= MaxLen  BY GrownRange, VectorAssumption
  <2>6. /\ VInv' /\ Elems' = [Elems EXCEPT ![v] = e \o f]
        /\ size' = [size EXCEPT ![v] = V!Grown(v, n)]
    <3>1. PICK s : s = e \o f  OBVIOUS
    <3>2. s \in Seq(V!Elem) /\ Len(s) = n /\ V!Becomes(v, n, b, s)  BY <2>2, <2>4, <3>1
    <3>3. Len(s) <= MaxLen /\ Len(s) <= V!Grown(v, n)  BY <2>5, <3>2
    <3>4. /\ VInv' /\ Elems' = [Elems EXCEPT ![v] = s]
          /\ size' = [size EXCEPT ![v] = V!Grown(v, n)]
      BY <1>4, <3>2, <3>3, BecomesStep
    <3>5. QED  BY <3>1, <3>4
  <2>7. V!Abstract!Room(v, n)  BY <2>6, RoomStep
  <2>8. ~(n <= Len(Elems[v])) /\ n - Len(Elems[v]) = k
    BY <1>3, <1>4, <1>5, <2>1, VectorAssumption
  <2>9. \E y \in [1 .. n - Len(Elems[v]) -> arg] : Elems' = [Elems EXCEPT ![v] = Elems[v] \o y]
    BY <1>4, <2>2, <2>6, <2>8
  <2>10. QED  BY <2>6, <2>7, <2>8, <2>9 DEF V!Abstract!Resize, Elems
<1>6. CASE ~(m < n)
  <2>1. n \in 0 .. m  BY <1>3, <1>6, VectorAssumption
  <2>2. PICK s : s = SubSeq(e, 1, n)  OBVIOUS
  <2>3. s \in Seq(V!Elem) /\ Len(s) = n
    <3>1. \A i \in 1 .. n : e[i] \in V!Elem  BY <1>3, <2>1, ElementOfSeq
    <3>2. 1 \in Int /\ n \in Int /\ n - 1 + 1 = n /\ (1 <= n \/ n = 0)  BY <2>1, <1>3
    <3>3. QED  BY <3>1, <3>2, <2>2, SubSeqProperties
  <2>4. V!Becomes(v, 0, b, s)  BY <1>1, <1>2, <1>6, <2>2 DEF V!Resize
  <2>5. 0 \in 0 .. MaxLen /\ 0 <= size[v]  BY <1>3, VectorAssumption
  <2>6. V!Grown(v, 0) = size[v]  BY <2>5, GrownRange
  <2>7. n <= V!Grown(v, 0) /\ n <= MaxLen  BY <2>1, <2>6, <1>3, VectorAssumption
  <2>8. /\ VInv' /\ Elems' = [Elems EXCEPT ![v] = s]
        /\ size' = [size EXCEPT ![v] = V!Grown(v, 0)]
    BY <1>4, <2>3, <2>4, <2>5, <2>7, BecomesStep
  <2>9. size' = size
    <3>1. size \in [Vec -> 0 .. MaxCap]  BY DEF VInv, V!TypeOK
    <3>2. QED  BY <2>6, <2>8, <3>1
  <2>10. n <= Len(Elems[v]) /\ s = SubSeq(Elems[v], 1, n)  BY <1>3, <1>4, <2>1, <2>2
  <2>11. QED  BY <2>8, <2>9, <2>10 DEF V!Abstract!Resize, Elems
<1>7. QED  BY <1>5, <1>6

(* Construct and CopyConstruct with elements: a block no vector has.       *)
LEMMA FreshStep ==
  ASSUME VInv, NEW v \in Vec, v \notin valive, NEW b \in Block \ allocated,
         NEW c \in [V!Cells -> V!Elem \cup {Raw}], NEW s \in Seq(V!Elem), Len(s) <= MaxLen,
         \A i \in V!Cells : c[i] # Raw <=> i <= Len(s), \A i \in 1 .. Len(s) : c[i] = s[i],
         valive' = valive \cup {v}, allocated' = allocated \cup {b},
         mem' = [mem EXCEPT ![v] = b], idx' = [idx EXCEPT ![v] = Len(s)],
         size' = [size EXCEPT ![v] = Len(s)], cell' = [cell EXCEPT ![b] = c]
  PROVE  VInv' /\ Changes(v, s) /\ V!Elements(v) = <<>>
<1>1. PICK n \in Nat : n = Len(s)  BY LenProperties
<1>2. /\ valive \subseteq Vec /\ allocated \subseteq Block
      /\ mem \in [Vec -> Block \cup {Null}]
      /\ idx \in [Vec -> 0 .. MaxLen] /\ size \in [Vec -> 0 .. MaxCap]
      /\ cell \in [Block \cup {Null} -> [V!Cells -> V!Elem \cup {Raw}]]
  BY DEF VInv, V!TypeOK
<1>3. /\ mem'[v] = b /\ idx'[v] = n /\ size'[v] = n /\ cell'[b] = c
      /\ \A w \in Vec \ {v} : mem'[w] = mem[w] /\ idx'[w] = idx[w] /\ size'[w] = size[w]
      /\ \A a \in Block \cup {Null} : a # b => cell'[a] = cell[a]
  BY <1>1, <1>2
<1>4. V!TypeOK'
  <2>1. n \in 0 .. MaxLen /\ n \in 0 .. MaxCap  BY <1>1, VectorAssumption
  <2>2. idx' \in [Vec -> 0 .. MaxLen] /\ size' \in [Vec -> 0 .. MaxCap]  BY <1>1, <1>2, <2>1
  <2>3. mem' \in [Vec -> Block \cup {Null}]
        /\ cell' \in [Block \cup {Null} -> [V!Cells -> V!Elem \cup {Raw}]]
    BY <1>2
  <2>4. QED  BY <1>2, <2>2, <2>3 DEF V!TypeOK
<1>5. b # Null /\ \A w \in Vec : mem[w] # b
  BY <1>2, VectorAssumption DEF VInv
<1>6. \A u \in valive' : mem'[u] # Null => mem'[u] \in allocated'
  BY <1>2, <1>3 DEF VInv
<1>7. \A a \in allocated' : \E u \in valive' : mem'[u] = a
  BY <1>2, <1>3 DEF VInv
<1>8. \A u, w \in valive' : mem'[u] = mem'[w] => u = w \/ mem'[u] = Null
  BY <1>2, <1>3, <1>5 DEF VInv
<1>9. \A u \in Vec \ valive' : mem'[u] = Null  BY <1>2, <1>3 DEF VInv
<1>10. \A u \in Vec : idx'[u] <= size'[u] /\ (mem'[u] = Null => size'[u] = 0)
  BY <1>1, <1>2, <1>3, <1>5 DEF VInv
<1>11. cell'[Null] = V!Clean /\ \A a \in Block \ allocated' : cell'[a] = V!Clean
  BY <1>2, <1>3, <1>5 DEF VInv
<1>12. \A w \in Vec \ {v} : cell'[mem[w]] = cell[mem[w]]
  BY <1>2, <1>3, <1>5
<1>13. \A u \in Vec : \A i \in V!Cells : cell'[mem'[u]][i] # Raw <=> i <= idx'[u]
  BY <1>1, <1>2, <1>3, <1>12 DEF VInv
<1>14. VInv'
  BY <1>4, <1>6, <1>7, <1>8, <1>9, <1>10, <1>11, <1>13 DEF VInv, V!Clean, V!Cells
<1>15. V!Elements(v)' = s
  BY <1>1, <1>3, ElementsAre
<1>16. \A w \in Vec \ {v} : V!Elements(w)' = V!Elements(w)
  BY <1>3, <1>12, ElementsStay
<1>17. Changes(v, s)  BY <1>15, <1>16 DEF Elems, Changes
<1>18. idx[v] = 0
  <2>1. mem[v] = Null /\ size[v] = 0 /\ idx[v] <= size[v]  BY DEF VInv
  <2>2. QED  BY <2>1, <1>2, VectorAssumption
<1>19. V!Elements(v) = <<>>  BY <1>18, ElementsType
<1>20. QED  BY <1>14, <1>17, <1>19

LEMMA ConstructStep ==
  ASSUME VInv, NEW v \in Vec, NEW n \in 0 .. MaxLen, NEW arg \in SUBSET V!Elem, NEW b,
         V!Construct(v, n, arg, b)
  PROVE  VInv' /\ V!Abstract!Construct(v, n, arg)
<1>0. PICK x \in arg : cell' = [cell EXCEPT ![b] = [i \in V!Cells |-> IF i <= n THEN x ELSE Raw]]
  BY DEF V!Construct
<1>1. PICK s : s = [i \in 1 .. n |-> x]  OBVIOUS
<1>2. n \in Nat /\ n <= MaxLen /\ n <= MaxCap  BY VectorAssumption
<1>3. s \in Seq(V!Elem) /\ Len(s) = n /\ \A i \in 1 .. n : s[i] = x  BY <1>1, <1>2
<1>4. PICK c : c = [i \in V!Cells |-> IF i <= n THEN x ELSE Raw]  OBVIOUS
<1>5. /\ v \notin valive /\ b \in Block \ allocated
      /\ valive' = valive \cup {v} /\ allocated' = allocated \cup {b}
      /\ mem' = [mem EXCEPT ![v] = b] /\ idx' = [idx EXCEPT ![v] = n]
      /\ size' = [size EXCEPT ![v] = n] /\ cell' = [cell EXCEPT ![b] = c]
  BY <1>0, <1>4 DEF V!Construct
<1>6. \A i \in 1 .. n : i \in V!Cells /\ i <= n  BY <1>2, VectorAssumption DEF V!Cells
<1>7. /\ c \in [V!Cells -> V!Elem \cup {Raw}]
      /\ \A i \in V!Cells : c[i] # Raw <=> i <= n
      /\ \A i \in 1 .. n : c[i] = s[i]
  BY <1>3, <1>4, <1>6, VectorAssumption DEF V!Elem
<1>8. VInv' /\ Changes(v, s) /\ V!Elements(v) = <<>>
  BY <1>2, <1>3, <1>5, <1>7, FreshStep
<1>9. size[v] = 0  BY <1>5 DEF VInv
<1>10. \E y \in arg : Elems' = [Elems EXCEPT ![v] = [i \in 1 .. n |-> y]]
  BY <1>1, <1>8 DEF Changes
<1>11. Elems[v] = <<>>  BY <1>8 DEF Elems
<1>12. QED  BY <1>5, <1>8, <1>9, <1>10, <1>11 DEF V!Abstract!Construct, Elems

LEMMA CopyConstructStep ==
  ASSUME VInv, NEW v \in Vec, NEW w \in Vec, NEW b, V!CopyConstruct(v, w, b)
  PROVE  VInv' /\ V!Abstract!Copy(v, w)
<1>1. v \notin valive /\ w \in valive /\ valive' = valive \cup {v}  BY DEF V!CopyConstruct
<1>2. PICK s : s = V!Elements(w)  OBVIOUS
<1>3. /\ s \in Seq(V!Elem) /\ Len(s) = idx[w] /\ idx[w] \in Nat /\ idx[w] <= MaxLen
      /\ \A i \in 1 .. idx[w] : s[i] = cell[mem[w]][i]
      /\ idx[w] = 0 => s = <<>>
  BY <1>2, ElementsType
<1>4. ASSUME idx[w] = 0
      PROVE  VInv' /\ Changes(v, s) /\ size' = [size EXCEPT ![v] = V!Grown(v, idx[w])]
  <2>1. mem' = mem /\ idx' = idx /\ size' = size /\ allocated' = allocated /\ cell' = cell
    BY <1>4 DEF V!CopyConstruct
  <2>2. VInv'
    BY <1>1, <2>1, VectorAssumption DEF VInv, V!TypeOK, V!Clean, V!Cells
  <2>3. mem[v] = Null /\ size[v] = 0 /\ idx[v] <= size[v] /\ idx[v] \in 0 .. MaxLen
    BY <1>1 DEF VInv, V!TypeOK
  <2>4. idx[v] = 0  BY <2>3, VectorAssumption
  <2>5. V!Elements(v) = <<>>  BY <2>4, ElementsType
  <2>6. \A u \in Vec : V!Elements(u)' = V!Elements(u)  BY <2>1 DEF V!Elements
  <2>7. Changes(v, s)  BY <1>3, <1>4, <2>5, <2>6 DEF Changes, Elems
  <2>8. V!Grown(v, 0) = size[v]  BY <2>3, VectorAssumption DEF V!Grown
  <2>9. size' = [size EXCEPT ![v] = size[v]]
    <3>1. size \in [Vec -> 0 .. MaxCap]  BY DEF VInv, V!TypeOK
    <3>2. QED  BY <2>1, <3>1
  <2>10. QED  BY <1>4, <2>2, <2>7, <2>8, <2>9
<1>5. ASSUME idx[w] # 0
      PROVE  VInv' /\ Changes(v, s) /\ size' = [size EXCEPT ![v] = V!Grown(v, idx[w])]
  <2>1. PICK c : c = cell[mem[w]]  OBVIOUS
  <2>2. /\ b \in Block \ allocated /\ allocated' = allocated \cup {b}
        /\ mem' = [mem EXCEPT ![v] = b] /\ idx' = [idx EXCEPT ![v] = Len(s)]
        /\ size' = [size EXCEPT ![v] = Len(s)] /\ cell' = [cell EXCEPT ![b] = c]
    BY <1>3, <1>5, <2>1 DEF V!CopyConstruct
  <2>3. /\ c \in [V!Cells -> V!Elem \cup {Raw}]
        /\ \A i \in V!Cells : c[i] # Raw <=> i <= Len(s)
        /\ \A i \in 1 .. Len(s) : c[i] = s[i]
    BY <1>3, <2>1 DEF VInv, V!TypeOK
  <2>4. VInv' /\ Changes(v, s)
    BY ZenonT(40), <1>1, <1>2, <1>3, <2>2, <2>3, FreshStep
  <2>5. size[v] = 0  BY <1>1 DEF VInv
  <2>6. V!Grown(v, idx[w]) = idx[w]  BY <1>3, <1>5, <2>5 DEF V!Grown
  <2>7. size' = [size EXCEPT ![v] = idx[w]]  BY <1>3, <2>2
  <2>8. QED  BY <2>4, <2>6, <2>7
<1>6. VInv' /\ Changes(v, s) /\ size' = [size EXCEPT ![v] = V!Grown(v, idx[w])]
  BY <1>4, <1>5
<1>7. idx[w] \in 0 .. MaxLen  BY <1>3, VectorAssumption
<1>8. V!Abstract!Room(v, idx[w])  BY <1>6, <1>7, RoomStep
<1>9. Elems[w] = s /\ Len(s) = idx[w]  BY <1>2, <1>3 DEF Elems
<1>10. QED  BY <1>6, <1>8, <1>9 DEF V!Abstract!Copy, Elems, Changes

(* Methods that destroy elements of a block and keep the block.            *)
LEMMA CutStep ==
  ASSUME VInv, NEW v \in valive, NEW c \in [V!Cells -> V!Elem \cup {Raw}], NEW n \in 0 .. idx[v],
         \A i \in V!Cells : c[i] # Raw <=> i <= n,
         \A i \in 1 .. n : c[i] = cell[mem[v]][i],
         UNCHANGED <<valive, allocated, mem, size>>,
         idx' = [idx EXCEPT ![v] = n], cell' = [cell EXCEPT ![mem[v]] = c]
  PROVE  VInv' /\ Changes(v, SubSeq(V!Elements(v), 1, n))
<1>1. /\ v \in Vec /\ valive \subseteq Vec /\ allocated \subseteq Block
      /\ mem \in [Vec -> Block \cup {Null}]
      /\ idx \in [Vec -> 0 .. MaxLen] /\ size \in [Vec -> 0 .. MaxCap]
      /\ cell \in [Block \cup {Null} -> [V!Cells -> V!Elem \cup {Raw}]]
  BY DEF VInv, V!TypeOK
<1>2. n \in Nat /\ n <= idx[v] /\ idx[v] <= MaxLen /\ n \in 0 .. MaxLen
  BY <1>1, VectorAssumption
<1>3. /\ idx'[v] = n /\ \A w \in Vec \ {v} : idx'[w] = idx[w]
      /\ cell'[mem[v]] = c /\ \A a \in Block \cup {Null} : a # mem[v] => cell'[a] = cell[a]
  BY <1>1
<1>4. V!TypeOK'
  <2>1. idx' \in [Vec -> 0 .. MaxLen]  BY <1>1, <1>2
  <2>2. cell' \in [Block \cup {Null} -> [V!Cells -> V!Elem \cup {Raw}]]  BY <1>1
  <2>3. QED  BY <1>1, <2>1, <2>2 DEF V!TypeOK
<1>5. mem[v] = Null => n = 0 /\ c = V!Clean
  <2> SUFFICES ASSUME mem[v] = Null  PROVE n = 0 /\ c = V!Clean  OBVIOUS
  <2>1. n = 0
    <3>1. size[v] = 0 /\ idx[v] <= size[v]  BY <1>1 DEF VInv
    <3>2. QED  BY <3>1, <1>1, <1>2, VectorAssumption
  <2>2. \A i \in V!Cells : c[i] = Raw  BY <2>1, <1>2 DEF V!Cells
  <2>3. QED  BY <2>1, <2>2 DEF V!Clean
<1>6. \A w \in Vec \ {v} : cell'[mem[w]] = cell[mem[w]]
  <2> SUFFICES ASSUME NEW w \in Vec \ {v}  PROVE cell'[mem[w]] = cell[mem[w]]  OBVIOUS
  <2>1. CASE mem[w] = Null /\ mem[v] = Null  BY <2>1, <1>3, <1>5 DEF VInv
  <2>2. CASE mem[w] # mem[v]  BY <2>2, <1>1, <1>3
  <2>3. CASE mem[w] # Null /\ mem[w] = mem[v]  BY <2>3 DEF VInv
  <2>4. QED  BY <2>1, <2>2, <2>3
<1>7. cell'[Null] = V!Clean
  BY <1>1, <1>3, <1>5 DEF VInv
<1>8. \A a \in Block \ allocated : cell'[a] = V!Clean
  BY <1>1, <1>3, VectorAssumption DEF VInv
<1>9. \A u \in Vec : idx'[u] <= size[u]  BY <1>1, <1>2, <1>3, VectorAssumption DEF VInv
<1>10. \A u \in Vec : \A i \in V!Cells : cell'[mem[u]][i] # Raw <=> i <= idx'[u]
  BY <1>1, <1>3, <1>6 DEF VInv
<1>11. VInv'
  <2>1. valive' = valive /\ allocated' = allocated /\ mem' = mem /\ size' = size  OBVIOUS
  <2>2. \A u \in Vec : mem[u] = Null => size[u] = 0  BY DEF VInv
  <2>3. V!Clean' = V!Clean /\ V!Cells' = V!Cells  BY DEF V!Clean, V!Cells
  <2>4. QED  BY <2>1, <2>2, <2>3, <1>4, <1>7, <1>8, <1>9, <1>10 DEF VInv
<1>12. PICK e : e = V!Elements(v)  OBVIOUS
<1>13. /\ e \in Seq(V!Elem) /\ Len(e) = idx[v] /\ \A i \in 1 .. idx[v] : e[i] = cell[mem[v]][i]
  BY <1>1, <1>12, ElementsType
<1>14. PICK s : s = SubSeq(e, 1, n)  OBVIOUS
<1>15. s \in Seq(V!Elem) /\ Len(s) = n /\ \A i \in 1 .. n : s[i] = e[i]
  <2>1. \A i \in 1 .. n : e[i] \in V!Elem  BY <1>1, <1>2, <1>13, ElementOfSeq
  <2>2. 1 \in Int /\ n \in Int /\ n - 1 + 1 = n /\ (1 <= n \/ n = 0) /\ \A i \in 1 .. n : 1 + i - 1 = i
    BY <1>2
  <2>3. QED  BY <2>1, <2>2, <1>14, SubSeqProperties
<1>16. \A i \in 1 .. n : cell'[mem'[v]][i] = s[i]
  BY <1>1, <1>2, <1>3, <1>13, <1>15
<1>17. V!Elements(v)' = s  BY <1>1, <1>3, <1>15, <1>16, ElementsAre
<1>18. \A w \in Vec \ {v} : V!Elements(w)' = V!Elements(w)
  BY <1>3, <1>6, ElementsStay
<1>19. Changes(v, s)  BY <1>1, <1>17, <1>18 DEF Changes, Elems
<1>20. QED  BY <1>11, <1>12, <1>14, <1>19

LEMMA PopBackStep ==
  ASSUME VInv, NEW v \in Vec, V!PopBack(v)
  PROVE  /\ VInv' /\ V!Elements(v) # <<>>
         /\ Changes(v, SubSeq(V!Elements(v), 1, Len(V!Elements(v)) - 1))
<1>1. /\ v \in valive /\ idx[v] > 0 /\ UNCHANGED <<valive, allocated, mem, size>>
      /\ cell' = [cell EXCEPT ![mem[v]][idx[v]] = Raw] /\ idx' = [idx EXCEPT ![v] = idx[v] - 1]
  BY DEF V!PopBack
<1>2. /\ mem[v] \in Block \cup {Null} /\ idx[v] \in 0 .. MaxLen
      /\ cell[mem[v]] \in [V!Cells -> V!Elem \cup {Raw}]
      /\ cell \in [Block \cup {Null} -> [V!Cells -> V!Elem \cup {Raw}]]
  BY DEF VInv, V!TypeOK
<1>3. PICK n, m : n = idx[v] - 1 /\ m = idx[v]  OBVIOUS
<1>4. PICK c : c = [cell[mem[v]] EXCEPT ![m] = Raw]  OBVIOUS
<1>5. n \in 0 .. idx[v] /\ m = n + 1 /\ n \in Nat /\ m \in V!Cells
  BY <1>1, <1>2, <1>3, VectorAssumption DEF V!Cells
<1>6. c \in [V!Cells -> V!Elem \cup {Raw}]  BY <1>2, <1>4
<1>7. \A i \in V!Cells : c[i] # Raw <=> i <= n
  <2> SUFFICES ASSUME NEW i \in V!Cells  PROVE c[i] # Raw <=> i <= n  OBVIOUS
  <2>1. cell[mem[v]][i] # Raw <=> i <= m  BY <1>3 DEF VInv
  <2>2. i \in Nat  BY DEF V!Cells
  <2>3. QED  BY <2>1, <2>2, <1>2, <1>4, <1>5
<1>8. \A i \in 1 .. n : c[i] = cell[mem[v]][i]
  BY <1>2, <1>4, <1>5
<1>9. cell' = [cell EXCEPT ![mem[v]] = c] /\ idx' = [idx EXCEPT ![v] = n]
  BY <1>1, <1>2, <1>3, <1>4
<1>10. VInv' /\ Changes(v, SubSeq(V!Elements(v), 1, n))
  BY <1>1, <1>5, <1>6, <1>7, <1>8, <1>9, CutStep
<1>11. Len(V!Elements(v)) = m  BY <1>3, ElementsType
<1>12. V!Elements(v) # <<>>  BY <1>5, <1>11
<1>13. QED  BY <1>3, <1>10, <1>11, <1>12

LEMMA ClearStep ==
  ASSUME VInv, NEW v \in Vec, V!Clear(v)
  PROVE  VInv' /\ Changes(v, <<>>)
<1>1. /\ v \in valive /\ UNCHANGED <<valive, allocated, mem, size>>
      /\ cell' = [cell EXCEPT ![mem[v]] = V!Clean] /\ idx' = [idx EXCEPT ![v] = 0]
  BY DEF V!Clear
<1>2. PICK n : n = 0  OBVIOUS
<1>3. PICK c : c = V!Clean  OBVIOUS
<1>4. idx[v] \in 0 .. MaxLen  BY DEF VInv, V!TypeOK
<1>5. n \in 0 .. idx[v]  BY <1>2, <1>4, VectorAssumption
<1>6. /\ c \in [V!Cells -> V!Elem \cup {Raw}]
      /\ \A i \in V!Cells : c[i] # Raw <=> i <= n
      /\ \A i \in 1 .. n : c[i] = cell[mem[v]][i]
  BY <1>2, <1>3 DEF V!Clean, V!Cells
<1>7. cell' = [cell EXCEPT ![mem[v]] = c] /\ idx' = [idx EXCEPT ![v] = n]  BY <1>1, <1>2, <1>3
<1>8. VInv' /\ Changes(v, SubSeq(V!Elements(v), 1, n))  BY <1>1, <1>5, <1>6, <1>7, CutStep
<1>9. SubSeq(V!Elements(v), 1, n) = <<>>
  <2>1. 1 \in Int /\ n \in Int /\ n < 1  BY <1>2
  <2>2. QED  BY <2>1, SubSeqEmpty
<1>10. QED  BY <1>8, <1>9

(* Two vectors exchange their blocks, one of which may not exist yet.      *)
LEMMA ExchangeStep ==
  ASSUME VInv, NEW v \in Vec, NEW w \in valive, valive' = valive \cup {v},
         UNCHANGED <<allocated, cell>>,
         mem' = [mem EXCEPT ![v] = mem[w], ![w] = mem[v]],
         idx' = [idx EXCEPT ![v] = idx[w], ![w] = idx[v]],
         size' = [size EXCEPT ![v] = size[w], ![w] = size[v]]
  PROVE  VInv' /\ Elems' = [Elems EXCEPT ![v] = V!Elements(w), ![w] = V!Elements(v)]
<1>1. /\ w \in Vec /\ valive \subseteq Vec /\ allocated \subseteq Block
      /\ mem \in [Vec -> Block \cup {Null}]
      /\ idx \in [Vec -> 0 .. MaxLen] /\ size \in [Vec -> 0 .. MaxCap]
      /\ cell \in [Block \cup {Null} -> [V!Cells -> V!Elem \cup {Raw}]]
  BY DEF VInv, V!TypeOK
<1>2. /\ mem'[v] = mem[w] /\ mem'[w] = mem[v] /\ idx'[v] = idx[w] /\ idx'[w] = idx[v]
      /\ size'[v] = size[w] /\ size'[w] = size[v]
      /\ \A u \in Vec \ {v, w} : mem'[u] = mem[u] /\ idx'[u] = idx[u] /\ size'[u] = size[u]
      /\ allocated' = allocated /\ cell' = cell
  BY <1>1
<1>3. V!TypeOK'
  <2>1. /\ mem' \in [Vec -> Block \cup {Null}] /\ idx' \in [Vec -> 0 .. MaxLen]
        /\ size' \in [Vec -> 0 .. MaxCap]
    BY <1>1
  <2>2. QED  BY <1>1, <1>2, <2>1 DEF V!TypeOK
<1>4. \A u \in valive' : mem'[u] # Null => mem'[u] \in allocated'
  BY <1>1, <1>2 DEF VInv
<1>5. \A b \in allocated' : \E u \in valive' : mem'[u] = b
  <2> SUFFICES ASSUME NEW b \in allocated  PROVE \E u \in valive' : mem'[u] = b  BY <1>2
  <2>1. PICK u \in valive : mem[u] = b  BY DEF VInv
  <2>2. CASE u = v  BY <2>1, <2>2, <1>2
  <2>3. CASE u = w  BY <2>1, <2>3, <1>2
  <2>4. CASE u \notin {v, w}  BY <2>1, <2>4, <1>1, <1>2
  <2>5. QED  BY <2>2, <2>3, <2>4
<1>6. \A u \in Vec \ valive' : mem'[u] = Null  BY <1>1, <1>2 DEF VInv
<1>7. \A u, z \in valive' : mem'[u] = mem'[z] => u = z \/ mem'[u] = Null
  <2>1. \A u, z \in valive \cup {v} : mem[u] = mem[z] => u = z \/ mem[u] = Null
    <3>1. v \in valive \/ mem[v] = Null  BY DEF VInv
    <3>2. QED  BY <3>1 DEF VInv
  <2>2. QED  BY <2>1, <1>1, <1>2
<1>8. \A u \in Vec : idx'[u] <= size'[u] /\ (mem'[u] = Null => size'[u] = 0)
  BY <1>1, <1>2 DEF VInv
<1>9. \A u \in Vec : \A i \in V!Cells : cell'[mem'[u]][i] # Raw <=> i <= idx'[u]
  BY <1>1, <1>2 DEF VInv
<1>10. VInv'
  <2>1. cell'[Null] = V!Clean /\ \A b \in Block \ allocated' : cell'[b] = V!Clean
    BY <1>2 DEF VInv
  <2>2. V!Clean' = V!Clean /\ V!Cells' = V!Cells  BY DEF V!Clean, V!Cells
  <2>3. QED  BY <2>1, <2>2, <1>3, <1>4, <1>5, <1>6, <1>7, <1>8, <1>9 DEF VInv
<1>11. \A u, z \in Vec : mem'[u] = mem[z] /\ idx'[u] = idx[z] => V!Elements(u)' = V!Elements(z)
  <2> SUFFICES ASSUME NEW u \in Vec, NEW z \in Vec, mem'[u] = mem[z], idx'[u] = idx[z]
               PROVE  V!Elements(u)' = V!Elements(z)
    OBVIOUS
  <2>1. V!Elements(u)' = [i \in 1 .. idx'[u] |-> cell'[mem'[u]][i]]  BY DEF V!Elements
  <2>2. V!Elements(z) = [i \in 1 .. idx[z] |-> cell[mem[z]][i]]  BY DEF V!Elements
  <2>3. QED  BY <2>1, <2>2
<1>12. /\ V!Elements(v)' = V!Elements(w) /\ V!Elements(w)' = V!Elements(v)
       /\ \A u \in Vec \ {v, w} : V!Elements(u)' = V!Elements(u)
  BY <1>1, <1>2, <1>11
<1>13. QED  BY <1>1, <1>10, <1>12 DEF Elems

LEMMA SwapStep ==
  ASSUME VInv, NEW v \in Vec, NEW w \in Vec, V!Swap(v, w)
  PROVE  VInv' /\ Elems' = [Elems EXCEPT ![v] = V!Elements(w), ![w] = V!Elements(v)]
<1>1. w \in valive /\ valive' = valive \cup {v}  BY DEF V!Swap
<1>2. QED  BY <1>1, ExchangeStep DEF V!Swap

LEMMA MoveConstructStep ==
  ASSUME VInv, NEW v \in Vec, NEW w \in Vec, V!MoveConstruct(v, w)
  PROVE  VInv' /\ Elems' = [Elems EXCEPT ![v] = V!Elements(w), ![w] = <<>>]
<1>1. v \notin valive /\ w \in valive /\ valive' = valive \cup {v}  BY DEF V!MoveConstruct
<1>2. mem[v] = Null /\ size[v] = 0 /\ idx[v] = 0
  <2>1. mem[v] = Null /\ size[v] = 0 /\ idx[v] <= size[v] /\ idx[v] \in 0 .. MaxLen
    BY <1>1 DEF VInv, V!TypeOK
  <2>2. QED  BY <2>1, VectorAssumption
<1>3. V!Elements(v) = <<>>  BY <1>2, ElementsType
<1>4. /\ mem' = [mem EXCEPT ![v] = mem[w], ![w] = mem[v]]
      /\ idx' = [idx EXCEPT ![v] = idx[w], ![w] = idx[v]]
      /\ size' = [size EXCEPT ![v] = size[w], ![w] = size[v]]
      /\ UNCHANGED <<allocated, cell>>
  BY <1>2 DEF V!MoveConstruct
<1>5. QED  BY <1>1, <1>3, <1>4, ExchangeStep

LEMMA DefaultStep ==
  ASSUME VInv, NEW v \in Vec, V!Default(v)
  PROVE  VInv' /\ Elems' = Elems
<1>1. v \notin valive /\ valive' = valive \cup {v} /\ UNCHANGED <<mem, idx, size, allocated, cell>>
  BY DEF V!Default
<1>2. V!Clean' = V!Clean /\ V!Cells' = V!Cells  BY DEF V!Clean, V!Cells
<1>3. VInv'
  BY <1>1, <1>2 DEF VInv, V!TypeOK
<1>4. \A u \in Vec : V!Elements(u)' = V!Elements(u)  BY <1>1 DEF V!Elements
<1>5. QED  BY <1>3, <1>4 DEF Elems

LEMMA MoveAssignStep ==
  ASSUME VInv, NEW v \in Vec, NEW w \in Vec, V!MoveAssign(v, w)
  PROVE  VInv' /\ Elems' = [Elems EXCEPT ![v] = V!Elements(w), ![w] = <<>>]
<1>1. /\ v \in valive /\ w \in valive /\ UNCHANGED <<valive, allocated>>
      /\ mem' = [mem EXCEPT ![v] = mem[w], ![w] = mem[v]]
      /\ idx' = [[idx EXCEPT ![v] = idx[w]] EXCEPT ![w] = 0]
      /\ size' = [size EXCEPT ![v] = size[w], ![w] = size[v]]
      /\ cell' = [cell EXCEPT ![mem[v]] = V!Clean]
  BY DEF V!MoveAssign
<1>2. /\ valive \subseteq Vec /\ allocated \subseteq Block
      /\ mem \in [Vec -> Block \cup {Null}]
      /\ idx \in [Vec -> 0 .. MaxLen] /\ size \in [Vec -> 0 .. MaxCap]
      /\ cell \in [Block \cup {Null} -> [V!Cells -> V!Elem \cup {Raw}]]
  BY DEF VInv, V!TypeOK
<1>3. /\ V!Clean \in [V!Cells -> V!Elem \cup {Raw}] /\ \A i \in V!Cells : V!Clean[i] = Raw
      /\ V!Clean' = V!Clean /\ V!Cells' = V!Cells /\ \A i \in V!Cells : ~(i <= 0)
  BY DEF V!Clean, V!Cells
<1>4. /\ mem'[v] = mem[w] /\ mem'[w] = mem[v] /\ idx'[w] = 0 /\ (v # w => idx'[v] = idx[w])
      /\ size'[v] = size[w] /\ size'[w] = size[v] /\ cell'[mem[v]] = V!Clean
      /\ \A u \in Vec \ {v, w} : mem'[u] = mem[u] /\ idx'[u] = idx[u] /\ size'[u] = size[u]
      /\ \A b \in Block \cup {Null} : b # mem[v] => cell'[b] = cell[b]
      /\ allocated' = allocated /\ valive' = valive
  BY <1>1, <1>2
<1>5. V!TypeOK'
  <2>1. mem' \in [Vec -> Block \cup {Null}] /\ size' \in [Vec -> 0 .. MaxCap]  BY <1>1, <1>2
  <2>2. idx' \in [Vec -> 0 .. MaxLen]  BY <1>1, <1>2, VectorAssumption
  <2>3. cell' \in [Block \cup {Null} -> [V!Cells -> V!Elem \cup {Raw}]]  BY <1>1, <1>2, <1>3
  <2>4. QED  BY <1>2, <1>3, <1>4, <2>1, <2>2, <2>3 DEF V!TypeOK
<1>6. \A u \in valive : mem'[u] # Null => mem'[u] \in allocated
  BY <1>1, <1>2, <1>4 DEF VInv
<1>7. \A b \in allocated : \E u \in valive : mem'[u] = b
  <2> SUFFICES ASSUME NEW b \in allocated  PROVE \E u \in valive : mem'[u] = b  OBVIOUS
  <2>1. PICK u \in valive : mem[u] = b  BY DEF VInv
  <2>2. CASE u = v  BY <2>1, <2>2, <1>1, <1>4
  <2>3. CASE u = w  BY <2>1, <2>3, <1>1, <1>4
  <2>4. CASE u \notin {v, w}  BY <2>1, <2>4, <1>2, <1>4
  <2>5. QED  BY <2>2, <2>3, <2>4
<1>8. \A u \in Vec \ valive : mem'[u] = Null  BY <1>1, <1>2, <1>4 DEF VInv
<1>9. \A u, z \in valive : mem'[u] = mem'[z] => u = z \/ mem'[u] = Null
  <2>1. \A u, z \in valive : mem[u] = mem[z] => u = z \/ mem[u] = Null  BY DEF VInv
  <2>2. QED  BY <2>1, <1>1, <1>2, <1>4
<1>10. \A u \in Vec : idx'[u] <= size'[u] /\ (mem'[u] = Null => size'[u] = 0)
  <2>1. \A u \in Vec : idx[u] <= size[u] /\ (mem[u] = Null => size[u] = 0) /\ size[u] \in Nat /\ 0 <= size[u]
    BY <1>2, VectorAssumption DEF VInv
  <2>2. QED  BY <2>1, <1>4
<1>11. \A u \in Vec \ {v} : cell'[mem[u]] = cell[mem[u]]
  <2> SUFFICES ASSUME NEW u \in Vec \ {v}  PROVE cell'[mem[u]] = cell[mem[u]]  OBVIOUS
  <2>1. CASE mem[u] = Null /\ mem[v] = Null  BY <2>1, <1>4 DEF VInv
  <2>2. CASE mem[u] # mem[v]  BY <2>2, <1>2, <1>4
  <2>3. CASE mem[u] # Null /\ mem[u] = mem[v]  BY <2>3, <1>1 DEF VInv
  <2>4. QED  BY <2>1, <2>2, <2>3
<1>12. \A u \in Vec : \A i \in V!Cells : cell'[mem'[u]][i] # Raw <=> i <= idx'[u]
  <2>1. \A u \in Vec : \A i \in V!Cells : cell[mem[u]][i] # Raw <=> i <= idx[u]  BY DEF VInv
  <2>2. \A i \in V!Cells : cell'[mem'[w]][i] # Raw <=> i <= idx'[w]  BY <1>3, <1>4
  <2>3. v # w => \A i \in V!Cells : cell'[mem'[v]][i] # Raw <=> i <= idx'[v]
    BY <2>1, <1>4, <1>11
  <2>4. \A u \in Vec \ {v, w} : \A i \in V!Cells : cell'[mem'[u]][i] # Raw <=> i <= idx'[u]
    BY <2>1, <1>4, <1>11
  <2>5. QED  BY <2>2, <2>3, <2>4
<1>13. cell'[Null] = V!Clean /\ \A b \in Block \ allocated : cell'[b] = V!Clean
  BY <1>2, <1>4 DEF VInv
<1>14. VInv'
  BY <1>3, <1>4, <1>5, <1>6, <1>7, <1>8, <1>9, <1>10, <1>12, <1>13 DEF VInv
<1>15. V!Elements(w)' = <<>>
  <2>1. V!Elements(w)' = [i \in 1 .. 0 |-> cell'[mem'[w]][i]]  BY <1>4 DEF V!Elements
  <2>2. QED  BY <2>1
<1>16. v # w => V!Elements(v)' = V!Elements(w)
  <2> SUFFICES ASSUME v # w  PROVE V!Elements(v)' = V!Elements(w)  OBVIOUS
  <2>1. V!Elements(v)' = [i \in 1 .. idx'[v] |-> cell'[mem'[v]][i]]  BY DEF V!Elements
  <2>2. V!Elements(w) = [i \in 1 .. idx[w] |-> cell[mem[w]][i]]  BY DEF V!Elements
  <2>3. idx'[v] = idx[w] /\ cell'[mem'[v]] = cell[mem[w]]  BY <1>4, <1>11
  <2>4. QED  BY <2>1, <2>2, <2>3
<1>17. \A u \in Vec \ {v, w} : V!Elements(u)' = V!Elements(u)
  BY <1>4, <1>11, ElementsStay
<1>18. QED  BY <1>14, <1>15, <1>16, <1>17 DEF Elems

LEMMA DestroyStep ==
  ASSUME VInv, NEW v \in Vec, V!Destroy(v)
  PROVE  VInv' /\ Changes(v, <<>>)
<1>1. /\ v \in valive /\ valive' = valive \ {v}
      /\ cell' = [cell EXCEPT ![mem[v]] = V!Clean] /\ allocated' = allocated \ {mem[v]}
      /\ mem' = [mem EXCEPT ![v] = Null]
      /\ idx' = [idx EXCEPT ![v] = 0] /\ size' = [size EXCEPT ![v] = 0]
  BY DEF V!Destroy
<1>2. /\ valive \subseteq Vec /\ allocated \subseteq Block
      /\ mem \in [Vec -> Block \cup {Null}]
      /\ idx \in [Vec -> 0 .. MaxLen] /\ size \in [Vec -> 0 .. MaxCap]
      /\ cell \in [Block \cup {Null} -> [V!Cells -> V!Elem \cup {Raw}]]
  BY DEF VInv, V!TypeOK
<1>3. /\ V!Clean \in [V!Cells -> V!Elem \cup {Raw}] /\ \A i \in V!Cells : V!Clean[i] = Raw
      /\ V!Clean' = V!Clean /\ V!Cells' = V!Cells /\ \A i \in V!Cells : ~(i <= 0)
  BY DEF V!Clean, V!Cells
<1>4. /\ mem'[v] = Null /\ idx'[v] = 0 /\ size'[v] = 0 /\ cell'[mem[v]] = V!Clean
      /\ \A u \in Vec \ {v} : mem'[u] = mem[u] /\ idx'[u] = idx[u] /\ size'[u] = size[u]
      /\ \A b \in Block \cup {Null} : b # mem[v] => cell'[b] = cell[b]
  BY <1>1, <1>2
<1>5. V!TypeOK'
  <2>1. /\ mem' \in [Vec -> Block \cup {Null}] /\ idx' \in [Vec -> 0 .. MaxLen]
        /\ size' \in [Vec -> 0 .. MaxCap]
    BY <1>1, <1>2, VectorAssumption
  <2>2. cell' \in [Block \cup {Null} -> [V!Cells -> V!Elem \cup {Raw}]]  BY <1>1, <1>2, <1>3
  <2>3. QED  BY <1>1, <1>2, <1>3, <2>1, <2>2 DEF V!TypeOK
<1>6. \A u, z \in valive : mem[u] = mem[z] => u = z \/ mem[u] = Null  BY DEF VInv
<1>7. \A u \in valive' : mem'[u] # Null => mem'[u] \in allocated'
  BY <1>1, <1>2, <1>4, <1>6 DEF VInv
<1>8. \A b \in allocated' : \E u \in valive' : mem'[u] = b
  BY <1>1, <1>2, <1>4 DEF VInv
<1>9. \A u, z \in valive' : mem'[u] = mem'[z] => u = z \/ mem'[u] = Null
  BY <1>1, <1>2, <1>4, <1>6
<1>10. \A u \in Vec \ valive' : mem'[u] = Null  BY <1>1, <1>2, <1>4 DEF VInv
<1>11. \A u \in Vec : idx'[u] <= size'[u] /\ (mem'[u] = Null => size'[u] = 0)
  BY <1>2, <1>4 DEF VInv
<1>12. cell'[Null] = V!Clean  BY <1>2, <1>4 DEF VInv
<1>13. \A b \in Block \ allocated' : cell'[b] = V!Clean
  BY <1>1, <1>2, <1>4 DEF VInv
<1>14. \A u \in Vec \ {v} : cell'[mem[u]] = cell[mem[u]]
  <2> SUFFICES ASSUME NEW u \in Vec \ {v}  PROVE cell'[mem[u]] = cell[mem[u]]  OBVIOUS
  <2>1. CASE mem[u] = Null /\ mem[v] = Null  BY <2>1, <1>12 DEF VInv
  <2>2. CASE mem[u] # mem[v]  BY <2>2, <1>2, <1>4
  <2>3. CASE mem[u] # Null /\ mem[u] = mem[v]  BY <2>3, <1>1, <1>6 DEF VInv
  <2>4. QED  BY <2>1, <2>2, <2>3
<1>15. \A u \in Vec : \A i \in V!Cells : cell'[mem'[u]][i] # Raw <=> i <= idx'[u]
  <2>1. \A u \in Vec : \A i \in V!Cells : cell[mem[u]][i] # Raw <=> i <= idx[u]  BY DEF VInv
  <2>2. QED  BY <2>1, <1>3, <1>4, <1>12, <1>14
<1>16. VInv'
  BY <1>3, <1>5, <1>7, <1>8, <1>9, <1>10, <1>11, <1>12, <1>13, <1>15 DEF VInv
<1>17. V!Elements(v)' = <<>>
  <2>1. V!Elements(v)' = [i \in 1 .. 0 |-> cell'[mem'[v]][i]]  BY <1>4 DEF V!Elements
  <2>2. QED  BY <2>1
<1>18. \A u \in Vec \ {v} : V!Elements(u)' = V!Elements(u)
  BY <1>4, <1>14, ElementsStay
<1>19. QED  BY <1>16, <1>17, <1>18 DEF Changes, Elems

-----------------------------------------------------------------------------
(* A step of the vectors keeps the invariant, and is a step of VectorSpec  *)
(* or none.                                                                *)
Same == Elems' = Elems /\ size' = size

LEMMA VectorStep ==
  ASSUME VInv, V!Next \/ UNCHANGED vectorVars
  PROVE  VInv' /\ (V!Abstract!Next \/ Same)
<1>0. size \in [Vec -> 0 .. MaxCap]  BY DEF VInv, V!TypeOK
<1>1. CASE UNCHANGED vectorVars
  <2>1. VInv'  BY <1>1 DEF vectorVars, VInv, V!TypeOK, V!Clean, V!Cells
  <2>2. \A u \in Vec : V!Elements(u)' = V!Elements(u)  BY <1>1 DEF vectorVars, V!Elements
  <2>3. QED  BY <1>1, <2>1, <2>2 DEF Elems, Same, vectorVars
<1>2. ASSUME NEW v \in Vec  PROVE Elems[v] = V!Elements(v)  BY DEF Elems
<1>3. ASSUME NEW v \in Vec, V!Default(v)  PROVE VInv' /\ Same
  BY <1>3, DefaultStep DEF Same, V!Default
<1>4. ASSUME NEW v \in Vec, V!PopBack(v)  PROVE VInv' /\ V!Abstract!PopBack(v)
  <2>1. size' = size  BY <1>4 DEF V!PopBack
  <2>2. QED  BY <1>2, <1>4, <2>1, PopBackStep DEF Changes, Elems, V!Abstract!PopBack
<1>5. ASSUME NEW v \in Vec, V!Clear(v)  PROVE VInv' /\ V!Abstract!Clear(v)
  <2>1. size' = size  BY <1>5 DEF V!Clear
  <2>2. QED  BY <1>5, <2>1, ClearStep DEF Changes, Elems, V!Abstract!Clear
<1>6. ASSUME NEW v \in Vec, V!Destroy(v)  PROVE VInv' /\ V!Abstract!Destroy(v)
  <2>1. size' = [size EXCEPT ![v] = 0]  BY <1>6 DEF V!Destroy
  <2>2. QED  BY <1>6, <2>1, DestroyStep DEF Changes, Elems, V!Abstract!Destroy
<1>7. ASSUME NEW v \in Vec, NEW w \in Vec, V!Swap(v, w)  PROVE VInv' /\ V!Abstract!Swap(v, w)
  <2>1. V!Abstract!Exchange(v, w)  BY <1>7 DEF V!Swap, V!Abstract!Exchange
  <2>2. QED  BY <1>2, <1>7, <2>1, SwapStep DEF Elems, V!Abstract!Swap
<1>8. ASSUME NEW v \in Vec, NEW w \in Vec, V!MoveAssign(v, w)  PROVE VInv' /\ V!Abstract!Move(v, w)
  <2>1. V!Abstract!Exchange(v, w)  BY <1>8 DEF V!MoveAssign, V!Abstract!Exchange
  <2>2. QED  BY <1>2, <1>8, <2>1, MoveAssignStep DEF Elems, V!Abstract!Move
<1>9. ASSUME NEW v \in Vec, NEW w \in Vec, V!MoveConstruct(v, w)  PROVE VInv' /\ V!Abstract!Move(v, w)
  <2>1. v \notin valive /\ size' = [size EXCEPT ![v] = size[w], ![w] = 0]
    BY <1>9 DEF V!MoveConstruct
  <2>2. size[v] = 0  BY <2>1 DEF VInv
  <2>3. V!Abstract!Exchange(v, w)  BY <2>1, <2>2 DEF V!Abstract!Exchange
  <2>4. QED  BY <1>2, <1>9, <2>3, MoveConstructStep DEF Elems, V!Abstract!Move
<1>10. ASSUME NEW v \in Vec, NEW b, NEW arg \in V!Arguments(v, idx[v] + 1), V!PushBack(v, arg, b)
       PROVE  VInv' /\ V!Abstract!Next
  <2>1. PICK m : m = Len(Elems[v]) + 1  OBVIOUS
  <2>2. m = idx[v] + 1  BY <1>2, <2>1, ElementsType
  <2>3. arg \subseteq V!Elem /\ arg \in V!Abstract!Arguments(v, m)
    BY <1>10, <2>2, ArgumentsStep
  <2>4. VInv' /\ V!Abstract!PushBack(v, arg)  BY <1>10, <2>3, PushBackStep
  <2>5. QED  BY <2>1, <2>3, <2>4 DEF V!Abstract!Next, Elems
<1>11. ASSUME NEW v \in Vec, NEW n \in 0 .. MaxLen, NEW b, V!Reserve(v, n, b)
       PROVE  VInv' /\ V!Abstract!Next
  <2>1. VInv' /\ V!Abstract!Reserve(v, n)  BY <1>11, ReserveStep
  <2>2. QED  BY <2>1 DEF V!Abstract!Next
<1>12. ASSUME NEW v \in Vec, NEW n \in 0 .. MaxLen, NEW b, NEW arg \in V!Arguments(v, n),
              V!Construct(v, n, arg, b) \/ V!Resize(v, n, arg, b)
       PROVE  VInv' /\ V!Abstract!Next
  <2>1. arg \subseteq V!Elem /\ arg \in V!Abstract!Arguments(v, n)  BY ArgumentsStep
  <2>2. VInv' /\ (V!Abstract!Construct(v, n, arg) \/ V!Abstract!Resize(v, n, arg))
    BY <1>12, <2>1, ConstructStep, ResizeStep
  <2>3. QED  BY <2>1, <2>2 DEF V!Abstract!Next
<1>13. ASSUME NEW v \in Vec, NEW w \in Vec, NEW b, V!CopyAssign(v, w, b) \/ V!CopyConstruct(v, w, b)
       PROVE  VInv' /\ V!Abstract!Next
  <2>1. VInv' /\ V!Abstract!Copy(v, w)  BY <1>13, CopyAssignStep, CopyConstructStep
  <2>2. QED  BY <2>1 DEF V!Abstract!Next
<1>14. CASE V!Next
  <2>1. PICK v \in Vec :
          \/ V!Default(v) \/ V!PopBack(v) \/ V!Clear(v) \/ V!Destroy(v)
          \/ \E w \in Vec : V!Swap(v, w) \/ V!MoveAssign(v, w) \/ V!MoveConstruct(v, w)
          \/ \E b \in Block \cup {Null} :
               \/ \E arg \in V!Arguments(v, idx[v] + 1) : V!PushBack(v, arg, b)
               \/ \E n \in 0 .. MaxLen :
                    \/ V!Reserve(v, n, b)
                    \/ \E arg \in V!Arguments(v, n) :
                         V!Construct(v, n, arg, b) \/ V!Resize(v, n, arg, b)
               \/ \E w \in Vec : V!CopyAssign(v, w, b) \/ V!CopyConstruct(v, w, b)
    BY <1>14 DEF V!Next
  <2>2. CASE V!Default(v) \/ V!PopBack(v) \/ V!Clear(v) \/ V!Destroy(v)
    BY <2>2, <1>3, <1>4, <1>5, <1>6 DEF V!Abstract!Next
  <2>3. ASSUME NEW w \in Vec, V!Swap(v, w) \/ V!MoveAssign(v, w) \/ V!MoveConstruct(v, w)
        PROVE  VInv' /\ V!Abstract!Next
    BY <2>3, <1>7, <1>8, <1>9 DEF V!Abstract!Next
  <2>4. QED  BY <2>1, <2>2, <2>3, <1>10, <1>11, <1>12, <1>13
<1>15. QED  BY <1>1, <1>14

LEMMA StepVInv == VInv /\ [AllNext]_allVars => VInv' /\ (V!Abstract!Next \/ Same)
<1> SUFFICES ASSUME VInv, [AllNext]_allVars  PROVE VInv' /\ (V!Abstract!Next \/ Same)
  OBVIOUS
<1>1. V!Next \/ UNCHANGED vectorVars  BY DEF AllNext, allVars
<1>2. QED  BY <1>1, VectorStep

(* Whatever the vectors are made to do, every block allocated is owned by  *)
(* exactly one of them, and an element is alive in exactly the cells it    *)
(* counts: nothing leaks, is freed or destroyed twice, or is constructed   *)
(* over a live element or behind the end of its block.                     *)
THEOREM VectorHeapCorrect == AllSpec => []VectorHeapRight
<1>1. VInv => VectorHeapRight
  <2> SUFFICES ASSUME VInv  PROVE V!BlocksOwnedOnce
    BY DEF VInv, VectorHeapRight
  <2>1. valive \subseteq Vec /\ allocated \subseteq Block  BY DEF VInv, V!TypeOK
  <2>2. allocated = {mem[v] : v \in valive} \ {Null}
    <3>1. \A b \in allocated : b # Null  BY <2>1, VectorAssumption
    <3>2. QED  BY <3>1 DEF VInv
  <2>3. ASSUME NEW b \in Block, NEW i \in V!Cells
        PROVE  cell[b][i] # Raw <=> \E v \in valive : mem[v] = b /\ i <= idx[v]
    <3>1. CASE b \in allocated
      <4>1. PICK v \in valive : mem[v] = b  BY <3>1 DEF VInv
      <4>2. cell[b][i] # Raw <=> i <= idx[v]  BY <4>1, <2>1 DEF VInv
      <4>3. \A u \in valive : mem[u] = b => u = v  BY <4>1, VectorAssumption DEF VInv
      <4>4. QED  BY <4>1, <4>2, <4>3
    <3>2. CASE b \notin allocated
      <4>1. cell[b][i] = Raw  BY <3>2 DEF VInv, V!Clean
      <4>2. \A u \in valive : mem[u] # b  BY <3>2, VectorAssumption DEF VInv
      <4>3. QED  BY <4>1, <4>2
    <3>3. QED  BY <3>1, <3>2
  <2>4. QED  BY <2>2, <2>3 DEF VInv, V!BlocksOwnedOnce
<1>2. AllInit => VInv  BY InitVInv
<1>3. VInv /\ [AllNext]_allVars => VInv'  BY StepVInv
<1>4. QED  BY <1>1, <1>2, <1>3, PTL DEF AllSpec

(* Every method does to the contents and the capacity what VectorSpec      *)
(* says, whatever it allocates, moves and destroys for it; only an element *)
(* pushed into its own vector when that has to grow may come out as junk.  *)
THEOREM VectorImplementsSpec == AllSpec => ImplementsVectorSpec
<1>1. AllInit => V!Abstract!Init
  BY InitVInv DEF Elems, V!Abstract!Init, AllInit, V!Init
<1>2. VInv /\ [AllNext]_allVars => [V!Abstract!Next]_V!Abstract!vars
  BY StepVInv DEF Same, V!Abstract!vars, Elems
<1>3. AllInit => VInv  BY InitVInv
<1>4. VInv /\ [AllNext]_allVars => VInv'  BY StepVInv
<1>5. QED
  BY <1>1, <1>2, <1>3, <1>4, PTL DEF AllSpec, ImplementsVectorSpec, V!ImplementsVectorSpec, V!Abstract!Spec

(***************************************************************************)
(* List.  Each list stands for a sequence of nodes, linked by left and     *)
(* right; no node is in two of them or twice in one, and the nodes         *)
(* allocated are those in some.                                            *)
(***************************************************************************)
Members(s) == {s[j] : j \in 1 .. Len(s)}
First(s) == IF s = <<>> THEN Null ELSE s[1]
Final(s) == IF s = <<>> THEN Null ELSE s[Len(s)]
Before(s, j) == IF j = 1 THEN Null ELSE s[j - 1]
After(s, j) == IF j = Len(s) THEN Null ELSE s[j + 1]
Once(s) == \A j, k \in 1 .. Len(s) : s[j] = s[k] => j = k

Linked(s, L, R) ==
  /\ s \in Seq(Node) /\ Once(s)
  /\ \A j \in 1 .. Len(s) : L[s[j]] = Before(s, j) /\ R[s[j]] = After(s, j)

With(f, x, y) == [f EXCEPT ![x] = y]

Link == [Node -> Pointer]
Holds(S, A, H, T, P, L, R) ==
  /\ S \in [List -> Seq(Node)]
  /\ \A l \in List : /\ Linked(S[l], L, R) /\ H[l] = First(S[l]) /\ T[l] = Final(S[l])
                     /\ l \notin A => S[l] = <<>>
  /\ \A l, m \in List : l # m => Members(S[l]) \cap Members(S[m]) = {}
  /\ \A n : n \in P <=> \E l \in List : n \in Members(S[l])

ListTyped(A, H, T, P, L, R, u) ==
  /\ A \subseteq List /\ P \subseteq Node /\ H \in [List -> Pointer] /\ T \in [List -> Pointer]
  /\ L \in Link /\ R \in Link /\ u \in [Node -> Value]

(* The elements a sequence of nodes stands for.                            *)
Mapped(s, u) == [j \in 1 .. Len(s) |-> u[s[j]]]
Contents(S, u) == [l \in List |-> Mapped(S[l], u)]

-----------------------------------------------------------------------------
(* What the methods do to a sequence of nodes.                             *)
LEMMA EndsIn ==
  ASSUME NEW s \in Seq(Node)
  PROVE  /\ Members(s) \subseteq Node /\ (s = <<>> <=> Members(s) = {})
         /\ First(s) \in Pointer /\ Final(s) \in Pointer
         /\ s # <<>> => First(s) \in Members(s) /\ Final(s) \in Members(s) /\ Len(s) >= 1
         /\ s = <<>> <=> First(s) = Null
         /\ s = <<>> <=> Final(s) = Null
<1>1. Len(s) \in Nat /\ DOMAIN s = 1 .. Len(s) /\ \A j \in 1 .. Len(s) : s[j] \in Node  OBVIOUS
<1>2. s # <<>> => Len(s) >= 1 /\ 1 \in 1 .. Len(s) /\ Len(s) \in 1 .. Len(s)  BY <1>1
<1>3. s = <<>> => Len(s) = 0  OBVIOUS
<1>4. Members(s) \subseteq Node  BY <1>1 DEF Members
<1>5. s # <<>> => s[1] \in Members(s) /\ s[Len(s)] \in Members(s)  BY <1>2 DEF Members
<1>6. s = <<>> => Members(s) = {}  BY <1>3 DEF Members
<1>7. QED  BY <1>2, <1>4, <1>5, <1>6, NodeAssumption DEF First, Final, Pointer

LEMMA AppendLinked ==
  ASSUME NEW L \in Link, NEW R \in Link, NEW s, Linked(s, L, R), NEW n \in Node \ Members(s),
         NEW K \in Link, NEW Q \in Link, K = With(L, n, Final(s)),
         Q[n] = Null, \A x \in Node \ {n} : Q[x] = IF x = Final(s) THEN n ELSE R[x]
  PROVE  /\ Linked(Append(s, n), K, Q) /\ Members(Append(s, n)) = Members(s) \cup {n}
         /\ First(Append(s, n)) = (IF s = <<>> THEN n ELSE First(s)) /\ Final(Append(s, n)) = n
<1>1. /\ s \in Seq(Node) /\ Once(s)
      /\ \A j \in 1 .. Len(s) : L[s[j]] = Before(s, j) /\ R[s[j]] = After(s, j)
  BY DEF Linked
<1>2. PICK t, d : t = Append(s, n) /\ d = Len(s)  OBVIOUS
<1>3. /\ t \in Seq(Node) /\ d \in Nat /\ Len(t) = d + 1 /\ t[d + 1] = n /\ t # <<>>
      /\ \A j \in 1 .. d : t[j] = s[j] /\ s[j] \in Members(s) /\ s[j] # n /\ s[j] \in Node
  BY <1>1, <1>2 DEF Members
<1>4. \A j \in 1 .. d + 1 : j = d + 1 \/ j \in 1 .. d  BY <1>3
<1>5. Once(t)
  BY <1>1, <1>2, <1>3, <1>4 DEF Once
<1>6. ASSUME NEW j \in 1 .. d  PROVE K[t[j]] = Before(t, j) /\ Q[t[j]] = After(t, j)
  <2>1. K[t[j]] = L[s[j]]  BY <1>3 DEF Link, With
  <2>2. Before(t, j) = Before(s, j)
    <3>1. j # 1 => j - 1 \in 1 .. d  BY <1>3
    <3>2. QED  BY <3>1, <1>3 DEF Before
  <2>3. CASE j = d
    <3>1. s[j] = Final(s) /\ After(t, j) = n  BY <2>3, <1>2, <1>3 DEF Final, After
    <3>2. QED  BY <3>1, <2>1, <2>2, <1>1, <1>2, <1>3
  <2>4. CASE j # d
    <3>1. j + 1 \in 1 .. d /\ d \in 1 .. d  BY <2>4, <1>3
    <3>2. s[j] # Final(s)  BY <3>1, <2>4, <1>1, <1>2 DEF Final, Once
    <3>3. After(t, j) = After(s, j)  BY <3>1, <2>4, <1>2, <1>3 DEF After
    <3>4. QED  BY <3>2, <3>3, <2>1, <2>2, <1>1, <1>2, <1>3
  <2>5. QED  BY <2>3, <2>4
<1>7. K[n] = Before(t, d + 1) /\ Q[n] = After(t, d + 1)
  <2>1. After(t, d + 1) = Null  BY <1>3 DEF After
  <2>2. Before(t, d + 1) = Final(s)
    <3>1. CASE d = 0
      <4>1. s = <<>>  BY <3>1, <1>1, <1>2
      <4>2. QED  BY <3>1, <4>1 DEF Before, Final
    <3>2. CASE d # 0
      <4>1. d \in 1 .. d /\ d + 1 # 1 /\ d + 1 - 1 = d /\ s # <<>>  BY <3>2, <1>1, <1>2, <1>3
      <4>2. QED  BY <4>1, <1>2, <1>3 DEF Before, Final
    <3>3. QED  BY <3>1, <3>2
  <2>3. QED  BY <2>1, <2>2 DEF Link, With
<1>8. Linked(t, K, Q)  BY <1>3, <1>4, <1>5, <1>6, <1>7 DEF Linked
<1>9. Members(t) = Members(s) \cup {n}
  <2>1. ASSUME NEW x \in Members(t)  PROVE x \in Members(s) \cup {n}
    <3>1. PICK j \in 1 .. d + 1 : x = t[j]  BY <1>3 DEF Members
    <3>2. QED  BY <3>1, <1>3, <1>4
  <2>2. n \in Members(t)
    <3>1. d + 1 \in 1 .. Len(t)  BY <1>3
    <3>2. QED  BY <3>1, <1>3 DEF Members
  <2>3. ASSUME NEW x \in Members(s)  PROVE x \in Members(t)
    <3>1. PICK j \in 1 .. d : x = s[j]  BY <1>2 DEF Members
    <3>2. j \in 1 .. Len(t) /\ x = t[j]  BY <3>1, <1>3
    <3>3. QED  BY <3>2 DEF Members
  <2>4. QED  BY <2>1, <2>2, <2>3
<1>10. First(t) = IF s = <<>> THEN n ELSE First(s)
  <2>1. s = <<>> => d = 0  BY <1>2
  <2>2. s # <<>> => 1 \in 1 .. d  BY <1>1, <1>2
  <2>3. QED  BY <2>1, <2>2, <1>3 DEF First
<1>11. Final(t) = n  BY <1>3 DEF Final
<1>12. QED  BY <1>2, <1>8, <1>9, <1>10, <1>11

LEMMA PrependLinked ==
  ASSUME NEW L \in Link, NEW R \in Link, NEW s, Linked(s, L, R), NEW n \in Node \ Members(s),
         NEW K \in Link, NEW Q \in Link, Q = With(R, n, First(s)),
         K[n] = Null, \A x \in Node \ {n} : K[x] = IF x = First(s) THEN n ELSE L[x]
  PROVE  /\ Linked(<<n>> \o s, K, Q) /\ Members(<<n>> \o s) = Members(s) \cup {n}
         /\ Final(<<n>> \o s) = (IF s = <<>> THEN n ELSE Final(s)) /\ First(<<n>> \o s) = n
<1>1. /\ s \in Seq(Node) /\ Once(s)
      /\ \A j \in 1 .. Len(s) : L[s[j]] = Before(s, j) /\ R[s[j]] = After(s, j)
  BY DEF Linked
<1>2. PICK t, d : t = <<n>> \o s /\ d = Len(s)  OBVIOUS
<1>3. /\ t \in Seq(Node) /\ d \in Nat /\ Len(t) = d + 1 /\ t[1] = n /\ t # <<>>
      /\ \A j \in 1 .. d : t[j + 1] = s[j]
  <2>1. <<n>> \in Seq(Node) /\ Len(<<n>>) = 1 /\ <<n>>[1] = n  OBVIOUS
  <2>2. t \in Seq(Node) /\ Len(t) = 1 + d /\ d \in Nat  BY <2>1, <1>1, <1>2
  <2>3. t[1] = n /\ \A j \in 1 .. d : t[j + 1] = s[j]
    BY <2>1, <2>2, <1>1, <1>2
  <2>4. QED  BY <2>2, <2>3
<1>4. \A j \in 1 .. d : s[j] \in Members(s) /\ s[j] # n /\ s[j] \in Node  BY <1>1, <1>2 DEF Members
<1>5. \A j \in 1 .. d + 1 : j = 1 \/ (j # 1 /\ j - 1 \in 1 .. d /\ t[j] = s[j - 1])  BY <1>3
<1>6. Once(t)
  <2> SUFFICES ASSUME NEW j \in 1 .. d + 1, NEW k \in 1 .. d + 1, t[j] = t[k]  PROVE j = k
    BY <1>3 DEF Once
  <2>1. CASE j = 1 /\ k = 1  BY <2>1
  <2>2. CASE j # 1 /\ k # 1
    <3>1. j - 1 = k - 1  BY <2>2, <1>1, <1>2, <1>5 DEF Once
    <3>2. QED  BY <3>1
  <2>3. CASE (j = 1 /\ k # 1) \/ (j # 1 /\ k = 1)  BY <2>3, <1>3, <1>4, <1>5
  <2>4. QED  BY <2>1, <2>2, <2>3
<1>7. ASSUME NEW j \in 1 .. d + 1, j # 1  PROVE K[t[j]] = Before(t, j) /\ Q[t[j]] = After(t, j)
  <2>1. PICK k \in 1 .. d : k = j - 1 /\ t[j] = s[k] /\ j = k + 1  BY <1>3, <1>5, <1>7
  <2>2. Q[t[j]] = R[s[k]]  BY <2>1, <1>4 DEF Link, With
  <2>3. After(t, j) = After(s, k)
    <3>1. k # d => k + 1 \in 1 .. d  BY <1>3
    <3>2. QED  BY <2>1, <3>1, <1>2, <1>3 DEF After
  <2>4. CASE k = 1
    <3>1. s[k] = First(s) /\ Before(t, j) = n
      <4>1. s # <<>> /\ j = 2 /\ j - 1 = 1  BY <2>1, <2>4, <1>2, <1>3
      <4>2. QED  BY <4>1, <2>4, <1>3 DEF First, Before
    <3>2. QED  BY <3>1, <2>1, <2>2, <2>3, <1>1, <1>2, <1>4
  <2>5. CASE k # 1
    <3>1. k - 1 \in 1 .. d /\ 1 \in 1 .. d /\ j - 1 = k /\ t[k] = s[k - 1]  BY <2>1, <2>5, <1>3, <1>5
    <3>2. s[k] # First(s)
      <4>1. s # <<>>  BY <2>1, <1>2, <1>3
      <4>2. s[k] # s[1]  BY <3>1, <2>1, <2>5, <1>1, <1>2 DEF Once
      <4>3. QED  BY <4>1, <4>2 DEF First
    <3>3. Before(t, j) = Before(s, k)  BY <2>1, <3>1, <2>5, <1>7 DEF Before
    <3>4. QED  BY <3>2, <3>3, <2>1, <2>2, <2>3, <1>1, <1>2, <1>4
  <2>6. QED  BY <2>4, <2>5
<1>8. K[n] = Before(t, 1) /\ Q[n] = After(t, 1)
  <2>1. Before(t, 1) = Null  BY DEF Before
  <2>2. After(t, 1) = First(s)
    <3>1. CASE d = 0
      <4>1. s = <<>>  BY <3>1, <1>1, <1>2
      <4>2. QED  BY <3>1, <4>1, <1>3 DEF After, First
    <3>2. CASE d # 0
      <4>1. 1 \in 1 .. d /\ d + 1 # 1 /\ s # <<>>  BY <3>2, <1>1, <1>2, <1>3
      <4>2. QED  BY <4>1, <1>2, <1>3 DEF After, First
    <3>3. QED  BY <3>1, <3>2
  <2>3. QED  BY <2>1, <2>2 DEF Link, With
<1>9. Linked(t, K, Q)  BY <1>3, <1>6, <1>7, <1>8 DEF Linked
<1>10. Members(t) = Members(s) \cup {n}
  <2>1. ASSUME NEW x \in Members(t)  PROVE x \in Members(s) \cup {n}
    <3>1. PICK j \in 1 .. d + 1 : x = t[j]  BY <1>3 DEF Members
    <3>2. QED  BY <3>1, <1>3, <1>4, <1>5
  <2>2. n \in Members(t)
    <3>1. 1 \in 1 .. Len(t)  BY <1>3
    <3>2. QED  BY <3>1, <1>3 DEF Members
  <2>3. ASSUME NEW x \in Members(s)  PROVE x \in Members(t)
    <3>1. PICK j \in 1 .. d : x = s[j]  BY <1>2 DEF Members
    <3>2. j + 1 \in 1 .. Len(t) /\ x = t[j + 1]  BY <3>1, <1>3
    <3>3. QED  BY <3>2 DEF Members
  <2>4. QED  BY <2>1, <2>2, <2>3
<1>11. Final(t) = IF s = <<>> THEN n ELSE Final(s)
  <2>1. s = <<>> => d = 0  BY <1>2
  <2>2. s # <<>> => d \in 1 .. d /\ t[d + 1] = s[d]  BY <1>1, <1>2, <1>3
  <2>3. QED  BY <2>1, <2>2, <1>2, <1>3 DEF Final
<1>12. First(t) = n  BY <1>3 DEF First
<1>13. QED  BY <1>2, <1>9, <1>10, <1>11, <1>12

LEMMA TailLinked ==
  ASSUME NEW L \in Link, NEW R \in Link, NEW s, Linked(s, L, R), s # <<>>,
         NEW c, c = R[First(s)],
         NEW K \in Link, \A x \in Node : K[x] = IF x = c THEN Null ELSE L[x]
  PROVE  /\ Linked(Tail(s), K, R) /\ Members(Tail(s)) = Members(s) \ {First(s)}
         /\ First(Tail(s)) = c /\ Final(Tail(s)) = (IF c = Null THEN Null ELSE Final(s))
<1>1. /\ s \in Seq(Node) /\ Once(s)
      /\ \A j \in 1 .. Len(s) : L[s[j]] = Before(s, j) /\ R[s[j]] = After(s, j)
  BY DEF Linked
<1>2. PICK t, d : t = Tail(s) /\ d = Len(t)  OBVIOUS
<1>3. /\ t \in Seq(Node) /\ d \in Nat /\ Len(s) = d + 1 /\ Len(t) = d
      /\ \A j \in 1 .. d : t[j] = s[j + 1] /\ j + 1 \in 1 .. d + 1 /\ t[j] \in Node
  BY <1>1, <1>2
<1>4. /\ 1 \in 1 .. d + 1 /\ First(s) = s[1] /\ d + 1 \in 1 .. d + 1 /\ Final(s) = s[d + 1]
      /\ \A j \in 1 .. d + 1 : s[j] \in Node
      /\ \A j \in 1 .. d + 1 : j = 1 \/ (j - 1 \in 1 .. d /\ s[j] = t[j - 1])
  BY <1>1, <1>3 DEF First, Final
<1>5. c = IF d = 0 THEN Null ELSE t[1]
  <2>1. c = After(s, 1)  BY <1>1, <1>3, <1>4
  <2>2. CASE d = 0  BY <2>1, <2>2, <1>3 DEF After
  <2>3. CASE d # 0
    <3>1. 1 \in 1 .. d /\ 1 # d + 1  BY <2>3, <1>3
    <3>2. QED  BY <3>1, <2>1, <2>3, <1>3 DEF After
  <2>4. QED  BY <2>2, <2>3
<1>6. d = 0 <=> c = Null
  <2>1. d # 0 => 1 \in 1 .. d /\ t[1] \in Node  BY <1>3
  <2>2. QED  BY <2>1, <1>5, NodeAssumption
<1>7. Once(t)
  <2> SUFFICES ASSUME NEW j \in 1 .. d, NEW k \in 1 .. d, t[j] = t[k]  PROVE j = k
    BY <1>2 DEF Once
  <2>1. j + 1 = k + 1  BY <1>1, <1>3 DEF Once
  <2>2. QED  BY <2>1
<1>8. ASSUME NEW j \in 1 .. d  PROVE K[t[j]] = Before(t, j) /\ R[t[j]] = After(t, j)
  <2>1. t[j] = s[j + 1] /\ j + 1 \in 1 .. d + 1 /\ t[j] \in Node /\ 1 \in 1 .. d /\ d # 0
    BY <1>3
  <2>2. L[t[j]] = Before(s, j + 1) /\ R[t[j]] = After(s, j + 1)  BY <2>1, <1>1, <1>3
  <2>3. After(s, j + 1) = After(t, j)
    <3>1. j # d => j + 1 \in 1 .. d /\ t[j + 1] = s[(j + 1) + 1]  BY <1>3
    <3>2. j + 1 = d + 1 <=> j = d  BY <1>3
    <3>3. QED  BY <3>1, <3>2, <1>3 DEF After
  <2>4. CASE j = 1  BY <2>1, <2>2, <2>3, <2>4, <1>5 DEF Before
  <2>5. CASE j # 1
    <3>1. j - 1 \in 1 .. d /\ j - 1 + 1 = j /\ j + 1 # 1 /\ j + 1 - 1 = j  BY <2>5, <1>3
    <3>2. Before(s, j + 1) = Before(t, j)  BY <3>1, <2>5, <1>3 DEF Before
    <3>3. t[j] # c  BY <2>1, <2>5, <1>2, <1>5, <1>7 DEF Once
    <3>4. QED  BY <3>2, <3>3, <2>1, <2>2, <2>3
  <2>6. QED  BY <2>4, <2>5
<1>9. Linked(t, K, R)  BY <1>2, <1>3, <1>7, <1>8 DEF Linked
<1>10. Members(t) = Members(s) \ {First(s)}
  <2>1. ASSUME NEW x \in Members(t)  PROVE x \in Members(s) /\ x # First(s)
    <3>1. PICK j \in 1 .. d : x = t[j]  BY <1>2 DEF Members
    <3>2. x = s[j + 1] /\ j + 1 \in 1 .. Len(s) /\ j + 1 # 1 /\ 1 \in 1 .. Len(s)  BY <3>1, <1>3
    <3>3. x # s[1]  BY <3>2, <1>1 DEF Once
    <3>4. QED  BY <3>2, <3>3, <1>4 DEF Members
  <2>2. ASSUME NEW x \in Members(s), x # First(s)  PROVE x \in Members(t)
    <3>1. PICK j \in 1 .. d + 1 : x = s[j]  BY <1>3 DEF Members
    <3>2. j - 1 \in 1 .. Len(t) /\ x = t[j - 1]  BY <3>1, <2>2, <1>2, <1>4
    <3>3. QED  BY <3>2 DEF Members
  <2>3. QED  BY <2>1, <2>2
<1>11. t = <<>> <=> d = 0  BY <1>3
<1>12. First(t) = c  BY <1>5, <1>11 DEF First
<1>13. Final(t) = IF c = Null THEN Null ELSE Final(s)
  <2>1. d # 0 => d \in 1 .. d  BY <1>3
  <2>2. QED  BY <2>1, <1>2, <1>3, <1>4, <1>6, <1>11 DEF Final
<1>14. QED  BY <1>2, <1>9, <1>10, <1>12, <1>13

Front(s) == SubSeq(s, 1, Len(s) - 1)

LEMMA FrontLinked ==
  ASSUME NEW L \in Link, NEW R \in Link, NEW s, Linked(s, L, R), s # <<>>,
         NEW c, c = L[Final(s)],
         NEW Q \in Link, \A x \in Node : Q[x] = IF x = c THEN Null ELSE R[x]
  PROVE  /\ Linked(Front(s), L, Q) /\ Members(Front(s)) = Members(s) \ {Final(s)}
         /\ Final(Front(s)) = c /\ First(Front(s)) = (IF c = Null THEN Null ELSE First(s))
<1>1. /\ s \in Seq(Node) /\ Once(s)
      /\ \A j \in 1 .. Len(s) : L[s[j]] = Before(s, j) /\ R[s[j]] = After(s, j)
  BY DEF Linked
<1>2. PICK t, d : t = Front(s) /\ d = Len(s) - 1  OBVIOUS
<1>3. /\ t \in Seq(Node) /\ d \in Nat /\ Len(s) = d + 1 /\ Len(t) = d
      /\ \A j \in 1 .. d : t[j] = s[j] /\ j \in 1 .. d + 1 /\ t[j] \in Node
  <2>1. Len(s) \in Nat /\ Len(s) >= 1  BY <1>1
  <2>2. t = SubSeq(s, 1, d) /\ d \in Nat /\ Len(s) = d + 1  BY <2>1, <1>2 DEF Front
  <2>3. QED  BY <2>2, <1>1
<1>4. /\ 1 \in 1 .. d + 1 /\ First(s) = s[1] /\ d + 1 \in 1 .. d + 1 /\ Final(s) = s[d + 1]
      /\ \A j \in 1 .. d + 1 : s[j] \in Node
      /\ \A j \in 1 .. d + 1 : j = d + 1 \/ (j \in 1 .. d /\ s[j] = t[j])
  BY <1>1, <1>3 DEF First, Final
<1>5. c = IF d = 0 THEN Null ELSE t[d]
  <2>1. c = Before(s, d + 1)  BY <1>1, <1>3, <1>4
  <2>2. CASE d = 0  BY <2>1, <2>2 DEF Before
  <2>3. CASE d # 0
    <3>1. d \in 1 .. d /\ 1 # d + 1 /\ d + 1 - 1 = d  BY <2>3, <1>3
    <3>2. QED  BY <3>1, <2>1, <2>3, <1>3 DEF Before
  <2>4. QED  BY <2>2, <2>3
<1>6. d = 0 <=> c = Null
  <2>1. d # 0 => d \in 1 .. d /\ t[d] \in Node  BY <1>3
  <2>2. QED  BY <2>1, <1>5, NodeAssumption
<1>7. Once(t)  BY <1>1, <1>3 DEF Once
<1>8. ASSUME NEW j \in 1 .. d  PROVE L[t[j]] = Before(t, j) /\ Q[t[j]] = After(t, j)
  <2>1. t[j] = s[j] /\ j \in 1 .. d + 1 /\ t[j] \in Node /\ d \in 1 .. d /\ d # 0
    BY <1>3
  <2>2. L[t[j]] = Before(s, j) /\ R[t[j]] = After(s, j)  BY <2>1, <1>1, <1>3
  <2>3. Before(s, j) = Before(t, j)
    <3>1. j # 1 => j - 1 \in 1 .. d  BY <1>3
    <3>2. QED  BY <3>1, <1>3 DEF Before
  <2>4. CASE j = d  BY <2>1, <2>2, <2>3, <2>4, <1>3, <1>5 DEF After
  <2>5. CASE j # d
    <3>1. j + 1 \in 1 .. d /\ j # d + 1  BY <2>5, <1>3
    <3>2. After(s, j) = After(t, j)  BY <3>1, <2>5, <1>3 DEF After
    <3>3. t[j] # c  BY <2>1, <2>5, <1>3, <1>5, <1>7 DEF Once
    <3>4. QED  BY <3>2, <3>3, <2>1, <2>2, <2>3
  <2>6. QED  BY <2>4, <2>5
<1>9. Linked(t, L, Q)  BY <1>3, <1>7, <1>8 DEF Linked
<1>10. Members(t) = Members(s) \ {Final(s)}
  <2>1. ASSUME NEW x \in Members(t)  PROVE x \in Members(s) /\ x # Final(s)
    <3>1. PICK j \in 1 .. d : x = t[j]  BY <1>3 DEF Members
    <3>2. x = s[j] /\ j \in 1 .. Len(s) /\ j # d + 1 /\ d + 1 \in 1 .. Len(s)  BY <3>1, <1>3
    <3>3. x # s[d + 1]  BY <3>2, <1>1 DEF Once
    <3>4. QED  BY <3>2, <3>3, <1>4 DEF Members
  <2>2. ASSUME NEW x \in Members(s), x # Final(s)  PROVE x \in Members(t)
    <3>1. PICK j \in 1 .. d + 1 : x = s[j]  BY <1>3 DEF Members
    <3>2. j \in 1 .. Len(t) /\ x = t[j]  BY <3>1, <2>2, <1>3, <1>4
    <3>3. QED  BY <3>2 DEF Members
  <2>3. QED  BY <2>1, <2>2
<1>11. t = <<>> <=> d = 0  BY <1>3
<1>12. Final(t) = c  BY <1>3, <1>5, <1>11 DEF Final
<1>13. First(t) = IF c = Null THEN Null ELSE First(s)
  <2>1. d # 0 => 1 \in 1 .. d  BY <1>3
  <2>2. QED  BY <2>1, <1>3, <1>4, <1>6, <1>11 DEF First
<1>14. QED  BY <1>2, <1>9, <1>10, <1>12, <1>13

LEMMA JoinLinked ==
  ASSUME NEW L \in Link, NEW R \in Link, NEW s, NEW t, Linked(s, L, R), Linked(t, L, R),
         s # <<>>, t # <<>>, Members(s) \cap Members(t) = {},
         NEW K \in Link, K = With(L, First(t), Final(s)),
         NEW Q \in Link, Q = With(R, Final(s), First(t))
  PROVE  /\ Linked(s \o t, K, Q) /\ Members(s \o t) = Members(s) \cup Members(t)
         /\ First(s \o t) = First(s) /\ Final(s \o t) = Final(t)
<1>1. /\ s \in Seq(Node) /\ Once(s)
      /\ \A j \in 1 .. Len(s) : L[s[j]] = Before(s, j) /\ R[s[j]] = After(s, j)
      /\ t \in Seq(Node) /\ Once(t)
      /\ \A j \in 1 .. Len(t) : L[t[j]] = Before(t, j) /\ R[t[j]] = After(t, j)
  BY DEF Linked
<1>2. PICK u, a, b : u = s \o t /\ a = Len(s) /\ b = Len(t)  OBVIOUS
<1>3. /\ u \in Seq(Node) /\ a \in Nat /\ b \in Nat /\ Len(u) = a + b /\ a >= 1 /\ b >= 1
      /\ \A j \in 1 .. a : u[j] = s[j] /\ s[j] \in Members(s) /\ s[j] \in Node
      /\ \A j \in 1 .. b : u[a + j] = t[j] /\ t[j] \in Members(t) /\ t[j] \in Node
  <2>1. a \in Nat /\ b \in Nat /\ a >= 1 /\ b >= 1 /\ u \in Seq(Node) /\ Len(u) = a + b
    BY <1>1, <1>2
  <2>2. ASSUME NEW j \in 1 .. a  PROVE u[j] = s[j] /\ s[j] \in Members(s) /\ s[j] \in Node
    BY <2>1, <1>1, <1>2 DEF Members
  <2>3. ASSUME NEW j \in 1 .. b  PROVE u[a + j] = t[j] /\ t[j] \in Members(t) /\ t[j] \in Node
    <3>1. a + j \in 1 .. a + b /\ ~(a + j <= a) /\ a + j - a = j  BY <2>1
    <3>2. u[a + j] = t[j]  BY <3>1, <2>1, <1>1, <1>2
    <3>3. QED  BY <3>2, <2>1, <1>1, <1>2 DEF Members
  <2>4. QED  BY <2>1, <2>2, <2>3
<1>4. /\ 1 \in 1 .. a /\ a \in 1 .. a /\ 1 \in 1 .. b /\ b \in 1 .. b
      /\ First(s) = s[1] /\ Final(s) = s[a] /\ First(t) = t[1] /\ Final(t) = t[b] /\ u # <<>>
  BY <1>2, <1>3 DEF First, Final
<1>5. \A j \in 1 .. a + b : j \in 1 .. a \/ (~(j <= a) /\ j - a \in 1 .. b /\ a + (j - a) = j)
  BY <1>3
<1>6. Once(u)
  <2> SUFFICES ASSUME NEW j \in 1 .. a + b, NEW k \in 1 .. a + b, u[j] = u[k]  PROVE j = k
    BY <1>3 DEF Once
  <2>1. CASE j \in 1 .. a /\ k \in 1 .. a  BY <2>1, <1>1, <1>2, <1>3 DEF Once
  <2>2. CASE j - a \in 1 .. b /\ k - a \in 1 .. b
    <3>1. t[j - a] = t[k - a]  BY <2>2, <1>3, <1>5
    <3>2. j - a = k - a  BY <3>1, <2>2, <1>1, <1>2 DEF Once
    <3>3. QED  BY <3>2, <1>3
  <2>3. CASE j \in 1 .. a /\ k - a \in 1 .. b
    <3>1. PICK i \in 1 .. b : k = a + i  BY <2>3, <1>3
    <3>2. u[j] \in Members(s) /\ u[k] \in Members(t)  BY <3>1, <2>3, <1>3
    <3>3. QED  BY <3>2
  <2>4. CASE j - a \in 1 .. b /\ k \in 1 .. a
    <3>1. PICK i \in 1 .. b : j = a + i  BY <2>4, <1>3
    <3>2. u[k] \in Members(s) /\ u[j] \in Members(t)  BY <3>1, <2>4, <1>3
    <3>3. QED  BY <3>2
  <2>5. QED  BY <2>1, <2>2, <2>3, <2>4, <1>5
<1>7. ASSUME NEW j \in 1 .. a  PROVE K[u[j]] = Before(u, j) /\ Q[u[j]] = After(u, j)
  <2>1. u[j] = s[j] /\ s[j] # First(t) /\ s[j] \in Node /\ L[s[j]] = Before(s, j) /\ R[s[j]] = After(s, j)
    BY <1>1, <1>2, <1>3, <1>4
  <2>2. K[u[j]] = Before(u, j)
    <3>1. j # 1 => j - 1 \in 1 .. a  BY <1>3
    <3>2. Before(u, j) = Before(s, j)  BY <3>1, <1>3 DEF Before
    <3>3. QED  BY <3>2, <2>1 DEF Link, With
  <2>3. Q[u[j]] = After(u, j)
    <3>1. CASE j = a
      <4>1. j # a + b /\ u[a + 1] = t[1]  BY <3>1, <1>3, <1>4
      <4>2. After(u, j) = First(t)  BY <4>1, <3>1, <1>3, <1>4 DEF After
      <4>3. QED  BY <4>2, <3>1, <2>1, <1>4 DEF Link, With
    <3>2. CASE j # a
      <4>1. j + 1 \in 1 .. a /\ j # a + b  BY <3>2, <1>3
      <4>2. After(u, j) = After(s, j)  BY <4>1, <3>2, <1>2, <1>3 DEF After
      <4>3. s[j] # Final(s)  BY <3>2, <1>1, <1>2, <1>4 DEF Once
      <4>4. QED  BY <4>2, <4>3, <2>1 DEF Link, With
    <3>3. QED  BY <3>1, <3>2
  <2>4. QED  BY <2>2, <2>3
<1>8. ASSUME NEW i \in 1 .. b, NEW j, j = a + i  PROVE K[u[j]] = Before(u, j) /\ Q[u[j]] = After(u, j)
  <2>1. u[j] = t[i] /\ t[i] # Final(s) /\ t[i] \in Node /\ L[t[i]] = Before(t, i) /\ R[t[i]] = After(t, i)
    BY <1>1, <1>2, <1>3, <1>4, <1>8
  <2>2. Q[u[j]] = After(u, j)
    <3>1. i # b => i + 1 \in 1 .. b /\ j + 1 = a + (i + 1)  BY <1>3, <1>8
    <3>2. j = a + b <=> i = b  BY <1>3, <1>8
    <3>3. After(u, j) = After(t, i)  BY <3>1, <3>2, <1>2, <1>3 DEF After
    <3>4. QED  BY <3>3, <2>1 DEF Link, With
  <2>3. K[u[j]] = Before(u, j)
    <3>1. CASE i = 1
      <4>1. j # 1 /\ j - 1 = a /\ u[a] = s[a]  BY <3>1, <1>3, <1>4, <1>8
      <4>2. Before(u, j) = Final(s)  BY <4>1, <1>4 DEF Before
      <4>3. QED  BY <4>2, <3>1, <2>1, <1>4 DEF Link, With
    <3>2. CASE i # 1
      <4>1. i - 1 \in 1 .. b /\ j - 1 = a + (i - 1) /\ j # 1  BY <3>2, <1>3, <1>8
      <4>2. Before(u, j) = Before(t, i)  BY <4>1, <3>2, <1>3 DEF Before
      <4>3. t[i] # First(t)  BY <3>2, <1>1, <1>2, <1>4 DEF Once
      <4>4. QED  BY <4>2, <4>3, <2>1 DEF Link, With
    <3>3. QED  BY <3>1, <3>2
  <2>4. QED  BY <2>2, <2>3
<1>9. Linked(u, K, Q)
  <2>1. ASSUME NEW j \in 1 .. a + b  PROVE K[u[j]] = Before(u, j) /\ Q[u[j]] = After(u, j)
    <3>1. CASE j \in 1 .. a  BY <3>1, <1>7
    <3>2. CASE j - a \in 1 .. b /\ a + (j - a) = j
      <4>1. PICK i \in 1 .. b : j = a + i  BY <3>2
      <4>2. QED  BY <4>1, <1>8
    <3>3. QED  BY <3>1, <3>2, <1>5
  <2>2. QED  BY <2>1, <1>3, <1>6 DEF Linked
<1>10. Members(u) = Members(s) \cup Members(t)
  <2>1. ASSUME NEW x \in Members(u)  PROVE x \in Members(s) \cup Members(t)
    <3>1. PICK j \in 1 .. a + b : x = u[j]  BY <1>3 DEF Members
    <3>2. CASE j \in 1 .. a  BY <3>1, <3>2, <1>3
    <3>3. CASE j - a \in 1 .. b /\ a + (j - a) = j
      <4>1. u[a + (j - a)] \in Members(t)  BY <3>3, <1>3
      <4>2. QED  BY <4>1, <3>1, <3>3
    <3>4. QED  BY <3>2, <3>3, <1>5
  <2>2. ASSUME NEW x \in Members(s)  PROVE x \in Members(u)
    <3>1. PICK j \in 1 .. a : x = s[j]  BY <1>2 DEF Members
    <3>2. j \in 1 .. Len(u) /\ x = u[j]  BY <3>1, <1>3
    <3>3. QED  BY <3>2 DEF Members
  <2>3. ASSUME NEW x \in Members(t)  PROVE x \in Members(u)
    <3>1. PICK j \in 1 .. b : x = t[j]  BY <1>2 DEF Members
    <3>2. a + j \in 1 .. Len(u) /\ x = u[a + j]  BY <3>1, <1>3
    <3>3. QED  BY <3>2 DEF Members
  <2>4. QED  BY <2>1, <2>2, <2>3
<1>11. First(u) = First(s) /\ Final(u) = Final(t)  BY <1>3, <1>4 DEF First, Final
<1>12. QED  BY <1>2, <1>9, <1>10, <1>11

-----------------------------------------------------------------------------
(* What a loop over nextNode visits: a sequence that is linked, since one  *)
(* without repetition is no longer than there are nodes.                   *)
Grows(f, next, d) ==
  f = [k \in 0 .. d |->
        [n \in Pointer |-> IF k = 0 \/ n = Null THEN <<>> ELSE <<n>> \o f[k - 1][next[n]]]]

LEMMA LeastNumber ==
  ASSUME NEW S \in SUBSET Nat, S # {}
  PROVE  \E n \in S : \A m \in S : n <= m
<1>1. PICK R : R = OpToRel(<, Nat)  OBVIOUS
<1>2. IsWellFoundedOn(R, Nat)  BY <1>1, NatLessThanWellFounded
<1>3. \E n \in S : \A m \in S : ~(<<m, n>> \in R)
  <2>1. S \subseteq Nat  OBVIOUS
  <2>2. QED  BY <1>2, <2>1, WFMin
<1>4. R = {p \in Nat \X Nat : p[1] < p[2]}  BY <1>1 DEF OpToRel
<1>5. \A m, n \in Nat : <<m, n>> \in R <=> m < n  BY <1>4
<1>6. PICK n \in S : \A m \in S : ~(<<m, n>> \in R)  BY <1>3
<1>7. ASSUME NEW m \in S PROVE n <= m
  <2>1. m \in Nat /\ n \in Nat /\ ~(m < n)  BY <1>5, <1>6
  <2>2. QED  BY <2>1
<1>8. QED  BY <1>7

LEMMA GrowsOnce ==
  ASSUME NEW next, NEW d \in Nat, NEW f, Grows(f, next, d)
  PROVE  \E g : Grows(g, next, d + 1)
<1>1. PICK g : g = [k \in 0 .. d + 1 |->
         [n \in Pointer |-> IF k = 0 \/ n = Null THEN <<>> ELSE <<n>> \o f[k - 1][next[n]]]]
  OBVIOUS
<1>2. \A k \in 0 .. d : k \in 0 .. d + 1 /\ (k # 0 => k - 1 \in 0 .. d)  OBVIOUS
<1>3. \A k \in 0 .. d + 1 : k # 0 => k - 1 \in 0 .. d  OBVIOUS
<1>4. \A k \in 0 .. d : g[k] = f[k]
  <2>1. ASSUME NEW k \in 0 .. d
        PROVE  f[k] = [n \in Pointer |-> IF k = 0 \/ n = Null THEN <<>> ELSE <<n>> \o f[k - 1][next[n]]]
    BY Zenon DEF Grows
  <2>2. QED  BY <2>1, <1>1, <1>2
<1>5. ASSUME NEW k \in 0 .. d + 1
      PROVE  g[k] = [n \in Pointer |-> IF k = 0 \/ n = Null THEN <<>> ELSE <<n>> \o g[k - 1][next[n]]]
  <2>1. CASE k = 0  BY <2>1, <1>1
  <2>2. CASE k # 0
    <3>1. g[k - 1] = f[k - 1]  BY <2>2, <1>3, <1>4
    <3>2. QED  BY <3>1, <1>1
  <2>3. QED  BY <2>1, <2>2
<1>6. g = [k \in 0 .. d + 1 |->
            [n \in Pointer |-> IF k = 0 \/ n = Null THEN <<>> ELSE <<n>> \o g[k - 1][next[n]]]]
  <2>1. g = [k \in 0 .. d + 1 |-> g[k]]  BY <1>1
  <2>2. QED  BY <1>5, <2>1, Zenon
<1>7. Grows(g, next, d + 1)  BY <1>6 DEF Grows
<1>8. QED  BY <1>7

LEMMA FollowGrows ==
  ASSUME NEW next
  PROVE  \E f : Grows(f, next, Cardinality(Node)) /\ Follow(next) = f[Cardinality(Node)]
<1>1. Cardinality(Node) \in Nat  BY NodeAssumption, FS_CardinalityType
<1>2. PICK Bad : Bad = {d \in Nat : ~\E f : Grows(f, next, d)}  OBVIOUS
<1>3. Bad = {}
  <2> SUFFICES ASSUME Bad # {}  PROVE FALSE  OBVIOUS
  <2>1. Bad \in SUBSET Nat  BY <1>2
  <2>2. PICK d \in Bad : \A m \in Bad : d <= m  BY <2>1, LeastNumber
  <2>3. d \in Nat /\ ~\E f : Grows(f, next, d)  BY <1>2
  <2>4. CASE d = 0
    <3>1. PICK f : f = [k \in 0 .. 0 |-> [n \in Pointer |-> <<>>]]  OBVIOUS
    <3>2. \A k \in 0 .. 0 : k = 0  OBVIOUS
    <3>3. Grows(f, next, 0)  BY <3>1, <3>2 DEF Grows
    <3>4. QED  BY <3>3, <2>3, <2>4
  <2>5. CASE d # 0
    <3>1. PICK m \in Nat : d = m + 1
      <4>1. d - 1 \in Nat /\ d = (d - 1) + 1  BY <2>3, <2>5
      <4>2. QED  BY <4>1
    <3>2. m \notin Bad
      <4>1. ~(d <= m)  BY <3>1
      <4>2. QED  BY <4>1, <2>2
    <3>3. PICK f : Grows(f, next, m)  BY <3>2, <1>2
    <3>4. QED  BY <3>1, <3>3, <2>3, GrowsOnce
  <2>6. QED  BY <2>4, <2>5
<1>4. PICK g : Grows(g, next, Cardinality(Node))  BY <1>1, <1>2, <1>3
<1>5. g = [k \in 0 .. Cardinality(Node) |->
            [n \in Pointer |-> IF k = 0 \/ n = Null THEN <<>> ELSE <<n>> \o g[k - 1][next[n]]]]
  BY <1>4 DEF Grows
<1>6. QED  BY <1>5, Zenon DEF Follow, Grows

Goes(s, next) == \A j \in 1 .. Len(s) : next[s[j]] = After(s, j)

LEMMA TailGoes ==
  ASSUME NEW s \in Seq(Node), s # <<>>, NEW next, Goes(s, next)
  PROVE  /\ Tail(s) \in Seq(Node) /\ Len(Tail(s)) = Len(s) - 1 /\ Goes(Tail(s), next)
         /\ s[1] \in Node /\ next[s[1]] = First(Tail(s)) /\ s = <<s[1]>> \o Tail(s)
<1>1. PICK t, d : t = Tail(s) /\ d = Len(t)  OBVIOUS
<1>2. /\ t \in Seq(Node) /\ d \in Nat /\ Len(s) = d + 1 /\ Len(t) = d /\ s[1] \in Node
      /\ \A j \in 1 .. d : t[j] = s[j + 1] /\ j + 1 \in 1 .. d + 1
  BY <1>1
<1>3. t = <<>> <=> d = 0  BY <1>2
<1>4. next[s[1]] = First(t)
  <2>1. 1 \in 1 .. Len(s)  BY <1>2
  <2>2. next[s[1]] = After(s, 1)  BY <2>1 DEF Goes
  <2>3. CASE d = 0  BY <2>2, <2>3, <1>2, <1>3 DEF After, First
  <2>4. CASE d # 0
    <3>1. 1 \in 1 .. d /\ 1 # d + 1 /\ t[1] = s[1 + 1]  BY <2>4, <1>2
    <3>2. QED  BY <3>1, <2>2, <2>4, <1>2, <1>3 DEF After, First
  <2>5. QED  BY <2>3, <2>4
<1>5. ASSUME NEW j \in 1 .. d  PROVE next[t[j]] = After(t, j)
  <2>1. next[s[j + 1]] = After(s, j + 1)  BY <1>2 DEF Goes
  <2>2. j + 1 = d + 1 <=> j = d  BY <1>2
  <2>3. j # d => j + 1 \in 1 .. d /\ t[j + 1] = s[(j + 1) + 1]  BY <1>2
  <2>4. QED  BY <2>1, <2>2, <2>3, <1>2 DEF After
<1>6. s = <<s[1]>> \o t
  <2>1. PICK u : u = <<s[1]>> \o t  OBVIOUS
  <2>2. u \in Seq(Node) /\ Len(u) = d + 1  BY <2>1, <1>2
  <2>3. \A j \in 1 .. d + 1 : u[j] = s[j]  BY <2>1, <2>2, <1>2
  <2>4. QED  BY <2>1, <2>2, <2>3, <1>2
<1>7. Len(t) = Len(s) - 1  BY <1>2
<1>8. QED  BY <1>1, <1>2, <1>4, <1>5, <1>6, <1>7 DEF Goes

LEMMA GrowsTo ==
  ASSUME NEW d \in Nat, NEW f, NEW next \in Link, Grows(f, next, d)
  PROVE  \A k \in 0 .. d : \A s \in Seq(Node) : Goes(s, next) /\ Len(s) <= k => f[k][First(s)] = s
<1>1. \A k \in 0 .. d : \A n \in Pointer :
        f[k][n] = IF k = 0 \/ n = Null THEN <<>> ELSE <<n>> \o f[k - 1][next[n]]
  <2>1. ASSUME NEW k \in 0 .. d
        PROVE  f[k] = [n \in Pointer |-> IF k = 0 \/ n = Null THEN <<>> ELSE <<n>> \o f[k - 1][next[n]]]
    BY Zenon DEF Grows
  <2>2. QED  BY <2>1
<1>2. PICK Bad : Bad = {k \in 0 .. d : \E s \in Seq(Node) :
                           Goes(s, next) /\ Len(s) <= k /\ f[k][First(s)] # s}  OBVIOUS
<1>3. Bad = {}
  <2> SUFFICES ASSUME Bad # {}  PROVE FALSE  OBVIOUS
  <2>1. Bad \in SUBSET Nat  BY <1>2
  <2>2. PICK k \in Bad : \A m \in Bad : k <= m  BY <2>1, LeastNumber
  <2>3. PICK s \in Seq(Node) : Goes(s, next) /\ Len(s) <= k /\ f[k][First(s)] # s  BY <1>2
  <2>4. k \in 0 .. d /\ Len(s) \in Nat /\ Null \in Pointer  BY <1>2 DEF Pointer
  <2>5. s # <<>>
    <3>1. s = <<>> => f[k][First(s)] = <<>>  BY <1>1, <2>4 DEF First
    <3>2. QED  BY <3>1, <2>3
  <2>6. PICK t : t = Tail(s)  OBVIOUS
  <2>7. /\ t \in Seq(Node) /\ Len(t) = Len(s) - 1 /\ Goes(t, next) /\ s[1] \in Node
        /\ next[s[1]] = First(t) /\ s = <<s[1]>> \o t
    BY <2>3, <2>5, <2>6, TailGoes
  <2>8. k # 0 /\ k - 1 \in 0 .. d /\ ~(k <= k - 1) /\ Len(t) <= k - 1
    <3>1. Len(t) \in Nat  BY <2>7
    <3>2. QED  BY <3>1, <2>3, <2>4, <2>7
  <2>9. f[k - 1][First(t)] = t  BY <2>2, <2>7, <2>8, <1>2
  <2>10. First(s) = s[1] /\ s[1] \in Pointer /\ s[1] # Null
    BY <2>5, <2>7, NodeAssumption DEF First, Pointer
  <2>11. f[k][First(s)] = <<s[1]>> \o f[k - 1][next[s[1]]]  BY <2>4, <2>8, <2>10, <1>1
  <2>12. QED  BY <2>3, <2>7, <2>9, <2>11
<1>4. QED  BY <1>2, <1>3

LEMMA FollowIs ==
  ASSUME NEW L, NEW R \in Link, NEW s, Linked(s, L, R)
  PROVE  Follow(R)[First(s)] = s
<1>1. s \in Seq(Node) /\ Once(s) /\ Goes(s, R)  BY DEF Linked, Goes
<1>2. PICK d : d = Len(s)  OBVIOUS
<1>3. d \in Nat /\ s \in [1 .. d -> Node]  BY <1>1, <1>2
<1>4. s \in Injection(1 .. d, Node)  BY <1>1, <1>2, <1>3 DEF Injection, IsInjective, Once
<1>5. Cardinality(1 .. d) <= Cardinality(Node)  BY <1>4, NodeAssumption, FS_Injection
<1>6. Cardinality(1 .. d) = d
  <2>1. Cardinality(1 .. d) = IF 1 > d THEN 0 ELSE d - 1 + 1  BY <1>3, FS_Interval
  <2>2. QED  BY <2>1, <1>3
<1>7. PICK f : Grows(f, R, Cardinality(Node)) /\ Follow(R) = f[Cardinality(Node)]  BY FollowGrows
<1>8. Cardinality(Node) \in Nat  BY NodeAssumption, FS_CardinalityType
<1>9. PICK c : c = Cardinality(Node)  OBVIOUS
<1>10. c \in Nat /\ c \in 0 .. c /\ Len(s) <= c  BY <1>2, <1>5, <1>6, <1>8, <1>9
<1>11. QED  BY <1>1, <1>7, <1>9, <1>10, GrowsTo

-----------------------------------------------------------------------------
(* What the methods do to the elements.                                    *)
LEMMA MappedType ==
  ASSUME NEW s \in Seq(Node), NEW u, \A n \in Node : u[n] \in Value
  PROVE  /\ Mapped(s, u) \in Seq(Value) /\ Len(Mapped(s, u)) = Len(s)
         /\ \A j \in 1 .. Len(s) : Mapped(s, u)[j] = u[s[j]] /\ s[j] \in Node
         /\ Mapped(s, u) = <<>> <=> s = <<>>
<1>1. PICK d : d = Len(s)  OBVIOUS
<1>2. d \in Nat /\ \A j \in 1 .. d : s[j] \in Node /\ u[s[j]] \in Value  BY <1>1
<1>3. PICK t : t = Mapped(s, u)  OBVIOUS
<1>4. t = [j \in 1 .. d |-> u[s[j]]]  BY <1>1, <1>3 DEF Mapped
<1>5. t \in [1 .. d -> Value]  BY <1>2, <1>4
<1>6. t \in Seq(Value) /\ Len(t) = d  BY <1>2, <1>5
<1>7. t = <<>> <=> d = 0  BY <1>6
<1>8. s = <<>> <=> d = 0  BY <1>1
<1>9. QED  BY <1>1, <1>2, <1>3, <1>4, <1>6, <1>7, <1>8

LEMMA MappedAppend ==
  ASSUME NEW s \in Seq(Node), NEW u \in [Node -> Value], NEW n \in Node \ Members(s),
         NEW v \in Value, NEW w, w = With(u, n, v)
  PROVE  Mapped(Append(s, n), w) = Append(Mapped(s, u), v)
<1>1. PICK a, b, d, t : /\ t = Append(s, n) /\ a = Mapped(t, w) /\ b = Append(Mapped(s, u), v)
                        /\ d = Len(s)
  OBVIOUS
<1>2. /\ d \in Nat /\ w \in [Node -> Value] /\ w[n] = v
      /\ \A j \in 1 .. d : s[j] \in Node /\ s[j] # n /\ w[s[j]] = u[s[j]]
  BY <1>1 DEF Members, With
<1>3. t \in Seq(Node) /\ Len(t) = d + 1 /\ t[d + 1] = n /\ \A j \in 1 .. d : t[j] = s[j]
  BY <1>1
<1>4. a \in Seq(Value) /\ Len(a) = d + 1 /\ \A j \in 1 .. d + 1 : a[j] = w[t[j]]
  <2>1. /\ Mapped(t, w) \in Seq(Value) /\ Len(Mapped(t, w)) = Len(t)
        /\ \A j \in 1 .. Len(t) : Mapped(t, w)[j] = w[t[j]]
    <3>1. t \in Seq(Node) /\ \A x \in Node : w[x] \in Value  BY <1>2, <1>3
    <3>2. QED  BY <3>1, MappedType
  <2>2. a = Mapped(t, w)  BY <1>1
  <2>3. QED  BY <2>1, <2>2, <1>3
<1>5. b \in Seq(Value) /\ Len(b) = d + 1 /\ b[d + 1] = v /\ \A j \in 1 .. d : b[j] = u[s[j]]
  <2>1. PICK e : e = Mapped(s, u)  OBVIOUS
  <2>2. e \in Seq(Value) /\ Len(e) = d /\ \A j \in 1 .. d : e[j] = u[s[j]]  BY <1>1, <2>1, MappedType
  <2>3. QED  BY <2>1, <2>2, <1>1, <1>2
<1>6. ASSUME NEW j \in 1 .. d + 1  PROVE a[j] = b[j]
  <2>1. CASE j = d + 1  BY <2>1, <1>2, <1>3, <1>4, <1>5
  <2>2. CASE j # d + 1
    <3>1. j \in 1 .. d  BY <2>2, <1>2
    <3>2. a[j] = w[s[j]]  BY <3>1, <1>3, <1>4
    <3>3. QED  BY <3>1, <3>2, <1>2, <1>5
  <2>3. QED  BY <2>1, <2>2
<1>7. a = b  BY <1>2, <1>4, <1>5, <1>6
<1>8. QED  BY <1>1, <1>7

LEMMA MappedPrepend ==
  ASSUME NEW s \in Seq(Node), NEW u \in [Node -> Value], NEW n \in Node \ Members(s),
         NEW v \in Value, NEW w, w = With(u, n, v)
  PROVE  Mapped(<<n>> \o s, w) = <<v>> \o Mapped(s, u)
<1>1. PICK a, b, d, t : /\ t = <<n>> \o s /\ a = Mapped(t, w) /\ b = <<v>> \o Mapped(s, u)
                        /\ d = Len(s)
  OBVIOUS
<1>2. d \in Nat /\ w \in [Node -> Value] /\ w[n] = v
      /\ \A j \in 1 .. d : s[j] \in Node /\ s[j] # n /\ w[s[j]] = u[s[j]]
  BY <1>1 DEF Members, With
<1>3. t \in Seq(Node) /\ Len(t) = d + 1 /\ t[1] = n /\ \A j \in 1 .. d : t[j + 1] = s[j]
  <2>1. <<n>> \in Seq(Node) /\ Len(<<n>>) = 1 /\ <<n>>[1] = n  OBVIOUS
  <2>2. QED  BY <2>1, <1>1, <1>2
<1>4. a \in Seq(Value) /\ Len(a) = d + 1 /\ \A j \in 1 .. d + 1 : a[j] = w[t[j]]
  <2>1. /\ Mapped(t, w) \in Seq(Value) /\ Len(Mapped(t, w)) = Len(t)
        /\ \A j \in 1 .. Len(t) : Mapped(t, w)[j] = w[t[j]]
    <3>1. t \in Seq(Node) /\ \A x \in Node : w[x] \in Value  BY <1>2, <1>3
    <3>2. QED  BY <3>1, MappedType
  <2>2. a = Mapped(t, w)  BY <1>1
  <2>3. QED  BY <2>1, <2>2, <1>3
<1>5. b \in Seq(Value) /\ Len(b) = d + 1 /\ b[1] = v /\ \A j \in 1 .. d : b[j + 1] = u[s[j]]
  <2>1. PICK e : e = Mapped(s, u)  OBVIOUS
  <2>2. e \in Seq(Value) /\ Len(e) = d /\ \A j \in 1 .. d : e[j] = u[s[j]]  BY <1>1, <2>1, MappedType
  <2>3. <<v>> \in Seq(Value) /\ Len(<<v>>) = 1 /\ <<v>>[1] = v  OBVIOUS
  <2>4. QED  BY <2>1, <2>2, <2>3, <1>1, <1>2
<1>6. ASSUME NEW j \in 1 .. d + 1  PROVE a[j] = b[j]
  <2>1. CASE j = 1  BY <2>1, <1>2, <1>3, <1>4, <1>5
  <2>2. CASE j # 1
    <3>1. PICK k \in 1 .. d : j = k + 1
      <4>1. j - 1 \in 1 .. d /\ j = (j - 1) + 1  BY <2>2, <1>2
      <4>2. QED  BY <4>1
    <3>2. a[j] = w[s[k]]  BY <3>1, <1>3, <1>4
    <3>3. QED  BY <3>1, <3>2, <1>2, <1>5
  <2>3. QED  BY <2>1, <2>2
<1>7. a = b  BY <1>2, <1>4, <1>5, <1>6
<1>8. QED  BY <1>1, <1>7

LEMMA MappedTail ==
  ASSUME NEW s \in Seq(Node), s # <<>>, NEW u \in [Node -> Value]
  PROVE  Mapped(Tail(s), u) = Tail(Mapped(s, u))
<1>1. PICK a, e, d, t : t = Tail(s) /\ a = Mapped(t, u) /\ e = Mapped(s, u) /\ d = Len(t)
  OBVIOUS
<1>2. t \in Seq(Node) /\ d \in Nat /\ Len(s) = d + 1 /\ \A j \in 1 .. d : t[j] = s[j + 1]
  BY <1>1
<1>3. a \in Seq(Value) /\ Len(a) = d /\ \A j \in 1 .. d : a[j] = u[t[j]]
  BY ZenonT(40), <1>1, <1>2, MappedType
<1>4. e \in Seq(Value) /\ Len(e) = d + 1 /\ e # <<>> /\ \A j \in 1 .. d + 1 : e[j] = u[s[j]]
  BY <1>1, <1>2, MappedType
<1>5. Tail(e) \in Seq(Value) /\ Len(Tail(e)) = d /\ \A j \in 1 .. d : Tail(e)[j] = e[j + 1]
  BY <1>2, <1>4
<1>6. ASSUME NEW j \in 1 .. d  PROVE a[j] = Tail(e)[j]
  <2>1. j + 1 \in 1 .. d + 1  BY <1>2
  <2>2. e[j + 1] = u[s[j + 1]]  BY <2>1, <1>4
  <2>3. QED  BY <2>2, <1>2, <1>3, <1>5
<1>7. a = Tail(e)  BY <1>2, <1>3, <1>5, <1>6
<1>8. QED  BY <1>1, <1>7

LEMMA MappedFront ==
  ASSUME NEW s \in Seq(Node), s # <<>>, NEW u \in [Node -> Value]
  PROVE  Mapped(Front(s), u) = Front(Mapped(s, u))
<1>1. PICK a, e, d, t : t = Front(s) /\ a = Mapped(t, u) /\ e = Mapped(s, u) /\ d = Len(s) - 1
  OBVIOUS
<1>2. t \in Seq(Node) /\ Len(t) = d /\ d \in Nat /\ Len(s) = d + 1 /\ \A j \in 1 .. d : t[j] = s[j]
  <2>1. Len(s) \in Nat /\ Len(s) >= 1  OBVIOUS
  <2>2. t = SubSeq(s, 1, d) /\ d \in Nat /\ Len(s) = d + 1  BY <2>1, <1>1 DEF Front
  <2>3. QED  BY <2>2
<1>3. a \in Seq(Value) /\ Len(a) = d /\ \A j \in 1 .. d : a[j] = u[t[j]]
  BY SMTT(30), <1>1, <1>2, MappedType
<1>4. e \in Seq(Value) /\ Len(e) = d + 1 /\ \A j \in 1 .. d + 1 : e[j] = u[s[j]]
  BY <1>1, <1>2, MappedType
<1>5. Front(e) \in Seq(Value) /\ Len(Front(e)) = d /\ \A j \in 1 .. d : Front(e)[j] = e[j]
  <2>1. Front(e) = SubSeq(e, 1, d)
    <3>1. Len(e) - 1 = d  BY <1>2, <1>4
    <3>2. QED  BY <3>1 DEF Front
  <2>2. QED  BY <2>1, <1>2, <1>4
<1>6. \A j \in 1 .. d : j \in 1 .. d + 1 /\ a[j] = Front(e)[j]  BY <1>2, <1>3, <1>4, <1>5
<1>7. a = Front(e)  BY <1>2, <1>3, <1>5, <1>6
<1>8. QED  BY <1>1, <1>7

LEMMA MappedJoin ==
  ASSUME NEW s \in Seq(Node), NEW t \in Seq(Node), NEW u \in [Node -> Value]
  PROVE  Mapped(s \o t, u) = Mapped(s, u) \o Mapped(t, u)
<1>1. PICK a, b, c, d, e, f : /\ a = Mapped(s, u) /\ b = Mapped(t, u) /\ c = Mapped(s \o t, u)
                              /\ d = Len(s) /\ e = Len(t) /\ f = a \o b
  OBVIOUS
<1>2. d \in Nat /\ e \in Nat /\ s \o t \in Seq(Node) /\ Len(s \o t) = d + e  BY <1>1
<1>3. /\ a \in Seq(Value) /\ Len(a) = d /\ (\A j \in 1 .. d : a[j] = u[s[j]])
      /\ b \in Seq(Value) /\ Len(b) = e /\ (\A j \in 1 .. e : b[j] = u[t[j]])
      /\ c \in Seq(Value) /\ Len(c) = d + e /\ (\A j \in 1 .. d + e : c[j] = u[(s \o t)[j]])
  <2>1. \A n \in Node : u[n] \in Value  OBVIOUS
  <2>2. a \in Seq(Value) /\ Len(a) = d /\ \A j \in 1 .. d : a[j] = u[s[j]]
    BY <2>1, <1>1, MappedType
  <2>3. b \in Seq(Value) /\ Len(b) = e /\ \A j \in 1 .. e : b[j] = u[t[j]]
    BY <2>1, <1>1, MappedType
  <2>4. c \in Seq(Value) /\ Len(c) = d + e /\ \A j \in 1 .. d + e : c[j] = u[(s \o t)[j]]
    <3>1. PICK p : p = s \o t  OBVIOUS
    <3>2. p \in Seq(Node) /\ Len(p) = d + e /\ c = Mapped(p, u)  BY <3>1, <1>1, <1>2
    <3>3. c \in Seq(Value) /\ Len(c) = Len(p) /\ \A j \in 1 .. Len(p) : c[j] = u[p[j]]
      BY <3>2, <2>1, MappedType
    <3>4. QED  BY <3>1, <3>2, <3>3
  <2>5. QED  BY <2>2, <2>3, <2>4
<1>4. f \in Seq(Value) /\ Len(f) = d + e
  <2>1. f = a \o b  BY <1>1
  <2>2. a \in Seq(Value) /\ Len(a) = d /\ b \in Seq(Value) /\ Len(b) = e  BY <1>3
  <2>3. QED  BY <2>1, <2>2, ConcatProperties
<1>5. ASSUME NEW j \in 1 .. d + e  PROVE c[j] = f[j]
  <2>1. CASE j <= d
    <3>1. j \in 1 .. d  BY <2>1
    <3>2. (s \o t)[j] = s[j]  BY <3>1, <1>1, <1>2
    <3>3. f[j] = a[j]  BY <3>1, <1>1, <1>2, <1>3
    <3>4. QED  BY ZenonT(40), <3>1, <3>2, <3>3, <1>3
  <2>2. CASE ~(j <= d)
    <3>1. j - d \in 1 .. e  BY <2>2, <1>2
    <3>2. (s \o t)[j] = t[j - d]  BY <3>1, <2>2, <1>1, <1>2
    <3>3. f[j] = b[j - d]  BY <3>1, <2>2, <1>1, <1>2, <1>3
    <3>4. c[j] = u[t[j - d]]  BY <3>2, <1>3
    <3>5. b[j - d] = u[t[j - d]]  BY <3>1, <1>3
    <3>6. QED  BY <3>3, <3>4, <3>5
  <2>3. QED  BY <2>1, <2>2
<1>6. c = f  BY <1>2, <1>3, <1>4, <1>5
<1>7. QED  BY <1>1, <1>6

LEMMA MappedStays ==
  ASSUME NEW s \in Seq(Node), NEW u, NEW w, \A n \in Members(s) : w[n] = u[n]
  PROVE  Mapped(s, w) = Mapped(s, u)
<1>1. \A j \in 1 .. Len(s) : w[s[j]] = u[s[j]]  BY DEF Members
<1>2. QED  BY <1>1 DEF Mapped

-----------------------------------------------------------------------------
(* A step that changes one list, or two, and no node of another.           *)
LEMMA LinkedStays ==
  ASSUME NEW s, NEW L, NEW R, NEW K, NEW Q, Linked(s, L, R),
         \A n \in Members(s) : K[n] = L[n] /\ Q[n] = R[n]
  PROVE  Linked(s, K, Q)
BY DEF Linked, Members

LEMMA EmptyLinked ==
  ASSUME NEW L, NEW R
  PROVE  /\ Linked(<<>>, L, R) /\ Members(<<>>) = {} /\ First(<<>>) = Null /\ Final(<<>>) = Null
         /\ \A u : Mapped(<<>>, u) = <<>>
<1>1. <<>> \in Seq(Node) /\ 1 .. Len(<<>>) = {}  OBVIOUS
<1>2. \A u : [j \in 1 .. Len(<<>>) |-> u[<<>>[j]]] = <<>>
  <2> SUFFICES ASSUME NEW u  PROVE [j \in 1 .. Len(<<>>) |-> u[<<>>[j]]] = <<>>  OBVIOUS
  <2>1. [j \in 1 .. Len(<<>>) |-> u[<<>>[j]]] = [j \in {} |-> u[<<>>[j]]]  BY <1>1
  <2>2. QED  BY <2>1
<1>3. QED  BY <1>1, <1>2 DEF Linked, Once, Members, First, Final, Mapped

LEMMA OneChanges ==
  ASSUME NEW S, NEW A, NEW H \in [List -> Pointer], NEW T \in [List -> Pointer], NEW P, NEW L, NEW R,
         Holds(S, A, H, T, P, L, R),
         NEW l \in List, NEW s, NEW B, NEW D, NEW K, NEW Q,
         Linked(s, K, Q), l \in B \/ s = <<>>, \A m \in List \ {l} : m \in B <=> m \in A,
         \A n \in Node : n \notin Members(S[l]) /\ n \notin Members(s) => K[n] = L[n] /\ Q[n] = R[n],
         \A n \in Members(s) : n \in Members(S[l]) \/ n \notin P,
         \A n : n \in D <=> (n \in P /\ n \notin Members(S[l])) \/ n \in Members(s)
  PROVE  Holds(With(S, l, s), B, With(H, l, First(s)), With(T, l, Final(s)), D, K, Q)
<1>1. PICK Z, G, J : Z = With(S, l, s) /\ G = With(H, l, First(s)) /\ J = With(T, l, Final(s))
  OBVIOUS
<1>2. /\ S \in [List -> Seq(Node)]
      /\ \A m \in List : /\ Linked(S[m], L, R) /\ H[m] = First(S[m]) /\ T[m] = Final(S[m])
                         /\ m \notin A => S[m] = <<>>
      /\ \A m, k \in List : m # k => Members(S[m]) \cap Members(S[k]) = {}
      /\ \A n : n \in P <=> \E m \in List : n \in Members(S[m])
  BY DEF Holds
<1>3. s \in Seq(Node)  BY DEF Linked
<1>4. Z \in [List -> Seq(Node)] /\ Z[l] = s /\ \A m \in List \ {l} : Z[m] = S[m]
  BY <1>1, <1>2, <1>3 DEF With
<1>5. \A m \in List \ {l} : \A n \in Members(S[m]) : n \in Node /\ n \notin Members(S[l]) /\ n \notin Members(s)
  <2>1. \A m \in List : Members(S[m]) \subseteq Node  BY <1>2, EndsIn
  <2>2. QED  BY <2>1, <1>2
<1>6. ASSUME NEW m \in List
      PROVE  /\ Linked(Z[m], K, Q) /\ G[m] = First(Z[m])
             /\ J[m] = Final(Z[m])
             /\ m \notin B => Z[m] = <<>>
  <2>1. CASE m = l  BY <2>1, <1>1, <1>4 DEF With
  <2>2. CASE m # l
    <3>1. Linked(S[m], K, Q)  BY <2>2, <1>2, <1>5, LinkedStays
    <3>2. QED  BY <3>1, <2>2, <1>1, <1>2, <1>4 DEF With
  <2>3. QED  BY <2>1, <2>2
<1>7. ASSUME NEW m \in List, NEW k \in List, m # k
      PROVE  Members(Z[m]) \cap Members(Z[k]) = {}
  <2>1. CASE m = l  BY <2>1, <1>4, <1>5, <1>7
  <2>2. CASE k = l  BY <2>2, <1>4, <1>5, <1>7
  <2>3. CASE m # l /\ k # l  BY <2>3, <1>2, <1>4, <1>7
  <2>4. QED  BY <2>1, <2>2, <2>3
<1>8. ASSUME NEW n  PROVE n \in D <=> \E m \in List : n \in Members(Z[m])
  <2>1. CASE n \in Members(s)  BY <2>1, <1>4
  <2>2. CASE n \notin Members(s)
    <3>1. n \in D <=> n \in P /\ n \notin Members(S[l])  BY <2>2
    <3>2. n \in D => \E m \in List : n \in Members(Z[m])  BY <3>1, <1>2, <1>4
    <3>3. ASSUME NEW m \in List, n \in Members(Z[m])  PROVE n \in D
      <4>1. m # l /\ Z[m] = S[m]  BY <3>3, <2>2, <1>4
      <4>2. QED  BY <4>1, <3>1, <3>3, <1>2, <1>5
    <3>4. QED  BY <3>2, <3>3
  <2>3. QED  BY <2>1, <2>2
<1>9. Holds(Z, B, G, J, D, K, Q)  BY <1>4, <1>6, <1>7, <1>8 DEF Holds
<1>10. QED  BY <1>1, <1>9

LEMMA TwoChange ==
  ASSUME NEW S, NEW A, NEW H \in [List -> Pointer], NEW T \in [List -> Pointer], NEW P, NEW L, NEW R,
         Holds(S, A, H, T, P, L, R),
         NEW l \in List, NEW m \in List, l # m, NEW s, NEW t, NEW B, NEW D, NEW K, NEW Q,
         Linked(s, K, Q), Linked(t, K, Q), Members(s) \cap Members(t) = {},
         l \in B, m \in B, \A k \in List \ {l, m} : k \in B <=> k \in A,
         \A n \in Node : n \notin Members(S[l]) /\ n \notin Members(S[m]) => K[n] = L[n] /\ Q[n] = R[n],
         \A n \in Members(s) \cup Members(t) : n \in Members(S[l]) \/ n \in Members(S[m]),
         \A n : n \in D <=> \/ n \in P /\ n \notin Members(S[l]) /\ n \notin Members(S[m])
                            \/ n \in Members(s) \/ n \in Members(t)
  PROVE  Holds(With(With(S, l, s), m, t), B, With(With(H, l, First(s)), m, First(t)),
               With(With(T, l, Final(s)), m, Final(t)), D, K, Q)
<1>1. PICK Z, G, J : /\ Z = With(With(S, l, s), m, t) /\ G = With(With(H, l, First(s)), m, First(t))
                    /\ J = With(With(T, l, Final(s)), m, Final(t))
  OBVIOUS
<1>2. /\ S \in [List -> Seq(Node)]
      /\ \A k \in List : /\ Linked(S[k], L, R) /\ H[k] = First(S[k]) /\ T[k] = Final(S[k])
                         /\ k \notin A => S[k] = <<>>
      /\ \A k, j \in List : k # j => Members(S[k]) \cap Members(S[j]) = {}
      /\ \A n : n \in P <=> \E k \in List : n \in Members(S[k])
  BY DEF Holds
<1>3. s \in Seq(Node) /\ t \in Seq(Node)  BY DEF Linked
<1>4. Z \in [List -> Seq(Node)] /\ Z[l] = s /\ Z[m] = t /\ \A k \in List \ {l, m} : Z[k] = S[k]
  BY ZenonT(40), <1>1, <1>2, <1>3 DEF With
<1>5. \A k \in List \ {l, m} : \A n \in Members(S[k]) :
        n \in Node /\ n \notin Members(S[l]) /\ n \notin Members(S[m]) /\ n \notin Members(s) /\ n \notin Members(t)
  <2>1. \A k \in List : Members(S[k]) \subseteq Node  BY <1>2, EndsIn
  <2>2. QED  BY <2>1, <1>2
<1>6. ASSUME NEW k \in List
      PROVE  /\ Linked(Z[k], K, Q) /\ G[k] = First(Z[k])
             /\ J[k] = Final(Z[k])
             /\ k \notin B => Z[k] = <<>>
  <2>1. CASE k = l \/ k = m  BY <2>1, <1>1, <1>4 DEF With
  <2>2. CASE k # l /\ k # m
    <3>1. Linked(S[k], K, Q)  BY <2>2, <1>2, <1>5, LinkedStays
    <3>2. QED  BY <3>1, <2>2, <1>1, <1>2, <1>4 DEF With
  <2>3. QED  BY <2>1, <2>2
<1>7. ASSUME NEW k \in List, NEW j \in List, k # j
      PROVE  Members(Z[k]) \cap Members(Z[j]) = {}
  <2>1. CASE k \in {l, m} /\ j \in {l, m}  BY <2>1, <1>4, <1>7
  <2>2. CASE k \in {l, m} /\ j \notin {l, m}  BY <2>2, <1>4, <1>5
  <2>3. CASE k \notin {l, m} /\ j \in {l, m}  BY <2>3, <1>4, <1>5
  <2>4. CASE k \notin {l, m} /\ j \notin {l, m}  BY <2>4, <1>2, <1>4, <1>7
  <2>5. QED  BY <2>1, <2>2, <2>3, <2>4
<1>8. ASSUME NEW n  PROVE n \in D <=> \E k \in List : n \in Members(Z[k])
  <2>1. CASE n \in Members(s) \/ n \in Members(t)  BY <2>1, <1>4
  <2>2. CASE n \notin Members(s) /\ n \notin Members(t)
    <3>1. n \in D <=> n \in P /\ n \notin Members(S[l]) /\ n \notin Members(S[m])  BY <2>2
    <3>2. n \in D => \E k \in List : n \in Members(Z[k])  BY <3>1, <1>2, <1>4
    <3>3. ASSUME NEW k \in List, n \in Members(Z[k])  PROVE n \in D
      <4>1. k # l /\ k # m /\ Z[k] = S[k]  BY <3>3, <2>2, <1>4
      <4>2. QED  BY <4>1, <3>1, <3>3, <1>2, <1>5
    <3>4. QED  BY <3>2, <3>3
  <2>3. QED  BY <2>1, <2>2
<1>9. Holds(Z, B, G, J, D, K, Q)
  BY <1>4, <1>6, <1>7, <1>8 DEF Holds
<1>10. QED  BY <1>1, <1>9

-----------------------------------------------------------------------------
(* What the state stands for.                                              *)
Now(S) ==
  /\ ListTyped(alive, head, tail, heap, left, right, value)
  /\ Holds(S, alive, head, tail, heap, left, right)

Lists == [l \in List |-> Elements(l)]

LEMMA NowMeans ==
  ASSUME NEW S, Now(S)
  PROVE  /\ Lists = Contents(S, value)
         /\ \A l \in List : /\ Visits(head[l]) = S[l] /\ Nodes(l) = Members(S[l])
                            /\ Linked(S[l], left, right)
<1>1. ASSUME NEW l \in List
      PROVE  Linked(S[l], left, right) /\ Visits(head[l]) = S[l]
  <2>1. Linked(S[l], left, right) /\ head[l] = First(S[l]) /\ right \in Link
    BY DEF Now, Holds, ListTyped
  <2>2. QED  BY <2>1, FollowIs DEF Visits
<1>2. \A l \in List : DOMAIN S[l] = 1 .. Len(S[l])  BY <1>1 DEF Linked
<1>3. \A l \in List : Nodes(l) = Members(S[l]) /\ Elements(l) = Mapped(S[l], value)
  BY <1>1, <1>2 DEF Nodes, Elements, Members, Mapped
<1>4. QED  BY <1>1, <1>3 DEF Lists, Contents

LEMMA NextMeans ==
  ASSUME NEW S, Now(S)'
  PROVE  Lists' = Contents(S, value')
<1>1. ASSUME NEW l \in List
      PROVE  Linked(S[l], left', right') /\ Follow(right')[head'[l]] = S[l]
  <2>1. Linked(S[l], left', right') /\ head'[l] = First(S[l]) /\ right' \in Link
    BY DEF Now, Holds, ListTyped
  <2>2. QED  BY <2>1, FollowIs
<1>2. \A l \in List : DOMAIN S[l] = 1 .. Len(S[l])  BY <1>1 DEF Linked
<1>3. \A l \in List : Elements(l)' = Mapped(S[l], value')
  BY <1>1, <1>2 DEF Visits, Elements, Mapped
<1>4. QED  BY <1>3 DEF Lists, Contents

(* What is known of a list, and of its nodes.                              *)
LEMMA NowSays ==
  ASSUME NEW S, Now(S)
  PROVE  /\ S \in [List -> Seq(Node)] /\ left \in Link /\ right \in Link /\ value \in [Node -> Value]
         /\ head \in [List -> Pointer] /\ tail \in [List -> Pointer] /\ heap \subseteq Node
         /\ \A l \in List : /\ S[l] \in Seq(Node) /\ Linked(S[l], left, right)
                            /\ head[l] = First(S[l]) /\ tail[l] = Final(S[l])
                            /\ Members(S[l]) \subseteq Node /\ Members(S[l]) \subseteq heap
                            /\ l \notin alive => S[l] = <<>>
         /\ \A l, m \in List : l # m => Members(S[l]) \cap Members(S[m]) = {}
<1>1. /\ S \in [List -> Seq(Node)] /\ left \in Link /\ right \in Link /\ value \in [Node -> Value]
      /\ head \in [List -> Pointer] /\ tail \in [List -> Pointer] /\ heap \subseteq Node
  BY DEF Now, ListTyped, Holds
<1>2. ASSUME NEW l \in List
      PROVE  /\ S[l] \in Seq(Node) /\ Linked(S[l], left, right)
             /\ head[l] = First(S[l]) /\ tail[l] = Final(S[l])
             /\ l \notin alive => S[l] = <<>>
             /\ Members(S[l]) \subseteq heap
  BY <1>1 DEF Now, Holds
<1>3. \A l \in List : Members(S[l]) \subseteq Node  BY <1>1, <1>2, EndsIn
<1>4. \A l, m \in List : l # m => Members(S[l]) \cap Members(S[m]) = {}  BY DEF Now, Holds
<1>5. QED  BY <1>1, <1>2, <1>3, <1>4

(* The state of the next step holds Z, whose elements are X.               *)
Becomes(X) == \E Z : Now(Z)' /\ Contents(Z, value') = X

LEMMA BecomesOne ==
  ASSUME NEW S, Now(S), NEW l \in List, NEW s, NEW t,
         ListTyped(alive, head, tail, heap, left, right, value)',
         Holds(With(S, l, s), alive', head', tail', heap', left', right'),
         \A m \in List \ {l} : \A n \in Members(S[m]) : value'[n] = value[n],
         Mapped(s, value') = t
  PROVE  Becomes(With(Contents(S, value), l, t))
<1>1. PICK Z : Z = With(S, l, s)  OBVIOUS
<1>2. S \in [List -> Seq(Node)]  BY NowSays
<1>3. Z[l] = s /\ \A m \in List \ {l} : Z[m] = S[m]  BY <1>1, <1>2 DEF With
<1>4. \A m \in List \ {l} : Mapped(S[m], value') = Mapped(S[m], value)
  BY <1>2, MappedStays
<1>5. Contents(Z, value') = With(Contents(S, value), l, t)
  <2>1. ASSUME NEW m \in List
        PROVE  Mapped(Z[m], value') = With(Contents(S, value), l, t)[m]
    <3>1. CASE m = l  BY <3>1, <1>3 DEF Contents, With
    <3>2. CASE m # l  BY <3>2, <1>3, <1>4 DEF Contents, With
    <3>3. QED  BY <3>1, <3>2
  <2>2. QED  BY <2>1 DEF Contents, With
<1>6. Now(Z)'  BY <1>1 DEF Now
<1>7. QED  BY <1>5, <1>6 DEF Becomes

LEMMA BecomesTwo ==
  ASSUME NEW S, Now(S), NEW l \in List, NEW m \in List, l # m, NEW s, NEW t, NEW c, NEW d,
         ListTyped(alive, head, tail, heap, left, right, value)', value' = value,
         Holds(With(With(S, l, s), m, t), alive', head', tail', heap', left', right'),
         Mapped(s, value) = c, Mapped(t, value) = d
  PROVE  Becomes(With(With(Contents(S, value), l, c), m, d))
<1>1. PICK Z : Z = With(With(S, l, s), m, t)  OBVIOUS
<1>2. S \in [List -> Seq(Node)]  BY NowSays
<1>3. Z[l] = s /\ Z[m] = t /\ \A k \in List \ {l, m} : Z[k] = S[k]  BY <1>1, <1>2 DEF With
<1>4. Contents(Z, value') = With(With(Contents(S, value), l, c), m, d)
  <2>1. ASSUME NEW k \in List
        PROVE  Mapped(Z[k], value') = With(With(Contents(S, value), l, c), m, d)[k]
    <3>1. CASE k = l  BY <3>1, <1>3 DEF Contents, With
    <3>2. CASE k = m  BY <3>2, <1>3 DEF Contents, With
    <3>3. CASE k # l /\ k # m  BY <3>3, <1>3 DEF Contents, With
    <3>4. QED  BY <3>1, <3>2, <3>3
  <2>2. QED  BY <2>1 DEF Contents, With
<1>5. Now(Z)'  BY <1>1 DEF Now
<1>6. QED  BY <1>4, <1>5 DEF Becomes

-----------------------------------------------------------------------------
LEMMA PushBackList ==
  ASSUME NEW S, Now(S), NEW l \in List, NEW n \in Node, NEW v \in Value, PushBack(l, n, v)
  PROVE  Becomes(With(Contents(S, value), l, Append(Mapped(S[l], value), v)))
<1>1. PICK s : s = S[l]  OBVIOUS
<1>2. /\ S \in [List -> Seq(Node)] /\ left \in Link /\ right \in Link /\ value \in [Node -> Value]
      /\ head \in [List -> Pointer] /\ tail \in [List -> Pointer] /\ heap \subseteq Node
      /\ s \in Seq(Node) /\ Linked(s, left, right) /\ head[l] = First(s) /\ tail[l] = Final(s)
      /\ Members(s) \subseteq Node /\ Members(s) \subseteq heap
  BY <1>1, NowSays
<1>3. /\ s # <<>> => Final(s) \in Members(s) /\ Final(s) # Null
      /\ s = <<>> <=> tail[l] = Null
      /\ s = <<>> => First(s) = Null /\ Final(s) = Null
  BY <1>2, EndsIn
<1>4. /\ l \in alive /\ n \notin heap /\ heap' = heap \cup {n} /\ value' = With(value, n, v)
      /\ alive' = alive
  BY DEF PushBack, CreateFirstNode, New, With
<1>5. /\ left' \in Link /\ right' \in Link /\ left' = With(left, n, Final(s))
      /\ right'[n] = Null /\ \A x \in Node \ {n} : right'[x] = IF x = Final(s) THEN n ELSE right[x]
  <2>1. CASE tail[l] = Null
    <3>1. left' = With(left, n, Null) /\ right' = With(right, n, Null)
      BY <2>1 DEF PushBack, CreateFirstNode, With
    <3>2. Final(s) = Null  BY <2>1, <1>2
    <3>3. QED  BY <3>1, <3>2, <1>2, NodeAssumption DEF Link, Pointer, With
  <2>2. CASE tail[l] # Null
    <3>1. left' = [left EXCEPT ![n] = tail[l]] /\ right' = [right EXCEPT ![n] = Null, ![tail[l]] = n]
      BY <2>2 DEF PushBack
    <3>2. Final(s) = tail[l] /\ tail[l] \in Node /\ tail[l] # n  BY <2>2, <1>2, <1>3, <1>4
    <3>3. QED  BY <3>1, <3>2, <1>2 DEF Link, Pointer, With
  <2>3. QED  BY <2>1, <2>2
<1>6. PICK t : t = Append(s, n)  OBVIOUS
<1>7. /\ Linked(t, left', right') /\ Members(t) = Members(s) \cup {n}
      /\ First(t) = (IF s = <<>> THEN n ELSE First(s)) /\ Final(t) = n
  <2>1. n \in Node \ Members(s)  BY <1>2, <1>4
  <2>2. PICK K, Q : K = left' /\ Q = right'  OBVIOUS
  <2>3. /\ K \in Link /\ Q \in Link /\ K = With(left, n, Final(s)) /\ Q[n] = Null
        /\ \A x \in Node \ {n} : Q[x] = IF x = Final(s) THEN n ELSE right[x]
    BY <2>2, <1>5
  <2>4. left \in Link /\ right \in Link /\ Linked(s, left, right)  BY <1>2
  <2>5. /\ Linked(Append(s, n), K, Q) /\ Members(Append(s, n)) = Members(s) \cup {n}
        /\ First(Append(s, n)) = (IF s = <<>> THEN n ELSE First(s)) /\ Final(Append(s, n)) = n
    BY <2>1, <2>3, <2>4, AppendLinked
  <2>6. QED  BY <2>2, <2>5, <1>6
<1>8. head' = With(head, l, First(t)) /\ tail' = With(tail, l, Final(t))
  <2>1. CASE tail[l] = Null
    <3>1. head' = With(head, l, n) /\ tail' = With(tail, l, n)
      BY <2>1 DEF PushBack, CreateFirstNode, With
    <3>2. QED  BY <3>1, <2>1, <1>3, <1>7
  <2>2. CASE tail[l] # Null
    <3>1. head' = head /\ tail' = With(tail, l, n)  BY <2>2 DEF PushBack, With
    <3>2. First(t) = head[l]  BY <2>2, <1>2, <1>3, <1>7
    <3>3. QED  BY <3>1, <3>2, <1>2, <1>7 DEF With
  <2>3. QED  BY <2>1, <2>2
<1>9. Holds(With(S, l, t), alive', head', tail', heap', left', right')
  <2>1. Holds(S, alive, head, tail, heap, left, right)  BY DEF Now
  <2>2. \A x \in Node : x \notin Members(s) /\ x \notin Members(t) => left'[x] = left[x] /\ right'[x] = right[x]
    BY <1>2, <1>3, <1>5, <1>7, NodeAssumption DEF Link, With
  <2>3. \A x \in Members(t) : x \in Members(s) \/ x \notin heap  BY <1>4, <1>7
  <2>4. \A x : x \in heap' <=> (x \in heap /\ x \notin Members(s)) \/ x \in Members(t)
    BY <1>2, <1>4, <1>7
  <2>5. \A m \in List \ {l} : m \in alive' <=> m \in alive  BY <1>4
  <2>6. /\ head \in [List -> Pointer] /\ tail \in [List -> Pointer] /\ Linked(t, left', right')
        /\ l \in alive'
    BY <1>2, <1>4, <1>7
  <2>7. Holds(With(S, l, t), alive', With(head, l, First(t)), With(tail, l, Final(t)),
              heap', left', right')
    BY <2>1, <2>2, <2>3, <2>4, <2>5, <2>6, <1>1, OneChanges
  <2>8. QED  BY <2>7, <1>8
<1>10. ListTyped(alive, head, tail, heap, left, right, value)'
  <2>1. alive \subseteq List  BY DEF Now, ListTyped
  <2>2. First(t) \in Pointer /\ Final(t) \in Pointer
    BY <1>7, EndsIn DEF Linked
  <2>3. head' \in [List -> Pointer] /\ tail' \in [List -> Pointer] /\ value' \in [Node -> Value]
    BY <2>2, <1>2, <1>4, <1>8 DEF With
  <2>4. QED  BY <2>1, <2>3, <1>2, <1>4, <1>5 DEF ListTyped
<1>11. \A m \in List \ {l} : \A x \in Members(S[m]) : value'[x] = value[x]
  <2>1. \A m \in List : Members(S[m]) \subseteq Node /\ Members(S[m]) \subseteq heap  BY NowSays
  <2>2. QED  BY <2>1, <1>2, <1>4 DEF With
<1>12. Mapped(t, value') = Append(Mapped(s, value), v)
  <2>1. n \in Node \ Members(s) /\ s \in Seq(Node) /\ value \in [Node -> Value]  BY <1>2, <1>4
  <2>2. PICK w : w = value' /\ w = With(value, n, v)  BY <1>4
  <2>3. Mapped(Append(s, n), w) = Append(Mapped(s, value), v)  BY <2>1, <2>2, MappedAppend
  <2>4. QED  BY <2>2, <2>3, <1>6
<1>13. QED  BY <1>1, <1>9, <1>10, <1>11, <1>12, BecomesOne

LEMMA PushFrontList ==
  ASSUME NEW S, Now(S), NEW l \in List, NEW n \in Node, NEW v \in Value, PushFront(l, n, v)
  PROVE  Becomes(With(Contents(S, value), l, <<v>> \o Mapped(S[l], value)))
<1>1. PICK s : s = S[l]  OBVIOUS
<1>2. /\ S \in [List -> Seq(Node)] /\ left \in Link /\ right \in Link /\ value \in [Node -> Value]
      /\ head \in [List -> Pointer] /\ tail \in [List -> Pointer] /\ heap \subseteq Node
      /\ s \in Seq(Node) /\ Linked(s, left, right) /\ head[l] = First(s) /\ tail[l] = Final(s)
      /\ Members(s) \subseteq Node /\ Members(s) \subseteq heap
  BY <1>1, NowSays
<1>3. /\ s # <<>> => First(s) \in Members(s) /\ First(s) # Null
      /\ s = <<>> <=> tail[l] = Null
      /\ s = <<>> => First(s) = Null /\ Final(s) = Null
  BY <1>2, EndsIn
<1>4. /\ l \in alive /\ n \notin heap /\ heap' = heap \cup {n} /\ value' = With(value, n, v)
      /\ alive' = alive
  BY DEF PushFront, CreateFirstNode, New, With
<1>5. /\ left' \in Link /\ right' \in Link /\ right' = With(right, n, First(s))
      /\ left'[n] = Null /\ \A x \in Node \ {n} : left'[x] = IF x = First(s) THEN n ELSE left[x]
  <2>1. CASE tail[l] = Null
    <3>1. left' = With(left, n, Null) /\ right' = With(right, n, Null)
      BY <2>1 DEF PushFront, CreateFirstNode, With
    <3>2. First(s) = Null  BY <2>1, <1>3
    <3>3. QED  BY <3>1, <3>2, <1>2, NodeAssumption DEF Link, Pointer, With
  <2>2. CASE tail[l] # Null
    <3>1. right' = [right EXCEPT ![n] = head[l]] /\ left' = [left EXCEPT ![n] = Null, ![head[l]] = n]
      BY <2>2 DEF PushFront
    <3>2. First(s) = head[l] /\ head[l] \in Node /\ head[l] # n  BY <2>2, <1>2, <1>3, <1>4
    <3>3. QED  BY <3>1, <3>2, <1>2 DEF Link, Pointer, With
  <2>3. QED  BY <2>1, <2>2
<1>6. PICK t : t = <<n>> \o s  OBVIOUS
<1>7. /\ Linked(t, left', right') /\ Members(t) = Members(s) \cup {n}
      /\ Final(t) = (IF s = <<>> THEN n ELSE Final(s)) /\ First(t) = n
  <2>1. n \in Node \ Members(s)  BY <1>2, <1>4
  <2>2. PICK K, Q : K = left' /\ Q = right'  OBVIOUS
  <2>3. /\ K \in Link /\ Q \in Link /\ Q = With(right, n, First(s)) /\ K[n] = Null
        /\ \A x \in Node \ {n} : K[x] = IF x = First(s) THEN n ELSE left[x]
    BY <2>2, <1>5
  <2>4. left \in Link /\ right \in Link /\ Linked(s, left, right)  BY <1>2
  <2>5. /\ Linked(<<n>> \o s, K, Q) /\ Members(<<n>> \o s) = Members(s) \cup {n}
        /\ Final(<<n>> \o s) = (IF s = <<>> THEN n ELSE Final(s)) /\ First(<<n>> \o s) = n
    BY <2>1, <2>3, <2>4, PrependLinked
  <2>6. QED  BY <2>2, <2>5, <1>6
<1>8. head' = With(head, l, First(t)) /\ tail' = With(tail, l, Final(t))
  <2>1. CASE tail[l] = Null
    <3>1. head' = With(head, l, n) /\ tail' = With(tail, l, n)
      BY <2>1 DEF PushFront, CreateFirstNode, With
    <3>2. QED  BY <3>1, <2>1, <1>3, <1>7
  <2>2. CASE tail[l] # Null
    <3>1. tail' = tail /\ head' = With(head, l, n)  BY <2>2 DEF PushFront, With
    <3>2. Final(t) = tail[l]  BY <2>2, <1>2, <1>3, <1>7
    <3>3. QED  BY <3>1, <3>2, <1>2, <1>7 DEF With
  <2>3. QED  BY <2>1, <2>2
<1>9. Holds(With(S, l, t), alive', head', tail', heap', left', right')
  <2>1. Holds(S, alive, head, tail, heap, left, right)  BY DEF Now
  <2>2. \A x \in Node : x \notin Members(s) /\ x \notin Members(t) => left'[x] = left[x] /\ right'[x] = right[x]
    BY <1>2, <1>3, <1>5, <1>7, NodeAssumption DEF Link, With
  <2>3. \A x \in Members(t) : x \in Members(s) \/ x \notin heap  BY <1>4, <1>7
  <2>4. \A x : x \in heap' <=> (x \in heap /\ x \notin Members(s)) \/ x \in Members(t)
    BY <1>2, <1>4, <1>7
  <2>5. \A m \in List \ {l} : m \in alive' <=> m \in alive  BY <1>4
  <2>6. /\ head \in [List -> Pointer] /\ tail \in [List -> Pointer] /\ Linked(t, left', right')
        /\ l \in alive'
    BY <1>2, <1>4, <1>7
  <2>7. Holds(With(S, l, t), alive', With(head, l, First(t)), With(tail, l, Final(t)), heap', left', right')
    BY <2>1, <2>2, <2>3, <2>4, <2>5, <2>6, <1>1, OneChanges
  <2>8. QED  BY <2>7, <1>8
<1>10. ListTyped(alive, head, tail, heap, left, right, value)'
  <2>1. alive \subseteq List  BY DEF Now, ListTyped
  <2>2. First(t) \in Pointer /\ Final(t) \in Pointer
    BY <1>7, EndsIn DEF Linked
  <2>3. head' \in [List -> Pointer] /\ tail' \in [List -> Pointer] /\ value' \in [Node -> Value]
    BY <2>2, <1>2, <1>4, <1>8 DEF With
  <2>4. QED  BY <2>1, <2>3, <1>2, <1>4, <1>5 DEF ListTyped
<1>11. \A m \in List \ {l} : \A x \in Members(S[m]) : value'[x] = value[x]
  <2>1. \A m \in List : Members(S[m]) \subseteq Node /\ Members(S[m]) \subseteq heap  BY NowSays
  <2>2. QED  BY <2>1, <1>2, <1>4 DEF With
<1>12. Mapped(t, value') = <<v>> \o Mapped(s, value)
  <2>1. n \in Node \ Members(s) /\ s \in Seq(Node) /\ value \in [Node -> Value]  BY <1>2, <1>4
  <2>2. PICK w : w = value' /\ w = With(value, n, v)  BY <1>4
  <2>3. Mapped(<<n>> \o s, w) = <<v>> \o Mapped(s, value)  BY ZenonT(40), <2>1, <2>2, MappedPrepend
  <2>4. QED  BY <2>2, <2>3, <1>6
<1>13. QED  BY <1>1, <1>9, <1>10, <1>11, <1>12, BecomesOne

(* A step that takes nodes off a list.                                     *)
LEMMA ShrinksTo ==
  ASSUME NEW S, Now(S), NEW l \in List, NEW t, Linked(t, left', right'), Members(t) \subseteq Members(S[l]),
         l \in alive' \/ t = <<>>, alive' \subseteq List, \A m \in List \ {l} : m \in alive' <=> m \in alive,
         \A x \in Node : x \notin Members(S[l]) => left'[x] = left[x] /\ right'[x] = right[x],
         left' \in Link, right' \in Link, value' = value,
         head' = With(head, l, First(t)), tail' = With(tail, l, Final(t)),
         heap' = heap \ (Members(S[l]) \ Members(t))
  PROVE  Becomes(With(Contents(S, value), l, Mapped(t, value)))
<1>1. /\ S \in [List -> Seq(Node)] /\ value \in [Node -> Value] /\ heap \subseteq Node
      /\ head \in [List -> Pointer] /\ tail \in [List -> Pointer] /\ Members(S[l]) \subseteq heap
  BY NowSays
<1>2. Holds(With(S, l, t), alive', head', tail', heap', left', right')
  <2>1. Holds(S, alive, head, tail, heap, left, right)  BY DEF Now
  <2>2. \A x \in Node : x \notin Members(S[l]) /\ x \notin Members(t) => left'[x] = left[x] /\ right'[x] = right[x]
    OBVIOUS
  <2>3. \A x \in Members(t) : x \in Members(S[l]) \/ x \notin heap  OBVIOUS
  <2>4. \A x : x \in heap' <=> (x \in heap /\ x \notin Members(S[l])) \/ x \in Members(t)
    BY <1>1
  <2>5. Holds(With(S, l, t), alive', With(head, l, First(t)), With(tail, l, Final(t)), heap', left', right')
    BY SMTT(30), <2>1, <2>2, <2>3, <2>4, <1>1, OneChanges
  <2>6. QED  BY <2>5
<1>3. ListTyped(alive, head, tail, heap, left, right, value)'
  <2>1. First(t) \in Pointer /\ Final(t) \in Pointer  BY EndsIn DEF Linked
  <2>2. head' \in [List -> Pointer] /\ tail' \in [List -> Pointer]  BY <2>1, <1>1 DEF With
  <2>3. QED  BY <2>2, <1>1 DEF ListTyped
<1>4. \A m \in List \ {l} : \A x \in Members(S[m]) : value'[x] = value[x]  OBVIOUS
<1>5. Mapped(t, value') = Mapped(t, value)  OBVIOUS
<1>6. QED  BY <1>2, <1>3, <1>4, <1>5, BecomesOne

LEMMA PopBackList ==
  ASSUME NEW S, Now(S), NEW l \in List, PopBack(l)
  PROVE  S[l] # <<>> /\ Becomes(With(Contents(S, value), l, Front(Mapped(S[l], value))))
<1>1. PICK s : s = S[l]  OBVIOUS
<1>2. /\ left \in Link /\ right \in Link /\ value \in [Node -> Value]
      /\ head \in [List -> Pointer] /\ tail \in [List -> Pointer] /\ alive \subseteq List
      /\ s \in Seq(Node) /\ Linked(s, left, right) /\ head[l] = First(s) /\ tail[l] = Final(s)
      /\ Members(s) \subseteq Node
  BY <1>1, NowSays DEF Now, ListTyped
<1>3. s # <<>> /\ Final(s) \in Members(s) /\ First(s) \in Members(s)
  BY <1>2, EndsIn DEF PopBack, IsEmpty
<1>4. PICK c : c = left[Final(s)]  OBVIOUS
<1>5. /\ l \in alive /\ alive' = alive /\ left' = left /\ value' = value
      /\ heap' = heap \ {Final(s)} /\ tail' = With(tail, l, c)
      /\ c # Null => right' = [right EXCEPT ![c] = Null] /\ head' = head
      /\ c = Null => head' = With(head, l, Null) /\ right' = right
  BY <1>2, <1>4 DEF PopBack, With
<1>6. c \in Pointer  BY <1>2, <1>3, <1>4 DEF Link
<1>7. /\ right' \in Link /\ \A x \in Node : right'[x] = IF x = c THEN Null ELSE right[x]
  BY <1>2, <1>5, <1>6, NodeAssumption DEF Link, Pointer
<1>8. PICK t : t = Front(s)  OBVIOUS
<1>9. /\ Linked(t, left', right') /\ Members(t) = Members(s) \ {Final(s)}
      /\ Final(t) = c /\ First(t) = (IF c = Null THEN Null ELSE First(s))
  <2>1. PICK Q : Q = right'  OBVIOUS
  <2>2. Q \in Link /\ \A x \in Node : Q[x] = IF x = c THEN Null ELSE right[x]  BY <2>1, <1>7
  <2>3. /\ Linked(Front(s), left, Q) /\ Members(Front(s)) = Members(s) \ {Final(s)}
        /\ Final(Front(s)) = c /\ First(Front(s)) = (IF c = Null THEN Null ELSE First(s))
    BY <2>2, <1>2, <1>3, <1>4, FrontLinked
  <2>4. QED  BY <2>1, <2>3, <1>5, <1>8
<1>10. head' = With(head, l, First(t)) /\ tail' = With(tail, l, Final(t))
  BY <1>2, <1>5, <1>9 DEF With
<1>11. \A x \in Node : x \notin Members(s) => left'[x] = left[x] /\ right'[x] = right[x]
  <2>1. c \in Members(s) \/ c = Null
    <3>1. Final(t) \in Pointer /\ (Final(t) = Null \/ Final(t) \in Members(t))
      BY <1>9, EndsIn DEF Linked
    <3>2. QED  BY <3>1, <1>9
  <2>2. QED  BY <2>1, <1>5, <1>7, NodeAssumption
<1>12. heap' = heap \ (Members(s) \ Members(t))  BY <1>3, <1>5, <1>9
<1>13. Members(t) \subseteq Members(s) /\ l \in alive' /\ alive' \subseteq List /\ left' \in Link
  BY <1>2, <1>5, <1>9
<1>14. Becomes(With(Contents(S, value), l, Mapped(t, value)))
  BY <1>1, <1>5, <1>7, <1>9, <1>10, <1>11, <1>12, <1>13, ShrinksTo
<1>15. Mapped(t, value) = Front(Mapped(s, value))  BY <1>2, <1>3, <1>8, MappedFront
<1>16. QED  BY <1>1, <1>3, <1>14, <1>15

LEMMA PopFrontList ==
  ASSUME NEW S, Now(S), NEW l \in List, PopFront(l)
  PROVE  S[l] # <<>> /\ Becomes(With(Contents(S, value), l, Tail(Mapped(S[l], value))))
<1>1. PICK s : s = S[l]  OBVIOUS
<1>2. /\ left \in Link /\ right \in Link /\ value \in [Node -> Value]
      /\ head \in [List -> Pointer] /\ tail \in [List -> Pointer] /\ alive \subseteq List
      /\ s \in Seq(Node) /\ Linked(s, left, right) /\ head[l] = First(s) /\ tail[l] = Final(s)
      /\ Members(s) \subseteq Node
  BY <1>1, NowSays DEF Now, ListTyped
<1>3. s # <<>> /\ Final(s) \in Members(s) /\ First(s) \in Members(s)
  BY <1>2, EndsIn DEF PopFront, IsEmpty
<1>4. PICK c : c = right[First(s)]  OBVIOUS
<1>5. /\ l \in alive /\ alive' = alive /\ right' = right /\ value' = value
      /\ heap' = heap \ {First(s)} /\ head' = With(head, l, c)
      /\ c # Null => left' = [left EXCEPT ![c] = Null] /\ tail' = tail
      /\ c = Null => tail' = With(tail, l, Null) /\ left' = left
  BY <1>2, <1>4 DEF PopFront, With
<1>6. c \in Pointer  BY <1>2, <1>3, <1>4 DEF Link
<1>7. /\ left' \in Link /\ \A x \in Node : left'[x] = IF x = c THEN Null ELSE left[x]
  BY <1>2, <1>5, <1>6, NodeAssumption DEF Link, Pointer
<1>8. PICK t : t = Tail(s)  OBVIOUS
<1>9. /\ Linked(t, left', right') /\ Members(t) = Members(s) \ {First(s)}
      /\ First(t) = c /\ Final(t) = (IF c = Null THEN Null ELSE Final(s))
  <2>1. PICK K : K = left'  OBVIOUS
  <2>2. K \in Link /\ \A x \in Node : K[x] = IF x = c THEN Null ELSE left[x]  BY <2>1, <1>7
  <2>3. /\ Linked(Tail(s), K, right) /\ Members(Tail(s)) = Members(s) \ {First(s)}
        /\ First(Tail(s)) = c /\ Final(Tail(s)) = (IF c = Null THEN Null ELSE Final(s))
    BY <2>2, <1>2, <1>3, <1>4, TailLinked
  <2>4. QED  BY <2>1, <2>3, <1>5, <1>8
<1>10. head' = With(head, l, First(t)) /\ tail' = With(tail, l, Final(t))
  BY <1>2, <1>5, <1>9 DEF With
<1>11. \A x \in Node : x \notin Members(s) => left'[x] = left[x] /\ right'[x] = right[x]
  <2>1. c \in Members(s) \/ c = Null
    <3>1. First(t) \in Pointer /\ (First(t) = Null \/ First(t) \in Members(t))
      BY <1>9, EndsIn DEF Linked
    <3>2. QED  BY <3>1, <1>9
  <2>2. QED  BY <2>1, <1>5, <1>7, NodeAssumption
<1>12. heap' = heap \ (Members(s) \ Members(t))  BY <1>3, <1>5, <1>9
<1>13. Members(t) \subseteq Members(s) /\ l \in alive' /\ alive' \subseteq List /\ right' \in Link
  BY <1>2, <1>5, <1>9
<1>14. Becomes(With(Contents(S, value), l, Mapped(t, value)))
  BY <1>1, <1>5, <1>7, <1>9, <1>10, <1>11, <1>12, <1>13, ShrinksTo
<1>15. Mapped(t, value) = Tail(Mapped(s, value))  BY <1>2, <1>3, <1>8, MappedTail
<1>16. QED  BY <1>1, <1>3, <1>14, <1>15

LEMMA DestroyList ==
  ASSUME NEW S, Now(S), NEW l \in List, Destroy(l)
  PROVE  Becomes(With(Contents(S, value), l, <<>>))
<1>1. /\ left \in Link /\ right \in Link /\ value \in [Node -> Value]
      /\ head \in [List -> Pointer] /\ tail \in [List -> Pointer] /\ alive \subseteq List
  BY NowSays DEF Now, ListTyped
<1>2. /\ alive' = alive \ {l} /\ left' = left /\ right' = right /\ value' = value
      /\ head' = With(head, l, Null) /\ tail' = With(tail, l, Null) /\ heap' = heap \ Nodes(l)
  BY DEF Destroy, fields, With
<1>3. heap' = heap \ (Members(S[l]) \ Members(<<>>))  BY <1>2, NowMeans, EmptyLinked
<1>4. PICK t : t = <<>>  OBVIOUS
<1>5. /\ Linked(t, left', right') /\ Members(t) = {} /\ First(t) = Null /\ Final(t) = Null
      /\ Mapped(t, value) = <<>>
  BY <1>4, EmptyLinked
<1>6. /\ alive' \subseteq List /\ \A m \in List \ {l} : m \in alive' <=> m \in alive  BY <1>1, <1>2
<1>7. Becomes(With(Contents(S, value), l, Mapped(t, value)))
  BY <1>1, <1>2, <1>3, <1>4, <1>5, <1>6, ShrinksTo
<1>8. QED  BY <1>5, <1>7

(* A list m gives its nodes to l, and is left with t; l gives away its own  *)
(* only as that.                                                           *)
LEMMA Hands ==
  ASSUME NEW S, Now(S), NEW l \in List, NEW m \in List, l # m, NEW t, t \in {<<>>, S[l]},
         l \in alive', m \in alive', alive' \subseteq List,
         \A k \in List \ {l, m} : k \in alive' <=> k \in alive,
         head' = With(With(head, l, head[m]), m, First(t)),
         tail' = With(With(tail, l, tail[m]), m, Final(t)),
         left' = left, right' = right, value' = value,
         heap' = heap \ (Members(S[l]) \ Members(t))
  PROVE  Becomes(With(With(Contents(S, value), l, Mapped(S[m], value)), m, Mapped(t, value)))
<1>1. PICK s : s = S[m]  OBVIOUS
<1>2. /\ S \in [List -> Seq(Node)] /\ value \in [Node -> Value] /\ heap \subseteq Node
      /\ left \in Link /\ right \in Link
      /\ head \in [List -> Pointer] /\ tail \in [List -> Pointer]
      /\ Members(S[l]) \subseteq heap /\ Members(s) \subseteq heap /\ Members(s) \cap Members(S[l]) = {}
      /\ Linked(s, left, right) /\ Linked(S[l], left, right)
      /\ head[m] = First(s) /\ tail[m] = Final(s)
  BY <1>1, NowSays
<1>3. Linked(t, left, right) /\ (Members(t) = {} \/ t = S[l])  BY <1>2, EmptyLinked
<1>4. First(t) \in Pointer /\ Final(t) \in Pointer  BY <1>3, EndsIn DEF Linked
<1>5. ListTyped(alive, head, tail, heap, left, right, value)'
  <2>1. head' \in [List -> Pointer] /\ tail' \in [List -> Pointer]  BY <1>2, <1>4 DEF With
  <2>2. QED  BY <2>1, <1>2 DEF ListTyped
<1>6. Holds(With(With(S, l, s), m, t), alive', head', tail', heap', left', right')
  <2>1. Holds(S, alive, head, tail, heap, left, right)  BY DEF Now
  <2>2. Members(s) \cap Members(t) = {}  BY <1>2, <1>3
  <2>3. \A n \in Members(s) \cup Members(t) : n \in Members(S[l]) \/ n \in Members(S[m])
    BY <1>1, <1>3
  <2>4. \A n : n \in heap' <=> \/ n \in heap /\ n \notin Members(S[l]) /\ n \notin Members(S[m])
                               \/ n \in Members(s) \/ n \in Members(t)
    BY <1>1, <1>2, <1>3
  <2>5. Linked(s, left', right') /\ Linked(t, left', right')  BY <1>2, <1>3
  <2>6. Holds(With(With(S, l, s), m, t), alive', With(With(head, l, First(s)), m, First(t)),
              With(With(tail, l, Final(s)), m, Final(t)), heap', left', right')
    <3>1. \A n \in Node : n \notin Members(S[l]) /\ n \notin Members(S[m]) => left'[n] = left[n] /\ right'[n] = right[n]
      OBVIOUS
    <3>2. head \in [List -> Pointer] /\ tail \in [List -> Pointer]  BY <1>2
    <3>3. PICK A, B, D, K, Q : A = alive /\ B = alive' /\ D = heap' /\ K = left' /\ Q = right'  OBVIOUS
    <3>4. \A k \in List \ {l, m} : k \in B <=> k \in A  BY <3>3
    <3>5. Holds(With(With(S, l, s), m, t), B, With(With(head, l, First(s)), m, First(t)),
                With(With(tail, l, Final(s)), m, Final(t)), D, K, Q)
      BY <2>1, <2>2, <2>3, <2>4, <2>5, <3>1, <3>2, <3>3, <3>4, TwoChange
    <3>6. QED  BY <3>3, <3>5
  <2>7. QED  BY <2>6, <1>2
<1>7. QED  BY <1>1, <1>5, <1>6, BecomesTwo

(* A step after which every list stands for what it did.                   *)
LEMMA StaysList ==
  ASSUME NEW S, Now(S), alive \subseteq alive', alive' \subseteq List,
         head' = head, tail' = tail, heap' = heap, left' = left, right' = right, value' = value
  PROVE  Becomes(Contents(S, value))
<1>1. Now(S)'  BY DEF Now, ListTyped, Holds
<1>2. QED  BY <1>1 DEF Becomes

LEMMA SwapList ==
  ASSUME NEW S, Now(S), NEW l \in List, NEW m \in List, Swap(l, m)
  PROVE  Becomes(With(With(Contents(S, value), l, Mapped(S[m], value)), m, Mapped(S[l], value)))
<1>1. /\ l \in alive /\ m \in alive /\ alive' = alive /\ alive \subseteq List /\ heap' = heap
      /\ left' = left /\ right' = right /\ value' = value
      /\ head' = With(With(head, l, head[m]), m, head[l])
      /\ tail' = With(With(tail, l, tail[m]), m, tail[l])
      /\ head \in [List -> Pointer] /\ tail \in [List -> Pointer]
      /\ head[l] = First(S[l]) /\ tail[l] = Final(S[l])
  BY NowSays DEF Swap, fields, With, Now, ListTyped
<1>2. CASE l # m
  <2>1. heap' = heap \ (Members(S[l]) \ Members(S[l]))  BY <1>1
  <2>2. PICK t : t = S[l]  OBVIOUS
  <2>3. Becomes(With(With(Contents(S, value), l, Mapped(S[m], value)), m, Mapped(t, value)))
    BY <1>1, <1>2, <2>1, <2>2, Hands
  <2>4. QED  BY <2>2, <2>3
<1>3. CASE l = m
  <2>1. head' = head /\ tail' = tail  BY <1>1, <1>3 DEF With
  <2>2. Becomes(Contents(S, value))  BY <1>1, <2>1, StaysList
  <2>3. With(With(Contents(S, value), l, Mapped(S[m], value)), m, Mapped(S[l], value)) = Contents(S, value)
    BY <1>3 DEF With, Contents
  <2>4. QED  BY <2>2, <2>3
<1>4. QED  BY <1>2, <1>3

LEMMA MoveConstructList ==
  ASSUME NEW S, Now(S), NEW l \in List, NEW m \in List, MoveConstruct(l, m)
  PROVE  l # m /\ Becomes(With(With(Contents(S, value), l, Mapped(S[m], value)), m, <<>>))
<1>1. /\ l \notin alive /\ m \in alive /\ alive' = alive \cup {l} /\ alive \subseteq List /\ heap' = heap
      /\ left' = left /\ right' = right /\ value' = value
      /\ head' = With(With(head, l, head[m]), m, Null)
      /\ tail' = With(With(tail, l, tail[m]), m, Null)
      /\ S[l] = <<>>
  BY NowSays DEF MoveConstruct, fields, With, Now, ListTyped
<1>2. PICK t : t = <<>>  OBVIOUS
<1>3. First(t) = Null /\ Final(t) = Null /\ Members(t) = {} /\ Mapped(t, value) = <<>>
  BY <1>2, EmptyLinked
<1>4. heap' = heap \ (Members(S[l]) \ Members(t))  BY <1>1, <1>2
<1>5. l # m /\ t \in {<<>>, S[l]} /\ l \in alive' /\ m \in alive' /\ alive' \subseteq List
  BY <1>1, <1>2
<1>6. Becomes(With(With(Contents(S, value), l, Mapped(S[m], value)), m, Mapped(t, value)))
  BY <1>1, <1>3, <1>4, <1>5, Hands
<1>7. QED  BY <1>3, <1>5, <1>6

LEMMA MoveAssignList ==
  ASSUME NEW S, Now(S), NEW l \in List, NEW m \in List, MoveAssign(l, m)
  PROVE  IF l = m THEN Becomes(Contents(S, value))
         ELSE Becomes(With(With(Contents(S, value), l, Mapped(S[m], value)), m, <<>>))
<1>1. /\ l \in alive /\ m \in alive /\ alive' = alive /\ alive \subseteq List
      /\ left' = left /\ right' = right /\ value' = value
  BY DEF MoveAssign, fields, Now, ListTyped
<1>2. CASE l = m
  <2>1. head' = head /\ tail' = tail /\ heap' = heap  BY <1>2 DEF MoveAssign
  <2>2. QED  BY <1>1, <1>2, <2>1, StaysList
<1>3. CASE l # m
  <2>1. /\ head' = With(With(head, l, head[m]), m, Null) /\ tail' = With(With(tail, l, tail[m]), m, Null)
        /\ heap' = heap \ Nodes(l)
    BY <1>3 DEF MoveAssign, With
  <2>2. PICK t : t = <<>>  OBVIOUS
  <2>3. First(t) = Null /\ Final(t) = Null /\ Members(t) = {} /\ Mapped(t, value) = <<>>
    BY <2>2, EmptyLinked
  <2>4. heap' = heap \ (Members(S[l]) \ Members(t))  BY <2>1, <2>3, NowMeans
  <2>5. Becomes(With(With(Contents(S, value), l, Mapped(S[m], value)), m, Mapped(t, value)))
    BY <1>1, <1>3, <2>1, <2>2, <2>3, <2>4, Hands
  <2>6. QED  BY <1>3, <2>3, <2>5
<1>4. QED  BY <1>2, <1>3

LEMMA SpliceList ==
  ASSUME NEW S, Now(S), NEW l \in List, NEW m \in List, Splice(l, m)
  PROVE  /\ l # m
         /\ Becomes(With(With(Contents(S, value), l, Mapped(S[l], value) \o Mapped(S[m], value)), m, <<>>))
<1>1. /\ l # m /\ l \in alive /\ m \in alive /\ alive' = alive /\ alive \subseteq List /\ heap' = heap
      /\ value' = value /\ head[m] # Null /\ tail' = With(With(tail, l, tail[m]), m, Null)
  BY DEF Splice, IsEmpty, With, Now, ListTyped
<1>2. PICK a, b, t : a = S[l] /\ b = S[m] /\ t = <<>>  OBVIOUS
<1>3. /\ S \in [List -> Seq(Node)] /\ value \in [Node -> Value] /\ heap \subseteq Node
      /\ left \in Link /\ right \in Link
      /\ head \in [List -> Pointer] /\ tail \in [List -> Pointer]
      /\ Members(a) \subseteq heap /\ Members(b) \subseteq heap /\ Members(a) \cap Members(b) = {}
      /\ Linked(a, left, right) /\ Linked(b, left, right)
      /\ head[m] = First(b) /\ tail[m] = Final(b) /\ head[l] = First(a) /\ tail[l] = Final(a)
      /\ a \in Seq(Node) /\ b \in Seq(Node)
  BY <1>1, <1>2, NowSays
<1>4. First(t) = Null /\ Final(t) = Null /\ Members(t) = {} /\ Mapped(t, value) = <<>>
  BY <1>2, EmptyLinked
<1>5. CASE a = <<>>
  <2>1. head[l] = Null  BY <1>3, <1>5, EndsIn
  <2>2. head' = With(With(head, l, head[m]), m, Null) /\ left' = left /\ right' = right
    BY <2>1 DEF Splice, IsEmpty, With
  <2>3. heap' = heap \ (Members(S[l]) \ Members(t))  BY <1>1, <1>2, <1>5
  <2>4. l \in alive' /\ m \in alive' /\ alive' \subseteq List /\ t \in {<<>>, S[l]}  BY <1>1, <1>2
  <2>5. Becomes(With(With(Contents(S, value), l, Mapped(S[m], value)), m, Mapped(t, value)))
    BY <1>1, <1>4, <2>2, <2>3, <2>4, Hands
  <2>6. Mapped(a, value) \o Mapped(b, value) = Mapped(b, value)
    <3>1. Mapped(a, value) = <<>>  BY <1>5, EmptyLinked
    <3>2. \A x \in Node : value[x] \in Value  BY <1>3
    <3>3. Mapped(b, value) \in Seq(Value)  BY <1>3, <3>2, MappedType
    <3>4. QED  BY <3>1, <3>3, ConcatEmptySeq
  <2>7. QED  BY <1>1, <1>2, <1>4, <2>5, <2>6
<1>6. CASE a # <<>>
  <2>1. /\ head[l] # Null /\ b # <<>> /\ First(b) \in Members(b) /\ Final(a) \in Members(a)
        /\ Members(a) \subseteq Node /\ Members(b) \subseteq Node
    BY <1>1, <1>3, <1>6, EndsIn
  <2>2. /\ right' = With(right, Final(a), First(b)) /\ left' = With(left, First(b), Final(a))
        /\ head' = With(head, m, Null)
    BY <2>1, <1>3 DEF Splice, IsEmpty, With
  <2>3. PICK s : s = a \o b  OBVIOUS
  <2>4. left' \in Link /\ right' \in Link  BY <2>1, <2>2, <1>3 DEF With, Link, Pointer
  <2>5. /\ Linked(s, left', right') /\ Members(s) = Members(a) \cup Members(b)
        /\ First(s) = First(a) /\ Final(s) = Final(b)
    <3>1. PICK K, Q : K = left' /\ Q = right'  OBVIOUS
    <3>2. /\ K \in Link /\ Q \in Link /\ Q = With(right, Final(a), First(b))
          /\ K = With(left, First(b), Final(a))
      BY <2>2, <2>4, <3>1
    <3>3. /\ Linked(a \o b, K, Q) /\ Members(a \o b) = Members(a) \cup Members(b)
          /\ First(a \o b) = First(a) /\ Final(a \o b) = Final(b)
      BY <3>2, <2>1, <1>3, <1>6, JoinLinked
    <3>4. QED  BY <3>1, <3>3, <2>3
  <2>6. head' = With(With(head, l, First(s)), m, First(t)) /\ tail' = With(With(tail, l, Final(s)), m, Final(t))
    BY <1>1, <1>3, <1>4, <2>2, <2>5 DEF With
  <2>7. Linked(t, left', right')  BY <1>2, EmptyLinked
  <2>8. Holds(With(With(S, l, s), m, t), alive', head', tail', heap', left', right')
    <3>1. Holds(S, alive, head, tail, heap, left, right)  BY DEF Now
    <3>2. Members(s) \cap Members(t) = {}  BY <1>4
    <3>3. \A n \in Members(s) \cup Members(t) : n \in Members(S[l]) \/ n \in Members(S[m])
      BY <1>2, <1>4, <2>5
    <3>4. \A n : n \in heap' <=> \/ n \in heap /\ n \notin Members(S[l]) /\ n \notin Members(S[m])
                                 \/ n \in Members(s) \/ n \in Members(t)
      BY <1>1, <1>2, <1>3, <1>4, <2>5
    <3>5. \A n \in Node : n \notin Members(S[l]) /\ n \notin Members(S[m]) => left'[n] = left[n] /\ right'[n] = right[n]
      BY <1>2, <1>3, <2>1, <2>2 DEF With, Link
    <3>6. /\ \A k \in List \ {l, m} : k \in alive' <=> k \in alive
          /\ l \in alive' /\ m \in alive'
      BY <1>1
    <3>7. Holds(With(With(S, l, s), m, t), alive', With(With(head, l, First(s)), m, First(t)),
                With(With(tail, l, Final(s)), m, Final(t)), heap', left', right')
      <4>1. head \in [List -> Pointer] /\ tail \in [List -> Pointer]  BY <1>3
      <4>2. Linked(s, left', right') /\ l # m  BY <1>1, <2>5
      <4>3. PICK A, B, D, K, Q : A = alive /\ B = alive' /\ D = heap' /\ K = left' /\ Q = right'  OBVIOUS
      <4>4. Holds(With(With(S, l, s), m, t), B, With(With(head, l, First(s)), m, First(t)),
                  With(With(tail, l, Final(s)), m, Final(t)), D, K, Q)
        BY <3>1, <3>2, <3>3, <3>4, <3>5, <3>6, <2>7, <4>1, <4>2, <4>3, TwoChange
      <4>5. QED  BY <4>3, <4>4
    <3>8. QED  BY <3>7, <2>6
  <2>9. ListTyped(alive, head, tail, heap, left, right, value)'
    <3>1. head' \in [List -> Pointer] /\ tail' \in [List -> Pointer]
      BY <1>1, <1>3, <2>2 DEF With, Pointer
    <3>2. QED  BY <3>1, <1>1, <1>3, <2>4 DEF ListTyped
  <2>10. Mapped(s, value) = Mapped(a, value) \o Mapped(b, value)  BY <1>3, <2>3, MappedJoin
  <2>11. Becomes(With(With(Contents(S, value), l, Mapped(a, value) \o Mapped(b, value)), m, <<>>))
    BY <1>1, <1>4, <2>8, <2>9, <2>10, BecomesTwo
  <2>12. QED  BY <1>1, <1>2, <2>11
<1>7. QED  BY <1>5, <1>6

-----------------------------------------------------------------------------
(* A step of the lists keeps the invariant, and is a step of ListSpec or   *)
(* none.                                                                   *)
ListInv == \E S : Now(S)

LEMMA ListStep ==
  ASSUME ListInv, Next \/ UNCHANGED vars
  PROVE  ListInv' /\ (Abstract!Next \/ Lists' = Lists)
<1>1. PICK S : Now(S)  BY DEF ListInv
<1>2. PICK C : C = Contents(S, value)  OBVIOUS
<1>3. Lists = C /\ \A l \in List : C[l] = Mapped(S[l], value)  BY <1>1, <1>2, NowMeans DEF Contents
<1>4. ASSUME NEW X, Becomes(X)  PROVE ListInv' /\ Lists' = X
  <2>1. PICK Z : Now(Z)' /\ Contents(Z, value') = X  BY <1>4 DEF Becomes
  <2>2. QED  BY <2>1, NextMeans DEF ListInv
<1>5. alive \subseteq List  BY <1>1 DEF Now, ListTyped
<1>6. PICK v0 \in Value : TRUE  BY ValueAssumption
<1>7. CASE UNCHANGED vars
  <2>1. Becomes(C)  BY <1>1, <1>2, <1>5, <1>7, StaysList DEF vars, fields
  <2>2. QED  BY <2>1, <1>3, <1>4
<1>8. ASSUME NEW l \in List, Construct(l)  PROVE ListInv' /\ Lists' = Lists
  <2>1. Becomes(C)  BY <1>1, <1>2, <1>5, <1>8, StaysList DEF Construct, fields
  <2>2. QED  BY <2>1, <1>3, <1>4
<1>9. ASSUME NEW l \in List, Destroy(l)  PROVE ListInv' /\ Abstract!Clear(l)
  <2>1. Becomes(With(C, l, <<>>))  BY <1>1, <1>2, <1>9, DestroyList
  <2>2. QED  BY <2>1, <1>3, <1>4 DEF With, Lists, Abstract!Clear
<1>10. ASSUME NEW l \in List, PopBack(l)  PROVE ListInv' /\ Abstract!PopBack(l)
  <2>1. S[l] # <<>> /\ Becomes(With(C, l, Front(Mapped(S[l], value))))  BY <1>1, <1>2, <1>10, PopBackList
  <2>2. Lists[l] # <<>>
    <3>1. S[l] \in Seq(Node) /\ \A x \in Node : value[x] \in Value  BY <1>1, NowSays
    <3>2. QED  BY <3>1, <2>1, <1>3, MappedType
  <2>3. ListInv' /\ Lists' = With(Lists, l, Front(Lists[l]))  BY <2>1, <1>3, <1>4
  <2>4. QED  BY <2>2, <2>3 DEF With, Front, Lists, Abstract!PopBack
<1>11. ASSUME NEW l \in List, PopFront(l)  PROVE ListInv' /\ Abstract!PopFront(l)
  <2>1. S[l] # <<>> /\ Becomes(With(C, l, Tail(Mapped(S[l], value))))  BY <1>1, <1>2, <1>11, PopFrontList
  <2>2. Lists[l] # <<>>
    <3>1. S[l] \in Seq(Node) /\ \A x \in Node : value[x] \in Value  BY <1>1, NowSays
    <3>2. QED  BY <3>1, <2>1, <1>3, MappedType
  <2>3. ListInv' /\ Lists' = With(Lists, l, Tail(Lists[l]))  BY <2>1, <1>3, <1>4
  <2>4. QED  BY <2>2, <2>3 DEF With, Lists, Abstract!PopFront
<1>12. ASSUME NEW l \in List, NEW n \in Node, NEW v \in Value, PushBack(l, n, v)
       PROVE  ListInv' /\ Abstract!PushBack(l, v)
  <2>1. Becomes(With(C, l, Append(Mapped(S[l], value), v)))  BY <1>1, <1>2, <1>12, PushBackList
  <2>2. ListInv' /\ Lists' = With(Lists, l, Append(Lists[l], v))  BY <2>1, <1>3, <1>4
  <2>3. QED  BY <2>2 DEF With, Lists, Abstract!PushBack
<1>13. ASSUME NEW l \in List, NEW n \in Node, NEW v \in Value, PushFront(l, n, v)
       PROVE  ListInv' /\ Abstract!PushFront(l, v)
  <2>1. Becomes(With(C, l, <<v>> \o Mapped(S[l], value)))  BY <1>1, <1>2, <1>13, PushFrontList
  <2>2. ListInv' /\ Lists' = With(Lists, l, <<v>> \o Lists[l])  BY <2>1, <1>3, <1>4
  <2>3. QED  BY <2>2 DEF With, Lists, Abstract!PushFront
<1>14. ASSUME NEW l \in List, NEW m \in List, Swap(l, m)  PROVE ListInv' /\ Abstract!Swap(l, m)
  <2>1. Becomes(With(With(C, l, Mapped(S[m], value)), m, Mapped(S[l], value)))
    BY <1>1, <1>2, <1>14, SwapList
  <2>2. ListInv' /\ Lists' = With(With(Lists, l, Lists[m]), m, Lists[l])  BY <2>1, <1>3, <1>4
  <2>3. QED  BY <2>2 DEF With, Lists, Abstract!Swap
<1>15. ASSUME NEW l \in List, NEW m \in List, Splice(l, m)  PROVE ListInv' /\ Abstract!Splice(l, m)
  <2>1. /\ l # m
        /\ Becomes(With(With(C, l, Mapped(S[l], value) \o Mapped(S[m], value)), m, <<>>))
    BY <1>1, <1>2, <1>15, SpliceList
  <2>2. ListInv' /\ Lists' = With(With(Lists, l, Lists[l] \o Lists[m]), m, <<>>)  BY <2>1, <1>3, <1>4
  <2>3. QED  BY <2>1, <2>2 DEF With, Lists, Abstract!Splice
<1>16. ASSUME NEW l \in List, NEW m \in List, MoveConstruct(l, m)  PROVE ListInv' /\ Abstract!Move(l, m)
  <2>1. l # m /\ Becomes(With(With(C, l, Mapped(S[m], value)), m, <<>>))
    BY <1>1, <1>2, <1>16, MoveConstructList
  <2>2. ListInv' /\ Lists' = With(With(Lists, l, Lists[m]), m, <<>>)  BY <2>1, <1>3, <1>4
  <2>3. QED  BY <2>1, <2>2 DEF With, Lists, Abstract!Move
<1>17. ASSUME NEW l \in List, NEW m \in List, MoveAssign(l, m)
       PROVE  ListInv' /\ (Abstract!Move(l, m) \/ Lists' = Lists)
  <2>1. IF l = m THEN Becomes(C) ELSE Becomes(With(With(C, l, Mapped(S[m], value)), m, <<>>))
    BY <1>1, <1>2, <1>17, MoveAssignList
  <2>2. CASE l = m  BY <2>1, <2>2, <1>3, <1>4
  <2>3. CASE l # m
    <3>1. ListInv' /\ Lists' = With(With(Lists, l, Lists[m]), m, <<>>)  BY <2>1, <2>3, <1>3, <1>4
    <3>2. QED  BY <2>3, <3>1 DEF With, Lists, Abstract!Move
  <2>4. QED  BY <2>2, <2>3
<1>18. CASE Next
  <2>1. PICK l \in List :
          \/ Construct(l) \/ Destroy(l) \/ PopBack(l) \/ PopFront(l)
          \/ \E n \in Node, v \in Value : PushBack(l, n, v) \/ PushFront(l, n, v)
          \/ \E m \in List : Swap(l, m) \/ Splice(l, m) \/ MoveConstruct(l, m) \/ MoveAssign(l, m)
    BY <1>18 DEF Next
  <2>2. CASE Construct(l) \/ Destroy(l) \/ PopBack(l) \/ PopFront(l)
    BY <2>2, <1>6, <1>8, <1>9, <1>10, <1>11 DEF Abstract!Next
  <2>3. ASSUME NEW n \in Node, NEW v \in Value, PushBack(l, n, v) \/ PushFront(l, n, v)
        PROVE  ListInv' /\ Abstract!Next
    BY <2>3, <1>12, <1>13 DEF Abstract!Next
  <2>4. ASSUME NEW m \in List, Swap(l, m) \/ Splice(l, m) \/ MoveConstruct(l, m) \/ MoveAssign(l, m)
        PROVE  ListInv' /\ (Abstract!Next \/ Lists' = Lists)
    BY <2>4, <1>6, <1>14, <1>15, <1>16, <1>17 DEF Abstract!Next
  <2>5. QED  BY <2>1, <2>2, <2>3, <2>4
<1>19. QED  BY <1>7, <1>18

LEMMA StepListInv == ListInv /\ [AllNext]_allVars => ListInv' /\ (Abstract!Next \/ Lists' = Lists)
<1> SUFFICES ASSUME ListInv, [AllNext]_allVars  PROVE ListInv' /\ (Abstract!Next \/ Lists' = Lists)
  OBVIOUS
<1>1. Next \/ UNCHANGED vars  BY DEF AllNext, allVars
<1>2. QED  BY <1>1, ListStep

LEMMA InitListInv == AllInit => ListInv /\ Lists = [l \in List |-> <<>>]
<1> SUFFICES ASSUME AllInit  PROVE ListInv /\ Lists = [l \in List |-> <<>>]  OBVIOUS
<1>1. PICK S : S = [l \in List |-> <<>>]  OBVIOUS
<1>2. /\ alive = {} /\ heap = {} /\ head = [l \in List |-> Null] /\ tail = [l \in List |-> Null]
      /\ left = [n \in Node |-> Null] /\ right = [n \in Node |-> Null]
      /\ value = [n \in Node |-> CHOOSE v \in Value : TRUE]
  BY DEF AllInit, Init
<1>3. ListTyped(alive, head, tail, heap, left, right, value)
  <2>1. (CHOOSE v \in Value : TRUE) \in Value  BY ValueAssumption
  <2>2. QED  BY <1>2, <2>1 DEF ListTyped, Link, Pointer
<1>4. S \in [List -> Seq(Node)]
  <2>1. <<>> \in Seq(Node)  OBVIOUS
  <2>2. QED  BY <1>1, <2>1
<1>5. Holds(S, alive, head, tail, heap, left, right)
  <2>1. \A l \in List : S[l] = <<>> /\ Members(S[l]) = {}  BY <1>1, EmptyLinked
  <2>2. \A l \in List : Linked(S[l], left, right) /\ First(S[l]) = Null /\ Final(S[l]) = Null
    BY <1>1, EmptyLinked
  <2>3. QED  BY <1>2, <1>4, <2>1, <2>2 DEF Holds
<1>6. Now(S)  BY <1>3, <1>5 DEF Now
<1>7. Lists = Contents(S, value)  BY <1>6, NowMeans
<1>8. Contents(S, value) = [l \in List |-> <<>>]  BY <1>1, EmptyLinked DEF Contents
<1>9. QED  BY <1>6, <1>7, <1>8 DEF ListInv

(* Whatever the lists are made to do, following right from head ends at    *)
(* tail, left is its inverse, and every node allocated is in exactly one   *)
(* list: nothing leaks, is freed twice or is reached after.                *)
THEOREM ListHeapCorrect == AllSpec => []ListHeapRight
<1>1. ListInv => ListHeapRight
  <2> SUFFICES ASSUME NEW S, Now(S)  PROVE ListHeapRight  BY DEF ListInv
  <2>1. /\ alive \subseteq List /\ heap \subseteq Node
        /\ head \in [List -> Pointer] /\ tail \in [List -> Pointer]
        /\ left \in [Node -> Pointer] /\ right \in [Node -> Pointer] /\ value \in [Node -> Value]
    BY DEF Now, ListTyped, Link
  <2>2. ASSUME NEW l \in List
        PROVE  /\ S[l] \in Seq(Node) /\ Linked(S[l], left, right)
               /\ Visits(head[l]) = S[l] /\ Nodes(l) = Members(S[l])
               /\ head[l] = First(S[l]) /\ tail[l] = Final(S[l])
    BY NowMeans, NowSays
  <2>3. \A l \in List : head[l] = Null <=> tail[l] = Null  BY <2>2, EndsIn
  <2>4. LinksAgree
    <3> SUFFICES ASSUME NEW l \in List, NEW s, s = S[l]
                 PROVE  IF s = <<>> THEN head[l] = Null /\ tail[l] = Null
                        ELSE /\ tail[l] = s[Len(s)] /\ right[tail[l]] = Null
                             /\ \A j \in DOMAIN s : left[s[j]] = IF j = 1 THEN Null ELSE s[j - 1]
      BY <2>2 DEF LinksAgree
    <3>1. /\ s \in Seq(Node) /\ head[l] = First(s) /\ tail[l] = Final(s)
          /\ \A j \in 1 .. Len(s) : left[s[j]] = Before(s, j) /\ right[s[j]] = After(s, j)
      BY <2>2 DEF Linked
    <3>2. CASE s = <<>>  BY <3>1, <3>2 DEF First, Final
    <3>3. CASE s # <<>>
      <4>1. Len(s) \in 1 .. Len(s) /\ DOMAIN s = 1 .. Len(s)  BY <3>1, <3>3
      <4>2. tail[l] = s[Len(s)]  BY <3>1, <3>3 DEF Final
      <4>3. right[tail[l]] = Null  BY <3>1, <4>1, <4>2 DEF After
      <4>4. QED  BY <3>1, <3>3, <4>1, <4>2, <4>3 DEF Before
    <3>4. QED  BY <3>2, <3>3
  <2>5. NodesOwnedOnce
    <3>1. \A n : n \in heap <=> \E l \in List : n \in Members(S[l])  BY DEF Now, Holds
    <3>2. \A l \in List : l \notin alive => Members(S[l]) = {}
      <4>1. \A l \in List : l \notin alive => S[l] = <<>>  BY NowSays
      <4>2. QED  BY <4>1, EmptyLinked
    <3>3. \A l, m \in List : l # m => Members(S[l]) \cap Members(S[m]) = {}  BY NowSays
    <3>4. heap = UNION {Nodes(l) : l \in alive}
      <4>1. ASSUME NEW n \in heap  PROVE \E l \in alive : n \in Nodes(l)
        <5>1. PICK l \in List : n \in Members(S[l])  BY <3>1
        <5>2. QED  BY <5>1, <3>2, <2>2
      <4>2. ASSUME NEW l \in alive, NEW n \in Nodes(l)  PROVE n \in heap
        BY <3>1, <2>1, <2>2
      <4>3. QED  BY <4>1, <4>2
    <3>5. QED  BY <3>3, <3>4, <2>1, <2>2 DEF NodesOwnedOnce
  <2>6. QED  BY <2>1, <2>3, <2>4, <2>5 DEF ListHeapRight, TypeOK
<1>2. AllInit => ListInv  BY InitListInv
<1>3. ListInv /\ [AllNext]_allVars => ListInv'  BY StepListInv
<1>4. QED  BY <1>1, <1>2, <1>3, PTL DEF AllSpec

(* Every method does to the elements what std::list does, whatever nodes   *)
(* it links, takes and frees for it.                                       *)
THEOREM ListImplementsSpec == AllSpec => ImplementsListSpec
<1>1. AllInit => Abstract!Init  BY InitListInv DEF Lists, Abstract!Init
<1>2. ListInv /\ [AllNext]_allVars => [Abstract!Next]_Lists  BY StepListInv
<1>3. AllInit => ListInv  BY InitListInv
<1>4. ListInv /\ [AllNext]_allVars => ListInv'  BY StepListInv
<1>5. QED
  BY <1>1, <1>2, <1>3, <1>4, PTL DEF AllSpec, ImplementsListSpec, Abstract!Spec, Lists
=============================================================================
