----------------------------- MODULE JudgeProofs -----------------------------
(***************************************************************************)
(* Proofs about the library of the judge: testinfo_parse takes a file of   *)
(* any number of lines for what it means, and testinfo_free frees what it  *)
(* has allocated; the checker of redirect-io accepts exactly the right     *)
(* file, whatever the sizes of the files and of the chunks they are read   *)
(* in; a file that is compared by lines loses the white space at its ends  *)
(* and nothing else; and cmd-line.cc takes arguments and values as they are *)
(* and stays inside its buffers, however long the input and however many   *)
(* words it has.                                                           *)
(***************************************************************************)
EXTENDS MCJudge, FiniteSetTheorems, WellFoundedInduction, TLAPS

-----------------------------------------------------------------------------
(* The checker of redirect-io.  Texts are the short sequences of bytes, and *)
(* a chunk and what is behind it are the stream.                           *)
LEMMA TextIs == \A s : s \in R!Text <=> s \in Seq(Byte) /\ Len(s) <= MaxSize
<1> SUFFICES ASSUME NEW s  PROVE s \in R!Text <=> s \in Seq(Byte) /\ Len(s) <= MaxSize  OBVIOUS
<1>1. ASSUME s \in R!Text  PROVE s \in Seq(Byte) /\ Len(s) <= MaxSize
  <2>1. PICK n \in 0 .. MaxSize : s \in [1 .. n -> Byte]  BY <1>1 DEF R!Text
  <2>2. n \in Nat /\ n <= MaxSize  BY <2>1, SizesAssumption
  <2>3. QED  BY <2>1, <2>2
<1>2. ASSUME s \in Seq(Byte), Len(s) <= MaxSize  PROVE s \in R!Text
  <2>1. PICK n \in Nat : n = Len(s) /\ s \in [1 .. n -> Byte]  BY <1>2
  <2>2. n \in 0 .. MaxSize  BY <2>1, <1>2, SizesAssumption
  <2>3. QED  BY <2>1, <2>2 DEF R!Text
<1>3. QED  BY <1>1, <1>2

LEMMA ChunkIs ==
  ASSUME NEW r \in Seq(Byte), NEW s \in Seq(Byte)
  PROVE  /\ r \o R!Front(s, Chunk) \in Seq(Byte) /\ R!Back(s, Chunk) \in Seq(Byte)
         /\ (r \o R!Front(s, Chunk)) \o R!Back(s, Chunk) = r \o s
         /\ Len(r \o R!Front(s, Chunk)) <= Len(r \o s) /\ Len(R!Back(s, Chunk)) <= Len(s)
<1>1. PICK n : n = (IF Len(s) < Chunk THEN Len(s) ELSE Chunk)  OBVIOUS
<1>2. n \in 0 .. Len(s) /\ n \in Nat /\ Len(s) \in Nat /\ Len(r) \in Nat  BY <1>1, SizesAssumption
<1>3. PICK f, g : f = R!Front(s, Chunk) /\ g = R!Back(s, Chunk)  OBVIOUS
<1>4. f \in Seq(Byte) /\ Len(f) = n /\ \A k \in 1 .. n : f[k] = s[k]
  BY <1>1, <1>2, <1>3 DEF R!Front
<1>5. g \in Seq(Byte) /\ Len(g) = Len(s) - n /\ \A k \in 1 .. Len(s) - n : g[k] = s[n + k]
  <2>1. CASE Len(s) < Chunk
    <3>1. n = Len(s)  BY <1>1, <2>1
    <3>2. g = <<>>  BY <1>3, <2>1, SizesAssumption DEF R!Back
    <3>3. QED  BY <3>1, <3>2, <1>2
  <2>2. CASE ~(Len(s) < Chunk)
    <3>1. n = Chunk  BY <1>1, <2>2
    <3>2. g = SubSeq(s, n + 1, Len(s))  BY <1>3, <3>1 DEF R!Back
    <3>3. QED  BY <3>2, <1>2
  <2>3. QED  BY <2>1, <2>2
<1>6. r \o f \in Seq(Byte) /\ Len(r \o f) = Len(r) + n  BY SMTT(30), <1>4
<1>7. (r \o f) \o g = r \o s
  <2>1. PICK u, v : u = (r \o f) \o g /\ v = r \o s  OBVIOUS
  <2>2. u \in Seq(Byte) /\ v \in Seq(Byte) /\ Len(u) = Len(r) + Len(s) /\ Len(v) = Len(r) + Len(s)
    BY <2>1, <1>2, <1>5, <1>6
  <2>3. ASSUME NEW k \in 1 .. Len(r) + Len(s)  PROVE u[k] = v[k]
    <3>1. CASE k <= Len(r)
      <4>1. (r \o f)[k] = r[k] /\ k <= Len(r) + n  BY <3>1, <1>2, <1>4
      <4>2. u[k] = (r \o f)[k]  BY <4>1, <2>1, <1>2, <1>5, <1>6
      <4>3. v[k] = r[k]  BY <3>1, <2>1
      <4>4. QED  BY <4>1, <4>2, <4>3
    <3>2. CASE Len(r) < k /\ k <= Len(r) + n
      <4>1. k - Len(r) \in 1 .. n  BY <3>2, <1>2
      <4>2. (r \o f)[k] = f[k - Len(r)]  BY <4>1, <3>2, <1>2, <1>4
      <4>3. u[k] = (r \o f)[k]  BY <3>2, <2>1, <1>2, <1>5, <1>6
      <4>4. v[k] = s[k - Len(r)]  BY <3>2, <2>1, <1>2
      <4>5. QED  BY <4>1, <4>2, <4>3, <4>4, <1>4
    <3>3. CASE Len(r) + n < k
      <4>1. k - Len(r) - n \in 1 .. Len(s) - n  BY <3>3, <1>2
      <4>2. u[k] = g[k - (Len(r) + n)]  BY <3>3, <2>1, <1>2, <1>5, <1>6
      <4>3. k - (Len(r) + n) = k - Len(r) - n /\ n + (k - Len(r) - n) = k - Len(r)  BY <1>2
      <4>4. v[k] = s[k - Len(r)]  BY <3>3, <2>1, <1>2
      <4>5. QED  BY <4>1, <4>2, <4>3, <4>4, <1>5
    <3>4. QED  BY <3>1, <3>2, <3>3, <1>2
  <2>4. u = v  BY <2>2, <2>3
  <2>5. QED  BY <2>1, <2>4
<1>8. Len(r \o s) = Len(r) + Len(s)  OBVIOUS
<1>9. QED  BY <1>2, <1>3, <1>5, <1>6, <1>7, <1>8

Reading == cpc \in {"read corr", "read user", "compare"}

CheckerInv ==
  /\ R!TypeOK /\ user \in R!Text /\ correct \in R!Text /\ info \in {"ok", "few", "failed"}
  /\ readable \subseteq {"user", "correct"}
  /\ cpc \in {"main", "stat", "open"} => stream = <<>> /\ corr_s = <<>> /\ user_s = <<>>
  /\ cpc \in {"stat", "open"} \/ Reading => info = "ok"
  /\ cpc = "open" \/ Reading => output.sort = "regular" /\ output.mode # "other"
  /\ Reading => readable = {"user", "correct"}
  /\ cpc = "read corr" => corr_s \o stream = correct /\ user_s = <<>>
  /\ cpc \in {"read user", "compare"} => corr_s = correct
  /\ cpc = "read user" => user_s \o stream = user
  /\ cpc = "compare" => user_s = user
  /\ R!OkMeansEqual

LEMMA CheckerInit == (R!Input \/ NoOutput) /\ R!Start => CheckerInv
<1> SUFFICES ASSUME R!Input \/ NoOutput, R!Start  PROVE CheckerInv  OBVIOUS
<1>1. <<>> \in R!Text
  <2>1. <<>> \in Seq(Byte) /\ Len(<<>>) <= MaxSize  BY SizesAssumption
  <2>2. QED  BY <2>1, TextIs
<1>2. /\ user \in R!Text /\ correct \in R!Text /\ info \in {"ok", "few", "failed"}
      /\ readable \subseteq {"user", "correct"}
  BY <1>1 DEF R!Input, NoOutput
<1>3. QED  BY <1>1, <1>2 DEF CheckerInv, R!TypeOK, R!Start, Reading, R!OkMeansEqual

(* One step of reading: a text and the rest of the stream behind it.       *)
LEMMA ReadOn ==
  ASSUME NEW s, NEW r, NEW t, s \in R!Text, r \in R!Text, t \in R!Text, r \o s = t
  PROVE  /\ r \o R!Front(s, Chunk) \in R!Text /\ R!Back(s, Chunk) \in R!Text
         /\ (r \o R!Front(s, Chunk)) \o R!Back(s, Chunk) = t
<1>1. s \in Seq(Byte) /\ r \in Seq(Byte) /\ Len(t) <= MaxSize /\ Len(s) <= MaxSize  BY TextIs
<1>2. PICK u, v : u = r \o R!Front(s, Chunk) /\ v = R!Back(s, Chunk)  OBVIOUS
<1>3. u \in Seq(Byte) /\ v \in Seq(Byte) /\ u \o v = t /\ Len(u) <= Len(t) /\ Len(v) <= Len(s)
  BY <1>1, <1>2, ChunkIs
<1>4. Len(u) \in Nat /\ Len(v) \in Nat /\ Len(s) \in Nat /\ Len(t) \in Nat
  BY <1>1, <1>3, TextIs
<1>5. Len(u) <= MaxSize /\ Len(v) <= MaxSize  BY <1>1, <1>3, <1>4, SizesAssumption
<1>6. u \in R!Text /\ v \in R!Text  BY <1>3, <1>5, TextIs
<1>7. QED  BY <1>2, <1>3, <1>6

LEMMA CheckerStep == CheckerInv /\ [R!Next]_(R!vars) => CheckerInv'
<1> SUFFICES ASSUME CheckerInv, [R!Next]_(R!vars)  PROVE CheckerInv'  OBVIOUS
<1>1. CASE R!Main \/ R!Stat
  BY <1>1 DEF R!Main, R!Stat, R!Exit, R!inputs, CheckerInv, R!TypeOK, Reading, R!OkMeansEqual
<1>2. CASE R!Open
  <2>1. CASE readable = {"user", "correct"}
    <3>1. /\ cpc = "open" /\ cpc' = "read corr" /\ stream' = correct
          /\ UNCHANGED <<R!inputs, corr_s, user_s, code>>
      <4>1. ~ (readable = {"user"}) /\ ~ ("user" \notin readable)  BY <2>1
      <4>2. QED  BY <1>2, <2>1, <4>1 DEF R!Open
    <3>4. corr_s = <<>> /\ user_s = <<>>  BY <3>1 DEF CheckerInv
    <3>2. <<>> \o correct = correct
      <4>1. correct \in Seq(Byte)  BY TextIs DEF CheckerInv
      <4>2. QED  BY <4>1
    <3>3. QED  BY <2>1, <3>1, <3>2, <3>4 DEF CheckerInv, R!TypeOK, Reading, R!OkMeansEqual, R!inputs
  <2>2. CASE readable = {"user"} \/ "user" \notin readable
    <3>1. readable # {"user", "correct"} /\ (readable = {"user"} => "correct" \notin readable)
      BY <2>2
    <3>2. cpc' = "exited" /\ UNCHANGED <<R!inputs, stream, corr_s, user_s>> /\ cpc = "open"
          /\ code' \in {"WA", "CF"} /\ (code' = "CF" => readable = {"user"})
      BY <1>2, <2>2, <3>1 DEF R!Open, R!Exit
    <3>3. QED
      BY <3>1, <3>2 DEF R!inputs, CheckerInv, R!TypeOK, Reading, R!OkMeansEqual
  <2>3. readable \subseteq {"user", "correct"}  BY DEF CheckerInv
  <2>4. readable = {"user", "correct"} \/ readable = {"user"} \/ "user" \notin readable
    BY <2>3
  <2>5. QED  BY <2>1, <2>2, <2>4
<1>3. CASE R!ReadChunk
  <2>1. cpc' = cpc /\ code' = code /\ UNCHANGED R!inputs /\ stream' = R!Back(stream, Chunk)
    BY <1>3 DEF R!ReadChunk
  <2>2. stream \in R!Text /\ corr_s \in R!Text /\ user_s \in R!Text /\ user \in R!Text /\ correct \in R!Text
    BY DEF CheckerInv, R!TypeOK
  <2>3. CASE cpc = "read corr"
    <3>1. corr_s' = corr_s \o R!Front(stream, Chunk) /\ user_s' = user_s
      BY <1>3, <2>3 DEF R!ReadChunk
    <3>2. corr_s \o stream = correct  BY <2>3 DEF CheckerInv
    <3>3. corr_s' \in R!Text /\ stream' \in R!Text /\ corr_s' \o stream' = correct
      BY <2>1, <2>2, <3>1, <3>2, ReadOn
    <3>4. QED  BY <2>1, <2>3, <3>1, <3>3 DEF CheckerInv, R!TypeOK, Reading, R!OkMeansEqual, R!inputs, R!Text
  <2>4. CASE cpc = "read user"
    <3>1. user_s' = user_s \o R!Front(stream, Chunk) /\ corr_s' = corr_s
      BY <1>3, <2>4 DEF R!ReadChunk
    <3>2. user_s \o stream = user  BY <2>4 DEF CheckerInv
    <3>3. user_s' \in R!Text /\ stream' \in R!Text /\ user_s' \o stream' = user
      BY <2>1, <2>2, <3>1, <3>2, ReadOn
    <3>4. QED  BY <2>1, <2>4, <3>1, <3>3 DEF CheckerInv, R!TypeOK, Reading, R!OkMeansEqual, R!inputs, R!Text
  <2>5. QED  BY <1>3, <2>3, <2>4 DEF R!ReadChunk
<1>4. CASE R!ReadEnds
  <2>1. stream = <<>> /\ code' = code /\ corr_s' = corr_s /\ user_s' = user_s /\ UNCHANGED R!inputs
    BY <1>4 DEF R!ReadEnds
  <2>2. corr_s \in Seq(Byte) /\ user_s \in Seq(Byte) /\ user \in Seq(Byte)
    BY TextIs DEF CheckerInv, R!TypeOK
  <2>3. corr_s \o <<>> = corr_s /\ user_s \o <<>> = user_s /\ <<>> \o user = user  BY <2>2
  <2>4. CASE cpc = "read corr"
    <3>1. cpc' = "read user" /\ stream' = user  BY <1>4, <2>4 DEF R!ReadEnds
    <3>2. QED  BY <2>1, <2>3, <2>4, <3>1 DEF CheckerInv, R!TypeOK, Reading, R!OkMeansEqual, R!inputs, R!Text
  <2>5. CASE cpc = "read user"
    <3>1. cpc' = "compare" /\ stream' = stream  BY <1>4, <2>5 DEF R!ReadEnds
    <3>2. QED  BY <2>1, <2>3, <2>5, <3>1 DEF CheckerInv, R!TypeOK, Reading, R!OkMeansEqual, R!inputs, R!Text
  <2>6. QED  BY <1>4, <2>4, <2>5 DEF R!ReadEnds
<1>5. CASE R!Compare
  <2>1. PICK e : e = (Len(user) = Len(correct) /\ \A k \in DOMAIN correct : user[k] = correct[k])  OBVIOUS
  <2>2. e <=> user = correct
    <3>1. user \in Seq(Byte) /\ correct \in Seq(Byte)  BY TextIs DEF CheckerInv
    <3>2. (\A k \in DOMAIN correct : user[k] = correct[k]) /\ Len(user) = Len(correct) => user = correct
      <4>1. PICK n \in Nat : n = Len(correct) /\ DOMAIN correct = 1 .. n  BY <3>1
      <4>2. QED  BY <3>1, <4>1
    <3>3. user = correct => \A k \in DOMAIN correct : user[k] = correct[k]  OBVIOUS
    <3>4. QED  BY <2>1, <3>2, <3>3
  <2>3. cpc = "compare" /\ user_s = user /\ corr_s = correct /\ info = "ok"
        /\ readable = {"user", "correct"} /\ output.sort = "regular" /\ output.mode # "other"
    BY <1>5 DEF R!Compare, CheckerInv, Reading
  <2>4. cpc' = "exited" /\ code' = (IF e THEN "OK" ELSE "WA") /\ UNCHANGED <<R!inputs, stream, corr_s, user_s>>
    BY <1>5, <2>1, <2>3 DEF R!Compare, R!Exit
  <2>5. QED  BY <2>2, <2>3, <2>4 DEF CheckerInv, R!TypeOK, Reading, R!OkMeansEqual, R!inputs, R!Text
<1>6. CASE UNCHANGED R!vars
  BY <1>6 DEF R!vars, R!inputs, CheckerInv, R!TypeOK, Reading, R!OkMeansEqual, R!Text
<1>7. QED  BY <1>1, <1>2, <1>3, <1>4, <1>5, <1>6 DEF R!Next

-----------------------------------------------------------------------------
(* testinfo_parse.  What a file of n lines says about a field, and what of *)
(* it stays allocated.                                                     *)
Latest(fl, f, n, k) ==
  /\ k \in 0 .. n /\ (k # 0 => fl[k].name = f)
  /\ \A j \in 1 .. n : fl[j].name = f => j <= k

NotAgain(fl, j, k) ==
  fl[j].name = fl[k].name =>
    fl[j].name \notin {"params"} \cup T!String /\ (fl[j].name = "environ" => fl[j].words = 0)

Sound(fl, n) ==
  /\ \A k \in 1 .. n : T!WellFormed(fl[k])
  /\ \A j, k \in 1 .. n : j < k => NotAgain(fl, j, k)

Blocks(k, n) == {<<k, 0>>} \cup {k} \X (1 .. n)
KeptOf(fl, k) ==
  IF fl[k].name \in T!Array THEN Blocks(k, fl[k].words)
  ELSE IF fl[k].name \in T!String THEN {<<k, 1>>} ELSE {}
Kept(fl, n) == UNION {KeptOf(fl, k) : k \in 1 .. n}

(* What has been read so far is sound, and is what the fields say.         *)
FieldsRight ==
  /\ \A f \in T!Array : /\ Latest(file, f, at, array[f].of)
                        /\ array[f].u = IF array[f].of = 0 THEN 0 ELSE file[array[f].of].words
  /\ \A f \in T!String : Latest(file, f, at, string[f])
  /\ \A f \in T!Number \cup T!Flag : Latest(file, f, at, number[f])

Cleared ==
  /\ array = [f \in T!Array |-> T!Unset]
  /\ string = [f \in T!String |-> 0] /\ number = [f \in T!Number \cup T!Flag |-> 0]

InfoInv ==
  /\ T!TypeOK /\ file \in Seq(T!Line) /\ Len(file) <= MaxLines /\ stray = FALSE
  /\ ipc \in {"parse", "OK"} => Sound(file, at) /\ FieldsRight /\ heap = Kept(file, at)
  /\ ipc = "OK" => at = Len(file)
  /\ ipc \in T!Errors => ~Sound(file, Len(file))
  /\ ipc \notin {"parse", "OK"} => Cleared

LEMMA LineIs ==
  \A l \in T!Line :
    /\ l.words \in 0 .. 2 /\ l.name \in T!Name \cup {"none"}
    /\ l.name = "none" => l.error = "blank" \/ l.error \in T!Errors
<1> SUFFICES ASSUME NEW l \in T!Line
             PROVE  /\ l.words \in 0 .. 2 /\ l.name \in T!Name \cup {"none"}
                    /\ l.name = "none" => l.error = "blank" \/ l.error \in T!Errors
  OBVIOUS
<1>1. "none" \notin T!Name  BY DEF T!Name, T!Array, T!String, T!Number, T!Flag
<1>2. CASE l \in [name : T!Name, words : 0 .. 2, inRange : BOOLEAN, error : {"none"}]
  <2>1. l.words \in 0 .. 2 /\ l.name \in T!Name  BY <1>2
  <2>2. QED  BY <1>1, <2>1
<1>3. CASE l \in [name : {"none"}, words : {0}, inRange : {FALSE},
                 error : {"blank", "IDENT_EXPECTED", "EQUAL_EXPECTED", "UNCLOSED_QUOTE"}]
  <2>1. l.words = 0 /\ l.name = "none"
        /\ l.error \in {"blank", "IDENT_EXPECTED", "EQUAL_EXPECTED", "UNCLOSED_QUOTE"}
    BY <1>3
  <2>2. 0 \in 0 .. 2  OBVIOUS
  <2>3. QED  BY <2>1, <2>2 DEF T!Errors
<1>4. QED  BY <1>2, <1>3 DEF T!Line

LEMMA SoundNext ==
  ASSUME NEW fl, NEW n \in Nat, Sound(fl, n), T!WellFormed(fl[n + 1]),
         \A j \in 1 .. n : NotAgain(fl, j, n + 1)
  PROVE  Sound(fl, n + 1)
<1>1. \A k \in 1 .. n + 1 : k \in 1 .. n \/ k = n + 1  OBVIOUS
<1>2. \A k \in 1 .. n + 1 : T!WellFormed(fl[k])  BY <1>1 DEF Sound
<1>3. ASSUME NEW j \in 1 .. n + 1, NEW k \in 1 .. n + 1, j < k  PROVE NotAgain(fl, j, k)
  <2>1. j \in 1 .. n  BY <1>3
  <2>2. QED  BY <2>1, <1>1, <1>3 DEF Sound
<1>4. QED  BY <1>2, <1>3 DEF Sound

LEMMA NotSound ==
  ASSUME NEW fl, NEW n \in Nat, NEW k \in 1 .. n,
         ~T!WellFormed(fl[k]) \/ \E j \in 1 .. n : j < k /\ ~NotAgain(fl, j, k)
  PROVE  ~Sound(fl, n)
BY DEF Sound

LEMMA LatestNext ==
  ASSUME NEW fl, NEW f, NEW n \in Nat, NEW k, Latest(fl, f, n, k)
  PROVE  IF fl[n + 1].name = f THEN Latest(fl, f, n + 1, n + 1) ELSE Latest(fl, f, n + 1, k)
<1>1. \A j \in 1 .. n + 1 : j \in 1 .. n \/ j = n + 1  OBVIOUS
<1>2. k \in 0 .. n /\ k \in 0 .. n + 1 /\ n + 1 \in 0 .. n + 1  BY DEF Latest
<1>3. \A j \in 1 .. n + 1 : j <= n + 1  OBVIOUS
<1>4. CASE fl[n + 1].name = f  BY <1>2, <1>3, <1>4 DEF Latest
<1>5. CASE fl[n + 1].name # f  BY <1>1, <1>2, <1>5 DEF Latest
<1>6. QED  BY <1>4, <1>5

LEMMA KeptNext ==
  ASSUME NEW fl, NEW n \in Nat
  PROVE  Kept(fl, n + 1) = Kept(fl, n) \cup KeptOf(fl, n + 1)
<1>1. 1 .. n + 1 = (1 .. n) \cup {n + 1}  OBVIOUS
<1>2. QED  BY <1>1 DEF Kept

LEMMA KeptTyped ==
  ASSUME NEW fl \in Seq(T!Line), NEW n \in 0 .. Len(fl), Len(fl) <= MaxLines
  PROVE  Kept(fl, n) \subseteq (1 .. MaxLines) \X (0 .. 2)
<1>1. ASSUME NEW k \in 1 .. n  PROVE KeptOf(fl, k) \subseteq (1 .. MaxLines) \X (0 .. 2)
  <2>1. k \in 1 .. Len(fl) /\ k \in 1 .. MaxLines  BY SizesAssumption
  <2>2. fl[k] \in T!Line  BY <2>1
  <2>3. fl[k].words \in 0 .. 2  BY <2>2, LineIs
  <2>4. 1 .. fl[k].words \subseteq 0 .. 2  BY <2>3
  <2>5. QED  BY <2>1, <2>4 DEF KeptOf, Blocks
<1>2. QED  BY <1>1 DEF Kept

LEMMA CmdIs == \A k : T!Cmd(k) = Blocks(k, file[k].words)
BY DEF T!Cmd, T!Vector, T!Words, Blocks

LEMMA InfoInit == (T!Input \/ NoInfo) /\ T!Start => InfoInv
<1> SUFFICES ASSUME T!Input \/ NoInfo, T!Start  PROVE InfoInv  OBVIOUS
<1>1. file \in Seq(T!Line) /\ Len(file) <= MaxLines
  <2>1. CASE T!Input
    <3>1. PICK n \in 0 .. MaxLines : file \in [1 .. n -> T!Line]  BY <2>1 DEF T!Input
    <3>2. n \in Nat /\ n <= MaxLines  BY <3>1, SizesAssumption
    <3>3. QED  BY <3>1, <3>2
  <2>2. CASE NoInfo  BY <2>2, SizesAssumption DEF NoInfo
  <2>3. QED  BY <2>1, <2>2
<1>2. at = 0 /\ heap = {} /\ stray = FALSE /\ ipc = "parse" /\ Cleared  BY DEF T!Start, Cleared
<1>3. 0 \in 0 .. MaxLines /\ 0 \in 0 .. Len(file) /\ 0 \in 0 .. 2 /\ 1 .. 0 = {} /\ 0 \in 0 .. 0
  BY <1>1, SizesAssumption
<1>4. T!TypeOK  BY <1>2, <1>3 DEF Cleared, T!TypeOK, T!Unset
<1>5. Sound(file, at) /\ FieldsRight /\ heap = Kept(file, at)
  BY <1>2, <1>3 DEF Sound, FieldsRight, Latest, Kept, Cleared, T!Unset
<1>6. QED  BY <1>1, <1>2, <1>4, <1>5 DEF InfoInv, T!Errors

(* A line that is refused, and that therefore is wrong.                    *)
LEMMA FailStep ==
  ASSUME InfoInv, ipc = "parse", NEW e \in T!Errors, T!Fail(e), file' = file, at' \in 0 .. Len(file),
         heap' \subseteq heap \cup T!Cmd(at + 1), stray' = FALSE, at + 1 \in 1 .. Len(file),
         ~T!WellFormed(file[at + 1]) \/ \E j \in 1 .. at : ~NotAgain(file, j, at + 1)
  PROVE  InfoInv'
<1>1. PICK n : n = at + 1  OBVIOUS
<1>2. file \in Seq(T!Line) /\ Len(file) <= MaxLines /\ Len(file) \in Nat /\ at \in 0 .. Len(file)
      /\ heap \subseteq (1 .. MaxLines) \X (0 .. 2)
  BY DEF InfoInv, T!TypeOK
<1>3. n \in 1 .. Len(file) /\ n \in 1 .. MaxLines /\ at \in Nat  BY <1>1, <1>2, SizesAssumption
<1>4. ~Sound(file, Len(file))
  <2>1. \A j \in 1 .. at : j \in 1 .. Len(file) /\ j < n  BY <1>1, <1>2, <1>3
  <2>2. QED  BY <1>1, <1>2, <1>3, <2>1, NotSound
<1>5. ipc' = e /\ e \notin {"parse", "OK"} /\ Cleared'
  BY DEF T!Fail, T!Zeroed, Cleared, T!Errors, T!Array, T!String, T!Number, T!Flag, T!Unset
<1>6. heap' \subseteq (1 .. MaxLines) \X (0 .. 2)
  <2>1. file[n] \in T!Line  BY <1>2, <1>3
  <2>2. file[n].words \in 0 .. 2  BY <2>1, LineIs
  <2>3. 1 .. file[n].words \subseteq 0 .. 2  BY <2>2
  <2>4. Blocks(n, file[n].words) \subseteq (1 .. MaxLines) \X (0 .. 2)  BY <1>3, <2>3 DEF Blocks
  <2>5. QED  BY <1>1, <1>2, <2>4, CmdIs
<1>7. T!TypeOK'
  <2>1. 0 \in 0 .. MaxLines /\ 0 \in 0 .. 2  BY SizesAssumption
  <2>2. QED
    BY <1>5, <1>6, <2>1 DEF Cleared, T!TypeOK, T!Unset, T!Array, T!String, T!Number, T!Flag, T!Errors
<1>8. QED  BY <1>2, <1>4, <1>5, <1>7 DEF InfoInv, T!Errors, T!Line, T!Name, T!Array, T!String, T!Number, T!Flag

LEMMA RefuseStep ==
  ASSUME InfoInv, NEW f, T!At({f}), NEW e \in T!Errors, T!Refuse(at + 1, e),
         ~T!WellFormed(file[at + 1]) \/ \E j \in 1 .. at : ~NotAgain(file, j, at + 1)
  PROVE  InfoInv'
<1>1. ipc = "parse" /\ at < Len(file) /\ at' = at + 1 /\ file' = file /\ T!Fail(e)
      /\ T!Free(T!Cmd(at + 1), heap \cup T!Cmd(at + 1)) /\ stray = FALSE
      /\ at \in 0 .. Len(file) /\ file \in Seq(T!Line)
  BY DEF T!At, T!Refuse, InfoInv, T!TypeOK
<1>2. at + 1 \in 1 .. Len(file) /\ at' \in 0 .. Len(file)  BY <1>1
<1>3. PICK C : C = T!Cmd(at + 1)  OBVIOUS
<1>4. heap' = (heap \cup C) \ C /\ stray' = (stray \/ ~ (C \subseteq heap \cup C))
  BY <1>1, <1>3 DEF T!Free
<1>5. stray' = FALSE /\ heap' \subseteq heap \cup C  BY <1>1, <1>4
<1>6. QED  BY <1>1, <1>2, <1>3, <1>5, FailStep

(* A line that is taken.                                                   *)
LEMMA TakeStep ==
  ASSUME InfoInv, ipc = "parse", at < Len(file), at' = at + 1, file' = file, stray' = FALSE, ipc' = ipc,
         T!WellFormed(file[at + 1]), \A j \in 1 .. at : NotAgain(file, j, at + 1),
         heap' = heap \cup KeptOf(file, at + 1),
         \A f \in T!Array : array'[f] = IF file[at + 1].name = f
                                          THEN [u |-> file[at + 1].words, of |-> at + 1] ELSE array[f],
         \A f \in T!String : string'[f] = IF file[at + 1].name = f THEN at + 1 ELSE string[f],
         \A f \in T!Number \cup T!Flag : number'[f] = IF file[at + 1].name = f THEN at + 1 ELSE number[f],
         DOMAIN array' = T!Array, DOMAIN string' = T!String, DOMAIN number' = T!Number \cup T!Flag,
         array' = [f \in DOMAIN array' |-> array'[f]], string' = [f \in DOMAIN string' |-> string'[f]],
         number' = [f \in DOMAIN number' |-> number'[f]]
  PROVE  InfoInv'
<1>1. PICK n : n = at + 1  OBVIOUS
<1>2. /\ file \in Seq(T!Line) /\ Len(file) <= MaxLines /\ Len(file) \in Nat /\ at \in 0 .. Len(file)
      /\ array \in [T!Array -> [u : 0 .. 2, of : 0 .. MaxLines]]
      /\ string \in [T!String -> 0 .. MaxLines] /\ number \in [T!Number \cup T!Flag -> 0 .. MaxLines]
      /\ Sound(file, at) /\ FieldsRight /\ heap = Kept(file, at)
  BY DEF InfoInv, T!TypeOK
<1>3. n \in 1 .. Len(file) /\ n \in 0 .. Len(file) /\ n \in 0 .. MaxLines /\ at \in Nat /\ n # 0
  BY <1>1, <1>2, SizesAssumption
<1>4. file[n] \in T!Line /\ file[n].words \in 0 .. 2
  <2>1. file[n] \in T!Line  BY <1>2, <1>3
  <2>2. QED  BY <2>1, LineIs
<1>5. Sound(file, n)  BY <1>1, <1>2, <1>3, SoundNext
<1>6. heap' = Kept(file, n)  BY <1>1, <1>2, <1>3, KeptNext
<1>7. /\ \A f \in T!Array : /\ Latest(file, f, n, array'[f].of)
                            /\ array'[f].u = IF array'[f].of = 0 THEN 0 ELSE file[array'[f].of].words
      /\ \A f \in T!String : Latest(file, f, n, string'[f])
      /\ \A f \in T!Number \cup T!Flag : Latest(file, f, n, number'[f])
  <2>1. ASSUME NEW f \in T!Array
        PROVE  /\ Latest(file, f, n, array'[f].of)
               /\ array'[f].u = IF array'[f].of = 0 THEN 0 ELSE file[array'[f].of].words
    <3>1. Latest(file, f, at, array[f].of)  BY <1>2 DEF FieldsRight
    <3>2. CASE file[n].name = f
      <4>1. array'[f].of = n /\ array'[f].u = file[n].words  BY <1>1, <3>2
      <4>2. QED  BY <1>1, <1>3, <3>1, <3>2, <4>1, LatestNext
    <3>3. CASE file[n].name # f
      <4>1. array'[f] = array[f]  BY <1>1, <3>3
      <4>2. Latest(file, f, n, array[f].of)  BY <1>1, <1>3, <3>1, <3>3, LatestNext
      <4>3. array[f].u = IF array[f].of = 0 THEN 0 ELSE file[array[f].of].words  BY <1>2 DEF FieldsRight
      <4>4. QED  BY <4>1, <4>2, <4>3
    <3>4. QED  BY <3>2, <3>3
  <2>2. ASSUME NEW f \in T!String  PROVE Latest(file, f, n, string'[f])
    <3>1. Latest(file, f, at, string[f])  BY <1>2 DEF FieldsRight
    <3>2. QED  BY <1>1, <1>3, <3>1, LatestNext
  <2>3. ASSUME NEW f \in T!Number \cup T!Flag  PROVE Latest(file, f, n, number'[f])
    <3>1. Latest(file, f, at, number[f])  BY <1>2 DEF FieldsRight
    <3>2. QED  BY <1>1, <1>3, <3>1, LatestNext
  <2>4. QED  BY <2>1, <2>2, <2>3
<1>8. /\ array' \in [T!Array -> [u : 0 .. 2, of : 0 .. MaxLines]]
      /\ string' \in [T!String -> 0 .. MaxLines] /\ number' \in [T!Number \cup T!Flag -> 0 .. MaxLines]
  <2>1. \A f \in T!Array : array'[f] \in [u : 0 .. 2, of : 0 .. MaxLines]  BY <1>1, <1>2, <1>3, <1>4
  <2>2. \A f \in T!String : string'[f] \in 0 .. MaxLines  BY <1>1, <1>2, <1>3
  <2>3. \A f \in T!Number \cup T!Flag : number'[f] \in 0 .. MaxLines  BY <1>1, <1>2, <1>3
  <2>4. QED  BY <2>1, <2>2, <2>3
<1>9. heap' \subseteq (1 .. MaxLines) \X (0 .. 2)  BY <1>2, <1>3, <1>6, KeptTyped
<1>10. FieldsRight'  BY <1>1, <1>7 DEF FieldsRight, T!Array, T!String, T!Number, T!Flag
<1>11. T!TypeOK'
  BY <1>1, <1>3, <1>8, <1>9 DEF T!TypeOK, T!Array, T!String, T!Number, T!Flag, T!Errors
<1>12. QED
  BY <1>1, <1>2, <1>5, <1>6, <1>10, <1>11 DEF InfoInv, T!Errors, T!Line, T!Name, T!Array, T!String, T!Number, T!Flag

-----------------------------------------------------------------------------
(* What At says, the prefix of every line that is read.                    *)
LEMMA AtIs ==
  ASSUME InfoInv, NEW f, T!At({f})
  PROVE  /\ ipc = "parse" /\ at < Len(file) /\ at' = at + 1 /\ file' = file /\ at \in Nat
         /\ file[at + 1].name = f /\ file[at + 1] \in T!Line /\ at + 1 \in 1 .. Len(file)
         /\ stray = FALSE /\ Sound(file, at) /\ FieldsRight /\ heap = Kept(file, at)
<1>1. ipc = "parse" /\ at < Len(file) /\ at' = at + 1 /\ file' = file /\ file[at + 1].name = f  BY DEF T!At
<1>2. at \in 0 .. Len(file) /\ file \in Seq(T!Line) /\ Len(file) \in Nat  BY DEF InfoInv, T!TypeOK
<1>3. at + 1 \in 1 .. Len(file)  BY <1>1, <1>2
<1>4. file[at + 1] \in T!Line  BY <1>2, <1>3
<1>5. QED  BY <1>1, <1>2, <1>3, <1>4 DEF InfoInv

LEMMA Distinct ==
  /\ T!Array = {"params", "environ"} /\ T!String = {"comment"} /\ T!Number = {"exit_code"}
  /\ T!Flag = {"check_stderr"}
  /\ \A e \in {"VAR_REDEFINED", "EMPTY_VALUE", "MULTIPLE_VALUE", "INVALID_VALUE", "INVALID_VAR_NAME"} :
       e \in T!Errors
BY DEF T!Array, T!String, T!Number, T!Flag, T!Errors

LEMMA Typed ==
  ASSUME InfoInv
  PROVE  /\ array = [f \in T!Array |-> array[f]] /\ string = [f \in T!String |-> string[f]]
         /\ number = [f \in T!Number \cup T!Flag |-> number[f]]
         /\ DOMAIN array = T!Array /\ DOMAIN string = T!String /\ DOMAIN number = T!Number \cup T!Flag
BY DEF InfoInv, T!TypeOK

LEMMA BlankStep == InfoInv /\ T!Blank => InfoInv'
<1> SUFFICES ASSUME InfoInv, T!Blank  PROVE InfoInv'  OBVIOUS
<1>1. T!At({"none"}) /\ file[at + 1].error = "blank" /\ UNCHANGED <<T!fields, heap, stray, ipc>>
  BY DEF T!Blank
<1>2. /\ ipc = "parse" /\ at < Len(file) /\ at' = at + 1 /\ file' = file /\ stray = FALSE
      /\ file[at + 1].name = "none"
  BY <1>1, AtIs
<1>3. array' = array /\ string' = string /\ number' = number /\ heap' = heap /\ stray' = stray /\ ipc' = ipc
  BY <1>1 DEF T!fields
<1>4. T!WellFormed(file[at + 1])  BY <1>1, <1>2, Distinct DEF T!WellFormed
<1>5. \A j \in 1 .. at : NotAgain(file, j, at + 1)  BY <1>2, Distinct DEF NotAgain
<1>6. heap' = heap \cup KeptOf(file, at + 1)  BY <1>2, <1>3, Distinct DEF KeptOf
<1>7. /\ \A f \in T!Array : file[at + 1].name # f /\ array'[f] = array[f]
      /\ \A f \in T!String : file[at + 1].name # f /\ string'[f] = string[f]
      /\ \A f \in T!Number \cup T!Flag : file[at + 1].name # f /\ number'[f] = number[f]
  BY <1>2, <1>3, Distinct
<1>8. /\ array' = [f \in DOMAIN array' |-> array'[f]] /\ string' = [f \in DOMAIN string' |-> string'[f]]
      /\ number' = [f \in DOMAIN number' |-> number'[f]]
      /\ DOMAIN array' = T!Array /\ DOMAIN string' = T!String /\ DOMAIN number' = T!Number \cup T!Flag
  BY <1>3, Typed
<1>9. QED  BY <1>2, <1>3, <1>4, <1>5, <1>6, <1>7, <1>8, TakeStep

LEMMA BadLineStep == InfoInv /\ T!BadLine => InfoInv'
<1> SUFFICES ASSUME InfoInv, T!BadLine  PROVE InfoInv'  OBVIOUS
<1>1. T!At({"none"}) /\ file[at + 1].error # "blank" /\ T!Fail(file[at + 1].error) /\ UNCHANGED <<heap, stray>>
  BY DEF T!BadLine
<1>2. /\ ipc = "parse" /\ at < Len(file) /\ at' = at + 1 /\ file' = file /\ stray = FALSE /\ at \in Nat
      /\ file[at + 1].name = "none" /\ file[at + 1] \in T!Line /\ at + 1 \in 1 .. Len(file)
  BY <1>1, AtIs
<1>3. PICK e : e = file[at + 1].error  OBVIOUS
<1>4. e \in T!Errors /\ T!Fail(e)  BY <1>1, <1>2, <1>3, LineIs
<1>5. ~T!WellFormed(file[at + 1])  BY <1>1, <1>2, Distinct DEF T!WellFormed
<1>6. at' \in 0 .. Len(file) /\ heap' \subseteq heap \cup T!Cmd(at + 1) /\ stray' = FALSE  BY <1>1, <1>2
<1>7. QED  BY <1>2, <1>4, <1>5, <1>6, FailStep

LEMMA UnknownStep == InfoInv /\ T!UnknownName => InfoInv'
<1> SUFFICES ASSUME InfoInv, T!UnknownName  PROVE InfoInv'  OBVIOUS
<1>1. T!At({"unknown"}) /\ T!Refuse(at + 1, "INVALID_VAR_NAME")  BY DEF T!UnknownName
<1>2. file[at + 1].name = "unknown"  BY <1>1, AtIs
<1>3. ~T!WellFormed(file[at + 1])  BY <1>2, Distinct DEF T!WellFormed
<1>4. QED  BY <1>1, <1>3, Distinct, RefuseStep

(* A field that has not been set is one that no line has set, but an array *)
(* of the environment that was set to no words.                            *)
LEMMA FirstTime ==
  ASSUME InfoInv, NEW f, T!At({f}),
         \/ f \in T!Array /\ ~T!IsSet(f)
         \/ f \in T!String /\ string[f] = 0
         \/ f \in T!Number \cup T!Flag
  PROVE  \A j \in 1 .. at : NotAgain(file, j, at + 1)
<1>0. file[at + 1].name = f  BY AtIs
<1> SUFFICES ASSUME NEW j \in 1 .. at, file[j].name = f
             PROVE  f \notin {"params"} \cup T!String /\ (f = "environ" => file[j].words = 0)
  BY <1>0 DEF NotAgain
<1>1. at \in Nat /\ FieldsRight /\ Sound(file, at) /\ file \in Seq(T!Line) /\ at <= Len(file)
  <2>1. at \in Nat /\ at < Len(file) /\ FieldsRight /\ Sound(file, at)  BY AtIs
  <2>2. file \in Seq(T!Line)  BY DEF InfoInv
  <2>3. QED  BY <2>1, <2>2
<1>2. CASE f \in T!Number \cup T!Flag  BY <1>2, Distinct
<1>3. CASE f \in T!String /\ string[f] = 0
  <2>1. Latest(file, f, at, 0)  BY <1>1, <1>3 DEF FieldsRight
  <2>2. j <= 0  BY <2>1 DEF Latest
  <2>3. QED  BY <2>2
<1>4. CASE f \in T!Array /\ ~T!IsSet(f)
  <2>1. PICK k : k = array[f].of  OBVIOUS
  <2>2. Latest(file, f, at, k) /\ array[f].u = (IF k = 0 THEN 0 ELSE file[k].words)
    BY <1>1, <1>4, <2>1 DEF FieldsRight
  <2>3. k \in 0 .. at /\ j <= k /\ k # 0 /\ file[k].name = f  BY <2>2 DEF Latest
  <2>4. k \in 1 .. at /\ k \in 1 .. Len(file)  BY <1>1, <2>3
  <2>5. f # "params"  BY <1>4, <2>1, <2>3 DEF T!IsSet
  <2>6. f = "environ"  BY <1>4, <2>5, Distinct
  <2>7. file[k] \in T!Line  BY <1>1, <2>4
  <2>8. file[k].words \in 0 .. 2  BY <2>7, LineIs
  <2>9. file[k].words = 0  BY <1>4, <2>2, <2>3, <2>5, <2>8 DEF T!IsSet
  <2>10. CASE j = k  BY <2>6, <2>9, <2>10, Distinct
  <2>11. CASE j # k
    <3>1. j < k  BY <2>3, <2>11
    <3>2. NotAgain(file, j, k)  BY <3>1, <2>4, <1>1 DEF Sound
    <3>3. QED  BY <3>2, <2>3, <2>6, Distinct DEF NotAgain
  <2>12. QED  BY <2>10, <2>11
<1>5. QED  BY <1>2, <1>3, <1>4

LEMMA ArrayStep == ASSUME InfoInv, NEW f \in T!Array, T!SetArray(f)  PROVE InfoInv'
<1>1. T!At({f})  BY DEF T!SetArray
<1>2. /\ ipc = "parse" /\ at < Len(file) /\ at' = at + 1 /\ file' = file /\ stray = FALSE /\ at \in Nat
      /\ file[at + 1].name = f /\ file[at + 1] \in T!Line /\ at + 1 \in 1 .. Len(file) /\ FieldsRight
  BY <1>1, AtIs
<1>3. CASE T!IsSet(f)
  <2>1. T!Refuse(at + 1, "VAR_REDEFINED")  BY <1>3 DEF T!SetArray
  <2>2. PICK k : k = array[f].of  OBVIOUS
  <2>3. Latest(file, f, at, k) /\ array[f].u = (IF k = 0 THEN 0 ELSE file[k].words)
    BY <1>2, <2>2 DEF FieldsRight
  <2>4. k # 0
    <3>1. CASE f = "params"  BY <1>3, <2>2, <3>1 DEF T!IsSet
    <3>2. CASE f # "params"  BY <1>3, <2>2, <2>3, <3>2 DEF T!IsSet
    <3>3. QED  BY <3>1, <3>2
  <2>5. k \in 1 .. at /\ file[k].name = f  BY <1>2, <2>3, <2>4 DEF Latest
  <2>6. ~NotAgain(file, k, at + 1)
    <3>1. CASE f = "params"  BY <1>2, <2>5, <3>1 DEF NotAgain
    <3>2. CASE f # "params"
      <4>1. f = "environ"  BY <3>2, Distinct
      <4>2. file[k].words > 0  BY <1>3, <2>2, <2>3, <2>4, <3>2 DEF T!IsSet
      <4>3. QED  BY <1>2, <2>5, <4>1, <4>2 DEF NotAgain
    <3>3. QED  BY <3>1, <3>2
  <2>7. QED  BY <1>1, <2>1, <2>5, <2>6, Distinct, RefuseStep
<1>4. CASE ~T!IsSet(f)
  <2>1. /\ array' = [array EXCEPT ![f] = [u |-> file[at + 1].words, of |-> at + 1]]
        /\ heap' = heap \cup T!Cmd(at + 1) /\ UNCHANGED <<string, number, stray, ipc>>
    BY <1>4 DEF T!SetArray
  <2>2. string' = string /\ number' = number /\ stray' = stray /\ ipc' = ipc  BY <2>1
  <2>3. T!WellFormed(file[at + 1])
    <3>1. file[at + 1].name # "none"  BY <1>2, Distinct
    <3>2. QED  BY <1>2, <3>1, Distinct DEF T!WellFormed
  <2>4. \A j \in 1 .. at : NotAgain(file, j, at + 1)  BY <1>1, <1>4, FirstTime
  <2>5. heap' = heap \cup KeptOf(file, at + 1)  BY <1>2, <2>1, CmdIs DEF KeptOf
  <2>6. \A g \in T!Array : array'[g] = IF file[at + 1].name = g
                                         THEN [u |-> file[at + 1].words, of |-> at + 1] ELSE array[g]
    BY <1>2, <2>1, Typed
  <2>7. /\ \A g \in T!String : file[at + 1].name # g /\ string'[g] = string[g]
        /\ \A g \in T!Number \cup T!Flag : file[at + 1].name # g /\ number'[g] = number[g]
    BY <1>2, <2>2, Distinct
  <2>8. /\ array' = [g \in DOMAIN array' |-> array'[g]] /\ string' = [g \in DOMAIN string' |-> string'[g]]
        /\ number' = [g \in DOMAIN number' |-> number'[g]]
        /\ DOMAIN array' = T!Array /\ DOMAIN string' = T!String /\ DOMAIN number' = T!Number \cup T!Flag
    BY <2>1, <2>2, Typed
  <2>9. QED  BY <1>2, <2>2, <2>3, <2>4, <2>5, <2>6, <2>7, <2>8, TakeStep
<1>5. QED  BY <1>3, <1>4

(* The wrong number of words, or one that is not a number.                 *)
LEMMA WrongCountIs == \A k : T!WrongCount(k) \in T!Errors
BY DEF T!WrongCount, T!Errors

LEMMA StringStep == ASSUME InfoInv, NEW f \in T!String, T!SetString(f)  PROVE InfoInv'
<1>1. T!At({f})  BY DEF T!SetString
<1>2. /\ ipc = "parse" /\ at < Len(file) /\ at' = at + 1 /\ file' = file /\ stray = FALSE /\ at \in Nat
      /\ file[at + 1].name = f /\ file[at + 1] \in T!Line /\ at + 1 \in 1 .. Len(file) /\ FieldsRight
      /\ heap = Kept(file, at)
  BY <1>1, AtIs
<1>3. CASE string[f] # 0
  <2>1. T!Refuse(at + 1, "VAR_REDEFINED")  BY <1>3 DEF T!SetString
  <2>2. PICK k : k = string[f]  OBVIOUS
  <2>3. Latest(file, f, at, k)  BY <1>2, <2>2 DEF FieldsRight
  <2>4. k \in 1 .. at /\ file[k].name = f  BY <1>2, <1>3, <2>2, <2>3 DEF Latest
  <2>5. ~NotAgain(file, k, at + 1)  BY <1>2, <2>4 DEF NotAgain
  <2>6. QED  BY <1>1, <2>1, <2>4, <2>5, Distinct, RefuseStep
<1>4. CASE string[f] = 0 /\ file[at + 1].words # 1
  <2>1. T!Refuse(at + 1, T!WrongCount(at + 1))  BY <1>4 DEF T!SetString
  <2>2. ~T!WellFormed(file[at + 1])  BY <1>2, <1>4, Distinct DEF T!WellFormed
  <2>3. PICK e : e = T!WrongCount(at + 1)  OBVIOUS
  <2>4. e \in T!Errors /\ T!Refuse(at + 1, e)  BY <2>1, <2>3, WrongCountIs
  <2>5. QED  BY <1>1, <2>2, <2>4, RefuseStep
<1>5. CASE string[f] = 0 /\ file[at + 1].words = 1
  <2>1. /\ string' = [string EXCEPT ![f] = at + 1]
        /\ T!Free({T!Vector(at + 1)}, heap \cup T!Cmd(at + 1)) /\ UNCHANGED <<array, number, ipc>>
    BY <1>5 DEF T!SetString
  <2>2. array' = array /\ number' = number /\ ipc' = ipc  BY <2>1
  <2>3. T!Cmd(at + 1) = {<<at + 1, 0>>, <<at + 1, 1>>} /\ T!Vector(at + 1) = <<at + 1, 0>>
    <3>1. 1 .. 1 = {1}  OBVIOUS
    <3>2. {at + 1} \X {1} = {<<at + 1, 1>>}  OBVIOUS
    <3>3. T!Cmd(at + 1) = {<<at + 1, 0>>} \cup {at + 1} \X {1}  BY <1>5, <3>1, CmdIs DEF Blocks
    <3>4. QED  BY <3>2, <3>3 DEF T!Vector
  <2>4. <<at + 1, 0>> \notin heap
    <3>1. SUFFICES ASSUME NEW k \in 1 .. at, <<at + 1, 0>> \in KeptOf(file, k)  PROVE FALSE
      BY <1>2 DEF Kept
    <3>2. \A x \in KeptOf(file, k) : x[1] = k  BY DEF KeptOf, Blocks
    <3>3. at + 1 = k  BY <3>1, <3>2
    <3>4. QED  BY <3>3, <1>2
  <2>5. heap' = heap \cup {<<at + 1, 1>>} /\ stray' = FALSE
    <3>1. heap' = (heap \cup {<<at + 1, 0>>, <<at + 1, 1>>}) \ {<<at + 1, 0>>} /\ stray' = stray
      BY <1>2, <2>1, <2>3 DEF T!Free
    <3>2. <<at + 1, 1>> # <<at + 1, 0>>  OBVIOUS
    <3>3. QED  BY <3>1, <3>2, <2>4, <1>2
  <2>6. T!WellFormed(file[at + 1])  BY <1>2, <1>5, Distinct DEF T!WellFormed
  <2>7. \A j \in 1 .. at : NotAgain(file, j, at + 1)  BY <1>1, <1>5, FirstTime
  <2>8. heap' = heap \cup KeptOf(file, at + 1)  BY <1>2, <2>5, Distinct DEF KeptOf
  <2>9. /\ \A g \in T!Array : file[at + 1].name # g /\ array'[g] = array[g]
        /\ \A g \in T!String : string'[g] = IF file[at + 1].name = g THEN at + 1 ELSE string[g]
        /\ \A g \in T!Number \cup T!Flag : file[at + 1].name # g /\ number'[g] = number[g]
    BY <1>2, <2>1, <2>2, Distinct, Typed
  <2>10. /\ array' = [g \in DOMAIN array' |-> array'[g]] /\ string' = [g \in DOMAIN string' |-> string'[g]]
         /\ number' = [g \in DOMAIN number' |-> number'[g]]
         /\ DOMAIN array' = T!Array /\ DOMAIN string' = T!String /\ DOMAIN number' = T!Number \cup T!Flag
    BY <2>1, <2>2, Typed
  <2>11. QED  BY <1>2, <2>2, <2>5, <2>6, <2>7, <2>8, <2>9, <2>10, TakeStep
<1>6. QED  BY <1>3, <1>4, <1>5

LEMMA NumberStep == ASSUME InfoInv, NEW f \in T!Number \cup T!Flag, T!SetNumber(f)  PROVE InfoInv'
<1>1. T!At({f})  BY DEF T!SetNumber
<1>2. /\ ipc = "parse" /\ at < Len(file) /\ at' = at + 1 /\ file' = file /\ stray = FALSE /\ at \in Nat
      /\ file[at + 1].name = f /\ file[at + 1] \in T!Line /\ at + 1 \in 1 .. Len(file)
      /\ heap = Kept(file, at)
  BY <1>1, AtIs
<1>3. PICK w : w = file[at + 1].words  OBVIOUS
<1>4. PICK implicit \in BOOLEAN : implicit <=> f \in T!Flag /\ w = 0  OBVIOUS
<1>5. CASE ~implicit /\ w # 1
  <2>1. T!Refuse(at + 1, T!WrongCount(at + 1))  BY <1>3, <1>4, <1>5 DEF T!SetNumber
  <2>2. ~T!WellFormed(file[at + 1])  BY <1>2, <1>3, <1>4, <1>5, Distinct DEF T!WellFormed
  <2>3. PICK e : e = T!WrongCount(at + 1)  OBVIOUS
  <2>4. e \in T!Errors /\ T!Refuse(at + 1, e)  BY <2>1, <2>3, WrongCountIs
  <2>5. QED  BY <1>1, <2>2, <2>4, RefuseStep
<1>6. CASE ~implicit /\ w = 1 /\ ~file[at + 1].inRange
  <2>1. T!Refuse(at + 1, "INVALID_VALUE")  BY <1>3, <1>4, <1>6 DEF T!SetNumber
  <2>2. ~T!WellFormed(file[at + 1])  BY <1>2, <1>3, <1>4, <1>6, Distinct DEF T!WellFormed
  <2>3. QED  BY <1>1, <2>1, <2>2, Distinct, RefuseStep
<1>7. CASE implicit \/ (w = 1 /\ file[at + 1].inRange)
  <2>1. /\ number' = [number EXCEPT ![f] = at + 1]
        /\ T!Free(T!Cmd(at + 1), heap \cup T!Cmd(at + 1)) /\ UNCHANGED <<array, string, ipc>>
    BY <1>3, <1>4, <1>7 DEF T!SetNumber
  <2>2. array' = array /\ string' = string /\ ipc' = ipc  BY <2>1
  <2>3. PICK C : C = T!Cmd(at + 1)  OBVIOUS
  <2>4. \A x \in C : x \notin heap
    <3>1. SUFFICES ASSUME NEW x \in C, NEW k \in 1 .. at, x \in KeptOf(file, k)  PROVE FALSE
      BY <1>2 DEF Kept
    <3>2. x[1] = k  BY <3>1 DEF KeptOf, Blocks
    <3>3. x[1] = at + 1  BY <2>3, CmdIs DEF Blocks
    <3>4. QED  BY <3>2, <3>3, <1>2
  <2>5. heap' = (heap \cup C) \ C /\ stray' = (stray \/ ~ (C \subseteq heap \cup C))
    BY <2>1, <2>3 DEF T!Free
  <2>6. heap' = heap /\ stray' = FALSE  BY <1>2, <2>4, <2>5
  <2>7. T!WellFormed(file[at + 1])  BY <1>2, <1>3, <1>4, <1>7, Distinct DEF T!WellFormed
  <2>8. \A j \in 1 .. at : NotAgain(file, j, at + 1)  BY <1>1, FirstTime
  <2>9. heap' = heap \cup KeptOf(file, at + 1)  BY <1>2, <2>6, Distinct DEF KeptOf
  <2>10. /\ \A g \in T!Array : file[at + 1].name # g /\ array'[g] = array[g]
         /\ \A g \in T!String : file[at + 1].name # g /\ string'[g] = string[g]
         /\ \A g \in T!Number \cup T!Flag : number'[g] = IF file[at + 1].name = g THEN at + 1 ELSE number[g]
    BY <1>2, <2>1, <2>2, Distinct, Typed
  <2>11. /\ array' = [g \in DOMAIN array' |-> array'[g]] /\ string' = [g \in DOMAIN string' |-> string'[g]]
         /\ number' = [g \in DOMAIN number' |-> number'[g]]
         /\ DOMAIN array' = T!Array /\ DOMAIN string' = T!String /\ DOMAIN number' = T!Number \cup T!Flag
    BY <2>1, <2>2, Typed
  <2>12. QED  BY <1>2, <2>2, <2>6, <2>7, <2>8, <2>9, <2>10, <2>11, TakeStep
<1>8. QED  BY <1>5, <1>6, <1>7

-----------------------------------------------------------------------------
(* What *pt owns when all is well, and what else is allocated then.        *)
LEMMA OwnedIs ==
  ASSUME InfoInv, ipc \in {"parse", "OK"}
  PROVE  /\ T!Owned \subseteq heap
         /\ \A x \in heap \ T!Owned : x[2] = 0 /\ file[x[1]].name \in T!Array /\ file[x[1]].words = 0
<1>1. /\ FieldsRight /\ Sound(file, at) /\ heap = Kept(file, at) /\ at \in 0 .. Len(file)
      /\ file \in Seq(T!Line) /\ Len(file) \in Nat
  BY DEF InfoInv, T!TypeOK
<1>2. \A k \in 1 .. at : file[k] \in T!Line  BY <1>1
<1>3. ASSUME NEW x \in T!Owned  PROVE x \in heap
  <2>1. CASE \E f \in T!Array : x \in T!OwnedArray(f)
    <3>1. PICK f \in T!Array : x \in T!OwnedArray(f)  BY <2>1
    <3>2. PICK k, u : k = array[f].of /\ u = array[f].u  OBVIOUS
    <3>3. u > 0 /\ x \in Blocks(k, u)  BY <3>1, <3>2 DEF T!OwnedArray, T!Vector, T!Words, Blocks
    <3>4. Latest(file, f, at, k) /\ u = (IF k = 0 THEN 0 ELSE file[k].words)
      BY <1>1, <3>2 DEF FieldsRight
    <3>5. k # 0 /\ u = file[k].words  BY <3>3, <3>4
    <3>6. k \in 1 .. at /\ file[k].name = f  BY <1>1, <3>4, <3>5 DEF Latest
    <3>7. x \in KeptOf(file, k)  BY <3>3, <3>5, <3>6 DEF KeptOf
    <3>8. QED  BY <3>6, <3>7, <1>1 DEF Kept
  <2>2. CASE \E f \in T!String : string[f] # 0 /\ x = <<string[f], 1>>
    <3>1. PICK f \in T!String : string[f] # 0 /\ x = <<string[f], 1>>  BY <2>2
    <3>2. PICK k : k = string[f]  OBVIOUS
    <3>3. Latest(file, f, at, k)  BY <1>1, <3>2 DEF FieldsRight
    <3>4. k \in 1 .. at /\ file[k].name = f  BY <1>1, <3>1, <3>2, <3>3 DEF Latest
    <3>5. x \in KeptOf(file, k)  BY <3>1, <3>2, <3>4, Distinct DEF KeptOf
    <3>6. QED  BY <3>4, <3>5, <1>1 DEF Kept
  <2>3. CASE x \in UNION {T!OwnedArray(f) : f \in T!Array}  BY <2>1, <2>3
  <2>4. CASE x \in {<<string[f], 1>> : f \in {g \in T!String : string[g] # 0}}  BY <2>2, <2>4
  <2>5. QED  BY <2>3, <2>4 DEF T!Owned
<1>4. ASSUME NEW x \in heap, x \notin T!Owned
      PROVE  x[2] = 0 /\ file[x[1]].name \in T!Array /\ file[x[1]].words = 0
  <2>1. PICK k \in 1 .. at : x \in KeptOf(file, k)  BY <1>1, <1>4 DEF Kept
  <2>2. PICK f : f = file[k].name  OBVIOUS
  <2>3. file[k].words \in 0 .. 2  BY <1>2, LineIs
  <2>4. CASE f \in T!String
    <3>1. x = <<k, 1>>  BY <2>1, <2>2, <2>4, Distinct DEF KeptOf
    <3>2. PICK m : m = string[f]  OBVIOUS
    <3>3. Latest(file, f, at, m)  BY <1>1, <2>4, <3>2 DEF FieldsRight
    <3>4. m \in 0 .. at /\ k <= m /\ m # 0 /\ file[m].name = f  BY <2>2, <3>3 DEF Latest
    <3>5. m = k
      <4>1. CASE k < m
        <5>1. m \in 1 .. at  BY <3>4, <1>1
        <5>2. NotAgain(file, k, m)  BY <4>1, <5>1, <1>1 DEF Sound
        <5>3. QED  BY <5>2, <2>2, <2>4, <3>4 DEF NotAgain
      <4>2. QED  BY <4>1, <3>4
    <3>6. <<m, 1>> \in T!Owned
      <4>1. f \in {g \in T!String : string[g] # 0}  BY <2>4, <3>2, <3>4
      <4>2. <<m, 1>> \in {<<string[g], 1>> : g \in {h \in T!String : string[h] # 0}}  BY <3>2, <4>1
      <4>3. QED  BY <4>2 DEF T!Owned
    <3>7. QED  BY <1>4, <3>1, <3>5, <3>6
  <2>5. CASE f \in T!Array
    <3>1. x \in Blocks(k, file[k].words)  BY <2>1, <2>2, <2>5 DEF KeptOf
    <3>2. x[1] = k  BY <3>1 DEF Blocks
    <3>3. CASE file[k].words = 0
      <4>1. 1 .. 0 = {}  OBVIOUS
      <4>2. x = <<k, 0>>  BY <3>1, <3>3, <4>1 DEF Blocks
      <4>3. QED  BY <2>2, <2>5, <3>3, <4>2
    <3>4. CASE file[k].words # 0
      <4>1. PICK m : m = array[f].of  OBVIOUS
      <4>2. Latest(file, f, at, m) /\ array[f].u = (IF m = 0 THEN 0 ELSE file[m].words)
        BY <1>1, <2>5, <4>1 DEF FieldsRight
      <4>3. m \in 0 .. at /\ k <= m /\ m # 0 /\ file[m].name = f  BY <2>2, <4>2 DEF Latest
      <4>4. m = k
        <5>1. CASE k < m
          <6>1. m \in 1 .. at  BY <4>3, <1>1
          <6>2. NotAgain(file, k, m)  BY <5>1, <6>1, <1>1 DEF Sound
          <6>3. QED  BY <6>2, <2>2, <2>5, <3>4, <4>3, Distinct DEF NotAgain
        <5>2. QED  BY <5>1, <4>3
      <4>5. array[f].u = file[k].words /\ array[f].u > 0  BY <2>3, <3>4, <4>2, <4>3, <4>4
      <4>6. x \in T!OwnedArray(f)
        BY <3>1, <4>1, <4>4, <4>5 DEF T!OwnedArray, T!Vector, T!Words, Blocks
      <4>7. x \in T!Owned  BY <2>5, <4>6 DEF T!Owned
      <4>8. QED  BY <1>4, <4>7
    <3>5. QED  BY <3>3, <3>4
  <2>6. QED  BY <2>1, <2>2, <2>4, <2>5 DEF KeptOf
<1>5. QED  BY <1>3, <1>4

LEMMA ClearedOwnsNothing == Cleared => T!Owned = {}
<1> SUFFICES ASSUME Cleared  PROVE T!Owned = {}  OBVIOUS
<1>1. \A f \in T!Array : array[f].u = 0  BY DEF Cleared, T!Unset
<1>2. \A f \in T!Array : T!OwnedArray(f) = {}  BY <1>1 DEF T!OwnedArray
<1>3. \A f \in T!String : string[f] = 0  BY DEF Cleared
<1>4. QED  BY <1>2, <1>3 DEF T!Owned

LEMMA EndStep == InfoInv /\ T!End => InfoInv'
<1> SUFFICES ASSUME InfoInv, T!End  PROVE InfoInv'  OBVIOUS
<1>1. /\ ipc = "parse" /\ at = Len(file) /\ ipc' = "OK" /\ file' = file /\ at' = at /\ heap' = heap
      /\ array' = array /\ string' = string /\ number' = number /\ stray' = stray
  BY DEF T!End, T!fields
<1>2. T!TypeOK'
  BY <1>1 DEF InfoInv, T!TypeOK, T!Array, T!String, T!Number, T!Flag, T!Errors
<1>3. FieldsRight'
  BY <1>1 DEF InfoInv, FieldsRight, T!Array, T!String, T!Number, T!Flag
<1>4. QED
  BY <1>1, <1>2, <1>3 DEF InfoInv, T!Errors, T!Line, T!Name, T!Array, T!String, T!Number, T!Flag

LEMMA FreeStep == InfoInv /\ T!TestinfoFree => InfoInv'
<1> SUFFICES ASSUME InfoInv, T!TestinfoFree  PROVE InfoInv'  OBVIOUS
<1>1. ipc \notin {"parse", "freed"} /\ ipc' = "freed" /\ T!Zeroed /\ T!Free(T!Owned, heap)
      /\ file' = file /\ at' = at
  BY DEF T!TestinfoFree
<1>2. T!Owned \subseteq heap
  <2>1. CASE ipc = "OK"  BY <2>1, OwnedIs
  <2>2. CASE ipc # "OK"  BY <2>2, <1>1, ClearedOwnsNothing DEF InfoInv
  <2>3. QED  BY <2>1, <2>2
<1>3. heap' = heap \ T!Owned /\ stray' = FALSE  BY <1>1, <1>2 DEF T!Free, InfoInv
<1>4. Cleared'  BY <1>1 DEF T!Zeroed, Cleared, T!Array, T!String, T!Number, T!Flag, T!Unset
<1>5. T!TypeOK'
  <2>1. 0 \in 0 .. MaxLines /\ 0 \in 0 .. 2  BY SizesAssumption
  <2>2. heap' \subseteq (1 .. MaxLines) \X (0 .. 2) /\ at \in 0 .. Len(file)
    BY <1>3 DEF InfoInv, T!TypeOK
  <2>3. QED
    BY <1>1, <1>3, <1>4, <2>1, <2>2 DEF Cleared, T!TypeOK, T!Unset, T!Array, T!String, T!Number, T!Flag
<1>6. QED
  BY <1>1, <1>3, <1>4, <1>5 DEF InfoInv, T!Errors, T!Line, T!Name, T!Array, T!String, T!Number, T!Flag

LEMMA InfoStep == InfoInv /\ [T!Next]_(T!vars) => InfoInv'
<1> SUFFICES ASSUME InfoInv, [T!Next]_(T!vars)  PROVE InfoInv'  OBVIOUS
<1>1. CASE UNCHANGED T!vars
  <2>1. /\ file' = file /\ at' = at /\ array' = array /\ string' = string /\ number' = number
        /\ heap' = heap /\ stray' = stray /\ ipc' = ipc
    BY <1>1 DEF T!vars, T!fields
  <2>2. T!TypeOK'
    BY <2>1 DEF InfoInv, T!TypeOK, T!Array, T!String, T!Number, T!Flag, T!Errors
  <2>3. FieldsRight' = FieldsRight /\ Cleared' = Cleared
    BY <2>1 DEF FieldsRight, Cleared, T!Array, T!String, T!Number, T!Flag, T!Unset
  <2>4. QED
    BY <2>1, <2>2, <2>3 DEF InfoInv, T!Errors, T!Line, T!Name, T!Array, T!String, T!Number, T!Flag
<1>2. QED
  BY <1>1, BlankStep, BadLineStep, UnknownStep, EndStep, FreeStep, ArrayStep, StringStep, NumberStep
  DEF T!Next

(* The last of a set of lines.                                             *)
LEMMA LastIs ==
  ASSUME NEW S \in SUBSET Nat, NEW k \in S \cup {0}, \A j \in S : j <= k
  PROVE  T!Last(S) = k
<1>1. T!Last(S) \in S \cup {0} /\ \A j \in S : j <= T!Last(S)  BY DEF T!Last
<1>2. PICK m : m = T!Last(S)  OBVIOUS
<1>3. m \in Nat /\ k \in Nat /\ (m \in S \/ m = 0) /\ (k \in S \/ k = 0) /\ \A j \in S : j <= m /\ j <= k
  <2>1. m \in S \/ m = 0  BY <1>1, <1>2
  <2>2. \A j \in S : j <= m  BY <1>1, <1>2
  <2>3. m \in Nat /\ k \in Nat /\ (k \in S \/ k = 0)
    <3>1. \A j : j \in S => j \in Nat  OBVIOUS
    <3>2. 0 \in Nat /\ (k \in S \/ k = 0)  OBVIOUS
    <3>3. QED  BY <2>1, <3>1, <3>2
  <2>4. \A j \in S : j <= k  OBVIOUS
  <2>5. QED  BY <2>1, <2>2, <2>3, <2>4
<1>4. m <= k /\ k <= m  BY <1>3
<1>5. QED  BY <1>2, <1>3, <1>4

LEMMA MeaningfulIs ==
  ASSUME file \in Seq(T!Line)
  PROVE  T!Meaningful <=> Sound(file, Len(file))
<1>1. DOMAIN file = 1 .. Len(file)  OBVIOUS
<1>2. QED  BY <1>1 DEF T!Meaningful, Sound, NotAgain

LEMMA ParsedRight == ASSUME InfoInv, ipc = "OK"  PROVE T!ParsedAsMeant
<1>1. /\ at = Len(file) /\ FieldsRight /\ Sound(file, at) /\ file \in Seq(T!Line) /\ at \in Nat
      /\ DOMAIN file = 1 .. at
  BY DEF InfoInv
<1>2. T!Meaningful  BY <1>1, MeaningfulIs
<1>3. ASSUME NEW f, NEW k, Latest(file, f, at, k)  PROVE T!Last(T!Setting(f)) = k
  <2>1. T!Setting(f) \in SUBSET Nat  BY <1>1 DEF T!Setting
  <2>2. k \in T!Setting(f) \cup {0}
    <3>1. k = 0 \/ (k \in 1 .. at /\ file[k].name = f)  BY <1>1, <1>3 DEF Latest
    <3>2. QED  BY <3>1, <1>1 DEF T!Setting
  <2>3. \A j \in T!Setting(f) : j <= k  BY <1>1, <1>3 DEF Latest, T!Setting
  <2>4. QED  BY <2>1, <2>2, <2>3, LastIs
<1>4. ASSUME NEW f \in T!Array
      PROVE  array[f].u = IF T!Filled(f) = {} THEN 0 ELSE file[T!Last(T!Filled(f))].words
  <2>1. PICK k : k = array[f].of  OBVIOUS
  <2>2. Latest(file, f, at, k) /\ array[f].u = (IF k = 0 THEN 0 ELSE file[k].words)
    BY <1>1, <2>1 DEF FieldsRight
  <2>3. k \in 0 .. at /\ (k # 0 => file[k].name = f) /\ \A j \in 1 .. at : file[j].name = f => j <= k
    BY <2>2 DEF Latest
  <2>4. ASSUME NEW j \in T!Filled(f)  PROVE j = k /\ k # 0 /\ file[k].words > 0
    <3>1. j \in 1 .. at /\ file[j].name = f /\ file[j].words > 0  BY <1>1 DEF T!Filled, T!Setting
    <3>2. j <= k /\ k \in 1 .. at /\ k # 0  BY <2>3, <3>1, <1>1
    <3>3. CASE j < k
      <4>1. NotAgain(file, j, k)  BY <3>1, <3>2, <3>3, <1>1 DEF Sound
      <4>2. QED  BY <4>1, <2>3, <3>1, <3>2, Distinct DEF NotAgain
    <3>4. CASE ~(j < k)  BY <3>1, <3>2, <3>4
    <3>5. QED  BY <3>3, <3>4
  <2>5. CASE T!Filled(f) = {}
    <3>1. CASE k = 0  BY <2>2, <2>5, <3>1
    <3>2. CASE k # 0
      <4>1. k \in 1 .. at /\ file[k].name = f  BY <1>1, <2>3, <3>2
      <4>2. file[k] \in T!Line  BY <4>1, <1>1
      <4>3. file[k].words \in 0 .. 2  BY <4>2, LineIs
      <4>4. ~(file[k].words > 0)  BY <4>1, <2>5, <1>1 DEF T!Filled, T!Setting
      <4>5. QED  BY <2>2, <2>5, <3>2, <4>3, <4>4
    <3>3. QED  BY <3>1, <3>2
  <2>6. CASE T!Filled(f) # {}
    <3>1. T!Filled(f) = {k} /\ k # 0  BY <2>4, <2>6
    <3>2. k \in Nat  BY <2>3, <1>1
    <3>3. {k} \in SUBSET Nat /\ k \in {k} \cup {0} /\ \A j \in {k} : j <= k  BY <3>2
    <3>4. T!Last({k}) = k  BY <3>3, LastIs
    <3>5. QED  BY <2>2, <3>1, <3>4
  <2>7. QED  BY <2>5, <2>6
<1>5. \A f \in T!String : string[f] = T!Last(T!Setting(f))  BY <1>1, <1>3 DEF FieldsRight
<1>6. \A f \in T!Number \cup T!Flag : number[f] = T!Last(T!Setting(f))  BY <1>1, <1>3 DEF FieldsRight
<1>7. ipc \notin T!Errors  BY DEF T!Errors
<1>8. QED  BY <1>2, <1>4, <1>5, <1>6, <1>7 DEF T!ParsedAsMeant

LEMMA InfoInvImplies == InfoInv => InfoRight
<1> SUFFICES ASSUME InfoInv  PROVE InfoRight  OBVIOUS
<1>1. T!TypeOK /\ stray = FALSE /\ file \in Seq(T!Line)  BY DEF InfoInv
<1>2. T!ParsedAsMeant
  <2>1. CASE ipc = "OK"  BY <2>1, ParsedRight
  <2>2. CASE ipc \in T!Errors
    <3>1. ~T!Meaningful  BY <2>2, <1>1, MeaningfulIs DEF InfoInv
    <3>2. ipc # "OK" /\ ipc # "parse"  BY <2>2 DEF T!Errors
    <3>3. T!Owned = {}  BY <3>2, ClearedOwnsNothing DEF InfoInv
    <3>4. QED  BY <2>2, <3>1, <3>2, <3>3 DEF T!ParsedAsMeant
  <2>3. CASE ipc # "OK" /\ ipc \notin T!Errors  BY <2>3 DEF T!ParsedAsMeant
  <2>4. QED  BY <2>1, <2>2, <2>3
<1>3. T!Owned \subseteq heap
  <2>1. CASE ipc \in {"parse", "OK"}  BY <2>1, OwnedIs
  <2>2. CASE ipc \notin {"parse", "OK"}  BY <2>2, ClearedOwnsNothing DEF InfoInv
  <2>3. QED  BY <2>1, <2>2
<1>4. T!LeaksOnlyEmpty  BY OwnedIs DEF T!LeaksOnlyEmpty
<1>5. QED  BY <1>1, <1>2, <1>3, <1>4 DEF InfoRight, T!BlocksRight, T!OwnsWhatItFrees

LEMMA RunsInfo == AllSpec => ((T!Input \/ NoInfo) /\ T!Start) /\ [][T!Next]_(T!vars)
<1>1. AllInit => (T!Input \/ NoInfo) /\ T!Start  BY DEF AllInit
<1>2. [AllNext]_allVars => [T!Next]_(T!vars)
  BY DEF AllNext, allVars, infoVars, T!vars, T!fields
<1>3. QED  BY <1>1, <1>2, PTL DEF AllSpec

(* testinfo_parse says OK exactly of the files that mean something, of any *)
(* number of lines, and then *pt holds what they mean; what testinfo_free  *)
(* frees is allocated, and it leaves behind the vectors of arrays that     *)
(* were set to no words and nothing else.                                  *)
THEOREM FilesAreParsed == AllSpec => []InfoRight
<1>1. InfoInv => InfoRight  BY InfoInvImplies
<1>2. QED  BY <1>1, InfoInit, InfoStep, RunsInfo, PTL
-----------------------------------------------------------------------------
(* Files by lines.  How many lines end before a place, and how many bytes  *)
(* of its own line come before it there.                                   *)
EndsOf(t, n) == Cardinality({k \in 1 .. n - 1 : t[k] = "nl"})
Mine(t, n) == {k \in 1 .. n - 1 : EndsOf(t, k) = EndsOf(t, n) /\ t[k] # "nl"}
ColOf(t, n) == Cardinality(Mine(t, n))

LEMMA EndsIs == \A n : L!Ends(n) = EndsOf(text, n)
BY DEF L!Ends, EndsOf, L!Cardinality, Cardinality

LEMMA CountsAreNumbers ==
  ASSUME NEW t, NEW n \in Nat
  PROVE  EndsOf(t, n) \in Nat /\ ColOf(t, n) \in Nat /\ IsFiniteSet(Mine(t, n))
<1>1. IsFiniteSet(1 .. n - 1)  BY FS_Interval
<1>2. {k \in 1 .. n - 1 : t[k] = "nl"} \in SUBSET (1 .. n - 1) /\ Mine(t, n) \in SUBSET (1 .. n - 1)
  BY DEF Mine
<1>3. IsFiniteSet({k \in 1 .. n - 1 : t[k] = "nl"}) /\ IsFiniteSet(Mine(t, n))  BY <1>1, <1>2, FS_Subset
<1>4. QED  BY <1>3, FS_CardinalityType DEF EndsOf, ColOf

LEMMA EndsNext ==
  ASSUME NEW t, NEW n \in Nat, n >= 1
  PROVE  EndsOf(t, n + 1) = IF t[n] = "nl" THEN EndsOf(t, n) + 1 ELSE EndsOf(t, n)
<1>1. PICK S : S = {k \in 1 .. n - 1 : t[k] = "nl"}  OBVIOUS
<1>2. IsFiniteSet(S)
  <2>1. IsFiniteSet(1 .. n - 1)  BY FS_Interval
  <2>2. S \in SUBSET (1 .. n - 1)  BY <1>1
  <2>3. QED  BY <2>1, <2>2, FS_Subset
<1>3. EndsOf(t, n) = Cardinality(S)  BY <1>1 DEF EndsOf
<1>4. (n + 1) - 1 = n /\ \A k : k \in 1 .. n <=> k \in 1 .. n - 1 \/ k = n  OBVIOUS
<1>5. n \notin S  BY <1>1
<1>6. CASE t[n] = "nl"
  <2>1. {k \in 1 .. (n + 1) - 1 : t[k] = "nl"} = S \cup {n}  BY <1>1, <1>4, <1>6
  <2>2. QED  BY <2>1, <1>2, <1>3, <1>5, <1>6, FS_AddElement DEF EndsOf
<1>7. CASE t[n] # "nl"
  <2>1. {k \in 1 .. (n + 1) - 1 : t[k] = "nl"} = S  BY <1>1, <1>4, <1>7
  <2>2. QED  BY <2>1, <1>3, <1>7 DEF EndsOf
<1>8. QED  BY <1>6, <1>7

LEMMA EndsGrow ==
  ASSUME NEW t, NEW m \in Nat, NEW n \in Nat, m <= n
  PROVE  EndsOf(t, m) <= EndsOf(t, n)
<1>1. PICK S : S = {k \in 1 .. n - 1 : t[k] = "nl"}  OBVIOUS
<1>2. IsFiniteSet(S)
  <2>1. IsFiniteSet(1 .. n - 1)  BY FS_Interval
  <2>2. S \in SUBSET (1 .. n - 1)  BY <1>1
  <2>3. QED  BY <2>1, <2>2, FS_Subset
<1>3. \A k \in 1 .. m - 1 : k \in 1 .. n - 1  OBVIOUS
<1>4. {k \in 1 .. m - 1 : t[k] = "nl"} \in SUBSET S  BY <1>1, <1>3
<1>5. QED  BY <1>1, <1>2, <1>4, FS_Subset DEF EndsOf

LEMMA ColNext ==
  ASSUME NEW t, NEW n \in Nat, n >= 1
  PROVE  ColOf(t, n + 1) = IF t[n] = "nl" THEN 0 ELSE ColOf(t, n) + 1
<1>1. (n + 1) - 1 = n /\ \A k : k \in 1 .. n <=> k \in 1 .. n - 1 \/ k = n  OBVIOUS
<1>2. CASE t[n] = "nl"
  <2>1. EndsOf(t, n + 1) = EndsOf(t, n) + 1 /\ EndsOf(t, n) \in Nat  BY <1>2, EndsNext, CountsAreNumbers
  <2>2. ASSUME NEW k \in 1 .. n  PROVE EndsOf(t, k) # EndsOf(t, n + 1)
    <3>1. k \in Nat /\ k <= n  OBVIOUS
    <3>2. EndsOf(t, k) <= EndsOf(t, n) /\ EndsOf(t, k) \in Nat  BY <3>1, EndsGrow, CountsAreNumbers
    <3>3. QED  BY <3>2, <2>1
  <2>3. Mine(t, n + 1) = {}  BY <1>1, <2>2 DEF Mine
  <2>4. QED  BY <2>3, <1>2, FS_EmptySet DEF ColOf
<1>3. CASE t[n] # "nl"
  <2>1. EndsOf(t, n + 1) = EndsOf(t, n)  BY <1>3, EndsNext
  <2>2. Mine(t, n + 1) = Mine(t, n) \cup {n}  BY <1>1, <1>3, <2>1 DEF Mine
  <2>3. n \notin Mine(t, n)  BY DEF Mine
  <2>4. QED  BY <1>3, <2>2, <2>3, CountsAreNumbers, FS_AddElement DEF ColOf
<1>4. QED  BY <1>2, <1>3

LEMMA ColGrows ==
  ASSUME NEW t, NEW m \in Nat, NEW n \in Nat, 1 <= m, m < n, EndsOf(t, m) = EndsOf(t, n), t[m] # "nl"
  PROVE  ColOf(t, m) < ColOf(t, n)
<1>1. \A k \in 1 .. m - 1 : k \in 1 .. n - 1  OBVIOUS
<1>2. m \in 1 .. n - 1 /\ m \notin 1 .. m - 1  OBVIOUS
<1>3. Mine(t, m) \cup {m} \in SUBSET Mine(t, n)  BY <1>1, <1>2 DEF Mine
<1>4. m \notin Mine(t, m)  BY <1>2 DEF Mine
<1>5. Cardinality(Mine(t, m) \cup {m}) = ColOf(t, m) + 1
  BY <1>4, CountsAreNumbers, FS_AddElement DEF ColOf
<1>6. Cardinality(Mine(t, m) \cup {m}) <= ColOf(t, n)  BY <1>3, CountsAreNumbers, FS_Subset DEF ColOf
<1>7. ColOf(t, m) \in Nat /\ ColOf(t, n) \in Nat  BY CountsAreNumbers
<1>8. QED  BY <1>5, <1>6, <1>7

(* s is line k as far as n bytes of t have been read: every byte is in its *)
(* place, and nothing else is there but the end of the line.               *)
LineOf(t, n, k, s) ==
  /\ \A m \in 1 .. n : t[m] # "nl" /\ EndsOf(t, m) = k - 1 =>
       ColOf(t, m) + 1 \in 1 .. Len(s) /\ s[ColOf(t, m) + 1] = t[m]
  /\ \A c \in 1 .. Len(s) :
       \/ s[c] = "nl" /\ c = Len(s)
       \/ \E m \in 1 .. n : t[m] # "nl" /\ EndsOf(t, m) = k - 1 /\ ColOf(t, m) = c - 1 /\ s[c] = t[m]

(* The places of line k with something but white space behind them, and    *)
(* a line that consists of their bytes.                                    *)
Placed(t, k) ==
  {m \in 1 .. Len(t) : /\ t[m] # "nl" /\ EndsOf(t, m) = k - 1
                       /\ \E j \in m .. Len(t) : ~L!IsSpace(t[j]) /\ EndsOf(t, j) = EndsOf(t, m)}
Cut(t, k, s) ==
  /\ \A m \in Placed(t, k) : ColOf(t, m) + 1 \in 1 .. Len(s) /\ s[ColOf(t, m) + 1] = t[m]
  /\ \A c \in 1 .. Len(s) : \E m \in Placed(t, k) : ColOf(t, m) = c - 1 /\ s[c] = t[m]

(* A byte of a line, and the end of one.                                   *)
LEMMA LineGrows ==
  ASSUME NEW t, NEW n \in Nat, NEW k \in Nat \ {0}, NEW s \in Seq(L!ByteKind), NEW c \in L!ByteKind,
         t[n + 1] = c, EndsOf(t, n + 1) = k - 1, ColOf(t, n + 1) = Len(s), LineOf(t, n, k, s),
         \A j \in 1 .. Len(s) : s[j] # "nl"
  PROVE  LineOf(t, n + 1, k, Append(s, c))
<1>1. PICK r : r = Append(s, c)  OBVIOUS
<1>2. Len(s) \in Nat /\ Len(r) = Len(s) + 1 /\ r[Len(s) + 1] = c /\ \A j \in 1 .. Len(s) : r[j] = s[j]
  BY <1>1
<1>3. \A j : j \in 1 .. n + 1 <=> j \in 1 .. n \/ j = n + 1  OBVIOUS
<1>4. \A j : j \in 1 .. Len(r) <=> j \in 1 .. Len(s) \/ j = Len(s) + 1  BY <1>2
<1>5. ASSUME NEW m \in 1 .. n + 1, t[m] # "nl", EndsOf(t, m) = k - 1
      PROVE  ColOf(t, m) + 1 \in 1 .. Len(r) /\ r[ColOf(t, m) + 1] = t[m]
  <2>1. CASE m = n + 1  BY <2>1, <1>2, <1>4
  <2>2. CASE m \in 1 .. n
    <3>1. PICK j : j = ColOf(t, m) + 1  OBVIOUS
    <3>2. j \in 1 .. Len(s) /\ s[j] = t[m]  BY <2>2, <3>1, <1>5 DEF LineOf
    <3>3. QED  BY <3>1, <3>2, <1>2, <1>4
  <2>3. QED  BY <2>1, <2>2, <1>3
<1>6. ASSUME NEW j \in 1 .. Len(r)
      PROVE  \/ r[j] = "nl" /\ j = Len(r)
             \/ \E m \in 1 .. n + 1 : t[m] # "nl" /\ EndsOf(t, m) = k - 1 /\ ColOf(t, m) = j - 1 /\ r[j] = t[m]
  <2>1. CASE j = Len(s) + 1
    <3>1. CASE c = "nl"  BY <2>1, <3>1, <1>2
    <3>2. CASE c # "nl"
      <4>1. n + 1 \in 1 .. n + 1 /\ ColOf(t, n + 1) = j - 1 /\ r[j] = t[n + 1]  BY <2>1, <1>2
      <4>2. QED  BY <4>1, <3>2
    <3>3. QED  BY <3>1, <3>2
  <2>2. CASE j \in 1 .. Len(s)
    <3>1. PICK m \in 1 .. n : t[m] # "nl" /\ EndsOf(t, m) = k - 1 /\ ColOf(t, m) = j - 1 /\ s[j] = t[m]
      BY <2>2 DEF LineOf
    <3>2. m \in 1 .. n + 1 /\ r[j] = t[m]  BY <2>2, <3>1, <1>2, <1>3
    <3>3. QED  BY <3>1, <3>2
  <2>3. QED  BY <2>1, <2>2, <1>4
<1>7. QED  BY <1>1, <1>5, <1>6 DEF LineOf

(* What is read does not change the other lines.                           *)
LEMMA LineStays ==
  ASSUME NEW t, NEW n \in Nat, NEW k, NEW s, LineOf(t, n, k, s),
         t[n + 1] = "nl" \/ EndsOf(t, n + 1) # k - 1
  PROVE  LineOf(t, n + 1, k, s)
<1>1. \A m : m \in 1 .. n + 1 <=> m \in 1 .. n \/ m = n + 1  OBVIOUS
<1>2. ASSUME NEW m \in 1 .. n + 1, t[m] # "nl", EndsOf(t, m) = k - 1
      PROVE  ColOf(t, m) + 1 \in 1 .. Len(s) /\ s[ColOf(t, m) + 1] = t[m]
  <2>1. m \in 1 .. n  BY <1>1, <1>2
  <2>2. QED  BY <2>1, <1>2 DEF LineOf
<1>3. ASSUME NEW c \in 1 .. Len(s)
      PROVE  \/ s[c] = "nl" /\ c = Len(s)
             \/ \E m \in 1 .. n + 1 : t[m] # "nl" /\ EndsOf(t, m) = k - 1 /\ ColOf(t, m) = c - 1 /\ s[c] = t[m]
  BY <1>1 DEF LineOf
<1>4. QED  BY <1>2, <1>3 DEF LineOf

LEMMA NewLine ==
  ASSUME NEW t, NEW n \in Nat, NEW k \in Nat, \A m \in 1 .. n : EndsOf(t, m) < k - 1
  PROVE  LineOf(t, n, k, <<>>)
<1>1. \A m \in 1 .. n : EndsOf(t, m) # k - 1
  <2>1. \A m \in 1 .. n : EndsOf(t, m) \in Nat  BY CountsAreNumbers
  <2>2. QED  BY <2>1
<1>2. 1 .. Len(<<>>) = {}  OBVIOUS
<1>3. QED  BY <1>1, <1>2 DEF LineOf

(* Trimming: what is left of a line ends with its last byte that is no     *)
(* white space.                                                            *)
LEMMA LeastOf ==
  ASSUME NEW S \in SUBSET Nat, S # {}
  PROVE  \E n \in S : \A m \in S : n <= m
<1>1. PICK Less : Less = OpToRel(<, Nat)  OBVIOUS
<1>2. IsWellFoundedOn(Less, Nat)  BY <1>1, NatLessThanWellFounded
<1>3. \E n \in S : \A m \in S : ~(<<m, n>> \in Less)
  <2>1. S \subseteq Nat  OBVIOUS
  <2>2. QED  BY <1>2, <2>1, WFMin
<1>4. Less = {z \in Nat \X Nat : z[1] < z[2]}  BY <1>1 DEF OpToRel
<1>5. \A m, n \in Nat : <<m, n>> \in Less <=> m < n  BY <1>4
<1>6. PICK n \in S : \A m \in S : ~(<<m, n>> \in Less)  BY <1>3
<1>7. ASSUME NEW m \in S PROVE n <= m
  <2>1. m \in Nat /\ n \in Nat /\ ~(m < n)  BY <1>5, <1>6
  <2>2. QED  BY <2>1
<1>8. QED  BY <1>6, <1>7

LEMMA TrimmedIs ==
  ASSUME NEW s \in Seq(L!ByteKind)
  PROVE  \E n \in 0 .. Len(s) :
           /\ L!Trimmed(s) \in Seq(L!ByteKind) /\ Len(L!Trimmed(s)) = n
           /\ \A k \in 1 .. n : L!Trimmed(s)[k] = s[k]
           /\ n > 0 => ~L!IsSpace(s[n])
           /\ \A k \in n + 1 .. Len(s) : L!IsSpace(s[k])
<1>1. PICK l \in Nat : l = Len(s)  OBVIOUS
<1>2. PICK S : S = {n \in 0 .. l : \A k \in n + 1 .. l : L!IsSpace(s[k])}  OBVIOUS
<1>3. S \in SUBSET Nat /\ l \in S
  <2>1. l + 1 .. l = {}  OBVIOUS
  <2>2. QED  BY <1>2, <2>1
<1>4. PICK x \in S : \A m \in S : x <= m  BY <1>3, LeastOf
<1>5. x \in 0 .. l /\ \A k \in x + 1 .. l : L!IsSpace(s[k])  BY <1>2
<1>6. ASSUME x > 0, L!IsSpace(s[x])  PROVE FALSE
  <2>1. x - 1 \in 0 .. l /\ x \in Nat  BY <1>5, <1>6
  <2>2. ASSUME NEW k \in (x - 1) + 1 .. l  PROVE L!IsSpace(s[k])
    <3>1. k = x \/ k \in x + 1 .. l  BY <2>1
    <3>2. QED  BY <3>1, <1>5, <1>6
  <2>3. x - 1 \in S  BY <1>2, <2>1, <2>2
  <2>4. QED  BY <2>1, <2>3, <1>4
<1>7. \E n \in 0 .. l : (n > 0 => ~L!IsSpace(s[n])) /\ \A k \in n + 1 .. l : L!IsSpace(s[k])
  BY <1>5, <1>6
<1>8. PICK y : y = CHOOSE n \in 0 .. l : (n > 0 => ~L!IsSpace(s[n])) /\ \A k \in n + 1 .. l : L!IsSpace(s[k])
  OBVIOUS
<1>9. y \in 0 .. l /\ (y > 0 => ~L!IsSpace(s[y])) /\ \A k \in y + 1 .. l : L!IsSpace(s[k])
  BY <1>7, <1>8
<1>10. L!Trimmed(s) = SubSeq(s, 1, y)  BY <1>1, <1>8 DEF L!Trimmed
<1>11. SubSeq(s, 1, y) \in Seq(L!ByteKind) /\ Len(SubSeq(s, 1, y)) = y
       /\ \A k \in 1 .. y : SubSeq(s, 1, y)[k] = s[k]
  BY <1>1, <1>9
<1>12. QED  BY <1>1, <1>9, <1>10, <1>11

LEMMA TrimCuts ==
  ASSUME NEW t \in Seq(L!ByteKind), NEW k \in Nat \ {0}, NEW s \in Seq(L!ByteKind), LineOf(t, Len(t), k, s)
  PROVE  Cut(t, k, L!Trimmed(s)) /\ L!Trimmed(s) \in Seq(L!ByteKind)
<1>1. PICK N \in Nat : N = Len(t)  OBVIOUS
<1>2. PICK r : r = L!Trimmed(s)  OBVIOUS
<1>3. PICK n \in 0 .. Len(s) :
           /\ r \in Seq(L!ByteKind) /\ Len(r) = n
           /\ \A c \in 1 .. n : r[c] = s[c]
           /\ n > 0 => ~L!IsSpace(s[n])
           /\ \A c \in n + 1 .. Len(s) : L!IsSpace(s[c])
  BY <1>2, TrimmedIs
<1>4. L!IsSpace("nl")  BY DEF L!IsSpace
<1>5. n \in Nat /\ Len(s) \in Nat /\ n <= Len(s)  BY <1>3
<1>6. \A m \in 1 .. N : ColOf(t, m) \in Nat /\ EndsOf(t, m) \in Nat /\ m \in Nat  BY CountsAreNumbers
<1>7. ASSUME NEW m \in 1 .. N, NEW j \in 1 .. N, t[m] # "nl", t[j] # "nl",
             EndsOf(t, m) = EndsOf(t, j), m <= j
      PROVE  ColOf(t, m) <= ColOf(t, j)
  <2>1. CASE m = j  BY <2>1, <1>6
  <2>2. CASE m # j
    <3>1. m \in Nat /\ j \in Nat /\ 1 <= m /\ m < j  BY <1>7, <2>2
    <3>2. ColOf(t, m) < ColOf(t, j)  BY <3>1, <1>7, ColGrows
    <3>3. QED  BY <3>2, <1>6
  <2>3. QED  BY <2>1, <2>2
<1>8. ASSUME NEW m \in Placed(t, k)  PROVE ColOf(t, m) + 1 \in 1 .. Len(r) /\ r[ColOf(t, m) + 1] = t[m]
  <2>1. PICK j \in m .. Len(t) : ~L!IsSpace(t[j]) /\ EndsOf(t, j) = EndsOf(t, m)  BY DEF Placed
  <2>2. m \in 1 .. N /\ t[m] # "nl" /\ EndsOf(t, m) = k - 1  BY <1>1 DEF Placed
  <2>3. j \in 1 .. N /\ m <= j /\ t[j] # "nl" /\ EndsOf(t, j) = k - 1  BY <1>1, <1>4, <2>1, <2>2
  <2>4. PICK c, d : c = ColOf(t, m) + 1 /\ d = ColOf(t, j) + 1  OBVIOUS
  <2>5. c \in 1 .. Len(s) /\ s[c] = t[m] /\ d \in 1 .. Len(s) /\ s[d] = t[j]
    BY <1>1, <2>2, <2>3, <2>4 DEF LineOf
  <2>6. c <= d
    <3>1. ColOf(t, m) <= ColOf(t, j)  BY <1>7, <2>2, <2>3
    <3>2. QED  BY <3>1, <2>2, <2>3, <2>4, <1>6
  <2>7. d <= n
    <3>1. ~(d \in n + 1 .. Len(s))  BY <1>3, <2>1, <2>5
    <3>2. QED  BY <3>1, <2>5, <1>5
  <2>8. c \in 1 .. n  BY <2>5, <2>6, <2>7, <1>5
  <2>9. QED  BY <1>3, <2>4, <2>5, <2>8
<1>9. ASSUME NEW c \in 1 .. Len(r)  PROVE \E m \in Placed(t, k) : ColOf(t, m) = c - 1 /\ r[c] = t[m]
  <2>1. c \in 1 .. n /\ c \in 1 .. Len(s) /\ n \in 1 .. Len(s) /\ n > 0  BY <1>3, <1>5
  <2>2. \A x \in 1 .. n : x \in 1 .. Len(s) /\ (x = Len(s) => x = n)  BY <1>5
  <2>3. ASSUME NEW x \in 1 .. n
        PROVE \E m \in 1 .. N : t[m] # "nl" /\ EndsOf(t, m) = k - 1 /\ ColOf(t, m) = x - 1 /\ s[x] = t[m]
    <3>1. ~(s[x] = "nl" /\ x = Len(s))  BY <2>1, <2>2, <1>3, <1>4
    <3>2. QED  BY <3>1, <2>2, <1>1 DEF LineOf
  <2>4. PICK m \in 1 .. N : t[m] # "nl" /\ EndsOf(t, m) = k - 1 /\ ColOf(t, m) = c - 1 /\ s[c] = t[m]
    BY <2>1, <2>3
  <2>5. n \in 1 .. n  BY <2>1
  <2>6. PICK j \in 1 .. N : t[j] # "nl" /\ EndsOf(t, j) = k - 1 /\ ColOf(t, j) = n - 1 /\ s[n] = t[j]
    BY <2>3, <2>5
  <2>7. m <= j
    <3>1. SUFFICES ASSUME j < m  PROVE FALSE  BY <1>6
    <3>2. ColOf(t, j) < ColOf(t, m)  BY <3>1, <2>4, <2>6, <1>6, ColGrows
    <3>3. n - 1 < c - 1  BY <3>2, <2>4, <2>6
    <3>4. QED  BY <3>3, <2>1
  <2>8. ~L!IsSpace(t[j])  BY <1>3, <2>1, <2>6
  <2>9. j \in m .. Len(t)  BY <2>7, <1>1
  <2>10. m \in Placed(t, k)  BY <1>1, <2>4, <2>6, <2>8, <2>9 DEF Placed
  <2>11. r[c] = t[m]  BY <1>3, <2>1, <2>4
  <2>12. QED  BY <2>4, <2>10, <2>11
<1>10. QED  BY <1>2, <1>3, <1>8, <1>9 DEF Cut

-----------------------------------------------------------------------------
(* Every byte that is not left out has its line.                           *)
Fit(t, ls) ==
  \A m \in 1 .. Len(t) : m \in Placed(t, EndsOf(t, m) + 1) => EndsOf(t, m) < Len(ls)

WhileReading ==
  /\ i = 1 /\ Len(lines) = EndsOf(text, pos + 1) /\ Len(b) = ColOf(text, pos + 1)
  /\ Len(lines) + Len(b) <= pos
  /\ \A k \in 1 .. Len(lines) : LineOf(text, pos, k, lines[k])
  /\ LineOf(text, pos, Len(lines) + 1, b)
  /\ \A m \in 1 .. pos : text[m] # "zero"

WhileTrimming ==
  /\ Fit(text, lines) /\ Len(lines) <= Len(text) /\ i <= Len(lines) + 1
  /\ \A k \in 1 .. Len(lines) :
       IF k < i THEN Cut(text, k, lines[k]) ELSE LineOf(text, Len(text), k, lines[k])

Trimmed ==
  /\ Fit(text, lines)
  /\ \A k \in 1 .. Len(lines) : Cut(text, k, lines[k])

LinesInv ==
  /\ text \in Seq(L!ByteKind) /\ pos \in 0 .. Len(text) /\ i \in 1 .. Len(text) + 2
  /\ lpc \in {"read", "trim", "drop", "done", "CF"}
  /\ lines \in Seq(Seq(L!ByteKind)) /\ b \in Seq(L!ByteKind \ {"nl", "zero"})
  /\ lpc = "read" => WhileReading
  /\ lpc = "trim" => WhileTrimming
  /\ lpc \in {"drop", "done"} => Trimmed
  /\ lpc = "done" => lines = <<>> \/ lines[Len(lines)] # <<>>
  /\ lpc \notin {"read", "CF"} => \A m \in 1 .. Len(text) : text[m] # "zero"

LEMMA LinesInit == (L!Input \/ NoText) /\ L!Start => LinesInv
<1> SUFFICES ASSUME L!Input \/ NoText, L!Start  PROVE LinesInv  OBVIOUS
<1>1. text \in Seq(L!ByteKind)
  <2>1. CASE L!Input
    <3>1. PICK n \in 0 .. MaxSize : text \in [1 .. n -> L!ByteKind]  BY <2>1 DEF L!Input
    <3>2. n \in Nat  BY <3>1, SizesAssumption
    <3>3. QED  BY <3>1, <3>2
  <2>2. CASE NoText  BY <2>2 DEF NoText
  <2>3. QED  BY <2>1, <2>2
<1>2. pos = 0 /\ b = <<>> /\ lines = <<>> /\ i = 1 /\ lpc = "read"  BY DEF L!Start
<1>3. EndsOf(text, 1) = 0 /\ ColOf(text, 1) = 0
  <2>1. 1 .. 1 - 1 = {}  OBVIOUS
  <2>2. {k \in 1 .. 1 - 1 : text[k] = "nl"} = {} /\ Mine(text, 1) = {}  BY <2>1 DEF Mine
  <2>3. QED  BY <2>2, FS_EmptySet DEF EndsOf, ColOf
<1>4. LineOf(text, 0, 1, <<>>)
  <2>1. 1 .. 0 = {} /\ 1 .. Len(<<>>) = {}  OBVIOUS
  <2>2. QED  BY <2>1 DEF LineOf
<1>5. WhileReading  BY <1>2, <1>3, <1>4 DEF WhileReading
<1>6. QED  BY <1>1, <1>2, <1>5 DEF LinesInv

LEMMA GetcStep == LinesInv /\ L!Getc => LinesInv'
<1> SUFFICES ASSUME LinesInv, L!Getc  PROVE LinesInv'  OBVIOUS
<1>1. PICK n, c : n = pos /\ c = text[n + 1]  OBVIOUS
<1>2. lpc = "read" /\ n < Len(text) /\ pos' = n + 1 /\ text' = text /\ i' = i
  BY <1>1 DEF L!Getc
<1>3. /\ text \in Seq(L!ByteKind) /\ n \in 0 .. Len(text) /\ i \in 1 .. Len(text) + 2
      /\ lines \in Seq(Seq(L!ByteKind)) /\ b \in Seq(L!ByteKind \ {"nl", "zero"}) /\ WhileReading
      /\ L!ByteKind' = L!ByteKind
  BY <1>1, <1>2 DEF LinesInv, L!ByteKind
<1>4. n \in Nat /\ n + 1 \in 1 .. Len(text) /\ n + 1 \in 0 .. Len(text) /\ Len(text) \in Nat  BY <1>2, <1>3
<1>5. c \in L!ByteKind  BY <1>1, <1>3, <1>4
<1>6. PICK l \in Nat : l = Len(lines)  BY <1>3
<1>7. /\ i = 1 /\ l = EndsOf(text, n + 1) /\ Len(b) = ColOf(text, n + 1) /\ l + Len(b) <= n
      /\ \A k \in 1 .. l : LineOf(text, n, k, lines[k])
      /\ LineOf(text, n, l + 1, b) /\ \A m \in 1 .. n : text[m] # "zero"
  BY <1>1, <1>3, <1>6 DEF WhileReading
<1>8. /\ EndsOf(text, n + 2) = IF c = "nl" THEN l + 1 ELSE l
      /\ ColOf(text, n + 2) = IF c = "nl" THEN 0 ELSE Len(b) + 1
  <2>1. (n + 1) + 1 = n + 2 /\ n + 1 \in Nat /\ n + 1 >= 1  BY <1>4
  <2>2. QED  BY <2>1, <1>1, <1>7, EndsNext, ColNext
<1>9. CASE c = "zero"
  <2>1. lpc' = "CF" /\ b' = b /\ lines' = lines  BY <1>1, <1>2, <1>9 DEF L!Getc
  <2>2. QED  BY <1>2, <1>3, <1>4, <2>1 DEF LinesInv
<1>10. b \in Seq(L!ByteKind) /\ (\A j \in 1 .. Len(b) : b[j] # "nl") /\ Len(b) \in Nat
  <2>1. \A j \in 1 .. Len(b) : b[j] \in L!ByteKind \ {"nl", "zero"}  BY <1>3
  <2>2. QED  BY <2>1, <1>3
<1>11. ASSUME c # "zero"
       PROVE  /\ LineOf(text, n + 1, l + 1, Append(b, c))
              /\ \A k \in 1 .. l : LineOf(text, n + 1, k, lines[k])
              /\ \A m \in 1 .. n + 1 : text[m] # "zero"
  <2>1. LineOf(text, n + 1, l + 1, Append(b, c))
    <3>1. l + 1 \in Nat \ {0} /\ EndsOf(text, n + 1) = (l + 1) - 1  BY <1>7
    <3>2. QED  BY <3>1, <1>1, <1>4, <1>5, <1>7, <1>10, LineGrows
  <2>2. ASSUME NEW k \in 1 .. l  PROVE LineOf(text, n + 1, k, lines[k])
    <3>1. EndsOf(text, n + 1) # k - 1  BY <1>7
    <3>2. LineOf(text, n, k, lines[k])  BY <1>7
    <3>3. QED  BY <3>1, <3>2, <1>4, LineStays
  <2>3. \A m : m \in 1 .. n + 1 <=> m \in 1 .. n \/ m = n + 1  BY <1>4
  <2>4. QED  BY <2>1, <2>2, <2>3, <1>1, <1>7, <1>11
<1>12. CASE c = "nl"
  <2>1. lines' = Append(lines, Append(b, c)) /\ b' = <<>> /\ lpc' = lpc
    BY <1>1, <1>2, <1>12 DEF L!Getc
  <2>2. Append(b, c) \in Seq(L!ByteKind)  BY <1>5, <1>10
  <2>3. PICK r : r = Append(b, c)  OBVIOUS
  <2>4. /\ lines' \in Seq(Seq(L!ByteKind)) /\ Len(lines') = l + 1
        /\ lines'[l + 1] = r /\ \A k \in 1 .. l : lines'[k] = lines[k]
    BY <1>3, <1>6, <2>1, <2>2, <2>3
  <2>5. b' \in Seq(L!ByteKind \ {"nl", "zero"}) /\ Len(b') = 0  BY <2>1
  <2>6. ASSUME NEW k \in 1 .. l + 1  PROVE LineOf(text, n + 1, k, lines'[k])
    <3>1. CASE k = l + 1  BY <3>1, <1>11, <1>12, <2>3, <2>4
    <3>2. CASE k # l + 1
      <4>1. k \in 1 .. l  BY <3>2
      <4>2. lines'[k] = lines[k]  BY <4>1, <2>4
      <4>3. QED  BY <4>1, <4>2, <1>11, <1>12
    <3>3. QED  BY <3>1, <3>2
  <2>7. LineOf(text, n + 1, (l + 1) + 1, <<>>)
    <3>1. ASSUME NEW m \in 1 .. n + 1  PROVE EndsOf(text, m) < ((l + 1) + 1) - 1
      <4>1. m \in Nat /\ n + 1 \in Nat /\ m <= n + 1  BY <1>4
      <4>2. EndsOf(text, m) <= EndsOf(text, n + 1) /\ EndsOf(text, m) \in Nat
        BY <4>1, EndsGrow, CountsAreNumbers
      <4>3. QED  BY <4>2, <1>7
    <3>2. (l + 1) + 1 \in Nat /\ n + 1 \in Nat  BY <1>4
    <3>3. QED  BY <3>1, <3>2, NewLine
  <2>8. pos' + 1 = n + 2  BY <1>2, <1>4
  <2>9. l + 1 + 0 <= n + 1 /\ l + 1 = Len(lines')  BY <1>4, <1>7, <1>10, <2>4
  <2>10. WhileReading'
    BY <1>2, <1>7, <1>8, <1>11, <1>12, <2>1, <2>4, <2>5, <2>6, <2>7, <2>8, <2>9 DEF WhileReading
  <2>11. QED  BY <1>2, <1>3, <1>4, <2>1, <2>4, <2>5, <2>10 DEF LinesInv
<1>13. CASE c \notin {"zero", "nl"}
  <2>1. b' = Append(b, c) /\ lines' = lines /\ lpc' = lpc  BY <1>1, <1>2, <1>13 DEF L!Getc
  <2>2. c \in L!ByteKind \ {"nl", "zero"}  BY <1>5, <1>13
  <2>3. b' \in Seq(L!ByteKind \ {"nl", "zero"}) /\ Len(b') = Len(b) + 1  BY <1>3, <2>1, <2>2
  <2>4. pos' + 1 = n + 2  BY <1>2, <1>4
  <2>5. l + (Len(b) + 1) <= n + 1  BY <1>4, <1>7, <1>10
  <2>6. WhileReading'
    BY <1>2, <1>6, <1>7, <1>8, <1>11, <1>13, <2>1, <2>3, <2>4, <2>5 DEF WhileReading
  <2>7. QED  BY <1>2, <1>3, <1>4, <2>1, <2>3, <2>6 DEF LinesInv
<1>14. QED  BY <1>9, <1>12, <1>13

LEMMA EofStep == LinesInv /\ L!Eof => LinesInv'
<1> SUFFICES ASSUME LinesInv, L!Eof  PROVE LinesInv'  OBVIOUS
<1>1. /\ lpc = "read" /\ pos = Len(text) /\ lpc' = "trim" /\ text' = text /\ pos' = pos /\ b' = b /\ i' = i
      /\ lines' = IF b = <<>> THEN lines ELSE Append(lines, b)
  BY DEF L!Eof
<1>2. PICK n : n = pos  OBVIOUS
<1>3. /\ text \in Seq(L!ByteKind) /\ n \in 0 .. Len(text) /\ i \in 1 .. Len(text) + 2 /\ n = Len(text)
      /\ lines \in Seq(Seq(L!ByteKind)) /\ b \in Seq(L!ByteKind \ {"nl", "zero"}) /\ WhileReading
      /\ L!ByteKind' = L!ByteKind /\ n \in Nat
  BY <1>1, <1>2 DEF LinesInv, L!ByteKind
<1>4. PICK l \in Nat : l = Len(lines)  BY <1>3
<1>5. PICK r, s : r = b /\ s = lines'  OBVIOUS
<1>6. /\ i = 1 /\ l = EndsOf(text, n + 1) /\ l + Len(r) <= n
      /\ \A k \in 1 .. l : LineOf(text, n, k, lines[k])
      /\ LineOf(text, n, l + 1, r) /\ \A m \in 1 .. n : text[m] # "zero"
  BY <1>2, <1>3, <1>4, <1>5 DEF WhileReading
<1>7. r \in Seq(L!ByteKind) /\ Len(r) \in Nat
  <2>1. \A j \in 1 .. Len(r) : r[j] \in L!ByteKind  BY <1>3, <1>5
  <2>2. QED  BY <2>1, <1>3, <1>5
<1>8. \A m \in 1 .. n : EndsOf(text, m) \in Nat /\ EndsOf(text, m) <= l
  <2>1. ASSUME NEW m \in 1 .. n  PROVE EndsOf(text, m) \in Nat /\ EndsOf(text, m) <= l
    <3>1. m \in Nat /\ n + 1 \in Nat /\ m <= n + 1  BY <1>3
    <3>2. QED  BY <3>1, <1>6, EndsGrow, CountsAreNumbers
  <2>2. QED  BY <2>1
<1>9. /\ s \in Seq(Seq(L!ByteKind)) /\ Len(s) \in l .. l + 1 /\ Len(s) <= n
      /\ \A k \in 1 .. Len(s) : LineOf(text, n, k, s[k])
      /\ \A m \in 1 .. n : text[m] # "nl" => EndsOf(text, m) < Len(s)
  <2>1. CASE r = <<>>
    <3>1. s = lines  BY <1>1, <1>5, <2>1
    <3>2. ASSUME NEW m \in 1 .. n, text[m] # "nl"  PROVE EndsOf(text, m) < l
      <4>1. 1 .. Len(r) = {}  BY <2>1
      <4>2. EndsOf(text, m) # (l + 1) - 1  BY <3>2, <4>1, <1>6 DEF LineOf
      <4>3. QED  BY <4>2, <1>8
    <3>3. QED  BY <3>1, <3>2, <1>3, <1>4, <1>6, <1>7
  <2>2. CASE r # <<>>
    <3>1. s = Append(lines, r)  BY <1>1, <1>5, <2>2
    <3>2. /\ s \in Seq(Seq(L!ByteKind)) /\ Len(s) = l + 1 /\ s[l + 1] = r
          /\ \A k \in 1 .. l : s[k] = lines[k]
      BY <3>1, <1>3, <1>4, <1>7
    <3>3. \A k : k \in 1 .. l + 1 => k \in 1 .. l \/ k = l + 1  OBVIOUS
    <3>4. Len(r) >= 1  BY <1>7, <2>2
    <3>5. \A k \in 1 .. Len(s) : LineOf(text, n, k, s[k])  BY <3>2, <3>3, <1>6
    <3>6. Len(s) \in l .. l + 1 /\ Len(s) <= n  BY <3>2, <3>4, <1>3, <1>6, <1>7
    <3>7. \A m \in 1 .. n : EndsOf(text, m) < Len(s)  BY <3>2, <1>8
    <3>8. QED  BY <3>2, <3>5, <3>6, <3>7
  <2>3. QED  BY <2>1, <2>2
<1>10. Fit(text, s)  BY <1>3, <1>9 DEF Fit, Placed
<1>11. WhileTrimming'
  <2>1. Len(s) \in Nat /\ 1 <= Len(s) + 1 /\ \A k \in 1 .. Len(s) : ~(k < 1)  BY <1>9
  <2>2. QED  BY <1>1, <1>3, <1>5, <1>6, <1>9, <1>10, <2>1 DEF WhileTrimming
<1>12. QED  BY <1>1, <1>2, <1>3, <1>5, <1>6, <1>9, <1>11 DEF LinesInv

LEMMA TrimStep == LinesInv /\ L!Trim => LinesInv'
<1> SUFFICES ASSUME LinesInv, L!Trim  PROVE LinesInv'  OBVIOUS
<1>1. lpc = "trim" /\ text' = text /\ pos' = pos /\ b' = b  BY DEF L!Trim
<1>2. PICK n : n = i  OBVIOUS
<1>3. /\ text \in Seq(L!ByteKind) /\ pos \in 0 .. Len(text) /\ n \in 1 .. Len(text) + 2
      /\ lines \in Seq(Seq(L!ByteKind)) /\ b \in Seq(L!ByteKind \ {"nl", "zero"}) /\ WhileTrimming
      /\ L!ByteKind' = L!ByteKind /\ Len(text) \in Nat /\ \A m \in 1 .. Len(text) : text[m] # "zero"
  BY <1>1, <1>2 DEF LinesInv, L!ByteKind
<1>4. PICK l \in Nat : l = Len(lines)  BY <1>3
<1>5. /\ Fit(text, lines) /\ l <= Len(text) /\ n <= l + 1
      /\ \A k \in 1 .. l : IF k < n THEN Cut(text, k, lines[k]) ELSE LineOf(text, Len(text), k, lines[k])
  BY <1>2, <1>3, <1>4 DEF WhileTrimming
<1>6. CASE n <= l
  <2>1. lines' = [lines EXCEPT ![n] = L!Trimmed(lines[n])] /\ i' = n + 1 /\ lpc' = lpc
    BY <1>2, <1>4, <1>6 DEF L!Trim
  <2>2. n \in 1 .. l /\ n \in Nat \ {0} /\ n \in Nat  BY <1>3, <1>6
  <2>3. lines[n] \in Seq(L!ByteKind) /\ LineOf(text, Len(text), n, lines[n])  BY <2>2, <1>3, <1>4, <1>5
  <2>4. Cut(text, n, L!Trimmed(lines[n])) /\ L!Trimmed(lines[n]) \in Seq(L!ByteKind)
    BY <2>2, <2>3, <1>3, TrimCuts
  <2>5. PICK s, r : s = lines' /\ r = L!Trimmed(lines[n])  OBVIOUS
  <2>6. /\ s \in Seq(Seq(L!ByteKind)) /\ Len(s) = l /\ s[n] = r
        /\ \A k \in 1 .. l : k # n => s[k] = lines[k]
    BY <1>3, <1>4, <2>1, <2>2, <2>4, <2>5
  <2>7. Fit(text, s)  BY <1>4, <1>5, <2>6 DEF Fit
  <2>8. ASSUME NEW k \in 1 .. l
        PROVE IF k < n + 1 THEN Cut(text, k, s[k]) ELSE LineOf(text, Len(text), k, s[k])
    <3>1. CASE k = n
      <4>1. k < n + 1  BY <3>1, <2>2
      <4>2. QED  BY <3>1, <4>1, <2>4, <2>5, <2>6
    <3>2. CASE k # n
      <4>1. s[k] = lines[k] /\ (k < n + 1 <=> k < n)  BY <3>2, <2>2, <2>6
      <4>2. QED  BY <4>1, <1>5
    <3>3. QED  BY <3>1, <3>2
  <2>9. n + 1 <= l + 1 /\ n + 1 \in 1 .. Len(text) + 2  BY <2>2, <1>3, <1>5
  <2>10. WhileTrimming'  BY <1>1, <1>5, <2>1, <2>5, <2>6, <2>7, <2>8, <2>9 DEF WhileTrimming
  <2>11. QED  BY <1>1, <1>3, <2>1, <2>5, <2>6, <2>9, <2>10 DEF LinesInv
<1>7. CASE ~(n <= l)
  <2>1. lpc' = "drop" /\ lines' = lines /\ i' = i  BY <1>2, <1>4, <1>7 DEF L!Trim
  <2>2. \A k \in 1 .. l : k < n  BY <1>3, <1>7
  <2>3. \A k \in 1 .. l : Cut(text, k, lines[k])  BY <2>2, <1>5
  <2>4. Trimmed'  BY <1>1, <1>4, <1>5, <2>1, <2>3 DEF Trimmed
  <2>5. QED  BY <1>1, <1>2, <1>3, <2>1, <2>4 DEF LinesInv
<1>8. QED  BY <1>6, <1>7

LEMMA DropStep == LinesInv /\ L!Drop => LinesInv'
<1> SUFFICES ASSUME LinesInv, L!Drop  PROVE LinesInv'  OBVIOUS
<1>1. lpc = "drop" /\ text' = text /\ pos' = pos /\ b' = b /\ i' = i  BY DEF L!Drop
<1>2. /\ text \in Seq(L!ByteKind) /\ pos \in 0 .. Len(text) /\ i \in 1 .. Len(text) + 2
      /\ lines \in Seq(Seq(L!ByteKind)) /\ b \in Seq(L!ByteKind \ {"nl", "zero"}) /\ Trimmed
      /\ L!ByteKind' = L!ByteKind /\ Len(text) \in Nat /\ \A m \in 1 .. Len(text) : text[m] # "zero"
  BY <1>1 DEF LinesInv, L!ByteKind
<1>3. PICK l \in Nat : l = Len(lines)  BY <1>2
<1>4. CASE lines # <<>> /\ lines[Len(lines)] = <<>>
  <2>1. lines' = SubSeq(lines, 1, Len(lines) - 1) /\ lpc' = lpc  BY <1>1, <1>4 DEF L!Drop
  <2>2. l >= 1 /\ l \in 1 .. l /\ lines[l] = <<>> /\ l - 1 \in 0 .. l  BY <1>2, <1>3, <1>4
  <2>3. PICK s : s = lines'  OBVIOUS
  <2>4. s \in Seq(Seq(L!ByteKind)) /\ Len(s) = l - 1 /\ \A k \in 1 .. l - 1 : s[k] = lines[k] /\ k \in 1 .. l
    <3>1. PICK E : E = Seq(L!ByteKind)  OBVIOUS
    <3>2. lines \in Seq(E) /\ s = SubSeq(lines, 1, l - 1) /\ l - 1 \in Nat
      BY <1>2, <1>3, <2>1, <2>2, <2>3, <3>1
    <3>3. s \in Seq(E) /\ Len(s) = l - 1 /\ \A k \in 1 .. l - 1 : s[k] = lines[k]
      BY <1>3, <2>2, <3>2
    <3>4. \A k \in 1 .. l - 1 : k \in 1 .. l  BY <2>2
    <3>5. QED  BY <3>1, <3>3, <3>4
  <2>5. \A k \in 1 .. l - 1 : Cut(text, k, s[k])  BY <1>2, <1>3, <2>4 DEF Trimmed
  <2>6. Fit(text, s)
    <3>1. SUFFICES ASSUME NEW m \in 1 .. Len(text), m \in Placed(text, EndsOf(text, m) + 1)
                   PROVE  EndsOf(text, m) < l - 1
      BY <2>4 DEF Fit
    <3>2. EndsOf(text, m) < l /\ EndsOf(text, m) \in Nat
      BY <3>1, <1>2, <1>3, CountsAreNumbers DEF Trimmed, Fit
    <3>3. EndsOf(text, m) + 1 # l
      <4>1. SUFFICES ASSUME m \in Placed(text, l)  PROVE FALSE  BY <3>1
      <4>2. Cut(text, l, <<>>)  BY <1>2, <1>3, <2>2 DEF Trimmed
      <4>3. 1 .. Len(<<>>) = {}  OBVIOUS
      <4>4. QED  BY <4>1, <4>2, <4>3 DEF Cut
    <3>4. QED  BY <3>2, <3>3
  <2>7. Trimmed'  BY <1>1, <2>3, <2>4, <2>5, <2>6 DEF Trimmed
  <2>8. QED  BY <1>1, <1>2, <2>1, <2>3, <2>4, <2>7 DEF LinesInv
<1>5. CASE ~(lines # <<>> /\ lines[Len(lines)] = <<>>)
  <2>1. lines' = lines /\ lpc' = "done"  BY <1>1, <1>5 DEF L!Drop
  <2>2. Trimmed'  BY <1>1, <1>2, <2>1 DEF Trimmed
  <2>3. QED  BY <1>1, <1>2, <1>5, <2>1, <2>2 DEF LinesInv
<1>6. QED  BY <1>4, <1>5

LEMMA LinesStep == LinesInv /\ [L!Next]_(L!vars) => LinesInv'
<1>1. ASSUME LinesInv, UNCHANGED L!vars  PROVE LinesInv'
  <2>1. text' = text /\ pos' = pos /\ b' = b /\ lines' = lines /\ i' = i /\ lpc' = lpc
    BY <1>1 DEF L!vars
  <2>2. WhileReading' = WhileReading /\ WhileTrimming' = WhileTrimming /\ Trimmed' = Trimmed
        /\ L!ByteKind' = L!ByteKind
    BY <2>1 DEF WhileReading, WhileTrimming, Trimmed, L!ByteKind
  <2>3. QED  BY <1>1, <2>1, <2>2 DEF LinesInv
<1>2. QED  BY <1>1, GetcStep, EofStep, TrimStep, DropStep DEF L!Next

-----------------------------------------------------------------------------
(* The set that LinesRight compares is what Placed says, line by line.     *)
LEMMA LinesInvImplies == LinesInv => L!TypeOK /\ L!LinesRight
<1> SUFFICES ASSUME LinesInv  PROVE L!TypeOK /\ L!LinesRight  OBVIOUS
<1>1. /\ text \in Seq(L!ByteKind) /\ pos \in 0 .. Len(text) /\ i \in 1 .. Len(text) + 2
      /\ lpc \in {"read", "trim", "drop", "done", "CF"}
      /\ lines \in Seq(Seq(L!ByteKind)) /\ b \in Seq(L!ByteKind \ {"nl", "zero"})
  BY DEF LinesInv
<1>2. L!TypeOK
  <2>1. \A k \in DOMAIN b : b[k] \in L!ByteKind \ {"nl", "zero"}  BY <1>1
  <2>2. QED  BY <1>1, <2>1 DEF L!TypeOK
<1>3. PICK N \in Nat : N = Len(text) /\ DOMAIN text = 1 .. N  BY <1>1
<1>4. PICK l \in Nat : l = Len(lines) /\ DOMAIN lines = 1 .. l  BY <1>1
<1>5. lpc \notin {"read", "CF"} => "zero" \notin {text[k] : k \in DOMAIN text}
  BY <1>3 DEF LinesInv
<1>6. ASSUME lpc = "done", lines # <<>>  PROVE lines[Len(lines)] # <<>>  BY <1>6 DEF LinesInv
<1>7. ASSUME lpc = "done"
      PROVE  L!Placed = UNION {{[line |-> k, before |-> j - 1, is |-> lines[k][j]] : j \in DOMAIN lines[k]}
                                 : k \in DOMAIN lines}
  <2>1. Fit(text, lines) /\ \A k \in 1 .. l : Cut(text, k, lines[k])  BY <1>4, <1>7 DEF LinesInv, Trimmed
  <2>2. \A m \in 1 .. N : EndsOf(text, m) \in Nat /\ ColOf(text, m) \in Nat  BY CountsAreNumbers
  <2>3. \A k \in 1 .. l : DOMAIN lines[k] = 1 .. Len(lines[k]) /\ Len(lines[k]) \in Nat
    <3>1. \A k \in 1 .. l : lines[k] \in Seq(L!ByteKind)  BY <1>1, <1>4
    <3>2. QED  BY <3>1
  <2>4. \A m : L!Cardinality({k \in 1 .. m - 1 : L!Ends(k) = L!Ends(m) /\ text[k] # "nl"}) = ColOf(text, m)
    BY EndsIs DEF ColOf, Mine, L!Cardinality, Cardinality
  <2>5. PICK P : P = {m \in DOMAIN text : /\ text[m] # "nl"
                                          /\ \E j \in m .. Len(text) : ~L!IsSpace(text[j]) /\ L!Ends(j) = L!Ends(m)}
    OBVIOUS
  <2>6. \A m : m \in P <=> m \in 1 .. N /\ m \in Placed(text, EndsOf(text, m) + 1)
    <3>1. \A m \in 1 .. N : (EndsOf(text, m) + 1) - 1 = EndsOf(text, m)  BY <2>2
    <3>2. QED  BY <1>3, <2>5, <3>1, EndsIs DEF Placed
  <2>7. L!Placed = {[line |-> EndsOf(text, m) + 1, before |-> ColOf(text, m), is |-> text[m]] : m \in P}
    BY <2>4, <2>5, EndsIs DEF L!Placed
  <2>8. ASSUME NEW m \in P
        PROVE  [line |-> EndsOf(text, m) + 1, before |-> ColOf(text, m), is |-> text[m]]
                 \in UNION {{[line |-> k, before |-> j - 1, is |-> lines[k][j]] : j \in DOMAIN lines[k]}
                              : k \in DOMAIN lines}
    <3>1. PICK k, j : k = EndsOf(text, m) + 1 /\ j = ColOf(text, m) + 1  OBVIOUS
    <3>2. m \in 1 .. N /\ m \in Placed(text, k)  BY <2>6, <3>1
    <3>3. EndsOf(text, m) < l /\ EndsOf(text, m) \in Nat /\ ColOf(text, m) \in Nat
      BY <3>1, <3>2, <2>1, <2>2, <1>3, <1>4 DEF Fit
    <3>4. k \in 1 .. l /\ j - 1 = ColOf(text, m)  BY <3>1, <3>3
    <3>5. j \in 1 .. Len(lines[k]) /\ lines[k][j] = text[m]  BY <2>1, <3>1, <3>2, <3>4 DEF Cut
    <3>6. j \in DOMAIN lines[k] /\ k \in DOMAIN lines  BY <1>4, <2>3, <3>4, <3>5
    <3>7. [line |-> EndsOf(text, m) + 1, before |-> ColOf(text, m), is |-> text[m]]
            = [line |-> k, before |-> j - 1, is |-> lines[k][j]]
      BY <3>1, <3>4, <3>5
    <3>8. QED  BY <3>6, <3>7
  <2>9. ASSUME NEW k \in DOMAIN lines, NEW j \in DOMAIN lines[k]
        PROVE  [line |-> k, before |-> j - 1, is |-> lines[k][j]]
                 \in {[line |-> EndsOf(text, m) + 1, before |-> ColOf(text, m), is |-> text[m]] : m \in P}
    <3>1. k \in 1 .. l /\ j \in 1 .. Len(lines[k])  BY <1>4, <2>3
    <3>2. PICK m \in Placed(text, k) : ColOf(text, m) = j - 1 /\ lines[k][j] = text[m]
      BY <2>1, <3>1 DEF Cut
    <3>3. m \in 1 .. N /\ EndsOf(text, m) = k - 1  BY <1>3, <3>2 DEF Placed
    <3>4. EndsOf(text, m) + 1 = k  BY <3>1, <3>3
    <3>5. m \in P  BY <2>6, <3>2, <3>3, <3>4
    <3>6. [line |-> EndsOf(text, m) + 1, before |-> ColOf(text, m), is |-> text[m]]
            = [line |-> k, before |-> j - 1, is |-> lines[k][j]]
      BY <3>2, <3>4
    <3>7. QED  BY <3>5, <3>6
  <2>10. PICK X, Y : /\ X = {[line |-> EndsOf(text, m) + 1, before |-> ColOf(text, m), is |-> text[m]] : m \in P}
                     /\ Y = UNION {{[line |-> k, before |-> j - 1, is |-> lines[k][j]] : j \in DOMAIN lines[k]}
                                     : k \in DOMAIN lines}
    OBVIOUS
  <2>11. \A x \in X : x \in Y  BY <2>8, <2>10
  <2>12. ASSUME NEW x \in Y  PROVE x \in X
    <3>1. PICK k \in DOMAIN lines :
                 x \in {[line |-> k, before |-> j - 1, is |-> lines[k][j]] : j \in DOMAIN lines[k]}
      BY <2>10
    <3>2. PICK j \in DOMAIN lines[k] : x = [line |-> k, before |-> j - 1, is |-> lines[k][j]]
      BY <3>1
    <3>3. QED  BY <3>2, <2>9, <2>10
  <2>13. X = Y  BY <2>11, <2>12
  <2>14. QED  BY <2>7, <2>10, <2>13
<1>8. QED  BY <1>2, <1>5, <1>6, <1>7 DEF L!LinesRight

LEMMA RunsCheckers ==
  AllSpec => /\ (R!Input \/ NoOutput) /\ R!Start /\ [][R!Next]_(R!vars)
             /\ (L!Input \/ NoText) /\ L!Start /\ [][L!Next]_(L!vars)
<1>1. AllInit => (R!Input \/ NoOutput) /\ R!Start /\ (L!Input \/ NoText) /\ L!Start  BY DEF AllInit
<1>2. [AllNext]_allVars => [R!Next]_(R!vars)
  BY DEF AllNext, allVars, checkerVars, R!vars, R!inputs
<1>3. [AllNext]_allVars => [L!Next]_(L!vars)
  BY DEF AllNext, allVars, lineVars, L!vars
<1>4. QED  BY <1>1, <1>2, <1>3, PTL DEF AllSpec

(* The checker of redirect-io accepts exactly the right file, for files    *)
(* and chunks of any size; and of a file of any size that is read by lines *)
(* what is left is every byte in its place, but white space with nothing   *)
(* else behind it, and a byte 0 is always found.                           *)
THEOREM CheckersAreRight == AllSpec => []CheckersRight
<1>1. CheckerInv => R!TypeOK /\ R!OkMeansEqual  BY DEF CheckerInv
<1>2. CheckerInv /\ LinesInv => CheckersRight  BY <1>1, LinesInvImplies DEF CheckersRight
<1>3. QED
  BY <1>2, CheckerInit, CheckerStep, LinesInit, LinesStep, RunsCheckers, PTL

-----------------------------------------------------------------------------
(* parse_cmdline and unparse.  What FlattenSeq makes of sequences: each    *)
(* begins in it where the one before ends.                                 *)
Flat(s, g, n) == g = [m \in 1 .. n |-> IF m = 1 THEN s[m] ELSE g[m - 1] \o s[m]]

Laid(s, t, f) ==
  /\ f \in [0 .. Len(s) -> Nat] /\ f[0] = 0 /\ Len(t) = f[Len(s)]
  /\ \A m \in 1 .. Len(s) : f[m] = f[m - 1] + Len(s[m])
  /\ \A m \in 1 .. Len(s) : f[m] <= Len(t)
  /\ \A m \in 1 .. Len(s) : \A k \in 1 .. Len(s[m]) : t[f[m - 1] + k] = s[m][k]

LEMMA FlatExists == ASSUME NEW s  PROVE \A n \in Nat : \E g : Flat(s, g, n)
<1>1. PICK S : S = {n \in Nat : ~\E g : Flat(s, g, n)}  OBVIOUS
<1>2. SUFFICES ASSUME S # {}  PROVE FALSE  BY <1>1
<1>3. S \in SUBSET Nat  BY <1>1
<1>4. PICK n \in S : \A m \in S : n <= m  BY <1>2, <1>3, LeastOf
<1>5. n \in Nat /\ ~\E g : Flat(s, g, n)  BY <1>1
<1>6. CASE n = 0
  <2>1. PICK g : g = [m \in 1 .. 0 |-> m]  OBVIOUS
  <2>2. g = [m \in 1 .. 0 |-> IF m = 1 THEN s[m] ELSE g[m - 1] \o s[m]]  BY <2>1
  <2>3. QED  BY <1>5, <1>6, <2>2 DEF Flat
<1>7. CASE n > 0
  <2>1. n - 1 \in Nat /\ ~(n <= n - 1)  BY <1>5, <1>7
  <2>2. PICK g : Flat(s, g, n - 1)  BY <2>1, <1>1, <1>4
  <2>3. PICK x : x = IF n = 1 THEN s[n] ELSE g[n - 1] \o s[n]  OBVIOUS
  <2>4. PICK h : h = [m \in 1 .. n |-> IF m = n THEN x ELSE g[m]]  OBVIOUS
  <2>5. ASSUME NEW m \in 1 .. n  PROVE h[m] = IF m = 1 THEN s[m] ELSE h[m - 1] \o s[m]
    <3>1. CASE m = n
      <4>1. h[m] = x  BY <2>4, <3>1
      <4>2. m # 1 => h[m - 1] = g[m - 1]  BY <2>4, <3>1, <1>5
      <4>3. QED  BY <4>1, <4>2, <2>3, <3>1
    <3>2. CASE m # n
      <4>1. m \in 1 .. n - 1 /\ h[m] = g[m]  BY <2>4, <3>2, <1>5
      <4>2. m # 1 => m - 1 \in 1 .. n /\ m - 1 # n  BY <4>1, <1>5
      <4>3. m # 1 => h[m - 1] = g[m - 1]  BY <4>2, <2>4
      <4>4. g[m] = IF m = 1 THEN s[m] ELSE g[m - 1] \o s[m]  BY <4>1, <2>2 DEF Flat
      <4>5. QED  BY <4>1, <4>3, <4>4
    <3>3. QED  BY <3>1, <3>2
  <2>6. h = [m \in 1 .. n |-> IF m = 1 THEN s[m] ELSE h[m - 1] \o s[m]]  BY <2>4, <2>5
  <2>7. QED  BY <1>5, <2>6 DEF Flat
<1>8. QED  BY <1>5, <1>6, <1>7

LEMMA FlattenIs ==
  ASSUME NEW C, NEW s \in Seq(Seq(C)), s # <<>>
  PROVE  FlattenSeq(s) \in Seq(C) /\ \E f : Laid(s, FlattenSeq(s), f)
<1>1. PICK n \in Nat \ {0} : n = Len(s)  OBVIOUS
<1>2. PICK g : g = CHOOSE h : Flat(s, h, n)  OBVIOUS
<1>3. Flat(s, g, n)
  <2>1. \E h : Flat(s, h, n)  BY FlatExists, <1>1
  <2>2. QED  BY <2>1, <1>2
<1>4. FlattenSeq(s) = g[n]  BY <1>1, <1>2 DEF FlattenSeq, Flat
<1>5. \A m \in 1 .. n : g[m] = IF m = 1 THEN s[m] ELSE g[m - 1] \o s[m]  BY <1>3 DEF Flat
<1>6. \A m \in 1 .. n : s[m] \in Seq(C)  BY <1>1
<1>7. \A m \in 1 .. n : g[m] \in Seq(C)
  <2>1. PICK S : S = {m \in 1 .. n : g[m] \notin Seq(C)}  OBVIOUS
  <2>2. SUFFICES ASSUME S # {}  PROVE FALSE  BY <2>1
  <2>3. S \in SUBSET Nat  BY <2>1
  <2>4. PICK m \in S : \A k \in S : m <= k  BY <2>2, <2>3, LeastOf
  <2>5. m \in 1 .. n /\ g[m] \notin Seq(C)  BY <2>1
  <2>6. CASE m = 1  BY <2>5, <2>6, <1>5, <1>6
  <2>7. CASE m # 1
    <3>1. m - 1 \in 1 .. n /\ ~(m <= m - 1)  BY <2>5, <2>7, <1>1
    <3>2. g[m - 1] \in Seq(C)  BY <3>1, <2>1, <2>4
    <3>3. g[m] = g[m - 1] \o s[m]  BY <2>5, <2>7, <1>5
    <3>4. s[m] \in Seq(C)  BY <2>5, <1>6
    <3>5. g[m] \in Seq(C)  BY <3>2, <3>3, <3>4
    <3>6. QED  BY <3>5, <2>5
  <2>8. QED  BY <2>6, <2>7
<1>8. ASSUME NEW j \in 1 .. n  PROVE \A m \in j .. n : Len(g[j]) <= Len(g[m]) /\ \A k \in 1 .. Len(g[j]) : g[m][k] = g[j][k]
  <2>1. PICK x : x = g[j]  OBVIOUS
  <2>2. x \in Seq(C) /\ Len(x) \in Nat  BY <2>1, <1>7
  <2>3. PICK S : S = {m \in j .. n : ~(Len(x) <= Len(g[m]) /\ \A k \in 1 .. Len(x) : g[m][k] = x[k])}  OBVIOUS
  <2>4. SUFFICES ASSUME S # {}  PROVE FALSE  BY <2>1, <2>3
  <2>5. S \in SUBSET Nat  BY <2>3, <1>1
  <2>6. PICK m \in S : \A k \in S : m <= k  BY <2>4, <2>5, LeastOf
  <2>7. m \in j .. n /\ m \in Nat /\ ~(Len(x) <= Len(g[m]) /\ \A k \in 1 .. Len(x) : g[m][k] = x[k])  BY <2>3, <2>5
  <2>8. CASE m = j  BY <2>1, <2>2, <2>7, <2>8
  <2>9. CASE m # j
    <3>1. m - 1 \in j .. n /\ m - 1 \in 1 .. n /\ m \in 1 .. n /\ m # 1 /\ ~(m <= m - 1)  BY <2>7, <2>9, <1>1
    <3>2. PICK y, z : y = g[m - 1] /\ z = s[m]  OBVIOUS
    <3>3. Len(x) <= Len(y) /\ \A k \in 1 .. Len(x) : y[k] = x[k]  BY <3>1, <3>2, <2>3, <2>6
    <3>4. y \in Seq(C) /\ z \in Seq(C)  BY <3>1, <3>2, <1>6, <1>7
    <3>5. g[m] = y \o z  BY <3>1, <3>2, <1>5
    <3>6. Len(y \o z) = Len(y) + Len(z) /\ \A k \in 1 .. Len(y) : (y \o z)[k] = y[k]  BY <3>4
    <3>7. Len(y) \in Nat /\ Len(z) \in Nat  BY <3>4
    <3>8. Len(x) <= Len(y \o z) /\ \A k \in 1 .. Len(x) : (y \o z)[k] = x[k]  BY <3>3, <3>6, <3>7, <2>2
    <3>9. QED  BY <3>5, <3>8, <2>7
  <2>10. QED  BY <2>8, <2>9
<1>9. PICK f : f = [m \in 0 .. n |-> IF m = 0 THEN 0 ELSE Len(g[m])]  OBVIOUS
<1>10. f \in [0 .. n -> Nat] /\ f[0] = 0 /\ \A m \in 1 .. n : f[m] = Len(g[m])
  <2>1. \A m \in 1 .. n : Len(g[m]) \in Nat  BY <1>7
  <2>2. QED  BY <2>1, <1>1, <1>9
<1>11. PICK t : t = g[n]  OBVIOUS
<1>12. t \in Seq(C) /\ Len(t) = f[n]  BY <1>1, <1>7, <1>10, <1>11
<1>13. ASSUME NEW m \in 1 .. n
       PROVE f[m] = f[m - 1] + Len(s[m]) /\ f[m] <= Len(t) /\ \A k \in 1 .. Len(s[m]) : t[f[m - 1] + k] = s[m][k]
  <2>1. PICK y, z : y = g[m] /\ z = s[m]  OBVIOUS
  <2>2. y \in Seq(C) /\ z \in Seq(C) /\ Len(y) \in Nat /\ Len(z) \in Nat /\ f[m] = Len(y)  BY <2>1, <1>6, <1>7, <1>10
  <2>3. n \in m .. n  BY <1>1
  <2>4. Len(y) <= Len(t) /\ \A k \in 1 .. Len(y) : t[k] = y[k]  BY <1>8, <2>1, <2>3, <1>11
  <2>5. f[m] = f[m - 1] + Len(z) /\ \A k \in 1 .. Len(z) : y[f[m - 1] + k] = z[k]
    <3>1. CASE m = 1
      <4>1. y = z /\ f[m - 1] = 0  BY <3>1, <2>1, <1>5, <1>10
      <4>2. QED  BY <4>1, <2>2
    <3>2. CASE m # 1
      <4>1. m - 1 \in 1 .. n  BY <3>2, <1>1
      <4>2. PICK x : x = g[m - 1]  OBVIOUS
      <4>3. x \in Seq(C) /\ Len(x) \in Nat /\ f[m - 1] = Len(x)  BY <4>1, <4>2, <1>7, <1>10
      <4>4. y = x \o z  BY <4>2, <2>1, <3>2, <1>5
      <4>5. Len(y) = Len(x) + Len(z) /\ \A k \in 1 .. Len(z) : y[Len(x) + k] = z[k]  BY <4>3, <4>4, <2>2
      <4>6. QED  BY <4>3, <4>5, <2>2
    <3>3. QED  BY <3>1, <3>2
  <2>6. f[m - 1] \in Nat
    <3>1. m - 1 \in 0 .. n  BY <1>1
    <3>2. QED  BY <3>1, <1>10
  <2>7. ASSUME NEW k \in 1 .. Len(z)  PROVE t[f[m - 1] + k] = z[k]
    <3>1. f[m - 1] + k \in 1 .. Len(y)  BY <2>2, <2>5, <2>6
    <3>2. QED  BY <3>1, <2>4, <2>5
  <2>8. QED  BY <2>1, <2>2, <2>4, <2>5, <2>7
<1>14. Laid(s, t, f)  BY <1>1, <1>10, <1>12, <1>13 DEF Laid
<1>15. QED  BY <1>4, <1>11, <1>12, <1>14

-----------------------------------------------------------------------------
(* The characters of a word, and what each is written as.                  *)
Ascii == 1 .. 127
Bare(c) == c \in 32 .. 126 /\ c \notin {SingleQuote, DoubleQuote, Backslash}

WrittenAs(c, x) ==
  \/ Bare(c) /\ x = <<c>>
  \/ \E l \in DOMAIN Letter : c = Letter[l] /\ x = <<Backslash, l>>
  \/ c \in {SingleQuote, DoubleQuote, Backslash} /\ x = <<Backslash, c>>
  \/ \E d1 \in 0 .. 1 : \E d2, d3 \in 0 .. 7 :
       c = 64 * d1 + 8 * d2 + d3 /\ x = <<Backslash, 48 + d1, 48 + d2, 48 + d3>>

LEMMA OctalIs ==
  ASSUME NEW c \in Ascii
  PROVE  \E d1 \in 0 .. 1 : \E d2, d3 \in 0 .. 7 :
           c = 64 * d1 + 8 * d2 + d3 /\ Octal(c) = <<48 + d1, 48 + d2, 48 + d3>>
<1>1. c \in Nat /\ c <= 127  BY DEF Ascii
<1>2. PICK d1, d2, d3, o : d1 = c \div 64 /\ d2 = (c \div 8) % 8 /\ d3 = c % 8 /\ o = c \div 8  OBVIOUS
<1>3. d1 \in Nat /\ d1 <= 1 /\ o \in Nat /\ d3 \in 0 .. 7 /\ c = 8 * o + d3  BY <1>1, <1>2
<1>4. d2 = o % 8 /\ d2 \in 0 .. 7  BY <1>2, <1>3
<1>5. o = 8 * (o \div 8) + d2 /\ o \div 8 \in Nat  BY <1>3, <1>4
<1>6. o \div 8 = d1  BY <1>1, <1>2
<1>7. c = 64 * d1 + 8 * d2 + d3  BY <1>1, <1>3, <1>4, <1>5, <1>6
<1>8. Octal(c) = <<48 + d1, 48 + d2, 48 + d3>>  BY <1>2 DEF Octal
<1>9. d1 \in 0 .. 1  BY <1>3
<1>10. QED  BY <1>4, <1>3, <1>7, <1>8, <1>9

LEMMA BehindOne ==
  ASSUME NEW x, NEW y1, NEW y2, NEW y3
  PROVE  <<x>> \o <<y1, y2, y3>> = <<x, y1, y2, y3>>
<1>1. PICK C : C = {x, y1, y2, y3}  OBVIOUS
<1>2. PICK s, t, u, v : s = <<x>> /\ t = <<y1, y2, y3>> /\ u = <<x, y1, y2, y3>> /\ v = s \o t  OBVIOUS
<1>3. s \in Seq(C) /\ t \in Seq(C) /\ Len(s) = 1 /\ Len(t) = 3  BY <1>1, <1>2
<1>4. u \in Seq(C) /\ Len(u) = 4 /\ u[1] = x /\ u[2] = y1 /\ u[3] = y2 /\ u[4] = y3  BY <1>1, <1>2
<1>5. v \in Seq(C) /\ Len(v) = 4 /\ v[1] = s[1] /\ v[2] = t[1] /\ v[3] = t[2] /\ v[4] = t[3]  BY <1>2, <1>3
<1>6. \A k \in 1 .. 4 : u[k] = v[k]  BY <1>2, <1>4, <1>5
<1>7. u = v  BY <1>4, <1>5, <1>6
<1>8. QED  BY <1>2, <1>7

LEMMA EscapedIs ==
  ASSUME NEW c \in Ascii
  PROVE  WrittenAs(c, Escaped(c))
<1> USE DEF SingleQuote, DoubleQuote, Backslash, Delete
<1>1. c \in Nat /\ c >= 1 /\ c <= 127  BY DEF Ascii
<1>2. CASE c \in {9, 10, 13}
  <2>1. PICK l : l = (IF c = 9 THEN 116 ELSE IF c = 13 THEN 114 ELSE 110)  OBVIOUS
  <2>2. l \in {97, 98, 102, 110, 114, 116, 118} /\ c = Letter[l] /\ l \in DOMAIN Letter  BY <2>1, <1>2 DEF Letter
  <2>3. Escaped(c) = <<Backslash, l>>
    <3>1. CASE c = 9  BY <2>1, <3>1 DEF Escaped
    <3>2. CASE c = 10  BY <2>1, <3>2 DEF Escaped
    <3>3. CASE c = 13  BY <2>1, <3>3 DEF Escaped
    <3>4. QED  BY <1>2, <3>1, <3>2, <3>3
  <2>4. QED  BY <2>2, <2>3 DEF WrittenAs
<1>3. CASE c \in {34, 39, 92}
  <2>1. Escaped(c) = <<Backslash, c>>  BY <1>3 DEF Escaped
  <2>2. QED  BY <2>1, <1>3 DEF WrittenAs
<1>4. CASE (c < 32 \/ c = 127) /\ c \notin {9, 10, 13}
  <2>1. PICK o : o = Octal(c)  OBVIOUS
  <2>2. Escaped(c) = <<Backslash>> \o o
    <3>1. c # 9 /\ c # 10 /\ c # 13 /\ c \notin {34, 39, 92} /\ ~(c > 127)  BY <1>1, <1>4
    <3>2. QED  BY <2>1, <1>4, <3>1 DEF Escaped
  <2>3. PICK d1 \in 0 .. 1 : \E d2, d3 \in 0 .. 7 : c = 64 * d1 + 8 * d2 + d3 /\ o = <<48 + d1, 48 + d2, 48 + d3>>
    BY <2>1, OctalIs
  <2>4. PICK d2 \in 0 .. 7, d3 \in 0 .. 7 : c = 64 * d1 + 8 * d2 + d3 /\ o = <<48 + d1, 48 + d2, 48 + d3>>
    BY <2>3
  <2>5. <<Backslash>> \o o = <<Backslash, 48 + d1, 48 + d2, 48 + d3>>  BY <2>4, BehindOne
  <2>6. QED  BY <2>2, <2>4, <2>5 DEF WrittenAs
<1>5. CASE c \in 32 .. 126 /\ c \notin {34, 39, 92}
  <2>1. c # 9 /\ c # 10 /\ c # 13 /\ ~(c < 32 \/ c = 127) /\ ~(c > 127)  BY <1>5
  <2>2. Escaped(c) = <<c>>  BY <1>5, <2>1 DEF Escaped
  <2>3. QED  BY <2>2, <1>5 DEF WrittenAs, Bare
<1>6. QED  BY <1>1, <1>2, <1>3, <1>4, <1>5

LEMMA EscapedTyped ==
  ASSUME NEW c \in Ascii
  PROVE  Escaped(c) \in Seq(Ascii) /\ Escaped(c) # <<>>
<1>1. PICK x : x = Escaped(c)  OBVIOUS
<1>2. WrittenAs(c, x)  BY <1>1, EscapedIs
<1>3. Backslash \in Ascii  BY DEF Ascii, Backslash
<1>4. CASE Bare(c) /\ x = <<c>>  BY <1>1, <1>4
<1>5. CASE \E l \in DOMAIN Letter : c = Letter[l] /\ x = <<Backslash, l>>
  <2>1. \A l \in DOMAIN Letter : l \in Ascii  BY DEF Letter, Ascii
  <2>2. PICK l \in DOMAIN Letter : x = <<Backslash, l>>  BY <1>5
  <2>3. l \in Ascii  BY <2>1
  <2>4. QED  BY <1>1, <1>3, <2>2, <2>3
<1>6. CASE c \in {SingleQuote, DoubleQuote, Backslash} /\ x = <<Backslash, c>>  BY <1>1, <1>3, <1>6
<1>7. CASE \E d1 \in 0 .. 1 : \E d2, d3 \in 0 .. 7 :
             c = 64 * d1 + 8 * d2 + d3 /\ x = <<Backslash, 48 + d1, 48 + d2, 48 + d3>>
  <2>1. \A d \in 0 .. 7 : 48 + d \in Ascii  BY DEF Ascii
  <2>2. PICK d1 \in 0 .. 1, d2 \in 0 .. 7, d3 \in 0 .. 7 : x = <<Backslash, 48 + d1, 48 + d2, 48 + d3>>
    BY <1>7
  <2>3. d1 \in 0 .. 7  OBVIOUS
  <2>4. 48 + d1 \in Ascii /\ 48 + d2 \in Ascii /\ 48 + d3 \in Ascii  BY <2>1, <2>2, <2>3
  <2>5. QED  BY <1>1, <1>3, <2>2, <2>4
<1>8. QED  BY <1>2, <1>4, <1>5, <1>6, <1>7 DEF WrittenAs

-----------------------------------------------------------------------------
(* How words lie in what is written: word m is between f[m - 1] and f[m],  *)
(* behind a space if it is not the first; in quotes, what character k of   *)
(* it is written as ends h[k] behind the first mark.                       *)
Gap(m) == IF m > 1 THEN 1 ELSE 0

BareIn(t, w, a, z) ==
  /\ z = a + Len(w)
  /\ \A k \in 1 .. Len(w) : t[a + k] = w[k]

QuotedIn(t, w, a, z, h) ==
  /\ h \in [0 .. Len(w) -> Nat] /\ h[0] = 0 /\ z = a + 2 + h[Len(w)]
  /\ t[a + 1] = DoubleQuote /\ t[z] = DoubleQuote
  /\ \A k \in 1 .. Len(w) : h[k] = h[k - 1] + Len(Escaped(w[k]))
  /\ \A k \in 1 .. Len(w) : \A j \in 1 .. Len(Escaped(w[k])) : t[a + 1 + h[k - 1] + j] = Escaped(w[k])[j]

WordIn(t, w, a, z, h) == IF NeedQuotes(w) THEN QuotedIn(t, w, a, z, h) ELSE BareIn(t, w, a, z)

IsWord(w) == w \in Seq(Ascii \ {Hash}) /\ w # <<>>
AreWords(ws) == ws # <<>> /\ ws \in Seq(Seq(Ascii \ {Hash})) /\ \A m \in DOMAIN ws : IsWord(ws[m])

Written(t, ws, f, g) ==
  /\ t \in Seq(Ascii)
  /\ f \in [0 .. Len(ws) -> Nat] /\ f[0] = 0 /\ Len(t) = f[Len(ws)]
  /\ \A m \in 1 .. Len(ws) :
       /\ m > 1 => t[f[m - 1] + 1] = 32
       /\ f[m - 1] + Gap(m) < f[m] /\ f[m] <= Len(t)
       /\ WordIn(t, ws[m], f[m - 1] + Gap(m), f[m], g[m])

LEMMA UnparsedIs ==
  ASSUME NEW w, IsWord(w)
  PROVE  /\ Unparsed(w) \in Seq(Ascii) /\ Unparsed(w) # <<>>
         /\ \E h : WordIn(Unparsed(w), w, 0, Len(Unparsed(w)), h)
<1>1. w \in Seq(Ascii) /\ w # <<>>  BY DEF IsWord
<1>2. PICK n \in Nat \ {0} : n = Len(w)  BY <1>1
<1>3. DOMAIN w = 1 .. n /\ \A k \in 1 .. n : w[k] \in Ascii  BY <1>1, <1>2
<1>4. CASE ~NeedQuotes(w)
  <2>1. Unparsed(w) = w  BY <1>4 DEF Unparsed
  <2>2. BareIn(w, w, 0, Len(w))  BY <1>1 DEF BareIn
  <2>3. QED  BY <1>1, <1>4, <2>1, <2>2 DEF WordIn
<1>5. CASE NeedQuotes(w)
  <2>1. PICK s : s = [k \in DOMAIN w |-> Escaped(w[k])]  OBVIOUS
  <2>2. \A k \in 1 .. n : Escaped(w[k]) \in Seq(Ascii) /\ Escaped(w[k]) # <<>>  BY <1>3, EscapedTyped
  <2>3. s \in Seq(Seq(Ascii)) /\ Len(s) = n /\ s # <<>> /\ \A k \in 1 .. n : s[k] = Escaped(w[k])
    BY <1>2, <1>3, <2>1, <2>2
  <2>4. PICK fl : fl = FlattenSeq(s)  OBVIOUS
  <2>5. fl \in Seq(Ascii) /\ \E h : Laid(s, fl, h)  BY <2>3, <2>4, FlattenIs
  <2>6. PICK h : Laid(s, fl, h)  BY <2>5
  <2>7. h \in [0 .. n -> Nat] /\ h[0] = 0 /\ Len(fl) = h[n]  BY <2>3, <2>6 DEF Laid
  <2>8. \A k \in 1 .. n : h[k] = h[k - 1] + Len(Escaped(w[k]))  BY <2>3, <2>6 DEF Laid
  <2>9. \A k \in 1 .. n : h[k] <= Len(fl)  BY <2>3, <2>6 DEF Laid
  <2>10. \A k \in 1 .. n : \A j \in 1 .. Len(Escaped(w[k])) : fl[h[k - 1] + j] = Escaped(w[k])[j]
    BY SMTT(30), <2>3, <2>6 DEF Laid
  <2>11. PICK u, v : u = <<DoubleQuote>> \o fl /\ v = u \o <<DoubleQuote>>  OBVIOUS
  <2>12. DoubleQuote \in Ascii  BY DEF DoubleQuote, Ascii
  <2>13. PICK l \in Nat : l = Len(fl)  BY <2>5
  <2>14. PICK d : d = <<DoubleQuote>>  OBVIOUS
  <2>15. d \in Seq(Ascii) /\ Len(d) = 1 /\ d[1] = DoubleQuote  BY <2>12, <2>14
  <2>16. u \in Seq(Ascii) /\ Len(u) = l + 1 /\ u[1] = DoubleQuote /\ \A k \in 1 .. l : u[1 + k] = fl[k]
    BY <2>5, <2>11, <2>13, <2>14, <2>15
  <2>17. v \in Seq(Ascii) /\ Len(v) = l + 2 /\ v[l + 2] = DoubleQuote /\ \A k \in 1 .. l + 1 : v[k] = u[k]
    BY <2>11, <2>13, <2>14, <2>15, <2>16
  <2>18. Unparsed(w) = v  BY <1>5, <2>1, <2>4, <2>11 DEF Unparsed
  <2>19. v[1] = DoubleQuote /\ \A k \in 1 .. l : v[1 + k] = fl[k]
    <3>1. 1 \in 1 .. l + 1  BY <2>13
    <3>2. ASSUME NEW k \in 1 .. l  PROVE v[1 + k] = fl[k]
      <4>1. 1 + k \in 1 .. l + 1  BY <2>13
      <4>2. QED  BY <4>1, <2>16, <2>17
    <3>3. QED  BY <3>1, <3>2, <2>16, <2>17
  <2>20. ASSUME NEW k \in 1 .. n, NEW j \in 1 .. Len(Escaped(w[k]))
         PROVE v[0 + 1 + h[k - 1] + j] = Escaped(w[k])[j]
    <3>1. PICK x : x = Escaped(w[k])  OBVIOUS
    <3>2. Len(x) \in Nat /\ j \in 1 .. Len(x)  BY <2>2, <3>1
    <3>3. k - 1 \in 0 .. n /\ h[k - 1] \in Nat  BY <2>7, <1>2
    <3>4. h[k - 1] + j \in 1 .. l
      <4>1. h[k - 1] + Len(x) <= l  BY <2>8, <2>9, <2>13, <3>1
      <4>2. QED  BY <4>1, <2>13, <3>2, <3>3
    <3>5. fl[h[k - 1] + j] = x[j]  BY <2>10, <3>1, <3>2
    <3>6. 0 + 1 + h[k - 1] + j = 1 + (h[k - 1] + j)  BY <3>2, <3>3
    <3>7. QED  BY <2>19, <3>1, <3>4, <3>5, <3>6
  <2>21. l + 2 = 0 + 2 + h[n]  BY <2>7, <2>13
  <2>22. QuotedIn(v, w, 0, l + 2, h)  BY <1>2, <2>7, <2>8, <2>17, <2>19, <2>20, <2>21 DEF QuotedIn
  <2>23. v # <<>>  BY <2>17
  <2>24. QED  BY <1>5, <2>17, <2>18, <2>22, <2>23 DEF WordIn
<1>6. QED  BY <1>4, <1>5

Part(ws, m) == (IF m > 1 THEN <<32>> ELSE <<>>) \o Unparsed(ws[m])

LEMMA PartIs ==
  ASSUME NEW ws, NEW m \in Nat \ {0}, IsWord(ws[m])
  PROVE  /\ Part(ws, m) \in Seq(Ascii) /\ Len(Part(ws, m)) = Gap(m) + Len(Unparsed(ws[m]))
         /\ \A k \in 1 .. Len(Unparsed(ws[m])) : Part(ws, m)[Gap(m) + k] = Unparsed(ws[m])[k]
         /\ m > 1 => Part(ws, m)[1] = 32
<1>1. PICK u : u = Unparsed(ws[m])  OBVIOUS
<1>2. u \in Seq(Ascii) /\ Len(u) \in Nat  BY <1>1, UnparsedIs
<1>3. CASE m > 1
  <2>1. 32 \in Ascii  BY DEF Ascii
  <2>2. PICK v : v = <<32>> \o u  OBVIOUS
  <2>3. v \in Seq(Ascii) /\ Len(v) = 1 + Len(u) /\ v[1] = 32 /\ \A k \in 1 .. Len(u) : v[1 + k] = u[k]
    BY <1>2, <2>1, <2>2
  <2>4. Part(ws, m) = v /\ Gap(m) = 1  BY <1>1, <1>3, <2>2 DEF Part, Gap
  <2>5. QED  BY <1>1, <2>3, <2>4
<1>4. CASE ~(m > 1)
  <2>1. Part(ws, m) = <<>> \o u /\ Gap(m) = 0  BY <1>1, <1>4 DEF Part, Gap
  <2>2. <<>> \o u = u  BY <1>2
  <2>3. QED  BY <1>1, <1>2, <1>4, <2>1, <2>2
<1>5. QED  BY <1>3, <1>4

LEMMA OffsetsGrow ==
  ASSUME NEW w \in Seq(Ascii), NEW n \in Nat, n = Len(w), NEW h \in [0 .. n -> Nat],
         \A k \in 1 .. n : h[k] = h[k - 1] + Len(Escaped(w[k]))
  PROVE  \A k \in 0 .. n : h[k] <= h[n]
<1>1. \A k \in 1 .. n : Len(Escaped(w[k])) \in Nat
  <2>1. \A k \in 1 .. n : w[k] \in Ascii  OBVIOUS
  <2>2. \A k \in 1 .. n : Escaped(w[k]) \in Seq(Ascii)  BY <2>1, EscapedTyped
  <2>3. QED  BY <2>2
<1>2. \A k \in 1 .. n : h[k - 1] \in Nat /\ h[k] \in Nat
  <2>1. \A k \in 1 .. n : k - 1 \in 0 .. n /\ k \in 0 .. n  OBVIOUS
  <2>2. QED  BY <2>1
<1>3. h[n] \in Nat  OBVIOUS
<1>4. PICK S : S = {m \in 0 .. n : ~(h[n - m] <= h[n])}  OBVIOUS
<1>5. S = {}
  <2>1. SUFFICES ASSUME S # {}  PROVE FALSE  OBVIOUS
  <2>2. S \in SUBSET Nat  BY <1>4
  <2>3. PICK m \in S : \A k \in S : m <= k  BY <2>1, <2>2, LeastOf
  <2>4. m \in 0 .. n /\ ~(h[n - m] <= h[n])  BY <1>4
  <2>5. n - 0 = n /\ h[n] <= h[n]  BY <1>3
  <2>6. m # 0  BY <2>4, <2>5
  <2>7. m - 1 \in 0 .. n /\ ~(m <= m - 1)  BY <2>4, <2>6
  <2>8. PICK k \in 1 .. n : k = n - (m - 1) /\ k - 1 = n - m
    <3>1. n - (m - 1) \in 1 .. n /\ (n - (m - 1)) - 1 = n - m  BY <2>4, <2>6
    <3>2. QED  BY <3>1, Zenon
  <2>9. h[k] <= h[n]  BY <1>4, <2>3, <2>7, <2>8
  <2>10. h[k - 1] <= h[n]  BY <1>1, <1>2, <1>3, <2>9
  <2>11. QED  BY <2>4, <2>8, <2>10
<1>6. ASSUME NEW k \in 0 .. n  PROVE h[k] <= h[n]
  <2>1. n - k \in 0 .. n /\ n - (n - k) = k  OBVIOUS
  <2>2. QED  BY <2>1, <1>4, <1>5
<1>7. QED  BY <1>6

(* A word is the same wherever it has been written.                        *)
LEMMA WordMoves ==
  ASSUME NEW t, NEW u, NEW w, NEW h, NEW d \in Nat, NEW a \in Nat,
         IsWord(w), Len(u) \in Nat, WordIn(u, w, 0, Len(u), h),
         a = d + Len(u), \A k \in 1 .. Len(u) : t[d + k] = u[k]
  PROVE  WordIn(t, w, d, a, h)
<1>1. PICK n \in Nat \ {0} : n = Len(w) /\ DOMAIN w = 1 .. n  BY DEF IsWord
<1>2. PICK l \in Nat : l = Len(u)  OBVIOUS
<1>3. CASE ~NeedQuotes(w)
  <2>1. l = 0 + n /\ \A k \in 1 .. n : u[0 + k] = w[k]  BY <1>1, <1>2, <1>3 DEF WordIn, BareIn
  <2>2. \A k \in 1 .. n : 0 + k = k  BY <1>1
  <2>3. \A k \in 1 .. n : t[d + k] = w[k]  BY <1>1, <1>2, <2>1, <2>2
  <2>4. a = d + n  BY <1>1, <1>2, <2>1
  <2>5. QED  BY <1>1, <1>3, <2>3, <2>4 DEF WordIn, BareIn
<1>4. CASE NeedQuotes(w)
  <2>1. QuotedIn(u, w, 0, l, h)  BY <1>2, <1>4 DEF WordIn
  <2>2. h \in [0 .. n -> Nat] /\ h[0] = 0 /\ l = 0 + 2 + h[n]  BY <1>1, <2>1 DEF QuotedIn
  <2>3. u[0 + 1] = DoubleQuote /\ u[l] = DoubleQuote  BY <2>1 DEF QuotedIn
  <2>4. \A k \in 1 .. n : h[k] = h[k - 1] + Len(Escaped(w[k]))  BY <1>1, <2>1 DEF QuotedIn
  <2>5. \A k \in 1 .. n : \A j \in 1 .. Len(Escaped(w[k])) : u[0 + 1 + h[k - 1] + j] = Escaped(w[k])[j]
    BY <1>1, <2>1 DEF QuotedIn
  <2>6. \A k \in 1 .. n : Escaped(w[k]) \in Seq(Ascii)
    <3>1. \A k \in 1 .. n : w[k] \in Ascii  BY <1>1 DEF IsWord
    <3>2. QED  BY <3>1, EscapedTyped
  <2>7. h[n] \in Nat /\ 1 \in 1 .. l /\ l \in 1 .. l  BY <1>1, <1>2, <2>2
  <2>8. t[d + 1] = DoubleQuote /\ t[a] = DoubleQuote
    <3>1. 0 + 1 = 1  OBVIOUS
    <3>2. t[d + 1] = u[1] /\ t[d + l] = u[l] /\ a = d + l  BY <1>2, <2>7
    <3>3. QED  BY <2>3, <3>1, <3>2
  <2>9. ASSUME NEW k \in 1 .. n  PROVE h[k - 1] \in Nat /\ h[k] \in Nat
    <3>1. k - 1 \in 0 .. n /\ k \in 0 .. n  BY <1>1
    <3>2. QED  BY <2>2, <3>1
  <2>10. \A k \in 0 .. n : h[k] <= h[n]
    <3>1. w \in Seq(Ascii)  BY DEF IsWord
    <3>2. QED  BY <3>1, <1>1, <2>2, <2>4, OffsetsGrow
  <2>11. ASSUME NEW k \in 1 .. n, NEW j \in 1 .. Len(Escaped(w[k]))
         PROVE t[d + 1 + h[k - 1] + j] = Escaped(w[k])[j]
    <3>1. PICK x : x = Escaped(w[k])  OBVIOUS
    <3>2. x \in Seq(Ascii) /\ Len(x) \in Nat /\ j \in 1 .. Len(x)  BY <2>6, <3>1
    <3>3. h[k - 1] \in Nat /\ h[k] \in Nat /\ h[k] = h[k - 1] + Len(x)  BY <2>4, <2>9, <3>1
    <3>4. k \in 0 .. n  BY <1>1
    <3>5. h[k] <= h[n]  BY <2>10, <3>4
    <3>6. PICK y, z, c, e : y = h[k - 1] /\ z = h[n] /\ c = j /\ e = Len(x)  OBVIOUS
    <3>7. y \in Nat /\ z \in Nat /\ c \in Nat /\ e \in Nat /\ y + e <= z /\ l = z + 2 /\ 1 <= c /\ c <= e
      <4>1. h[k] = y + e  BY <3>3, <3>6
      <4>2. y + e <= z  BY <4>1, <3>5, <3>6
      <4>3. l = 0 + 2 + z  BY <2>2, <3>6
      <4>4. c \in 1 .. e  BY <3>2, <3>6
      <4>5. y \in Nat /\ z \in Nat /\ e \in Nat  BY <2>7, <3>2, <3>3, <3>6
      <4>6. c \in Nat /\ 1 <= c /\ c <= e  BY <4>4, <4>5
      <4>7. QED  BY <4>2, <4>3, <4>5, <4>6
    <3>8. 1 + y + c \in 1 .. l  BY <3>7, <1>2
    <3>9. t[d + (1 + y + c)] = u[1 + y + c]  BY <1>2, <3>8
    <3>10. 0 + 1 + y + c = 1 + y + c /\ d + (1 + y + c) = d + 1 + y + c  BY <3>7
    <3>11. u[0 + 1 + y + c] = x[c]  BY <2>5, <3>1, <3>2, <3>6
    <3>12. QED  BY <3>1, <3>6, <3>9, <3>10, <3>11
  <2>12. a = d + 2 + h[n]  BY <1>2, <2>2, <2>7
  <2>13. QuotedIn(t, w, d, a, h)  BY <1>1, <2>2, <2>4, <2>8, <2>11, <2>12 DEF QuotedIn
  <2>14. QED  BY <1>4, <2>13 DEF WordIn
<1>5. QED  BY <1>3, <1>4

LEMMA UnparseIs ==
  ASSUME NEW ws, AreWords(ws)
  PROVE  \E f, g : Written(Unparse(ws), ws, f, g)
<1>1. PICK n \in Nat \ {0} : n = Len(ws) /\ DOMAIN ws = 1 .. n  BY DEF AreWords
<1>2. \A m \in 1 .. n : IsWord(ws[m])  BY <1>1 DEF AreWords
<1>3. PICK s : s = [m \in DOMAIN ws |-> Part(ws, m)]  OBVIOUS
<1>4. \A m \in 1 .. n : m \in Nat \ {0}  OBVIOUS
<1>5. \A m \in 1 .. n : Part(ws, m) \in Seq(Ascii)  BY <1>2, <1>4, PartIs
<1>6. s \in Seq(Seq(Ascii)) /\ Len(s) = n /\ s # <<>> /\ \A m \in 1 .. n : s[m] = Part(ws, m)
  BY <1>1, <1>3, <1>5
<1>7. PICK t : t = FlattenSeq(s)  OBVIOUS
<1>8. Unparse(ws) = t  BY <1>3, <1>7 DEF Unparse, Part
<1>9. t \in Seq(Ascii) /\ \E f : Laid(s, t, f)  BY <1>6, <1>7, FlattenIs
<1>10. PICK f : Laid(s, t, f)  BY <1>9
<1>11. f \in [0 .. n -> Nat] /\ f[0] = 0 /\ Len(t) = f[n]  BY <1>6, <1>10 DEF Laid
<1>12. \A m \in 1 .. n : f[m] = f[m - 1] + Len(s[m])  BY <1>6, <1>10 DEF Laid
<1>13. \A m \in 1 .. n : f[m] <= Len(t)  BY <1>6, <1>10 DEF Laid
<1>14. \A m \in 1 .. n : \A k \in 1 .. Len(s[m]) : t[f[m - 1] + k] = s[m][k]  BY <1>6, <1>10 DEF Laid
<1>15. PICK g : g = [m \in 1 .. n |-> CHOOSE h : WordIn(Unparsed(ws[m]), ws[m], 0, Len(Unparsed(ws[m])), h)]
  OBVIOUS
<1>16. ASSUME NEW m \in 1 .. n
       PROVE /\ m > 1 => t[f[m - 1] + 1] = 32
             /\ f[m - 1] + Gap(m) < f[m] /\ f[m] <= Len(t)
             /\ WordIn(t, ws[m], f[m - 1] + Gap(m), f[m], g[m])
  <2>1. PICK w, u : w = ws[m] /\ u = Unparsed(ws[m])  OBVIOUS
  <2>2. IsWord(w) /\ u = Unparsed(w)  BY <1>2, <2>1
  <2>3. u \in Seq(Ascii) /\ u # <<>> /\ Len(u) \in Nat \ {0}  BY <2>2, UnparsedIs
  <2>4. PICK h : h = CHOOSE h1 : WordIn(u, w, 0, Len(u), h1)  OBVIOUS
  <2>5. \E h1 : WordIn(u, w, 0, Len(u), h1)  BY <2>2, UnparsedIs
  <2>6. WordIn(u, w, 0, Len(u), h) /\ g[m] = h  BY <1>15, <2>1, <2>4, <2>5
  <2>7. PICK x : x = Part(ws, m)  OBVIOUS
  <2>8. m \in Nat \ {0} /\ Gap(m) \in {0, 1} /\ (m > 1 => Gap(m) = 1)  BY DEF Gap
  <2>9. Len(x) = Gap(m) + Len(u) /\ (\A k \in 1 .. Len(u) : x[Gap(m) + k] = u[k]) /\ (m > 1 => x[1] = 32)
    BY <2>1, <2>2, <2>7, <2>8, PartIs
  <2>10. m - 1 \in 0 .. n  BY <1>1
  <2>11. PICK a \in Nat : a = f[m - 1]  BY <1>11, <2>10
  <2>12. f[m] = a + Len(x) /\ \A k \in 1 .. Len(x) : t[a + k] = x[k]  BY <1>6, <1>12, <1>14, <2>7, <2>11
  <2>13. PICK d \in Nat : d = a + Gap(m)  BY <2>8
  <2>14. f[m] = d + Len(u) /\ d < f[m] /\ f[m] \in Nat
    <3>1. PICK l \in Nat \ {0}, r \in Nat : l = Len(u) /\ r = Gap(m)  BY <2>3, <2>8
    <3>2. f[m] = a + (r + l) /\ d = a + r  BY <2>9, <2>12, <2>13, <3>1
    <3>3. a + (r + l) = (a + r) + l /\ a + r < a + (r + l) /\ a + (r + l) \in Nat  OBVIOUS
    <3>4. QED  BY <3>1, <3>2, <3>3
  <2>15. ASSUME NEW k \in 1 .. Len(u)  PROVE t[d + k] = u[k]
    <3>1. Gap(m) + k \in 1 .. Len(x)  BY <2>3, <2>8, <2>9
    <3>2. t[a + (Gap(m) + k)] = x[Gap(m) + k]  BY <3>1, <2>12
    <3>3. a + (Gap(m) + k) = d + k  BY <2>3, <2>8, <2>13
    <3>4. QED  BY <3>2, <3>3, <2>9
  <2>16. PICK z \in Nat : z = f[m]  BY <2>14
  <2>17. WordIn(t, w, d, z, h)  BY <2>2, <2>3, <2>6, <2>14, <2>15, <2>16, WordMoves
  <2>18. m > 1 => t[a + 1] = 32
    <3>1. m > 1 => 1 \in 1 .. Len(x)  BY <2>3, <2>8, <2>9
    <3>2. QED  BY <3>1, <2>9, <2>12
  <2>19. QED  BY <1>13, <2>1, <2>6, <2>11, <2>13, <2>14, <2>16, <2>17, <2>18
<1>17. Written(t, ws, f, g)  BY <1>1, <1>9, <1>11, <1>16 DEF Written
<1>18. QED  BY <1>8, <1>17

-----------------------------------------------------------------------------
(* Each character added to q has been read, and pcmd->v has room for one   *)
(* more word than there are.                                               *)
Bytes == 0 .. 255
Chars == 1 .. 255
Parsing == {"start", "gap", "word"}

InsideInv ==
  /\ str \in Seq(Chars)
  /\ p \in Nat \ {0} /\ p <= Len(str) + 1
  /\ q \in Seq(Bytes) /\ Len(q) < p
  /\ argv \in Seq(Seq(Chars)) /\ cap \in Nat \ {0} /\ Len(argv) < cap
  /\ quote \in {0, SingleQuote, DoubleQuote}
  /\ pc \in Parsing \cup {"done"} \cup Errors

LEMMA CharIs ==
  ASSUME str \in Seq(Chars), p \in Nat \ {0}, NEW k \in Nat
  PROVE  At(k) \in Bytes /\ (At(k) # 0 => p + k <= Len(str))
<1>1. CASE p + k <= Len(str)
  <2>1. p + k \in 1 .. Len(str)  BY <1>1
  <2>2. str[p + k] \in Chars  BY <2>1
  <2>3. QED  BY <1>1, <2>2 DEF At, Chars, Bytes
<1>2. CASE ~(p + k <= Len(str))  BY <1>2 DEF At, Bytes
<1>3. QED  BY <1>1, <1>2

LEMMA DuplicateIs ==
  ASSUME NEW s \in Seq(Bytes)
  PROVE  Duplicate(s) \in Seq(Chars) /\ (s \in Seq(Chars) => Duplicate(s) = s)
<1>1. PICK l \in Nat : l = Len(s) /\ DOMAIN s = 1 .. l  OBVIOUS
<1>2. PICK Z : Z = {k \in DOMAIN s : s[k] = 0}  OBVIOUS
<1>3. CASE Z = {}
  <2>1. Duplicate(s) = s  BY <1>2, <1>3 DEF Duplicate
  <2>2. ASSUME NEW k \in 1 .. l  PROVE s[k] \in Chars
    <3>1. s[k] \in Bytes /\ s[k] # 0  BY <1>1, <1>2, <1>3
    <3>2. QED  BY <3>1 DEF Bytes, Chars
  <2>3. s \in Seq(Chars)  BY <1>1, <2>2
  <2>4. QED  BY <2>1, <2>3
<1>4. CASE Z # {}
  <2>1. Z \in SUBSET Nat  BY <1>1, <1>2
  <2>2. \E n \in Z : \A m \in Z : n <= m  BY <1>4, <2>1, LeastOf
  <2>3. PICK n : n = CHOOSE n1 \in Z : \A m \in Z : n1 <= m  OBVIOUS
  <2>4. n \in Z /\ \A m \in Z : n <= m  BY <2>2, <2>3
  <2>5. n \in 1 .. l /\ s[n] = 0  BY <1>1, <1>2, <2>4
  <2>6. Duplicate(s) = SubSeq(s, 1, n - 1)  BY <1>2, <1>4, <2>3 DEF Duplicate
  <2>7. n - 1 \in 0 .. l  BY <1>1, <2>5
  <2>8. PICK t : t = SubSeq(s, 1, n - 1)  OBVIOUS
  <2>9. t \in Seq(Bytes) /\ Len(t) = n - 1 /\ \A k \in 1 .. n - 1 : t[k] = s[k]  BY <1>1, <2>7, <2>8
  <2>10. ASSUME NEW k \in 1 .. n - 1  PROVE t[k] \in Chars
    <3>1. k \in 1 .. l /\ ~(n <= k)  BY <1>1, <2>5
    <3>2. s[k] # 0 /\ s[k] \in Bytes  BY <3>1, <1>1, <1>2, <2>4
    <3>3. t[k] = s[k]  BY <2>9
    <3>4. QED  BY <3>2, <3>3 DEF Bytes, Chars
  <2>11. t \in Seq(Chars)  BY <2>5, <2>9, <2>10
  <2>12. s \notin Seq(Chars)
    <3>1. SUFFICES ASSUME s \in Seq(Chars)  PROVE FALSE  OBVIOUS
    <3>2. s[n] \in Chars  BY <1>1, <2>5, <3>1
    <3>3. QED  BY <2>5, <3>2 DEF Chars
  <2>13. QED  BY <2>6, <2>8, <2>11, <2>12
<1>5. QED  BY <1>3, <1>4

LEMMA TakeInside ==
  ASSUME InsideInv, NEW n \in Nat \ {0}, NEW c \in Bytes, p + n <= Len(str) + 1, Take(n, c)
  PROVE  InsideInv'
<1>1. q' = Append(q, c) /\ p' = p + n /\ UNCHANGED <<words, str, quote, argv, cap, pc>>  BY DEF Take
<1>2. q \in Seq(Bytes) /\ Len(q) < p /\ p \in Nat \ {0}  BY DEF InsideInv
<1>3. Append(q, c) \in Seq(Bytes) /\ Len(Append(q, c)) = Len(q) + 1  BY <1>2
<1>4. Len(q) \in Nat  BY <1>2
<1>5. q' \in Seq(Bytes) /\ Len(q') < p' /\ p' \in Nat \ {0}  BY <1>1, <1>2, <1>3, <1>4
<1>6. p' <= Len(str') + 1  BY <1>1
<1>7. QED  BY <1>1, <1>5, <1>6 DEF InsideInv

LEMMA FailInside ==
  ASSUME InsideInv, NEW e \in Errors, Fail(e)
  PROVE  InsideInv'
<1>1. pc' = e /\ argv' = <<>> /\ UNCHANGED <<words, str, p, q, quote, cap>>  BY DEF Fail
<1>2. argv' \in Seq(Seq(Chars)) /\ Len(argv') = 0  BY <1>1
<1>3. Len(argv') < cap'  BY <1>1, <1>2 DEF InsideInv
<1>4. QED  BY <1>1, <1>2, <1>3 DEF InsideInv

LEMMA PushInside ==
  ASSUME InsideInv, PushWord
  PROVE  argv' \in Seq(Seq(Chars)) /\ cap' \in Nat \ {0} /\ Len(argv') < cap'
<1>1. argv' = Append(argv, Duplicate(q)) /\ cap' = Grown  BY DEF PushWord
<1>2. q \in Seq(Bytes) /\ argv \in Seq(Seq(Chars)) /\ cap \in Nat \ {0} /\ Len(argv) < cap /\ Len(argv) \in Nat
  BY DEF InsideInv
<1>3. PICK d : d = Duplicate(q)  OBVIOUS
<1>4. d \in Seq(Chars)  BY <1>2, <1>3, DuplicateIs
<1>5. Append(argv, d) \in Seq(Seq(Chars)) /\ Len(Append(argv, d)) = Len(argv) + 1  BY <1>2, <1>4
<1>6. Grown \in Nat \ {0} /\ Len(argv) + 1 < Grown  BY <1>2 DEF Grown
<1>7. QED  BY <1>1, <1>3, <1>5, <1>6

LEMMA LetterIs == \A c \in DOMAIN Letter : Letter[c] \in 7 .. 13
<1>1. ASSUME NEW c \in DOMAIN Letter  PROVE Letter[c] \in 7 .. 13
  <2>1. DOMAIN Letter = {97, 98, 102, 110, 114, 116, 118}  BY DEF Letter
  <2>2. /\ Letter[97] = 7 /\ Letter[98] = 8 /\ Letter[102] = 12 /\ Letter[110] = 10
        /\ Letter[114] = 13 /\ Letter[116] = 9 /\ Letter[118] = 11
    BY DEF Letter
  <2>3. QED  BY <2>1, <2>2
<1>2. QED  BY <1>1

(* The actions that read a character or more.                              *)
LEMMA ReadsInside ==
  ASSUME InsideInv, Plain \/ EscapeHex \/ EscapeOctal \/ EscapeOther
  PROVE  InsideInv'
<1>1. str \in Seq(Chars) /\ p \in Nat \ {0} /\ Len(str) \in Nat  BY DEF InsideInv
<1>2. \A k \in Nat : At(k) \in Bytes /\ (At(k) # 0 => p + k <= Len(str))  BY <1>1, CharIs
<1>3. PICK c0, c1, c2, c3 : c0 = At(0) /\ c1 = At(1) /\ c2 = At(2) /\ c3 = At(3)  OBVIOUS
<1>4. c0 \in 0 .. 255 /\ c1 \in 0 .. 255 /\ c2 \in 0 .. 255 /\ c3 \in 0 .. 255  BY <1>2, <1>3 DEF Bytes
<1>5. /\ c0 # 0 => p + 1 <= Len(str) + 1
      /\ c1 # 0 => p + 2 <= Len(str) + 1
      /\ c2 # 0 => p + 3 <= Len(str) + 1
      /\ c3 # 0 => p + 4 <= Len(str) + 1
  BY <1>1, <1>2, <1>3
<1>6. CASE Plain
  <2>1. c0 # 0 /\ Take(1, c0)
    BY <1>3, <1>4, <1>6 DEF Plain, Hash, SingleQuote, DoubleQuote, Backslash, IsSpace, IsControl
  <2>2. c0 \in Bytes /\ p + 1 <= Len(str) + 1  BY <1>2, <1>3, <1>5, <2>1
  <2>3. QED  BY <2>1, <2>2, TakeInside
<1>7. CASE EscapeHex
  <2>1. c0 # 0 /\ c1 # 0  BY <1>3, <1>7 DEF EscapeHex, Escape, Backslash
  <2>2. \A c : IsHex(c) => c # 0 /\ HexValue[c] \in 0 .. 15
    <3>1. ASSUME NEW c, IsHex(c)  PROVE c # 0 /\ HexValue[c] \in 0 .. 15
      <4>1. c \in Digit \cup 65 .. 70 \cup 97 .. 102  BY <3>1 DEF IsHex, HexValue
      <4>2. HexValue[c] = CASE c \in Digit -> c - 48 [] c \in 65 .. 70 -> c - 55 [] OTHER -> c - 87
        BY <4>1 DEF HexValue
      <4>3. CASE c \in Digit  BY <4>2, <4>3 DEF Digit
      <4>4. CASE c \in 65 .. 70  BY <4>2, <4>4 DEF Digit
      <4>5. CASE c \in 97 .. 102
        <5>1. c \notin Digit /\ c \notin 65 .. 70  BY <4>5 DEF Digit
        <5>2. HexValue[c] = c - 87  BY <4>2, <5>1
        <5>3. QED  BY <4>5, <5>2
      <4>6. QED  BY <4>1, <4>3, <4>4, <4>5
    <3>2. QED  BY <3>1
  <2>3. CASE ~IsHex(c2)
    <3>1. Fail("INVALID_ESCAPE")  BY <1>3, <1>7, <2>3 DEF EscapeHex
    <3>2. QED  BY <3>1, FailInside DEF Errors
  <2>4. CASE IsHex(c2) /\ IsHex(c3)
    <3>1. PICK d : d = HexValue[c2] * 16 + HexValue[c3]  OBVIOUS
    <3>2. d \in Bytes  BY <2>2, <2>4, <3>1 DEF Bytes
    <3>3. Take(4, d)  BY <1>3, <1>7, <2>4, <3>1 DEF EscapeHex
    <3>4. p + 4 <= Len(str) + 1  BY <1>5, <2>2, <2>4
    <3>5. QED  BY <3>2, <3>3, <3>4, TakeInside
  <2>5. CASE IsHex(c2) /\ ~IsHex(c3)
    <3>1. PICK d : d = HexValue[c2]  OBVIOUS
    <3>2. d \in Bytes  BY <2>2, <2>5, <3>1 DEF Bytes
    <3>3. Take(3, d)  BY <1>3, <1>7, <2>5, <3>1 DEF EscapeHex
    <3>4. p + 3 <= Len(str) + 1  BY <1>5, <2>2, <2>5
    <3>5. QED  BY <3>2, <3>3, <3>4, TakeInside
  <2>6. QED  BY <2>3, <2>4, <2>5
<1>8. CASE EscapeOctal
  <2>1. c0 # 0 /\ IsOctal(c1)  BY <1>3, <1>8 DEF EscapeOctal, Escape, Backslash
  <2>2. \A c : IsOctal(c) => c # 0 /\ c - 48 \in 0 .. 7  BY DEF IsOctal
  <2>3. PICK d1, d2, d3 : d1 = c1 - 48 /\ d2 = c2 - 48 /\ d3 = c3 - 48  OBVIOUS
  <2>4. CASE ~IsOctal(c2)
    <3>1. Take(2, d1)  BY <1>3, <1>8, <2>3, <2>4 DEF EscapeOctal
    <3>2. d1 \in Bytes  BY <2>1, <2>2, <2>3 DEF Bytes
    <3>3. p + 2 <= Len(str) + 1  BY <1>5, <2>1, <2>2
    <3>4. QED  BY <3>1, <3>2, <3>3, TakeInside
  <2>5. CASE IsOctal(c2) /\ d1 <= 3 /\ IsOctal(c3)
    <3>1. PICK d : d = 64 * d1 + 8 * d2 + d3  OBVIOUS
    <3>2. Take(4, d)  BY <1>3, <1>8, <2>3, <2>5, <3>1 DEF EscapeOctal
    <3>3. d1 \in 0 .. 7 /\ d2 \in 0 .. 7 /\ d3 \in 0 .. 7  BY <2>1, <2>2, <2>3, <2>5
    <3>4. d \in Bytes  BY <3>1, <3>3, <2>5 DEF Bytes
    <3>5. p + 4 <= Len(str) + 1  BY <1>5, <2>2, <2>5
    <3>6. QED  BY <3>2, <3>4, <3>5, TakeInside
  <2>6. CASE IsOctal(c2) /\ ~(d1 <= 3 /\ IsOctal(c3))
    <3>1. PICK d : d = 8 * d1 + d2  OBVIOUS
    <3>2. Take(3, d)  BY <1>3, <1>8, <2>3, <2>6, <3>1 DEF EscapeOctal
    <3>3. d1 \in 0 .. 7 /\ d2 \in 0 .. 7  BY <2>1, <2>2, <2>3, <2>6
    <3>4. d \in Bytes  BY <3>1, <3>3 DEF Bytes
    <3>5. p + 3 <= Len(str) + 1  BY <1>5, <2>2, <2>6
    <3>6. QED  BY <3>2, <3>4, <3>5, TakeInside
  <2>7. QED  BY <2>4, <2>5, <2>6
<1>9. CASE EscapeOther
  <2>1. c0 # 0  BY <1>3, <1>9 DEF EscapeOther, Escape, Backslash
  <2>2. CASE c1 = 0
    <3>1. Take(1, Backslash)
      <4>1. c1 \notin DOMAIN Letter  BY <2>2 DEF Letter
      <4>2. QED  BY <1>3, <1>9, <2>2, <4>1 DEF EscapeOther
    <3>2. Backslash \in Bytes  BY DEF Bytes, Backslash
    <3>3. QED  BY <1>5, <2>1, <3>1, <3>2, TakeInside
  <2>3. CASE c1 # 0 /\ c1 \in DOMAIN Letter
    <3>1. PICK d : d = Letter[c1]  OBVIOUS
    <3>2. Take(2, d)  BY <1>3, <1>9, <2>3, <3>1 DEF EscapeOther
    <3>3. d \in Bytes  BY <2>3, <3>1, LetterIs DEF Bytes
    <3>4. QED  BY <1>5, <2>3, <3>2, <3>3, TakeInside
  <2>4. CASE c1 # 0 /\ c1 \notin DOMAIN Letter
    <3>1. Take(2, c1)  BY <1>3, <1>9, <2>4 DEF EscapeOther
    <3>2. c1 \in Bytes  BY <1>2, <1>3
    <3>3. QED  BY <1>5, <2>4, <3>1, <3>2, TakeInside
  <2>5. QED  BY <2>2, <2>3, <2>4
<1>10. QED  BY <1>6, <1>7, <1>8, <1>9

LEMMA InsideStep == InsideInv /\ [Next]_vars => InsideInv'
<1> SUFFICES ASSUME InsideInv, [Next]_vars  PROVE InsideInv'  OBVIOUS
<1>1. str \in Seq(Chars) /\ p \in Nat \ {0} /\ Len(str) \in Nat  BY DEF InsideInv
<1>2. At(0) \in Bytes /\ (At(0) # 0 => p + 0 <= Len(str))  BY <1>1, CharIs
<1>3. PICK c : c = At(0)  OBVIOUS
<1>4. c \in Bytes /\ (c # 0 => p + 1 <= Len(str) + 1)  BY <1>1, <1>2, <1>3
<1>5. CASE Skip
  <2>1. p' = p + 1 /\ c # 0 /\ UNCHANGED <<words, str, q, quote, argv, cap, pc>>
    BY <1>3, <1>5 DEF Skip, IsSpace
  <2>2. q \in Seq(Bytes) /\ Len(q) < p /\ Len(q) \in Nat  BY DEF InsideInv
  <2>3. p' \in Nat \ {0} /\ p' <= Len(str') + 1 /\ Len(q') < p'  BY <1>1, <1>4, <2>1, <2>2
  <2>4. QED  BY <2>1, <2>3 DEF InsideInv
<1>6. CASE BeginWord
  <2>1. q' = <<>> /\ pc' \in {"done", "word"} /\ UNCHANGED <<words, str, p, quote, argv, cap>>
    BY <1>6 DEF BeginWord
  <2>2. q' \in Seq(Bytes) /\ Len(q') < p'  BY <1>1, <2>1
  <2>3. pc' \in Parsing \cup {"done"}  BY <2>1 DEF Parsing
  <2>4. QED  BY <2>1, <2>2, <2>3 DEF InsideInv
<1>7. CASE End
  <2>1. CASE quote # 0
    <3>1. Fail("UNCLOSED_QUOTE")  BY <1>7, <2>1 DEF End
    <3>2. QED  BY <3>1, FailInside DEF Errors
  <2>2. CASE quote = 0
    <3>1. PushWord /\ pc' = "done" /\ UNCHANGED <<words, str, p, q, quote>>  BY <1>7, <2>2 DEF End
    <3>2. argv' \in Seq(Seq(Chars)) /\ cap' \in Nat \ {0} /\ Len(argv') < cap'  BY <3>1, PushInside
    <3>3. QED  BY <3>1, <3>2 DEF InsideInv
  <2>3. QED  BY <2>1, <2>2
<1>8. CASE EndWord
  <2>1. PushWord /\ pc' = "gap" /\ UNCHANGED <<words, str, p, q, quote>>  BY <1>8 DEF EndWord
  <2>2. argv' \in Seq(Seq(Chars)) /\ cap' \in Nat \ {0} /\ Len(argv') < cap'  BY <2>1, PushInside
  <2>3. QED  BY <2>1, <2>2 DEF InsideInv, Parsing
<1>9. CASE Mark
  <2>1. p' = p + 1 /\ c # 0 /\ UNCHANGED <<words, str, q, argv, cap, pc>>
    BY <1>3, <1>9 DEF Mark, SingleQuote, DoubleQuote
  <2>2. quote' \in {0, SingleQuote, DoubleQuote}  BY <1>9 DEF Mark
  <2>3. q \in Seq(Bytes) /\ Len(q) < p /\ Len(q) \in Nat  BY DEF InsideInv
  <2>4. p' \in Nat \ {0} /\ p' <= Len(str') + 1 /\ Len(q') < p'  BY <1>1, <1>4, <2>1, <2>3
  <2>5. QED  BY <2>1, <2>2, <2>4 DEF InsideInv
<1>10. CASE Stray
  <2>1. Fail("STRAY_CONTROL_CHAR")  BY <1>10 DEF Stray
  <2>2. QED  BY <2>1, FailInside DEF Errors
<1>11. CASE Plain \/ EscapeHex \/ EscapeOctal \/ EscapeOther  BY <1>11, ReadsInside
<1>12. CASE UNCHANGED vars  BY <1>12 DEF vars, InsideInv
<1>13. QED  BY <1>5, <1>6, <1>7, <1>8, <1>9, <1>10, <1>11, <1>12 DEF Next

LEMMA InsideInvImplies == InsideInv => InsideBuffers
<1> SUFFICES ASSUME InsideInv  PROVE InsideBuffers  OBVIOUS
<1>1. q \in Seq(Bytes) /\ argv \in Seq(Seq(Chars)) /\ Len(q) \in Nat /\ Len(str) \in Nat  BY DEF InsideInv
<1>2. p \in Nat /\ cap \in Nat /\ p <= Len(str) + 1 /\ Len(q) < p /\ Len(argv) < cap  BY DEF InsideInv
<1>3. Len(q) < Len(str) + 16  BY <1>1, <1>2
<1>4. \A k \in DOMAIN q : q[k] \in 0 .. 255
  <2>1. \A k \in DOMAIN q : q[k] \in Bytes  BY <1>1
  <2>2. QED  BY <2>1 DEF Bytes
<1>5. ASSUME NEW k \in DOMAIN argv  PROVE \A j \in DOMAIN argv[k] : argv[k][j] \in 1 .. 255
  <2>1. argv[k] \in Seq(Chars)  BY <1>1
  <2>2. \A j \in DOMAIN argv[k] : argv[k][j] \in Chars  BY <2>1
  <2>3. QED  BY <2>2 DEF Chars
<1>6. TypeOK  BY <1>2, <1>4, <1>5 DEF TypeOK, InsideInv, Parsing
<1>7. QED  BY <1>2, <1>3, <1>6 DEF InsideBuffers

LEMMA WordsAre ==
  ASSUME Input \/ NoValue
  PROVE  IF words = <<>> THEN str \in Seq(Chars) ELSE AreWords(words) /\ str = Unparse(words)
<1>1. CASE NoValue
  <2>1. <<>> \in Seq(Chars)  OBVIOUS
  <2>2. QED  BY <1>1, <2>1 DEF NoValue
<1>2. CASE words = <<>> /\ str \in UNION {[1 .. n -> Char] : n \in 0 .. MaxStr}
  <2>1. PICK n \in 0 .. MaxStr : str \in [1 .. n -> Char]  BY <1>2
  <2>2. n \in Nat /\ Char \subseteq Chars  BY <2>1, ValueAssumption DEF Chars
  <2>3. str \in Seq(Char)  BY <2>1, <2>2
  <2>4. str \in Seq(Chars)  BY <2>2, <2>3
  <2>5. QED  BY <1>2, <2>4
<1>3. CASE words \in UNION {[1 .. n -> WordOf] : n \in 1 .. MaxWords} /\ str = Unparse(words)
  <2>1. PICK n \in 1 .. MaxWords : words \in [1 .. n -> WordOf]  BY <1>3
  <2>2. n \in Nat \ {0}  BY <2>1, WordAssumption
  <2>3. words \in Seq(WordOf) /\ Len(words) = n /\ DOMAIN words = 1 .. n  BY <2>1, <2>2
  <2>4. WordChar \subseteq Ascii \ {Hash}  BY WordAssumption DEF Ascii
  <2>5. ASSUME NEW w \in WordOf  PROVE IsWord(w) /\ w \in Seq(Ascii \ {Hash})
    <3>1. PICK m \in 1 .. MaxWord : w \in [1 .. m -> WordChar]  BY <2>5 DEF WordOf
    <3>2. m \in Nat \ {0}  BY <3>1, WordAssumption
    <3>3. w \in Seq(WordChar) /\ Len(w) = m  BY <3>1, <3>2
    <3>4. w \in Seq(Ascii \ {Hash}) /\ w # <<>>  BY <2>4, <3>2, <3>3
    <3>5. QED  BY <3>4 DEF IsWord
  <2>6. words # <<>>  BY <2>2, <2>3
  <2>7. \A k \in 1 .. n : words[k] \in WordOf  BY <2>1
  <2>8. \A k \in DOMAIN words : IsWord(words[k])  BY <2>3, <2>5, <2>7
  <2>9. \A k \in 1 .. n : words[k] \in Seq(Ascii \ {Hash})  BY <2>5, <2>7
  <2>10. words \in Seq(Seq(Ascii \ {Hash}))  BY <2>3, <2>9
  <2>11. AreWords(words)  BY <2>6, <2>8, <2>10 DEF AreWords
  <2>12. QED  BY <1>3, <2>6, <2>11
<1>4. QED  BY <1>1, <1>2, <1>3 DEF Input

LEMMA InsideInit == (Input \/ NoValue) /\ Start => InsideInv
<1> SUFFICES ASSUME Input \/ NoValue, Start  PROVE InsideInv  OBVIOUS
<1>1. str \in Seq(Chars)
  <2>1. CASE words = <<>>  BY <2>1, WordsAre
  <2>2. CASE words # <<>>
    <3>1. AreWords(words) /\ str = Unparse(words)  BY <2>2, WordsAre
    <3>2. PICK f, g : Written(Unparse(words), words, f, g)  BY <3>1, UnparseIs
    <3>3. str \in Seq(Ascii)  BY <3>1, <3>2 DEF Written
    <3>4. Ascii \subseteq Chars  BY DEF Ascii, Chars
    <3>5. QED  BY <3>3, <3>4
  <2>3. QED  BY <2>1, <2>2
<1>2. p = 1 /\ q = <<>> /\ quote = 0 /\ argv = <<>> /\ cap = FirstCap /\ pc = "start"  BY DEF Start
<1>3. q \in Seq(Bytes) /\ Len(q) = 0 /\ argv \in Seq(Seq(Chars)) /\ Len(argv) = 0  BY <1>2
<1>4. cap \in Nat \ {0} /\ p <= Len(str) + 1 /\ p \in Nat \ {0}  BY <1>1, <1>2, CapAssumption
<1>5. QED  BY <1>1, <1>2, <1>3, <1>4 DEF InsideInv, Parsing

LEMMA RunsValue == AllSpec => ((Input \/ NoValue) /\ Start) /\ [][Next]_vars
<1>1. AllInit => (Input \/ NoValue) /\ Start  BY DEF AllInit
<1>2. [AllNext]_allVars => [Next]_vars  BY DEF AllNext, allVars, vars
<1>3. QED  BY <1>1, <1>2, PTL DEF AllSpec

-----------------------------------------------------------------------------
(* What the parser does next, by what it is at.                            *)
LEMMA MoveInGap == ASSUME pc \in {"start", "gap"}, Next, At(0) = 32  PROVE Skip
<1>1. IsSpace(At(0))  BY DEF IsSpace
<1>2. pc # "word"  OBVIOUS
<1>3. QED  BY <1>1, <1>2 DEF Next, BeginWord, End, EndWord, Mark, Plain, Stray, EscapeHex, EscapeOctal, EscapeOther, Escape

LEMMA MoveToWord == ASSUME pc \in {"start", "gap"}, Next, ~IsSpace(At(0))  PROVE BeginWord
<1>1. pc # "word"  OBVIOUS
<1>2. QED  BY <1>1 DEF Next, Skip, End, EndWord, Mark, Plain, Stray, EscapeHex, EscapeOctal, EscapeOther, Escape

LEMMA MoveOverBare ==
  ASSUME pc = "word", Next, NEW c, At(0) = c, Bare(c), c # Hash, quote = DoubleQuote \/ (quote = 0 /\ c # 32)
  PROVE  Take(1, c)
<1>1. c \in 32 .. 126 /\ c # 35 /\ c # 34 /\ c # 39 /\ c # 92
  BY DEF Bare, Hash, SingleQuote, DoubleQuote, Backslash
<1>2. IsSpace(c) <=> c = 32  BY <1>1 DEF IsSpace
<1>3. ~IsControl(c)  BY <1>1 DEF IsControl
<1>4. quote = 0 => ~IsSpace(c)  BY <1>2 DEF DoubleQuote
<1>5. ~Skip /\ ~BeginWord  BY DEF Skip, BeginWord
<1>6. ~End  BY <1>1 DEF End, Hash
<1>7. ~EndWord  BY <1>4 DEF EndWord
<1>8. ~Mark  BY <1>1 DEF Mark, SingleQuote, DoubleQuote
<1>9. ~Stray  BY <1>3 DEF Stray
<1>10. ~Escape  BY <1>1 DEF Escape, Backslash
<1>11. ~EscapeHex /\ ~EscapeOctal /\ ~EscapeOther  BY <1>10 DEF EscapeHex, EscapeOctal, EscapeOther
<1>12. Plain  BY <1>5, <1>6, <1>7, <1>8, <1>9, <1>11 DEF Next
<1>13. QED  BY <1>12 DEF Plain

LEMMA MoveOverMark ==
  ASSUME pc = "word", Next, At(0) = DoubleQuote, quote \in {0, DoubleQuote}
  PROVE  Mark
<1> USE DEF Hash, SingleQuote, DoubleQuote, Backslash
<1>1. ~Skip /\ ~BeginWord  BY DEF Skip, BeginWord
<1>2. ~IsSpace(34) /\ ~IsControl(34)  BY DEF IsSpace, IsControl
<1>3. ~End /\ ~EndWord /\ ~Stray  BY <1>2 DEF End, EndWord, Stray
<1>4. ~Plain  BY <1>2 DEF Plain
<1>5. ~EscapeHex /\ ~EscapeOctal /\ ~EscapeOther  BY DEF EscapeHex, EscapeOctal, EscapeOther, Escape
<1>6. QED  BY <1>1, <1>3, <1>4, <1>5 DEF Next

LEMMA MoveEscape ==
  ASSUME pc = "word", Next, At(0) = Backslash, quote = DoubleQuote
  PROVE  EscapeHex \/ EscapeOctal \/ EscapeOther
<1> USE DEF Hash, SingleQuote, DoubleQuote, Backslash
<1>1. ~Skip /\ ~BeginWord  BY DEF Skip, BeginWord
<1>2. ~IsSpace(92) /\ ~IsControl(92)  BY DEF IsSpace, IsControl
<1>3. ~End /\ ~EndWord /\ ~Stray /\ ~Mark  BY <1>2 DEF End, EndWord, Stray, Mark
<1>4. ~Plain  BY <1>2 DEF Plain
<1>5. QED  BY <1>1, <1>3, <1>4 DEF Next

LEMMA MoveOverLetter ==
  ASSUME pc = "word", Next, At(0) = Backslash, quote = DoubleQuote, NEW l \in DOMAIN Letter, At(1) = l
  PROVE  Take(2, Letter[l])
<1>1. l \in {97, 98, 102, 110, 114, 116, 118}  BY DEF Letter
<1>2. ~EscapeHex  BY <1>1 DEF EscapeHex
<1>3. ~EscapeOctal  BY <1>1 DEF EscapeOctal, IsOctal
<1>4. EscapeOther  BY <1>2, <1>3, MoveEscape
<1>5. l # 0  BY <1>1
<1>6. QED  BY <1>4, <1>5 DEF EscapeOther

LEMMA MoveOverItself ==
  ASSUME pc = "word", Next, At(0) = Backslash, quote = DoubleQuote,
         NEW c \in {SingleQuote, DoubleQuote, Backslash}, At(1) = c
  PROVE  Take(2, c)
<1>1. c \in {34, 39, 92}  BY DEF SingleQuote, DoubleQuote, Backslash
<1>2. ~EscapeHex  BY <1>1 DEF EscapeHex
<1>3. ~EscapeOctal  BY <1>1 DEF EscapeOctal, IsOctal
<1>4. EscapeOther  BY <1>2, <1>3, MoveEscape
<1>5. c # 0 /\ c \notin DOMAIN Letter  BY <1>1 DEF Letter
<1>6. QED  BY <1>4, <1>5 DEF EscapeOther

LEMMA MoveOverOctal ==
  ASSUME pc = "word", Next, At(0) = Backslash, quote = DoubleQuote,
         NEW d1 \in 0 .. 1, NEW d2 \in 0 .. 7, NEW d3 \in 0 .. 7,
         At(1) = 48 + d1, At(2) = 48 + d2, At(3) = 48 + d3
  PROVE  Take(4, 64 * d1 + 8 * d2 + d3)
<1>1. IsOctal(At(1)) /\ IsOctal(At(2)) /\ IsOctal(At(3))  BY DEF IsOctal
<1>2. At(1) \notin {88, 120}  OBVIOUS
<1>3. ~EscapeHex  BY <1>2 DEF EscapeHex
<1>4. ~EscapeOther  BY <1>1 DEF EscapeOther
<1>5. EscapeOctal  BY <1>3, <1>4, MoveEscape
<1>6. PICK e1, e2, e3 : e1 = At(1) - 48 /\ e2 = At(2) - 48 /\ e3 = At(3) - 48  OBVIOUS
<1>7. e1 = d1 /\ e2 = d2 /\ e3 = d3 /\ e1 <= 3  BY <1>6
<1>8. Take(4, 64 * e1 + 8 * e2 + e3)  BY <1>1, <1>5, <1>6, <1>7 DEF EscapeOctal
<1>9. QED  BY <1>7, <1>8

LEMMA MoveFromWord ==
  ASSUME pc = "word", Next, quote = 0, At(0) \in {0, 32}
  PROVE  /\ PushWord /\ UNCHANGED <<words, str, p, q, quote>>
         /\ pc' = IF At(0) = 0 THEN "done" ELSE "gap"
<1> USE DEF Hash, SingleQuote, DoubleQuote, Backslash
<1>1. ~Skip /\ ~BeginWord  BY DEF Skip, BeginWord
<1>2. IsSpace(At(0)) <=> At(0) = 32  BY DEF IsSpace
<1>3. ~Mark  BY DEF Mark
<1>4. ~Stray  BY <1>2 DEF Stray
<1>5. IsControl(0)  BY DEF IsControl
<1>6. ~Plain  BY <1>2, <1>5 DEF Plain
<1>7. ~EscapeHex /\ ~EscapeOctal /\ ~EscapeOther  BY DEF EscapeHex, EscapeOctal, EscapeOther, Escape
<1>8. End \/ EndWord  BY <1>1, <1>3, <1>4, <1>6, <1>7 DEF Next
<1>9. CASE At(0) = 0  BY <1>2, <1>8, <1>9 DEF End, EndWord
<1>10. CASE At(0) = 32  BY <1>2, <1>8, <1>10 DEF End, EndWord
<1>11. QED  BY <1>9, <1>10

-----------------------------------------------------------------------------
(* Parsing what has been written.  Of word w, which lies between a and z,  *)
(* q holds the beginning that has been read.                               *)
Inside(w, a, z, h) ==
  IF NeedQuotes(w)
    THEN \/ quote = 0 /\ q = <<>> /\ p = a + 1
         \/ quote = DoubleQuote /\ Len(q) <= Len(w) /\ q = SubSeq(w, 1, Len(q)) /\ p = a + 2 + h[Len(q)]
         \/ quote = 0 /\ q = w /\ p = z + 1
    ELSE quote = 0 /\ Len(q) <= Len(w) /\ q = SubSeq(w, 1, Len(q)) /\ p = a + 1 + Len(q)

AtEnd(w, z) == quote = 0 /\ q = w /\ p = z + 1

LEMMA CharsAre ==
  ASSUME str \in Seq(Ascii), p \in Nat \ {0}, NEW k \in Nat
  PROVE  /\ p + k <= Len(str) => At(k) = str[p + k]
         /\ p + k > Len(str) => At(k) = 0
BY DEF At

LEMMA BareChars ==
  ASSUME NEW w, IsWord(w), NEW k \in 1 .. Len(w)
  PROVE  /\ w[k] \in Ascii /\ w[k] # Hash
         /\ ~NeedQuotes(w) => Bare(w[k]) /\ w[k] # 32
<1>1. k \in DOMAIN w /\ w[k] \in Ascii \ {Hash}  BY DEF IsWord
<1>2. PICK c : c = w[k]  OBVIOUS
<1>3. c \in 1 .. 127  BY <1>1, <1>2 DEF Ascii
<1>4. ~NeedQuotes(w) => ~(c = 32 \/ IsControl(c) \/ c \in {Delete, SingleQuote, DoubleQuote, Backslash})
  BY <1>1, <1>2 DEF NeedQuotes
<1>5. ~NeedQuotes(w) => c \in 32 .. 126 /\ c # 32  BY <1>3, <1>4 DEF IsControl, Delete
<1>6. QED  BY <1>1, <1>2, <1>4, <1>5 DEF Bare

LEMMA FrontGrows ==
  ASSUME NEW C, NEW s \in Seq(C), NEW k \in 0 .. Len(s) - 1
  PROVE  Append(SubSeq(s, 1, k), s[k + 1]) = SubSeq(s, 1, k + 1)
<1>1. PICK l \in Nat : l = Len(s)  OBVIOUS
<1>2. PICK u, v, x : u = SubSeq(s, 1, k) /\ v = SubSeq(s, 1, k + 1) /\ x = s[k + 1]  OBVIOUS
<1>3. k \in Nat /\ k + 1 \in 1 .. l /\ k \in 0 .. l  BY <1>1
<1>4. u \in Seq(C) /\ Len(u) = k /\ \A j \in 1 .. k : u[j] = s[j]  BY <1>1, <1>2, <1>3
<1>5. v \in Seq(C) /\ Len(v) = k + 1 /\ \A j \in 1 .. k + 1 : v[j] = s[j]  BY <1>1, <1>2, <1>3
<1>6. x \in C  BY <1>1, <1>2, <1>3
<1>7. PICK y : y = Append(u, x)  OBVIOUS
<1>8. y \in Seq(C) /\ Len(y) = k + 1 /\ y[k + 1] = x /\ \A j \in 1 .. k : y[j] = u[j]  BY <1>3, <1>4, <1>6, <1>7
<1>9. \A j \in 1 .. k + 1 : y[j] = v[j]
  <2>1. \A j \in 1 .. k + 1 : j \in 1 .. k \/ j = k + 1  BY <1>3
  <2>2. QED  BY <2>1, <1>2, <1>4, <1>5, <1>8
<1>10. y = v  BY <1>5, <1>8, <1>9
<1>11. QED  BY <1>2, <1>7, <1>10

LEMMA WholeIs == ASSUME NEW C, NEW s \in Seq(C)  PROVE SubSeq(s, 1, Len(s)) = s
  OBVIOUS

(* A character of w more is in q once what it is written as has been read. *)
LEMMA OneMore ==
  ASSUME NEW w, IsWord(w), q \in Seq(Bytes), Len(q) < Len(w), q = SubSeq(w, 1, Len(q)),
         NEW n, NEW c, c = w[Len(q) + 1], Take(n, c)
  PROVE  /\ q' = SubSeq(w, 1, Len(q')) /\ Len(q') = Len(q) + 1 /\ Len(q') <= Len(w)
         /\ p' = p + n /\ UNCHANGED <<words, str, quote, argv, cap, pc>>
<1>1. w \in Seq(Ascii)  BY DEF IsWord
<1>2. PICK k, l : k = Len(q) /\ l = Len(w) /\ k \in Nat /\ l \in Nat
  <2>1. Len(q) \in Nat  OBVIOUS
  <2>2. Len(w) \in Nat  BY <1>1
  <2>3. QED  BY <2>1, <2>2, Zenon
<1>3. k \in 0 .. Len(w) - 1  BY <1>2
<1>4. q' = Append(SubSeq(w, 1, k), w[k + 1])  BY <1>2 DEF Take
<1>5. q' = SubSeq(w, 1, k + 1)  BY <1>1, <1>3, <1>4, FrontGrows
<1>6. k + 1 \in 0 .. l  BY <1>2
<1>7. Len(SubSeq(w, 1, k + 1)) = k + 1  BY <1>1, <1>2, <1>6
<1>8. Len(q') = k + 1  BY <1>5, <1>7
<1>9. k + 1 <= Len(w)  BY <1>2
<1>10. QED  BY <1>2, <1>5, <1>8, <1>9 DEF Take

LEMMA StepBare ==
  ASSUME NEW w, NEW a \in Nat, NEW z \in Nat, NEW h, IsWord(w), ~NeedQuotes(w), BareIn(str, w, a, z),
         str \in Seq(Ascii), p \in Nat \ {0}, q \in Seq(Bytes), z <= Len(str),
         pc = "word", Next, Inside(w, a, z, h), ~AtEnd(w, z)
  PROVE  Inside(w, a, z, h)' /\ UNCHANGED <<words, str, argv, pc>>
<1>1. w \in Seq(Ascii)  BY DEF IsWord
<1>2. PICK k \in Nat, l \in Nat : k = Len(q) /\ l = Len(w)  BY <1>1
<1>3. quote = 0 /\ k <= l /\ q = SubSeq(w, 1, k) /\ p = a + 1 + k  BY <1>2 DEF Inside
<1>4. z = a + l /\ \A j \in 1 .. l : str[a + j] = w[j]  BY <1>2 DEF BareIn
<1>5. k # l
  <2>1. SUFFICES ASSUME k = l  PROVE FALSE  OBVIOUS
  <2>2. q = w  BY <1>1, <1>2, <1>3, <2>1, WholeIs
  <2>3. p = z + 1  BY <1>3, <1>4, <2>1
  <2>4. QED  BY <1>3, <2>2, <2>3 DEF AtEnd
<1>6. k + 1 \in 1 .. l /\ k < l  BY <1>3, <1>5
<1>7. PICK c : c = w[k + 1]  OBVIOUS
<1>8. Bare(c) /\ c # 32 /\ c # Hash  BY <1>2, <1>6, <1>7, BareChars
<1>9. str[a + (k + 1)] = c  BY <1>4, <1>6, <1>7
<1>10. p + 0 = a + (k + 1) /\ p + 0 <= Len(str)
  <2>1. a + l <= Len(str) /\ Len(str) \in Nat  BY <1>4
  <2>2. QED  BY <1>3, <1>6, <2>1
<1>11. At(0) = c  BY <1>9, <1>10, CharsAre
<1>12. Take(1, c)  BY <1>3, <1>8, <1>11, MoveOverBare
<1>13. /\ q' = SubSeq(w, 1, Len(q')) /\ Len(q') = k + 1 /\ Len(q') <= Len(w)
       /\ p' = p + 1 /\ UNCHANGED <<words, str, quote, argv, cap, pc>>
  BY <1>2, <1>3, <1>6, <1>7, <1>12, OneMore
<1>14. p' = a + 1 + Len(q')  BY <1>3, <1>13
<1>15. QED  BY <1>3, <1>13, <1>14 DEF Inside

LEMMA StepQuoted ==
  ASSUME NEW w, NEW a \in Nat, NEW z \in Nat, NEW h, IsWord(w), NeedQuotes(w), QuotedIn(str, w, a, z, h),
         str \in Seq(Ascii), p \in Nat \ {0}, q \in Seq(Bytes), z <= Len(str),
         pc = "word", Next, Inside(w, a, z, h), ~AtEnd(w, z)
  PROVE  Inside(w, a, z, h)' /\ UNCHANGED <<words, str, argv, pc>>
<1>1. w \in Seq(Ascii)  BY DEF IsWord
<1>2. PICK k \in Nat, l \in Nat : k = Len(q) /\ l = Len(w)  BY <1>1
<1>3. h \in [0 .. l -> Nat] /\ h[0] = 0 /\ z = a + 2 + h[l] /\ str[a + 1] = DoubleQuote /\ str[z] = DoubleQuote
  BY <1>2 DEF QuotedIn
<1>4. \A j \in 1 .. l : h[j] = h[j - 1] + Len(Escaped(w[j]))  BY <1>2 DEF QuotedIn
<1>5. \A j \in 1 .. l : \A d \in 1 .. Len(Escaped(w[j])) : str[a + 1 + h[j - 1] + d] = Escaped(w[j])[d]
  BY <1>2 DEF QuotedIn
<1>6. h[l] \in Nat /\ Len(str) \in Nat  BY <1>2, <1>3
<1>7. CASE quote = 0
  <2>1. q = <<>> /\ p = a + 1  BY <1>7 DEF Inside, AtEnd, DoubleQuote
  <2>2. p + 0 = a + 1 /\ p + 0 <= Len(str)  BY <1>3, <1>6, <2>1
  <2>3. At(0) = DoubleQuote  BY <1>3, <2>2, CharsAre
  <2>4. Mark  BY <1>7, <2>3, MoveOverMark
  <2>5. quote' = DoubleQuote /\ p' = p + 1 /\ UNCHANGED <<words, str, q, argv, cap, pc>>
    BY <1>7, <2>3, <2>4 DEF Mark
  <2>6. q' = <<>> /\ Len(q') = 0  BY <2>1, <2>5
  <2>7. SubSeq(w, 1, 0) = <<>>  BY <1>1
  <2>8. p' = a + 2 + h[0]  BY <1>3, <2>1, <2>5
  <2>9. Len(q') <= Len(w) /\ q' = SubSeq(w, 1, Len(q')) /\ p' = a + 2 + h[Len(q')]  BY <1>2, <2>6, <2>7, <2>8
  <2>10. QED  BY <2>5, <2>9 DEF Inside
<1>8. CASE quote # 0
  <2>1. quote = DoubleQuote /\ k <= l /\ q = SubSeq(w, 1, k) /\ p = a + 2 + h[k]  BY <1>2, <1>8 DEF Inside
  <2>2. CASE k = l
    <3>1. q = w  BY <1>1, <1>2, <2>1, <2>2, WholeIs
    <3>2. p = z  BY <1>3, <2>1, <2>2
    <3>3. p + 0 = z  BY <3>2
    <3>4. At(0) = DoubleQuote  BY <1>3, <3>3, CharsAre
    <3>5. Mark  BY <2>1, <3>4, MoveOverMark
    <3>6. quote' = 0 /\ p' = p + 1 /\ UNCHANGED <<words, str, q, argv, cap, pc>>
      BY <1>8, <3>5 DEF Mark
    <3>7. quote' = 0 /\ q' = w /\ p' = z + 1  BY <3>1, <3>2, <3>6
    <3>8. QED  BY <3>6, <3>7 DEF Inside
  <2>3. CASE k # l
    <3>1. k + 1 \in 1 .. l /\ k < l /\ (k + 1) - 1 = k  BY <2>1, <2>3
    <3>2. PICK c, x : c = w[k + 1] /\ x = Escaped(c)  OBVIOUS
    <3>3. c \in Ascii /\ c # Hash  BY <1>2, <3>1, <3>2, BareChars
    <3>4. WrittenAs(c, x)  BY <3>2, <3>3, EscapedIs
    <3>5. x \in Seq(Ascii) /\ Len(x) \in Nat  BY <3>2, <3>3, EscapedTyped
    <3>6. h[k] \in Nat /\ h[k + 1] \in Nat
      <4>1. k \in 0 .. l /\ k + 1 \in 0 .. l  BY <2>1, <3>1
      <4>2. QED  BY <1>3, <4>1
    <3>7. h[k + 1] = h[k] + Len(x)  BY <1>4, <3>1, <3>2
    <3>8. h[k + 1] <= h[l]
      <4>1. \A j \in 0 .. l : h[j] <= h[l]  BY <1>1, <1>2, <1>3, <1>4, OffsetsGrow
      <4>2. k + 1 \in 0 .. l  BY <3>1
      <4>3. QED  BY <4>1, <4>2
    <3>9. \A d \in 1 .. Len(x) : str[a + 1 + h[k] + d] = x[d]  BY <1>5, <3>1, <3>2
    <3>10. ASSUME NEW d \in Nat, d + 1 <= Len(x)  PROVE At(d) = x[d + 1]
      <4>1. d + 1 \in 1 .. Len(x)  BY <3>5, <3>10
      <4>2. str[a + 1 + h[k] + (d + 1)] = x[d + 1]  BY <3>9, <4>1
      <4>3. PICK y \in Nat, e \in Nat, u \in Nat, r \in Nat : y = h[k] /\ e = Len(x) /\ u = h[l] /\ r = Len(str)
        BY <1>6, <3>5, <3>6
      <4>4. a + 1 + y + (d + 1) = p + d
        <5>1. p = a + 2 + y  BY <2>1, <4>3
        <5>2. a + 1 + y + (d + 1) = a + 2 + y + d  OBVIOUS
        <5>3. QED  BY <5>1, <5>2
      <4>5. y + e <= u /\ d + 1 <= e /\ a + 2 + u <= r  BY <1>3, <3>7, <3>8, <3>10, <4>3
      <4>6. p + d <= r  BY <4>4, <4>5
      <4>7. QED  BY <4>2, <4>3, <4>4, <4>6, CharsAre
    <3>11. Take(Len(x), c)
      <4>1. CASE Bare(c) /\ x = <<c>>
        <5>1. Len(x) = 1 /\ x[1] = c  BY <4>1
        <5>2. At(0) = x[0 + 1]  BY <3>10, <5>1
        <5>3. At(0) = c  BY <5>1, <5>2
        <5>4. Take(1, c)  BY <2>1, <3>3, <4>1, <5>3, MoveOverBare
        <5>5. QED  BY <5>1, <5>4
      <4>2. CASE \E v \in DOMAIN Letter : c = Letter[v] /\ x = <<Backslash, v>>
        <5>1. PICK v \in DOMAIN Letter : c = Letter[v] /\ x = <<Backslash, v>>  BY <4>2
        <5>2. Len(x) = 2 /\ x[1] = Backslash /\ x[2] = v  BY <5>1
        <5>3. At(0) = x[0 + 1] /\ At(1) = x[1 + 1]  BY <3>10, <5>2
        <5>4. At(0) = Backslash /\ At(1) = v  BY <5>2, <5>3
        <5>5. Take(2, Letter[v])  BY <2>1, <5>4, MoveOverLetter
        <5>6. QED  BY <5>1, <5>2, <5>5
      <4>3. CASE c \in {SingleQuote, DoubleQuote, Backslash} /\ x = <<Backslash, c>>
        <5>1. Len(x) = 2 /\ x[1] = Backslash /\ x[2] = c  BY <4>3
        <5>2. At(0) = x[0 + 1] /\ At(1) = x[1 + 1]  BY <3>10, <5>1
        <5>3. At(0) = Backslash /\ At(1) = c  BY <5>1, <5>2
        <5>4. Take(2, c)  BY <2>1, <4>3, <5>3, MoveOverItself
        <5>5. QED  BY <5>1, <5>4
      <4>4. CASE \E d1 \in 0 .. 1 : \E d2, d3 \in 0 .. 7 :
                   c = 64 * d1 + 8 * d2 + d3 /\ x = <<Backslash, 48 + d1, 48 + d2, 48 + d3>>
        <5>1. PICK d1 \in 0 .. 1, d2 \in 0 .. 7, d3 \in 0 .. 7 :
                     c = 64 * d1 + 8 * d2 + d3 /\ x = <<Backslash, 48 + d1, 48 + d2, 48 + d3>>
          BY <4>4
        <5>2. Len(x) = 4 /\ x[1] = Backslash /\ x[2] = 48 + d1 /\ x[3] = 48 + d2 /\ x[4] = 48 + d3  BY <5>1
        <5>3. At(0) = x[0 + 1] /\ At(1) = x[1 + 1] /\ At(2) = x[2 + 1] /\ At(3) = x[3 + 1]  BY <3>10, <5>2
        <5>4. At(0) = Backslash /\ At(1) = 48 + d1 /\ At(2) = 48 + d2 /\ At(3) = 48 + d3  BY <5>2, <5>3
        <5>5. Take(4, 64 * d1 + 8 * d2 + d3)  BY <2>1, <5>4, MoveOverOctal
        <5>6. QED  BY <5>1, <5>2, <5>5
      <4>5. QED  BY <3>4, <4>1, <4>2, <4>3, <4>4 DEF WrittenAs
    <3>12. PICK e \in Nat : e = Len(x)  BY <3>5
    <3>13. /\ q' = SubSeq(w, 1, Len(q')) /\ Len(q') = k + 1 /\ Len(q') <= Len(w)
           /\ p' = p + e /\ UNCHANGED <<words, str, quote, argv, cap, pc>>
      BY <1>2, <2>1, <3>1, <3>2, <3>11, <3>12, OneMore
    <3>14. p' = a + 2 + h[k + 1]
      <4>1. PICK y \in Nat, v \in Nat : y = h[k] /\ v = h[k + 1]  BY <3>6
      <4>2. v = y + e /\ p = a + 2 + y  BY <2>1, <3>7, <3>12, <4>1
      <4>3. p' = p + e  BY <3>13
      <4>4. p' = a + 2 + v  BY <4>2, <4>3
      <4>5. QED  BY <4>1, <4>4
    <3>15. p' = a + 2 + h[Len(q')]  BY <3>13, <3>14
    <3>16. QED  BY <2>1, <3>13, <3>15 DEF Inside
  <2>4. QED  BY <2>2, <2>3
<1>9. QED  BY <1>7, <1>8

-----------------------------------------------------------------------------
(* The words that have been read are the first of those written, and the   *)
(* next of them is being read.                                             *)
RoundAt(f, g) ==
  /\ pc \in Parsing \cup {"done"}
  /\ pc = "done" => argv = words
  /\ pc \in Parsing => Len(argv) <= Len(words) /\ argv = SubSeq(words, 1, Len(argv))
  /\ pc = "start" => argv = <<>> /\ quote = 0 /\ p = 1
  /\ pc = "gap" =>
       /\ Len(argv) > 0 /\ quote = 0
       /\ p = f[Len(argv)] + 1 \/ (Len(argv) < Len(words) /\ p = f[Len(argv)] + 2)
  /\ pc = "word" =>
       /\ Len(argv) < Len(words)
       /\ Inside(words[Len(argv) + 1], f[Len(argv)] + Gap(Len(argv) + 1), f[Len(argv) + 1], g[Len(argv) + 1])

RoundInv ==
  /\ InsideInv
  /\ words # <<>> => AreWords(words) /\ \E f, g : Written(str, words, f, g) /\ RoundAt(f, g)

(* Where the next word is, and what it begins with.                        *)
LEMMA NextWordIs ==
  ASSUME NEW f, NEW g, AreWords(words), Written(str, words, f, g), NEW m \in Nat, m < Len(words)
  PROVE  /\ f[m] \in Nat /\ f[m] + Gap(m + 1) \in Nat /\ f[m + 1] \in Nat
         /\ f[m] + Gap(m + 1) < f[m + 1] /\ f[m + 1] <= Len(str)
         /\ m > 0 => str[f[m] + 1] = 32 /\ Gap(m + 1) = 1
         /\ m = 0 => f[m] = 0 /\ Gap(m + 1) = 0
         /\ IsWord(words[m + 1])
         /\ WordIn(str, words[m + 1], f[m] + Gap(m + 1), f[m + 1], g[m + 1])
<1>1. PICK n \in Nat : n = Len(words) /\ DOMAIN words = 1 .. n  BY DEF AreWords
<1>2. PICK k \in 1 .. n : k = m + 1 /\ k - 1 = m
  <2>1. m + 1 \in 1 .. n /\ (m + 1) - 1 = m  BY <1>1
  <2>2. QED  BY <2>1, Zenon
<1>3. f \in [0 .. n -> Nat] /\ f[0] = 0  BY <1>1 DEF Written
<1>4. m \in 0 .. n /\ k \in 0 .. n  BY <1>1, <1>2
<1>5. f[m] \in Nat /\ f[k] \in Nat  BY <1>3, <1>4
<1>6. Gap(k) \in {0, 1} /\ (m > 0 => Gap(k) = 1) /\ (m = 0 => Gap(k) = 0)  BY <1>2 DEF Gap
<1>7. /\ k > 1 => str[f[k - 1] + 1] = 32
      /\ f[k - 1] + Gap(k) < f[k] /\ f[k] <= Len(str)
      /\ WordIn(str, words[k], f[k - 1] + Gap(k), f[k], g[k])
  BY <1>1 DEF Written
<1>8. m > 0 => k > 1  BY <1>2
<1>9. IsWord(words[k])  BY <1>1 DEF AreWords
<1>10. f[m] + Gap(k) \in Nat  BY <1>5, <1>6
<1>11. QED  BY <1>2, <1>3, <1>5, <1>6, <1>7, <1>8, <1>9, <1>10

LEMMA FirstCharIs ==
  ASSUME NEW w, NEW a \in Nat, NEW z \in Nat, NEW h, IsWord(w), WordIn(str, w, a, z, h)
  PROVE  str[a + 1] # 0 /\ str[a + 1] # Hash /\ ~IsSpace(str[a + 1])
<1>1. CASE NeedQuotes(w)
  <2>1. str[a + 1] = 34  BY <1>1 DEF WordIn, QuotedIn, DoubleQuote
  <2>2. QED  BY <2>1 DEF IsSpace, Hash
<1>2. CASE ~NeedQuotes(w)
  <2>1. w \in Seq(Ascii) /\ w # <<>>  BY DEF IsWord
  <2>2. 1 \in 1 .. Len(w)  BY <2>1
  <2>3. PICK c : c = w[1]  OBVIOUS
  <2>4. str[a + 1] = c  BY <1>2, <2>2, <2>3 DEF WordIn, BareIn
  <2>5. Bare(c) /\ c # 32 /\ c # Hash  BY <1>2, <2>2, <2>3, BareChars
  <2>6. c \in 32 .. 126 /\ c # 32  BY <2>5 DEF Bare
  <2>7. QED  BY <2>4, <2>5, <2>6 DEF IsSpace
<1>3. QED  BY <1>1, <1>2

LEMMA AllRead ==
  ASSUME AreWords(words), Len(argv) \in Nat, Len(argv) = Len(words), argv = SubSeq(words, 1, Len(argv))
  PROVE  argv = words
<1>1. words \in Seq(Seq(Ascii \ {Hash}))  BY DEF AreWords
<1>2. SubSeq(words, 1, Len(words)) = words  BY <1>1, WholeIs
<1>3. QED  BY <1>2

LEMMA GapStep ==
  ASSUME NEW f, NEW g, InsideInv, AreWords(words), Written(str, words, f, g), RoundAt(f, g),
         pc \in {"start", "gap"}, Next
  PROVE  RoundAt(f, g)' /\ UNCHANGED <<words, str>>
<1>1. p \in Nat \ {0} /\ argv \in Seq(Seq(Chars)) /\ Len(argv) \in Nat  BY DEF InsideInv
<1>2. str \in Seq(Ascii) /\ Len(str) \in Nat  BY DEF Written
<1>3. PICK n \in Nat : n = Len(words)  BY DEF AreWords
<1>4. f \in [0 .. n -> Nat] /\ f[0] = 0 /\ Len(str) = f[n]  BY <1>3 DEF Written
<1>5. PICK m \in Nat : m = Len(argv)  BY <1>1
<1>6. m <= n /\ argv = SubSeq(words, 1, m) /\ quote = 0  BY <1>3, <1>5 DEF RoundAt, Parsing
<1>7. pc = "start" => argv = <<>> /\ p = 1  BY DEF RoundAt
<1>8. pc = "gap" => m > 0 /\ (p = f[m] + 1 \/ (m < n /\ p = f[m] + 2))  BY <1>3, <1>5 DEF RoundAt
<1>9. pc = "start" => m = 0 /\ m < n
  <2>1. n # 0  BY <1>3 DEF AreWords
  <2>2. QED  BY <1>3, <1>5, <1>7, <2>1
<1>10. CASE pc = "gap" /\ p = f[m] + 1 /\ m < n
  <2>1. f[m] \in Nat /\ str[f[m] + 1] = 32 /\ f[m] + Gap(m + 1) < f[m + 1] /\ f[m + 1] <= Len(str)
        /\ Gap(m + 1) = 1 /\ f[m + 1] \in Nat
    BY <1>3, <1>8, <1>10, NextWordIs
  <2>2. p + 0 = f[m] + 1 /\ p + 0 <= Len(str)  BY <1>2, <1>10, <2>1
  <2>3. At(0) = 32  BY <1>1, <1>2, <2>1, <2>2, CharsAre
  <2>4. Skip  BY <1>10, <2>3, MoveInGap
  <2>5. p' = p + 1 /\ UNCHANGED <<words, str, q, quote, argv, cap, pc>>  BY <2>4 DEF Skip
  <2>6. p' = f[m] + 2  BY <1>10, <2>1, <2>5
  <2>7. pc' = "gap" /\ quote' = 0 /\ argv' = argv /\ words' = words  BY <1>6, <1>10, <2>5
  <2>8. Len(argv') = m /\ Len(words') = n /\ m > 0  BY <1>3, <1>5, <1>8, <1>10, <2>7
  <2>9. argv' = SubSeq(words', 1, Len(argv'))  BY <1>6, <2>7, <2>8
  <2>10. QED  BY <1>6, <1>10, <2>5, <2>6, <2>7, <2>8, <2>9 DEF RoundAt
<1>11. CASE pc = "gap" /\ p = f[m] + 1 /\ ~(m < n)
  <2>1. m = n /\ p + 0 > Len(str)  BY <1>2, <1>4, <1>6, <1>11
  <2>2. At(0) = 0  BY <1>1, <1>2, <2>1, CharsAre
  <2>3. ~IsSpace(At(0))  BY <2>2 DEF IsSpace
  <2>4. BeginWord  BY <1>11, <2>3, MoveToWord
  <2>5. pc' = "done" /\ UNCHANGED <<words, str, p, quote, argv, cap>>  BY <2>2, <2>4 DEF BeginWord
  <2>6. argv = words  BY <1>1, <1>3, <1>5, <1>6, <2>1, AllRead
  <2>7. argv' = words'  BY <2>5, <2>6
  <2>8. QED  BY <2>5, <2>7 DEF RoundAt, Parsing
<1>12. CASE pc = "start" \/ (pc = "gap" /\ m < n /\ p = f[m] + 2)
  <2>1. m < n  BY <1>9, <1>12
  <2>2. PICK k \in Nat : k = m + 1  OBVIOUS
  <2>3. PICK w, a, z, h : w = words[k] /\ a = f[m] + Gap(k) /\ z = f[k] /\ h = g[k]  OBVIOUS
  <2>4. /\ a \in Nat /\ z \in Nat /\ a < z /\ z <= Len(str) /\ f[m] \in Nat
        /\ m > 0 => Gap(k) = 1
        /\ m = 0 => f[m] = 0 /\ Gap(k) = 0
        /\ IsWord(w) /\ WordIn(str, w, a, z, h)
    BY <1>3, <2>1, <2>2, <2>3, NextWordIs
  <2>5. p = a + 1  BY <1>7, <1>8, <1>9, <1>12, <2>3, <2>4
  <2>6. p + 0 = a + 1 /\ p + 0 <= Len(str)  BY <1>2, <2>4, <2>5
  <2>7. PICK c : c = str[a + 1]  OBVIOUS
  <2>8. At(0) = c  BY <1>1, <1>2, <2>6, <2>7, CharsAre
  <2>9. c # 0 /\ c # Hash /\ ~IsSpace(c)  BY <2>4, <2>7, FirstCharIs
  <2>10. BeginWord  BY <2>8, <2>9, MoveToWord
  <2>11. pc' = "word" /\ q' = <<>> /\ UNCHANGED <<words, str, p, quote, argv, cap>>  BY <2>8, <2>9, <2>10 DEF BeginWord
  <2>12. quote' = 0 /\ argv' = argv /\ words' = words /\ p' = a + 1  BY <1>6, <2>5, <2>11
  <2>13. w \in Seq(Ascii) /\ Len(w) \in Nat  BY <2>4 DEF IsWord
  <2>14. SubSeq(w, 1, 0) = <<>>  BY <2>13
  <2>15. Len(q') = 0 /\ Len(q') <= Len(w) /\ q' = SubSeq(w, 1, Len(q')) /\ p' = a + 1 + Len(q')
    BY <2>4, <2>11, <2>12, <2>13, <2>14
  <2>16. Inside(w, a, z, h)'  BY <2>11, <2>12, <2>15 DEF Inside
  <2>17. Len(argv') = m /\ Len(words') = n /\ m <= n /\ words'[k] = w  BY <1>3, <1>5, <2>1, <2>3, <2>12
  <2>18. argv' = SubSeq(words', 1, Len(argv'))  BY <1>6, <2>12, <2>17
  <2>19. Inside(words[Len(argv) + 1], f[Len(argv)] + Gap(Len(argv) + 1), f[Len(argv) + 1], g[Len(argv) + 1])'
    BY <2>2, <2>3, <2>16, <2>17
  <2>20. QED  BY <2>1, <2>11, <2>17, <2>18, <2>19 DEF RoundAt, Parsing
<1>13. QED  BY <1>8, <1>10, <1>11, <1>12

LEMMA WordStep ==
  ASSUME NEW f, NEW g, InsideInv, AreWords(words), Written(str, words, f, g), RoundAt(f, g),
         pc = "word", Next
  PROVE  RoundAt(f, g)' /\ UNCHANGED <<words, str>>
<1>1. p \in Nat \ {0} /\ q \in Seq(Bytes) /\ argv \in Seq(Seq(Chars)) /\ Len(argv) \in Nat  BY DEF InsideInv
<1>2. str \in Seq(Ascii) /\ Len(str) \in Nat  BY DEF Written
<1>3. PICK n \in Nat : n = Len(words)  BY DEF AreWords
<1>4. Len(str) = f[n]  BY <1>3 DEF Written
<1>5. PICK m \in Nat : m = Len(argv)  BY <1>1
<1>6. m < n /\ argv = SubSeq(words, 1, m)  BY <1>3, <1>5 DEF RoundAt, Parsing
<1>7. PICK k \in Nat : k = m + 1  OBVIOUS
<1>8. PICK w, a, z, h : w = words[k] /\ a = f[m] + Gap(k) /\ z = f[k] /\ h = g[k]  OBVIOUS
<1>9. a \in Nat /\ z \in Nat /\ z <= Len(str) /\ IsWord(w) /\ WordIn(str, w, a, z, h)
  BY <1>3, <1>6, <1>7, <1>8, NextWordIs
<1>10. Inside(w, a, z, h)  BY <1>5, <1>7, <1>8 DEF RoundAt
<1>11. CASE ~AtEnd(w, z)
  <2>1. Inside(w, a, z, h)' /\ UNCHANGED <<words, str, argv, pc>>
    <3>1. CASE NeedQuotes(w)
      <4>1. QuotedIn(str, w, a, z, h)  BY <1>9, <3>1 DEF WordIn
      <4>2. QED  BY <1>1, <1>2, <1>9, <1>10, <1>11, <3>1, <4>1, StepQuoted
    <3>2. CASE ~NeedQuotes(w)
      <4>1. BareIn(str, w, a, z)  BY <1>9, <3>2 DEF WordIn
      <4>2. QED  BY <1>1, <1>2, <1>9, <1>10, <1>11, <3>2, <4>1, StepBare
    <3>3. QED  BY <3>1, <3>2
  <2>2. pc' = "word" /\ argv' = argv /\ words' = words  BY <2>1
  <2>3. Len(argv') = m /\ Len(words') = n  BY <1>3, <1>5, <2>2
  <2>4. argv' = SubSeq(words', 1, Len(argv'))  BY <1>6, <2>2, <2>3
  <2>5. Inside(words[Len(argv) + 1], f[Len(argv)] + Gap(Len(argv) + 1), f[Len(argv) + 1], g[Len(argv) + 1])'
    BY <1>7, <1>8, <2>1, <2>2, <2>3
  <2>6. QED  BY <1>6, <2>1, <2>2, <2>3, <2>4, <2>5 DEF RoundAt, Parsing
<1>12. CASE AtEnd(w, z)
  <2>1. quote = 0 /\ q = w /\ p = z + 1  BY <1>12 DEF AtEnd
  <2>2. At(0) = IF k = n THEN 0 ELSE 32
    <3>1. CASE k = n
      <4>1. p + 0 > Len(str)  BY <1>2, <1>4, <1>8, <1>9, <2>1, <3>1
      <4>2. QED  BY <1>1, <1>2, <3>1, <4>1, CharsAre
    <3>2. CASE k # n
      <4>1. k < n /\ k > 0  BY <1>6, <1>7, <3>2
      <4>2. str[f[k] + 1] = 32 /\ f[k] + Gap(k + 1) < f[k + 1] /\ f[k + 1] <= Len(str) /\ Gap(k + 1) = 1
            /\ f[k + 1] \in Nat
        BY <1>3, <4>1, NextWordIs
      <4>3. p + 0 = z + 1 /\ p + 0 <= Len(str)  BY <1>2, <1>8, <1>9, <2>1, <4>2
      <4>4. QED  BY <1>1, <1>2, <1>8, <3>2, <4>2, <4>3, CharsAre
    <3>3. QED  BY <3>1, <3>2
  <2>3. At(0) \in {0, 32} /\ (At(0) = 0 <=> k = n)  BY <2>2
  <2>4. /\ PushWord /\ UNCHANGED <<words, str, p, q, quote>>
        /\ pc' = IF At(0) = 0 THEN "done" ELSE "gap"
    BY <2>1, <2>3, MoveFromWord
  <2>5. Duplicate(q) = w
    <3>1. w \in Seq(Ascii)  BY <1>9 DEF IsWord
    <3>2. Ascii \subseteq Chars  BY DEF Ascii, Chars
    <3>3. w \in Seq(Chars)  BY <3>1, <3>2
    <3>4. Duplicate(q) = q  BY <1>1, <2>1, <3>3, DuplicateIs
    <3>5. QED  BY <2>1, <3>4
  <2>6. argv' = Append(argv, w)  BY <2>4, <2>5 DEF PushWord
  <2>7. words \in Seq(Seq(Ascii \ {Hash}))  BY DEF AreWords
  <2>8. m \in 0 .. Len(words) - 1 /\ w = words[m + 1]  BY <1>3, <1>6, <1>7, <1>8
  <2>9. Append(SubSeq(words, 1, m), w) = SubSeq(words, 1, m + 1)  BY <2>7, <2>8, FrontGrows
  <2>10. argv' = SubSeq(words, 1, k)  BY <1>6, <1>7, <2>6, <2>9
  <2>11. k \in 0 .. Len(words) /\ k > 0  BY <1>3, <1>6, <1>7
  <2>12. Len(SubSeq(words, 1, k)) = k  BY <2>7, <2>11
  <2>13. Len(argv') = k  BY <2>10, <2>12
  <2>14. words' = words /\ Len(words') = n /\ quote' = 0 /\ p' = f[k] + 1  BY <1>3, <1>8, <2>1, <2>4
  <2>15. argv' = SubSeq(words', 1, Len(argv')) /\ Len(argv') <= Len(words')  BY <1>3, <2>10, <2>11, <2>13, <2>14
  <2>16. CASE k = n
    <3>1. pc' = "done"  BY <2>3, <2>4, <2>16
    <3>2. SubSeq(words, 1, n) = words  BY <1>3, <2>7, WholeIs
    <3>3. argv' = words'  BY <2>10, <2>14, <2>16, <3>2
    <3>4. QED  BY <2>4, <3>1, <3>3 DEF RoundAt, Parsing
  <2>17. CASE k # n
    <3>1. pc' = "gap"  BY <2>3, <2>4, <2>17
    <3>2. p' = f[Len(argv')] + 1  BY <2>13, <2>14
    <3>3. QED  BY <2>4, <2>11, <2>13, <2>14, <2>15, <3>1, <3>2 DEF RoundAt, Parsing
  <2>18. QED  BY <2>16, <2>17
<1>13. QED  BY <1>11, <1>12

LEMMA RoundInit == (Input \/ NoValue) /\ Start => RoundInv
<1> SUFFICES ASSUME Input \/ NoValue, Start  PROVE RoundInv  OBVIOUS
<1>1. InsideInv  BY InsideInit
<1>2. ASSUME words # <<>>  PROVE AreWords(words) /\ \E f, g : Written(str, words, f, g) /\ RoundAt(f, g)
  <2>1. AreWords(words) /\ str = Unparse(words)  BY <1>2, WordsAre
  <2>2. PICK f, g : Written(str, words, f, g)  BY <2>1, UnparseIs
  <2>3. p = 1 /\ quote = 0 /\ argv = <<>> /\ pc = "start"  BY DEF Start
  <2>4. words \in Seq(Seq(Ascii \ {Hash}))  BY <2>1 DEF AreWords
  <2>5. Len(argv) = 0 /\ SubSeq(words, 1, 0) = <<>> /\ Len(words) \in Nat  BY <2>3, <2>4
  <2>6. RoundAt(f, g)  BY <2>3, <2>5 DEF RoundAt, Parsing
  <2>7. QED  BY <2>1, <2>2, <2>6
<1>3. QED  BY <1>1, <1>2 DEF RoundInv

LEMMA RoundStep == RoundInv /\ [Next]_vars => RoundInv'
<1> SUFFICES ASSUME RoundInv, [Next]_vars  PROVE RoundInv'  OBVIOUS
<1>1. InsideInv /\ InsideInv'  BY InsideStep DEF RoundInv
<1>2. CASE UNCHANGED vars
  <2>1. UNCHANGED <<words, str, p, q, quote, argv, cap, pc>>  BY <1>2 DEF vars
  <2>2. ASSUME NEW f, NEW g, RoundAt(f, g)  PROVE RoundAt(f, g)'
    BY <2>1, <2>2 DEF RoundAt, Inside
  <2>3. QED  BY <1>1, <2>1, <2>2 DEF RoundInv
<1>3. CASE Next
  <2>1. UNCHANGED <<words, str>>
    BY <1>3 DEF Next, Skip, BeginWord, End, EndWord, Mark, Plain, Stray, EscapeHex, EscapeOctal, EscapeOther, Take, Fail
  <2>2. ASSUME words # <<>>  PROVE AreWords(words)' /\ \E f, g : Written(str, words, f, g)' /\ RoundAt(f, g)'
    <3>1. AreWords(words)  BY <2>2 DEF RoundInv
    <3>2. PICK f, g : Written(str, words, f, g) /\ RoundAt(f, g)  BY <2>2 DEF RoundInv
    <3>3. pc \in Parsing
      <4>1. pc # "done"
        BY <1>3 DEF Next, Skip, BeginWord, End, EndWord, Mark, Plain, Stray, EscapeHex, EscapeOctal, EscapeOther, Escape
      <4>2. QED  BY <3>2, <4>1 DEF RoundAt
    <3>4. RoundAt(f, g)'
      <4>1. CASE pc \in {"start", "gap"}  BY <1>1, <1>3, <3>1, <3>2, <4>1, GapStep
      <4>2. CASE pc = "word"  BY <1>1, <1>3, <3>1, <3>2, <4>2, WordStep
      <4>3. QED  BY <3>3, <4>1, <4>2 DEF Parsing
    <3>5. Written(str, words, f, g)' /\ AreWords(words)'  BY <2>1, <3>1, <3>2
    <3>6. QED  BY <3>4, <3>5
  <2>3. QED  BY <1>1, <2>1, <2>2 DEF RoundInv
<1>4. QED  BY <1>2, <1>3

(* No value, however it ends, makes parse_cmdline look behind its end,     *)
(* write behind locbuf or behind pcmd->v, whatever their first size.       *)
THEOREM NothingIsOverrun == AllSpec => []InsideBuffers
<1>1. InsideInv => InsideBuffers  BY InsideInvImplies
<1>2. QED  BY <1>1, InsideInit, InsideStep, RunsValue, PTL

(* What the unparse functions write, for any number of words of any        *)
(* length, parse_cmdline reads back as the same words.                     *)
THEOREM WordsSurvive == AllSpec => []RoundTrip
<1>1. RoundInv => RoundTrip
  <2>1. SUFFICES ASSUME RoundInv, words # <<>>, pc \notin {"start", "gap", "word"}
                 PROVE  pc = "done" /\ argv = words
    BY DEF RoundTrip
  <2>2. PICK f, g : RoundAt(f, g)  BY <2>1 DEF RoundInv
  <2>3. QED  BY <2>1, <2>2 DEF RoundAt, Parsing
<1>2. QED  BY <1>1, RoundInit, RoundStep, RunsValue, PTL

=============================================================================
