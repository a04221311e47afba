------------------------ MODULE ComposeSourceProofs ------------------------
(***************************************************************************)
(* Proofs about ComposeSource: for sources of any length, of any lines,    *)
(* nothing private is ever copied to the output, and nothing public lost.  *)
(***************************************************************************)
EXTENDS ComposeSource, SequenceTheorems, FiniteSetTheorems, WellFoundedInduction, TLAPS

USE MaxLinesAssumption

Entries == [kind : {"line", "hint", "throw", "stub"}, at : 1 .. Len(lines)]

(* The source lines that an output consists of.                            *)
LinesOf(s) == {s[k].at : k \in {k \in DOMAIN s : s[k].kind = "line"}}

LEMMA SourceType ==
  ASSUME lines \in Sources
  PROVE  lines \in Seq(Line) /\ DOMAIN lines = 1 .. Len(lines) /\ Len(lines) \in Nat
<1>1. PICK n \in 0 .. MaxLines : lines \in [1 .. n -> Line] BY DEF Sources
<1>2. n \in Nat /\ lines \in Seq(Line) BY <1>1
<1>3. QED BY <1>2

LEMMA LinesOfConcat ==
  ASSUME NEW S, NEW s \in Seq(S), NEW t \in Seq(S)
  PROVE  s \o t \in Seq(S) /\ LinesOf(s \o t) = LinesOf(s) \cup LinesOf(t)
<1>1. s \o t \in Seq(S) /\ Len(s \o t) = Len(s) + Len(t) OBVIOUS
<1>2. /\ \A k \in 1 .. Len(s) : (s \o t)[k] = s[k]
      /\ \A k \in 1 .. Len(t) : (s \o t)[Len(s) + k] = t[k]
  OBVIOUS
<1>3. LinesOf(s \o t) \subseteq LinesOf(s) \cup LinesOf(t)
  <2> SUFFICES ASSUME NEW k \in 1 .. Len(s) + Len(t), (s \o t)[k].kind = "line"
               PROVE  (s \o t)[k].at \in LinesOf(s) \cup LinesOf(t)
    BY <1>1 DEF LinesOf
  <2>1. CASE k \in 1 .. Len(s) BY <2>1, <1>2 DEF LinesOf
  <2>2. CASE k \notin 1 .. Len(s)
    <3>1. k - Len(s) \in 1 .. Len(t) BY <2>2
    <3>2. (s \o t)[k] = t[k - Len(s)] BY <3>1, <1>2
    <3>3. QED BY <3>1, <3>2 DEF LinesOf
  <2>3. QED BY <2>1, <2>2
<1>4. LinesOf(s) \subseteq LinesOf(s \o t)
  <2>1. 1 .. Len(s) \subseteq DOMAIN (s \o t) BY <1>1
  <2>2. QED BY <1>2, <2>1 DEF LinesOf
<1>5. LinesOf(t) \subseteq LinesOf(s \o t)
  <2> SUFFICES ASSUME NEW k \in 1 .. Len(t), t[k].kind = "line"
               PROVE  t[k].at \in LinesOf(s \o t)
    BY DEF LinesOf
  <2>1. Len(s) + k \in DOMAIN (s \o t) BY <1>1
  <2>2. (s \o t)[Len(s) + k] = t[k] BY <1>2
  <2>3. QED BY <2>1, <2>2 DEF LinesOf
<1>6. QED BY <1>1, <1>3, <1>4, <1>5

LEMMA CopyLines ==
  ASSUME lines \in Sources,
         NEW first \in 1 .. Len(lines) + 1, NEW last \in 0 .. Len(lines), first <= last + 1
  PROVE  Copy(first, last) \in Seq(Entries) /\ LinesOf(Copy(first, last)) = first .. last
<1> Len(lines) \in Nat BY SourceType
<1> DEFINE n == last - first + 1
<1>1. n \in Nat OBVIOUS
<1>2. \A k \in 1 .. n : first + k - 1 \in 1 .. Len(lines) OBVIOUS
<1>3. \A k \in 1 .. n : [kind |-> "line", at |-> first + k - 1] \in Entries
  BY <1>2 DEF Entries
<1>4. Copy(first, last) \in Seq(Entries) /\ Len(Copy(first, last)) = n
  BY <1>1, <1>3 DEF Copy
<1>5. DOMAIN Copy(first, last) = 1 .. n BY DEF Copy
<1>6. \A k \in 1 .. n : /\ Copy(first, last)[k].kind = "line"
                        /\ Copy(first, last)[k].at = first + k - 1
  BY DEF Copy
<1>7. LinesOf(Copy(first, last)) \subseteq first .. last BY <1>5, <1>6 DEF LinesOf
<1>8. first .. last \subseteq LinesOf(Copy(first, last))
  <2> SUFFICES ASSUME NEW i \in first .. last PROVE i \in LinesOf(Copy(first, last))
    OBVIOUS
  <2>1. i - first + 1 \in 1 .. n /\ first + (i - first + 1) - 1 = i OBVIOUS
  <2>2. QED BY <2>1, <1>5, <1>6 DEF LinesOf
<1>9. QED BY <1>4, <1>7, <1>8

LEMMA MarkerLines ==
  ASSUME lines \in Sources, NEW b \in DOMAIN lines
  PROVE  Marker(b) \in Seq(Entries) /\ LinesOf(Marker(b)) = {}
<1>1. b \in 1 .. Len(lines) BY SourceType
<1>2. \A kind \in {"hint", "throw", "stub"} :
        Insert(kind, b) \in Seq(Entries) /\ LinesOf(Insert(kind, b)) = {}
  BY <1>1 DEF Insert, Entries, LinesOf
<1>3. <<>> \in Seq(Entries) /\ LinesOf(<<>>) = {} BY DEF LinesOf
<1>4. CASE lines[b].token = "public" BY <1>2, <1>4 DEF Marker
<1>5. CASE lines[b].token # "public"
  <2> DEFINE throw == IF lines[b].unimpl THEN Insert("throw", b) ELSE <<>>
  <2>1. throw \in Seq(Entries) /\ LinesOf(throw) = {} BY <1>2, <1>3
  <2>2. Marker(b) = Insert("hint", b) \o throw BY <1>5 DEF Marker
  <2> HIDE DEF throw
  <2> DEFINE hint == Insert("hint", b)
  <2>3. hint \in Seq(Entries) /\ LinesOf(hint) = {} BY <1>2
  <2> HIDE DEF hint
  <2>4. hint \o throw \in Seq(Entries) /\ LinesOf(hint \o throw) = LinesOf(hint) \cup LinesOf(throw)
    BY <2>1, <2>3, LinesOfConcat
  <2>5. QED BY <2>1, <2>2, <2>3, <2>4 DEF hint
<1>6. QED BY <1>4, <1>5

(* What the commands of the cut lines are does not matter here: the cut    *)
(* copies the lines before it and nothing else.                            *)
LEMMA CutEmits ==
  ASSUME TypeOK, NEW b \in DOMAIN lines, NEW e, NEW next, NEW task,
         next_pos <= b, CutUpTo(b, e, next, task)
  PROVE  dst' \in Seq(Entries) /\ Emitted' = Emitted \cup next_pos .. b - 1
<1>1. /\ lines \in Sources /\ next_pos \in 1 .. Len(lines) + 1 /\ dst \in Seq(Entries)
      /\ b \in 1 .. Len(lines) /\ Len(lines) \in Nat
  BY SourceType DEF TypeOK, Entries
<1>2. Copy(next_pos, b - 1) \in Seq(Entries) /\ LinesOf(Copy(next_pos, b - 1)) = next_pos .. b - 1
  BY <1>1, CopyLines
<1> DEFINE marker == IF lines[b].no_hint THEN <<>> ELSE Marker(b)
<1>3. marker \in Seq(Entries) /\ LinesOf(marker) = {}
  <2>1. <<>> \in Seq(Entries) /\ LinesOf(<<>>) = {} BY DEF LinesOf
  <2>2. Marker(b) \in Seq(Entries) /\ LinesOf(Marker(b)) = {} BY <1>1, MarkerLines
  <2>3. QED BY <2>1, <2>2
<1> HIDE DEF marker
<1>4. dst' = (dst \o Copy(next_pos, b - 1)) \o marker BY DEF CutUpTo, marker
<1>5. /\ dst \o Copy(next_pos, b - 1) \in Seq(Entries)
      /\ LinesOf(dst \o Copy(next_pos, b - 1)) = LinesOf(dst) \cup next_pos .. b - 1
  BY <1>1, <1>2, LinesOfConcat
<1>6. dst' \in Seq(Entries) /\ LinesOf(dst') = LinesOf(dst) \cup next_pos .. b - 1
  <2> DEFINE copied == dst \o Copy(next_pos, b - 1)
  <2>1. copied \in Seq(Entries) BY <1>5
  <2> HIDE DEF copied
  <2>2. copied \o marker \in Seq(Entries)
        /\ LinesOf(copied \o marker) = LinesOf(copied) \cup LinesOf(marker)
    BY ZenonT(40), <1>3, <2>1, LinesOfConcat
  <2>3. LinesOf(copied \o marker) = LinesOf(copied) BY <1>3, <2>2
  <2>4. QED BY <1>4, <1>5, <2>2, <2>3 DEF copied
<1>7. QED BY <1>6 DEF Emitted, LinesOf

(* No block is open at the first command of a search.                      *)
LEMMA NoOpenBlock ==
  ASSUME IInv, NEW b \in DOMAIN lines, FirstToken(next_pos, b)
  PROVE  \A i \in next_pos .. b : \A c \in 1 .. i - 1 : ~InBlock(c, i)
<1>1. /\ next_pos \in 1 .. Len(lines) + 1 /\ b \in 1 .. Len(lines) /\ Len(lines) \in Nat
      /\ DOMAIN lines = 1 .. Len(lines)
  BY SourceType DEF IInv, TypeOK
<1>2. \A j \in next_pos .. b - 1 : lines[j].token = "none"
  BY <1>1 DEF FirstToken, IsToken
<1> SUFFICES ASSUME NEW i \in next_pos .. b, NEW c \in 1 .. i - 1, InBlock(c, i)
             PROVE  FALSE
  OBVIOUS
<1>3. CASE c < next_pos
  <2>1. InBlock(c, next_pos)  BY <1>1, <1>3 DEF InBlock
  <2>2. QED  BY <1>3, <2>1, <1>1 DEF IInv, PassedRight
<1>4. CASE c >= next_pos  BY <1>4, <1>1, <1>2 DEF InBlock
<1>5. QED  BY <1>3, <1>4, <1>1

(* A cut of a whole command or block preserves the invariant.              *)
LEMMA CutKeepsIInv ==
  ASSUME IInv, status = "running", NEW b \in DOMAIN lines, FirstToken(next_pos, b),
         NEW e \in b + 1 .. Len(lines) + 1, Cut(b, e),
         lines[b].token = "begin_private" => e - 1 > b /\ lines[e - 1].token = "end_private",
         \A j \in b + 1 .. e - 1 : lines[j].token # "begin_private"
  PROVE  IInv'
<1>1. /\ lines \in Sources /\ next_pos \in 1 .. Len(lines) + 1
      /\ b \in 1 .. Len(lines) /\ Len(lines) \in Nat /\ DOMAIN lines = 1 .. Len(lines)
      /\ lines \in Seq(Line) /\ next_pos <= b
  BY SourceType DEF IInv, TypeOK, FirstToken
<1>2. PICK next \in {e, e + 1} :
        /\ CutUpTo(b, e, next, lines[b].task)
        /\ next = e + 1 => e \in DOMAIN lines /\ lines[e].blank
  BY DEF Cut, IsBlank
<1>3. next \in 1 .. Len(lines) + 1 /\ next_pos < next /\ e <= next BY <1>1, <1>2
<1>4. UNCHANGED <<lines, status, err_line>> /\ next_pos' = next BY <1>2 DEF CutUpTo
<1>5. dst' \in Seq(Entries) /\ Emitted' = Emitted \cup next_pos .. b - 1
  BY <1>1, <1>2, CutEmits DEF IInv
<1>6. \A j \in next_pos .. b - 1 : lines[j].token = "none"
  BY <1>1 DEF FirstToken, IsToken
<1>7. \A i \in next_pos .. b : \A c \in 1 .. i - 1 : ~InBlock(c, i)  BY NoOpenBlock
<1>8. \A i \in next_pos .. b - 1 : ~Private(i)
  BY <1>1, <1>6, <1>7 DEF Private
<1>9. \A c \in 1 .. next - 1 : ~InBlock(c, next)
  <2> SUFFICES ASSUME NEW c \in 1 .. next - 1, InBlock(c, next) PROVE FALSE OBVIOUS
  <2>1. CASE c < b
    <3>1. InBlock(c, b) BY <1>1, <1>3, <2>1 DEF InBlock
    <3>2. QED BY <1>1, <1>7, <2>1, <3>1
  <2>2. CASE c = b
    <3>1. e - 1 \in b + 1 .. next - 1 /\ lines[e - 1].token = "end_private"
      BY <1>1, <1>3, <2>2 DEF InBlock
    <3>2. QED BY <3>1, <2>2 DEF InBlock
  <2>3. CASE c > b
    <3>1. c <= e - 1 \/ (c = e /\ next = e + 1) BY <1>1, <1>2, <1>3
    <3>2. CASE c <= e - 1 BY <2>3, <3>2, <1>1 DEF InBlock
    <3>3. CASE c = e /\ next = e + 1
      <4>1. e \in DOMAIN lines /\ lines[e].blank /\ lines[e] \in Line BY <3>3, <1>1, <1>2
      <4>2. lines[e].token = "none" BY <4>1, TokenAssumption
      <4>3. QED BY <4>2, <3>3 DEF InBlock
    <3>4. QED BY <3>1, <3>2, <3>3
  <2>4. QED BY <1>1, <1>3, <2>1, <2>2, <2>3
<1>10. /\ removed_lines' < next /\ removed_lines' \in 0 .. Len(lines)
  <2>1. removed_lines' = removed_lines + (e - b) BY <1>2 DEF CutUpTo
  <2>2. QED BY <2>1, <1>1, <1>3 DEF IInv, TypeOK, PassedRight
<1>11. /\ removed_by_task' \in [Task -> 0 .. Len(lines)]
       /\ \A t \in Task : removed_by_task'[t] < next
  <2>1. removed_by_task' =
          [t \in Task |-> removed_by_task[t] + IF t = lines[b].task THEN e - b ELSE 0]
    BY <1>2 DEF CutUpTo
  <2>2. ASSUME NEW t \in Task
        PROVE  /\ removed_by_task[t] + (IF t = lines[b].task THEN e - b ELSE 0) \in 0 .. Len(lines)
               /\ removed_by_task[t] + (IF t = lines[b].task THEN e - b ELSE 0) < next
    <3>1. removed_by_task[t] \in Nat /\ removed_by_task[t] < next_pos
      BY DEF IInv, TypeOK, PassedRight
    <3>2. QED BY <3>1, <1>1, <1>3
  <2>3. QED BY <2>1, <2>2
<1>12. TypeOK'
  BY <1>1, <1>3, <1>4, <1>5, <1>10, <1>11 DEF IInv, TypeOK, Entries, Sources
<1>13. PassedRight'
  <2>1. ASSUME NEW i \in Emitted' PROVE i < next
    <3>1. CASE i \in Emitted
      <4>1. i \in Nat
        <5>1. PICK k \in DOMAIN dst : i = dst[k].at BY <3>1 DEF Emitted
        <5>2. dst[k] \in Entries
          <6>1. dst \in Seq(Entries) BY DEF IInv, TypeOK, Entries
          <6>2. QED BY <6>1
        <5>3. QED BY <1>1, <5>1, <5>2 DEF Entries
      <4>2. i < next_pos BY <3>1 DEF IInv, PassedRight
      <4>3. QED BY <1>1, <1>3, <4>1, <4>2
    <3>2. CASE i \in next_pos .. b - 1 BY <1>1, <1>2, <1>3, <3>2
    <3>3. QED BY <1>5, <3>1, <3>2
  <2>2. QED BY <1>4, <1>9, <1>10, <1>11, <2>1 DEF PassedRight, InBlock
<1>14. PrivateStaysPrivate'
  BY <1>4, <1>5, <1>8 DEF IInv, PrivateStaysPrivate, Private, InBlock
<1>15. QED BY <1>12, <1>13, <1>14 DEF IInv

LEMMA InitIInv == Init => IInv
<1> SUFFICES ASSUME Init PROVE IInv OBVIOUS
<1>1. Len(lines) \in Nat BY SourceType DEF Init
<1>2. Emitted = {} BY DEF Init, Emitted
<1>3. QED BY <1>1, <1>2 DEF Init, IInv, TypeOK, PassedRight, PrivateStaysPrivate

(* An error changes nothing but the status.                                *)
LEMMA FailKeepsIInv ==
  ASSUME IInv, NEW line \in 0 .. Len(lines),
         NEW error \in {"unpaired", "nested", "unclosed", "bad"}, Fail(error, line)
  PROVE  IInv'
BY DEF IInv, TypeOK, PassedRight, PrivateStaysPrivate, Private, InBlock, Emitted, Sources,
       Fail

LEMMA StepIInv == IInv /\ [Next]_vars => IInv'
<1> SUFFICES ASSUME IInv, [Next]_vars PROVE IInv' OBVIOUS
<1>0. /\ DOMAIN lines = 1 .. Len(lines) /\ Len(lines) \in Nat
      /\ next_pos \in 1 .. Len(lines) + 1
  BY SourceType DEF IInv, TypeOK
<1>1. CASE Finish
  <2>1. /\ lines \in Sources /\ dst \in Seq(Entries) BY DEF IInv, TypeOK, Entries
  <2>2. /\ Copy(next_pos, Len(lines)) \in Seq(Entries)
        /\ LinesOf(Copy(next_pos, Len(lines))) = next_pos .. Len(lines)
    BY <1>0, <2>1, CopyLines
  <2>3. dst' \in Seq(Entries) /\ LinesOf(dst') = LinesOf(dst) \cup next_pos .. Len(lines)
    <3>1. dst' = dst \o Copy(next_pos, Len(lines)) BY <1>1 DEF Finish
    <3>2. /\ dst \o Copy(next_pos, Len(lines)) \in Seq(Entries)
          /\ LinesOf(dst \o Copy(next_pos, Len(lines)))
               = LinesOf(dst) \cup LinesOf(Copy(next_pos, Len(lines)))
      BY ZenonT(40), <2>1, <2>2, LinesOfConcat
    <3>3. QED BY <2>2, <3>1, <3>2
  <2>4. UNCHANGED <<lines, next_pos, removed_lines, removed_by_task, err_line>> /\ status' = "done"
    BY <1>1 DEF Finish
  <2>5. TypeOK' BY <2>3, <2>4 DEF IInv, TypeOK, Entries, Sources
  <2>6. PassedRight' BY <2>4 DEF IInv, PassedRight, InBlock
  <2>7. \A i \in next_pos .. Len(lines) : ~Private(i)
    <3> SUFFICES ASSUME NEW i \in next_pos .. Len(lines), Private(i) PROVE FALSE OBVIOUS
    <3>1. \A j \in next_pos .. Len(lines) : lines[j].token = "none"
      BY <1>0, <1>1 DEF Finish, NoToken, IsToken
    <3>2. PICK c \in 1 .. i - 1 : InBlock(c, i) BY <3>1 DEF Private
    <3>3. CASE c < next_pos
      <4>1. InBlock(c, next_pos) BY <1>0, <3>2, <3>3 DEF InBlock
      <4>2. QED BY <1>0, <3>3, <4>1 DEF IInv, PassedRight
    <3>4. CASE c >= next_pos BY <1>0, <3>1, <3>2, <3>4 DEF InBlock
    <3>5. QED BY <1>0, <3>3, <3>4
  <2>8. Emitted' = Emitted \cup next_pos .. Len(lines) BY <2>3 DEF Emitted, LinesOf
  <2>9. PrivateStaysPrivate'
    BY <2>4, <2>7, <2>8 DEF IInv, PrivateStaysPrivate, Private, InBlock
  <2>10. QED BY <2>5, <2>6, <2>9 DEF IInv
<1>2. ASSUME NEW b \in DOMAIN lines, CutLine(b) PROVE IInv'
  <2>1. b + 1 \in b + 1 .. Len(lines) + 1 BY <1>0
  <2>2. \A j \in b + 1 .. (b + 1) - 1 : lines[j].token # "begin_private" BY <1>0
  <2>3. QED BY <1>2, <2>1, <2>2, CutKeepsIInv DEF CutLine
<1>3. ASSUME NEW b \in DOMAIN lines, NEW e \in DOMAIN lines, CutBlock(b, e) PROVE IInv'
  <2>1. e + 1 \in b + 1 .. Len(lines) + 1 /\ e > b /\ (e + 1) - 1 = e
    BY <1>0, <1>3 DEF CutBlock, BlockStopsAt
  <2>2. \A j \in b + 1 .. (e + 1) - 1 : lines[j].token # "begin_private"
    BY <1>0, <1>3 DEF CutBlock, BlockStopsAt
  <2>3. QED BY <1>3, <2>1, <2>2, CutKeepsIInv DEF CutBlock
<1>4. ASSUME NEW b \in DOMAIN lines, UnpairedEnd(b) \/ UnclosedBegin(b) \/ BadToken(b)
      PROVE  IInv'
  <2>1. b \in 0 .. Len(lines) BY <1>0
  <2>2. CASE UnpairedEnd(b) BY <2>1, <2>2, FailKeepsIInv DEF UnpairedEnd
  <2>3. CASE UnclosedBegin(b) BY <2>1, <2>3, FailKeepsIInv DEF UnclosedBegin
  <2>4. CASE BadToken(b)
    <3>1. b - next_pos + 1 \in 0 .. Len(lines) BY <1>0, <2>4 DEF BadToken, FirstToken
    <3>2. QED BY <2>4, <3>1, FailKeepsIInv DEF BadToken
  <2>5. QED BY <1>4, <2>2, <2>3, <2>4
<1>5. ASSUME NEW b \in DOMAIN lines, NEW e \in DOMAIN lines, NestedBegin(b, e) PROVE IInv'
  <2>1. e \in 0 .. Len(lines) BY <1>0
  <2>2. QED BY <1>5, <2>1, FailKeepsIInv DEF NestedBegin
<1>6. ASSUME NEW b \in DOMAIN lines, NEW e \in DOMAIN lines, NEW s \in b + 1 .. e,
             BadTokenInBlock(b, e, s)
      PROVE  IInv'
  <2>1. e - s + 1 \in 0 .. Len(lines) BY <1>0
  <2>2. QED BY <1>6, <2>1, FailKeepsIInv DEF BadTokenInBlock
<1>7. CASE UNCHANGED vars
  BY <1>7 DEF vars, IInv, TypeOK, PassedRight, PrivateStaysPrivate, Private, InBlock,
              Emitted, Sources
<1>8. QED
  BY <1>1, <1>2, <1>3, <1>4, <1>5, <1>6, <1>7 DEF Next, Step, Returned

LEMMA Invariance == Spec => []IInv
BY InitIInv, StepIInv, PTL DEF Spec

(* The positions and counters of process_source stay within the source,    *)
(* and the error messages name a line of it.                               *)
THEOREM TypeCorrect == Spec => []TypeOK
<1>1. IInv => TypeOK BY DEF IInv
<1>2. QED BY <1>1, Invariance, PTL

(* Whatever the source, no private line of it is ever copied to dst.       *)
THEOREM NothingPrivateIsPublished == Spec => []PrivateStaysPrivate
<1>1. IInv => PrivateStaysPrivate BY DEF IInv
<1>2. QED BY <1>1, Invariance, PTL

-----------------------------------------------------------------------------
(* Nothing public is lost.  OrderedSeq is Ordered of any output; the line  *)
(* at k of s stands for line i, which is not in s.                         *)
OrderedSeq(s) ==
  \A j, k \in DOMAIN s :
    j < k => s[j].at < s[k].at \/ (s[j].at = s[k].at /\ s[k].kind = "throw")

BlankAt(s, k) == s[k].kind = "line" /\ lines[s[k].at].blank
StandsFor(s, k, i) == BlankAt(s, k) /\ s[k].at < i /\ (k = Len(s) \/ s[k + 1].at > i)

SurvivesUpTo(n) ==
  \A i \in 1 .. n :
    ~Private(i) /\ i \notin Emitted => lines[i].blank /\ \E k \in DOMAIN dst : StandsFor(dst, k, i)

(* A blank line before next_pos is one that a cut has taken along: the     *)
(* output then ends with a blank line too.                                 *)
TailRight ==
  next_pos > 1 /\ lines[next_pos - 1].blank => dst # <<>> /\ BlankAt(dst, Len(dst))

SInv ==
  /\ IInv /\ OrderedSeq(dst)
  /\ status = "running" =>
       /\ \A k \in DOMAIN dst : dst[k].at < next_pos
       /\ TailRight /\ SurvivesUpTo(next_pos - 1)
  /\ status = "done" => SurvivesUpTo(Len(lines))

LEMMA ConcatAt ==
  ASSUME NEW S, NEW s \in Seq(S), NEW t \in Seq(S)
  PROVE  /\ s \o t \in Seq(S) /\ Len(s \o t) = Len(s) + Len(t)
         /\ DOMAIN s = 1 .. Len(s) /\ DOMAIN t = 1 .. Len(t)
         /\ DOMAIN (s \o t) = 1 .. Len(s) + Len(t) /\ Len(s) \in Nat /\ Len(t) \in Nat
         /\ \A k \in 1 .. Len(s) : (s \o t)[k] = s[k]
         /\ \A k \in 1 .. Len(t) : (s \o t)[Len(s) + k] = t[k]
         /\ \A k \in Len(s) + 1 .. Len(s) + Len(t) : k - Len(s) \in 1 .. Len(t) /\ (s \o t)[k] = t[k - Len(s)]
OBVIOUS

LEMMA OrderedConcat ==
  ASSUME NEW S, NEW s \in Seq(S), NEW t \in Seq(S), OrderedSeq(s), OrderedSeq(t),
         \A j \in DOMAIN s, k \in DOMAIN t : s[j].at < t[k].at
  PROVE  OrderedSeq(s \o t)
<1>0. PICK u, m, n : u = s \o t /\ m = Len(s) /\ n = Len(t)  OBVIOUS
<1>1. /\ m \in Nat /\ n \in Nat /\ DOMAIN u = 1 .. m + n
      /\ DOMAIN s = 1 .. m /\ DOMAIN t = 1 .. n
      /\ \A k \in 1 .. m : u[k] = s[k]
      /\ \A k \in m + 1 .. m + n : k - m \in 1 .. n /\ u[k] = t[k - m]
  BY <1>0, ConcatAt
<1> SUFFICES OrderedSeq(u)  BY <1>0
<1> SUFFICES ASSUME NEW j \in 1 .. m + n, NEW k \in 1 .. m + n, j < k
             PROVE  u[j].at < u[k].at \/ (u[j].at = u[k].at /\ u[k].kind = "throw")
  BY <1>1 DEF OrderedSeq
<1>2. CASE k <= m
  <2>1. j \in 1 .. m /\ k \in 1 .. m  BY <1>1, <1>2
  <2>2. u[j] = s[j] /\ u[k] = s[k]  BY <2>1, <1>1
  <2>3. QED  BY <2>1, <2>2, <1>1 DEF OrderedSeq
<1>3. CASE j <= m /\ k > m
  <2>1. j \in 1 .. m /\ k \in m + 1 .. m + n  BY <1>1, <1>3
  <2>2. u[j] = s[j] /\ u[k] = t[k - m] /\ k - m \in 1 .. n  BY <2>1, <1>1
  <2>3. QED  BY <2>1, <2>2, <1>1
<1>4. CASE j > m
  <2>1. j \in m + 1 .. m + n /\ k \in m + 1 .. m + n /\ j - m < k - m  BY <1>1, <1>4
  <2>2. /\ u[j] = t[j - m] /\ u[k] = t[k - m]
        /\ j - m \in 1 .. n /\ k - m \in 1 .. n
    BY <2>1, <1>1
  <2>3. QED  BY <2>1, <2>2, <1>1 DEF OrderedSeq
<1>5. QED  BY <1>1, <1>2, <1>3, <1>4

(* What stands for a line goes on to do so when later lines are added.     *)
LEMMA StillStands ==
  ASSUME NEW S, NEW s \in Seq(S), NEW t \in Seq(S), NEW k \in DOMAIN s, NEW i,
         StandsFor(s, k, i), \A j \in DOMAIN t : t[j].at > i
  PROVE  k \in DOMAIN (s \o t) /\ StandsFor(s \o t, k, i)
<1>0. PICK u, m, n : u = s \o t /\ m = Len(s) /\ n = Len(t)  OBVIOUS
<1>1. /\ m \in Nat /\ n \in Nat /\ DOMAIN u = 1 .. m + n /\ Len(u) = m + n
      /\ DOMAIN s = 1 .. m /\ DOMAIN t = 1 .. n
      /\ \A j \in 1 .. m : u[j] = s[j]
      /\ \A j \in m + 1 .. m + n : j - m \in 1 .. n /\ u[j] = t[j - m]
  BY <1>0, ConcatAt
<1>2. k \in 1 .. m /\ u[k] = s[k] /\ k \in 1 .. m + n  BY <1>1
<1>3. k = m + n \/ u[k + 1].at > i
  <2>1. CASE k = m /\ n > 0
    <3>1. k + 1 \in m + 1 .. m + n  BY <2>1, <1>1
    <3>2. QED  BY <3>1, <1>1
  <2>2. CASE k # m
    <3>1. k + 1 \in 1 .. m  BY <2>2, <1>1, <1>2
    <3>2. u[k + 1] = s[k + 1]  BY <3>1, <1>1
    <3>3. s[k + 1].at > i  BY <2>2, <1>0 DEF StandsFor
    <3>4. QED  BY <3>2, <3>3
  <2>3. QED  BY <2>1, <2>2, <1>1
<1>4. QED  BY <1>0, <1>1, <1>2, <1>3 DEF StandsFor, BlankAt

LEMMA CopyOrdered ==
  ASSUME lines \in Sources, NEW first \in 1 .. Len(lines) + 1, NEW last \in 0 .. Len(lines)
  PROVE  /\ OrderedSeq(Copy(first, last))
         /\ \A k \in DOMAIN Copy(first, last) : Copy(first, last)[k].at \in first .. last
         /\ first <= last =>
              /\ Len(Copy(first, last)) = last - first + 1 /\ Len(Copy(first, last)) >= 1
              /\ Copy(first, last)[last - first + 1] = [kind |-> "line", at |-> last]
<1> Len(lines) \in Nat  BY SourceType
<1>1. PICK n : n = last - first + 1  OBVIOUS
<1>2. n \in Int /\ Copy(first, last) = [k \in 1 .. n |-> [kind |-> "line", at |-> first + k - 1]]
  BY <1>1 DEF Copy
<1>3. DOMAIN Copy(first, last) = 1 .. n  BY <1>2
<1>4. \A k \in 1 .. n : Copy(first, last)[k].at = first + k - 1  BY <1>2
<1>5. \A k \in 1 .. n : first + k - 1 \in first .. last  BY <1>1
<1>6. OrderedSeq(Copy(first, last))  BY <1>3, <1>4 DEF OrderedSeq
<1>7. ASSUME first <= last
      PROVE  Len(Copy(first, last)) = n /\ n >= 1 /\ Copy(first, last)[n] = [kind |-> "line", at |-> last]
  <2>1. n \in Nat /\ n >= 1 /\ first + n - 1 = last  BY <1>1, <1>7
  <2>2. QED  BY <2>1, <1>2
<1>8. QED  BY <1>1, <1>3, <1>4, <1>5, <1>6, <1>7

LEMMA InsertOrdered ==
  ASSUME NEW b, NEW kind
  PROVE  /\ OrderedSeq(Insert(kind, b)) /\ Len(Insert(kind, b)) = 1
         /\ Insert(kind, b)[1] = [kind |-> kind, at |-> b]
         /\ \A k \in DOMAIN Insert(kind, b) : Insert(kind, b)[k].at = b
<1>1. PICK u : u = Insert(kind, b)  OBVIOUS
<1>2. u = <<[kind |-> kind, at |-> b]>>  BY <1>1 DEF Insert
<1>3. DOMAIN u = 1 .. 1 /\ Len(u) = 1 /\ u[1] = [kind |-> kind, at |-> b]  BY <1>2
<1>4. u[1].at = b  BY <1>3
<1>5. \A k \in DOMAIN u : k = 1  BY <1>3
<1>6. \A k \in DOMAIN u : u[k].at = b  BY <1>4, <1>5
<1>7. OrderedSeq(u)  BY <1>3, <1>5 DEF OrderedSeq
<1>8. QED  BY <1>1, <1>3, <1>6, <1>7

LEMMA MarkerOrdered ==
  ASSUME lines \in Sources, NEW b \in DOMAIN lines
  PROVE  OrderedSeq(Marker(b)) /\ \A k \in DOMAIN Marker(b) : Marker(b)[k].at = b
<1>2. CASE lines[b].token = "public"
  <2>1. Marker(b) = Insert("stub", b)  BY <1>2 DEF Marker
  <2>2. PICK u, kind : kind = "stub" /\ u = Insert(kind, b)  OBVIOUS
  <2>3. OrderedSeq(u) /\ \A k \in DOMAIN u : u[k].at = b
    <3>1. /\ OrderedSeq(Insert(kind, b))
          /\ \A k \in DOMAIN Insert(kind, b) : Insert(kind, b)[k].at = b
      BY InsertOrdered
    <3>2. QED  BY <3>1, <2>2
  <2>4. Marker(b) = u  BY <2>1, <2>2
  <2>5. QED  BY <2>3, <2>4
<1>3. CASE lines[b].token # "public" /\ ~lines[b].unimpl
  <2>1. Insert("hint", b) \o <<>> = Insert("hint", b)  BY DEF Insert
  <2>2. Marker(b) = Insert("hint", b)  BY <1>3, <2>1 DEF Marker
  <2>3. PICK u, kind : kind = "hint" /\ u = Insert(kind, b)  OBVIOUS
  <2>4. OrderedSeq(u) /\ \A k \in DOMAIN u : u[k].at = b
    <3>1. /\ OrderedSeq(Insert(kind, b))
          /\ \A k \in DOMAIN Insert(kind, b) : Insert(kind, b)[k].at = b
      BY InsertOrdered
    <3>2. QED  BY <3>1, <2>3
  <2>5. Marker(b) = u  BY <2>2, <2>3
  <2>6. QED  BY <2>4, <2>5
<1>4. CASE lines[b].token # "public" /\ lines[b].unimpl
  <2>1. PICK x, y, v, w, u :
          /\ x = [kind |-> "hint", at |-> b] /\ y = [kind |-> "throw", at |-> b]
          /\ v = Insert("hint", b) /\ w = Insert("throw", b) /\ u = v \o w
    OBVIOUS
  <2>2. Marker(b) = u  BY <1>4, <2>1, Zenon DEF Marker
  <2>3. DOMAIN u = 1 .. 2 /\ u[1].at = b /\ u[2].at = b /\ u[2].kind = "throw"
    <3>1. v = <<x>> /\ w = <<y>>  BY <2>1 DEF Insert
    <3>2. v \in Seq({x, y}) /\ w \in Seq({x, y}) /\ Len(v) = 1 /\ Len(w) = 1 /\ v[1] = x /\ w[1] = y
      BY <3>1
    <3>3. DOMAIN (v \o w) = 1 .. 2 /\ (v \o w)[1] = x /\ (v \o w)[2] = y
      <4>1. PICK S, m, n : S = {x, y} /\ m = Len(v) /\ n = Len(w)  OBVIOUS
      <4>2. v \in Seq(S) /\ w \in Seq(S)  BY <4>1, <3>2
      <4>3. /\ DOMAIN (v \o w) = 1 .. m + n
            /\ \A k \in 1 .. m : (v \o w)[k] = v[k]
            /\ \A k \in 1 .. n : (v \o w)[m + k] = w[k]
        BY <4>1, <4>2, ConcatAt
      <4>4. m = 1 /\ n = 1  BY <4>1, <3>2
      <4>5. QED  BY <4>3, <4>4, <3>2
    <3>4. DOMAIN u = 1 .. 2 /\ u[1] = x /\ u[2] = y  BY <3>3, <2>1
    <3>5. x.at = b /\ y.at = b /\ y.kind = "throw"  BY <2>1
    <3>6. QED  BY <3>4, <3>5
  <2>4. \A k \in DOMAIN u : u[k].at = b  BY <2>3
  <2>5. \A j, k \in DOMAIN u : j < k => k = 2  BY <2>3
  <2>6. OrderedSeq(u)  BY <2>3, <2>4, <2>5 DEF OrderedSeq
  <2>7. QED  BY <2>2, <2>4, <2>6
<1>5. QED  BY <1>2, <1>3, <1>4

(* Lines that are passed by without being copied are private, or the blank *)
(* line that a cut without a hint takes along.                             *)
LEMMA CutKeepsSInv ==
  ASSUME SInv, IInv', status = "running", NEW b \in DOMAIN lines, FirstToken(next_pos, b),
         NEW e \in b + 1 .. Len(lines) + 1, Cut(b, e),
         lines[e - 1].token # "none",
         e > b + 1 => lines[b].token = "begin_private",
         \A j \in b + 1 .. e - 2 : lines[j].token # "end_private"
  PROVE  SInv'
<1>1. /\ lines \in Sources /\ next_pos \in 1 .. Len(lines) + 1
      /\ b \in 1 .. Len(lines) /\ Len(lines) \in Nat /\ DOMAIN lines = 1 .. Len(lines)
      /\ lines \in Seq(Line) /\ next_pos <= b /\ dst \in Seq(Entries)
  BY SourceType DEF SInv, IInv, TypeOK, FirstToken, Entries
<1>2. PICK next \in {e, e + 1} :
        /\ CutUpTo(b, e, next, lines[b].task)
        /\ next = e + 1 =>
             e \in DOMAIN lines /\ lines[e].blank /\ lines[b].no_hint /\ b - 1 \in DOMAIN lines /\ lines[b - 1].blank
  BY DEF Cut, IsBlank
<1>3. next \in 1 .. Len(lines) + 1 /\ next_pos < next /\ b < next /\ e <= next  BY <1>1, <1>2
<1>4. UNCHANGED <<lines, status>> /\ next_pos' = next  BY <1>2 DEF CutUpTo
<1>5. Emitted' = Emitted \cup next_pos .. b - 1
  BY <1>1, <1>2, CutEmits DEF SInv, IInv
<1>6. PICK c, m : c = Copy(next_pos, b - 1) /\ m = IF lines[b].no_hint THEN <<>> ELSE Marker(b)  OBVIOUS
<1>7. c \in Seq(Entries) /\ OrderedSeq(c) /\ \A k \in DOMAIN c : c[k].at \in next_pos .. b - 1
  <2>1. b - 1 \in 0 .. Len(lines) /\ next_pos <= (b - 1) + 1  BY <1>1
  <2>2. QED  BY <2>1, <1>1, <1>6, CopyLines, CopyOrdered
<1>8. m \in Seq(Entries) /\ OrderedSeq(m) /\ \A k \in DOMAIN m : m[k].at = b
  <2>1. CASE lines[b].no_hint  BY <2>1, <1>6 DEF OrderedSeq
  <2>2. CASE ~lines[b].no_hint  BY <2>2, <1>1, <1>6, MarkerLines, MarkerOrdered
  <2>3. QED  BY <2>1, <2>2
<1>9. PICK s : s = dst \o c  OBVIOUS
<1>10. dst' = s \o m  BY <1>2, <1>6, <1>9 DEF CutUpTo
<1>11. \A k \in DOMAIN dst : dst[k].at \in 1 .. Len(lines) /\ dst[k].at < next_pos
  <2>1. \A k \in DOMAIN dst : dst[k] \in Entries  BY <1>1
  <2>2. QED  BY <2>1 DEF SInv, Entries
<1>12. s \in Seq(Entries) /\ OrderedSeq(s)
  <2>1. \A j \in DOMAIN dst, k \in DOMAIN c : dst[j].at < c[k].at  BY <1>1, <1>7, <1>11
  <2>2. OrderedSeq(dst)  BY DEF SInv
  <2>3. QED  BY <2>1, <2>2, <1>1, <1>7, <1>9, ConcatAt, OrderedConcat
<1>13. \A k \in DOMAIN s : s[k].at \in 1 .. Len(lines) /\ s[k].at < b
  <2>1. /\ DOMAIN s = 1 .. Len(dst) + Len(c) /\ Len(dst) \in Nat /\ Len(c) \in Nat
        /\ DOMAIN dst = 1 .. Len(dst) /\ DOMAIN c = 1 .. Len(c)
        /\ \A k \in 1 .. Len(dst) : s[k] = dst[k]
        /\ \A k \in Len(dst) + 1 .. Len(dst) + Len(c) : k - Len(dst) \in 1 .. Len(c) /\ s[k] = c[k - Len(dst)]
    BY <1>1, <1>7, <1>9, ConcatAt
  <2> SUFFICES ASSUME NEW k \in DOMAIN s PROVE s[k].at \in 1 .. Len(lines) /\ s[k].at < b  OBVIOUS
  <2>2. CASE k \in 1 .. Len(dst)  BY <2>1, <2>2, <1>1, <1>11
  <2>3. CASE k \in Len(dst) + 1 .. Len(dst) + Len(c)
    <3>1. k - Len(dst) \in DOMAIN c /\ s[k] = c[k - Len(dst)]  BY <2>1, <2>3
    <3>2. c[k - Len(dst)].at \in next_pos .. b - 1  BY <3>1, <1>7
    <3>3. QED  BY <3>1, <3>2, <1>1
  <2>4. QED  BY <2>1, <2>2, <2>3
<1>14. OrderedSeq(dst')
  <2>1. \A j \in DOMAIN s, k \in DOMAIN m : s[j].at < m[k].at  BY <1>8, <1>13
  <2>2. QED  BY <2>1, <1>8, <1>10, <1>12, OrderedConcat
<1>15. \A k \in DOMAIN dst' : dst'[k].at < next
  <2>1. /\ DOMAIN dst' = 1 .. Len(s) + Len(m) /\ Len(s) \in Nat /\ Len(m) \in Nat
        /\ DOMAIN s = 1 .. Len(s) /\ DOMAIN m = 1 .. Len(m)
        /\ \A k \in 1 .. Len(s) : dst'[k] = s[k]
        /\ \A k \in Len(s) + 1 .. Len(s) + Len(m) : k - Len(s) \in 1 .. Len(m) /\ dst'[k] = m[k - Len(s)]
    BY <1>8, <1>10, <1>12, ConcatAt
  <2> SUFFICES ASSUME NEW k \in DOMAIN dst' PROVE dst'[k].at < next  OBVIOUS
  <2>2. CASE k \in 1 .. Len(s)
    <3>1. dst'[k].at \in 1 .. Len(lines) /\ dst'[k].at < b  BY <2>1, <2>2, <1>13
    <3>2. QED  BY <3>1, <1>1, <1>3
  <2>3. CASE k \in Len(s) + 1 .. Len(s) + Len(m)
    <3>1. dst'[k].at = b  BY <2>1, <2>3, <1>8
    <3>2. QED  BY <3>1, <1>3
  <2>4. QED  BY <2>1, <2>2, <2>3
(* The output ends with a blank line where the cut has taken one along.    *)
<1>16. next = e + 1 => dst' # <<>> /\ BlankAt(dst', Len(dst')) /\ dst'[Len(dst')].at < b /\ Len(dst') \in DOMAIN dst'
  <2> SUFFICES ASSUME next = e + 1
               PROVE  dst' # <<>> /\ BlankAt(dst', Len(dst')) /\ dst'[Len(dst')].at < b /\ Len(dst') \in DOMAIN dst'
    OBVIOUS
  <2>1. m = <<>> /\ lines[b - 1].blank /\ b - 1 \in 1 .. Len(lines)  BY <1>1, <1>2, <1>6
  <2>2. dst' = s  BY <2>1, <1>10, <1>12
  <2>3. /\ Len(s) = Len(dst) + Len(c) /\ Len(dst) \in Nat /\ Len(c) \in Nat
        /\ DOMAIN s = 1 .. Len(s)
        /\ \A k \in 1 .. Len(dst) : s[k] = dst[k]
        /\ \A k \in 1 .. Len(c) : s[Len(dst) + k] = c[k]
    BY <1>1, <1>7, <1>9, ConcatAt
  <2>4. s # <<>> /\ s[Len(s)].kind = "line" /\ lines[s[Len(s)].at].blank
    <3>1. CASE next_pos <= b - 1
      <4>1. Len(c) = b - 1 - next_pos + 1 /\ Len(c) >= 1 /\ c[b - 1 - next_pos + 1] = [kind |-> "line", at |-> b - 1]
        <5>1. b - 1 \in 0 .. Len(lines)  BY <1>1
        <5>2. QED  BY <5>1, <3>1, <1>1, <1>6, CopyOrdered
      <4>2. s[Len(s)] = c[Len(c)] /\ Len(s) >= 1  BY <2>3, <4>1
      <4>3. s[Len(s)] = [kind |-> "line", at |-> b - 1]  BY <4>1, <4>2
      <4>4. QED  BY <4>2, <4>3, <2>1
    <3>2. CASE next_pos = b
      <4>1. next_pos > 1 /\ lines[next_pos - 1].blank  BY <3>2, <2>1, <1>1
      <4>2. dst # <<>> /\ BlankAt(dst, Len(dst))  BY <4>1 DEF SInv, TailRight
      <4>3. Len(dst) >= 1  BY <4>2, <1>1
      <4>4. c = <<>>  BY <3>2, <1>1, <1>6 DEF Copy
      <4>5. Len(s) = Len(dst) /\ s[Len(s)] = dst[Len(dst)]  BY <4>3, <4>4, <2>3
      <4>6. QED  BY <4>2, <4>3, <4>5 DEF BlankAt
    <3>3. QED  BY <3>1, <3>2, <1>1
  <2>5. Len(s) \in DOMAIN s  BY <2>3, <2>4, <1>12
  <2>6. QED  BY <2>2, <2>4, <2>5, <1>4, <1>13 DEF BlankAt
<1>17. TailRight'
  <2>1. CASE next = e
    <3>1. e - 1 \in DOMAIN lines /\ lines[e - 1] \in Line  BY <1>1
    <3>2. ~lines[e - 1].blank  BY <3>1, TokenAssumption
    <3>3. QED  BY <2>1, <3>2, <1>4 DEF TailRight
  <2>2. CASE next = e + 1  BY <2>2, <1>4, <1>16 DEF TailRight, BlankAt
  <2>3. QED  BY <2>1, <2>2, <1>2
<1>18. ASSUME NEW i \in 1 .. next - 1, ~Private(i), i \notin Emitted'
       PROVE  lines[i].blank /\ \E k \in DOMAIN dst' : StandsFor(dst', k, i)
  <2>1. CASE i < next_pos
    <3>1. i \in 1 .. next_pos - 1 /\ i \notin Emitted  BY <2>1, <1>1, <1>5, <1>18
    <3>2. lines[i].blank /\ \E k \in DOMAIN dst : StandsFor(dst, k, i)
      BY <3>1, <1>18 DEF SInv, SurvivesUpTo
    <3>3. PICK k \in DOMAIN dst : StandsFor(dst, k, i)  BY <3>2
    <3>4. \A j \in DOMAIN c : c[j].at > i  BY <1>1, <1>7, <2>1
    <3>5. k \in DOMAIN s /\ StandsFor(s, k, i)  BY <3>3, <3>4, <1>1, <1>7, <1>9, StillStands
    <3>6. \A j \in DOMAIN m : m[j].at > i  BY <1>1, <1>8, <2>1
    <3>7. k \in DOMAIN dst' /\ StandsFor(dst', k, i)  BY <3>5, <3>6, <1>8, <1>10, <1>12, StillStands
    <3>8. QED  BY <3>2, <3>7
  <2>2. CASE i \in next_pos .. b - 1  BY <2>2, <1>5, <1>18
  <2>3. CASE i \in b .. e - 1
    <3>1. CASE i = b \/ i = e - 1
      <4>1. lines[b].token # "none"  BY DEF FirstToken, IsToken
      <4>2. QED  BY <3>1, <4>1, <1>18 DEF Private
    <3>2. CASE i # b /\ i # e - 1
      <4>1. e > b + 1 /\ b \in 1 .. i - 1 /\ \A j \in b + 1 .. i - 1 : j \in b + 1 .. e - 2
        BY <2>3, <3>2, <1>1
      <4>2. InBlock(b, i)  BY <4>1 DEF InBlock
      <4>3. QED  BY <4>1, <4>2, <1>18 DEF Private
    <3>3. QED  BY <3>1, <3>2
  <2>4. CASE i = e /\ next = e + 1
    <3>1. StandsFor(dst', Len(dst'), i)
      <4>1. dst'[Len(dst')].at \in Int
        <5>1. dst' \in Seq(Entries)  BY <1>8, <1>10, <1>12, ConcatAt
        <5>2. dst'[Len(dst')] \in Entries  BY <5>1, <2>4, <1>16
        <5>3. QED  BY <5>2, <1>1 DEF Entries
      <4>2. dst'[Len(dst')].at < i  BY <4>1, <2>4, <1>1, <1>16
      <4>3. QED  BY <4>2, <2>4, <1>16 DEF StandsFor
    <3>2. QED  BY <3>1, <2>4, <1>2, <1>16
  <2>5. QED  BY <2>1, <2>2, <2>3, <2>4, <1>1, <1>2, <1>3
<1>19. SurvivesUpTo(next_pos - 1)'
  BY <1>4, <1>18 DEF SurvivesUpTo, Private, InBlock, StandsFor, BlankAt
<1>20. QED  BY <1>4, <1>14, <1>15, <1>17, <1>19 DEF SInv

LEMMA FinishKeepsSInv ==
  ASSUME SInv, IInv', Finish
  PROVE  SInv'
<1>1. /\ lines \in Sources /\ next_pos \in 1 .. Len(lines) + 1
      /\ Len(lines) \in Nat /\ dst \in Seq(Entries)
  BY SourceType DEF SInv, IInv, TypeOK, Entries
<1>2. PICK c : c = Copy(next_pos, Len(lines))  OBVIOUS
<1>3. /\ c \in Seq(Entries) /\ OrderedSeq(c) /\ LinesOf(c) = next_pos .. Len(lines)
      /\ \A k \in DOMAIN c : c[k].at \in next_pos .. Len(lines)
  <2>1. Len(lines) \in 0 .. Len(lines) /\ next_pos <= Len(lines) + 1  BY <1>1
  <2>2. QED  BY <2>1, <1>1, <1>2, CopyLines, CopyOrdered
<1>4. dst' = dst \o c /\ UNCHANGED lines /\ status = "running" /\ status' = "done"
  BY <1>2 DEF Finish
<1>5. Emitted' = Emitted \cup next_pos .. Len(lines)
  <2>1. LinesOf(dst \o c) = LinesOf(dst) \cup LinesOf(c)  BY <1>1, <1>3, LinesOfConcat
  <2>2. LinesOf(dst') = LinesOf(dst) \cup next_pos .. Len(lines)  BY <2>1, <1>3, <1>4
  <2>3. QED  BY <2>2 DEF Emitted, LinesOf
<1>6. \A k \in DOMAIN dst : dst[k].at \in 1 .. Len(lines) /\ dst[k].at < next_pos
  <2>1. \A k \in DOMAIN dst : dst[k] \in Entries  BY <1>1
  <2>2. QED  BY <2>1, <1>4 DEF SInv, Entries
<1>7. OrderedSeq(dst')
  <2>1. \A j \in DOMAIN dst, k \in DOMAIN c : dst[j].at < c[k].at  BY <1>1, <1>3, <1>6
  <2>2. OrderedSeq(dst)  BY DEF SInv
  <2>3. QED  BY <2>1, <2>2, <1>1, <1>3, <1>4, OrderedConcat
<1>8. ASSUME NEW i \in 1 .. Len(lines), ~Private(i), i \notin Emitted'
      PROVE  lines[i].blank /\ \E k \in DOMAIN dst' : StandsFor(dst', k, i)
  <2>1. i \in 1 .. next_pos - 1 /\ i \notin Emitted  BY <1>1, <1>5, <1>8
  <2>2. lines[i].blank /\ \E k \in DOMAIN dst : StandsFor(dst, k, i)
    BY <2>1, <1>4, <1>8 DEF SInv, SurvivesUpTo
  <2>3. PICK k \in DOMAIN dst : StandsFor(dst, k, i)  BY <2>2
  <2>4. \A j \in DOMAIN c : c[j].at > i  BY <1>1, <1>3, <2>1
  <2>5. k \in DOMAIN dst' /\ StandsFor(dst', k, i)  BY <2>3, <2>4, <1>1, <1>3, <1>4, StillStands
  <2>6. QED  BY <2>2, <2>5
<1>9. SurvivesUpTo(Len(lines))'
  BY ZenonT(40), <1>4, <1>8 DEF SurvivesUpTo, Private, InBlock, StandsFor, BlankAt
<1>10. QED  BY <1>4, <1>7, <1>9 DEF SInv

LEMMA OthersKeepSInv ==
  ASSUME SInv, IInv', UNCHANGED <<lines, next_pos, dst>>,
         status' = status \/ status' \notin {"running", "done"}
  PROVE  SInv'
BY DEF SInv, OrderedSeq, TailRight, SurvivesUpTo, StandsFor, BlankAt, Private, InBlock, Emitted

LEMMA StepSInv == SInv /\ [Next]_vars => SInv'
<1> SUFFICES ASSUME SInv, [Next]_vars PROVE SInv'  OBVIOUS
<1>0. /\ DOMAIN lines = 1 .. Len(lines) /\ Len(lines) \in Nat /\ lines \in Seq(Line)
  BY SourceType DEF SInv, IInv, TypeOK
<1>1. IInv'  BY StepIInv DEF SInv
<1>2. CASE Finish  BY <1>1, <1>2, FinishKeepsSInv
<1>3. ASSUME NEW b \in DOMAIN lines, CutLine(b) PROVE SInv'
  <2>1. b + 1 \in b + 1 .. Len(lines) + 1 /\ (b + 1) - 1 = b  BY <1>0
  <2>2. \A j \in b + 1 .. (b + 1) - 2 : lines[j].token # "end_private"  BY <1>0
  <2>3. lines[b].token # "none" /\ status = "running" /\ FirstToken(next_pos, b) /\ Cut(b, b + 1)
    BY <1>3 DEF CutLine
  <2>4. QED  BY <2>1, <2>2, <2>3, <1>0, <1>1, CutKeepsSInv
<1>4. ASSUME NEW b \in DOMAIN lines, NEW e \in DOMAIN lines, CutBlock(b, e) PROVE SInv'
  <2>1. e + 1 \in b + 1 .. Len(lines) + 1 /\ e > b /\ (e + 1) - 1 = e /\ (e + 1) - 2 = e - 1
    BY <1>0, <1>4 DEF CutBlock, BlockStopsAt
  <2>2. \A j \in b + 1 .. (e + 1) - 2 : lines[j].token # "end_private"
    BY <1>4, <2>1 DEF CutBlock, BlockStopsAt
  <2>3. /\ lines[(e + 1) - 1].token # "none" /\ lines[b].token = "begin_private"
        /\ status = "running" /\ FirstToken(next_pos, b) /\ Cut(b, e + 1)
    BY <1>4, <2>1 DEF CutBlock
  <2>4. QED  BY <2>1, <2>2, <2>3, <1>1, CutKeepsSInv
<1>5. ASSUME NEW line, NEW error \in {"unpaired", "nested", "unclosed", "bad"}, Fail(error, line)
      PROVE  SInv'
  BY <1>1, <1>5, OthersKeepSInv DEF Fail
<1>6. CASE UNCHANGED vars  BY <1>1, <1>6, OthersKeepSInv DEF vars
<1>7. QED
  BY <1>2, <1>3, <1>4, <1>5, <1>6
     DEF Next, Step, Returned, UnpairedEnd, UnclosedBegin, BadToken, NestedBegin, BadTokenInBlock

(* Whatever the source, its public lines come out in order, and none is    *)
(* lost but a blank one that has another blank line in its place.          *)
THEOREM NothingPublicIsLost == Spec => []PublicSurvives
<1>1. Init => SInv
  <2> SUFFICES ASSUME Init PROVE SInv  OBVIOUS
  <2>1. dst = <<>> /\ next_pos = 1 /\ status = "running"  BY DEF Init
  <2>2. QED  BY <2>1, InitIInv DEF SInv, OrderedSeq, TailRight, SurvivesUpTo
<1>2. SInv => PublicSurvives
  <2> SUFFICES ASSUME SInv PROVE PublicSurvives  OBVIOUS
  <2>1. DOMAIN lines = 1 .. Len(lines)  BY SourceType DEF SInv, IInv, TypeOK
  <2>2. QED  BY <2>1 DEF SInv, PublicSurvives, Ordered, OrderedSeq, SurvivesUpTo, StandsFor, BlankAt
<1>3. QED  BY <1>1, <1>2, StepSInv, PTL DEF Spec

-----------------------------------------------------------------------------
(* The statistics.  CutLines are the private lines before n, CutFor those  *)
(* that belong to the task t.                                              *)
CutLines(n) == {i \in 1 .. n - 1 : Private(i)}

Names(t, i) ==
  \/ \E b \in 1 .. i - 1 : InBlock(b, i) /\ lines[b].task = t
  \/ lines[i].task = t /\ \A b \in 1 .. i - 1 : ~InBlock(b, i)

CutFor(t, n) == {i \in CutLines(n) : Names(t, i)}

GrowsBy(S, b, e) ==
  /\ Cardinality(S) \in Nat
  /\ Cardinality(S \cup b .. e - 1) = Cardinality(S) + (e - b)

LEMMA CountedApart ==
  ASSUME NEW n \in Nat, NEW S \in SUBSET (1 .. n - 1), NEW b \in Nat, NEW e \in Nat, n <= b, b <= e
  PROVE  GrowsBy(S, b, e)
<1>1. IsFiniteSet(1 .. n - 1)  BY FS_Interval
<1>2. IsFiniteSet(S)  BY <1>1, FS_Subset
<1>3. IsFiniteSet(b .. e - 1) /\ Cardinality(b .. e - 1) = e - b
  <2>1. PICK f : f = e - 1  OBVIOUS
  <2>2. f \in Int /\ b \in Int /\ (b > f => e - b = 0) /\ f - b + 1 = e - b  BY <2>1
  <2>3. IsFiniteSet(b .. f) /\ Cardinality(b .. f) = IF b > f THEN 0 ELSE f - b + 1
    BY <2>2, FS_Interval
  <2>4. QED  BY <2>1, <2>2, <2>3
<1>4. S \cap (b .. e - 1) = {}  OBVIOUS
<1>5. Cardinality(S) \in Nat  BY <1>2, FS_CardinalityType
<1>6. Cardinality(S \cup b .. e - 1) = Cardinality(S) + Cardinality(b .. e - 1) - Cardinality(S \cap (b .. e - 1))
  BY <1>2, <1>3, FS_Union
<1>7. Cardinality(S \cap (b .. e - 1)) = 0  BY <1>4, FS_EmptySet
<1> DEFINE u == Cardinality(S \cup b .. e - 1)
           s == Cardinality(S)
           r == Cardinality(b .. e - 1)
           q == Cardinality(S \cap (b .. e - 1))
<1>8. u = s + r - q /\ q = 0 /\ r = e - b /\ s \in Nat  BY <1>3, <1>5, <1>6, <1>7
<1> HIDE DEF u, s, r, q
<1>9. u = s + (e - b)  BY <1>8
<1>10. QED  BY <1>5, <1>9 DEF u, s, GrowsBy

(* The lines a cut removes, and whose they are.                            *)
LEMMA CutOut ==
  ASSUME IInv, IInv', NEW b \in DOMAIN lines, FirstToken(next_pos, b),
         NEW e \in b + 1 .. Len(lines) + 1, Cut(b, e),
         lines[e - 1].token # "none",
         e > b + 1 => lines[b].token = "begin_private" /\ lines[e - 1].token = "end_private",
         e = b + 1 => lines[b].token # "begin_private",
         \A j \in b + 1 .. e - 2 : lines[j].token \in {"none", "private", "public"}
  PROVE  /\ CutLines(next_pos') = CutLines(next_pos) \cup b .. e - 1
         /\ \A t : CutFor(t, next_pos') =
                     CutFor(t, next_pos) \cup IF t = lines[b].task THEN b .. e - 1 ELSE {}
<1>1. /\ next_pos \in 1 .. Len(lines) + 1 /\ b \in 1 .. Len(lines) /\ Len(lines) \in Nat
      /\ DOMAIN lines = 1 .. Len(lines) /\ lines \in Seq(Line) /\ next_pos <= b
  BY SourceType DEF IInv, TypeOK, FirstToken
<1>2. next_pos' \in {e, e + 1} /\ (next_pos' = e + 1 => e \in DOMAIN lines /\ lines[e].blank)
      /\ lines' = lines
  BY DEF Cut, CutUpTo, IsBlank
<1>3. \A j \in next_pos .. b - 1 : lines[j].token = "none"
  BY <1>1 DEF FirstToken, IsToken
<1>4. \A i \in next_pos .. b : \A c \in 1 .. i - 1 : ~InBlock(c, i)  BY NoOpenBlock
<1>5. \A i \in next_pos .. b - 1 : ~Private(i)  BY <1>1, <1>3, <1>4 DEF Private
<1>6. ASSUME NEW i \in b + 1 .. e - 1
      PROVE  InBlock(b, i) /\ \A c \in 1 .. i - 1 : InBlock(c, i) => c = b
  <2>1. lines[b].token = "begin_private"  BY <1>1
  <2>2. InBlock(b, i)
    <3>1. \A j \in b + 1 .. i - 1 : j \in b + 1 .. e - 2  BY <1>1
    <3>2. QED  BY <2>1, <3>1 DEF InBlock
  <2>3. ASSUME NEW c \in 1 .. i - 1, InBlock(c, i), c # b  PROVE FALSE
    <3>1. CASE c < b
      <4>1. InBlock(c, b) /\ c \in 1 .. b - 1  BY <3>1, <2>3, <1>1 DEF InBlock
      <4>2. QED  BY <4>1, <1>1, <1>4
    <3>2. CASE c > b
      <4>1. c \in b + 1 .. e - 2  BY <3>2, <1>1
      <4>2. QED  BY <4>1, <2>3 DEF InBlock
    <3>3. QED  BY <3>1, <3>2, <2>3, <1>1
  <2>4. QED  BY <2>2, <2>3
<1>7. ASSUME NEW i \in b .. e - 1
      PROVE  Private(i) /\ \A t : Names(t, i) <=> t = lines[b].task
  <2>1. CASE i = b
    <3>1. lines[b].token # "none"  BY DEF FirstToken, IsToken
    <3>2. \A c \in 1 .. b - 1 : ~InBlock(c, b)  BY <1>1, <1>4
    <3>3. QED  BY <2>1, <3>1, <3>2 DEF Private, Names
  <2>2. CASE i # b
    <3>1. i \in b + 1 .. e - 1 /\ b \in 1 .. i - 1  BY <2>2, <1>1
    <3>2. InBlock(b, i) /\ \A c \in 1 .. i - 1 : InBlock(c, i) => c = b  BY <3>1, <1>6
    <3>3. QED  BY <3>1, <3>2 DEF Private, Names
  <2>3. QED  BY <2>1, <2>2
<1>8. next_pos' = e + 1 => ~Private(e)
  <2> SUFFICES ASSUME next_pos' = e + 1, Private(e)  PROVE FALSE  OBVIOUS
  <2>1. e \in DOMAIN lines /\ lines[e].blank /\ lines[e] \in Line  BY <1>1, <1>2
  <2>2. lines[e].token = "none"  BY <2>1, TokenAssumption
  <2>3. PICK c \in 1 .. e - 1 : InBlock(c, e)  BY <2>2 DEF Private
  <2>4. InBlock(c, next_pos')
    <3>1. \A j \in c + 1 .. next_pos' - 1 : j \in c + 1 .. e - 1 \/ j = e  BY <2>1, <1>1
    <3>2. QED  BY <3>1, <2>2, <2>3 DEF InBlock
  <2>5. c \in 1 .. next_pos' - 1  BY <2>1, <1>1
  <2>6. QED  BY <2>4, <2>5, <1>2 DEF IInv, PassedRight, InBlock
<1>9. \A i \in 1 .. next_pos' - 1 :
        i \in 1 .. next_pos - 1 \/ i \in next_pos .. b - 1 \/ i \in b .. e - 1 \/ (i = e /\ next_pos' = e + 1)
  BY <1>1, <1>2
<1>10. (1 .. next_pos - 1) \cup (b .. e - 1) \subseteq 1 .. next_pos' - 1
  <2>1. PICK n : n = next_pos'  OBVIOUS
  <2>2. n \in Int /\ e <= n /\ n <= e + 1 /\ next_pos \in Int  BY <2>1, <1>1, <1>2
  <2>3. (1 .. next_pos - 1) \cup (b .. e - 1) \subseteq 1 .. n - 1  BY <2>2, <1>1
  <2>4. QED  BY <2>1, <2>3
<1>11. CutLines(next_pos') = CutLines(next_pos) \cup b .. e - 1
  BY <1>5, <1>7, <1>8, <1>9, <1>10 DEF CutLines
<1>12. ASSUME NEW t
       PROVE  CutFor(t, next_pos') = CutFor(t, next_pos) \cup IF t = lines[b].task THEN b .. e - 1 ELSE {}
  BY <1>7, <1>11 DEF CutFor
<1>13. QED  BY <1>11, <1>12
(* The search of WFMin, for sets of numbers: there is a first line with    *)
(* any property that some line has.                                        *)
LEMMA Least == ASSUME NEW S \in SUBSET Nat, S # {} PROVE \E n \in S : \A m \in S : n <= m
<1>1. PICK R : R = OpToRel(<, Nat)  OBVIOUS
<1>2. IsWellFoundedOn(R, Nat)  BY <1>1, NatLessThanWellFounded
<1>3. \E n \in S : \A m \in S : ~(<<m, n>> \in R)  BY <1>2, WFMin
<1>4. R = {p \in Nat \X Nat : p[1] < p[2]}  BY <1>1 DEF OpToRel
<1>5. \A m, n \in Nat : <<m, n>> \in R <=> m < n  BY <1>4
<1>6. PICK n \in S : \A m \in S : ~(<<m, n>> \in R)  BY <1>3
<1>7. ASSUME NEW m \in S PROVE n <= m
  <2>1. m \in Nat /\ n \in Nat /\ ~(m < n)  BY <1>5, <1>6
  <2>2. QED  BY <2>1
<1>8. QED  BY <1>7

Counted ==
  /\ removed_lines = Cardinality(CutLines(next_pos))
  /\ \A t \in Task : removed_by_task[t] = Cardinality(CutFor(t, next_pos))

(* The bounds of the blocks among the first n - 1 lines are paired.        *)
Bound(i) == lines[i].token \in {"begin_private", "end_private"}

Adjacent(b, e) == b < e /\ \A j \in b + 1 .. e - 1 : ~Bound(j)

PairedIn(S) ==
  \A i \in S :
    /\ lines[i].token # "bad"
    /\ lines[i].token = "begin_private" =>
         \E e \in S : Adjacent(i, e) /\ lines[e].token = "end_private"
    /\ lines[i].token = "end_private" =>
         \E b \in S : Adjacent(b, i) /\ lines[b].token = "begin_private"

(* The inductive invariant of the report.                                  *)
RInv ==
  /\ IInv /\ Counted /\ RefusesTheMalformed
  /\ PairedIn(1 .. next_pos - 1)

LEMMA CutCounts ==
  ASSUME RInv, IInv', NEW b \in DOMAIN lines, FirstToken(next_pos, b),
         NEW e \in b + 1 .. Len(lines) + 1, Cut(b, e),
         lines[e - 1].token # "none",
         e > b + 1 => lines[b].token = "begin_private" /\ lines[e - 1].token = "end_private",
         e = b + 1 => lines[b].token # "begin_private",
         \A j \in b + 1 .. e - 2 : lines[j].token \in {"none", "private", "public"}
  PROVE  Counted'
<1>1. /\ next_pos \in 1 .. Len(lines) + 1 /\ b \in 1 .. Len(lines) /\ Len(lines) \in Nat
      /\ next_pos <= b
  BY SourceType DEF RInv, IInv, TypeOK, FirstToken
<1>2. /\ CutLines(next_pos') = CutLines(next_pos) \cup b .. e - 1
      /\ \A t : CutFor(t, next_pos') =
                  CutFor(t, next_pos) \cup IF t = lines[b].task THEN b .. e - 1 ELSE {}
  BY CutOut DEF RInv
<1>3. /\ removed_lines' = removed_lines + (e - b) /\ lines' = lines
      /\ removed_by_task' =
           [t \in Task |-> removed_by_task[t] + IF t = lines[b].task THEN e - b ELSE 0]
  BY DEF Cut, CutUpTo
<1>4. ASSUME NEW S \in SUBSET (1 .. next_pos - 1)
      PROVE  GrowsBy(S, b, e)
  <2>1. PICK n : n = next_pos  OBVIOUS
  <2>2. n \in Nat /\ b \in Nat /\ e \in Nat /\ b <= e /\ n <= b  BY <1>1, <2>1
  <2>3. S \in SUBSET (1 .. n - 1)  BY <2>1
  <2>4. QED  BY <2>2, <2>3, CountedApart
<1>5. removed_lines' = Cardinality(CutLines(next_pos'))
  <2>1. CutLines(next_pos) \in SUBSET (1 .. next_pos - 1)  BY DEF CutLines
  <2>2. Cardinality(CutLines(next_pos) \cup b .. e - 1) = Cardinality(CutLines(next_pos)) + (e - b)
    BY <2>1, <1>4 DEF GrowsBy
  <2>3. QED  BY <2>2, <1>2, <1>3 DEF RInv, Counted
<1>6. ASSUME NEW t \in Task  PROVE removed_by_task'[t] = Cardinality(CutFor(t, next_pos'))
  <2>1. CutFor(t, next_pos) \in SUBSET (1 .. next_pos - 1)  BY DEF CutFor, CutLines
  <2>2. removed_by_task[t] = Cardinality(CutFor(t, next_pos))  BY DEF RInv, Counted
  <2>3. CASE t = lines[b].task
    <3>1. CutFor(t, next_pos') = CutFor(t, next_pos) \cup b .. e - 1  BY <1>2, <2>3
    <3>2. removed_by_task'[t] = removed_by_task[t] + (e - b)  BY <1>3, <2>3
    <3>3. GrowsBy(CutFor(t, next_pos), b, e)  BY <2>1, <1>4
    <3>4. QED  BY <3>1, <3>2, <3>3, <2>2 DEF GrowsBy
  <2>4. CASE t # lines[b].task
    <3>1. CutFor(t, next_pos') = CutFor(t, next_pos)  BY <1>2, <2>4
    <3>2. removed_by_task'[t] = removed_by_task[t] + 0  BY <1>3, <2>4
    <3>3. removed_by_task[t] \in Nat  BY <2>1, <2>2, <1>4 DEF GrowsBy
    <3>4. QED  BY <3>1, <3>2, <3>3, <2>2
  <2>5. QED  BY <2>3, <2>4
<1>7. \A i : (CutLines(i))' = CutLines(i) /\ \A t : (CutFor(t, i))' = CutFor(t, i)
  BY <1>3 DEF CutLines, CutFor, Names, Private, InBlock
<1>8. QED  BY <1>5, <1>6, <1>3 DEF Counted, CutLines, CutFor, Names, Private, InBlock

LEMMA CutPairs ==
  ASSUME RInv, NEW b \in DOMAIN lines, FirstToken(next_pos, b),
         NEW e \in b + 1 .. Len(lines) + 1, Cut(b, e),
         e > b + 1 => lines[b].token = "begin_private" /\ lines[e - 1].token = "end_private",
         e = b + 1 => lines[b].token \in {"private", "public"},
         \A j \in b + 1 .. e - 2 : lines[j].token \in {"none", "private", "public"}
  PROVE  PairedIn(1 .. next_pos - 1)'
<1>1. /\ next_pos \in 1 .. Len(lines) + 1 /\ b \in 1 .. Len(lines) /\ Len(lines) \in Nat
      /\ next_pos <= b /\ lines \in Seq(Line) /\ DOMAIN lines = 1 .. Len(lines)
  BY SourceType DEF RInv, IInv, TypeOK, FirstToken
<1>2. PICK n : n = next_pos'  OBVIOUS
<1>3. n \in {e, e + 1} /\ (n = e + 1 => e \in DOMAIN lines /\ lines[e].blank) /\ lines' = lines
  BY <1>2 DEF Cut, CutUpTo, IsBlank
<1>4. \A j \in next_pos .. b - 1 : lines[j].token = "none"
  BY <1>1 DEF FirstToken, IsToken
<1>5. n = e + 1 => lines[e].token = "none"
  <2> SUFFICES ASSUME n = e + 1 PROVE lines[e].token = "none"  OBVIOUS
  <2>1. e \in DOMAIN lines /\ lines[e].blank /\ lines[e] \in Line  BY <1>1, <1>3
  <2>2. QED  BY <2>1, TokenAssumption
<1>6. ASSUME NEW i \in 1 .. n - 1
      PROVE  i \in 1 .. next_pos - 1 \/ lines[i].token \in {"none", "private", "public"}
             \/ (e > b + 1 /\ (i = b \/ i = e - 1))
  <2>1. i \in 1 .. next_pos - 1 \/ i \in next_pos .. b - 1 \/ i \in b + 1 .. e - 2
        \/ i = b \/ i = e - 1 \/ (i = e /\ n = e + 1)
    BY SMTT(30), <1>1, <1>3
  <2>2. QED  BY <2>1, <1>1, <1>4, <1>5
<1>7. 1 .. next_pos - 1 \subseteq 1 .. n - 1 /\ b \in 1 .. n - 1 /\ e - 1 \in 1 .. n - 1
  BY <1>1, <1>3
<1>8. e > b + 1 => Adjacent(b, e - 1)
  BY <1>1 DEF Adjacent, Bound
<1>9. PairedIn(1 .. n - 1)
  <2> SUFFICES ASSUME NEW i \in 1 .. n - 1
               PROVE  /\ lines[i].token # "bad"
                      /\ lines[i].token = "begin_private" =>
                           \E f \in 1 .. n - 1 : Adjacent(i, f) /\ lines[f].token = "end_private"
                      /\ lines[i].token = "end_private" =>
                           \E a \in 1 .. n - 1 : Adjacent(a, i) /\ lines[a].token = "begin_private"
    BY DEF PairedIn
  <2>1. CASE i \in 1 .. next_pos - 1  BY <2>1, <1>7 DEF RInv, PairedIn
  <2>2. CASE lines[i].token \in {"none", "private", "public"}  BY <2>2
  <2>3. CASE e > b + 1 /\ (i = b \/ i = e - 1)
    <3>1. Adjacent(b, e - 1) /\ lines[b].token = "begin_private" /\ lines[e - 1].token = "end_private"
      BY <2>3, <1>8
    <3>2. CASE i = b  BY <3>1, <3>2, <1>7
    <3>3. CASE i = e - 1  BY <3>1, <3>3, <1>7
    <3>4. QED  BY <3>2, <3>3, <2>3
  <2>4. QED  BY <2>1, <2>2, <2>3, <1>6
<1>10. QED  BY <1>2, <1>3, <1>9 DEF PairedIn, Adjacent, Bound

LEMMA WholePaired == WellFormed <=> PairedIn(DOMAIN lines)
BY DEF WellFormed, PairedIn, Adjacent, Bound

(* When no command is left, the whole source is paired.                    *)
LEMMA NothingLeft ==
  ASSUME RInv, NoToken(next_pos)
  PROVE  WellFormed
<1>1. /\ next_pos \in 1 .. Len(lines) + 1 /\ Len(lines) \in Nat /\ DOMAIN lines = 1 .. Len(lines)
  BY SourceType DEF RInv, IInv, TypeOK
<1>2. \A i \in DOMAIN lines : i \in 1 .. next_pos - 1 \/ lines[i].token = "none"
  BY <1>1 DEF NoToken, IsToken
<1>3. 1 .. next_pos - 1 \subseteq DOMAIN lines  BY <1>1
<1>4. PairedIn(1 .. next_pos - 1)  BY DEF RInv
<1>5. PairedIn(DOMAIN lines)  BY <1>2, <1>3, <1>4 DEF PairedIn
<1>6. QED  BY <1>5, WholePaired

LEMMA EndAlone ==
  ASSUME RInv, NEW b \in DOMAIN lines, FirstToken(next_pos, b), lines[b].token = "end_private"
  PROVE  ~WellFormed /\ \A c \in 1 .. b - 1 : ~InBlock(c, b)
<1>1. /\ next_pos \in 1 .. Len(lines) + 1 /\ Len(lines) \in Nat /\ DOMAIN lines = 1 .. Len(lines)
      /\ next_pos <= b
  BY SourceType DEF RInv, IInv, TypeOK, FirstToken
<1>2. \A c \in 1 .. b - 1 : ~InBlock(c, b)
  <2>1. b \in next_pos .. b  BY <1>1
  <2>2. QED  BY <2>1, NoOpenBlock DEF RInv
<1>3. ASSUME WellFormed PROVE FALSE
  <2>1. PICK c \in DOMAIN lines : Adjacent(c, b) /\ lines[c].token = "begin_private"
    BY <1>3, WholePaired DEF PairedIn
  <2>2. c \in 1 .. b - 1 /\ InBlock(c, b)  BY <1>1, <2>1 DEF Adjacent, Bound, InBlock
  <2>3. QED  BY <2>2, <1>2
<1>4. QED  BY <1>2, <1>3

LEMMA BeginNested ==
  ASSUME lines \in Sources, NEW b \in DOMAIN lines, NEW e \in DOMAIN lines,
         lines[b].token = "begin_private", BlockStopsAt(b, e), lines[e].token # "end_private"
  PROVE  ~WellFormed /\ b \in 1 .. e - 1 /\ InBlock(b, e)
<1>1. Len(lines) \in Nat /\ DOMAIN lines = 1 .. Len(lines)  BY SourceType
<1>2. b \in 1 .. e - 1 /\ InBlock(b, e)  BY <1>1 DEF BlockStopsAt, InBlock
<1>3. ASSUME WellFormed PROVE FALSE
  <2>1. PICK f \in DOMAIN lines : Adjacent(b, f) /\ lines[f].token = "end_private"
    BY <1>3, WholePaired DEF PairedIn
  <2>2. lines[e].token # "bad"  BY <1>3, WholePaired DEF PairedIn
  <2>3. CASE f < e
    <3>1. f \in b + 1 .. e - 1  BY <2>1, <2>3, <1>1 DEF Adjacent
    <3>2. QED  BY <3>1, <2>1 DEF BlockStopsAt
  <2>4. CASE f > e
    <3>1. e \in b + 1 .. f - 1  BY <2>4, <1>1, <1>2
    <3>2. lines[e].token = "begin_private"  BY <2>2 DEF BlockStopsAt
    <3>3. QED  BY <3>1, <3>2, <2>1 DEF Adjacent, Bound
  <2>5. QED  BY <2>1, <2>3, <2>4, <1>1
<1>4. QED  BY <1>2, <1>3

LEMMA BeginUnclosed ==
  ASSUME lines \in Sources, NEW b \in DOMAIN lines, lines[b].token = "begin_private",
         \A e \in b + 1 .. Len(lines) : ~BlockStopsAt(b, e)
  PROVE  ~WellFormed /\ InBlock(b, Len(lines) + 1)
<1>1. Len(lines) \in Nat /\ DOMAIN lines = 1 .. Len(lines) /\ lines \in Seq(Line)  BY SourceType
<1> DEFINE Stops == {e \in b + 1 .. Len(lines) :
                       lines[e].token \in {"begin_private", "end_private", "bad"}}
<1>2. Stops = {}
  <2> SUFFICES ASSUME Stops # {} PROVE FALSE  OBVIOUS
  <2>1. Stops \in SUBSET Nat  BY <1>1
  <2>2. PICK e \in Stops : \A m \in Stops : e <= m  BY <2>1, Least
  <2>3. \A j \in b + 1 .. e - 1 : j \in b + 1 .. Len(lines) /\ j \notin Stops
    <3> SUFFICES ASSUME NEW j \in b + 1 .. e - 1 PROVE j \in b + 1 .. Len(lines) /\ j \notin Stops
      OBVIOUS
    <3>1. j \in b + 1 .. Len(lines) /\ j < e /\ e \in Nat /\ j \in Nat  BY <1>1
    <3>2. ASSUME j \in Stops PROVE FALSE
      <4>1. e <= j  BY <2>2, <3>2
      <4>2. QED  BY <4>1, <3>1
    <3>3. QED  BY <3>1, <3>2
  <2>4. \A j \in b + 1 .. e - 1 : lines[j].token \in {"none", "private", "public"}
    <3> SUFFICES ASSUME NEW j \in b + 1 .. e - 1
                 PROVE  lines[j].token \in {"none", "private", "public"}
      OBVIOUS
    <3>1. j \in 1 .. Len(lines) /\ j \notin Stops /\ j \in b + 1 .. Len(lines)  BY <1>1, <2>3
    <3>2. lines[j] \in Line  BY <3>1, <1>1
    <3>3. QED  BY <3>1, <3>2, LineAssumption
  <2>5. BlockStopsAt(b, e)  BY <2>2, <2>4 DEF BlockStopsAt
  <2>6. QED  BY <2>2, <2>5
<1>3. InBlock(b, Len(lines) + 1)  BY <1>1, <1>2 DEF InBlock
<1>4. ASSUME WellFormed PROVE FALSE
  <2>1. PICK f \in DOMAIN lines : Adjacent(b, f) /\ lines[f].token = "end_private"
    BY <1>4, WholePaired DEF PairedIn
  <2>2. f \in Stops  BY <2>1, <1>1 DEF Adjacent
  <2>3. QED  BY <2>2, <1>2
<1>5. QED  BY <1>3, <1>4

(* What the report says of the lines passed depends on these variables.    *)
LEMMA PastKept ==
  ASSUME Counted, PairedIn(1 .. next_pos - 1), lines' = lines, next_pos' = next_pos,
         removed_lines' = removed_lines, removed_by_task' = removed_by_task
  PROVE  Counted' /\ PairedIn(1 .. next_pos - 1)'
<1>1. \A b, i : InBlock(b, i)' <=> InBlock(b, i)  BY DEF InBlock
<1>2. \A i : Private(i)' <=> Private(i)  BY <1>1 DEF Private, InBlock
<1>3. \A t, i : Names(t, i)' <=> Names(t, i)  BY <1>1 DEF Names, InBlock
<1>4. CutLines(next_pos)' = CutLines(next_pos)  BY <1>2 DEF CutLines
<1>5. \A t : CutFor(t, next_pos)' = CutFor(t, next_pos)  BY <1>2, <1>3 DEF CutFor, CutLines
<1>6. Counted'  BY <1>4, <1>5 DEF Counted
<1>7. PairedIn(1 .. next_pos - 1)'  BY DEF PairedIn, Adjacent, Bound
<1>8. QED  BY <1>6, <1>7

(* An error leaves all but the status and the line as they were.           *)
LEMMA FailKeepsRInv ==
  ASSUME RInv, IInv', ~WellFormed,
         NEW error \in {"unpaired", "nested", "unclosed", "bad"}, NEW line, Fail(error, line),
         error = "unpaired" =>
           lines[line].token = "end_private" /\ \A b \in 1 .. line - 1 : ~InBlock(b, line),
         error = "nested" =>
           lines[line].token = "begin_private" /\ \E b \in 1 .. line - 1 : InBlock(b, line),
         error = "unclosed" => InBlock(line, Len(lines) + 1)
  PROVE  RInv'
<1>1. /\ status' = error /\ err_line' = line /\ lines' = lines /\ next_pos' = next_pos
      /\ removed_lines' = removed_lines /\ removed_by_task' = removed_by_task
  BY DEF Fail
<1>2. Counted' /\ PairedIn(1 .. next_pos - 1)'
  BY <1>1, PastKept DEF RInv
<1>3. WellFormed' <=> WellFormed  BY <1>1 DEF WellFormed
<1>4. RefusesTheMalformed'  BY <1>1, <1>3 DEF RefusesTheMalformed, InBlock
<1>5. QED  BY <1>2, <1>4 DEF RInv

LEMMA CutKeepsRInv ==
  ASSUME RInv, IInv', status = "running", NEW b \in DOMAIN lines, FirstToken(next_pos, b),
         NEW e \in b + 1 .. Len(lines) + 1, Cut(b, e),
         lines[e - 1].token # "none",
         e > b + 1 => lines[b].token = "begin_private" /\ lines[e - 1].token = "end_private",
         e = b + 1 => lines[b].token \in {"private", "public"},
         \A j \in b + 1 .. e - 2 : lines[j].token \in {"none", "private", "public"}
  PROVE  RInv'
<1>1. Counted'  BY CutCounts
<1>2. PairedIn(1 .. next_pos - 1)'  BY CutPairs
<1>3. status' = "running"  BY DEF Cut, CutUpTo
<1>4. RefusesTheMalformed'  BY <1>3 DEF RefusesTheMalformed
<1>5. QED  BY <1>1, <1>2, <1>4 DEF RInv

LEMMA InitRInv == Init => RInv
<1> SUFFICES ASSUME Init PROVE RInv  OBVIOUS
<1>1. 1 .. next_pos - 1 = {}  BY DEF Init
<1>2. CutLines(next_pos) = {} /\ \A t : CutFor(t, next_pos) = {}  BY <1>1 DEF CutLines, CutFor
<1>3. Counted  BY <1>2, FS_EmptySet DEF Init, Counted
<1>4. PairedIn(1 .. next_pos - 1)  BY <1>1 DEF PairedIn
<1>5. RefusesTheMalformed  BY DEF Init, RefusesTheMalformed
<1>6. QED  BY <1>3, <1>4, <1>5, InitIInv DEF RInv

LEMMA StepRInv == RInv /\ [Next]_vars => RInv'
<1> SUFFICES ASSUME RInv, [Next]_vars PROVE RInv'  OBVIOUS
<1>0. /\ DOMAIN lines = 1 .. Len(lines) /\ Len(lines) \in Nat /\ lines \in Sources
  BY SourceType DEF RInv, IInv, TypeOK
<1>1. IInv'  BY StepIInv DEF RInv
<1>2. CASE Finish
  <2>1. /\ status' = "done" /\ lines' = lines /\ next_pos' = next_pos
        /\ removed_lines' = removed_lines /\ removed_by_task' = removed_by_task
    BY <1>2 DEF Finish
  <2>2. WellFormed  BY <1>2, NothingLeft DEF Finish
  <2>3. Counted' /\ PairedIn(1 .. next_pos - 1)'
    BY <2>1, PastKept DEF RInv
  <2>4. RefusesTheMalformed'  BY <2>1, <2>2 DEF RefusesTheMalformed, WellFormed
  <2>5. QED  BY <1>1, <2>3, <2>4 DEF RInv
<1>3. ASSUME NEW b \in DOMAIN lines, CutLine(b) PROVE RInv'
  <2>1. b + 1 \in b + 1 .. Len(lines) + 1 /\ (b + 1) - 1 = b /\ ~(b + 1 > b + 1)  BY <1>0
  <2>2. \A j \in b + 1 .. (b + 1) - 2 : lines[j].token \in {"none", "private", "public"}  BY <1>0
  <2>3. /\ lines[b].token \in {"private", "public"} /\ status = "running"
        /\ FirstToken(next_pos, b) /\ Cut(b, b + 1)
    BY <1>3 DEF CutLine
  <2>4. QED  BY <2>1, <2>2, <2>3, <1>1, CutKeepsRInv
<1>4. ASSUME NEW b \in DOMAIN lines, NEW e \in DOMAIN lines, CutBlock(b, e) PROVE RInv'
  <2>1. /\ e + 1 \in b + 1 .. Len(lines) + 1 /\ e > b /\ (e + 1) - 1 = e /\ (e + 1) - 2 = e - 1
        /\ ~(e + 1 = b + 1)
    BY <1>0, <1>4 DEF CutBlock, BlockStopsAt
  <2>2. \A j \in b + 1 .. (e + 1) - 2 : lines[j].token \in {"none", "private", "public"}
    BY <1>4, <2>1 DEF CutBlock, BlockStopsAt
  <2>3. /\ lines[(e + 1) - 1].token = "end_private" /\ lines[b].token = "begin_private"
        /\ status = "running" /\ FirstToken(next_pos, b) /\ Cut(b, e + 1)
    BY <1>4, <2>1 DEF CutBlock
  <2>4. QED  BY <2>1, <2>2, <2>3, <1>1, CutKeepsRInv
<1>5. ASSUME NEW b \in DOMAIN lines, UnpairedEnd(b) PROVE RInv'
  <2>1. ~WellFormed /\ \A c \in 1 .. b - 1 : ~InBlock(c, b)  BY <1>5, EndAlone DEF UnpairedEnd
  <2>2. lines[b].token = "end_private" /\ Fail("unpaired", b)  BY <1>5 DEF UnpairedEnd
  <2>3. QED  BY <2>1, <2>2, <1>1, FailKeepsRInv
<1>6. ASSUME NEW b \in DOMAIN lines, UnclosedBegin(b) PROVE RInv'
  <2>1. ~WellFormed /\ InBlock(b, Len(lines) + 1)  BY <1>0, <1>6, BeginUnclosed DEF UnclosedBegin
  <2>2. Fail("unclosed", b)  BY <1>6 DEF UnclosedBegin
  <2>3. QED  BY <2>1, <2>2, <1>1, FailKeepsRInv
<1>7. ASSUME NEW b \in DOMAIN lines, BadToken(b) PROVE RInv'
  <2>1. ~WellFormed  BY <1>7 DEF BadToken, WellFormed
  <2>2. Fail("bad", b - next_pos + 1)  BY <1>7 DEF BadToken
  <2>3. QED  BY <2>1, <2>2, <1>1, FailKeepsRInv
<1>8. ASSUME NEW b \in DOMAIN lines, NEW e \in DOMAIN lines, NestedBegin(b, e) PROVE RInv'
  <2>1. lines[e].token = "begin_private" /\ Fail("nested", e)  BY <1>8 DEF NestedBegin
  <2>2. ~WellFormed /\ b \in 1 .. e - 1 /\ InBlock(b, e)
    BY <2>1, <1>0, <1>8, BeginNested DEF NestedBegin
  <2>3. QED  BY <2>1, <2>2, <1>1, FailKeepsRInv
<1>9. ASSUME NEW b \in DOMAIN lines, NEW e \in DOMAIN lines, NEW s, BadTokenInBlock(b, e, s)
      PROVE  RInv'
  <2>1. lines[e].token = "bad" /\ Fail("bad", e - s + 1)  BY <1>9 DEF BadTokenInBlock
  <2>2. ~WellFormed  BY <2>1 DEF WellFormed
  <2>3. QED  BY <2>1, <2>2, <1>1, FailKeepsRInv
<1>10. CASE UNCHANGED vars
  <2>1. /\ status' = status /\ lines' = lines /\ next_pos' = next_pos /\ err_line' = err_line
        /\ removed_lines' = removed_lines /\ removed_by_task' = removed_by_task
    BY <1>10 DEF vars
  <2>2. Counted' /\ PairedIn(1 .. next_pos - 1)'
    BY <2>1, PastKept DEF RInv
  <2>3. RefusesTheMalformed'  BY <2>1 DEF RInv, RefusesTheMalformed, WellFormed, InBlock
  <2>4. QED  BY <1>1, <2>2, <2>3 DEF RInv
<1>11. QED
  BY <1>2, <1>3, <1>4, <1>5, <1>6, <1>7, <1>8, <1>9, <1>10 DEF Next, Step, Returned

(* Whatever the source, the numbers of private lines are right for every   *)
(* task, and it is refused exactly when its commands are malformed.        *)
THEOREM ReportCorrect == Spec => []ReportRight
<1>1. RInv => ReportRight
  BY DEF RInv, ReportRight, StatisticsRight, Counted, CutLines, CutFor, Names
<1>2. QED  BY <1>1, InitRInv, StepRInv, PTL DEF Spec
=============================================================================
