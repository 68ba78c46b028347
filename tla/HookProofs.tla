----------------------------- MODULE HookProofs -----------------------------
(***************************************************************************)
(* Proofs about Hook, in this order: the splitter, what a rule becomes in  *)
(* the loader, the texts the hook writes, the steps of a loader, the call; *)
(* then the theorems, each after what only it needs.                       *)
(***************************************************************************)
EXTENDS Hook, FiniteSetTheorems, SequenceTheorems, TLAPS

\* The folds that the operators of the model are.
SplitFold == INSTANCE Folding WITH Op <- SplitAt
JoinFold == INSTANCE Folding WITH Op <- Join
MergeFold == INSTANCE Folding WITH Op <- MergeParent
ArgvFold == INSTANCE Folding WITH Op <- TakeByte
QuoteFold == INSTANCE Folding WITH Op <- QuoteByte
RewriteFold == INSTANCE Folding WITH Op <- RewriteArg
FlagFold == INSTANCE Folding WITH Op <- AddFlag
ReadFold == INSTANCE Folding WITH Op <- ReadAt

-----------------------------------------------------------------------------
(***************************************************************************)
(* The splitter: whatever the command, its segments and what stands        *)
(* between them are the command.                                           *)
(***************************************************************************)
Positions(n) == [i \in 1 .. n |-> i]

LEMMA PositionsAppend ==
    ASSUME NEW n \in Nat
    PROVE  /\ Positions(n) \in Seq(Nat)
           /\ Positions(n + 1) = Append(Positions(n), n + 1)
<1>1. Positions(n) \in Seq(Nat) /\ Len(Positions(n)) = n
  BY DEF Positions
<1>2. /\ Positions(n + 1) \in Seq(Nat) /\ Len(Positions(n + 1)) = n + 1
      /\ \A i \in 1 .. n + 1: Positions(n + 1)[i] = i
  BY DEF Positions
<1>3. \A i \in 1 .. n: Positions(n)[i] = i
  BY DEF Positions
<1>4. /\ Append(Positions(n), n + 1) \in Seq(Nat)
      /\ Len(Append(Positions(n), n + 1)) = n + 1
      /\ \A i \in 1 .. n + 1: Append(Positions(n), n + 1)[i] = i
  BY <1>1, <1>3
<1> HIDE DEF Positions
<1>5. QED
  BY <1>1, <1>2, <1>4, SeqEqual

LEMMA NoPositions == Positions(0) = <<>>
BY DEF Positions

\* The largest of some positions, 0 when there are none.
LEMMA MaxOrZero ==
    ASSUME NEW n \in Nat, NEW S \in SUBSET (1 .. n)
    PROVE  Max({0} \cup S) \in 0 .. n
<1>1. \E x \in {0} \cup S: \A y \in {0} \cup S: x >= y
  <2>1. CASE S = {}
    BY <2>1
  <2>2. CASE S # {}
    <3>1. PICK x \in S: \A y \in S: x >= y
      BY <2>2, SplitFold!MaxOfSegment
    <3>2. x \in {0} \cup S /\ \A y \in {0} \cup S: x >= y
      BY <3>1
    <3>3. QED
      BY <3>2
  <2>3. QED
    BY <2>1, <2>2
<1> DEFINE Z == {0} \cup S
<1>2. Z \subseteq 0 .. n
  OBVIOUS
<1>3. \E x \in Z: \A y \in Z: x >= y
  BY <1>1
<1> HIDE DEF Z
<1>4. Max(Z) \in Z
  BY <1>3 DEF Max
<1>5. QED
  BY <1>2, <1>4 DEF Z

AfterBlanks(cmd, i) == FirstFrom(cmd, i, LAMBDA b: b \notin Blank)

LEMMA AfterBlanksType ==
    ASSUME NEW P, NEW cmd \in Seq(P), NEW i \in 1 .. Len(cmd) + 1
    PROVE  AfterBlanks(cmd, i) \in i .. Len(cmd) + 1
<1> DEFINE end == Max({i, Len(cmd) + 1})
           S == {j \in i .. Len(cmd): cmd[j] \notin Blank} \cup {end}
<1>1. Len(cmd) \in Nat
  OBVIOUS
<1>2. end = Len(cmd) + 1
  <2>1. \E x \in {i, Len(cmd) + 1}: \A y \in {i, Len(cmd) + 1}: x >= y
    BY <1>1
  <2>2. end \in {i, Len(cmd) + 1} /\ \A y \in {i, Len(cmd) + 1}: end >= y
    BY <2>1 DEF Max
  <2> HIDE DEF end
  <2>3. QED
    BY <1>1, <2>2
<1>4. AfterBlanks(cmd, i) = Min(S)
  BY DEF AfterBlanks, FirstFrom
<1> HIDE DEF end
<1>3. S \in SUBSET Nat /\ S # {} /\ S \subseteq i .. Len(cmd) + 1
  BY <1>1, <1>2
<1> HIDE DEF S
<1>5. SplitFold!Min(S) \in S
  BY <1>3, SplitFold!MinOfNaturals
<1>6. SplitFold!Min(S) = Min(S)
  BY DEF SplitFold!Min, Min
<1>7. QED
  BY <1>3, <1>4, <1>5, <1>6

Operators == {<<>>, <<"&", "&">>, <<"|", "|">>, <<";">>}

LEMMA OperatorType ==
    ASSUME NEW P, NEW cmd \in Seq(P), NEW i \in 1 .. Len(cmd)
    PROVE  /\ OperatorAt(cmd, i) \in Operators
           /\ Len(OperatorAt(cmd, i)) \in 0 .. 2
           /\ i + Len(OperatorAt(cmd, i)) \in i .. Len(cmd) + 1
<1> DEFINE op == OperatorAt(cmd, i)
           two == <<cmd[i], Piece(cmd, i + 1)>>
<1>1. \/ op = <<>> \/ op = <<";">>
      \/ op = two /\ two \in {<<"&", "&">>, <<"|", "|">>}
  BY DEF OperatorAt
<1>2. ASSUME op = two, two \in {<<"&", "&">>, <<"|", "|">>}
      PROVE  Len(op) = 2 /\ i + 1 <= Len(cmd) /\ op \in Operators
  <2>1. Piece(cmd, i + 1) \in {"&", "|"}
    BY <1>2
  <2>2. i + 1 \in DOMAIN cmd
    BY <2>1 DEF Piece
  <2>3. Len(two) = 2
    OBVIOUS
  <2>4. QED
    BY <1>2, <2>2, <2>3 DEF Operators
<1>3. /\ Len(<<>>) = 0 /\ Len(<<";">>) = 1
      /\ <<>> \in Operators /\ <<";">> \in Operators
  BY DEF Operators
<1> HIDE DEF op, two
<1> DEFINE Fits == /\ op \in Operators
                   /\ Len(op) \in 0 .. 2
                   /\ i + Len(op) \in i .. Len(cmd) + 1
<1>a. i \in Nat /\ Len(cmd) \in Nat /\ i <= Len(cmd)
  OBVIOUS
<1>4. ASSUME op = <<>> PROVE Fits
  <2>1. op \in Operators /\ Len(op) = 0
    BY <1>3, <1>4, Zenon
  <2>2. QED
    BY <1>a, <2>1
<1>5. ASSUME op = <<";">> PROVE Fits
  <2>1. op \in Operators /\ Len(op) = 1
    BY <1>3, <1>5, Zenon
  <2>2. QED
    BY <1>a, <2>1
<1>6. ASSUME op = two /\ two \in {<<"&", "&">>, <<"|", "|">>} PROVE Fits
  <2>1. op \in Operators /\ Len(op) = 2 /\ i + 1 <= Len(cmd)
    BY <1>2, <1>6, Zenon
  <2>2. QED
    BY <1>a, <2>1
<1>7. Fits
  BY <1>1, <1>4, <1>5, <1>6
<1>8. QED
  BY <1>7 DEF op

\* A segment and its span are the piece of the command from one position to
\* another.
CutFrom(P, cmd, from, next, seg) ==
    /\ seg.text \in Seq(P) /\ seg.span \in Seq(P)
    /\ seg = [text |-> seg.text, op |-> seg.op, at |-> seg.at, span |-> seg.span]
    /\ seg.text \o seg.span = SubSeq(cmd, from, next - 1)

LEMMA SegmentExact ==
    ASSUME NEW P, NEW cmd \in Seq(P), NEW from \in 1 .. Len(cmd) + 1,
           NEW at \in from .. Len(cmd), NEW next \in at .. Len(cmd) + 1, NEW op
    PROVE  /\ CutFrom(P, cmd, from, next, Segment(cmd, from, at, op, next))
           /\ Segment(cmd, from, at, op, next).op = op
           /\ Segment(cmd, from, at, op, next).at = at
<1> DEFINE S == SubSeq(cmd, from, at - 1)
           J == {j \in DOMAIN S: S[j] \notin Blank}
           k == Max({0} \cup J)
           text == SubSeq(S, 1, k)
<1>1. S \in Seq(P) /\ Len(S) = at - from /\ Len(S) \in Nat
  <2>1. from \in Int /\ at - 1 \in Int /\ at - 1 - from + 1 = at - from
        /\ at - 1 <= Len(cmd) /\ from >= 1 /\ at - 1 >= from - 1
    OBVIOUS
  <2>2. QED
    BY <2>1
<1>2. k \in 0 .. Len(S)
  <2>1. J \in SUBSET (1 .. Len(S))
    BY <1>1
  <2> HIDE DEF J
  <2>2. QED
    BY <1>1, <2>1, MaxOrZero
<1>3. TrimEnd(S) = text
  BY DEF TrimEnd
<1> HIDE DEF k
<1>4. text = SubSeq(cmd, from, from + k - 1) /\ text \in Seq(P) /\ Len(text) = k
  <2>1. \A i \in 1 .. Len(S): S[i] = cmd[from + i - 1]
    BY <1>1
  <2>2. text \in Seq(P) /\ Len(text) = k /\ \A i \in 1 .. k: text[i] = S[i]
    BY <1>1, <1>2
  <2> DEFINE t == SubSeq(cmd, from, from + k - 1)
  <2>3. t \in Seq(P) /\ Len(t) = k /\ \A i \in 1 .. k: t[i] = cmd[from + i - 1]
    <3>1. from + k - 1 <= Len(cmd) /\ from + k - 1 - from + 1 = k /\ k \in Nat
      BY <1>1, <1>2
    <3>2. QED
      BY <3>1
  <2>4. ASSUME NEW i \in 1 .. k PROVE text[i] = t[i]
    <3>1. i \in 1 .. Len(S)
      BY <1>1, <1>2
    <3>2. text[i] = S[i] /\ S[i] = cmd[from + i - 1] /\ t[i] = cmd[from + i - 1]
      BY <2>1, <2>2, <2>3, <3>1
    <3>3. QED
      BY <3>2
  <2> HIDE DEF text, t
  <2>5. text = t
    BY <2>2, <2>3, <2>4, SeqEqual
  <2>6. QED
    BY <2>2, <2>5 DEF t
<1>5. Segment(cmd, from, at, op, next)
        = [text |-> text, op |-> op, at |-> at,
           span |-> SubSeq(cmd, from + k, next - 1)]
  BY <1>3, <1>4 DEF Segment
<1>6. SubSeq(cmd, from + k, next - 1) \in Seq(P)
  <2>1. from + k >= 1 /\ next - 1 <= Len(cmd) /\ next - 1 \in Int /\ from + k \in Int
    BY <1>1, <1>2
  <2>2. QED
    BY <2>1
<1>7. SubSeq(cmd, from, from + k - 1) \o SubSeq(cmd, from + k, next - 1)
        = SubSeq(cmd, from, next - 1)
  <2> DEFINE m == from + k - 1
  <2>1. /\ from \in 1 .. Len(cmd) + 1 /\ m \in from - 1 .. Len(cmd)
        /\ next - 1 \in m .. Len(cmd) /\ m + 1 = from + k
    BY <1>1, <1>2
  <2> HIDE DEF m
  <2>2. SubSeq(cmd, from, m) \o SubSeq(cmd, m + 1, next - 1)
          = SubSeq(cmd, from, next - 1)
    BY <2>1, ConcatAdjacentSubSeq
  <2>3. QED
    BY <2>1, <2>2 DEF m
<1> DEFINE seg == Segment(cmd, from, at, op, next)
<1> HIDE DEF text
<1> DEFINE span == SubSeq(cmd, from + k, next - 1)
<1>a. seg = [text |-> text, op |-> op, at |-> at, span |-> span]
  BY <1>5
<1> HIDE DEF seg, span
<1>8. /\ seg.text = text /\ seg.op = op /\ seg.at = at
      /\ seg.span = span
      /\ seg = [text |-> seg.text, op |-> seg.op, at |-> seg.at, span |-> seg.span]
  BY <1>a
<1>9. seg.text \o seg.span = SubSeq(cmd, from, next - 1)
  BY <1>4, <1>7, <1>8 DEF span
<1>10. QED
  BY <1>4, <1>6, <1>8, <1>9 DEF seg, span, CutFrom

\* Segments of a command of pieces in P, and what they are put together.
Segments(P) == [text: Seq(P), op: Operators, at: Nat, span: Seq(P)]

Parts(segs) == [i \in DOMAIN segs |-> segs[i].text \o segs[i].span]
Joined(segs) == FoldLeft(Join, <<>>, Parts(segs))

LEMMA JoinIsFold == \A s: FoldLeft(Join, <<>>, s) = JoinFold!Fold(<<>>, s)
BY DEF JoinFold!Fold, JoinFold!IsIter, FoldLeft, MapThenFoldSet, Max, JoinFold!Max

LEMMA JoinedEmpty == Joined(<<>>) = <<>>
<1>1. Parts(<<>>) = <<>>
  BY DEF Parts
<1>2. QED
  BY <1>1, JoinIsFold, JoinFold!FoldEmpty DEF Joined

LEMMA SeqByPoints ==
    ASSUME NEW S, NEW n \in Nat, NEW f, f = [i \in 1 .. n |-> f[i]],
           \A i \in 1 .. n: f[i] \in S
    PROVE  f \in Seq(S) /\ Len(f) = n
OBVIOUS

Part(seg) == seg.text \o seg.span

LEMMA PartsPoints ==
    ASSUME NEW P, NEW segs \in Seq(Segments(P))
    PROVE  /\ Parts(segs) \in Seq(Seq(P)) /\ Len(Parts(segs)) = Len(segs)
           /\ \A i \in 1 .. Len(segs): Parts(segs)[i] = Part(segs[i])
<1> DEFINE S == Seq(P)
<1>1. \A seg \in Segments(P): Part(seg) \in S
  BY DEF Segments, Part
<1>2. \A i \in 1 .. Len(segs): segs[i] \in Segments(P)
  OBVIOUS
<1>3. DOMAIN segs = 1 .. Len(segs) /\ Len(segs) \in Nat
  OBVIOUS
<1>4. Parts(segs) = [i \in 1 .. Len(segs) |-> Part(segs[i])]
  BY <1>3 DEF Parts, Part
<1> HIDE DEF S
<1>5. \A i \in 1 .. Len(segs): Parts(segs)[i] = Part(segs[i])
  BY <1>4
<1>6. \A i \in 1 .. Len(segs): Parts(segs)[i] \in S
  BY <1>1, <1>2, <1>5
<1>7. Parts(segs) = [i \in 1 .. Len(segs) |-> Parts(segs)[i]]
  BY <1>4
<1>8. Parts(segs) \in Seq(S) /\ Len(Parts(segs)) = Len(segs)
  BY <1>3, <1>6, <1>7, SeqByPoints
<1>9. QED
  BY <1>5, <1>8 DEF S

LEMMA JoinedAppend ==
    ASSUME NEW P, NEW segs \in Seq(Segments(P)), NEW seg \in Segments(P)
    PROVE  Joined(Append(segs, seg)) = Joined(segs) \o Part(seg)
<1> DEFINE more == Append(segs, seg)
           part == Part(seg)
           S == Seq(P)
<1>1. part \in S
  BY DEF Segments, Part
<1>2. /\ more \in Seq(Segments(P)) /\ Len(more) = Len(segs) + 1
      /\ more[Len(segs) + 1] = seg
      /\ \A i \in 1 .. Len(segs): more[i] = segs[i]
      /\ Len(segs) \in Nat
  OBVIOUS
<1> HIDE DEF more, part
<1>3. /\ Parts(segs) \in Seq(S) /\ Len(Parts(segs)) = Len(segs)
      /\ \A i \in 1 .. Len(segs): Parts(segs)[i] = Part(segs[i])
      /\ Parts(more) \in Seq(S) /\ Len(Parts(more)) = Len(segs) + 1
      /\ \A i \in 1 .. Len(segs) + 1: Parts(more)[i] = Part(more[i])
  BY <1>2, PartsPoints
<1> HIDE DEF S
<1>4. Parts(more) = Append(Parts(segs), part)
  <2>1. /\ Append(Parts(segs), part) \in Seq(S)
        /\ Len(Append(Parts(segs), part)) = Len(segs) + 1
        /\ \A i \in 1 .. Len(segs): Append(Parts(segs), part)[i] = Parts(segs)[i]
        /\ Append(Parts(segs), part)[Len(segs) + 1] = part
    BY <1>1, <1>3
  <2>2. ASSUME NEW i \in 1 .. Len(segs) + 1
        PROVE  Parts(more)[i] = Append(Parts(segs), part)[i]
    <3>1. CASE i = Len(segs) + 1
      BY <1>2, <1>3, <2>1, <3>1 DEF part
    <3>2. CASE i \in 1 .. Len(segs)
      BY <1>2, <1>3, <2>1, <3>2
    <3>3. i = Len(segs) + 1 \/ i \in 1 .. Len(segs)
      <4>1. Len(segs) \in Nat
        OBVIOUS
      <4>2. QED
        BY <4>1
    <3>4. QED
      BY <3>1, <3>2, <3>3
  <2>3. QED
    BY <1>3, <2>1, <2>2, SeqEqual
<1>5. JoinFold!Fold(<<>>, Append(Parts(segs), part))
        = Join(JoinFold!Fold(<<>>, Parts(segs)), part)
  BY <1>1, <1>3, JoinFold!FoldAppend
<1>6. QED
  BY <1>4, <1>5, JoinIsFold DEF Joined, Join, more, part

\* After the first n positions: the segments are the command up to the start
\* of the current one, which is no later than where the splitter is.
SplitInv(P, cmd, n, acc) ==
    /\ DOMAIN acc = {"cmd", "st", "pos", "start", "segments"}
    /\ acc.cmd = cmd
    /\ acc.start \in 1 .. Len(cmd) + 1
    /\ acc.start <= n + 1 \/ (acc.pos \in Nat /\ acc.start <= acc.pos)
    /\ acc.segments \in Seq(Segments(P))
    /\ Joined(acc.segments) = SubSeq(cmd, 1, acc.start - 1)

LEMMA SplitInvInit ==
    ASSUME NEW P, NEW cmd \in Seq(P)
    PROVE  SplitInv(P, cmd, 0, NewSplit(cmd))
<1> DEFINE acc == NewSplit(cmd)
<1>1. /\ DOMAIN acc = {"cmd", "st", "pos", "start", "segments"}
      /\ acc.cmd = cmd /\ acc.start = 1 /\ acc.segments = <<>>
  BY DEF NewSplit
<1>2. SubSeq(cmd, 1, 1 - 1) = <<>> /\ Len(cmd) \in Nat
  OBVIOUS
<1> HIDE DEF acc
<1>3. <<>> \in Seq(Segments(P))
  OBVIOUS
<1>4. SubSeq(cmd, 1, acc.start - 1) = <<>>
  BY <1>1, <1>2
<1>5. SplitInv(P, cmd, 0, acc)
  <2>1. Joined(acc.segments) = <<>>
    BY <1>1, JoinedEmpty
  <2>2. acc.start \in 1 .. Len(cmd) + 1 /\ acc.start <= 0 + 1
    BY <1>1, <1>2
  <2>3. QED
    BY <1>1, <1>3, <1>4, <2>1, <2>2 DEF SplitInv
<1>6. QED
  BY <1>5 DEF acc

LEMMA SplitInvStep ==
    ASSUME NEW P, NEW cmd \in Seq(P), NEW n \in Nat, n + 1 <= Len(cmd),
           NEW acc, SplitInv(P, cmd, n, acc)
    PROVE  SplitInv(P, cmd, n + 1, SplitAt(acc, n + 1))
<1> DEFINE i == n + 1
           op == OperatorAt(cmd, i)
           next == AfterBlanks(cmd, i + Len(op))
           seg == Segment(cmd, acc.start, i, op, next)
<1>0. i \in 1 .. Len(cmd) /\ i \in Nat /\ Len(cmd) \in Nat
  OBVIOUS
<1>1. acc.cmd = cmd
  BY DEF SplitInv
<1>2. CASE i < acc.pos
  <2>1. SplitAt(acc, i) = acc
    BY <1>2 DEF SplitAt
  <2>2. SplitInv(P, cmd, i, acc)
    BY <1>0 DEF SplitInv
  <2>3. QED
    BY <2>1, <2>2
<1>3. CASE /\ ~(i < acc.pos)
           /\ op # <<>> /\ AtTopLevel(acc.st) /\ ~acc.st.escape_pending
  <2>1. SplitAt(acc, i)
          = [acc EXCEPT !.segments = Append(@, seg), !.start = next, !.pos = next]
    BY <1>1, <1>3 DEF SplitAt, AfterBlanks
  <2>2. acc.start <= i
    BY <1>0, <1>3 DEF SplitInv
  <2>3. op \in Operators /\ i + Len(op) \in i .. Len(cmd) + 1
    BY <1>0, OperatorType
  <2> HIDE DEF op
  <2>4. next \in i .. Len(cmd) + 1 /\ next \in Nat
    <3> DEFINE k == i + Len(op)
    <3>1. k \in 1 .. Len(cmd) + 1 /\ k >= i /\ k \in Nat
      BY <1>0, <2>3
    <3> HIDE DEF k
    <3>2. AfterBlanks(cmd, k) \in k .. Len(cmd) + 1
      BY <3>1, AfterBlanksType
    <3>3. QED
      BY <1>0, <3>1, <3>2 DEF k
  <2>5. acc.start \in 1 .. Len(cmd) + 1 /\ i \in acc.start .. Len(cmd)
    BY <1>0, <2>2 DEF SplitInv
  <2> HIDE DEF next
  <2> DEFINE from == acc.start
  <2>6. CutFrom(P, cmd, from, next, seg) /\ seg.op = op /\ seg.at = i
    <3>1. from \in 1 .. Len(cmd) + 1 /\ i \in from .. Len(cmd)
          /\ next \in i .. Len(cmd) + 1 /\ seg = Segment(cmd, from, i, op, next)
      BY <2>4, <2>5
    <3> HIDE DEF from, i, seg
    <3>2. /\ CutFrom(P, cmd, from, next, Segment(cmd, from, i, op, next))
          /\ Segment(cmd, from, i, op, next).op = op
          /\ Segment(cmd, from, i, op, next).at = i
      BY <3>1, SegmentExact
    <3>3. QED
      BY <3>1, <3>2
  <2> HIDE DEF seg, i
  <2>7. seg \in Segments(P)
    BY <1>0, <2>3, <2>6 DEF Segments, CutFrom
  <2>8. Joined(Append(acc.segments, seg)) = SubSeq(cmd, 1, next - 1)
    <3>1. Joined(Append(acc.segments, seg))
            = SubSeq(cmd, 1, acc.start - 1) \o SubSeq(cmd, acc.start, next - 1)
      BY <2>6, <2>7, JoinedAppend DEF SplitInv, Part, CutFrom
    <3> DEFINE m == acc.start - 1
    <3>2. /\ 1 \in 1 .. Len(cmd) + 1 /\ m \in 1 - 1 .. Len(cmd)
          /\ next - 1 \in m .. Len(cmd) /\ acc.start = m + 1
      BY <1>0, <2>4, <2>5
    <3> HIDE DEF m
    <3>3. SubSeq(cmd, 1, m) \o SubSeq(cmd, m + 1, next - 1)
            = SubSeq(cmd, 1, next - 1)
      BY <3>2, ConcatAdjacentSubSeq
    <3>4. QED
      BY <3>1, <3>2, <3>3 DEF m
  <2>9. Append(acc.segments, seg) \in Seq(Segments(P))
    BY <2>7 DEF SplitInv
  <2> DEFINE new == SplitAt(acc, i)
  <2>10. /\ DOMAIN new = {"cmd", "st", "pos", "start", "segments"}
         /\ new.cmd = cmd /\ new.start = next /\ new.pos = next
         /\ new.segments = Append(acc.segments, seg)
    BY <2>1 DEF SplitInv
  <2> HIDE DEF new
  <2>11. SplitInv(P, cmd, i, new)
    BY <1>0, <2>4, <2>8, <2>9, <2>10 DEF SplitInv
  <2>12. QED
    BY <2>11 DEF new, i
<1>4. CASE /\ ~(i < acc.pos)
           /\ ~(op # <<>> /\ AtTopLevel(acc.st) /\ ~acc.st.escape_pending)
  <2> DEFINE scan == Scan(cmd, i, acc.st)
             new == SplitAt(acc, i)
  <2>1. new = [acc EXCEPT !.st = scan.st, !.pos = i + scan.used]
    BY <1>1, <1>4 DEF SplitAt
  <2>2. acc.start <= i
    BY <1>0, <1>4 DEF SplitInv
  <2> HIDE DEF scan, new
  <2>3. /\ DOMAIN new = {"cmd", "st", "pos", "start", "segments"}
        /\ new.cmd = cmd /\ new.start = acc.start
        /\ new.segments = acc.segments
    BY <2>1 DEF SplitInv
  <2>4. SplitInv(P, cmd, i, new)
    BY <1>0, <2>2, <2>3 DEF SplitInv
  <2>5. QED
    BY <2>4 DEF new
<1>5. QED
  BY <1>2, <1>3, <1>4

LEMMA SplitIsFold == \A b, s: FoldLeft(SplitAt, b, s) = SplitFold!Fold(b, s)
BY DEF SplitFold!Fold, SplitFold!IsIter, FoldLeft, MapThenFoldSet, Max, SplitFold!Max

LEMMA SplitInvAll ==
    ASSUME NEW P, NEW cmd \in Seq(P)
    PROVE  SplitInv(P, cmd, Len(cmd),
                    FoldLeft(SplitAt, NewSplit(cmd), [i \in DOMAIN cmd |-> i]))
<1> DEFINE At(n) == SplitFold!Fold(NewSplit(cmd), Positions(n))
           T == {n \in Nat: n <= Len(cmd) => SplitInv(P, cmd, n, At(n))}
<1>1. 0 \in T
  <2>1. At(0) = NewSplit(cmd)
    BY NoPositions, SplitFold!FoldEmpty
  <2>2. QED
    BY <2>1, SplitInvInit
<1>2. ASSUME NEW n \in T PROVE n + 1 \in T
  <2>1. n \in Nat /\ (n <= Len(cmd) => SplitInv(P, cmd, n, At(n)))
    OBVIOUS
  <2>2. At(n + 1) = SplitAt(At(n), n + 1)
    <3>1. n + 1 \in Nat
      BY <2>1
    <3>2. QED
      BY <2>1, <3>1, PositionsAppend, SplitFold!FoldAppend
  <2> HIDE DEF At
  <2>3. ASSUME n + 1 <= Len(cmd) PROVE SplitInv(P, cmd, n + 1, At(n + 1))
    <3>1. SplitInv(P, cmd, n, At(n))
      BY <2>1, <2>3
    <3>2. SplitInv(P, cmd, n + 1, SplitAt(At(n), n + 1))
      BY <2>1, <2>3, <3>1, SplitInvStep
    <3>3. QED
      BY <2>2, <3>2
  <2>4. QED
    BY <2>1, <2>3
<1>3. T = Nat
  <2>1. T \in SUBSET Nat
    OBVIOUS
  <2> HIDE DEF T
  <2>2. QED
    BY <1>1, <1>2, <2>1, SplitFold!SetInduction
<1>4. Len(cmd) \in Nat /\ [i \in DOMAIN cmd |-> i] = Positions(Len(cmd))
  BY DEF Positions
<1>5. Len(cmd) \in T
  BY <1>3, <1>4
<1>6. SplitInv(P, cmd, Len(cmd), At(Len(cmd)))
  BY <1>4, <1>5
<1>7. QED
  BY <1>4, <1>6, SplitIsFold

\* The splitter takes nothing away and adds nothing.
LEMMA SplitExact ==
    ASSUME NEW P, NEW cmd \in Seq(P)
    PROVE  /\ SplitChain(cmd) \in Seq(Segments(P))
           /\ SplitChain(cmd) # <<>>
           /\ Joined(SplitChain(cmd)) = cmd
<1> DEFINE end == FoldLeft(SplitAt, NewSplit(cmd), [i \in DOMAIN cmd |-> i])
           rest == SubSeq(cmd, end.start, Len(cmd))
           last == [text |-> rest, op |-> <<>>, at |-> Len(cmd) + 1,
                    span |-> <<>>]
<1>1. SplitInv(P, cmd, Len(cmd), end)
  BY SplitInvAll
<1>2. SplitChain(cmd) = Append(end.segments, last)
  BY DEF SplitChain
<1> HIDE DEF end
<1>3. end.start \in 1 .. Len(cmd) + 1 /\ Len(cmd) \in Nat
  BY <1>1 DEF SplitInv
<1>4. rest \in Seq(P)
  BY <1>3
<1>5. SubSeq(cmd, 1, end.start - 1) \o rest = cmd
  <2> DEFINE m == end.start - 1
  <2>1. /\ 1 \in 1 .. Len(cmd) + 1 /\ m \in 1 - 1 .. Len(cmd)
        /\ Len(cmd) \in m .. Len(cmd) /\ end.start = m + 1
    BY <1>3
  <2> HIDE DEF m
  <2>2. SubSeq(cmd, 1, m) \o SubSeq(cmd, m + 1, Len(cmd)) = SubSeq(cmd, 1, Len(cmd))
    BY <2>1, ConcatAdjacentSubSeq
  <2>3. QED
    BY <2>1, <2>2, SubSeqFull DEF m
<1> HIDE DEF rest
<1>6. /\ last \in Segments(P) /\ last.text = rest /\ last.span = <<>>
      /\ rest \o <<>> = rest
  BY <1>3, <1>4, ConcatEmptySeq DEF Segments, Operators
<1> HIDE DEF last
<1>7. end.segments \in Seq(Segments(P))
      /\ Joined(end.segments) = SubSeq(cmd, 1, end.start - 1)
  BY <1>1 DEF SplitInv
<1>8. Joined(Append(end.segments, last)) = cmd
  BY <1>5, <1>6, <1>7, JoinedAppend DEF Part
<1>9. Append(end.segments, last) \in Seq(Segments(P))
      /\ Append(end.segments, last) # <<>>
  BY <1>6, <1>7
<1>10. QED
  BY <1>2, <1>8, <1>9

-----------------------------------------------------------------------------
(***************************************************************************)
(* The loader: what a rule becomes keeps its id, and is the rule itself    *)
(* when it extends none.                                                   *)
(***************************************************************************)
UpFields == {"siblings", "flat", "extends", "visited", "failed"}

\* The siblings of a rule are rules or no file at all.
AreRules(siblings) ==
    \E n \in Nat: /\ DOMAIN siblings = 1 .. n
                  /\ \A i \in 1 .. n: siblings[i] # NoFile => IsRule(siblings[i])

ClimbInv(rule, siblings, up) ==
    /\ DOMAIN up = UpFields
    /\ up.siblings = siblings
    /\ IsRule(up.flat)
    /\ up.flat.id = rule.id
    /\ rule.extends = Absent => up.flat = rule /\ up.extends = Absent

Foot(rule, siblings) ==
    [siblings |-> siblings, flat |-> rule, extends |-> rule.extends,
     visited |-> {rule.id}, failed |-> FALSE]

LEMMA FoundIsRule ==
    ASSUME NEW siblings, AreRules(siblings), NEW id
    PROVE  \/ FindRule(siblings, id) = NoFile
           \/ IsRule(FindRule(siblings, id))
<1> DEFINE found == {n \in DOMAIN siblings:
                       siblings[n] # NoFile /\ ShallowProbeId(siblings[n]) = id}
<1>1. CASE found = {}
  BY <1>1 DEF FindRule
<1>2. CASE found # {}
  <2>1. FindRule(siblings, id) = siblings[Min(found)]
    BY <1>2 DEF FindRule
  <2>2. found \in SUBSET Nat
    BY DEF AreRules
  <2>3. MergeFold!Min(found) \in found
    <3> HIDE DEF found
    <3>1. QED
      BY <1>2, <2>2, MergeFold!MinOfNaturals
  <2>4. MergeFold!Min(found) = Min(found)
    BY DEF MergeFold!Min, Min
  <2>5. QED
    BY <2>1, <2>3, <2>4 DEF AreRules
<1>3. QED
  BY <1>1, <1>2

LEMMA MergedIsRule ==
    ASSUME NEW parent, NEW child, IsRule(parent), IsRule(child)
    PROVE  /\ IsRule(MergeRules(parent, child))
           /\ MergeRules(parent, child).id = child.id
<1> DEFINE both == MergeRules(parent, child)
<1> DEFINE rewrite == IF child.rewrite = Absent THEN parent.rewrite
                      ELSE child.rewrite
           match == IF child.match = Absent THEN parent.match ELSE child.match
           yaml == IF parent.yaml = "bad stage" THEN "bad stage" ELSE child.yaml
<1>1. both = [id |-> child.id, extends |-> Absent, match |-> match,
              rewrite |-> rewrite, yaml |-> yaml]
  BY DEF MergeRules
<1>1a. rewrite = parent.rewrite \/ rewrite = child.rewrite
  OBVIOUS
<1> HIDE DEF both, match, rewrite, yaml
<1>1b. both.id = child.id /\ both.rewrite = rewrite
  BY <1>1
<1>2. ASSUME rewrite = parent.rewrite PROVE IsRule(both)
  BY <1>1b, <1>2 DEF IsRule
<1>3. ASSUME rewrite = child.rewrite PROVE IsRule(both)
  BY <1>1b, <1>3 DEF IsRule
<1>4. both.id = child.id /\ IsRule(both)
  BY <1>1a, <1>1b, <1>2, <1>3
<1>5. QED
  BY <1>4 DEF both

LEMMA ClimbStep ==
    ASSUME NEW rule, NEW siblings, AreRules(siblings), NEW up, NEW i,
           ClimbInv(rule, siblings, up)
    PROVE  ClimbInv(rule, siblings, MergeParent(up, i))
<1> DEFINE parent == FindRule(up.siblings, up.extends)
           new == MergeParent(up, i)
<1>1. CASE up.failed \/ up.extends = Absent
  <2>1. new = up
    BY <1>1 DEF MergeParent
  <2>2. QED
    BY <2>1
<1>2. CASE /\ ~(up.failed \/ up.extends = Absent)
           /\ \/ parent = NoFile
              \/ ~Parses(parent) \/ parent.id \in up.visited
  <2>1. new = [up EXCEPT !.failed = TRUE]
    BY <1>2 DEF MergeParent
  <2> HIDE DEF new
  <2>2. /\ DOMAIN new = DOMAIN up /\ new.siblings = up.siblings
        /\ new.flat = up.flat /\ new.extends = up.extends
    BY <2>1 DEF ClimbInv, UpFields
  <2>3. ClimbInv(rule, siblings, new)
    BY <2>2 DEF ClimbInv
  <2>4. QED
    BY <2>3 DEF new
<1>3. CASE /\ ~(up.failed \/ up.extends = Absent)
           /\ parent # NoFile /\ Parses(parent) /\ parent.id \notin up.visited
  <2>1. new = [up EXCEPT !.flat = MergeRules(parent, @),
                         !.extends = parent.extends,
                         !.visited = @ \cup {parent.id}]
    BY <1>3 DEF MergeParent
  <2>2. IsRule(parent)
    BY <1>3, FoundIsRule DEF ClimbInv
  <2> DEFINE merged == MergeRules(parent, up.flat)
  <2>3. IsRule(merged) /\ merged.id = rule.id
    BY <2>2, MergedIsRule DEF ClimbInv
  <2> HIDE DEF new, merged, parent
  <2>4. /\ DOMAIN new = DOMAIN up /\ new.siblings = up.siblings
        /\ new.flat = merged
    BY <2>1 DEF ClimbInv, UpFields, merged
  <2>5. rule.extends # Absent
    BY <1>3 DEF ClimbInv
  <2>6. ClimbInv(rule, siblings, new)
    BY <2>3, <2>4, <2>5 DEF ClimbInv
  <2>7. QED
    BY <2>6 DEF new
<1>4. QED
  BY <1>1, <1>2, <1>3

LEMMA MergeIsFold == \A b, s: FoldLeft(MergeParent, b, s) = MergeFold!Fold(b, s)
BY DEF MergeFold!Fold, MergeFold!IsIter, FoldLeft, MapThenFoldSet, Max, MergeFold!Max

LEMMA ClimbAll ==
    ASSUME NEW rule, IsRule(rule), NEW siblings, AreRules(siblings),
           NEW s \in Seq(Nat)
    PROVE  ClimbInv(rule, siblings,
                    FoldLeft(MergeParent, Foot(rule, siblings), s))
<1> DEFINE At(r) == MergeFold!Fold(Foot(rule, siblings), r)
           T == {r \in Seq(Nat): ClimbInv(rule, siblings, At(r))}
<1>1. <<>> \in T
  <2>1. At(<<>>) = Foot(rule, siblings)
    BY MergeFold!FoldEmpty
  <2>2. ClimbInv(rule, siblings, Foot(rule, siblings))
    BY DEF ClimbInv, Foot, UpFields
  <2>3. QED
    BY <2>1, <2>2
<1>2. ASSUME NEW r \in T, NEW n \in Nat PROVE Append(r, n) \in T
  <2>1. r \in Seq(Nat) /\ ClimbInv(rule, siblings, At(r))
    OBVIOUS
  <2>2. At(Append(r, n)) = MergeParent(At(r), n)
    BY <2>1, MergeFold!FoldAppend
  <2> HIDE DEF At
  <2>3. ClimbInv(rule, siblings, At(Append(r, n)))
    BY <2>1, <2>2, ClimbStep
  <2>4. Append(r, n) \in Seq(Nat)
    BY <2>1
  <2>5. QED
    BY <2>3, <2>4
<1>3. T \in SUBSET Seq(Nat)
  OBVIOUS
<1> HIDE DEF T
<1>4. T = Seq(Nat)
  BY <1>1, <1>2, <1>3, MergeFold!SeqInduction
<1>5. QED
  BY <1>4, MergeIsFold DEF T

\* A rule loads under its own id, and as it is when it extends none.
LEMMA LoadKeeps ==
    ASSUME NEW rule, IsRule(rule), NEW siblings, AreRules(siblings),
           Load(rule, siblings) # Absent
    PROVE  /\ IsRule(Load(rule, siblings))
           /\ Load(rule, siblings).id = rule.id
           /\ rule.extends = Absent => Load(rule, siblings) = rule
<1> DEFINE up == FoldLeft(MergeParent, Foot(rule, siblings),
                          [i \in 1 .. AncestorLimit |-> i])
<1>1. Load(rule, siblings) = up.flat
  BY DEF Load, FlattenExtends, Foot
<1>2. AncestorLimit \in Nat
  <2>1. Cardinality(Names) \in Nat /\ Len(Bundled) \in Nat
    BY LoaderAssumption, FS_CardinalityType
  <2>2. QED
    BY <2>1 DEF AncestorLimit
<1>3. [i \in 1 .. AncestorLimit |-> i] \in Seq(Nat)
  BY <1>2
<1>4. ClimbInv(rule, siblings, up)
  BY <1>3, ClimbAll
<1> HIDE DEF up
<1>5. QED
  BY <1>1, <1>4 DEF ClimbInv

-----------------------------------------------------------------------------
(***************************************************************************)
(* What the hook writes is a command: a sequence of pieces.                *)
(***************************************************************************)

\* A byte or a word.  (The literals are strings, which the provers do not know.)
Pieces == STRING \cup {Single, Backslash, Space, "LACON_SESSION_ID", "=", "id",
                      "lacon", "run", "-", "rule"}
Text == Seq(Pieces)

LEMMA SeqMono ==
    ASSUME NEW S, NEW P, S \subseteq P
    PROVE  Seq(S) \subseteq Seq(P)
OBVIOUS

LEMMA StringsAreTexts == Seq(STRING) \subseteq Text
<1>1. STRING \subseteq Pieces
  BY DEF Pieces
<1>2. QED
  BY <1>1, SeqMono, Zenon DEF Text

LEMMA ArgvIsFold == \A b, s: FoldLeft(TakeByte, b, s) = ArgvFold!Fold(b, s)
BY DEF ArgvFold!Fold, ArgvFold!IsIter, FoldLeft, MapThenFoldSet, Max, ArgvFold!Max

LEMMA QuoteIsFold == \A b, s: FoldLeft(QuoteByte, b, s) = QuoteFold!Fold(b, s)
BY DEF QuoteFold!Fold, QuoteFold!IsIter, FoldLeft, MapThenFoldSet, Max, QuoteFold!Max

LEMMA RewriteIsFold == \A b, s: FoldLeft(RewriteArg, b, s) = RewriteFold!Fold(b, s)
BY DEF RewriteFold!Fold, RewriteFold!IsIter, FoldLeft, MapThenFoldSet, Max, RewriteFold!Max

LEMMA FlagIsFold == \A b, s: FoldLeft(AddFlag, b, s) = FlagFold!Fold(b, s)
BY DEF FlagFold!Fold, FlagFold!IsIter, FoldLeft, MapThenFoldSet, Max, FlagFold!Max

LEMMA ReadIsFold == \A b, s: FoldLeft(ReadAt, b, s) = ReadFold!Fold(b, s)
BY DEF ReadFold!Fold, ReadFold!IsIter, FoldLeft, MapThenFoldSet, Max, ReadFold!Max

LEMMA One == ASSUME NEW S, NEW a \in S PROVE <<a>> \in Seq(S)
OBVIOUS

LEMMA Two == ASSUME NEW S, NEW a \in S, NEW b \in S PROVE <<a, b>> \in Seq(S)
OBVIOUS

LEMMA Three ==
    ASSUME NEW S, NEW a \in S, NEW b \in S, NEW c \in S
    PROVE  <<a, b, c>> \in Seq(S)
OBVIOUS

LEMMA Four ==
    ASSUME NEW S, NEW a \in S, NEW b \in S, NEW c \in S, NEW d \in S
    PROVE  <<a, b, c, d>> \in Seq(S)
OBVIOUS

LEMMA Six ==
    ASSUME NEW S, NEW a \in S, NEW b \in S, NEW c \in S, NEW d \in S,
           NEW e \in S, NEW f \in S
    PROVE  <<a, b, c, d, e, f>> \in Seq(S)
OBVIOUS

\* A tokenizer has whole words and the one it is at.
Tokens == [argv: Seq(Text), current: Text, has_token: BOOLEAN,
           quote: {"none", Single, Double}]

LEMMA TakeByteType ==
    ASSUME NEW acc \in Tokens, NEW b \in Pieces
    PROVE  TakeByte(acc, b) \in Tokens
<1> DEFINE word == Append(acc.current, b)
           words == Append(acc.argv, acc.current)
<1>1. /\ acc.argv \in Seq(Text) /\ acc.current \in Text
      /\ acc.quote \in {"none", Single, Double}
  BY DEF Tokens
<1>2. word \in Text /\ words \in Seq(Text) /\ <<>> \in Text
  <2>1. word \in Text /\ <<>> \in Text
    BY <1>1 DEF Text
  <2>2. words \in Seq(Text)
    BY <1>1
  <2>3. QED
    BY <2>1, <2>2
<1> HIDE DEF Text
<1>3. CASE acc.quote # "none"
  BY <1>2, <1>3 DEF TakeByte, Tokens
<1>4. CASE acc.quote = "none" /\ b \in {Single, Double}
  BY <1>2, <1>4 DEF TakeByte, Tokens
<1>5. CASE acc.quote = "none" /\ b \notin {Single, Double} /\ b \in Whitespace
  BY <1>2, <1>5 DEF TakeByte, Tokens
<1>6. CASE acc.quote = "none" /\ b \notin {Single, Double} /\ b \notin Whitespace
  BY <1>2, <1>6 DEF TakeByte, Tokens
<1>7. QED
  BY <1>3, <1>4, <1>5, <1>6

LEMMA ArgvType ==
    ASSUME NEW text \in Text
    PROVE  ArgvForResolution(text) \in Seq(Text)
<1> DEFINE end == FoldLeft(TakeByte, NoWords, text)
<1>1. NoWords \in Tokens
  BY DEF NoWords, Tokens, Text
<1>2. end \in Tokens
  <2>1. ArgvFold!Fold(NoWords, text) \in Tokens
    BY <1>1, TakeByteType, ArgvFold!FoldType DEF Text
  <2>2. QED
    BY <2>1, ArgvIsFold
<1>3. ArgvForResolution(text)
        = IF end.has_token THEN Append(end.argv, end.current) ELSE end.argv
  BY DEF ArgvForResolution
<1> HIDE DEF end, Text
<1>4. end.argv \in Seq(Text) /\ end.current \in Text
  BY <1>2 DEF Tokens
<1>5. QED
  BY <1>3, <1>4

LEMMA QuoteType ==
    ASSUME NEW word \in Text
    PROVE  QuoteForShell(word) \in Text
<1>1. \A t \in Text, b \in Pieces: QuoteByte(t, b) \in Text
  <2>1. ASSUME NEW t \in Text, NEW b \in Pieces PROVE QuoteByte(t, b) \in Text
    <3>1. <<Single, Backslash, Single, Single>> \in Text /\ <<b>> \in Text
      <4>1. Single \in Pieces /\ Backslash \in Pieces
        BY DEF Pieces
      <4>2. QED
        BY <4>1, One, Four, Zenon DEF Text
    <3>2. \A u \in Text: t \o u \in Text
      BY DEF Text
    <3>3. QED
      BY <3>1, <3>2 DEF QuoteByte
  <2>2. QED
    BY <2>1
<1>2. QuoteFold!Fold(<<>>, word) \in Text
  <2>1. <<>> \in Text
    BY DEF Text
  <2>2. QED
    BY <1>1, <2>1, QuoteFold!FoldType DEF Text
<1>3. <<Single>> \o FoldLeft(QuoteByte, <<>>, word) \o <<Single>> \in Text
  <2>1. <<Single>> \in Text
    <3>1. Single \in Pieces
      BY DEF Pieces
    <3>2. QED
      BY <3>1, One, Zenon DEF Text
  <2>2. \A s, t \in Text: s \o t \in Text
    BY DEF Text
  <2> HIDE DEF Text
  <2>3. QED
    BY <1>2, <2>1, <2>2, QuoteIsFold
<1>4. QED
  BY <1>3 DEF QuoteForShell

\* The rewrite block of a rule has words.
IsRewrite(rewrite) ==
    /\ \A flag \in DOMAIN rewrite.replace_flags:
          rewrite.replace_flags[flag] \in Text
    /\ rewrite.add_flags \in Seq(Text)

LEMMA RewriteOfType ==
    ASSUME NEW rule, IsRule(rule)
    PROVE  IsRewrite(RewriteOf(rule))
<1>1. CASE rule.rewrite = Absent
  <2>1. RewriteOf(rule) = DefaultRewrite
    BY <1>1 DEF RewriteOf
  <2>2. /\ DefaultRewrite.replace_flags = <<>> /\ DefaultRewrite.add_flags = <<>>
        /\ DOMAIN <<>> = {} /\ <<>> \in Seq(Text)
    BY DEF DefaultRewrite
  <2>3. QED
    BY <2>1, <2>2 DEF IsRewrite
<1>2. CASE rule.rewrite # Absent
  <2>1. RewriteOf(rule) = rule.rewrite
    BY <1>2 DEF RewriteOf
  <2>2. /\ \A flag \in DOMAIN rule.rewrite.replace_flags:
              rule.rewrite.replace_flags[flag] \in Seq(STRING)
        /\ rule.rewrite.add_flags \in Seq(Seq(STRING))
    BY <1>2 DEF IsRule
  <2> DEFINE W == Seq(STRING)
  <2>3. rule.rewrite.add_flags \in Seq(Text)
    <3>1. W \subseteq Text
      BY StringsAreTexts
    <3> HIDE DEF W, Text
    <3>2. QED
      BY <2>2, <3>1 DEF W
  <2>4. QED
    BY <2>1, <2>2, <2>3, StringsAreTexts DEF IsRewrite
<1>3. QED
  BY <1>1, <1>2

LEMMA RewriteType ==
    ASSUME NEW argv \in Seq(Text), argv # <<>>,
           NEW rewrite, IsRewrite(rewrite)
    PROVE  ApplyRewrite(argv, rewrite) \in Seq(Text)
<1> DEFINE W == Text
           X == [rewrite: {rewrite}, out: Seq(W)]
           base == [rewrite |-> rewrite, out |-> <<>>]
           kept == FoldLeft(RewriteArg, base, Tail(argv)).out
<1>1. \A flag \in DOMAIN rewrite.replace_flags: rewrite.replace_flags[flag] \in W
  BY DEF IsRewrite
<1>2. rewrite.add_flags \in Seq(W)
  BY DEF IsRewrite
<1>3. Tail(argv) \in Seq(W) /\ Head(argv) \in W
  OBVIOUS
<1> HIDE DEF W
<1>4. base \in X
  OBVIOUS
<1>5. ASSUME NEW acc \in X, NEW arg \in W PROVE RewriteArg(acc, arg) \in X
  <2>1. acc.rewrite = rewrite /\ acc.out \in Seq(W)
    OBVIOUS
  <2> DEFINE new == IF arg \in DOMAIN rewrite.replace_flags
                    THEN rewrite.replace_flags[arg] ELSE arg
  <2>3. new \in W
    BY <1>1
  <2> HIDE DEF new
  <2>4. \/ RewriteArg(acc, arg) = acc
        \/ RewriteArg(acc, arg) = [acc EXCEPT !.out = Append(@, new)]
    BY <2>1 DEF RewriteArg, new
  <2>5. Append(acc.out, new) \in Seq(W)
    BY <2>1, <2>3
  <2>6. [acc EXCEPT !.out = Append(@, new)] \in X
    BY <2>1, <2>5
  <2>7. QED
    BY <2>4, <2>6
<1> HIDE DEF X, base
<1>6. RewriteFold!Fold(base, Tail(argv)) \in X
  BY <1>3, <1>4, <1>5, RewriteFold!FoldType
<1>7. kept \in Seq(W)
  BY <1>6, RewriteIsFold DEF X
<1> HIDE DEF kept
<1>8. \A out \in Seq(W), flag \in W: AddFlag(out, flag) \in Seq(W)
  BY DEF AddFlag
<1>9. FoldLeft(AddFlag, kept, rewrite.add_flags) \in Seq(W)
  <2>1. FlagFold!Fold(kept, rewrite.add_flags) \in Seq(W)
    BY <1>2, <1>7, <1>8, FlagFold!FoldType
  <2>2. QED
    BY <2>1, FlagIsFold
<1>10. ApplyRewrite(argv, rewrite)
         = <<Head(argv)>> \o FoldLeft(AddFlag, kept, rewrite.add_flags)
  BY DEF ApplyRewrite, kept, base
<1>11. <<Head(argv)>> \in Seq(W)
  BY <1>3
<1>12. QED
  BY <1>9, <1>10, <1>11 DEF W

\* Joined texts are a text.
LEMMA JoinType ==
    ASSUME NEW texts \in Seq(Text)
    PROVE  FoldLeft(Join, <<>>, texts) \in Text
<1>1. <<>> \in Text /\ \A s, t \in Text: Join(s, t) \in Text
  BY DEF Text, Join
<1> HIDE DEF Text
<1>2. JoinFold!Fold(<<>>, texts) \in Text
  BY <1>1, JoinFold!FoldType
<1>3. QED
  BY <1>2, JoinIsFold

LEMMA WordsType ==
    ASSUME NEW list \in Seq(Text)
    PROVE  Words(list) \in Text
<1> DEFINE W == Text
           spaced == [i \in DOMAIN list |->
                        IF i = 1 THEN list[i] ELSE <<Space>> \o list[i]]
<1>1. \A t \in W: <<Space>> \o t \in W
  <2>1. <<Space>> \in Text
    <3>1. Space \in Pieces
      BY DEF Pieces
    <3>2. QED
      BY <3>1, One, Zenon DEF Text
  <2>2. QED
    BY <2>1 DEF Text
<1>2. DOMAIN list = 1 .. Len(list) /\ Len(list) \in Nat
  OBVIOUS
<1>3. \A i \in 1 .. Len(list): list[i] \in W
  OBVIOUS
<1> HIDE DEF W
<1>4. \A i \in 1 .. Len(list): spaced[i] \in W
  BY <1>1, <1>2, <1>3
<1>5. spaced = [i \in 1 .. Len(list) |-> spaced[i]]
  BY <1>2
<1> HIDE DEF spaced
<1>6. spaced \in Seq(W)
  BY <1>2, <1>4, <1>5, SeqByPoints
<1>7. QED
  BY <1>6, JoinType DEF W, spaced, Words

LEMMA WrapType ==
    ASSUME NEW rule, IsRule(rule), NEW argv \in Seq(Text), argv # <<>>
    PROVE  Wrap(rule, argv) \in Text
<1> DEFINE W == Text
           rewritten == ApplyRewrite(argv, RewriteOf(rule))
           quoted == [i \in DOMAIN rewritten |-> QuoteForShell(rewritten[i])]
           front == <<WrapperEnv, <<"lacon">>, <<"run">>, RuleFlag, <<rule.id>>,
                      DashDash>>
<1>1. rewritten \in Seq(W)
  BY RewriteOfType, RewriteType
<1>2. /\ WrapperEnv \in W /\ <<"lacon">> \in W /\ <<"run">> \in W
      /\ RuleFlag \in W /\ <<rule.id>> \in W /\ DashDash \in W
  <2>1. /\ "LACON_SESSION_ID" \in Pieces /\ "=" \in Pieces /\ "id" \in Pieces
        /\ "lacon" \in Pieces /\ "run" \in Pieces /\ "-" \in Pieces
        /\ "rule" \in Pieces /\ rule.id \in Pieces
    BY DEF IsRule, Pieces
  <2>2. QED
    BY <2>1, One, Two, Three, Zenon DEF WrapperEnv, RuleFlag, DashDash, Text
<1>3. \A w \in W: QuoteForShell(w) \in W
  BY QuoteType
<1>4. Wrap(rule, argv) = Words(front \o quoted)
  BY DEF Wrap
<1> HIDE DEF W, rewritten
<1>5. DOMAIN rewritten = 1 .. Len(rewritten) /\ Len(rewritten) \in Nat
      /\ \A i \in 1 .. Len(rewritten): rewritten[i] \in W
  BY <1>1
<1>6. quoted \in Seq(W)
  <2>1. \A i \in 1 .. Len(rewritten): quoted[i] \in W
    BY <1>3, <1>5
  <2>2. quoted = [i \in 1 .. Len(rewritten) |-> quoted[i]]
    BY <1>5
  <2> HIDE DEF quoted
  <2>3. QED
    BY <1>5, <2>1, <2>2, SeqByPoints
<1>7. front \in Seq(W)
  BY <1>2, Six
<1> HIDE DEF quoted, front
<1>8. front \o quoted \in Seq(W)
  BY <1>6, <1>7
<1>9. QED
  BY <1>4, <1>8, WordsType DEF W

-----------------------------------------------------------------------------
(***************************************************************************)
(* What the shell reads of a command is a list.                            *)
(***************************************************************************)
IsList(s) == s \in Seq(Range(s))

LEMMA ListAppend ==
    ASSUME NEW s, IsList(s), NEW e
    PROVE  /\ IsList(Append(s, e)) /\ Len(Append(s, e)) = Len(s) + 1
           /\ Append(s, e)[Len(s) + 1] = e
           /\ \A i \in 1 .. Len(s): Append(s, e)[i] = s[i]
           /\ Len(s) \in Nat /\ DOMAIN s = 1 .. Len(s)
<1> DEFINE S == Range(s) \cup {e}
           t == Append(s, e)
<1>1. s \in Seq(S) /\ e \in S
  BY DEF IsList
<1> HIDE DEF S
<1>2. /\ t \in Seq(S) /\ Len(t) = Len(s) + 1 /\ t[Len(s) + 1] = e
      /\ \A i \in 1 .. Len(s): t[i] = s[i]
      /\ Len(s) \in Nat /\ DOMAIN s = 1 .. Len(s)
  BY <1>1
<1> HIDE DEF t
<1>3. t \in Seq(Range(t))
  <2>1. /\ t = [i \in 1 .. Len(t) |-> t[i]] /\ Len(t) \in Nat
        /\ \A i \in 1 .. Len(t): t[i] \in Range(t)
    BY <1>2 DEF Range
  <2>2. QED
    BY <2>1, SeqByPoints
<1>4. QED
  BY <1>2, <1>3 DEF t, IsList

LEMMA ListEmpty == IsList(<<>>)
BY DEF IsList

LEMMA ListOfSeq ==
    ASSUME NEW S, NEW s \in Seq(S)
    PROVE  IsList(s) /\ Len(s) \in Nat /\ DOMAIN s = 1 .. Len(s)
<1>1. /\ s = [i \in 1 .. Len(s) |-> s[i]] /\ Len(s) \in Nat
      /\ DOMAIN s = 1 .. Len(s)
      /\ \A i \in 1 .. Len(s): s[i] \in Range(s)
  BY DEF Range
<1>2. QED
  BY <1>1, SeqByPoints DEF IsList

ReadingFields == {"cmd", "rd", "pos", "start", "list", "at", "seen", "crossed"}
ReadingInv(acc) == DOMAIN acc = ReadingFields /\ IsList(acc.list)

LEMMA ReadAtKeeps ==
    ASSUME NEW acc, ReadingInv(acc), NEW i
    PROVE  ReadingInv(ReadAt(acc, i))
<1>1. ASSUME NEW b PROVE ReadingInv(LeaveComment(acc, b))
  <2>1. \/ LeaveComment(acc, b) = acc
        \/ LeaveComment(acc, b) = [acc EXCEPT !.rd = Pop(@)]
    BY DEF LeaveComment
  <2>2. ReadingInv([acc EXCEPT !.rd = Pop(@)])
    BY DEF ReadingInv, ReadingFields
  <2>3. QED
    BY <2>1, <2>2
<1>2. ASSUME NEW a, ReadingInv(a), NEW sep PROVE ReadingInv(EndCommand(a, i, sep))
  <2> DEFINE new == EndCommand(a, i, sep)
             e == [text |-> Rest(a, i), sep |-> sep]
  <2>1. DOMAIN new = ReadingFields /\ new.list = Append(a.list, e)
    BY <1>2 DEF EndCommand, ReadingInv, ReadingFields
  <2> HIDE DEF new, e
  <2>2. IsList(Append(a.list, e))
    BY <1>2, ListAppend DEF ReadingInv
  <2>3. ReadingInv(new)
    BY <2>1, <2>2 DEF ReadingInv
  <2>4. QED
    BY <2>3 DEF new
<1>3. ASSUME NEW a, ReadingInv(a), NEW crossed, NEW next
      PROVE  ReadingInv(ReadOn(a, i, crossed, next))
  BY <1>3 DEF ReadOn, ReadingInv, ReadingFields
<1>4. ASSUME NEW a, ReadingInv(a) PROVE ReadingInv(ReadFrom(a, i))
  BY <1>2, <1>3, <1>4 DEF ReadFrom
<1>5. QED
  BY <1>1, <1>4 DEF ReadAt

LEMMA ReadsList ==
    ASSUME NEW cmd \in Text
    PROVE  IsList(ShellReads(cmd).list) /\ Len(ShellReads(cmd).list) \in Nat
<1> DEFINE At(r) == ReadFold!Fold(NewReading(cmd), r)
           T == {r \in Seq(Nat): ReadingInv(At(r))}
           end == FoldLeft(ReadAt, NewReading(cmd), [i \in DOMAIN cmd |-> i])
           last == [text |-> Rest(end, Len(end.cmd) + 1), sep |-> <<>>]
<1>1. <<>> \in T
  <2>1. At(<<>>) = NewReading(cmd)
    BY ReadFold!FoldEmpty
  <2>2. ReadingInv(NewReading(cmd))
    BY ListEmpty DEF ReadingInv, NewReading, ReadingFields
  <2>3. QED
    BY <2>1, <2>2
<1>2. ASSUME NEW r \in T, NEW n \in Nat PROVE Append(r, n) \in T
  <2>1. r \in Seq(Nat) /\ ReadingInv(At(r))
    OBVIOUS
  <2>2. At(Append(r, n)) = ReadAt(At(r), n)
    BY <2>1, ReadFold!FoldAppend
  <2> HIDE DEF At
  <2>3. ReadingInv(At(Append(r, n)))
    BY <2>1, <2>2, ReadAtKeeps
  <2>4. Append(r, n) \in Seq(Nat)
    BY <2>1
  <2>5. QED
    BY <2>3, <2>4
<1>3. T \in SUBSET Seq(Nat)
  OBVIOUS
<1> HIDE DEF T
<1>4. T = Seq(Nat)
  BY <1>1, <1>2, <1>3, ReadFold!SeqInduction
<1>5. [i \in DOMAIN cmd |-> i] \in Seq(Nat)
  <2>1. DOMAIN cmd = 1 .. Len(cmd) /\ Len(cmd) \in Nat
    BY DEF Text
  <2>2. QED
    BY <2>1
<1>6. ReadingInv(end)
  BY <1>4, <1>5, ReadIsFold DEF T
<1>7. ShellReads(cmd).list = Append(end.list, last)
  BY DEF ShellReads, Reading
<1> HIDE DEF end, last
<1>8. IsList(Append(end.list, last)) /\ Len(Append(end.list, last)) = Len(end.list) + 1
      /\ Len(end.list) \in Nat
  BY <1>6, ListAppend DEF ReadingInv
<1>9. QED
  BY <1>7, <1>8

-----------------------------------------------------------------------------
(***************************************************************************)
(* The rule files, and what a loader has in hand.                          *)
(***************************************************************************)
AllDirs == RuleDirs \cup {BundledDir}
Entries(d) == IF d = BundledDir THEN 1 .. Len(Bundled) ELSE Names
Siblings(fs, d) ==
    IF d = BundledDir THEN Bundled ELSE [n \in Names |-> fs[d][n].rule]

\* What a rule file or a place in the binary can hold.
IsEntry(rule) == rule # Absent /\ (rule # NoFile => IsRule(rule))

FilesOK(fs, e) ==
    /\ e \in 0 .. MaxEdits
    /\ DOMAIN fs = RuleDirs
    /\ \A d \in RuleDirs:
          /\ DOMAIN fs[d] = Names
          /\ \A n \in Names: /\ IsEntry(fs[d][n].rule)
                             /\ fs[d][n].mtime \in 0 .. e

LoaderFields == {"project", "cache", "want", "id", "layers", "dir", "listing",
                 "content", "rules", "failed"}

LoaderOK(l, e) ==
    /\ DOMAIN l = LoaderFields
    /\ l.layers \in Seq(AllDirs) /\ Len(l.layers) <= 3
    /\ l.listing # {} => l.dir \in AllDirs /\ l.listing \subseteq Entries(l.dir)
    /\ l.content # Absent =>
          l.listing # {} /\ l.content # NoFile /\ IsRule(l.content)
    /\ IsList(l.rules)
    /\ \A r \in Range(l.rules): IsRule(r.rule)
    /\ \A c \in l.cache: c.mtime \in 0 .. e /\ IsRule(c.rule) /\ c.rule # Absent

LEMMA Distinct ==
    /\ UserDir \notin ProjectDirs /\ BundledDir \notin RuleDirs
    /\ UserDir \in RuleDirs /\ ProjectDirs \subseteq RuleDirs
    /\ RuleDirs \subseteq AllDirs /\ BundledDir \in AllDirs
    /\ Home \in ProjectDirs
    /\ UserDir # BundledDir /\ Home # UserDir /\ Home # BundledDir
BY LoaderAssumption, CallsAssumption DEF RuleDirs, AllDirs

LEMMA EntriesAreNumbers ==
    /\ Names = 1 .. Cardinality(Names) /\ Cardinality(Names) \in Nat
    /\ Len(Bundled) \in Nat /\ DOMAIN Bundled = 1 .. Len(Bundled)
    /\ \A d: Entries(d) \subseteq Nat
<1>1. /\ Names = 1 .. Cardinality(Names) /\ IsFiniteSet(Names)
      /\ Bundled \in Seq(Range(Bundled))
  BY LoaderAssumption
<1>2. Cardinality(Names) \in Nat
  BY <1>1, FS_CardinalityType
<1>3. Len(Bundled) \in Nat /\ DOMAIN Bundled = 1 .. Len(Bundled)
  BY <1>1
<1> DEFINE a == Cardinality(Names)
           b == Len(Bundled)
<1> HIDE DEF a, b
<1>4. \A d: Entries(d) \subseteq Nat
  <2>1. Names = 1 .. a /\ a \in Nat /\ b \in Nat
    BY <1>1, <1>2, <1>3 DEF a, b
  <2>2. \A d: Entries(d) = 1 .. b \/ Entries(d) = Names
    BY DEF Entries, b
  <2>3. QED
    BY <2>1, <2>2
<1>5. QED
  BY <1>1, <1>2, <1>3, <1>4

LEMMA BundledEntry ==
    ASSUME NEW n \in 1 .. Len(Bundled)
    PROVE  Bundled[n] # NoFile /\ IsEntry(Bundled[n])
<1>1. Bundled[n] \in Range(Bundled)
  BY EntriesAreNumbers DEF Range
<1>2. /\ \A rule \in Range(Bundled): IsRule(rule)
      /\ Absent \notin Range(Bundled) /\ NoFile \notin Range(Bundled)
  BY LoaderAssumption
<1>3. QED
  BY <1>1, <1>2 DEF IsEntry

LEMMA SiblingsAreRules ==
    ASSUME NEW fs, NEW e, FilesOK(fs, e), NEW d \in AllDirs
    PROVE  /\ AreRules(Siblings(fs, d))
           /\ DOMAIN Siblings(fs, d) = Entries(d)
           /\ \A n \in Entries(d): IsEntry(Siblings(fs, d)[n])
           /\ d = BundledDir =>
                 \A n \in Entries(d): Siblings(fs, d)[n] # NoFile
           /\ d # BundledDir =>
                 d \in RuleDirs /\ \A n \in Names: Siblings(fs, d)[n] = fs[d][n].rule
<1>1. CASE d = BundledDir
  <2>1. Siblings(fs, d) = Bundled /\ Entries(d) = 1 .. Len(Bundled)
    BY <1>1 DEF Siblings, Entries
  <2>2. \A n \in 1 .. Len(Bundled): Bundled[n] # NoFile /\ IsEntry(Bundled[n])
    BY BundledEntry
  <2>3. AreRules(Bundled)
    BY <2>2, EntriesAreNumbers DEF AreRules, IsEntry
  <2>4. QED
    BY <1>1, <2>1, <2>2, <2>3, EntriesAreNumbers
<1>2. CASE d # BundledDir
  <2>1. d \in RuleDirs
    BY <1>2 DEF AllDirs
  <2>2. Siblings(fs, d) = [n \in Names |-> fs[d][n].rule] /\ Entries(d) = Names
    BY <1>2 DEF Siblings, Entries
  <2>3. \A n \in Names: IsEntry(fs[d][n].rule)
    BY <2>1 DEF FilesOK
  <2>4. AreRules(Siblings(fs, d))
    <3>1. DOMAIN Siblings(fs, d) = 1 .. Cardinality(Names) /\ Cardinality(Names) \in Nat
      BY <2>2, EntriesAreNumbers
    <3>2. \A i \in Names: Siblings(fs, d)[i] # NoFile => IsRule(Siblings(fs, d)[i])
      BY <2>2, <2>3 DEF IsEntry
    <3>3. QED
      BY <3>1, <3>2, EntriesAreNumbers DEF AreRules
  <2>5. QED
    BY <1>2, <2>1, <2>2, <2>3, <2>4
<1>3. QED
  BY <1>1, <1>2

LEMMA RulesInIs == \A d: RulesIn(d) = Siblings(files, d)
BY DEF RulesIn, Siblings

\* The first entry of a listing is one of them.
LEMMA FirstEntry ==
    ASSUME NEW l, NEW e, LoaderOK(l, e), l.listing # {}
    PROVE  Min(l.listing) \in l.listing /\ Min(l.listing) \in Entries(l.dir)
<1>1. l.listing \in SUBSET Nat
  BY EntriesAreNumbers DEF LoaderOK
<1>2. MergeFold!Min(l.listing) \in l.listing
  BY <1>1, MergeFold!MinOfNaturals
<1>3. MergeFold!Min(l.listing) = Min(l.listing)
  BY DEF MergeFold!Min, Min
<1>4. QED
  BY <1>2, <1>3 DEF LoaderOK

LEMMA NewLoaderOK ==
    ASSUME NEW dir, NEW e
    PROVE  LoaderOK(NewLoader(dir), e) /\ NewLoader(dir).content = Absent
<1> DEFINE l == NewLoader(dir)
<1>1. /\ DOMAIN l = LoaderFields /\ l.layers = <<>> /\ l.listing = {}
      /\ l.content = Absent /\ l.rules = <<>> /\ l.cache = {}
  BY DEF NewLoader, LoaderFields
<1> HIDE DEF l
<1>2. Range(l.rules) = {} /\ <<>> \in Seq(AllDirs) /\ Len(<<>>) = 0
  BY <1>1 DEF Range
<1>3. LoaderOK(l, e)
  BY <1>1, <1>2, ListEmpty DEF LoaderOK
<1>4. QED
  BY <1>1, <1>3 DEF l

LEMMA BeginOK ==
    ASSUME NEW l, NEW e, LoaderOK(l, e), l.project \in ProjectDirs,
           l.content = Absent, NEW want, NEW id
    PROVE  /\ LoaderOK(Begin(l, want, id), e)
           /\ Begin(l, want, id)
                = [l EXCEPT !.want = want, !.id = id,
                            !.layers = <<l.project, UserDir, BundledDir>>,
                            !.rules = <<>>, !.failed = FALSE, !.listing = {},
                            !.dir = Absent]
<1> DEFINE new == Begin(l, want, id)
           dirs == <<l.project, UserDir, BundledDir>>
<1>1. new = [l EXCEPT !.want = want, !.id = id, !.layers = dirs,
                      !.rules = <<>>, !.failed = FALSE, !.listing = {},
                      !.dir = Absent]
  BY DEF Begin, Layers
<1>2. dirs \in Seq(AllDirs) /\ Len(dirs) = 3
  <2>1. l.project \in AllDirs /\ UserDir \in AllDirs /\ BundledDir \in AllDirs
    BY Distinct
  <2>2. QED
    BY <2>1, Three
<1> HIDE DEF new, dirs
<1>3. /\ DOMAIN new = LoaderFields /\ new.layers = dirs /\ new.listing = {}
      /\ new.content = Absent /\ new.rules = <<>> /\ new.cache = l.cache
  BY <1>1 DEF LoaderOK, LoaderFields
<1>4. LoaderOK(new, e)
  <2>1. Range(new.rules) = {}
    BY <1>3 DEF Range
  <2>2. IsList(new.rules) /\ \A r \in Range(new.rules): IsRule(r.rule)
    BY <1>3, <2>1, ListEmpty
  <2>3. \A c \in new.cache: c.mtime \in 0 .. e /\ IsRule(c.rule) /\ c.rule # Absent
    BY <1>3 DEF LoaderOK
  <2>4. new.layers \in Seq(AllDirs) /\ Len(new.layers) <= 3
    <3>1. new.layers \in Seq(AllDirs) /\ Len(new.layers) = 3
      BY <1>2, <1>3, Zenon
    <3>2. QED
      BY <3>1
  <2>5. QED
    BY <1>3, <2>2, <2>3, <2>4 DEF LoaderOK
<1>5. QED
  BY <1>1, <1>4 DEF new, dirs

\* What an opened directory gives.
OpenLayerIs(old, new, listing) ==
    new = [old EXCEPT !.layers = Tail(@), !.dir = Head(old.layers),
                      !.listing = listing]

LEMMA OpenLayerStep ==
    ASSUME FilesOK(files, edits), LoaderOK(loader, edits), OpenLayer
    PROVE  /\ LoaderOK(loader', edits)
           /\ loader.layers # <<>> /\ loader.listing = {}
           /\ loader.content = Absent
           /\ \E listing \in SUBSET Entries(Head(loader.layers)):
                 /\ OpenLayerIs(loader, loader', listing)
                 /\ \A n \in Entries(Head(loader.layers)):
                       Siblings(files, Head(loader.layers))[n] # NoFile
                           => n \in listing
<1> DEFINE d == Head(loader.layers)
           rules == Siblings(files, d)
           listing == {n \in DOMAIN rules: rules[n] # NoFile}
<1>1. /\ loader.layers # <<>> /\ loader.listing = {} /\ loader.content = Absent
      /\ OpenLayerIs(loader, loader', listing)
  BY RulesInIs DEF OpenLayer, OpenLayerIs
<1>2. d \in AllDirs /\ Tail(loader.layers) \in Seq(AllDirs)
      /\ Len(Tail(loader.layers)) <= 3
  BY <1>1 DEF LoaderOK
<1>3. DOMAIN rules = Entries(d)
  BY <1>2, SiblingsAreRules
<1>4. listing \subseteq Entries(d)
      /\ \A n \in Entries(d): rules[n] # NoFile => n \in listing
  BY <1>3
<1> HIDE DEF d, listing, rules
<1>5. /\ DOMAIN loader' = LoaderFields /\ loader'.layers = Tail(loader.layers)
      /\ loader'.dir = d /\ loader'.listing = listing
      /\ loader'.content = Absent /\ loader'.rules = loader.rules
      /\ loader'.cache = loader.cache
  BY <1>1 DEF OpenLayerIs, LoaderOK, LoaderFields, d
<1>6. LoaderOK(loader', edits)
  BY <1>2, <1>4, <1>5 DEF LoaderOK
<1>7. QED
  BY <1>1, <1>4, <1>6 DEF d, rules

\* What reading an entry gives: it is passed over, with or without an error,
\* or its content is in hand.
ReadEntryIs(old, new, rule) ==
    \/ /\ rule = NoFile
       /\ new = [old EXCEPT !.listing = @ \ {Min(old.listing)}, !.failed = TRUE]
    \/ /\ old.want = "one"
       /\ new = [old EXCEPT !.listing = @ \ {Min(old.listing)}]
    \/ /\ rule # NoFile
       /\ new = [old EXCEPT !.content = rule]

LEMMA ReadEntryStep ==
    ASSUME FilesOK(files, edits), LoaderOK(loader, edits), ReadEntry
    PROVE  /\ LoaderOK(loader', edits)
           /\ loader.listing # {} /\ loader.content = Absent
           /\ ReadEntryIs(loader, loader',
                          Siblings(files, loader.dir)[Min(loader.listing)])
<1> DEFINE n == Min(loader.listing)
           rule == Siblings(files, loader.dir)[n]
<1>1. loader.listing # {} /\ loader.content = Absent
  BY DEF ReadEntry
<1>2. ReadEntryIs(loader, loader', rule)
  BY RulesInIs DEF ReadEntry, ReadEntryIs, NextEntry
<1>3. n \in loader.listing /\ n \in Entries(loader.dir) /\ loader.dir \in AllDirs
  BY <1>1, FirstEntry DEF LoaderOK
<1>4. IsEntry(rule)
  BY <1>3, SiblingsAreRules
<1> HIDE DEF n, rule
<1>5. ASSUME NEW failed,
             loader' = [loader EXCEPT !.listing = @ \ {n}, !.failed = failed]
      PROVE  LoaderOK(loader', edits)
  <2>1. /\ DOMAIN loader' = LoaderFields /\ loader'.layers = loader.layers
        /\ loader'.dir = loader.dir /\ loader'.listing = loader.listing \ {n}
        /\ loader'.content = Absent /\ loader'.rules = loader.rules
        /\ loader'.cache = loader.cache
    BY <1>1, <1>5 DEF LoaderOK, LoaderFields
  <2>2. QED
    BY <2>1 DEF LoaderOK
<1>6. ASSUME loader' = [loader EXCEPT !.listing = @ \ {n}]
      PROVE  LoaderOK(loader', edits)
  <2>1. /\ DOMAIN loader' = LoaderFields /\ loader'.layers = loader.layers
        /\ loader'.dir = loader.dir /\ loader'.listing = loader.listing \ {n}
        /\ loader'.content = Absent /\ loader'.rules = loader.rules
        /\ loader'.cache = loader.cache
    BY <1>1, <1>6 DEF LoaderOK, LoaderFields
  <2>2. QED
    BY <2>1 DEF LoaderOK
<1>7. ASSUME loader' = [loader EXCEPT !.content = rule], rule # NoFile
      PROVE  LoaderOK(loader', edits)
  <2>1. /\ DOMAIN loader' = LoaderFields /\ loader'.layers = loader.layers
        /\ loader'.dir = loader.dir /\ loader'.listing = loader.listing
        /\ loader'.content = rule /\ loader'.rules = loader.rules
        /\ loader'.cache = loader.cache
    BY <1>7 DEF LoaderOK, LoaderFields
  <2>2. IsRule(rule)
    BY <1>4, <1>7 DEF IsEntry
  <2>3. loader'.content # Absent =>
          loader'.listing # {} /\ loader'.content # NoFile /\ IsRule(loader'.content)
    BY <1>1, <1>7, <2>1, <2>2
  <2>4. QED
    BY <2>1, <2>3 DEF LoaderOK
<1>8. LoaderOK(loader', edits)
  BY <1>2, <1>5, <1>6, <1>7 DEF ReadEntryIs, n
<1>9. QED
  BY <1>1, <1>2, <1>8 DEF n, rule

\* What compiling an entry gives: an error, or one rule more, which is the
\* cache's for the file and its mtime or comes from the content in hand.
CompileEntryIs(old, new, fs, flat) ==
    LET n == Min(old.listing)
        done == [old EXCEPT !.content = Absent, !.listing = @ \ {n}]
        entry == [dir |-> old.dir, name |-> n, mtime |-> fs[old.dir][n].mtime,
                  rule |-> flat]
    IN  \/ flat = Absent /\ new = [done EXCEPT !.failed = TRUE]
        \/ /\ flat # Absent
           /\ \/ new = [done EXCEPT
                          !.rules = Append(@, [source |-> old.dir, rule |-> flat])]
              \/ /\ old.dir # BundledDir
                 /\ flat = Load(old.content, Siblings(fs, old.dir))
                 /\ new = [done EXCEPT
                             !.rules = Append(@, [source |-> old.dir,
                                                  rule |-> flat]),
                             !.cache = @ \cup {entry}]

FlatFrom(old, fs, flat) ==
    \/ flat = Load(old.content, Siblings(fs, old.dir))
    \/ /\ old.dir # BundledDir
       /\ \E c \in old.cache: /\ c.dir = old.dir /\ c.name = Min(old.listing)
                              /\ c.mtime = fs[old.dir][Min(old.listing)].mtime
                              /\ c.rule = flat

LEMMA CompileEntryCases ==
    ASSUME CompileEntry
    PROVE  /\ loader.content # Absent
           /\ \E flat: /\ CompileEntryIs(loader, loader', files, flat)
                       /\ FlatFrom(loader, files, flat)
<1> DEFINE dir == loader.dir
           n == NextEntry
           gone == dir # BundledDir /\ files[dir][n].rule = NoFile
           hits == IF gone \/ dir = BundledDir THEN {} ELSE Cached(dir, n)
           fresh == Load(loader.content, RulesIn(dir))
           flat == IF hits # {} THEN (CHOOSE c \in hits: TRUE).rule ELSE fresh
           done == [loader EXCEPT !.content = Absent, !.listing = @ \ {n}]
           more == Append(loader.rules, [source |-> dir, rule |-> flat])
           entry == [dir |-> dir, name |-> n, mtime |-> Mtime(dir, n),
                     rule |-> flat]
<1>1. /\ loader.content # Absent
      /\ IF flat = Absent THEN loader' = [done EXCEPT !.failed = TRUE]
         ELSE loader' = [done EXCEPT
                           !.rules = Append(@, [source |-> dir, rule |-> flat]),
                           !.cache = IF gone \/ dir = BundledDir \/ hits # {} THEN @
                                     ELSE @ \cup {entry}]
  BY DEF CompileEntry
<1>2. n = Min(loader.listing) /\ fresh = Load(loader.content, Siblings(files, dir))
  BY RulesInIs DEF NextEntry
<1>3. dir # BundledDir => Mtime(dir, n) = files[dir][n].mtime
  BY DEF Mtime
<1>4. hits # {} => /\ dir # BundledDir /\ (CHOOSE c \in hits: TRUE) \in hits
                   /\ hits = Cached(dir, n)
  OBVIOUS
<1>5. FlatFrom(loader, files, flat)
  <2>1. CASE hits = {}
    BY <1>2, <2>1 DEF FlatFrom
  <2>2. CASE hits # {}
    <3> DEFINE c == CHOOSE x \in hits: TRUE
    <3>1. dir # BundledDir /\ c \in Cached(dir, n) /\ flat = c.rule
      BY <1>4, <2>2
    <3> HIDE DEF c, flat, hits
    <3>2. /\ c \in loader.cache /\ c.dir = dir /\ c.name = n
          /\ c.mtime = files[dir][n].mtime
      BY <1>3, <3>1 DEF Cached
    <3>3. QED
      BY <1>2, <3>1, <3>2 DEF FlatFrom
  <2>3. QED
    BY <2>1, <2>2
<1>6. hits = {} => flat = Load(loader.content, Siblings(files, dir))
  BY <1>2
<1>7. \/ /\ flat = Absent
         /\ loader' = [done EXCEPT !.failed = TRUE]
      \/ /\ flat # Absent
         /\ loader' = [done EXCEPT
                         !.rules = Append(@, [source |-> dir, rule |-> flat]),
                         !.cache = @]
      \/ /\ flat # Absent /\ dir # BundledDir /\ hits = {}
         /\ loader' = [done EXCEPT
                         !.rules = Append(@, [source |-> dir, rule |-> flat]),
                         !.cache = @ \cup {entry}]
  <2> HIDE DEF flat, hits, gone, entry, done, dir
  <2>1. QED
    BY <1>1
<1>8. [done EXCEPT !.rules = Append(@, [source |-> dir, rule |-> flat]),
                   !.cache = @]
        = [done EXCEPT !.rules = Append(@, [source |-> dir, rule |-> flat])]
  OBVIOUS
<1>9. dir # BundledDir =>
        entry = [dir |-> loader.dir, name |-> Min(loader.listing),
                 mtime |-> files[loader.dir][Min(loader.listing)].mtime,
                 rule |-> flat]
  BY <1>2, <1>3
<1>9a. /\ done = [loader EXCEPT !.content = Absent,
                                !.listing = @ \ {Min(loader.listing)}]
       /\ dir = loader.dir
  BY <1>2
<1> HIDE DEF flat, hits, gone, entry, done, dir, n
<1>10. CompileEntryIs(loader, loader', files, flat)
  BY <1>6, <1>7, <1>8, <1>9, <1>9a DEF CompileEntryIs
<1>11. QED
  BY <1>1, <1>5, <1>10

LEMMA FlatIsRule ==
    ASSUME FilesOK(files, edits), LoaderOK(loader, edits), loader.content # Absent,
           NEW flat, flat # Absent, FlatFrom(loader, files, flat)
    PROVE  IsRule(flat)
<1>1. CASE flat = Load(loader.content, Siblings(files, loader.dir))
  <2>1. IsRule(loader.content) /\ loader.dir \in AllDirs
    BY DEF LoaderOK
  <2>2. AreRules(Siblings(files, loader.dir))
    BY <2>1, SiblingsAreRules
  <2>3. QED
    BY <1>1, <2>1, <2>2, LoadKeeps
<1>2. CASE \E c \in loader.cache: c.rule = flat
  BY <1>2 DEF LoaderOK
<1>3. QED
  BY <1>1, <1>2 DEF FlatFrom

LEMMA CompileEntryStep ==
    ASSUME FilesOK(files, edits), LoaderOK(loader, edits), CompileEntry
    PROVE  LoaderOK(loader', edits)
<1> DEFINE n == Min(loader.listing)
           more(flat) == Append(loader.rules, [source |-> loader.dir, rule |-> flat])
           entry(flat) == [dir |-> loader.dir, name |-> n,
                           mtime |-> files[loader.dir][n].mtime, rule |-> flat]
<1>1. PICK flat: /\ CompileEntryIs(loader, loader', files, flat)
                 /\ FlatFrom(loader, files, flat)
  BY CompileEntryCases
<1>2. loader.content # Absent /\ loader.listing # {} /\ loader.dir \in AllDirs
  BY CompileEntryCases DEF LoaderOK
<1>3. n \in Entries(loader.dir)
  BY <1>2, FirstEntry
<1>4. loader.dir # BundledDir => files[loader.dir][n].mtime \in 0 .. edits
  BY <1>2, <1>3 DEF FilesOK, AllDirs, Entries
<1>5. flat # Absent => IsRule(flat)
  BY <1>1, <1>2, FlatIsRule
<1>6. ASSUME IsRule(flat)
      PROVE  IsList(more(flat)) /\ \A r \in Range(more(flat)): IsRule(r.rule)
  <2> DEFINE e == [source |-> loader.dir, rule |-> flat]
             m == Append(loader.rules, e)
  <2>1. IsList(loader.rules) /\ \A r \in Range(loader.rules): IsRule(r.rule)
    BY DEF LoaderOK
  <2>2. IsRule(e.rule)
    BY <1>6
  <2> HIDE DEF e
  <2>3. /\ IsList(m) /\ Len(m) = Len(loader.rules) + 1
        /\ m[Len(loader.rules) + 1] = e
        /\ \A i \in 1 .. Len(loader.rules): m[i] = loader.rules[i]
        /\ Len(loader.rules) \in Nat
        /\ DOMAIN loader.rules = 1 .. Len(loader.rules)
    BY <2>1, ListAppend
  <2> HIDE DEF m
  <2>4. DOMAIN m = 1 .. Len(loader.rules) + 1
    BY <2>3, ListOfSeq DEF IsList
  <2>5. \A r \in Range(m): r = e \/ r \in Range(loader.rules)
    BY <2>3, <2>4 DEF Range
  <2>6. QED
    BY <2>1, <2>2, <2>3, <2>5 DEF m, e
<1> DEFINE kept == /\ DOMAIN loader' = LoaderFields
                   /\ loader'.layers = loader.layers /\ loader'.dir = loader.dir
                   /\ loader'.listing = loader.listing \ {n}
                   /\ loader'.content = Absent
<1>7. \/ /\ kept /\ loader'.rules = loader.rules /\ loader'.cache = loader.cache
      \/ /\ flat # Absent /\ kept
         /\ loader'.rules = more(flat) /\ loader'.cache = loader.cache
      \/ /\ flat # Absent /\ kept /\ loader.dir # BundledDir
         /\ loader'.rules = more(flat)
         /\ loader'.cache = loader.cache \cup {entry(flat)}
  <2>1. DOMAIN loader = LoaderFields
    BY DEF LoaderOK
  <2>2. QED
    BY <1>1, <2>1 DEF CompileEntryIs, LoaderFields
<1>8. flat # Absent =>
        /\ entry(flat).rule = flat
        /\ loader.dir # BundledDir => entry(flat).mtime \in 0 .. edits
  BY <1>4
<1> HIDE DEF more, entry, n
<1>9. kept =>
        /\ DOMAIN loader' = LoaderFields
        /\ loader'.layers \in Seq(AllDirs) /\ Len(loader'.layers) <= 3
        /\ loader'.listing # {} =>
              loader'.dir \in AllDirs /\ loader'.listing \subseteq Entries(loader'.dir)
        /\ loader'.content = Absent
  BY DEF LoaderOK
<1>10. kept
  BY <1>7
<1> HIDE DEF kept
<1>11. IsList(loader'.rules) /\ \A r \in Range(loader'.rules): IsRule(r.rule)
  <2>1. CASE loader'.rules = loader.rules
    BY <2>1 DEF LoaderOK
  <2>2. CASE flat # Absent /\ loader'.rules = more(flat)
    BY <1>5, <1>6, <2>2
  <2>3. QED
    BY <1>7, <2>1, <2>2
<1>12. \A c \in loader'.cache: c.mtime \in 0 .. edits /\ IsRule(c.rule) /\ c.rule # Absent
  <2>1. \A c \in loader.cache: c.mtime \in 0 .. edits /\ IsRule(c.rule) /\ c.rule # Absent
    BY DEF LoaderOK
  <2>2. \/ loader'.cache = loader.cache
        \/ /\ flat # Absent /\ loader.dir # BundledDir
           /\ loader'.cache = loader.cache \cup {entry(flat)}
    BY <1>7
  <2>3. QED
    BY <1>5, <1>8, <2>1, <2>2
<1>13. QED
  BY <1>9, <1>10, <1>11, <1>12 DEF LoaderOK

\* A loader survives an edit: its cache keeps the old times.
LEMMA LaterOK ==
    ASSUME NEW l, NEW e \in Nat, LoaderOK(l, e)
    PROVE  LoaderOK(l, e + 1)
<1>1. 0 .. e \subseteq 0 .. e + 1
  OBVIOUS
<1>2. QED
  BY <1>1 DEF LoaderOK

LEMMA EditStep ==
    ASSUME FilesOK(files, edits), LoaderOK(loader, edits), EditRule
    PROVE  /\ FilesOK(files', edits') /\ LoaderOK(loader', edits')
           /\ loader' = loader /\ edits' = edits + 1 /\ edits \in Nat
<1>1. /\ edits < MaxEdits /\ edits' = edits + 1 /\ loader' = loader
      /\ edits \in 0 .. MaxEdits /\ MaxEdits \in Nat
  BY LoaderAssumption DEF EditRule, FilesOK
<1>2. PICK dir \in RuleDirs, n \in Names, rule \in Contents \cup {NoFile}:
          files' = [files EXCEPT ![dir][n] = [rule |-> rule, mtime |-> edits + 1]]
  BY DEF EditRule
<1>3. IsEntry(rule)
  BY LoaderAssumption DEF IsEntry
<1> DEFINE new == [rule |-> rule, mtime |-> edits + 1]
<1>4. new.rule = rule /\ new.mtime = edits + 1
  OBVIOUS
<1> HIDE DEF new
<1>5. \A d \in RuleDirs, m \in Names:
        files'[d][m] = IF d = dir /\ m = n THEN new ELSE files[d][m]
  BY <1>2 DEF FilesOK, new
<1>6. DOMAIN files' = RuleDirs /\ \A d \in RuleDirs: DOMAIN files'[d] = Names
  BY <1>2 DEF FilesOK
<1>7. edits' \in 0 .. MaxEdits /\ edits + 1 \in 0 .. edits' /\ 0 .. edits \subseteq 0 .. edits'
  BY <1>1
<1>8. FilesOK(files', edits')
  <2>1. ASSUME NEW d \in RuleDirs, NEW m \in Names
        PROVE  IsEntry(files'[d][m].rule) /\ files'[d][m].mtime \in 0 .. edits'
    BY <1>3, <1>4, <1>5, <1>7 DEF FilesOK
  <2>2. QED
    BY <1>6, <1>7, <2>1 DEF FilesOK
<1>9. LoaderOK(loader', edits')
  BY <1>1, LaterOK
<1>10. QED
  BY <1>1, <1>8, <1>9

-----------------------------------------------------------------------------
(***************************************************************************)
(* The call.                                                               *)
(***************************************************************************)
LEMMA NextCases ==
    ASSUME [Next]_vars
    PROVE  \/ Decide \/ RenderVerbatim \/ BeginMatch \/ RenderMatched
           \/ Reassemble
           \/ Loading
           \/ SkipCommand \/ RunCommand \/ StartLaconRun \/ LaconRun \/ Exit
           \/ Edit \/ UNCHANGED vars
BY Zenon DEF Next, Over

Before == {"hook", "segment", "match"}

\* Where the hook and the shell are in the command.
ControlOK ==
    /\ input \in Calls
    /\ phase \in {"hook", "segment", "match", "shell", "lacon run", "done"}
    /\ segments = IF phase = "hook" THEN <<>> ELSE SplitChain(input.command)
    /\ rendered \in Seq(Text) /\ Len(rendered) <= Len(segments)
    /\ IsList(chosen) /\ Len(chosen) <= Len(rendered)
    /\ phase = "match" =>
          Len(rendered) < Len(segments) /\ ArgvForResolution(Current) # <<>>
    /\ phase \in Before => pos = 1 /\ status = 0 /\ items = <<>> /\ cwd = Home
    /\ IsList(items) /\ pos \in 1 .. Len(items) + 1
    /\ phase = "lacon run" => pos <= Len(items)
    /\ status \in {0, 1} /\ cwd \in ProjectDirs

\* Whose loader it is, and that it has nothing in hand between two calls.
HolderOK ==
    /\ phase \in Before => loader.project = Home
    /\ phase = "match" => loader.want = "all"
    /\ phase \notin {"match", "lacon run"} => loader.content = Absent

HookInv ==
    /\ ControlOK /\ HolderOK
    /\ FilesOK(files, edits) /\ LoaderOK(loader, edits)

LEMMA CommandIsText ==
    ASSUME NEW in \in Calls
    PROVE  in.command \in Text
BY CallsAssumption, StringsAreTexts

LEMMA SegmentsFacts ==
    ASSUME NEW cmd \in Text
    PROVE  /\ SplitChain(cmd) \in Seq(Segments(Pieces))
           /\ IsList(SplitChain(cmd)) /\ Len(SplitChain(cmd)) \in Nat
           /\ DOMAIN SplitChain(cmd) = 1 .. Len(SplitChain(cmd))
           /\ SplitChain(cmd) # <<>>
           /\ \A i \in 1 .. Len(SplitChain(cmd)):
                 SplitChain(cmd)[i].text \in Text /\ SplitChain(cmd)[i].span \in Text
<1> DEFINE segs == SplitChain(cmd)
<1>1. segs \in Seq(Segments(Pieces)) /\ segs # <<>>
  BY SplitExact DEF Text
<1> HIDE DEF segs
<1>2. IsList(segs) /\ Len(segs) \in Nat /\ DOMAIN segs = 1 .. Len(segs)
  BY <1>1, ListOfSeq
<1>3. \A i \in 1 .. Len(segs): segs[i] \in Segments(Pieces)
  BY <1>1, <1>2
<1>4. \A seg \in Segments(Pieces): seg.text \in Text /\ seg.span \in Text
  BY DEF Segments, Text
<1>5. QED
  BY <1>1, <1>2, <1>3, <1>4 DEF segs

\* A list of texts put together between the operators is a text.
LEMMA RejoinType ==
    ASSUME NEW cmd \in Text, segments = SplitChain(cmd),
           NEW texts \in Seq(Text), Len(texts) = Len(segments)
    PROVE  Rejoin(texts) \in Text
<1> DEFINE whole == [i \in DOMAIN segments |-> texts[i] \o segments[i].span]
           W == Text
<1>1. /\ DOMAIN segments = 1 .. Len(segments) /\ Len(segments) \in Nat
      /\ \A i \in 1 .. Len(segments): segments[i].span \in Text
  BY SegmentsFacts
<1>2. \A i \in 1 .. Len(segments): texts[i] \in Text
  OBVIOUS
<1>3. \A s, t \in Text: s \o t \in Text
  BY DEF Text
<1> HIDE DEF Text
<1>4. \A i \in 1 .. Len(segments): whole[i] \in Text
  BY <1>1, <1>2, <1>3
<1>5. whole = [i \in 1 .. Len(segments) |-> whole[i]]
  BY <1>1
<1>6. Rejoin(texts) = FoldLeft(Join, <<>>, whole)
  BY DEF Rejoin
<1> HIDE DEF whole
<1>7. whole \in Seq(Text)
  BY <1>1, <1>4, <1>5, SeqByPoints
<1>8. QED
  BY <1>6, <1>7, JoinType

\* Taken apart and put together again, a command is what it was.
LEMMA RejoinParts ==
    ASSUME NEW cmd \in Text, segments = SplitChain(cmd)
    PROVE  Rejoin([i \in DOMAIN segments |-> segments[i].text]) = cmd
<1>1. [i \in DOMAIN segments |->
          [j \in DOMAIN segments |-> segments[j].text][i] \o segments[i].span]
        = Parts(segments)
  BY DEF Parts
<1>2. Rejoin([i \in DOMAIN segments |-> segments[i].text]) = Joined(segments)
  BY <1>1 DEF Rejoin, Joined
<1>3. Joined(SplitChain(cmd)) = cmd
  BY SplitExact DEF Text
<1>4. QED
  BY <1>2, <1>3

\* What the shell starts with.
LEMMA HandOverStep ==
    ASSUME NEW cmd \in Text, HandOver(cmd)
    PROVE  IsList(items') /\ Len(items') \in Nat /\ phase' = "shell"
BY ReadsList DEF HandOver

LEMMA CurrentFacts ==
    ASSUME ControlOK, phase # "hook", Len(rendered) < Len(segments)
    PROVE  /\ Current \in Text /\ ArgvForResolution(Current) \in Seq(Text)
           /\ Len(rendered) \in Nat /\ Len(segments) \in Nat
           /\ Len(rendered) + 1 <= Len(segments)
<1>1. input.command \in Text
  BY CommandIsText DEF ControlOK
<1>2. segments = SplitChain(input.command)
  BY DEF ControlOK
<1>3. Len(segments) \in Nat /\ \A i \in 1 .. Len(segments): segments[i].text \in Text
  BY <1>1, <1>2, SegmentsFacts
<1>4. Len(rendered) \in Nat
  <2>1. rendered \in Seq(Text)
    BY DEF ControlOK
  <2>2. QED
    BY <2>1, ListOfSeq
<1>5. Len(rendered) + 1 \in 1 .. Len(segments)
  BY <1>3, <1>4
<1>6. Current \in Text
  BY <1>3, <1>5 DEF Current
<1>7. QED
  BY <1>3, <1>4, <1>5, <1>6, ArgvType

\* What is appended to a sequence of texts makes one more of them.
LEMMA TextAppend ==
    ASSUME NEW texts \in Seq(Text), NEW t \in Text
    PROVE  Append(texts, t) \in Seq(Text) /\ Len(Append(texts, t)) = Len(texts) + 1
<1> HIDE DEF Text
<1>1. QED
  OBVIOUS

\* The rule that is found is one of those that were loaded.
LEMMA FirstMatchIs ==
    ASSUME NEW rules, IsList(rules), NEW argv
    PROVE  \/ FirstMatch(rules, argv) = NoFile
              /\ \A i \in DOMAIN rules: ~RuleMatchesArgv(rules[i].rule, argv)
           \/ \E i \in DOMAIN rules:
                 /\ FirstMatch(rules, argv) = rules[i]
                 /\ \A j \in DOMAIN rules:
                       RuleMatchesArgv(rules[j].rule, argv) => i <= j
<1> DEFINE hits == {i \in DOMAIN rules: RuleMatchesArgv(rules[i].rule, argv)}
<1>1. DOMAIN rules \subseteq Nat
  BY ListOfSeq DEF IsList
<1>2. CASE hits = {}
  BY <1>2 DEF FirstMatch
<1>3. CASE hits # {}
  <2>1. FirstMatch(rules, argv) = rules[Min(hits)]
    BY <1>3 DEF FirstMatch
  <2>2. hits \in SUBSET Nat
    BY <1>1
  <2>3. hits \subseteq DOMAIN rules
        /\ \A j \in DOMAIN rules: RuleMatchesArgv(rules[j].rule, argv) => j \in hits
    OBVIOUS
  <2> HIDE DEF hits
  <2>4. /\ MergeFold!Min(hits) \in hits
        /\ \A j \in hits: MergeFold!Min(hits) <= j
    BY <1>3, <2>2, MergeFold!MinOfNaturals
  <2>5. MergeFold!Min(hits) = Min(hits)
    BY DEF MergeFold!Min, Min
  <2>6. QED
    BY <2>1, <2>3, <2>4, <2>5
<1>4. QED
  BY <1>2, <1>3

LEMMA InvInit == Init => HookInv
<1> SUFFICES ASSUME Init PROVE HookInv
  OBVIOUS
<1>1. ControlOK
  <2>1. /\ input \in Calls /\ phase = "hook" /\ segments = <<>>
        /\ rendered = <<>> /\ chosen = <<>> /\ items = <<>> /\ pos = 1
        /\ status = 0 /\ cwd = Home
    BY DEF Init
  <2>2. IsList(<<>>) /\ <<>> \in Seq(Text) /\ Len(<<>>) = 0
    BY ListEmpty
  <2>3. QED
    BY <2>1, <2>2, Distinct DEF ControlOK, Before
<1>2. loader = NewLoader(Home) /\ edits = 0 /\ phase = "hook"
  BY DEF Init
<1>3. LoaderOK(loader, edits) /\ loader.content = Absent
  BY <1>2, NewLoaderOK
<1>4. HolderOK
  BY <1>2, <1>3 DEF HolderOK, NewLoader
<1>5. FilesOK(files, edits)
  <2> DEFINE tree == input.tree
  <2>1. /\ DOMAIN tree = RuleDirs
        /\ \A d \in RuleDirs, n \in Names: IsEntry(tree[d][n])
    BY CallsAssumption DEF Init, IsEntry
  <2>2. files = [d \in DOMAIN tree |->
                   [n \in Names |-> [rule |-> tree[d][n], mtime |-> 0]]]
    BY DEF Init, Contents0
  <2> HIDE DEF tree
  <2>3. DOMAIN files = RuleDirs
        /\ \A d \in RuleDirs: /\ DOMAIN files[d] = Names
                              /\ \A n \in Names: /\ files[d][n].rule = tree[d][n]
                                                 /\ files[d][n].mtime = 0
    BY <2>1, <2>2
  <2>4. 0 \in 0 .. MaxEdits /\ 0 \in 0 .. 0
    BY LoaderAssumption
  <2>5. QED
    BY <1>2, <2>1, <2>3, <2>4 DEF FilesOK
<1>6. QED
  BY <1>1, <1>3, <1>4, <1>5 DEF HookInv

LEMMA FilesStep ==
    ASSUME HookInv, [Next]_vars
    PROVE  FilesOK(files', edits')
<1>1. CASE Edit
  BY <1>1, EditStep DEF Edit, HookInv
<1>2. CASE ~Edit
  <2>1. UNCHANGED <<files, edits>>
    BY <1>2, NextCases, Zenon
       DEF Decide, RenderVerbatim, BeginMatch, RenderMatched, Reassemble,
           Loading, Walk, OpenLayer, ReadEntry, CompileEntry, SkipCommand,
           RunCommand, StartLaconRun, LaconRun, Exit, vars, loaderVars
  <2>2. QED
    BY <2>1 DEF HookInv
<1>3. QED
  BY <1>1, <1>2

\* What a step does with the loader.
LEMMA LoaderStep ==
    ASSUME HookInv, [Next]_vars
    PROVE  LoaderOK(loader', edits')
<1> USE DEF HookInv
<1>1. CASE /\ loader' = loader /\ edits' = edits
  BY <1>1
<1>2. CASE Edit
  BY <1>2, EditStep DEF Edit
<1>3. CASE BeginMatch
  <2>1. loader' = Begin(loader, "all", Absent) /\ edits' = edits /\ phase = "segment"
    BY <1>3 DEF BeginMatch
  <2>2. loader.project \in ProjectDirs /\ loader.content = Absent
    BY <2>1, Distinct DEF HolderOK, Before
  <2>3. QED
    BY <2>1, <2>2, BeginOK
<1>4. CASE RenderMatched
  <2>1. loader' = [loader EXCEPT !.want = "nothing"] /\ edits' = edits
    BY <1>4 DEF RenderMatched
  <2>2. /\ DOMAIN loader' = DOMAIN loader /\ loader'.layers = loader.layers
        /\ loader'.listing = loader.listing /\ loader'.dir = loader.dir
        /\ loader'.content = loader.content /\ loader'.rules = loader.rules
        /\ loader'.cache = loader.cache
    BY <2>1
  <2>3. QED
    BY <2>1, <2>2 DEF LoaderOK
<1>5. CASE Reassemble \/ LaconRun
  <2>1. loader' = NewLoader(Absent) /\ edits' = edits
    BY <1>5 DEF Reassemble, LaconRun
  <2>2. QED
    BY <2>1, NewLoaderOK
<1>6. CASE Loading
  <2>1. edits' = edits
    BY <1>6, Zenon DEF Loading, Walk, OpenLayer, ReadEntry, CompileEntry
  <2>2. QED
    BY <1>6, <2>1, OpenLayerStep, ReadEntryStep, CompileEntryStep
       DEF Loading, Walk
<1>7. CASE StartLaconRun
  <2>1. loader' = Begin(NewLoader(cwd), "one", WrappedId(Command)) /\ edits' = edits
    BY <1>7 DEF StartLaconRun
  <2>2. cwd \in ProjectDirs
    BY DEF ControlOK
  <2>3. NewLoader(cwd).project = cwd
    BY DEF NewLoader
  <2>4. QED
    BY <2>1, <2>2, <2>3, NewLoaderOK, BeginOK
<1>8. QED
  <2>1. CASE Decide \/ RenderVerbatim \/ SkipCommand \/ RunCommand \/ Exit
             \/ UNCHANGED vars
    <3>1. loader' = loader /\ edits' = edits
      BY <2>1 DEF Decide, RenderVerbatim, SkipCommand, RunCommand, Exit,
                  vars, loaderVars
    <3>2. QED
      BY <1>1, <3>1
  <2>2. QED
    BY <1>2, <1>3, <1>4, <1>5, <1>6, <1>7, <2>1, NextCases

LEMMA HolderStep ==
    ASSUME HookInv, [Next]_vars
    PROVE  HolderOK'
<1> USE DEF HookInv
<1>0. DOMAIN loader = LoaderFields
  BY DEF LoaderOK
<1>1. CASE Decide \/ RenderVerbatim \/ SkipCommand \/ RunCommand \/ Exit
           \/ UNCHANGED vars \/ Edit
  <2>1. loader' = loader
    BY <1>1 DEF Decide, RenderVerbatim, SkipCommand, RunCommand, Exit, Edit,
                EditRule, vars, loaderVars
  <2>2. \/ phase' = phase
        \/ phase = "hook" /\ phase' \in {"segment", "shell"}
        \/ phase = "shell" /\ phase' = "done"
    BY <1>1 DEF Decide, HandOver, RenderVerbatim, SkipCommand, RunCommand,
                Exit, Edit, vars
  <2>3. QED
    BY <2>1, <2>2 DEF HolderOK, Before
<1>2. CASE BeginMatch
  <2>1. /\ loader' = Begin(loader, "all", Absent)
        /\ phase = "segment" /\ phase' = "match"
    BY <1>2 DEF BeginMatch
  <2>2. loader.project = Home /\ loader.content = Absent
    BY <2>1 DEF HolderOK, Before
  <2>3. loader'.project = Home /\ loader'.want = "all"
    BY <1>0, <2>1, <2>2 DEF Begin, LoaderFields
  <2>4. QED
    BY <2>1, <2>3 DEF HolderOK
<1>3. CASE RenderMatched
  <2>1. /\ loader' = [loader EXCEPT !.want = "nothing"]
        /\ phase = "match" /\ phase' = "segment" /\ Finished(loader)
    BY <1>3 DEF RenderMatched
  <2>2. /\ loader'.project = loader.project /\ loader'.content = loader.content
        /\ loader.content = Absent
    BY <2>1 DEF Finished
  <2>3. QED
    BY <2>1, <2>2 DEF HolderOK, Before
<1>4. CASE Reassemble \/ LaconRun
  <2>1. loader' = NewLoader(Absent) /\ phase' = "shell"
    BY <1>4 DEF Reassemble, LaconRun, HandOver
  <2>2. QED
    BY <2>1, NewLoaderOK DEF HolderOK, Before
<1>5. CASE Loading
  <2>1. phase' = phase /\ phase \in {"match", "lacon run"}
    BY <1>5 DEF Loading
  <2>2. loader'.project = loader.project /\ loader'.want = loader.want
    <3>1. CASE OpenLayer
      BY <1>0, <3>1, OpenLayerStep DEF OpenLayerIs, LoaderFields
    <3>2. CASE ReadEntry
      BY <1>0, <3>2, ReadEntryStep DEF ReadEntryIs, LoaderFields
    <3>3. CASE CompileEntry
      BY <1>0, <3>3, CompileEntryCases DEF CompileEntryIs, LoaderFields
    <3>4. QED
      BY <1>5, <3>1, <3>2, <3>3 DEF Loading, Walk
  <2>3. QED
    BY <2>1, <2>2 DEF HolderOK, Before
<1>6. CASE StartLaconRun
  <2>1. phase' = "lacon run"
    BY <1>6 DEF StartLaconRun
  <2>2. QED
    BY <2>1 DEF HolderOK, Before
<1>7. QED
  BY <1>1, <1>2, <1>3, <1>4, <1>5, <1>6, NextCases

LEMMA DecideStep == ASSUME HookInv, Decide PROVE ControlOK'
<1>1. input.command \in Text /\ input' = input
  BY CommandIsText DEF HookInv, ControlOK, Decide
<1>2. /\ segments' = SplitChain(input.command) /\ phase = "hook"
      /\ UNCHANGED <<input, rendered, chosen, cwd, pos, status>>
  BY DEF Decide
<1>3. rendered = <<>> /\ chosen = <<>> /\ pos = 1 /\ status = 0 /\ items = <<>>
      /\ cwd = Home
  <2>1. /\ rendered \in Seq(Text) /\ Len(rendered) <= Len(<<>>)
        /\ IsList(chosen) /\ Len(chosen) <= Len(rendered)
        /\ pos = 1 /\ status = 0 /\ items = <<>> /\ cwd = Home
    BY <1>2 DEF HookInv, ControlOK, Before
  <2>2. rendered \in Seq(Text) /\ Len(rendered) <= 0 => rendered = <<>>
    <3> HIDE DEF Text
    <3>1. QED
      OBVIOUS
  <2>3. rendered = <<>>
    BY <2>1, <2>2
  <2>4. chosen \in Seq(Range(chosen)) /\ Len(chosen) <= 0 => chosen = <<>>
    OBVIOUS
  <2>5. QED
    BY <2>1, <2>3, <2>4 DEF IsList
<1>4. Len(SplitChain(input.command)) \in Nat
  BY <1>1, SegmentsFacts
<1>5. CASE phase' = "segment" /\ UNCHANGED <<outcome, items>>
  <2>1. IsList(<<>>) /\ <<>> \in Seq(Text) /\ Len(<<>>) = 0
    BY ListEmpty
  <2>2. input \in Calls /\ cwd \in ProjectDirs
    BY DEF HookInv, ControlOK
  <2>3. QED
    BY <1>1, <1>2, <1>3, <1>4, <1>5, <2>1, <2>2 DEF ControlOK, Before
<1>6. CASE HandOver(input.command)
  <2>1. IsList(items') /\ Len(items') \in Nat /\ phase' = "shell"
    BY <1>1, <1>6, HandOverStep
  <2>2. IsList(<<>>) /\ <<>> \in Seq(Text) /\ Len(<<>>) = 0
    BY ListEmpty
  <2>3. input \in Calls /\ cwd \in ProjectDirs
    BY DEF HookInv, ControlOK
  <2>4. pos' \in 1 .. Len(items') + 1
    BY <1>2, <1>3, <2>1
  <2>5. QED
    BY <1>1, <1>2, <1>3, <1>4, <2>1, <2>2, <2>3, <2>4 DEF ControlOK, Before
<1>7. QED
  BY <1>5, <1>6 DEF Decide

LEMMA RenderVerbatimStep == ASSUME HookInv, RenderVerbatim PROVE ControlOK'
<1>1. /\ phase = "segment" /\ phase' = phase /\ Len(rendered) < Len(segments)
      /\ rendered' = Append(rendered, Current)
      /\ UNCHANGED <<input, segments, chosen, cwd, items, pos, status>>
  BY DEF RenderVerbatim, shellVars
<1>2. /\ Current \in Text /\ Len(rendered) \in Nat /\ Len(segments) \in Nat
      /\ Len(rendered) + 1 <= Len(segments)
  BY <1>1, CurrentFacts DEF HookInv
<1>3. rendered' \in Seq(Text) /\ Len(rendered') = Len(rendered) + 1
  BY <1>1, <1>2, TextAppend DEF HookInv, ControlOK
<1>4. Len(chosen) <= Len(rendered) /\ Len(chosen) \in Nat
  BY ListOfSeq DEF HookInv, ControlOK, IsList
<1>5. Len(chosen') <= Len(rendered') /\ Len(rendered') <= Len(segments')
  BY <1>1, <1>2, <1>3, <1>4
<1>6. QED
  BY <1>1, <1>3, <1>5 DEF HookInv, ControlOK, Before

LEMMA BeginMatchStep == ASSUME HookInv, BeginMatch PROVE ControlOK'
<1>1. /\ phase = "segment" /\ phase' = "match" /\ Len(rendered) < Len(segments)
      /\ ArgvForResolution(Current) # <<>>
      /\ UNCHANGED <<input, segments, rendered, chosen, cwd, items, pos, status>>
  BY DEF BeginMatch, hookVars, shellVars
<1>2. Current' = Current
  BY <1>1 DEF Current
<1>3. QED
  BY <1>1, <1>2 DEF HookInv, ControlOK, Before

LEMMA RenderMatchedStep == ASSUME HookInv, RenderMatched PROVE ControlOK'
<1> DEFINE argv == ArgvForResolution(Current)
           hit == IF loader.failed THEN NoFile ELSE FirstMatch(loader.rules, argv)
           text == IF hit = NoFile THEN Current ELSE Wrap(hit.rule, argv)
           choice == [argv |-> argv, source |-> hit.source, rule |-> hit.rule]
<1>1. /\ phase = "match" /\ phase' = "segment"
      /\ rendered' = Append(rendered, text)
      /\ chosen' = IF hit = NoFile THEN chosen ELSE Append(chosen, choice)
      /\ UNCHANGED <<input, segments, cwd, items, pos, status>>
  BY DEF RenderMatched, shellVars
<1>2. argv # <<>> /\ Len(rendered) < Len(segments)
  BY <1>1 DEF HookInv, ControlOK
<1>3. /\ Current \in Text /\ argv \in Seq(Text)
      /\ Len(rendered) \in Nat /\ Len(segments) \in Nat
      /\ Len(rendered) + 1 <= Len(segments)
  BY <1>1, <1>2, CurrentFacts DEF HookInv
<1>4. hit = NoFile \/ IsRule(hit.rule)
  <2>1. IsList(loader.rules) /\ \A r \in Range(loader.rules): IsRule(r.rule)
    BY DEF HookInv, LoaderOK
  <2>2. \A i \in DOMAIN loader.rules: IsRule(loader.rules[i].rule)
    BY <2>1 DEF Range
  <2>3. QED
    BY <2>1, <2>2, FirstMatchIs
<1>5. text \in Text
  BY <1>2, <1>3, <1>4, WrapType
<1> HIDE DEF argv, hit, text, choice
<1>6. rendered' \in Seq(Text) /\ Len(rendered') = Len(rendered) + 1
  BY <1>1, <1>5, TextAppend DEF HookInv, ControlOK
<1>7. /\ IsList(chosen) /\ Len(chosen) <= Len(rendered) /\ Len(chosen) \in Nat
      /\ IsList(Append(chosen, choice))
      /\ Len(Append(chosen, choice)) = Len(chosen) + 1
  BY ListAppend DEF HookInv, ControlOK
<1>8. IsList(chosen') /\ Len(chosen') <= Len(rendered') /\ Len(rendered') <= Len(segments')
  BY <1>1, <1>3, <1>6, <1>7
<1>9. QED
  BY <1>1, <1>6, <1>8 DEF HookInv, ControlOK, Before

LEMMA ReassembleStep == ASSUME HookInv, Reassemble PROVE ControlOK'
<1> DEFINE cmd == IF chosen = <<>> THEN input.command ELSE Rejoin(rendered)
<1>1. /\ phase = "segment" /\ Len(rendered) = Len(segments) /\ HandOver(cmd)
      /\ UNCHANGED <<input, segments, rendered, chosen, cwd, pos, status>>
  BY DEF Reassemble
<1>2. cmd \in Text
  <2>1. input.command \in Text
    BY CommandIsText DEF HookInv, ControlOK
  <2>2. segments = SplitChain(input.command) /\ rendered \in Seq(Text)
    BY <1>1 DEF HookInv, ControlOK
  <2>3. Rejoin(rendered) \in Text
    BY <1>1, <2>1, <2>2, RejoinType
  <2>4. QED
    BY <2>1, <2>3
<1> HIDE DEF cmd
<1>3. IsList(items') /\ Len(items') \in Nat /\ phase' = "shell"
  BY <1>1, <1>2, HandOverStep
<1>4. pos' \in 1 .. Len(items') + 1
  BY <1>1, <1>3 DEF HookInv, ControlOK, Before
<1>5. QED
  BY <1>1, <1>3, <1>4 DEF HookInv, ControlOK, Before

LEMMA ShellStep ==
    ASSUME HookInv, SkipCommand \/ RunCommand \/ StartLaconRun \/ LaconRun \/ Exit
    PROVE  ControlOK'
<1>1. UNCHANGED <<input, segments, rendered, chosen, items>>
  BY DEF SkipCommand, RunCommand, StartLaconRun, LaconRun, Exit, hookVars, shellVars
<1>2. /\ phase \in {"shell", "lacon run"}
      /\ phase' \in {"shell", "lacon run", "done"}
  BY DEF SkipCommand, RunCommand, StartLaconRun, LaconRun, Exit
<1>3. IsList(items) /\ Len(items) \in Nat /\ pos \in 1 .. Len(items) + 1
  BY ListOfSeq DEF HookInv, ControlOK, IsList
<1>4. status' \in {0, 1} /\ cwd' \in ProjectDirs
  <2>1. status \in {0, 1} /\ cwd \in ProjectDirs
    BY DEF HookInv, ControlOK
  <2>2. CASE RunCommand
    BY <2>1, <2>2 DEF RunCommand
  <2>3. CASE LaconRun
    <3>1. cwd' = cwd /\ \E found \in BOOLEAN: status' \in IF found THEN {0, 1} ELSE {1}
      BY <2>3 DEF LaconRun
    <3>2. QED
      BY <2>1, <3>1
  <2>4. CASE SkipCommand \/ StartLaconRun \/ Exit
    BY <2>1, <2>4 DEF SkipCommand, StartLaconRun, Exit, shellVars
  <2>5. QED
    BY <2>2, <2>3, <2>4
<1>5. pos' \in 1 .. Len(items) + 1 /\ (phase' = "lacon run" => pos' <= Len(items))
  <2>1. CASE SkipCommand \/ RunCommand
    <3>1. pos <= Len(items) /\ pos' = pos + 1 /\ phase' = "shell"
      BY <2>1 DEF SkipCommand, RunCommand
    <3>2. QED
      BY <1>3, <3>1
  <2>2. CASE StartLaconRun
    <3>1. pos <= Len(items) /\ pos' = pos
      BY <2>2 DEF StartLaconRun, shellVars
    <3>2. QED
      BY <1>3, <3>1
  <2>3. CASE LaconRun
    <3>1. pos <= Len(items) /\ pos' = pos + 1 /\ phase' = "shell"
      BY <2>3 DEF LaconRun, HookInv, ControlOK
    <3>2. QED
      BY <1>3, <3>1
  <2>4. CASE Exit
    BY <1>3, <2>4 DEF Exit, shellVars
  <2>5. QED
    BY <2>1, <2>2, <2>3, <2>4
<1>6. QED
  BY <1>1, <1>2, <1>3, <1>4, <1>5 DEF HookInv, ControlOK, Before

LEMMA ControlStep == ASSUME HookInv, [Next]_vars PROVE ControlOK'
<1>1. CASE Loading \/ Edit \/ UNCHANGED vars
  <2>1. UNCHANGED <<input, phase, segments, rendered, chosen, cwd, items, pos,
                    status>>
    <3>1. UNCHANGED <<phase, hookVars, shellVars>>
      <4>1. CASE Loading
        BY <4>1, Zenon DEF Loading
      <4>2. CASE Edit
        BY <4>2, Zenon DEF Edit
      <4>3. CASE UNCHANGED vars
        BY <4>3 DEF vars
      <4>4. QED
        BY <1>1, <4>1, <4>2, <4>3
    <3>2. QED
      BY <3>1, Zenon DEF hookVars, shellVars
  <2>2. Current' = Current
    BY <2>1 DEF Current
  <2>3. QED
    BY <2>1, <2>2 DEF HookInv, ControlOK, Before
<1>2. QED
  BY <1>1, NextCases, DecideStep, RenderVerbatimStep, BeginMatchStep,
     RenderMatchedStep, ReassembleStep, ShellStep

LEMMA InvStep == ASSUME HookInv, [Next]_vars PROVE HookInv'
BY FilesStep, LoaderStep, HolderStep, ControlStep DEF HookInv

LEMMA InvAlways == Spec => []HookInv
BY InvInit, InvStep, PTL DEF Spec

\* Where the hook is in a command, and where the shell is, stays within the
\* command's segments and list; every cached rule has a time that has been.
THEOREM HookTypeCorrect == Spec => []HookTypeOK
<1>1. HookInv => HookTypeOK
  BY DEF HookInv, ControlOK, FilesOK, LoaderOK, HookTypeOK
<1>2. QED
  BY <1>1, InvAlways, PTL

\* Whatever the command, its segments and the operators between them are the
\* command byte by byte (chain.rs:16).
THEOREM RejoinsExactlyAlways == Spec => []RejoinsExactly
<1>1. HookInv => RejoinsExactly
  <2>1. SUFFICES ASSUME HookInv, HandedOver PROVE RejoinsExactly
    BY DEF RejoinsExactly
  <2>2. segments = SplitChain(input.command) /\ input.command \in Text
    BY <2>1, CommandIsText DEF HandedOver, HookInv, ControlOK
  <2>3. QED
    BY <2>2, RejoinParts DEF RejoinsExactly
<1>2. QED
  BY <1>1, InvAlways, PTL

-----------------------------------------------------------------------------
(***************************************************************************)
(* Every call comes to an end: the rank decreases.                         *)
(***************************************************************************)
Widest == Max({Cardinality(Names), Len(Bundled)})

Stage ==
    CASE phase = "hook" -> 3
      [] phase \in {"segment", "match"} -> 2
      [] phase \in {"shell", "lacon run"} -> 1
      [] phase = "done" -> 0
Left ==
    IF phase \in {"segment", "match"} THEN Len(segments) - Len(rendered)
    ELSE Len(items) - pos + 1
WalkOf(l) ==
    Len(l.layers) * (2 * Widest + 2) + 2 * Cardinality(l.listing)
        + IF l.content = Absent THEN 1 ELSE 0
Togo ==
    IF phase \in {"match", "lacon run"} THEN WalkOf(loader) ELSE 6 * Widest + 8

LEMMA RankIs == Rank = <<Stage, Left, Togo>>
BY DEF Rank, Stage, Left, Togo, WalkOf, Widest

LEMMA BelowCases ==
    ASSUME NEW a1, NEW a2, NEW a3, NEW b1, NEW b2, NEW b3,
           \/ a1 < b1
           \/ a1 = b1 /\ a2 < b2
           \/ a1 = b1 /\ a2 = b2 /\ a3 < b3
    PROVE  Below(<<a1, a2, a3>>, <<b1, b2, b3>>)
<1> DEFINE a == <<a1, a2, a3>>
           b == <<b1, b2, b3>>
<1>1. /\ DOMAIN a = 1 .. 3 /\ a[1] = a1 /\ a[2] = a2 /\ a[3] = a3
      /\ b[1] = b1 /\ b[2] = b2 /\ b[3] = b3
  OBVIOUS
<1>2. /\ \A j \in 1 .. 1 - 1: FALSE
      /\ \A j \in 1 .. 2 - 1: j = 1
      /\ \A j \in 1 .. 3 - 1: j = 1 \/ j = 2
      /\ 1 \in 1 .. 3 /\ 2 \in 1 .. 3 /\ 3 \in 1 .. 3
  OBVIOUS
<1> HIDE DEF a, b
<1>3. CASE a1 < b1
  <2>1. a[1] < b[1] /\ \A j \in 1 .. 1 - 1: a[j] = b[j]
    BY <1>1, <1>2, <1>3
  <2>2. QED
    BY <1>1, <1>2, <2>1, Zenon DEF Below, a, b
<1>4. CASE a1 = b1 /\ a2 < b2
  <2>1. a[2] < b[2] /\ \A j \in 1 .. 2 - 1: a[j] = b[j]
    BY <1>1, <1>2, <1>4
  <2>2. QED
    BY <1>1, <1>2, <2>1, Zenon DEF Below, a, b
<1>5. CASE a1 = b1 /\ a2 = b2 /\ a3 < b3
  <2>1. a[3] < b[3] /\ \A j \in 1 .. 3 - 1: a[j] = b[j]
    BY <1>1, <1>2, <1>5
  <2>2. QED
    BY <1>1, <1>2, <2>1, Zenon DEF Below, a, b
<1>6. QED
  BY <1>3, <1>4, <1>5

LEMMA WidestIs ==
    Widest \in Nat /\ Cardinality(Names) <= Widest /\ Len(Bundled) <= Widest
<1> DEFINE a == Cardinality(Names)
           b == Len(Bundled)
<1>1. a \in Nat /\ b \in Nat
  BY EntriesAreNumbers
<1>2. Widest = CHOOSE x \in {a, b}: \A y \in {a, b}: x >= y
  BY DEF Widest, Max
<1> HIDE DEF a, b
<1>3. \E x \in {a, b}: \A y \in {a, b}: x >= y
  BY <1>1
<1>4. Widest \in {a, b} /\ \A y \in {a, b}: Widest >= y
  BY <1>2, <1>3
<1>5. QED
  BY <1>1, <1>4 DEF a, b

LEMMA ListingSize ==
    ASSUME NEW d \in AllDirs, NEW S \in SUBSET Entries(d)
    PROVE  IsFiniteSet(S) /\ Cardinality(S) \in Nat /\ Cardinality(S) <= Widest
<1>1. IsFiniteSet(Entries(d)) /\ Cardinality(Entries(d)) <= Widest
  <2>1. CASE d = BundledDir
    <3>1. Entries(d) = 1 .. Len(Bundled) /\ Len(Bundled) \in Nat
      BY <2>1, EntriesAreNumbers DEF Entries
    <3> DEFINE b == Len(Bundled)
    <3> HIDE DEF b
    <3>2. b \in Nat /\ b <= Widest /\ Entries(d) = 1 .. b
      BY <3>1, WidestIs DEF b
    <3>3. IsFiniteSet(1 .. b) /\ Cardinality(1 .. b) = b
      BY <3>2, FS_Interval
    <3>4. QED
      BY <3>2, <3>3
  <2>2. CASE d # BundledDir
    BY <2>2, WidestIs, LoaderAssumption DEF Entries
  <2>3. QED
    BY <2>1, <2>2
<1>2. IsFiniteSet(S) /\ Cardinality(S) <= Cardinality(Entries(d))
  BY <1>1, FS_Subset
<1>3. Cardinality(S) \in Nat /\ Cardinality(Entries(d)) \in Nat
  BY <1>1, <1>2, FS_CardinalityType
<1>4. QED
  BY <1>1, <1>2, <1>3, WidestIs

LEMMA UpToThree ==
    ASSUME NEW n \in Nat, n <= 3
    PROVE  n \in 0 .. 3 /\ (n # 0 => n \in 1 .. 3)
OBVIOUS

LEMMA ListingFacts ==
    ASSUME NEW l, NEW e, LoaderOK(l, e)
    PROVE  /\ IsFiniteSet(l.listing) /\ Cardinality(l.listing) \in Nat
           /\ Cardinality(l.listing) <= Widest
           /\ Len(l.layers) \in 0 .. 3
<1>1. Len(l.layers) \in 0 .. 3
  <2>1. l.layers \in Seq(AllDirs) /\ Len(l.layers) <= 3
    BY DEF LoaderOK
  <2>2. Len(l.layers) \in Nat
    BY <2>1, ListOfSeq
  <2>3. QED
    BY <2>1, <2>2, UpToThree
<1>2. CASE l.listing = {}
  BY <1>1, <1>2, FS_EmptySet, WidestIs
<1>3. CASE l.listing # {}
  BY <1>1, <1>3, ListingSize DEF LoaderOK
<1>4. QED
  BY <1>2, <1>3

\* The arithmetic of a walk.
LEMMA LessWalk ==
    ASSUME NEW w \in Nat, NEW n \in 1 .. 3
    PROVE  (n - 1) * (2 * w + 2) = n * (2 * w + 2) - (2 * w + 2)
<1>1. n = 1 \/ n = 2 \/ n = 3
  OBVIOUS
<1>2. QED
  BY <1>1

LEMMA WalkType ==
    ASSUME NEW w \in Nat, NEW n \in 0 .. 3
    PROVE  n * (2 * w + 2) \in Nat
OBVIOUS

LEMMA TailShorter ==
    ASSUME NEW S, NEW s \in Seq(S), s # <<>>, Len(s) <= 3
    PROVE  Len(s) \in 1 .. 3 /\ Len(Tail(s)) = Len(s) - 1
<1>1. Len(s) \in Nat /\ Len(s) # 0 /\ Len(Tail(s)) = Len(s) - 1
  OBVIOUS
<1>2. QED
  BY <1>1, UpToThree

LEMMA OpenLayerLess ==
    ASSUME FilesOK(files, edits), LoaderOK(loader, edits), OpenLayer
    PROVE  WalkOf(loader') < WalkOf(loader)
<1>1. PICK listing \in SUBSET Entries(Head(loader.layers)):
          OpenLayerIs(loader, loader', listing)
  BY OpenLayerStep
<1>2. /\ loader.layers # <<>> /\ loader.listing = {} /\ loader.content = Absent
      /\ loader.layers \in Seq(AllDirs) /\ LoaderOK(loader', edits)
      /\ DOMAIN loader = LoaderFields
  BY OpenLayerStep DEF LoaderOK
<1>3. /\ loader'.layers = Tail(loader.layers) /\ loader'.content = Absent
  BY <1>1, <1>2 DEF OpenLayerIs, LoaderFields
<1> DEFINE n == Len(loader.layers)
           c == Cardinality(loader'.listing)
           w == Widest
<1>4. n \in 1 .. 3 /\ Len(loader'.layers) = n - 1
  <2>1. Len(loader.layers) <= 3
    BY DEF LoaderOK
  <2>2. QED
    BY <1>2, <1>3, <2>1, TailShorter
<1>5. c \in Nat /\ c <= w /\ w \in Nat
  BY <1>2, ListingFacts, WidestIs
<1>6. Cardinality(loader.listing) = 0
  BY <1>2, FS_EmptySet
<1>7. /\ WalkOf(loader) = n * (2 * w + 2) + 2 * 0 + 1
      /\ WalkOf(loader') = (n - 1) * (2 * w + 2) + 2 * c + 1
  BY <1>2, <1>3, <1>4, <1>6 DEF WalkOf
<1> HIDE DEF n, c, w
<1>8. (n - 1) * (2 * w + 2) = n * (2 * w + 2) - (2 * w + 2)
  BY <1>4, <1>5, LessWalk
<1>9. n * (2 * w + 2) \in Nat
  BY <1>4, <1>5, WalkType
<1> DEFINE p == n * (2 * w + 2)
<1> HIDE DEF p
<1>10. p \in Nat /\ WalkOf(loader) = p + 2 * 0 + 1
       /\ WalkOf(loader') = (p - (2 * w + 2)) + 2 * c + 1
  BY <1>7, <1>8, <1>9 DEF p
<1>11. QED
  BY <1>5, <1>10

\* An entry that is read or passed over, and one that is compiled.
LEMMA EntryLess ==
    ASSUME LoaderOK(loader, edits), LoaderOK(loader', edits),
           loader'.layers = loader.layers,
           \/ /\ loader.listing # {}
              /\ loader'.listing = loader.listing \ {Min(loader.listing)}
              /\ loader'.content = Absent
           \/ /\ loader'.listing = loader.listing /\ loader.content = Absent
              /\ loader'.content # Absent
    PROVE  WalkOf(loader') < WalkOf(loader)
<1> DEFINE p == Len(loader.layers) * (2 * Widest + 2)
           c == Cardinality(loader.listing)
           d == Cardinality(loader'.listing)
           at(l) == IF l.content = Absent THEN 1 ELSE 0
           x == at(loader)
           y == at(loader')
<1>1. p \in Nat
  <2>1. Len(loader.layers) \in 0 .. 3
    BY ListingFacts
  <2>2. QED
    BY <2>1, WidestIs, WalkType
<1>2. c \in Nat /\ d \in Nat
  BY ListingFacts
<1>3. x \in {0, 1} /\ y \in {0, 1}
  OBVIOUS
<1>4. WalkOf(loader) = p + 2 * c + x /\ WalkOf(loader') = p + 2 * d + y
  BY DEF WalkOf
<1>5. d = c - 1 \/ (d = c /\ x = 1 /\ y = 0)
  <2>1. ASSUME loader.listing # {},
               loader'.listing = loader.listing \ {Min(loader.listing)}
        PROVE  d = c - 1
    <3>1. Min(loader.listing) \in loader.listing /\ IsFiniteSet(loader.listing)
      BY <2>1, FirstEntry, ListingFacts
    <3>2. QED
      BY <2>1, <3>1, FS_RemoveElement
  <2>2. QED
    BY <2>1
<1> HIDE DEF p, c, d, x, y
<1>6. QED
  BY <1>1, <1>2, <1>3, <1>4, <1>5

LEMMA WalkLess ==
    ASSUME FilesOK(files, edits), LoaderOK(loader, edits), Walk
    PROVE  WalkOf(loader') < WalkOf(loader)
<1>0. DOMAIN loader = LoaderFields
  BY DEF LoaderOK
<1>1. CASE OpenLayer
  BY <1>1, OpenLayerLess
<1>2. CASE ReadEntry
  <2>1. /\ LoaderOK(loader', edits) /\ loader.listing # {} /\ loader.content = Absent
        /\ ReadEntryIs(loader, loader',
                       Siblings(files, loader.dir)[Min(loader.listing)])
    BY <1>2, ReadEntryStep
  <2> DEFINE rule == Siblings(files, loader.dir)[Min(loader.listing)]
  <2>2. IsEntry(rule)
    BY <2>1, FirstEntry, SiblingsAreRules DEF LoaderOK
  <2> HIDE DEF rule
  <2>3. /\ loader'.layers = loader.layers
        /\ \/ /\ loader'.listing = loader.listing \ {Min(loader.listing)}
              /\ loader'.content = Absent
           \/ /\ loader'.listing = loader.listing /\ loader'.content # Absent
    <3>1. ReadEntryIs(loader, loader', rule)
      BY <2>1 DEF rule
    <3>2. QED
      BY <1>0, <2>1, <2>2, <3>1 DEF ReadEntryIs, IsEntry, LoaderFields
  <2>4. QED
    BY <2>1, <2>3, EntryLess
<1>3. CASE CompileEntry
  <2>1. PICK flat: CompileEntryIs(loader, loader', files, flat)
    BY <1>3, CompileEntryCases
  <2>2. loader.listing # {} /\ LoaderOK(loader', edits)
    BY <1>3, CompileEntryCases, CompileEntryStep DEF LoaderOK
  <2>3. /\ loader'.layers = loader.layers
        /\ loader'.listing = loader.listing \ {Min(loader.listing)}
        /\ loader'.content = Absent
    BY <1>0, <2>1 DEF CompileEntryIs, LoaderFields
  <2>4. QED
    BY <2>2, <2>3, EntryLess
<1>4. QED
  BY <1>1, <1>2, <1>3 DEF Walk

LEMMA RankNext == Rank' = <<Stage', Left', Togo'>>
BY DEF Rank, Stage, Left, Togo, WalkOf, Widest

\* One of the three parts goes down and those before it stay.
Lower == \/ Stage' < Stage
         \/ Stage' = Stage /\ Left' < Left
         \/ Stage' = Stage /\ Left' = Left /\ Togo' < Togo

LEMMA LowerIsBelow == ASSUME Lower PROVE Below(Rank', Rank)
BY RankIs, RankNext, BelowCases DEF Lower

LEMMA BeginLess ==
    ASSUME NEW l, l.layers = <<l.project, UserDir, BundledDir>>,
           l.listing = {}, l.content = Absent
    PROVE  WalkOf(l) < 6 * Widest + 8
<1> DEFINE w == Widest
<1>1. Len(l.layers) = 3 /\ Cardinality(l.listing) = 0
  <2>1. \A a, b, c: Len(<<a, b, c>>) = 3
    OBVIOUS
  <2>2. QED
    BY <2>1, FS_EmptySet
<1>2. WalkOf(l) = 3 * (2 * w + 2) + 2 * 0 + 1
  BY <1>1 DEF WalkOf
<1>3. w \in Nat
  BY WidestIs
<1> HIDE DEF w
<1>4. 3 * (2 * w + 2) + 2 * 0 + 1 < 6 * w + 8
  BY <1>3
<1>5. QED
  BY <1>2, <1>4 DEF w

LEMMA BeginMatchLower == ASSUME HookInv, BeginMatch PROVE Lower
<1>1. /\ phase = "segment" /\ phase' = "match"
      /\ loader' = Begin(loader, "all", Absent)
      /\ UNCHANGED <<segments, rendered>>
  BY DEF BeginMatch, hookVars
<1>2. /\ loader.content = Absent /\ loader.project \in ProjectDirs
      /\ LoaderOK(loader, edits) /\ DOMAIN loader = LoaderFields
  BY <1>1, Distinct DEF HookInv, HolderOK, Before, LoaderOK
<1>3. /\ loader'.layers = <<loader'.project, UserDir, BundledDir>>
      /\ loader'.listing = {} /\ loader'.content = Absent
  BY <1>1, <1>2 DEF Begin, Layers, LoaderFields
<1>4. WalkOf(loader') < 6 * Widest + 8
  BY <1>3, BeginLess
<1>5. Togo' = WalkOf(loader') /\ Togo = 6 * Widest + 8
  BY <1>1 DEF Togo, WalkOf
<1>6. Stage' = Stage /\ Left' = Left
  BY <1>1 DEF Stage, Left
<1>7. QED
  BY <1>4, <1>5, <1>6 DEF Lower

LEMMA StartLower == ASSUME HookInv, StartLaconRun PROVE Lower
<1>1. /\ phase = "shell" /\ phase' = "lacon run"
      /\ loader' = Begin(NewLoader(cwd), "one", WrappedId(Command))
      /\ UNCHANGED <<items, pos>>
  BY DEF StartLaconRun, shellVars
<1>2. /\ loader'.layers = <<loader'.project, UserDir, BundledDir>>
      /\ loader'.listing = {} /\ loader'.content = Absent
  BY <1>1 DEF Begin, Layers, NewLoader
<1>3. WalkOf(loader') < 6 * Widest + 8
  BY <1>2, BeginLess
<1>4. Togo' = WalkOf(loader') /\ Togo = 6 * Widest + 8
  BY <1>1 DEF Togo, WalkOf
<1>5. Stage' = Stage /\ Left' = Left
  BY <1>1 DEF Stage, Left
<1>6. QED
  BY <1>3, <1>4, <1>5 DEF Lower

LEMMA LoadingLower == ASSUME HookInv, Loading PROVE Lower
<1>1. /\ Walk /\ phase \in {"match", "lacon run"}
      /\ UNCHANGED <<phase, hookVars, shellVars>>
  BY DEF Loading
<1>2. UNCHANGED <<segments, rendered, items, pos>>
  BY <1>1 DEF hookVars, shellVars
<1>3. WalkOf(loader') < WalkOf(loader)
  BY <1>1, WalkLess DEF HookInv
<1>4. Togo' = WalkOf(loader') /\ Togo = WalkOf(loader)
  BY <1>1 DEF Togo, WalkOf
<1>5. Stage' = Stage /\ Left' = Left
  BY <1>1, <1>2 DEF Stage, Left
<1>6. QED
  BY <1>3, <1>4, <1>5 DEF Lower

LEMMA RenderLower ==
    ASSUME HookInv, RenderVerbatim \/ RenderMatched
    PROVE  Lower
<1>1. /\ phase \in {"segment", "match"} /\ phase' = "segment"
      /\ segments' = segments
      /\ \E t: rendered' = Append(rendered, t)
  BY DEF RenderVerbatim, RenderMatched
<1>2. /\ Len(rendered) \in Nat /\ Len(segments) \in Nat
      /\ Len(rendered') = Len(rendered) + 1
  <2>1. rendered \in Seq(Text) /\ segments = SplitChain(input.command)
        /\ input.command \in Text
    BY <1>1, CommandIsText DEF HookInv, ControlOK
  <2>2. IsList(rendered)
    BY <2>1, ListOfSeq
  <2>3. Len(rendered') = Len(rendered) + 1 /\ Len(rendered) \in Nat
    BY <1>1, <2>2, ListAppend
  <2>4. QED
    BY <2>1, <2>3, SegmentsFacts
<1>3. Stage = 2 /\ Stage' = 2
  BY <1>1 DEF Stage
<1>4. Left = Len(segments) - Len(rendered) /\ Left' = Len(segments) - Len(rendered')
  BY <1>1 DEF Left
<1>5. Left' < Left
  BY <1>2, <1>4
<1>6. QED
  BY <1>3, <1>5 DEF Lower

LEMMA NextCommandLower ==
    ASSUME HookInv, SkipCommand \/ RunCommand \/ LaconRun
    PROVE  Lower
<1>1. /\ phase \in {"shell", "lacon run"} /\ phase' = "shell"
      /\ items' = items /\ pos' = pos + 1
  BY DEF SkipCommand, RunCommand, LaconRun
<1>2. Len(items) \in Nat /\ pos \in Nat
  <2>1. IsList(items) /\ pos \in 1 .. Len(items) + 1
    BY DEF HookInv, ControlOK
  <2>2. QED
    BY <2>1, ListOfSeq DEF IsList
<1>3. Stage = 1 /\ Stage' = 1
  BY <1>1 DEF Stage
<1>4. Left = Len(items) - pos + 1 /\ Left' = Len(items) - pos' + 1
  BY <1>1 DEF Left
<1> DEFINE n == Len(items)
<1>5. n \in Nat /\ Left = n - pos + 1 /\ Left' = n - (pos + 1) + 1
  BY <1>1, <1>2, <1>4
<1> HIDE DEF n
<1>6. Left' < Left
  BY <1>2, <1>5
<1>7. QED
  BY <1>3, <1>6 DEF Lower

LEMMA StageLower ==
    ASSUME Decide \/ Reassemble \/ Exit
    PROVE  Lower
<1>1. \/ phase = "hook" /\ phase' \in {"segment", "shell"}
      \/ phase = "segment" /\ phase' = "shell"
      \/ phase = "shell" /\ phase' = "done"
  BY DEF Decide, Reassemble, Exit, HandOver
<1>2. \/ Stage = 3 /\ Stage' \in {2, 1}
      \/ Stage = 2 /\ Stage' = 1
      \/ Stage = 1 /\ Stage' = 0
  <2>1. CASE phase = "hook" /\ phase' \in {"segment", "shell"}
    <3>1. Stage = 3 /\ Stage' \in {2, 1}
      BY <2>1 DEF Stage
    <3>2. QED
      BY <3>1
  <2>2. CASE phase = "segment" /\ phase' = "shell"
    <3>1. Stage = 2 /\ Stage' = 1
      BY <2>2 DEF Stage
    <3>2. QED
      BY <3>1
  <2>3. CASE phase = "shell" /\ phase' = "done"
    <3>1. Stage = 1 /\ Stage' = 0
      BY <2>3 DEF Stage
    <3>2. QED
      BY <3>1
  <2>4. QED
    BY <1>1, <2>1, <2>2, <2>3
<1>3. Stage' < Stage
  BY <1>2
<1>4. QED
  BY <1>3 DEF Lower

LEMMA EditKeeps ==
    ASSUME HookInv, Edit
    PROVE  Rank' = Rank /\ edits' > edits
<1>1. loader' = loader /\ edits' = edits + 1 /\ edits \in Nat
  BY EditStep DEF Edit, HookInv
<1>2. UNCHANGED <<phase, hookVars, shellVars>>
  BY Zenon DEF Edit
<1>3. UNCHANGED <<phase, segments, rendered, items, pos>>
  BY <1>2 DEF hookVars, shellVars
<1>4. Rank' = Rank
  BY <1>1, <1>3 DEF Rank
<1>5. QED
  BY <1>1, <1>4

\* Each step of a call leaves less to do, and an edit leaves no more: with
\* any rules, layers and commands a call comes to its end.
THEOREM CallEndsAlways == Spec => CallEnds
<1>1. ASSUME HookInv, [Next]_vars
      PROVE  [Below(Rank', Rank) \/ (Rank' = Rank /\ edits' > edits)]_vars
  BY <1>1, NextCases, LowerIsBelow, BeginMatchLower, StartLower, LoadingLower,
     RenderLower, NextCommandLower, StageLower, EditKeeps, Zenon
<1>2. QED
  BY <1>1, InvAlways, PTL DEF Spec, CallEnds

-----------------------------------------------------------------------------
(***************************************************************************)
(* Every rule that is loaded was in some file of its layer.                *)
(***************************************************************************)
KnownIn(disk, source, rule) ==
    \E e \in disk: /\ e[1] = source /\ e[3] # NoFile
                   /\ e[3].id = rule.id
                   /\ e[3].extends = Absent => e[3] = rule

SourceKnown(disk, r) == r.source = BundledDir \/ KnownIn(disk, r.source, r.rule)

InHand(disk, l) ==
    l.content # Absent /\ l.dir # BundledDir =>
        \E e \in disk: e[1] = l.dir /\ e[3] = l.content

OnDiskOK(disk, fs) ==
    \A d \in RuleDirs, n \in Names: <<d, n, fs[d][n].rule>> \in disk

OriginsOK ==
    /\ OnDiskOK(onDisk, files)
    /\ InHand(onDisk, loader)
    /\ \A c \in loader.cache: KnownIn(onDisk, c.dir, c.rule)
    /\ \A r \in Range(loader.rules): SourceKnown(onDisk, r)
    /\ \A r \in Range(chosen): SourceKnown(onDisk, r)

LEMMA OriginsInit == Init => OriginsOK
<1> SUFFICES ASSUME Init PROVE OriginsOK
  OBVIOUS
<1> DEFINE tree == input.tree
<1>1. /\ files = [d \in DOMAIN tree |->
                    [n \in Names |-> [rule |-> tree[d][n], mtime |-> 0]]]
      /\ onDisk = {<<d, n, tree[d][n]>> : d \in DOMAIN tree, n \in Names}
      /\ DOMAIN tree = RuleDirs
  BY CallsAssumption DEF Init, Contents0
<1> HIDE DEF tree
<1>2. \A d \in RuleDirs, n \in Names:
          files[d][n].rule = tree[d][n] /\ <<d, n, tree[d][n]>> \in onDisk
  BY <1>1
<1>3. OnDiskOK(onDisk, files)
  BY <1>2 DEF OnDiskOK
<1>4. /\ loader.content = Absent /\ loader.cache = {} /\ loader.rules = <<>>
      /\ chosen = <<>> /\ Range(<<>>) = {}
  BY DEF Init, NewLoader, Range
<1>5. QED
  BY <1>3, <1>4 DEF OriginsOK, InHand

\* Nothing is forgotten.
LEMMA KnownGrows ==
    ASSUME NEW disk, NEW more, disk \subseteq more, NEW r
    PROVE  /\ SourceKnown(disk, r) => SourceKnown(more, r)
           /\ KnownIn(disk, r.dir, r.rule) => KnownIn(more, r.dir, r.rule)
BY DEF SourceKnown, KnownIn

LEMMA EditOrigins == ASSUME HookInv, OriginsOK, Edit PROVE OriginsOK'
<1>1. /\ loader' = loader /\ UNCHANGED chosen
      /\ onDisk' = onDisk \cup {<<d, n, files'[d][n].rule>> :
                                  d \in RuleDirs, n \in Names}
  <2>1. DOMAIN files = RuleDirs
    BY DEF HookInv, FilesOK
  <2>2. UNCHANGED hookVars /\ EditRule
        /\ onDisk' = onDisk \cup {<<d, n, files'[d][n].rule>> :
                                    d \in DOMAIN files, n \in Names}
    BY DEF Edit
  <2>3. QED
    BY <2>1, <2>2 DEF hookVars, EditRule
<1>2. onDisk \subseteq onDisk' /\ OnDiskOK(onDisk', files')
  BY <1>1 DEF OnDiskOK
<1>3. InHand(onDisk', loader')
  BY <1>1, <1>2 DEF OriginsOK, InHand
<1>4. \A c \in loader'.cache: KnownIn(onDisk', c.dir, c.rule)
  BY <1>1, <1>2, KnownGrows DEF OriginsOK
<1>5. /\ \A r \in Range(loader'.rules): SourceKnown(onDisk', r)
      /\ \A r \in Range(chosen'): SourceKnown(onDisk', r)
  BY <1>1, <1>2, KnownGrows DEF OriginsOK
<1>6. QED
  BY <1>2, <1>3, <1>4, <1>5 DEF OriginsOK

\* What the compilation of an entry gives is known.
LEMMA FlatIsKnown ==
    ASSUME HookInv, OriginsOK, loader.content # Absent,
           NEW flat, flat # Absent, FlatFrom(loader, files, flat)
    PROVE  loader.dir = BundledDir \/ KnownIn(onDisk, loader.dir, flat)
<1>1. CASE loader.dir # BundledDir
           /\ flat = Load(loader.content, Siblings(files, loader.dir))
  <2>1. /\ IsRule(loader.content) /\ loader.dir \in AllDirs
        /\ loader.content # NoFile
    BY DEF HookInv, LoaderOK
  <2>2. AreRules(Siblings(files, loader.dir))
    BY <2>1, SiblingsAreRules DEF HookInv
  <2>3. /\ flat.id = loader.content.id
        /\ loader.content.extends = Absent => flat = loader.content
    BY <1>1, <2>1, <2>2, LoadKeeps
  <2>4. PICK e \in onDisk: e[1] = loader.dir /\ e[3] = loader.content
    BY <1>1 DEF OriginsOK, InHand
  <2>5. QED
    BY <2>1, <2>3, <2>4 DEF KnownIn
<1>2. CASE \E c \in loader.cache: c.dir = loader.dir /\ c.rule = flat
  BY <1>2 DEF OriginsOK
<1>3. QED
  BY <1>1, <1>2 DEF FlatFrom

LEMMA RangeAppend ==
    ASSUME NEW s, IsList(s), NEW e
    PROVE  Range(Append(s, e)) = Range(s) \cup {e}
<1> DEFINE t == Append(s, e)
           n == Len(s)
<1>1. /\ IsList(t) /\ Len(t) = n + 1 /\ t[n + 1] = e
      /\ \A i \in 1 .. n: t[i] = s[i]
      /\ n \in Nat /\ DOMAIN s = 1 .. n
  BY ListAppend
<1>2. DOMAIN t = 1 .. Len(t)
  BY <1>1, ListOfSeq DEF IsList
<1> HIDE DEF t, n
<1>3. QED
  <2>1. DOMAIN t = 1 .. n + 1
    BY <1>1, <1>2
  <2>2. Range(t) = Range(s) \cup {e}
    BY <1>1, <2>1 DEF Range
  <2>3. QED
    BY <2>2 DEF t

LEMMA LoadingOrigins == ASSUME HookInv, OriginsOK, Loading PROVE OriginsOK'
<1>0. DOMAIN loader = LoaderFields /\ IsList(loader.rules)
      /\ FilesOK(files, edits) /\ LoaderOK(loader, edits)
  BY DEF HookInv, LoaderOK
<1>1. UNCHANGED <<files, onDisk, chosen>> /\ Walk
  <2>1. Walk /\ UNCHANGED <<hookVars, onDisk>>
    BY DEF Loading
  <2>2. QED
    BY <2>1, Zenon DEF hookVars, Walk, OpenLayer, ReadEntry, CompileEntry
<1>2. CASE OpenLayer
  <2>1. /\ loader'.content = Absent /\ loader'.cache = loader.cache
        /\ loader'.rules = loader.rules
    BY <1>0, <1>2, OpenLayerStep DEF OpenLayerIs, LoaderFields
  <2>2. QED
    BY <1>1, <2>1 DEF OriginsOK, InHand
<1>3. CASE ReadEntry
  <2> DEFINE n == Min(loader.listing)
             rule == Siblings(files, loader.dir)[n]
  <2>1. /\ loader.listing # {} /\ loader.content = Absent
        /\ ReadEntryIs(loader, loader', rule)
    BY <1>0, <1>3, ReadEntryStep
  <2>2. n \in Entries(loader.dir) /\ loader.dir \in AllDirs
    BY <1>0, <2>1, FirstEntry DEF LoaderOK
  <2>3. loader.dir # BundledDir =>
            \E e \in onDisk: e[1] = loader.dir /\ e[3] = rule
    <3>1. SUFFICES ASSUME loader.dir # BundledDir
                   PROVE  \E e \in onDisk: e[1] = loader.dir /\ e[3] = rule
      OBVIOUS
    <3>2. /\ n \in Names /\ loader.dir \in RuleDirs
          /\ rule = files[loader.dir][n].rule
      BY <1>0, <2>2, <3>1, SiblingsAreRules DEF Entries
    <3>3. <<loader.dir, n, rule>> \in onDisk
      BY <3>2 DEF OriginsOK, OnDiskOK
    <3>4. QED
      BY <3>3
  <2> HIDE DEF n, rule
  <2>4. /\ loader'.dir = loader.dir /\ loader'.cache = loader.cache
        /\ loader'.rules = loader.rules
        /\ loader'.content = Absent \/ loader'.content = rule
    BY <1>0, <2>1 DEF ReadEntryIs, LoaderFields
  <2>5. InHand(onDisk', loader')
    BY <1>1, <2>3, <2>4 DEF InHand
  <2>6. QED
    BY <1>1, <2>4, <2>5 DEF OriginsOK
<1>4. CASE CompileEntry
  <2>1. PICK flat: /\ CompileEntryIs(loader, loader', files, flat)
                   /\ FlatFrom(loader, files, flat)
    BY <1>4, CompileEntryCases
  <2>2. flat # Absent => loader.dir = BundledDir \/ KnownIn(onDisk, loader.dir, flat)
    BY <1>4, <2>1, CompileEntryCases, FlatIsKnown
  <2> DEFINE r == [source |-> loader.dir, rule |-> flat]
             c == [dir |-> loader.dir, name |-> Min(loader.listing),
                   mtime |-> files[loader.dir][Min(loader.listing)].mtime,
                   rule |-> flat]
             more == Append(loader.rules, r)
  <2>3. /\ loader'.content = Absent
        /\ \/ loader'.rules = loader.rules
           \/ flat # Absent /\ loader'.rules = more
        /\ \/ loader'.cache = loader.cache
           \/ /\ flat # Absent /\ loader.dir # BundledDir
              /\ loader'.cache = loader.cache \cup {c}
    BY <1>0, <2>1 DEF CompileEntryIs, LoaderFields
  <2>4. /\ flat # Absent => SourceKnown(onDisk, r)
        /\ c.dir = loader.dir /\ c.rule = flat
    BY <2>2 DEF SourceKnown
  <2>5. Range(more) = Range(loader.rules) \cup {r}
    BY <1>0, RangeAppend
  <2> HIDE DEF r, c, more
  <2>6. \A x \in Range(loader'.rules): SourceKnown(onDisk, x)
    BY <2>3, <2>4, <2>5 DEF OriginsOK
  <2>7. \A x \in loader'.cache: KnownIn(onDisk, x.dir, x.rule)
    BY <2>2, <2>3, <2>4 DEF OriginsOK
  <2>8. InHand(onDisk', loader')
    BY <2>3 DEF InHand
  <2>9. QED
    BY <1>1, <2>6, <2>7, <2>8 DEF OriginsOK
<1>5. QED
  BY <1>1, <1>2, <1>3, <1>4 DEF Walk

LEMMA MatchOrigins == ASSUME HookInv, OriginsOK, RenderMatched PROVE OriginsOK'
<1> DEFINE argv == ArgvForResolution(Current)
           hit == IF loader.failed THEN NoFile ELSE FirstMatch(loader.rules, argv)
           choice == [argv |-> argv, source |-> hit.source, rule |-> hit.rule]
<1>1. /\ chosen' = IF hit = NoFile THEN chosen ELSE Append(chosen, choice)
      /\ loader' = [loader EXCEPT !.want = "nothing"]
      /\ UNCHANGED <<files, onDisk>>
  BY DEF RenderMatched
<1>2. hit # NoFile => hit \in Range(loader.rules)
  <2>1. IsList(loader.rules)
    BY DEF HookInv, LoaderOK
  <2>2. QED
    BY <2>1, FirstMatchIs DEF Range
<1>3. /\ choice.source = hit.source /\ choice.rule = hit.rule
  OBVIOUS
<1>4. IsList(chosen)
  BY DEF HookInv, ControlOK
<1> HIDE DEF argv, hit, choice
<1>5. hit # NoFile => SourceKnown(onDisk, choice)
  BY <1>2, <1>3 DEF OriginsOK, SourceKnown
<1>6. \A r \in Range(chosen'): SourceKnown(onDisk, r)
  BY <1>1, <1>4, <1>5, RangeAppend DEF OriginsOK
<1>7. /\ loader'.content = loader.content /\ loader'.dir = loader.dir
      /\ loader'.cache = loader.cache /\ loader'.rules = loader.rules
  BY <1>1
<1>8. QED
  BY <1>1, <1>6, <1>7 DEF OriginsOK, InHand

LEMMA OriginsStep == ASSUME HookInv, OriginsOK, [Next]_vars PROVE OriginsOK'
<1>0. DOMAIN loader = LoaderFields
  BY DEF HookInv, LoaderOK
<1>1. CASE Decide \/ RenderVerbatim \/ SkipCommand \/ RunCommand \/ Exit
           \/ UNCHANGED vars
  <2>1. UNCHANGED <<files, loader, chosen, onDisk>>
    BY <1>1 DEF Decide, RenderVerbatim, SkipCommand, RunCommand, Exit,
                vars, loaderVars, hookVars
  <2>2. QED
    BY <2>1 DEF OriginsOK
<1>2. CASE BeginMatch \/ StartLaconRun \/ Reassemble \/ LaconRun
  <2>1. UNCHANGED <<files, chosen, onDisk>>
    BY <1>2 DEF BeginMatch, StartLaconRun, Reassemble, LaconRun, hookVars
  <2>2. /\ loader'.content = Absent /\ loader'.rules = <<>>
        /\ loader'.cache \subseteq loader.cache
    <3>1. CASE BeginMatch
      <4>1. loader' = Begin(loader, "all", Absent) /\ loader.content = Absent
        BY <3>1 DEF BeginMatch, HookInv, HolderOK
      <4>2. QED
        BY <1>0, <4>1 DEF Begin, LoaderFields
    <3>2. CASE StartLaconRun
      <4>1. loader' = Begin(NewLoader(cwd), "one", WrappedId(Command))
        BY <3>2 DEF StartLaconRun
      <4>2. /\ loader'.content = Absent /\ loader'.rules = <<>>
            /\ loader'.cache = {}
        BY <4>1 DEF Begin, NewLoader
      <4>3. QED
        BY <4>2
    <3>3. CASE Reassemble \/ LaconRun
      <4>1. loader' = NewLoader(Absent)
        BY <3>3 DEF Reassemble, LaconRun
      <4>2. /\ loader'.content = Absent /\ loader'.rules = <<>>
            /\ loader'.cache = {}
        BY <4>1 DEF NewLoader
      <4>3. QED
        BY <4>2
    <3>4. QED
      BY <1>2, <3>1, <3>2, <3>3
  <2>3. Range(loader'.rules) = {}
    BY <2>2 DEF Range
  <2>4. QED
    BY <2>1, <2>2, <2>3 DEF OriginsOK, InHand
<1>3. QED
  BY <1>1, <1>2, NextCases, EditOrigins, LoadingOrigins, MatchOrigins

\* Whatever is loaded or chosen, through the cache or not, some file of its
\* layer held it, with edits at any moment.
THEOREM NoInventedRuleAlways == Spec => []NoInventedRule
<1>1. OriginsOK => NoInventedRule
  BY DEF OriginsOK, SourceKnown, KnownIn, NoInventedRule
<1>2. QED
  BY <1>1, InvAlways, OriginsInit, OriginsStep, PTL DEF Spec

-----------------------------------------------------------------------------
(***************************************************************************)
(* As long as nobody edits, the loader goes through the layers from the    *)
(* highest to the lowest and leaves out no entry.                          *)
(***************************************************************************)
LayerDirs == {Home, UserDir, BundledDir}
Depth(d) == IF d = Home THEN 1 ELSE IF d = UserDir THEN 2 ELSE 3
Flat(fs, d, n) == Load(fs[d][n].rule, Siblings(fs, d))
Opened(l) == 3 - Len(l.layers)

\* Which layer is open goes by those that are left.
Place(l) ==
    \/ /\ l.layers = <<Home, UserDir, BundledDir>>
       /\ l.listing = {} /\ l.rules = <<>>
    \/ l.layers = <<UserDir, BundledDir>> /\ l.dir = Home
    \/ l.layers = <<BundledDir>> /\ l.dir = UserDir
    \/ l.layers = <<>> /\ l.dir = BundledDir

Sorted(rules) ==
    \A i, j \in DOMAIN rules:
        i < j => Depth(rules[i].source) <= Depth(rules[j].source)

FromOpened(l) ==
    \A i \in DOMAIN l.rules: /\ l.rules[i].source \in LayerDirs
                             /\ Depth(l.rules[i].source) <= Opened(l)

\* An entry is loaded as what it is now.
LoadedIn(fs, rules, d, n) ==
    /\ Flat(fs, d, n) # Absent
    /\ \E i \in DOMAIN rules: /\ rules[i].source = d
                              /\ rules[i].rule = Flat(fs, d, n)

\* Every entry of an opened layer is yet to come or loaded.
Complete(fs, l) ==
    l.failed \/
        \A d \in {Home, UserDir}, n \in Names:
            Depth(d) <= Opened(l) /\ fs[d][n].rule # NoFile =>
                \/ d = l.dir /\ n \in l.listing
                \/ LoadedIn(fs, l.rules, d, n)

CacheIsNow(fs, l) ==
    \A c \in l.cache: /\ c.dir \in RuleDirs /\ c.name \in Names
                      /\ c.rule = Flat(fs, c.dir, c.name)

HandIsNow(fs, l) ==
    l.content # Absent => l.content = Siblings(fs, l.dir)[Min(l.listing)]

Above(source) ==
    CASE source = Home -> {}
      [] source = UserDir -> {Home}
      [] OTHER -> {Home, UserDir}

WonBy(fs, choice) ==
    \A d \in Above(choice.source), n \in Names:
        fs[d][n].rule # NoFile =>
            /\ Flat(fs, d, n) # Absent
            /\ ~RuleMatchesArgv(Flat(fs, d, n), choice.argv)

Layered(fs, l) ==
    Place(l) /\ Sorted(l.rules) /\ FromOpened(l) /\ Complete(fs, l)

LayersOK ==
    edits = 0 =>
        /\ CacheIsNow(files, loader) /\ HandIsNow(files, loader)
        /\ phase = "match" => Layered(files, loader)
        /\ \A choice \in Range(chosen): WonBy(files, choice)

LEMMA Depths ==
    /\ Depth(Home) = 1 /\ Depth(UserDir) = 2 /\ Depth(BundledDir) = 3
    /\ Home # UserDir /\ Home # BundledDir /\ UserDir # BundledDir
    /\ Home \in RuleDirs /\ UserDir \in RuleDirs
BY Distinct DEF Depth

\* What Place says of the depth that is reached.
LEMMA PlaceDepth ==
    ASSUME NEW l, Place(l)
    PROVE  \/ Opened(l) = 0 /\ l.listing = {} /\ l.rules = <<>>
           \/ Opened(l) \in 1 .. 3 /\ l.dir \in LayerDirs /\ Depth(l.dir) = Opened(l)
<1>1. \A a, b, c: /\ Len(<<a, b, c>>) = 3 /\ Len(<<a, b>>) = 2 /\ Len(<<a>>) = 1
                  /\ Len(<<>>) = 0
  OBVIOUS
<1>2. CASE /\ l.layers = <<Home, UserDir, BundledDir>>
           /\ l.listing = {} /\ l.rules = <<>>
  <2>1. Len(l.layers) = 3
    BY <1>1, <1>2
  <2>2. QED
    BY <1>2, <2>1 DEF Opened
<1>3. CASE l.layers = <<UserDir, BundledDir>> /\ l.dir = Home
  <2>1. Len(l.layers) = 2
    BY <1>1, <1>3
  <2>2. QED
    BY <1>3, <2>1, Depths DEF Opened, LayerDirs
<1>4. CASE l.layers = <<BundledDir>> /\ l.dir = UserDir
  <2>1. Len(l.layers) = 1
    BY <1>1, <1>4
  <2>2. QED
    BY <1>4, <2>1, Depths DEF Opened, LayerDirs
<1>5. CASE l.layers = <<>> /\ l.dir = BundledDir
  <2>1. Len(l.layers) = 0
    BY <1>1, <1>5
  <2>2. QED
    BY <1>5, <2>1, Depths DEF Opened, LayerDirs
<1>6. QED
  BY <1>2, <1>3, <1>4, <1>5 DEF Place

LEMMA BeginLayered ==
    ASSUME NEW fs, NEW l, l.layers = <<Home, UserDir, BundledDir>>,
           l.listing = {}, l.rules = <<>>
    PROVE  Layered(fs, l)
<1>1. Place(l) /\ DOMAIN l.rules = {}
  BY DEF Place
<1>2. Sorted(l.rules) /\ FromOpened(l)
  BY <1>1 DEF Sorted, FromOpened
<1>3. Opened(l) = 0
  <2>1. \A a, b, c: Len(<<a, b, c>>) = 3
    OBVIOUS
  <2>2. QED
    BY <2>1 DEF Opened
<1>4. Complete(fs, l)
  <2>1. ~(1 <= 0) /\ ~(2 <= 0)
    OBVIOUS
  <2>2. \A d \in {Home, UserDir}: ~(Depth(d) <= Opened(l))
    BY <1>3, <2>1, Depths
  <2>3. QED
    BY <2>2 DEF Complete
<1>5. QED
  BY <1>1, <1>2, <1>4 DEF Layered

LEMMA OpenLayered ==
    ASSUME FilesOK(files, edits), LoaderOK(loader, edits), OpenLayer,
           Layered(files, loader)
    PROVE  Layered(files, loader')
<1> DEFINE d == Head(loader.layers)
<1>1. PICK listing \in SUBSET Entries(d):
          /\ OpenLayerIs(loader, loader', listing)
          /\ \A n \in Entries(d): Siblings(files, d)[n] # NoFile => n \in listing
  BY OpenLayerStep
<1>2. /\ loader.layers # <<>> /\ loader.listing = {} /\ DOMAIN loader = LoaderFields
  BY OpenLayerStep DEF LoaderOK
<1>3. /\ loader'.layers = Tail(loader.layers) /\ loader'.dir = d
      /\ loader'.listing = listing /\ loader'.rules = loader.rules
      /\ loader'.failed = loader.failed
  BY <1>1, <1>2 DEF OpenLayerIs, LoaderFields
<1>4. /\ \A a, b, c: /\ Head(<<a, b, c>>) = a /\ Tail(<<a, b, c>>) = <<b, c>>
                     /\ Head(<<a, b>>) = a /\ Tail(<<a, b>>) = <<b>>
                     /\ Head(<<a>>) = a /\ Tail(<<a>>) = <<>>
  OBVIOUS
<1>5. Place(loader')
  <2>1. CASE loader.layers = <<Home, UserDir, BundledDir>>
    <3>1. loader'.layers = <<UserDir, BundledDir>> /\ loader'.dir = Home
      BY <1>3, <1>4, <2>1
    <3>2. QED
      BY <3>1 DEF Place
  <2>2. CASE loader.layers = <<UserDir, BundledDir>>
    <3>1. loader'.layers = <<BundledDir>> /\ loader'.dir = UserDir
      BY <1>3, <1>4, <2>2
    <3>2. QED
      BY <3>1 DEF Place
  <2>3. CASE loader.layers = <<BundledDir>>
    <3>1. loader'.layers = <<>> /\ loader'.dir = BundledDir
      BY <1>3, <1>4, <2>3
    <3>2. QED
      BY <3>1 DEF Place
  <2>4. QED
    BY <1>2, <2>1, <2>2, <2>3 DEF Place, Layered
<1>6. d \in AllDirs /\ d \in LayerDirs
  BY <1>2, <1>4, Distinct DEF Place, Layered, LayerDirs, AllDirs, RuleDirs
<1>7. Opened(loader') = Opened(loader) + 1 /\ Opened(loader) \in 0 .. 2
  <2>1. Len(loader.layers) \in 1 .. 3
        /\ Len(Tail(loader.layers)) = Len(loader.layers) - 1
    BY <1>2, TailShorter DEF LoaderOK
  <2> DEFINE m == Len(loader.layers)
  <2>2. Opened(loader) = 3 - m /\ Opened(loader') = 3 - (m - 1) /\ m \in 1 .. 3
    BY <1>3, <2>1 DEF Opened
  <2> HIDE DEF m
  <2>3. QED
    BY <2>2
<1>8. Depth(d) = Opened(loader')
  <2>1. Opened(loader') # 0
    BY <1>7
  <2>2. QED
    BY <1>3, <1>5, <2>1, PlaceDepth
<1> HIDE DEF d
<1>9. Sorted(loader'.rules) /\ FromOpened(loader')
  <2>1. \A x \in LayerDirs: Depth(x) \in 1 .. 3
    BY Depths DEF LayerDirs
  <2>2. \A x \in LayerDirs: Depth(x) <= Opened(loader) => Depth(x) <= Opened(loader')
    BY <1>7, <2>1
  <2>3. QED
    BY <1>3, <2>2 DEF Layered, Sorted, FromOpened
<1>10. Complete(files, loader')
  <2>1. SUFFICES ASSUME ~loader.failed, NEW x \in {Home, UserDir}, NEW n \in Names,
                        Depth(x) <= Opened(loader'), files[x][n].rule # NoFile
                 PROVE  \/ x = loader'.dir /\ n \in loader'.listing
                        \/ LoadedIn(files, loader'.rules, x, n)
    BY <1>3 DEF Complete
  <2>2. CASE x = d
    <3>1. x # BundledDir /\ x \in AllDirs
      BY Distinct, <2>1
    <3>2. Entries(x) = Names /\ Siblings(files, x)[n] = files[x][n].rule
      BY <3>1, SiblingsAreRules DEF Entries
    <3>3. QED
      BY <1>1, <1>3, <2>1, <2>2, <3>2
  <2>3. CASE x # d
    <3>1. Depth(x) # Depth(d)
      BY <1>6, <2>1, <2>3, Depths DEF LayerDirs
    <3>2. Depth(x) \in 1 .. 2
      BY <2>1, Depths
    <3>3. Depth(x) <= Opened(loader)
      BY <1>7, <1>8, <2>1, <3>1, <3>2
    <3>4. LoadedIn(files, loader.rules, x, n)
      BY <1>2, <2>1, <3>3 DEF Layered, Complete
    <3>5. QED
      BY <1>3, <3>4
  <2>4. QED
    BY <2>2, <2>3
<1>11. QED
  BY <1>5, <1>9, <1>10 DEF Layered

\* An entry is read: an error, or its content is in hand.
LEMMA ReadLayered ==
    ASSUME FilesOK(files, edits), LoaderOK(loader, edits), ReadEntry,
           Layered(files, loader), loader.want = "all"
    PROVE  Layered(files, loader')
<1>1. /\ loader.listing # {} /\ DOMAIN loader = LoaderFields
      /\ ReadEntryIs(loader, loader',
                     Siblings(files, loader.dir)[Min(loader.listing)])
  BY ReadEntryStep DEF LoaderOK
<1>2. /\ loader'.layers = loader.layers /\ loader'.dir = loader.dir
      /\ loader'.rules = loader.rules
      /\ \/ loader'.failed
         \/ loader'.listing = loader.listing /\ loader'.failed = loader.failed
  BY <1>1 DEF ReadEntryIs, LoaderFields
<1>3. Opened(loader') = Opened(loader)
  BY <1>2 DEF Opened
<1>4. Place(loader')
  <2>1. ~(loader.listing = {})
    BY <1>1
  <2>2. QED
    BY <1>2, <2>1 DEF Place, Layered
<1>5. Complete(files, loader')
  BY <1>2, <1>3 DEF Complete, Layered
<1>6. QED
  BY <1>2, <1>3, <1>4, <1>5 DEF Layered, Sorted, FromOpened

\* One rule more.
Added(old, new, e) ==
    /\ IsList(new) /\ DOMAIN new = 1 .. Len(old) + 1 /\ new[Len(old) + 1] = e
    /\ DOMAIN old = 1 .. Len(old) /\ Len(old) \in Nat
    /\ \A i \in 1 .. Len(old): new[i] = old[i]

LEMMA AppendAdds ==
    ASSUME NEW s, IsList(s), NEW e
    PROVE  Added(s, Append(s, e), e)
<1> DEFINE t == Append(s, e)
<1>1. /\ IsList(t) /\ Len(t) = Len(s) + 1 /\ t[Len(s) + 1] = e
      /\ \A i \in 1 .. Len(s): t[i] = s[i]
      /\ Len(s) \in Nat /\ DOMAIN s = 1 .. Len(s)
  BY ListAppend
<1>2. DOMAIN t = 1 .. Len(t)
  BY <1>1, ListOfSeq DEF IsList
<1> HIDE DEF t
<1>3. Added(s, t, e)
  BY <1>1, <1>2 DEF Added
<1>4. QED
  BY <1>3 DEF t

LEMMA SortedAdded ==
    ASSUME NEW old, NEW new, NEW e, Added(old, new, e), Sorted(old),
           \A i \in DOMAIN old: Depth(old[i].source) <= Depth(e.source),
           Depth(e.source) \in 1 .. 3
    PROVE  Sorted(new)
<1> DEFINE n == Len(old)
           r == e.source
<1>1. /\ DOMAIN new = 1 .. n + 1 /\ new[n + 1] = e /\ n \in Nat
      /\ DOMAIN old = 1 .. n /\ \A i \in 1 .. n: new[i] = old[i]
  BY DEF Added
<1> HIDE DEF n
<1>2. SUFFICES ASSUME NEW i \in 1 .. n + 1, NEW j \in 1 .. n + 1, i < j
               PROVE  Depth(new[i].source) <= Depth(new[j].source)
  BY <1>1 DEF Sorted
<1>3. i \in 1 .. n
  BY <1>1, <1>2
<1>4. CASE j \in 1 .. n
  BY <1>1, <1>2, <1>3, <1>4 DEF Sorted
<1>5. CASE j = n + 1
  BY <1>1, <1>3, <1>5
<1>6. QED
  BY <1>1, <1>4, <1>5

LEMMA LoadedStays ==
    ASSUME NEW old, NEW new, NEW e, Added(old, new, e), NEW fs, NEW d, NEW n,
           LoadedIn(fs, old, d, n)
    PROVE  LoadedIn(fs, new, d, n)
<1> DEFINE k == Len(old)
<1>1. PICK i \in DOMAIN old: old[i].source = d /\ old[i].rule = Flat(fs, d, n)
  BY DEF LoadedIn
<1>2. DOMAIN old = 1 .. k /\ k \in Nat /\ DOMAIN new = 1 .. k + 1 /\ new[i] = old[i]
  BY <1>1 DEF Added
<1> HIDE DEF k
<1>3. i \in DOMAIN new
  BY <1>1, <1>2
<1>4. QED
  BY <1>1, <1>2, <1>3 DEF LoadedIn

\* Without an edit, what the compilation gives is what the entry is now.
LEMMA FlatIsNow ==
    ASSUME HookInv, CacheIsNow(files, loader), HandIsNow(files, loader),
           loader.content # Absent, loader.dir # BundledDir,
           NEW flat, FlatFrom(loader, files, flat)
    PROVE  /\ flat = Flat(files, loader.dir, Min(loader.listing))
           /\ Min(loader.listing) \in Names /\ loader.dir \in RuleDirs
<1> DEFINE n == Min(loader.listing)
<1>1. /\ loader.listing # {} /\ loader.dir \in AllDirs
      /\ FilesOK(files, edits) /\ LoaderOK(loader, edits)
  BY DEF HookInv, LoaderOK
<1>2. n \in Names
  BY <1>1, FirstEntry DEF Entries
<1>3. loader.dir \in RuleDirs
      /\ loader.content = files[loader.dir][n].rule
  BY <1>1, <1>2, SiblingsAreRules DEF HandIsNow
<1> HIDE DEF n
<1>4. CASE flat = Load(loader.content, Siblings(files, loader.dir))
  <2>1. flat = Flat(files, loader.dir, n)
    BY <1>3, <1>4 DEF Flat
  <2>2. QED
    BY <1>2, <1>3, <2>1 DEF n
<1>5. CASE \E c \in loader.cache: /\ c.dir = loader.dir /\ c.name = n
                                  /\ c.rule = flat
  <2>1. flat = Flat(files, loader.dir, n)
    BY <1>5 DEF CacheIsNow
  <2>2. QED
    BY <1>2, <1>3, <2>1 DEF n
<1>6. QED
  BY <1>4, <1>5 DEF FlatFrom, n

\* The next entry is compiled: an error, or one rule more.
LEMMA CompileLayered ==
    ASSUME HookInv, CompileEntry, Layered(files, loader),
           CacheIsNow(files, loader), HandIsNow(files, loader)
    PROVE  Layered(files, loader')
<1> DEFINE n == Min(loader.listing)
<1>1. PICK flat: /\ CompileEntryIs(loader, loader', files, flat)
                 /\ FlatFrom(loader, files, flat)
  BY CompileEntryCases
<1>2. /\ loader.content # Absent /\ loader.listing # {}
      /\ DOMAIN loader = LoaderFields /\ IsList(loader.rules)
  BY CompileEntryCases DEF HookInv, LoaderOK
<1> DEFINE e == [source |-> loader.dir, rule |-> flat]
           more == Append(loader.rules, e)
<1>3. /\ loader'.layers = loader.layers /\ loader'.dir = loader.dir
      /\ loader'.listing = loader.listing \ {n}
      /\ \/ loader'.failed /\ loader'.rules = loader.rules
         \/ /\ flat # Absent /\ loader'.failed = loader.failed
            /\ loader'.rules = more
  BY <1>1, <1>2 DEF CompileEntryIs, LoaderFields
<1>4. Added(loader.rules, more, e)
  BY <1>2, AppendAdds
<1>5. e.source = loader.dir /\ e.rule = flat
  OBVIOUS
<1>6. /\ Opened(loader') = Opened(loader)
      /\ Opened(loader) \in 1 .. 3 /\ loader.dir \in LayerDirs
      /\ Depth(loader.dir) = Opened(loader)
  BY <1>2, <1>3, PlaceDepth DEF Layered, Opened
<1>7. loader.dir # BundledDir => flat = Flat(files, loader.dir, n)
  BY <1>1, <1>2, FlatIsNow
<1> HIDE DEF n, e, more
<1>8. Place(loader')
  <2>1. ~(loader.listing = {})
    BY <1>2
  <2>2. QED
    BY <1>3, <2>1 DEF Place, Layered
<1>9. CASE loader'.failed /\ loader'.rules = loader.rules
  BY <1>3, <1>6, <1>8, <1>9 DEF Layered, Sorted, FromOpened, Complete
<1>10. CASE /\ flat # Absent /\ loader'.failed = loader.failed
            /\ loader'.rules = more
  <2>1. Sorted(more)
    <3>1. \A i \in DOMAIN loader.rules:
              Depth(loader.rules[i].source) <= Depth(e.source)
      BY <1>5, <1>6 DEF Layered, FromOpened
    <3>2. QED
      BY <1>4, <1>5, <1>6, <3>1, SortedAdded DEF Layered
  <2>2. FromOpened(loader')
    <3> DEFINE k == Len(loader.rules)
    <3>1. /\ DOMAIN more = 1 .. k + 1 /\ more[k + 1] = e /\ k \in Nat
          /\ DOMAIN loader.rules = 1 .. k
          /\ \A i \in 1 .. k: more[i] = loader.rules[i]
      BY <1>4 DEF Added
    <3> HIDE DEF k
    <3>2. \A i \in DOMAIN more: i \in DOMAIN loader.rules \/ i = k + 1
      BY <3>1
    <3>3. Depth(e.source) <= Opened(loader)
      BY <1>5, <1>6
    <3>4. \A i \in DOMAIN more: /\ more[i].source \in LayerDirs
                                /\ Depth(more[i].source) <= Opened(loader)
      BY <1>5, <1>6, <3>1, <3>2, <3>3 DEF Layered, FromOpened
    <3>5. QED
      BY <1>6, <1>10, <3>4 DEF FromOpened
  <2>3. Complete(files, loader')
    <3>1. SUFFICES ASSUME ~loader.failed, NEW d \in {Home, UserDir},
                          NEW m \in Names,
                          Depth(d) <= Opened(loader), files[d][m].rule # NoFile
                   PROVE  \/ d = loader'.dir /\ m \in loader'.listing
                          \/ LoadedIn(files, more, d, m)
      BY <1>6, <1>10 DEF Complete
    <3>2. CASE LoadedIn(files, loader.rules, d, m)
      BY <1>4, <3>2, LoadedStays
    <3>3. CASE d = loader.dir /\ m \in loader.listing /\ m # n
      BY <1>3, <3>3
    <3>4. CASE d = loader.dir /\ m = n
      <4>1. loader.dir # BundledDir
        BY <3>1, <3>4, Depths
      <4>2. flat = Flat(files, d, m)
        BY <1>7, <3>4, <4>1
      <4> DEFINE k == Len(loader.rules)
      <4>3. DOMAIN more = 1 .. k + 1 /\ more[k + 1] = e /\ k \in Nat
        BY <1>4 DEF Added
      <4> HIDE DEF k
      <4>4. k + 1 \in DOMAIN more
        BY <4>3
      <4>5. LoadedIn(files, more, d, m)
        BY <1>5, <1>10, <3>4, <4>2, <4>3, <4>4 DEF LoadedIn
      <4>6. QED
        BY <4>5
    <3>5. QED
      BY <3>1, <3>2, <3>3, <3>4 DEF Layered, Complete
  <2>4. QED
    BY <1>8, <1>10, <2>1, <2>2, <2>3 DEF Layered
<1>11. QED
  BY <1>3, <1>9, <1>10

LEMMA LayersInit == Init => LayersOK
<1> SUFFICES ASSUME Init PROVE LayersOK
  OBVIOUS
<1>1. /\ loader.content = Absent /\ loader.cache = {} /\ chosen = <<>>
      /\ phase = "hook" /\ Range(<<>>) = {}
  BY DEF Init, NewLoader, Range
<1>2. QED
  BY <1>1 DEF LayersOK, CacheIsNow, HandIsNow

\* What the loader knows of the files stays true while it walks.
LEMMA WalkIsNow ==
    ASSUME HookInv, Walk, UNCHANGED files,
           CacheIsNow(files, loader), HandIsNow(files, loader)
    PROVE  CacheIsNow(files, loader') /\ HandIsNow(files, loader')
<1>0. /\ DOMAIN loader = LoaderFields
      /\ FilesOK(files, edits) /\ LoaderOK(loader, edits)
  BY DEF HookInv, LoaderOK
<1>1. CASE OpenLayer
  <2>1. loader'.content = Absent /\ loader'.cache = loader.cache
    BY <1>0, <1>1, OpenLayerStep DEF OpenLayerIs, LoaderFields
  <2>2. QED
    BY <2>1 DEF CacheIsNow, HandIsNow
<1>2. CASE ReadEntry
  <2> DEFINE rule == Siblings(files, loader.dir)[Min(loader.listing)]
  <2>1. loader.content = Absent /\ ReadEntryIs(loader, loader', rule)
    BY <1>0, <1>2, ReadEntryStep
  <2> HIDE DEF rule
  <2>2. /\ loader'.cache = loader.cache /\ loader'.dir = loader.dir
        /\ \/ loader'.content = Absent
           \/ loader'.listing = loader.listing /\ loader'.content = rule
    BY <1>0, <2>1 DEF ReadEntryIs, LoaderFields
  <2>3. QED
    BY <2>2 DEF CacheIsNow, HandIsNow, rule
<1>3. CASE CompileEntry
  <2>1. PICK flat: /\ CompileEntryIs(loader, loader', files, flat)
                   /\ FlatFrom(loader, files, flat)
    BY <1>3, CompileEntryCases
  <2>2. loader.content # Absent
    BY <1>3, CompileEntryCases
  <2> DEFINE c == [dir |-> loader.dir, name |-> Min(loader.listing),
                   mtime |-> files[loader.dir][Min(loader.listing)].mtime,
                   rule |-> flat]
  <2>3. /\ loader'.content = Absent
        /\ \/ loader'.cache = loader.cache
           \/ /\ loader.dir # BundledDir
              /\ loader'.cache = loader.cache \cup {c}
    BY <1>0, <2>1 DEF CompileEntryIs, LoaderFields
  <2>4. c.dir = loader.dir /\ c.name = Min(loader.listing) /\ c.rule = flat
    OBVIOUS
  <2> HIDE DEF c
  <2>5. loader.dir # BundledDir =>
          /\ c.dir \in RuleDirs /\ c.name \in Names
          /\ c.rule = Flat(files, c.dir, c.name)
    BY <2>1, <2>2, <2>4, FlatIsNow
  <2>6. QED
    BY <2>3, <2>5 DEF CacheIsNow, HandIsNow
<1>4. QED
  BY <1>1, <1>2, <1>3 DEF Walk

\* With every layer seen and no error, whoever matches first was matched by
\* no rule of a higher layer.
LEMMA FirstWins ==
    ASSUME HookInv, Layered(files, loader), Finished(loader),
           loader.want = "all", ~loader.failed, NEW argv, NEW i \in DOMAIN loader.rules,
           \A j \in DOMAIN loader.rules:
              RuleMatchesArgv(loader.rules[j].rule, argv) => i <= j,
           NEW choice, choice.source = loader.rules[i].source, choice.argv = argv
    PROVE  WonBy(files, choice)
<1>1. loader.layers = <<>> /\ loader.listing = {}
  BY DEF Finished
<1>2. Opened(loader) = 3
  <2>1. Len(<<>>) = 0
    OBVIOUS
  <2>2. QED
    BY <1>1, <2>1 DEF Opened
<1>3. choice.source \in LayerDirs
  BY DEF Layered, FromOpened
<1>4. SUFFICES ASSUME NEW d \in Above(choice.source), NEW n \in Names,
                      files[d][n].rule # NoFile
               PROVE  /\ Flat(files, d, n) # Absent
                      /\ ~RuleMatchesArgv(Flat(files, d, n), choice.argv)
  BY DEF WonBy
<1>5. d \in {Home, UserDir} /\ Depth(d) < Depth(choice.source) /\ Depth(d) <= 3
  BY <1>3, <1>4, Depths DEF Above, LayerDirs
<1>6. LoadedIn(files, loader.rules, d, n)
  BY <1>1, <1>2, <1>4, <1>5 DEF Layered, Complete
<1>7. PICK j \in DOMAIN loader.rules:
          loader.rules[j].source = d /\ loader.rules[j].rule = Flat(files, d, n)
  BY <1>6 DEF LoadedIn
<1>8. ASSUME RuleMatchesArgv(Flat(files, d, n), choice.argv) PROVE FALSE
  <2>1. i <= j
    BY <1>7, <1>8
  <2>2. i \in Nat /\ j \in Nat
    <3>1. IsList(loader.rules)
      BY DEF HookInv, LoaderOK
    <3>2. DOMAIN loader.rules \subseteq Nat
      BY <3>1, ListOfSeq DEF IsList
    <3>3. QED
      BY <3>2
  <2>3. i = j \/ Depth(loader.rules[i].source) <= Depth(loader.rules[j].source)
    BY <2>1, <2>2 DEF Layered, Sorted
  <2>4. Depth(choice.source) \in 1 .. 3 /\ Depth(d) \in 1 .. 3
    BY <1>3, <1>5, Depths DEF LayerDirs
  <2>5. QED
    BY <1>5, <1>7, <2>3, <2>4
<1>9. QED
  BY <1>6, <1>8 DEF LoadedIn

LEMMA MatchLayers == ASSUME HookInv, LayersOK, RenderMatched PROVE LayersOK'
<1> DEFINE argv == ArgvForResolution(Current)
           hit == IF loader.failed THEN NoFile ELSE FirstMatch(loader.rules, argv)
           choice == [argv |-> argv, source |-> hit.source, rule |-> hit.rule]
<1>1. /\ chosen' = IF hit = NoFile THEN chosen ELSE Append(chosen, choice)
      /\ loader' = [loader EXCEPT !.want = "nothing"]
      /\ UNCHANGED <<files, edits>> /\ phase = "match" /\ phase' = "segment"
      /\ Finished(loader)
  BY DEF RenderMatched
<1>2. SUFFICES ASSUME edits = 0 PROVE LayersOK'
  BY <1>1 DEF LayersOK
<1>3. /\ CacheIsNow(files, loader) /\ HandIsNow(files, loader)
      /\ Layered(files, loader) /\ \A x \in Range(chosen): WonBy(files, x)
      /\ loader.want = "all"
  BY <1>1, <1>2 DEF LayersOK, HookInv, HolderOK
<1>4. hit # NoFile =>
        ~loader.failed
        /\ \E i \in DOMAIN loader.rules:
              /\ hit = loader.rules[i]
              /\ \A j \in DOMAIN loader.rules:
                    RuleMatchesArgv(loader.rules[j].rule, argv) => i <= j
  <2>1. IsList(loader.rules)
    BY DEF HookInv, LoaderOK
  <2>2. QED
    BY <2>1, FirstMatchIs
<1>5. choice.source = hit.source /\ choice.argv = argv
  OBVIOUS
<1>6. IsList(chosen)
  BY DEF HookInv, ControlOK
<1> HIDE DEF argv, hit, choice
<1>7. hit # NoFile => WonBy(files, choice)
  BY <1>1, <1>3, <1>4, <1>5, FirstWins
<1>8. \A x \in Range(chosen'): WonBy(files, x)
  BY <1>1, <1>3, <1>6, <1>7, RangeAppend
<1>9. /\ loader'.content = loader.content /\ loader'.dir = loader.dir
      /\ loader'.cache = loader.cache /\ loader'.listing = loader.listing
  BY <1>1
<1>10. CacheIsNow(files, loader') /\ HandIsNow(files, loader')
  BY <1>3, <1>9 DEF CacheIsNow, HandIsNow
<1>11. QED
  BY <1>1, <1>8, <1>10 DEF LayersOK

LEMMA LayersStep == ASSUME HookInv, LayersOK, [Next]_vars PROVE LayersOK'
<1>0. DOMAIN loader = LoaderFields /\ FilesOK(files, edits) /\ LoaderOK(loader, edits)
  BY DEF HookInv, LoaderOK
<1>1. CASE Decide \/ RenderVerbatim \/ SkipCommand \/ RunCommand \/ Exit
           \/ UNCHANGED vars
  <2>1. UNCHANGED <<files, edits, loader, chosen>>
    BY <1>1 DEF Decide, RenderVerbatim, SkipCommand, RunCommand, Exit,
                vars, loaderVars, hookVars
  <2>2. phase' = "match" => phase = "match"
    BY <1>1 DEF Decide, HandOver, RenderVerbatim, SkipCommand, RunCommand,
                Exit, vars
  <2>3. QED
    BY <2>1, <2>2 DEF LayersOK
<1>2. CASE BeginMatch \/ StartLaconRun \/ Reassemble \/ LaconRun
  <2>1. UNCHANGED <<files, edits, chosen>>
    BY <1>2 DEF BeginMatch, StartLaconRun, Reassemble, LaconRun, hookVars
  <2>2. /\ loader'.content = Absent /\ loader'.cache \subseteq loader.cache
        /\ phase' = "match" => /\ loader'.layers = <<Home, UserDir, BundledDir>>
                               /\ loader'.listing = {} /\ loader'.rules = <<>>
    <3>1. CASE BeginMatch
      <4>1. /\ loader' = Begin(loader, "all", Absent) /\ loader.content = Absent
            /\ loader.project = Home
        BY <3>1 DEF BeginMatch, HookInv, HolderOK, Before
      <4>2. QED
        BY <1>0, <4>1 DEF Begin, Layers, LoaderFields
    <3>2. CASE StartLaconRun
      <4>1. loader' = Begin(NewLoader(cwd), "one", WrappedId(Command))
            /\ phase' = "lacon run"
        BY <3>2 DEF StartLaconRun
      <4>2. loader'.content = Absent /\ loader'.cache = {}
        BY <4>1 DEF Begin, NewLoader
      <4>3. QED
        BY <4>1, <4>2
    <3>3. CASE Reassemble \/ LaconRun
      <4>1. loader' = NewLoader(Absent) /\ phase' = "shell"
        BY <3>3 DEF Reassemble, LaconRun, HandOver
      <4>2. loader'.content = Absent /\ loader'.cache = {}
        BY <4>1 DEF NewLoader
      <4>3. QED
        BY <4>1, <4>2
    <3>4. QED
      BY <1>2, <3>1, <3>2, <3>3
  <2>3. phase' = "match" => Layered(files, loader')
    BY <2>2, BeginLayered
  <2>4. HandIsNow(files, loader')
    BY <2>2 DEF HandIsNow
  <2>5. CacheIsNow(files, loader) => CacheIsNow(files, loader')
    BY <2>2 DEF CacheIsNow
  <2>6. QED
    BY <2>1, <2>3, <2>4, <2>5 DEF LayersOK
<1>3. CASE Loading
  <2>1. /\ Walk /\ UNCHANGED <<files, edits, phase, chosen>>
    <3>1. Walk /\ UNCHANGED <<phase, hookVars>>
      BY <1>3 DEF Loading
    <3>2. QED
      BY <3>1, Zenon DEF hookVars, Walk, OpenLayer, ReadEntry, CompileEntry
  <2>2. SUFFICES ASSUME edits = 0 PROVE LayersOK'
    BY <2>1 DEF LayersOK
  <2>3. /\ CacheIsNow(files, loader) /\ HandIsNow(files, loader)
        /\ phase = "match" => Layered(files, loader) /\ loader.want = "all"
        /\ \A x \in Range(chosen): WonBy(files, x)
    BY <2>2 DEF LayersOK, HookInv, HolderOK
  <2>4. CacheIsNow(files, loader') /\ HandIsNow(files, loader')
    BY <2>1, <2>3, WalkIsNow
  <2>5. phase = "match" => Layered(files, loader')
    BY <1>0, <2>1, <2>3, OpenLayered, ReadLayered, CompileLayered DEF Walk
  <2>6. QED
    BY <2>1, <2>3, <2>4, <2>5 DEF LayersOK
<1>4. CASE Edit
  <2>1. edits' = edits + 1 /\ edits \in Nat
    BY <1>0, <1>4, EditStep DEF Edit
  <2>2. edits' # 0
    BY <2>1
  <2>3. QED
    BY <2>2 DEF LayersOK
<1>5. QED
  BY <1>1, <1>2, <1>3, <1>4, NextCases, MatchLayers

\* A rule the hook chose was matched by no rule of a higher layer, unless
\* somebody edits.
THEOREM HigherLayerWinsAlways == Spec => []HigherLayerWins
<1>1. HookInv /\ LayersOK => HigherLayerWins
  <2>1. SUFFICES ASSUME HookInv, LayersOK, edits = 0, NEW i \in DOMAIN chosen,
                        NEW d \in Above(chosen[i].source), NEW n \in Names,
                        files[d][n].rule # NoFile
                 PROVE  LET flat == Load(files[d][n].rule, RulesIn(d))
                        IN  /\ flat # Absent
                            /\ ~RuleMatchesArgv(flat, chosen[i].argv)
    BY DEF HigherLayerWins, Above
  <2>2. chosen[i] \in Range(chosen)
    BY <2>1 DEF Range
  <2>3. WonBy(files, chosen[i])
    BY <2>1, <2>2 DEF LayersOK
  <2>4. Flat(files, d, n) = Load(files[d][n].rule, RulesIn(d))
    BY RulesInIs DEF Flat
  <2>5. QED
    BY <2>1, <2>3, <2>4 DEF WonBy
<1>2. QED
  BY <1>1, InvAlways, LayersInit, LayersStep, PTL DEF Spec
=============================================================================
