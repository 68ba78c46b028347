---------------------------- MODULE PipelineProofs ----------------------------
(***************************************************************************)
(* The stages of a pipeline keep their types and their bounds, and the     *)
(* output its cap, for every rule a file can spell, every pair of rules    *)
(* that extend each other, every width of the lines and every stream.      *)
(*                                                                         *)
(* The folds of the model (Bytes, StepAll, Through, MergeKeepRegex) are    *)
(* instances of Folding.  The invariant, PipelineInv, types each stage     *)
(* with its own bounds, counts the bytes of a ring while its stage is      *)
(* still to be flushed, and keeps what the last max_bytes let through      *)
(* within what it has counted.                                             *)
(*                                                                         *)
(* The second half is about what comes out.  Whole is what a stage makes   *)
(* of a stream in one piece: its lines one by one, then its flush.         *)
(* StreamInv says that the output and the stages still to be flushed are   *)
(* where the stream in one piece would have taken them.  For each          *)
(* primitive, by induction over the stream, Whole is what the model        *)
(* promises of it by positions; by induction over the entries of a rule,   *)
(* with the keep_regex pending at each, so is what the compiled stages     *)
(* make of the stream one after the other (StreamEqualsBatchAlways).       *)
(***************************************************************************)
EXTENDS Pipeline, SequenceTheorems, TLAPS

-----------------------------------------------------------------------------
\* Bytes as a fold.
AddWidth(n, l) == n + Width[l.text]

BytesFold == INSTANCE Folding WITH Op <- AddWidth

\* Bytes is the fold of the widths.
LEMMA BytesIsFold == \A s : Bytes(s) = BytesFold!Fold(0, s)
  BY DEF Bytes, BytesFold!Fold, BytesFold!IsIter, FoldLeft, MapThenFoldSet,
         Max, BytesFold!Max, AddWidth

\* Every line has a width: its newline counts.
LEMMA WidthType == \A l \in Line : Width[l.text] \in Nat \ {0}
  BY TextAssumption DEF Line, ToolLine

\* No line has no byte.
LEMMA BytesEmpty == Bytes(<<>>) = 0
  BY BytesIsFold, BytesFold!FoldEmpty

\* A line more is its width more.
LEMMA BytesAppend ==
    ASSUME NEW s \in Seq(Line), NEW l \in Line
    PROVE  Bytes(Append(s, l)) = Bytes(s) + Width[l.text]
<1>1. BytesFold!Fold(0, Append(s, l)) = AddWidth(BytesFold!Fold(0, s), l)
  BY BytesFold!FoldAppend
<1>2. QED
  BY <1>1, BytesIsFold DEF AddWidth

\* The bytes of a list of lines are a number.
LEMMA BytesType == \A s \in Seq(Line) : Bytes(s) \in Nat
<1>1. \A n \in Nat, l \in Line : AddWidth(n, l) \in Nat
  BY WidthType DEF AddWidth
<1>2. \A s \in Seq(Line) : BytesFold!Fold(0, s) \in Nat
  BY <1>1, BytesFold!FoldType
<1>3. QED
  BY <1>2, BytesIsFold

\* Bytes add up over concatenation.
LEMMA BytesConcat ==
    \A s, t \in Seq(Line) : Bytes(s \o t) = Bytes(s) + Bytes(t)
<1> DEFINE T == {t \in Seq(Line) :
                   \A s \in Seq(Line) : Bytes(s \o t) = Bytes(s) + Bytes(t)}
<1>1. <<>> \in T
  BY BytesEmpty, BytesType, ConcatEmptySeq
<1>2. ASSUME NEW t \in T, NEW l \in Line PROVE Append(t, l) \in T
  <2>1. ASSUME NEW s \in Seq(Line)
        PROVE  Bytes(s \o Append(t, l)) = Bytes(s) + Bytes(Append(t, l))
    <3>1. s \o Append(t, l) = Append(s \o t, l)
      OBVIOUS
    <3>2. s \o t \in Seq(Line)
      OBVIOUS
    <3>3. Bytes(Append(s \o t, l)) = Bytes(s \o t) + Width[l.text]
      BY <3>2, BytesAppend
    <3>4. Bytes(Append(t, l)) = Bytes(t) + Width[l.text]
      BY BytesAppend
    <3>5. QED
      BY <3>1, <3>3, <3>4, BytesType, WidthType
  <2>2. QED
    BY <2>1
<1>3. T \in SUBSET Seq(Line)
  OBVIOUS
<1> HIDE DEF T
<1>4. T = Seq(Line)
  BY <1>1, <1>2, <1>3, BytesFold!SeqInduction
<1>5. QED
  BY <1>4 DEF T

\* Bytes add up over a cut.
LEMMA BytesSplit ==
    ASSUME NEW s \in Seq(Line), NEW k \in 0 .. Len(s)
    PROVE  /\ SubSeq(s, 1, k) \in Seq(Line)
           /\ SubSeq(s, k + 1, Len(s)) \in Seq(Line)
           /\ Bytes(s) = Bytes(SubSeq(s, 1, k)) + Bytes(SubSeq(s, k + 1, Len(s)))
<1>1. /\ SubSeq(s, 1, k) \in Seq(Line)
      /\ SubSeq(s, k + 1, Len(s)) \in Seq(Line)
  OBVIOUS
<1>2. s = SubSeq(s, 1, k) \o SubSeq(s, k + 1, Len(s))
  <2>1. 1 \in 1 .. Len(s) + 1 /\ k \in 1 - 1 .. Len(s) /\ Len(s) \in k .. Len(s)
    OBVIOUS
  <2>2. SubSeq(s, 1, k) \o SubSeq(s, k + 1, Len(s)) = SubSeq(s, 1, Len(s))
    BY <2>1, ConcatAdjacentSubSeq
  <2>3. QED
    BY <2>2, SubSeqFull
<1>3. QED
  BY <1>1, <1>2, BytesConcat

-----------------------------------------------------------------------------
\* The stages that exist, one set for each kind, each with what holds of its
\* own counters and buffers whatever the stream has been.
Pats == SUBSET (Text \cup Marker)

StripStage == [kind: {"StripAnsi"}]
DropStage == [kind: {"DropRegex"}, pattern: Pats]
KeepStage == [kind: {"KeepRegex"}, patterns: SUBSET Pats]
ReplaceStage == [kind: {"ReplaceRegex"}, rewrite: [Text -> Text]]
DedupeStage ==
    {s \in [kind: {"Dedupe"}, max_kept: Nat, last: Seq(Line),
            repeat_count: Nat] : Len(s.last) <= 1}
CollapseStage ==
    [kind: {"CollapseRepeated"}, pattern: Pats, max_kept: Nat,
     kept_so_far: Nat, dropped: Nat]
HeadStage ==
    {s \in [kind: {"KeepHead"}, unit: {"lines", "bytes"}, n: Nat,
            remaining: Nat] : s.remaining <= s.n}
TailStage ==
    {s \in [kind: {"KeepTail"}, unit: {"lines", "bytes"}, n: Nat \ {0},
            ring: Seq(Line), byte_count: Nat] :
        /\ s.unit = "lines" => Len(s.ring) <= s.n
        /\ s.unit = "bytes" => \/ Bytes(s.ring) <= s.n
                               \/ Len(s.ring) = 1}
AroundStage ==
    {s \in [kind: {"KeepAroundMatch"}, pattern: Pats, before: Nat, after: Nat,
            ctx_buf: Seq(Line), emit_after: Nat] :
        Len(s.ctx_buf) <= s.before /\ s.emit_after <= s.after}
CapStage ==
    {s \in [kind: {"MaxBytes"}, cap: Nat, written: Nat, truncated: BOOLEAN,
            dropped_bytes: Nat] : s.written <= s.cap}

Stage ==
    StripStage \cup DropStage \cup KeepStage \cup ReplaceStage
    \cup DedupeStage \cup CollapseStage \cup HeadStage \cup TailStage
    \cup AroundStage \cup CapStage

\* The byte count of a ring is its bytes; a flush empties the ring and leaves
\* the count, so this is only asked of stages still to be flushed.
Counted(s) ==
    s.kind = "KeepTail" /\ s.unit = "bytes" => s.byte_count = Bytes(s.ring)

Live == {s \in Stage : Counted(s)}

\* What a line may do to a stage: the stage stays one of its kind, emits
\* lines, and where it caps the bytes it counts exactly what it emits.
Outcome(s, r) ==
    /\ r \in [stage: Live, out: Seq(Line)]
    /\ r.stage.kind = s.kind
    /\ s.kind = "MaxBytes" => r.stage.written = s.written + Bytes(r.out)

\* The kind of a stage says which set it is in.
LEMMA KindDecides ==
    ASSUME NEW s \in Stage
    PROVE  /\ s.kind = "StripAnsi" => s \in StripStage
           /\ s.kind = "DropRegex" => s \in DropStage
           /\ s.kind = "KeepRegex" => s \in KeepStage
           /\ s.kind = "ReplaceRegex" => s \in ReplaceStage
           /\ s.kind = "Dedupe" => s \in DedupeStage
           /\ s.kind = "CollapseRepeated" => s \in CollapseStage
           /\ s.kind = "KeepHead" => s \in HeadStage
           /\ s.kind = "KeepTail" => s \in TailStage
           /\ s.kind = "KeepAroundMatch" => s \in AroundStage
           /\ s.kind = "MaxBytes" => s \in CapStage
<1>1. s \in StripStage => s.kind = "StripAnsi"
  BY DEF StripStage
<1>2. s \in DropStage => s.kind = "DropRegex"
  BY DEF DropStage
<1>3. s \in KeepStage => s.kind = "KeepRegex"
  BY DEF KeepStage
<1>4. s \in ReplaceStage => s.kind = "ReplaceRegex"
  BY DEF ReplaceStage
<1>5. s \in DedupeStage => s.kind = "Dedupe"
  BY DEF DedupeStage
<1>6. s \in CollapseStage => s.kind = "CollapseRepeated"
  BY DEF CollapseStage
<1>7. s \in HeadStage => s.kind = "KeepHead"
  BY DEF HeadStage
<1>8. s \in TailStage => s.kind = "KeepTail"
  BY DEF TailStage
<1>9. s \in AroundStage => s.kind = "KeepAroundMatch"
  BY DEF AroundStage
<1>10. s \in CapStage => s.kind = "MaxBytes"
  BY DEF CapStage
<1>11. QED
  BY <1>1, <1>2, <1>3, <1>4, <1>5, <1>6, <1>7, <1>8, <1>9, <1>10 DEF Stage

\* There are ten kinds.
LEMMA StageKinds ==
    ASSUME NEW s \in Stage
    PROVE  s.kind \in {"StripAnsi", "DropRegex", "KeepRegex", "ReplaceRegex",
                       "Dedupe", "CollapseRepeated", "KeepHead", "KeepTail",
                       "KeepAroundMatch", "MaxBytes"}
  BY DEF Stage, StripStage, DropStage, KeepStage, ReplaceStage, DedupeStage,
         CollapseStage, HeadStage, TailStage, AroundStage, CapStage

\* What a stage that does not count bytes gives back.
LEMMA PlainOutcome ==
    ASSUME NEW s, NEW t \in Stage, NEW out \in Seq(Line),
           t.kind = s.kind, s.kind \notin {"KeepTail", "MaxBytes"}
    PROVE  Outcome(s, Emit(t, out))
  BY DEF Outcome, Emit, Live, Counted

\* A rewritten line is a line.
LEMMA RewrittenType ==
    ASSUME NEW line \in Line, NEW f \in [Text -> Text]
    PROVE  Rewritten(line, f) \in Line
<1>1. CASE line.text \in Text
  <2>1. line \in ToolLine
    BY <1>1, TextAssumption DEF Line
  <2>2. [line EXCEPT !.text = f[line.text]] \in ToolLine
    BY <1>1, <2>1 DEF ToolLine
  <2>3. QED
    BY <1>1, <2>2 DEF Rewritten, Line
<1>2. CASE line.text \notin Text
  BY <1>2 DEF Rewritten
<1>3. QED
  BY <1>1, <1>2

\* One line through strip_ansi.
LEMMA StripOutcome ==
    ASSUME NEW s \in StripStage, NEW line \in Line
    PROVE  Outcome(s, StripAnsiStep(s, line))
<1>1. s \in Stage /\ s.kind = "StripAnsi"
  BY DEF Stage, StripStage
<1>2. <<Rewritten(line, Plain)>> \in Seq(Line)
  BY RewrittenType, TextAssumption
<1>3. QED
  BY <1>1, <1>2, PlainOutcome DEF StripAnsiStep

\* One line through replace_regex.
LEMMA ReplaceOutcome ==
    ASSUME NEW s \in ReplaceStage, NEW line \in Line
    PROVE  Outcome(s, ReplaceRegexStep(s, line))
<1>1. s \in Stage /\ s.kind = "ReplaceRegex" /\ s.rewrite \in [Text -> Text]
  BY DEF Stage, ReplaceStage
<1>2. <<Rewritten(line, s.rewrite)>> \in Seq(Line)
  BY <1>1, RewrittenType
<1>3. QED
  BY <1>1, <1>2, PlainOutcome DEF ReplaceRegexStep

\* One line through drop_regex.
LEMMA DropOutcome ==
    ASSUME NEW s \in DropStage, NEW line \in Line
    PROVE  Outcome(s, DropRegexStep(s, line))
<1>1. s \in Stage /\ s.kind = "DropRegex"
  BY DEF Stage, DropStage
<1>2. (IF line.text \in s.pattern THEN <<>> ELSE <<line>>) \in Seq(Line)
  OBVIOUS
<1>3. QED
  BY <1>1, <1>2, PlainOutcome DEF DropRegexStep

\* One line through keep_regex.
LEMMA KeepOutcome ==
    ASSUME NEW s \in KeepStage, NEW line \in Line
    PROVE  Outcome(s, KeepRegexStep(s, line))
<1>1. s \in Stage /\ s.kind = "KeepRegex"
  BY DEF Stage, KeepStage
<1>2. (IF \E p \in s.patterns : line.text \in p THEN <<line>> ELSE <<>>)
        \in Seq(Line)
  OBVIOUS
<1>3. QED
  BY <1>1, <1>2, PlainOutcome DEF KeepRegexStep

\* One line through dedupe.
LEMMA DedupeOutcome ==
    ASSUME NEW s \in DedupeStage, NEW line \in Line
    PROVE  Outcome(s, DedupeStep(s, line))
<1>1. s \in Stage /\ s.kind = "Dedupe"
  BY DEF Stage, DedupeStage
<1>2. <<>> \in Seq(Line) /\ <<line>> \in Seq(Line) /\ Len(<<line>>) = 1
  OBVIOUS
<1>3. CASE s.last # <<line>>
  <2> DEFINE t == [s EXCEPT !.last = <<line>>, !.repeat_count = 1]
  <2>1. t \in DedupeStage /\ t.kind = "Dedupe"
    <3> DEFINE R == [kind: {"Dedupe"}, max_kept: Nat, last: Seq(Line),
                     repeat_count: Nat]
               l == <<line>>
               u == [s EXCEPT !.last = l, !.repeat_count = 1]
    <3>1. s \in R /\ l \in Seq(Line) /\ Len(l) = 1
      BY <1>2 DEF DedupeStage
    <3> HIDE DEF l
    <3>2. u \in R /\ u.last = l /\ u.kind = "Dedupe"
      BY <3>1
    <3> HIDE DEF u
    <3>3. Len(u.last) = 1
      BY ONLY <3>1, <3>2
    <3>4. Len(u.last) <= 1
      BY ONLY <3>3
    <3>5. u \in R
      BY <3>2
    <3>6. u \in DedupeStage
      BY ONLY <3>4, <3>5 DEF DedupeStage, R
    <3>7. QED
      BY <3>2, <3>6 DEF l, u
  <2>2. t \in Stage
    BY <2>1 DEF Stage
  <2>3. DedupeStep(s, line) = Emit(t, <<line>>)
    BY <1>3 DEF DedupeStep
  <2> HIDE DEF t
  <2>4. QED
    BY <1>1, <1>2, <2>1, <2>2, <2>3, PlainOutcome
<1>4. CASE s.last = <<line>> /\ s.repeat_count < s.max_kept
  <2> DEFINE t == [s EXCEPT !.repeat_count = @ + 1]
  <2>1. t \in DedupeStage /\ t.kind = "Dedupe"
    BY DEF DedupeStage
  <2>2. t \in Stage
    BY <2>1 DEF Stage
  <2>3. DedupeStep(s, line) = Emit(t, <<line>>)
    BY <1>4 DEF DedupeStep
  <2> HIDE DEF t
  <2>4. QED
    BY <1>1, <1>2, <2>1, <2>2, <2>3, PlainOutcome
<1>5. CASE s.last = <<line>> /\ ~(s.repeat_count < s.max_kept)
  <2>1. DedupeStep(s, line) = Emit(s, <<>>)
    BY <1>5 DEF DedupeStep
  <2>2. QED
    BY <1>1, <1>2, <2>1, PlainOutcome
<1>6. QED
  BY <1>3, <1>4, <1>5

\* What a collapsed run leaves is a list of lines.
LEMMA CollapsedMarkerType ==
    ASSUME NEW s \in CollapseStage
    PROVE  CollapsedMarker(s) \in Seq(Line)
<1>1. s.dropped \in Nat
  BY DEF CollapseStage
<1>2. [text |-> "collapsed", count |-> s.dropped] \in Line
  BY <1>1 DEF Line, Marker
<1>3. QED
  BY <1>2 DEF CollapsedMarker

\* One line through collapse_repeated.
LEMMA CollapseOutcome ==
    ASSUME NEW s \in CollapseStage, NEW line \in Line
    PROVE  Outcome(s, CollapseStep(s, line))
<1>1. s \in Stage /\ s.kind = "CollapseRepeated"
  BY DEF Stage, CollapseStage
<1>2. <<>> \in Seq(Line) /\ <<line>> \in Seq(Line)
  OBVIOUS
<1>3. CASE line.text \notin s.pattern
  <2> DEFINE t == [s EXCEPT !.kept_so_far = 0, !.dropped = 0]
  <2>1. t \in CollapseStage /\ t.kind = "CollapseRepeated"
    BY DEF CollapseStage
  <2>2. t \in Stage
    BY <2>1 DEF Stage
  <2>3. Append(CollapsedMarker(s), line) \in Seq(Line)
    BY CollapsedMarkerType
  <2>4. CollapseStep(s, line) = Emit(t, Append(CollapsedMarker(s), line))
    BY <1>3 DEF CollapseStep
  <2> HIDE DEF t
  <2>5. QED
    BY <1>1, <2>1, <2>2, <2>3, <2>4, PlainOutcome
<1>4. CASE line.text \in s.pattern /\ s.kept_so_far < s.max_kept
  <2> DEFINE t == [s EXCEPT !.kept_so_far = @ + 1]
  <2>1. t \in CollapseStage /\ t.kind = "CollapseRepeated"
    BY DEF CollapseStage
  <2>2. t \in Stage
    BY <2>1 DEF Stage
  <2>3. CollapseStep(s, line) = Emit(t, <<line>>)
    BY <1>4 DEF CollapseStep
  <2> HIDE DEF t
  <2>4. QED
    BY <1>1, <1>2, <2>1, <2>2, <2>3, PlainOutcome
<1>5. CASE line.text \in s.pattern /\ ~(s.kept_so_far < s.max_kept)
  <2> DEFINE t == [s EXCEPT !.dropped = @ + 1]
  <2>1. t \in CollapseStage /\ t.kind = "CollapseRepeated"
    BY DEF CollapseStage
  <2>2. t \in Stage
    BY <2>1 DEF Stage
  <2>3. CollapseStep(s, line) = Emit(t, <<>>)
    BY <1>5 DEF CollapseStep
  <2> HIDE DEF t
  <2>4. QED
    BY <1>1, <1>2, <2>1, <2>2, <2>3, PlainOutcome
<1>6. QED
  BY <1>3, <1>4, <1>5

\* One line through keep_head: the budget is never overspent.
LEMMA HeadOutcome ==
    ASSUME NEW s \in HeadStage, NEW line \in Line
    PROVE  Outcome(s, KeepHeadStep(s, line))
<1>1. s \in Stage /\ s.kind = "KeepHead" /\ s.remaining \in Nat
  BY DEF Stage, HeadStage
<1>2. <<>> \in Seq(Line) /\ <<line>> \in Seq(Line)
  OBVIOUS
<1> DEFINE cost == IF s.unit = "lines" THEN 1 ELSE Width[line.text]
<1>3. cost \in Nat
  BY WidthType
<1>4. KeepHeadStep(s, line) =
        IF s.remaining >= cost
        THEN Emit([s EXCEPT !.remaining = @ - cost], <<line>>)
        ELSE Emit([s EXCEPT !.remaining = 0], <<>>)
  BY DEF KeepHeadStep
<1> HIDE DEF cost
<1>5. CASE s.remaining >= cost
  <2> DEFINE t == [s EXCEPT !.remaining = @ - cost]
  <2>1. t \in HeadStage /\ t.kind = "KeepHead"
    BY <1>1, <1>3, <1>5 DEF HeadStage
  <2>2. t \in Stage
    BY <2>1 DEF Stage
  <2>3. KeepHeadStep(s, line) = Emit(t, <<line>>)
    BY <1>4, <1>5
  <2> HIDE DEF t
  <2>4. QED
    BY <1>1, <1>2, <2>1, <2>2, <2>3, PlainOutcome
<1>6. CASE ~(s.remaining >= cost)
  <2> DEFINE t == [s EXCEPT !.remaining = 0]
  <2>1. t \in HeadStage /\ t.kind = "KeepHead"
    BY DEF HeadStage
  <2>2. t \in Stage
    BY <2>1 DEF Stage
  <2>3. KeepHeadStep(s, line) = Emit(t, <<>>)
    BY <1>4, <1>6
  <2> HIDE DEF t
  <2>4. QED
    BY <1>1, <1>2, <2>1, <2>2, <2>3, PlainOutcome
<1>7. QED
  BY <1>5, <1>6

\* The number of lines a ring gives up is a number of its lines, and in bytes
\* mode what stays of it either is nothing or makes room for the line.
LEMMA PoppedType ==
    ASSUME NEW s \in TailStage, NEW line \in Line
    PROVE  /\ PoppedFor(s, line) \in 0 .. Len(s.ring)
           /\ s.unit = "lines" =>
                PoppedFor(s, line) = IF Len(s.ring) >= s.n THEN 1 ELSE 0
           /\ s.unit = "bytes" =>
                \/ PoppedFor(s, line) = Len(s.ring)
                \/ s.byte_count - Bytes(SubSeq(s.ring, 1, PoppedFor(s, line)))
                     + Width[line.text] <= s.n
<1>1. /\ s.ring \in Seq(Line) /\ s.n \in Nat \ {0} /\ Len(s.ring) \in Nat
      /\ s.unit \in {"lines", "bytes"}
  BY DEF TailStage
<1>2. CASE s.unit = "lines"
  <2>1. PoppedFor(s, line) = IF Len(s.ring) >= s.n THEN 1 ELSE 0
    BY <1>2 DEF PoppedFor
  <2>2. QED
    BY <1>1, <1>2, <2>1
<1>3. CASE s.unit = "bytes"
  <2> DEFINE Fits(k) == s.byte_count - Bytes(SubSeq(s.ring, 1, k))
                          + Width[line.text] <= s.n
             K == {Len(s.ring)} \cup {k \in 0 .. Len(s.ring) : Fits(k)}
  <2>1. PoppedFor(s, line) = Min(K)
    BY <1>3 DEF PoppedFor
  <2>2. K \in SUBSET Nat /\ K # {}
    BY <1>1
  <2>3. Min(K) \in K
    <3> HIDE DEF K
    <3>1. QED
      BY <2>2, BytesFold!MinOfNaturals DEF BytesFold!Min, Min
  <2>4. Min(K) = Len(s.ring) \/ (Min(K) \in 0 .. Len(s.ring) /\ Fits(Min(K)))
    BY <2>3
  <2> HIDE DEF K
  <2>5. QED
    BY <1>1, <1>3, <2>1, <2>4
<1>4. QED
  BY <1>1, <1>2, <1>3

\* One line through keep_tail: the ring stays within n, or holds one line that is longer,
\* and its count stays its bytes.
LEMMA TailOutcome ==
    ASSUME NEW s \in TailStage, Counted(s), NEW line \in Line
    PROVE  Outcome(s, KeepTailStep(s, line))
<1> DEFINE k == PoppedFor(s, line)
           kept == SubSeq(s.ring, k + 1, Len(s.ring))
           ring == Append(kept, line)
           w == Width[line.text]
           counted == IF s.unit = "lines" THEN 0
                      ELSE s.byte_count - Bytes(SubSeq(s.ring, 1, k)) + w
           R == [kind: {"KeepTail"}, unit: {"lines", "bytes"}, n: Nat \ {0},
                 ring: Seq(Line), byte_count: Nat]
           t == [s EXCEPT !.ring = ring, !.byte_count = counted]
<1>1. /\ s \in R /\ s.kind = "KeepTail"
      /\ s.ring \in Seq(Line) /\ s.n \in Nat \ {0} /\ Len(s.ring) \in Nat
      /\ s.unit \in {"lines", "bytes"}
      /\ s.unit = "lines" => Len(s.ring) <= s.n
  BY DEF TailStage
<1>2. /\ k \in 0 .. Len(s.ring)
      /\ s.unit = "lines" => k = IF Len(s.ring) >= s.n THEN 1 ELSE 0
      /\ s.unit = "bytes" =>
           \/ k = Len(s.ring)
           \/ s.byte_count - Bytes(SubSeq(s.ring, 1, k)) + w <= s.n
  BY PoppedType
<1>3. KeepTailStep(s, line) = Emit(t, <<>>)
  BY DEF KeepTailStep
<1>4. w \in Nat
  BY WidthType
<1> HIDE DEF k, w
<1>5. /\ SubSeq(s.ring, 1, k) \in Seq(Line) /\ kept \in Seq(Line)
      /\ Bytes(s.ring) = Bytes(SubSeq(s.ring, 1, k)) + Bytes(kept)
  BY <1>1, <1>2, BytesSplit
<1>6. Len(kept) = Len(s.ring) - k
  BY <1>1, <1>2
<1>7. /\ ring \in Seq(Line) /\ Len(ring) = Len(s.ring) - k + 1
      /\ Bytes(ring) = Bytes(kept) + w
  <2>1. Bytes(Append(kept, line)) = Bytes(kept) + w
    BY <1>5, BytesAppend DEF w
  <2> HIDE DEF kept
  <2>2. QED
    BY <1>1, <1>2, <1>5, <1>6, <2>1
<1>8. /\ Bytes(SubSeq(s.ring, 1, k)) \in Nat /\ Bytes(kept) \in Nat
      /\ Bytes(ring) \in Nat
  BY <1>5, <1>7, BytesType
<1>9. s.unit = "bytes" => s.byte_count = Bytes(s.ring)
  BY <1>1 DEF Counted
<1>10. /\ counted \in Nat
       /\ s.unit = "bytes" => counted = Bytes(ring)
  <2> HIDE DEF kept, ring
  <2>1. CASE s.unit = "lines"
    BY <2>1
  <2>2. CASE s.unit = "bytes"
    BY <1>4, <1>5, <1>7, <1>8, <1>9, <2>2
  <2>3. QED
    BY <1>1, <2>1, <2>2
<1> HIDE DEF ring
<1>11. s.unit = "lines" => Len(ring) <= s.n
  BY <1>1, <1>2, <1>7
<1>12. s.unit = "bytes" => Bytes(ring) <= s.n \/ Len(ring) = 1
  <2>1. ASSUME s.unit = "bytes", k = Len(s.ring) PROVE Len(ring) = 1
    BY <1>1, <1>7, <2>1
  <2>2. ASSUME s.unit = "bytes",
               s.byte_count - Bytes(SubSeq(s.ring, 1, k)) + w <= s.n
        PROVE  Bytes(ring) <= s.n
    BY <1>4, <1>5, <1>7, <1>8, <1>9, <2>2
  <2>3. QED
    BY <1>2, <2>1, <2>2
<1> HIDE DEF counted, kept
<1>13. /\ t \in R /\ t.kind = "KeepTail" /\ t.unit = s.unit /\ t.n = s.n
       /\ t.ring = ring /\ t.byte_count = counted
  BY <1>1, <1>7, <1>10
<1> HIDE DEF t
<1>14. t \in TailStage
  BY <1>11, <1>12, <1>13 DEF TailStage
<1>15. t \in Live
  BY <1>10, <1>13, <1>14 DEF Live, Stage, Counted
<1>16. <<>> \in Seq(Line)
  OBVIOUS
<1>17. QED
  BY <1>1, <1>3, <1>13, <1>15, <1>16 DEF Outcome, Emit

\* One line through keep_around_match: the context never holds more than `before` lines.
LEMMA AroundOutcome ==
    ASSUME NEW s \in AroundStage, NEW line \in Line
    PROVE  Outcome(s, KeepAroundStep(s, line))
<1> DEFINE R == [kind: {"KeepAroundMatch"}, pattern: Pats, before: Nat,
                 after: Nat, ctx_buf: Seq(Line), emit_after: Nat]
<1>1. /\ s \in Stage /\ s.kind = "KeepAroundMatch" /\ s \in R
      /\ s.ctx_buf \in Seq(Line) /\ Len(s.ctx_buf) <= s.before
      /\ s.emit_after <= s.after
      /\ {s.before, s.after, s.emit_after} \subseteq Nat
  BY DEF Stage, AroundStage
<1>2. <<>> \in Seq(Line) /\ <<line>> \in Seq(Line) /\ Len(<<>>) = 0
  OBVIOUS
<1>3. CASE line.text \in s.pattern
  <2> DEFINE t == [s EXCEPT !.ctx_buf = <<>>, !.emit_after = s.after]
  <2>1. /\ t \in R /\ t.kind = "KeepAroundMatch" /\ t.ctx_buf = <<>>
        /\ t.before = s.before /\ t.after = s.after /\ t.emit_after = s.after
    BY <1>1, <1>2
  <2>2. Append(s.ctx_buf, line) \in Seq(Line)
    BY <1>1
  <2>3. KeepAroundStep(s, line) = Emit(t, Append(s.ctx_buf, line))
    BY <1>3 DEF KeepAroundStep
  <2> HIDE DEF t
  <2>4. t \in AroundStage
    BY <1>1, <1>2, <2>1 DEF AroundStage
  <2>5. t \in Stage
    BY <2>4 DEF Stage
  <2>6. t.kind = s.kind /\ s.kind \notin {"KeepTail", "MaxBytes"}
    BY <1>1, <2>1
  <2> HIDE DEF R
  <2>7. QED
    BY <2>2, <2>3, <2>5, <2>6, PlainOutcome
<1>4. CASE line.text \notin s.pattern /\ s.emit_after > 0
  <2> DEFINE t == [s EXCEPT !.emit_after = @ - 1]
  <2>1. /\ t \in R /\ t.kind = "KeepAroundMatch" /\ t.ctx_buf = s.ctx_buf
        /\ t.before = s.before /\ t.after = s.after
        /\ t.emit_after = s.emit_after - 1
    BY <1>1, <1>4
  <2>2. KeepAroundStep(s, line) = Emit(t, <<line>>)
    BY <1>4 DEF KeepAroundStep
  <2> HIDE DEF t
  <2>3. t \in AroundStage
    BY <1>1, <2>1 DEF AroundStage
  <2>4. t \in Stage
    BY <2>3 DEF Stage
  <2>5. t.kind = s.kind /\ s.kind \notin {"KeepTail", "MaxBytes"}
    BY <1>1, <2>1
  <2> HIDE DEF R
  <2>6. QED
    BY <1>2, <2>2, <2>4, <2>5, PlainOutcome
<1>5. CASE line.text \notin s.pattern /\ ~(s.emit_after > 0) /\ s.before = 0
  <2>1. KeepAroundStep(s, line) = Emit(s, <<>>)
    BY <1>5 DEF KeepAroundStep
  <2>2. QED
    BY <1>1, <1>2, <2>1, PlainOutcome
<1>6. CASE line.text \notin s.pattern /\ ~(s.emit_after > 0) /\ s.before # 0
  <2> DEFINE kept == IF Len(s.ctx_buf) >= s.before
                     THEN Tail(s.ctx_buf) ELSE s.ctx_buf
             ctx == Append(kept, line)
             t == [s EXCEPT !.ctx_buf = ctx]
  <2>1. kept \in Seq(Line) /\ Len(kept) < s.before
    <3>1. CASE Len(s.ctx_buf) >= s.before
      <4>1. s.ctx_buf # <<>>
        BY <1>1, <1>2, <1>6, <3>1
      <4>2. Tail(s.ctx_buf) \in Seq(Line) /\ Len(Tail(s.ctx_buf)) = Len(s.ctx_buf) - 1
        BY <1>1, <4>1, HeadTailProperties
      <4>3. QED
        BY <1>1, <3>1, <4>2
    <3>2. CASE ~(Len(s.ctx_buf) >= s.before)
      BY <1>1, <3>2
    <3>3. QED
      BY <3>1, <3>2
  <2>2. KeepAroundStep(s, line) = Emit(t, <<>>)
    BY <1>6 DEF KeepAroundStep
  <2> HIDE DEF kept
  <2>3. ctx \in Seq(Line) /\ Len(ctx) <= s.before
    BY <1>1, <2>1
  <2> HIDE DEF ctx
  <2>4. /\ t \in R /\ t.kind = "KeepAroundMatch" /\ t.ctx_buf = ctx
        /\ t.before = s.before /\ t.after = s.after
        /\ t.emit_after = s.emit_after
    BY <1>1, <2>3
  <2> HIDE DEF t
  <2>5. t \in AroundStage
    BY <1>1, <2>3, <2>4 DEF AroundStage
  <2>6. t \in Stage
    BY <2>5 DEF Stage
  <2>7. t.kind = s.kind /\ s.kind \notin {"KeepTail", "MaxBytes"}
    BY <1>1, <2>4
  <2> HIDE DEF R
  <2>8. QED
    BY <1>2, <2>2, <2>6, <2>7, PlainOutcome
<1>7. QED
  BY <1>3, <1>4, <1>5, <1>6

\* One line through max_bytes: what it has let through stays within the cap.
LEMMA CapOutcome ==
    ASSUME NEW s \in CapStage, NEW line \in Line
    PROVE  Outcome(s, MaxBytesStep(s, line))
<1> DEFINE w == Width[line.text]
<1>1. /\ s \in Stage /\ s.kind = "MaxBytes" /\ s \in Live
      /\ s.written \in Nat /\ s.cap \in Nat
  BY DEF Stage, CapStage, Live, Counted
<1>2. /\ <<>> \in Seq(Line) /\ <<line>> \in Seq(Line)
      /\ Bytes(<<>>) = 0 /\ Bytes(<<line>>) = w
  <2>1. <<line>> = Append(<<>>, line) /\ <<>> \in Seq(Line)
    OBVIOUS
  <2>2. Bytes(<<line>>) = Bytes(<<>>) + w
    BY <2>1, BytesAppend
  <2>3. QED
    BY <2>1, <2>2, BytesEmpty, WidthType
<1>3. w \in Nat
  BY WidthType
<1>4. MaxBytesStep(s, line) =
        IF s.truncated \/ s.written + w > s.cap
        THEN Emit([s EXCEPT !.truncated = TRUE, !.dropped_bytes = @ + w], <<>>)
        ELSE Emit([s EXCEPT !.written = @ + w], <<line>>)
  BY DEF MaxBytesStep
<1> HIDE DEF w
<1>5. CASE s.truncated \/ s.written + w > s.cap
  <2> DEFINE t == [s EXCEPT !.truncated = TRUE, !.dropped_bytes = @ + w]
  <2>1. t \in CapStage /\ t.kind = "MaxBytes" /\ t.written = s.written
    <3> DEFINE R == [kind: {"MaxBytes"}, cap: Nat, written: Nat,
                     truncated: BOOLEAN, dropped_bytes: Nat]
    <3>1. s \in R /\ s.written <= s.cap /\ s.dropped_bytes + w \in Nat
      BY <1>3 DEF CapStage
    <3>2. /\ t \in R /\ t.kind = "MaxBytes" /\ t.written = s.written
          /\ t.cap = s.cap
      BY <3>1
    <3> HIDE DEF t
    <3>3. QED
      BY <3>1, <3>2 DEF CapStage
  <2>2. MaxBytesStep(s, line) = Emit(t, <<>>)
    BY <1>4, <1>5
  <2> HIDE DEF t
  <2>3. t \in Live
    BY <2>1 DEF Live, Stage, Counted
  <2>4. QED
    BY <1>1, <1>2, <2>1, <2>2, <2>3 DEF Outcome, Emit
<1>6. CASE ~(s.truncated \/ s.written + w > s.cap)
  <2> DEFINE t == [s EXCEPT !.written = @ + w]
  <2>1. t \in CapStage /\ t.kind = "MaxBytes" /\ t.written = s.written + w
    BY <1>1, <1>3, <1>6 DEF CapStage
  <2>2. MaxBytesStep(s, line) = Emit(t, <<line>>)
    BY <1>4, <1>6
  <2> HIDE DEF t
  <2>3. t \in Live
    BY <2>1 DEF Live, Stage, Counted
  <2>4. QED
    BY <1>1, <1>2, <2>1, <2>2, <2>3 DEF Outcome, Emit
<1>7. QED
  BY <1>5, <1>6

\* One line through any stage that has not been flushed.
LEMMA StepOutcome ==
    ASSUME NEW s \in Live, NEW line \in Line
    PROVE  Outcome(s, Step(s, line))
<1>1. s \in Stage /\ Counted(s)
  BY DEF Live
<1>2. CASE s.kind = "StripAnsi"
  BY <1>1, <1>2, KindDecides, StripOutcome DEF Step
<1>3. CASE s.kind = "DropRegex"
  BY <1>1, <1>3, KindDecides, DropOutcome DEF Step
<1>4. CASE s.kind = "KeepRegex"
  BY <1>1, <1>4, KindDecides, KeepOutcome DEF Step
<1>5. CASE s.kind = "ReplaceRegex"
  BY <1>1, <1>5, KindDecides, ReplaceOutcome DEF Step
<1>6. CASE s.kind = "Dedupe"
  BY <1>1, <1>6, KindDecides, DedupeOutcome DEF Step
<1>7. CASE s.kind = "CollapseRepeated"
  BY <1>1, <1>7, KindDecides, CollapseOutcome DEF Step
<1>8. CASE s.kind = "KeepHead"
  BY <1>1, <1>8, KindDecides, HeadOutcome DEF Step
<1>9. CASE s.kind = "KeepTail"
  BY <1>1, <1>9, KindDecides, TailOutcome DEF Step
<1>10. CASE s.kind = "KeepAroundMatch"
  BY <1>1, <1>10, KindDecides, AroundOutcome DEF Step
<1>11. CASE s.kind = "MaxBytes"
  BY <1>1, <1>11, KindDecides, CapOutcome DEF Step
<1>12. QED
  BY <1>1, <1>2, <1>3, <1>4, <1>5, <1>6, <1>7, <1>8, <1>9, <1>10, <1>11,
     StageKinds

-----------------------------------------------------------------------------
\* A batch of lines through one stage, as a fold.
StepLine(acc, line) ==
    LET r == Step(acc.stage, line)
    IN  Emit(r.stage, acc.out \o r.out)

StepFold == INSTANCE Folding WITH Op <- StepLine

\* StepAll is the fold of StepLine.
LEMMA StepAllIsFold ==
    \A s, lines : StepAll(s, lines) = StepFold!Fold(Emit(s, <<>>), lines)
  BY DEF StepAll, StepFold!Fold, StepFold!IsIter, FoldLeft, MapThenFoldSet,
         Max, StepFold!Max, StepLine

\* A batch does to a stage what one line may do.
LEMMA StepAllOutcome ==
    ASSUME NEW s \in Live, NEW lines \in Seq(Line)
    PROVE  Outcome(s, StepAll(s, lines))
<1> DEFINE X == {r \in [stage: Live, out: Seq(Line)] : Outcome(s, r)}
           b == Emit(s, <<>>)
<1>1. s.kind = "MaxBytes" => s.written \in Nat
  BY KindDecides DEF Live, CapStage
<1>2. b \in X
  <2>1. b \in [stage: Live, out: Seq(Line)] /\ b.stage = s /\ b.out = <<>>
    BY DEF Emit
  <2> HIDE DEF b
  <2>2. Outcome(s, b)
    BY <1>1, <2>1, BytesEmpty DEF Outcome
  <2>3. QED
    BY <2>1, <2>2
<1>3. ASSUME NEW acc \in X, NEW line \in Line PROVE StepLine(acc, line) \in X
  <2> DEFINE r == Step(acc.stage, line)
             e == StepLine(acc, line)
  <2>1. acc.stage \in Live /\ acc.out \in Seq(Line) /\ Outcome(s, acc)
    OBVIOUS
  <2>2. Outcome(acc.stage, r)
    BY <2>1, StepOutcome
  <2>3. r.stage \in Live /\ r.out \in Seq(Line) /\ r.stage.kind = acc.stage.kind
    BY <2>2 DEF Outcome
  <2>4. acc.stage.kind = s.kind
    BY <2>1 DEF Outcome
  <2>5. /\ e \in [stage: Live, out: Seq(Line)]
        /\ e.stage = r.stage /\ e.out = acc.out \o r.out
    BY <2>1, <2>3 DEF StepLine, Emit
  <2>6. ASSUME s.kind = "MaxBytes"
        PROVE  e.stage.written = s.written + Bytes(e.out)
    <3>1. acc.stage.written = s.written + Bytes(acc.out)
      BY <2>1, <2>6 DEF Outcome
    <3>2. r.stage.written = acc.stage.written + Bytes(r.out)
      BY <2>2, <2>4, <2>6 DEF Outcome
    <3>3. Bytes(e.out) = Bytes(acc.out) + Bytes(r.out)
      BY <2>1, <2>3, <2>5, BytesConcat
    <3>4. Bytes(acc.out) \in Nat /\ Bytes(r.out) \in Nat
      BY <2>1, <2>3, BytesType
    <3> HIDE DEF e, r
    <3>5. QED
      BY <1>1, <2>5, <2>6, <3>1, <3>2, <3>3, <3>4
  <2> HIDE DEF e, r
  <2>7. Outcome(s, e)
    BY <2>3, <2>4, <2>5, <2>6 DEF Outcome
  <2>8. QED
    BY <2>5, <2>7 DEF e
<1> HIDE DEF X, b
<1>4. StepFold!Fold(b, lines) \in X
  BY <1>2, <1>3, StepFold!FoldType
<1>5. QED
  BY <1>4, StepAllIsFold DEF X, b

-----------------------------------------------------------------------------
\* A batch of lines through a list of stages, as a fold.
PassOn(acc, s) ==
    LET r == StepAll(s, acc.out)
    IN  [stages |-> Append(acc.stages, r.stage), out |-> r.out]

PassFold == INSTANCE Folding WITH Op <- PassOn

\* Through is the fold of PassOn.
LEMMA ThroughIsFold ==
    \A list, lines : Through(list, lines) =
        PassFold!Fold([stages |-> <<>>, out |-> lines], list)
  BY DEF Through, PassFold!Fold, PassFold!IsIter, FoldLeft, MapThenFoldSet,
         Max, PassFold!Max, PassOn

\* Without a stage the lines come out as they are.
LEMMA ThroughEmpty ==
    \A lines : Through(<<>>, lines) = [stages |-> <<>>, out |-> lines]
  BY ThroughIsFold, PassFold!FoldEmpty

\* The last stage takes what comes out of the ones before it.
LEMMA ThroughAppend ==
    ASSUME NEW list \in Seq(Live), NEW s \in Live, NEW lines
    PROVE  Through(Append(list, s), lines) = PassOn(Through(list, lines), s)
<1> DEFINE b == [stages |-> <<>>, out |-> lines]
<1>1. PassFold!Fold(b, Append(list, s)) = PassOn(PassFold!Fold(b, list), s)
  BY PassFold!FoldAppend
<1>2. QED
  BY <1>1, ThroughIsFold

\* What a list of stages makes of a batch: the same stages, moved on, and
\* where the last one caps the bytes it has counted what it let through.
PassResult(list, r) ==
    /\ r.stages \in Seq(Live) /\ r.out \in Seq(Line)
    /\ Len(r.stages) = Len(list)
    /\ \A i \in 1 .. Len(list) : r.stages[i].kind = list[i].kind
    /\ list # <<>> /\ list[Len(list)].kind = "MaxBytes" =>
          r.stages[Len(list)].written = list[Len(list)].written + Bytes(r.out)

\* A batch through a list of stages that have not been flushed.
LEMMA ThroughResult ==
    ASSUME NEW list \in Seq(Live), NEW lines \in Seq(Line)
    PROVE  PassResult(list, Through(list, lines))
<1> DEFINE T == {l \in Seq(Live) : PassResult(l, Through(l, lines))}
<1>1. <<>> \in T
  <2> DEFINE q == Through(<<>>, lines)
  <2>1. <<>> \in Seq(Live) /\ Len(<<>>) = 0 /\ 1 .. 0 = {}
    OBVIOUS
  <2>2. q.stages = <<>> /\ q.out = lines
    BY ThroughEmpty
  <2> HIDE DEF q
  <2>3. PassResult(<<>>, q)
    BY <2>1, <2>2 DEF PassResult
  <2>4. QED
    BY <2>1, <2>3 DEF q
<1>2. ASSUME NEW l \in T, NEW s \in Live PROVE Append(l, s) \in T
  <2> DEFINE acc == Through(l, lines)
             r == StepAll(s, acc.out)
             p == Append(l, s)
             q == Through(p, lines)
  <2>1. l \in Seq(Live) /\ PassResult(l, acc)
    OBVIOUS
  <2> HIDE DEF acc
  <2>2. /\ acc.stages \in Seq(Live) /\ acc.out \in Seq(Line)
        /\ Len(acc.stages) = Len(l)
        /\ \A i \in 1 .. Len(l) : acc.stages[i].kind = l[i].kind
    BY <2>1 DEF PassResult
  <2>3. Outcome(s, r)
    BY <2>2, StepAllOutcome
  <2> HIDE DEF r
  <2>4. /\ r.stage \in Live /\ r.out \in Seq(Line) /\ r.stage.kind = s.kind
        /\ s.kind = "MaxBytes" => r.stage.written = s.written + Bytes(r.out)
    BY <2>3 DEF Outcome
  <2>5. /\ p \in Seq(Live) /\ Len(p) = Len(l) + 1 /\ p # <<>>
        /\ p[Len(l) + 1] = s
        /\ \A i \in 1 .. Len(l) : p[i] = l[i]
    BY <2>1
  <2> HIDE DEF p
  <2>6. q.stages = Append(acc.stages, r.stage) /\ q.out = r.out
    BY <2>1, ThroughAppend DEF p, acc, r, PassOn
  <2> HIDE DEF q
  <2>7. /\ q.stages \in Seq(Live) /\ Len(q.stages) = Len(l) + 1
        /\ q.stages[Len(l) + 1] = r.stage
        /\ \A i \in 1 .. Len(l) : q.stages[i] = acc.stages[i]
    BY <2>2, <2>4, <2>6
  <2>8. \A i \in 1 .. Len(p) : q.stages[i].kind = p[i].kind
    <3>1. \A i \in 1 .. Len(p) : i \in 1 .. Len(l) \/ i = Len(l) + 1
      BY <2>1, <2>5
    <3>2. QED
      BY <2>2, <2>4, <2>5, <2>7, <3>1
  <2>9. PassResult(p, q)
    BY <2>4, <2>5, <2>6, <2>7, <2>8 DEF PassResult
  <2>10. QED
    BY <2>5, <2>9 DEF p, q
<1>3. T \in SUBSET Seq(Live)
  OBVIOUS
<1> HIDE DEF T
<1>4. T = Seq(Live)
  BY <1>1, <1>2, <1>3, BytesFold!SeqInduction
<1>5. QED
  BY <1>4 DEF T

\* The end of the stream at one stage.
LEMMA FlushOutcome ==
    ASSUME NEW s \in Live
    PROVE  /\ Flush(s).stage \in Stage
           /\ Flush(s).out \in Seq(Line)
           /\ Flush(s).stage.kind = s.kind
           /\ s.kind = "MaxBytes" => Flush(s).stage = s
<1>1. s \in Stage /\ <<>> \in Seq(Line)
  BY DEF Live
<1>2. CASE s.kind = "KeepTail"
  <2> DEFINE t == [s EXCEPT !.ring = <<>>]
             R == [kind: {"KeepTail"}, unit: {"lines", "bytes"}, n: Nat \ {0},
                   ring: Seq(Line), byte_count: Nat]
  <2>1. s \in R /\ s.ring \in Seq(Line) /\ s.n \in Nat
    BY <1>1, <1>2, KindDecides DEF TailStage
  <2>2. t \in R /\ t.ring = <<>> /\ t.n = s.n /\ t.kind = "KeepTail"
    BY <1>1, <2>1
  <2>3. Flush(s) = Emit(t, s.ring)
    BY <1>2 DEF Flush
  <2> HIDE DEF t
  <2>4. Len(t.ring) <= t.n /\ Bytes(t.ring) <= t.n
    <3>1. Len(<<>>) = 0
      OBVIOUS
    <3>2. QED
      BY <2>1, <2>2, <3>1, BytesEmpty
  <2>5. t \in TailStage
    BY <2>2, <2>4 DEF TailStage
  <2>6. QED
    BY <1>2, <2>1, <2>2, <2>3, <2>5 DEF Stage, Emit
<1>3. CASE s.kind = "CollapseRepeated"
  <2> DEFINE t == [s EXCEPT !.kept_so_far = 0, !.dropped = 0]
  <2>1. s \in CollapseStage
    BY <1>1, <1>3, KindDecides
  <2>2. t \in CollapseStage /\ t.kind = s.kind
    BY <2>1 DEF CollapseStage
  <2>3. CollapsedMarker(s) \in Seq(Line)
    BY <2>1, CollapsedMarkerType
  <2>4. Flush(s) = Emit(t, CollapsedMarker(s)) \/ Flush(s) = Emit(s, <<>>)
    BY <1>3 DEF Flush
  <2> HIDE DEF t
  <2>5. t \in Stage
    BY <2>2 DEF Stage
  <2>6. CASE Flush(s) = Emit(t, CollapsedMarker(s))
    BY <1>3, <2>2, <2>3, <2>5, <2>6 DEF Emit
  <2>7. CASE Flush(s) = Emit(s, <<>>)
    BY <1>1, <1>3, <2>7 DEF Emit
  <2>8. QED
    BY <2>4, <2>6, <2>7
<1>4. CASE s.kind = "MaxBytes"
  <2> DEFINE m == [text |-> "truncated", count |-> s.dropped_bytes]
             out == IF s.truncated THEN <<m>> ELSE <<>>
  <2>1. s.dropped_bytes \in Nat
    BY <1>1, <1>4, KindDecides DEF CapStage
  <2>2. m \in Line /\ m.text = "truncated"
    BY <2>1 DEF Line, Marker
  <2>3. Flush(s) = Emit(s, out)
    BY <1>4 DEF Flush
  <2> HIDE DEF m
  <2>4. out \in Seq(Line)
    BY <1>1, <2>2
  <2> HIDE DEF out
  <2>5. QED
    BY <1>1, <1>4, <2>3, <2>4 DEF Emit
<1>5. CASE s.kind \notin {"KeepTail", "CollapseRepeated", "MaxBytes"}
  <2>1. Flush(s) = Emit(s, <<>>)
    BY <1>5 DEF Flush
  <2>2. QED
    BY <1>1, <1>5, <2>1 DEF Emit
<1>6. QED
  BY <1>2, <1>3, <1>4, <1>5

-----------------------------------------------------------------------------
\* A stage as it is loaded: a keep_regex brings a pattern.
Loaded == {s \in Live : s.kind = "KeepRegex" => s.patterns # {}}

\* A max_bytes stage starts with nothing written.
LEMMA MaxBytesLoaded ==
    ASSUME NEW cap \in Nat
    PROVE  MaxBytesStage(cap) \in Loaded /\ MaxBytesStage(cap).kind = "MaxBytes"
<1> DEFINE m == MaxBytesStage(cap)
<1>1. m \in CapStage /\ m.kind = "MaxBytes"
  BY DEF MaxBytesStage, CapStage
<1> HIDE DEF m
<1>2. m \in Loaded
  BY <1>1 DEF Loaded, Live, Stage, Counted
<1>3. QED
  BY <1>1, <1>2 DEF m

\* Every entry a rule file can spell, and compilation accepts, is loaded as
\* a stage that has seen nothing yet.
LEMMA SpecLoaded ==
    ASSUME NEW e \in StageSpec, Accepted(e)
    PROVE  SpecToStage(e) \in Loaded
<1> DEFINE s == SpecToStage(e)
<1>1. CASE e.kind = "StripAnsi"
  <2>1. e \in [kind: {"StripAnsi"}]
    BY <1>1 DEF StageSpec
  <2>2. e \in StripStage
    BY <2>1 DEF StripStage
  <2>3. s = e
    BY <1>1 DEF SpecToStage
  <2> HIDE DEF s
  <2>4. QED
    BY <1>1, <2>2, <2>3 DEF s, Loaded, Live, Stage, Counted
<1>2. CASE e.kind = "DropRegex"
  <2>1. e \in [kind: {"DropRegex", "KeepRegex"}, pattern: SUBSET (Text \cup Marker)]
    BY <1>2 DEF StageSpec
  <2>2. e \in DropStage
    BY <1>2, <2>1 DEF DropStage, Pats
  <2>3. s = e
    BY <1>2 DEF SpecToStage
  <2> HIDE DEF s
  <2>4. QED
    BY <1>2, <2>2, <2>3 DEF s, Loaded, Live, Stage, Counted
<1>3. CASE e.kind = "KeepRegex"
  <2>1. e.pattern \in Pats
    BY <1>3 DEF StageSpec, Pats
  <2>2. s = [kind |-> "KeepRegex", patterns |-> {e.pattern}]
    BY <1>3 DEF SpecToStage
  <2> HIDE DEF s
  <2>3. s \in KeepStage /\ s.kind = "KeepRegex" /\ s.patterns # {}
    BY <2>1, <2>2 DEF KeepStage
  <2>4. QED
    BY <2>3 DEF s, Loaded, Live, Stage, Counted
<1>4. CASE e.kind = "ReplaceRegex"
  <2>1. e \in [kind: {"ReplaceRegex"}, rewrite: [Text -> Text]]
    BY <1>4 DEF StageSpec
  <2>2. e \in ReplaceStage
    BY <2>1 DEF ReplaceStage
  <2>3. s = e
    BY <1>4 DEF SpecToStage
  <2> HIDE DEF s
  <2>4. QED
    BY <1>4, <2>2, <2>3 DEF s, Loaded, Live, Stage, Counted
<1>5. CASE e.kind = "Dedupe"
  <2>1. e \in [kind: {"Dedupe"}, max_kept: Nat]
    BY <1>5 DEF StageSpec
  <2>2. s = [kind |-> "Dedupe", max_kept |-> e.max_kept, last |-> <<>>,
             repeat_count |-> 0]
    BY <1>5 DEF SpecToStage
  <2> HIDE DEF s
  <2>4. <<>> \in Seq(Line) /\ Len(<<>>) <= 1
    OBVIOUS
  <2>5. s \in DedupeStage /\ s.kind = "Dedupe"
    BY <2>1, <2>2, <2>4 DEF DedupeStage
  <2>6. QED
    BY <2>5 DEF s, Loaded, Live, Stage, Counted
<1>6. CASE e.kind = "CollapseRepeated"
  <2>1. e \in [kind: {"CollapseRepeated"}, pattern: SUBSET (Text \cup Marker),
              max_kept: Nat]
    BY <1>6 DEF StageSpec
  <2>2. s = [kind |-> "CollapseRepeated", pattern |-> e.pattern,
             max_kept |-> e.max_kept, kept_so_far |-> 0, dropped |-> 0]
    BY <1>6 DEF SpecToStage
  <2> HIDE DEF s
  <2>4. <<>> \in Seq(Line)
    OBVIOUS
  <2>5. s \in CollapseStage /\ s.kind = "CollapseRepeated"
    BY <2>1, <2>2, <2>4 DEF CollapseStage, Pats
  <2>6. TRUE
    OBVIOUS
  <2>7. QED
    BY <2>5, <2>6 DEF s, Loaded, Live, Stage, Counted
<1>7. CASE e.kind = "KeepHead"
  <2>1. e \in [kind: {"KeepHead", "KeepTail"}, unit: {"lines", "bytes"}, n: Nat]
    BY <1>7 DEF StageSpec
  <2>2. s = [kind |-> "KeepHead", unit |-> e.unit, n |-> e.n,
             remaining |-> e.n]
    BY <1>7 DEF SpecToStage
  <2> HIDE DEF s
  <2>4. <<>> \in Seq(Line)
    OBVIOUS
  <2>5. s \in HeadStage /\ s.kind = "KeepHead"
    BY <2>1, <2>2, <2>4 DEF HeadStage
  <2>6. TRUE
    OBVIOUS
  <2>7. QED
    BY <2>5, <2>6 DEF s, Loaded, Live, Stage, Counted
<1>8. CASE e.kind = "KeepTail"
  <2>1. e \in [kind: {"KeepHead", "KeepTail"}, unit: {"lines", "bytes"}, n: Nat] /\ e.n > 0
    BY <1>8 DEF StageSpec, Accepted
  <2>2. s = [kind |-> "KeepTail", unit |-> e.unit, n |-> e.n, ring |-> <<>>,
             byte_count |-> 0]
    BY <1>8 DEF SpecToStage
  <2> HIDE DEF s
  <2>4. <<>> \in Seq(Line) /\ Len(<<>>) = 0
    OBVIOUS
  <2>5. s \in TailStage /\ s.kind = "KeepTail"
    BY <2>1, <2>2, <2>4, BytesEmpty DEF TailStage
  <2>6. Counted(s)
    BY <2>2, BytesEmpty DEF Counted
  <2>7. QED
    BY <2>5, <2>6 DEF s, Loaded, Live, Stage
<1>9. CASE e.kind = "KeepAroundMatch"
  <2>1. e \in [kind: {"KeepAroundMatch"}, pattern: SUBSET (Text \cup Marker),
              before: Nat, after: Nat]
    BY <1>9 DEF StageSpec
  <2>2. s = [kind |-> "KeepAroundMatch", pattern |-> e.pattern,
             before |-> e.before, after |-> e.after, ctx_buf |-> <<>>,
             emit_after |-> 0]
    BY <1>9 DEF SpecToStage
  <2> HIDE DEF s
  <2>4. <<>> \in Seq(Line) /\ Len(<<>>) = 0
    OBVIOUS
  <2>5. s \in AroundStage /\ s.kind = "KeepAroundMatch"
    BY <2>1, <2>2, <2>4 DEF AroundStage, Pats
  <2>6. TRUE
    OBVIOUS
  <2>7. QED
    BY <2>5, <2>6 DEF s, Loaded, Live, Stage, Counted
<1>10. CASE e.kind = "MaxBytes"
  <2>1. e.cap \in Nat
    BY <1>10 DEF StageSpec
  <2>2. s = MaxBytesStage(e.cap)
    BY <1>10 DEF SpecToStage
  <2>3. QED
    BY <2>1, <2>2, MaxBytesLoaded
<1>11. e.kind \in {"StripAnsi", "DropRegex", "KeepRegex", "ReplaceRegex",
                   "Dedupe", "CollapseRepeated", "KeepHead", "KeepTail",
                   "KeepAroundMatch", "MaxBytes"}
  BY DEF StageSpec
<1>12. QED
  BY <1>1, <1>2, <1>3, <1>4, <1>5, <1>6, <1>7, <1>8, <1>9, <1>10, <1>11

-----------------------------------------------------------------------------
\* The merge of keep_regex stages, as a fold.
MergeOne(acc, s) ==
    IF s.kind = "KeepRegex"
    THEN [acc EXCEPT !.pending = @ \cup s.patterns]
    ELSE [result  |-> Append(acc.result \o Released(acc.pending), s),
          pending |-> {}]

MergeFold == INSTANCE Folding WITH Op <- MergeOne

Unmerged == [result |-> <<>>, pending |-> {}]

\* MergeKeepRegex is the fold of MergeOne, and the patterns still pending.
LEMMA MergeIsFold ==
    \A list : MergeKeepRegex(list) =
        LET end == MergeFold!Fold(Unmerged, list)
        IN  end.result \o Released(end.pending)
  BY DEF MergeKeepRegex, MergeFold!Fold, MergeFold!IsIter, FoldLeft,
         MapThenFoldSet, Max, MergeFold!Max,
         MergeOne, Unmerged

\* Pending patterns are released as one stage.
LEMMA ReleasedType ==
    ASSUME NEW P \in SUBSET Pats
    PROVE  Released(P) \in Seq(Live) /\ (P # {} => Released(P) # <<>>)
<1> DEFINE k == [kind |-> "KeepRegex", patterns |-> P]
<1>1. k \in KeepStage /\ k.kind = "KeepRegex"
  BY DEF KeepStage
<1>2. Released(P) = IF P = {} THEN <<>> ELSE <<k>>
  BY DEF Released
<1> HIDE DEF k
<1>3. k \in Live
  BY <1>1 DEF Live, Stage, Counted
<1>4. QED
  BY <1>2, <1>3

\* The merge keeps stages, and never merges all of them away.
LEMMA MergeType ==
    ASSUME NEW list \in Seq(Loaded)
    PROVE  /\ MergeKeepRegex(list) \in Seq(Live)
           /\ list # <<>> => MergeKeepRegex(list) # <<>>
<1> DEFINE R == [result: Seq(Live), pending: SUBSET Pats]
           acc(l) == MergeFold!Fold(Unmerged, l)
           T == {l \in Seq(Loaded) :
                   /\ acc(l) \in R
                   /\ l # <<>> => acc(l).result # <<>> \/ acc(l).pending # {}}
<1>1. <<>> \in T
  <2>1. <<>> \in Seq(Live) /\ <<>> \in Seq(Loaded)
    OBVIOUS
  <2>2. acc(<<>>) = Unmerged
    BY MergeFold!FoldEmpty
  <2>3. Unmerged \in R
    BY <2>1 DEF Unmerged
  <2> HIDE DEF acc
  <2>4. QED
    BY <2>1, <2>2, <2>3
<1>2. ASSUME NEW l \in T, NEW s \in Loaded PROVE Append(l, s) \in T
  <2> DEFINE a == acc(l)
  <2>1. /\ l \in Seq(Loaded) /\ Append(l, s) \in Seq(Loaded)
        /\ a.result \in Seq(Live) /\ a.pending \in SUBSET Pats
        /\ a = [result |-> a.result, pending |-> a.pending]
    <3> HIDE DEF acc
    <3>1. l \in Seq(Loaded) /\ a \in R
      OBVIOUS
    <3> HIDE DEF a
    <3>2. QED
      BY <3>1
  <2>2. acc(Append(l, s)) = MergeOne(a, s)
    BY <2>1, MergeFold!FoldAppend
  <2> HIDE DEF acc, a
  <2>3. s \in Live /\ (s.kind = "KeepRegex" => s.patterns # {})
    BY DEF Loaded
  <2>4. CASE s.kind = "KeepRegex"
    <3>1. s.patterns \in SUBSET Pats /\ s.patterns # {}
      BY <2>3, <2>4, KindDecides DEF Live, KeepStage
    <3>2. MergeOne(a, s) = [result |-> a.result, pending |-> a.pending \cup s.patterns]
      BY <2>1, <2>4 DEF MergeOne
    <3>3. MergeOne(a, s) \in R /\ MergeOne(a, s).pending # {}
      BY <2>1, <3>1, <3>2
    <3>4. QED
      BY <2>1, <2>2, <3>3
  <2>5. CASE s.kind # "KeepRegex"
    <3> DEFINE rel == Released(a.pending)
               res == Append(a.result \o rel, s)
    <3>1. rel \in Seq(Live)
      BY <2>1, ReleasedType
    <3> HIDE DEF rel
    <3>2. res \in Seq(Live) /\ res # <<>>
      <4> DEFINE c == a.result \o rel
      <4>1. c \in Seq(Live)
        BY <2>1, <3>1
      <4> HIDE DEF c
      <4>2. Append(c, s) \in Seq(Live) /\ Append(c, s) # <<>>
        BY <2>3, <4>1
      <4>3. QED
        BY <4>2 DEF c
    <3>3. MergeOne(a, s) = [result |-> res, pending |-> {}]
      BY <2>5 DEF MergeOne, rel
    <3> HIDE DEF res
    <3>4. MergeOne(a, s) \in R /\ MergeOne(a, s).result # <<>>
      BY <3>2, <3>3
    <3>5. QED
      BY <2>1, <2>2, <3>4
  <2>6. QED
    BY <2>4, <2>5
<1>3. T \in SUBSET Seq(Loaded)
  OBVIOUS
<1> HIDE DEF T
<1>4. T = Seq(Loaded)
  BY <1>1, <1>2, <1>3, BytesFold!SeqInduction
<1> DEFINE e == acc(list)
           rel == Released(e.pending)
<1>5. /\ e.result \in Seq(Live) /\ e.pending \in SUBSET Pats
      /\ list # <<>> => e.result # <<>> \/ e.pending # {}
  BY <1>4 DEF T
<1>6. MergeKeepRegex(list) = e.result \o rel
  BY MergeIsFold
<1> HIDE DEF e, acc
<1>7. rel \in Seq(Live) /\ (e.pending # {} => rel # <<>>)
  BY <1>5, ReleasedType
<1> HIDE DEF rel
<1>8. e.result \o rel \in Seq(Live)
  BY <1>5, <1>7
<1>9. e.result # <<>> \/ rel # <<>> => e.result \o rel # <<>>
  BY <1>5, <1>7, ConcatEqualIffEmpty
<1>10. QED
  BY <1>5, <1>6, <1>7, <1>8, <1>9

\* What compilation makes of the entries of a rule: stages at their start,
\* and at least one of them.
LEMMA CompileType ==
    ASSUME NEW list \in Seq(StageSpec),
           \A i \in DOMAIN list : Accepted(list[i])
    PROVE  CompilePipeline(list) \in Seq(Live) /\ CompilePipeline(list) # <<>>
<1> DEFINE compiled == [i \in DOMAIN list |-> SpecToStage(list[i])]
           full == IF \E i \in DOMAIN compiled : compiled[i].kind = "MaxBytes"
                   THEN compiled
                   ELSE Append(compiled, MaxBytesStage(DefaultMaxBytes))
<1>1. DOMAIN list = 1 .. Len(list) /\ Len(list) \in Nat
  OBVIOUS
<1>2. \A i \in 1 .. Len(list) : SpecToStage(list[i]) \in Loaded
  <2>1. \A i \in 1 .. Len(list) : list[i] \in StageSpec /\ Accepted(list[i])
    BY <1>1
  <2>2. QED
    BY <2>1, SpecLoaded
<1>3. compiled \in Seq(Loaded)
  BY <1>1, <1>2
<1>4. CompilePipeline(list) = MergeKeepRegex(full)
  BY DEF CompilePipeline
<1>5. MaxBytesStage(DefaultMaxBytes) \in Loaded
  BY MaxBytesLoaded, RulesAssumption
<1> HIDE DEF compiled
<1>6. CASE \E i \in DOMAIN compiled : compiled[i].kind = "MaxBytes"
  <2>1. full = compiled /\ compiled # <<>>
    <3>1. DOMAIN <<>> = {}
      OBVIOUS
    <3>2. QED
      BY <1>6, <3>1
  <2> HIDE DEF full
  <2>2. QED
    BY <1>3, <1>4, <2>1, MergeType
<1>7. CASE ~\E i \in DOMAIN compiled : compiled[i].kind = "MaxBytes"
  <2>1. full = Append(compiled, MaxBytesStage(DefaultMaxBytes))
    BY <1>7
  <2>2. full \in Seq(Loaded) /\ full # <<>>
    BY <1>3, <1>5, <2>1, AppendProperties
  <2> HIDE DEF full
  <2>3. QED
    BY <1>4, <2>2, MergeType
<1>8. QED
  BY <1>6, <1>7

-----------------------------------------------------------------------------
\* The inductive invariant.
StagesHold ==
    /\ stages \in Seq(Stage) /\ stages # <<>>
    /\ \A i \in 1 .. Len(stages) : i >= next => Counted(stages[i])

\* What max_bytes lets through it has counted; its flush comes after that.
CapHolds ==
    LET last == stages[Len(stages)]
    IN  last.kind = "MaxBytes" =>
            IF Done
            THEN \E passed \in Seq(Line) :
                    /\ output = passed \o Flush(last).out
                    /\ Bytes(passed) <= last.written
            ELSE Bytes(output) <= last.written

PipelineInv ==
    /\ StagesHold
    /\ input \in Seq(ToolLine)
    /\ output \in Seq(Line)
    /\ next \in 0 .. Len(stages) + 1
    /\ CapHolds

\* The invariant holds once a rule is compiled.
LEMMA InitInv == Init => PipelineInv
<1> SUFFICES ASSUME Init PROVE PipelineInv
  OBVIOUS
<1>1. specs \in Seq(StageSpec)
  <2>1. PICK parent \in Parents, child \in Children :
           specs = MergeRules(parent, child)
    BY DEF Init
  <2>2. parent \in Seq(StageSpec) /\ child \in Seq(StageSpec)
    BY RulesAssumption
  <2>3. parent \o child \in Seq(StageSpec)
    BY <2>2, ConcatProperties
  <2>4. QED
    BY <2>1, <2>3 DEF MergeRules
<1>2. stages = CompilePipeline(specs) /\ \A i \in DOMAIN specs : Accepted(specs[i])
  BY DEF Init
<1>3. stages \in Seq(Live) /\ stages # <<>>
  BY <1>1, <1>2, CompileType
<1>4. input = <<>> /\ output = <<>> /\ next = 0
  BY DEF Init
<1>5. /\ Len(stages) \in Nat /\ Len(stages) > 0
      /\ \A i \in 1 .. Len(stages) : stages[i] \in Live
      /\ stages \in Seq(Stage)
  <2>1. Live \subseteq Stage
    BY DEF Live
  <2>2. QED
    BY <1>3, <2>1
<1>6. StagesHold
  BY <1>3, <1>5 DEF StagesHold, Live
<1>7. CapHolds
  <2>1. ASSUME stages[Len(stages)].kind = "MaxBytes"
        PROVE  stages[Len(stages)].written \in Nat
    BY <1>5, <2>1, KindDecides DEF Live, CapStage
  <2>2. QED
    BY <1>4, <1>5, <2>1, BytesEmpty DEF CapHolds, Done
<1>8. input \in Seq(ToolLine) /\ output \in Seq(Line) /\ next \in 0 .. Len(stages) + 1
  BY <1>4, <1>5
<1>9. QED
  BY <1>6, <1>7, <1>8 DEF PipelineInv

\* A line of the tool keeps it.
LEMMA FeedInv == PipelineInv /\ Feed => PipelineInv'
<1> SUFFICES ASSUME PipelineInv, Feed PROVE PipelineInv'
  OBVIOUS
<1>1. PICK line \in ToolLine :
        /\ stages' = Through(stages, <<line>>).stages
        /\ output' = output \o Through(stages, <<line>>).out
        /\ input' = Append(input, line)
  BY DEF Feed
<1>2. next = 0 /\ next' = 0
  BY DEF Feed
<1>3. /\ stages \in Seq(Stage) /\ stages # <<>> /\ Len(stages) \in Nat
      /\ Len(stages) > 0
      /\ \A i \in 1 .. Len(stages) : Counted(stages[i])
      /\ input \in Seq(ToolLine) /\ output \in Seq(Line)
  <2>1. \A i \in 1 .. Len(stages) : i >= next
    BY <1>2
  <2>2. stages \in Seq(Stage) /\ stages # <<>>
    BY DEF PipelineInv, StagesHold
  <2>3. QED
    BY <2>1, <2>2 DEF PipelineInv, StagesHold
<1>4. stages \in Seq(Live)
  <2>1. \A i \in 1 .. Len(stages) : stages[i] \in Live
    BY <1>3 DEF Live
  <2>2. QED
    BY <1>3, <2>1
<1>5. line \in Line /\ <<line>> \in Seq(Line)
  BY DEF Line
<1> DEFINE r == Through(stages, <<line>>)
<1>6. PassResult(stages, r)
  BY <1>4, <1>5, ThroughResult
<1> HIDE DEF r
<1>7. /\ stages' = r.stages /\ output' = output \o r.out
      /\ r.stages \in Seq(Live) /\ r.out \in Seq(Line)
      /\ Len(r.stages) = Len(stages)
      /\ \A i \in 1 .. Len(stages) : r.stages[i].kind = stages[i].kind
      /\ stages[Len(stages)].kind = "MaxBytes" =>
            r.stages[Len(stages)].written
              = stages[Len(stages)].written + Bytes(r.out)
  BY <1>1, <1>3, <1>6 DEF PassResult, r
<1>8. StagesHold'
  <2>1. \A i \in 1 .. Len(r.stages) : r.stages[i] \in Live
    BY <1>7
  <2>2. \A i \in 1 .. Len(r.stages) : r.stages[i] \in Stage /\ Counted(r.stages[i])
    BY <2>1 DEF Live
  <2>3. r.stages \in Seq(Stage) /\ r.stages # <<>>
    <3>1. Len(<<>>) = 0
      OBVIOUS
    <3>2. r.stages # <<>>
      BY <1>3, <1>7, <3>1
    <3>3. Live \subseteq Stage
      BY DEF Live
    <3>4. QED
      BY <1>7, <3>2, <3>3, SeqMonotonic
  <2>4. QED
    BY <1>7, <2>2, <2>3 DEF StagesHold, Counted
<1>9. output' \in Seq(Line) /\ Bytes(output') = Bytes(output) + Bytes(r.out)
  BY <1>3, <1>7, BytesConcat, ConcatProperties
<1>10. CapHolds'
  <2> DEFINE n == Len(stages)
  <2>1. ASSUME stages[n].kind = "MaxBytes"
        PROVE  Bytes(output') <= stages'[n].written
    <3>1. stages[n].written \in Nat
      <4>1. stages[n] \in Stage
        BY <1>3
      <4>2. QED
        BY <2>1, <4>1, KindDecides DEF CapStage
    <3>2. Bytes(output) <= stages[n].written
      <4>1. next # n + 1
        BY <1>2, <1>3
      <4>2. QED
        BY <2>1, <4>1 DEF PipelineInv, CapHolds, Done
    <3>3. Bytes(output) \in Nat /\ Bytes(r.out) \in Nat
      BY <1>3, <1>7, BytesType
    <3>4. stages'[n].written = stages[n].written + Bytes(r.out)
      BY <1>7, <2>1
    <3>5. QED
      BY <1>9, <3>1, <3>2, <3>3, <3>4
  <2>2. Len(stages') = n /\ stages'[n].kind = stages[n].kind /\ next' # n + 1
    BY <1>2, <1>3, <1>7
  <2>3. stages[n].kind = "MaxBytes" => stages'[n].written \in Nat
    <3>1. stages'[n] \in Stage
      BY <1>3, <1>7 DEF Live
    <3>2. QED
      BY <2>2, <3>1, KindDecides DEF CapStage
  <2>4. QED
    BY <2>1, <2>2, <2>3 DEF CapHolds, Done
<1>11. input' \in Seq(ToolLine)
  BY <1>1, <1>3
<1>12. next' \in 0 .. Len(stages') + 1
  BY <1>2, <1>3, <1>7
<1>13. QED
  BY <1>8, <1>9, <1>10, <1>11, <1>12 DEF PipelineInv

\* The end of the stream keeps it.
LEMMA EndInv == PipelineInv /\ EndOfStream => PipelineInv'
<1> SUFFICES ASSUME PipelineInv, EndOfStream PROVE PipelineInv'
  OBVIOUS
<1>1. /\ next = 0 /\ next' = 1 /\ stages' = stages /\ output' = output
      /\ input' = input
  BY DEF EndOfStream
<1>2. stages \in Seq(Stage) /\ stages # <<>> /\ Len(stages) \in Nat /\ Len(stages) > 0
  <2>1. stages \in Seq(Stage) /\ stages # <<>>
    BY DEF PipelineInv, StagesHold
  <2>2. QED
    BY <2>1
<1>3. StagesHold'
  BY <1>1, <1>2 DEF PipelineInv, StagesHold, Counted
<1>4. CapHolds'
  BY <1>1, <1>2 DEF PipelineInv, CapHolds, Done
<1>5. QED
  BY <1>1, <1>2, <1>3, <1>4 DEF PipelineInv

\* The flush of one stage keeps it: the stages before it are done, what it
\* owed goes through the ones after it.
LEMMA FlushInv == PipelineInv /\ FlushStage => PipelineInv'
<1> SUFFICES ASSUME PipelineInv, FlushStage PROVE PipelineInv'
  OBVIOUS
<1> DEFINE n == Len(stages)
           f == Flush(stages[next])
           later == SubSeq(stages, next + 1, n)
           r == Through(later, f.out)
           before == SubSeq(stages, 1, next - 1)
<1>1. /\ stages' = before \o <<f.stage>> \o r.stages
      /\ output' = output \o r.out
      /\ next \in DOMAIN stages /\ next' = next + 1 /\ input' = input
  BY DEF FlushStage
<1>2. /\ stages \in Seq(Stage) /\ n \in Nat /\ n > 0
      /\ next \in 1 .. n
      /\ input \in Seq(ToolLine) /\ output \in Seq(Line)
      /\ \A i \in 1 .. n : stages[i] \in Stage
      /\ \A i \in next .. n : Counted(stages[i])
  <2>1. /\ stages \in Seq(Stage) /\ stages # <<>>
        /\ \A i \in 1 .. n : i >= next => Counted(stages[i])
        /\ input \in Seq(ToolLine) /\ output \in Seq(Line)
    BY DEF PipelineInv, StagesHold
  <2>2. n \in Nat /\ n > 0 /\ next \in 1 .. n
    BY <1>1, <2>1
  <2>3. QED
    BY <2>1, <2>2
<1>3. stages[next] \in Live
  BY <1>2 DEF Live
<1>4. /\ f.stage \in Stage /\ f.out \in Seq(Line)
      /\ f.stage.kind = stages[next].kind
      /\ stages[next].kind = "MaxBytes" => f.stage = stages[next]
  BY <1>3, FlushOutcome
<1> HIDE DEF f
<1>5. /\ later \in Seq(Live) /\ Len(later) = n - next
      /\ \A i \in 1 .. n - next : later[i] = stages[next + i]
  <2>1. \A i \in next + 1 .. n : stages[i] \in Live
    BY <1>2 DEF Live
  <2>2. later \in Seq(Live)
    BY <1>2, <2>1, SubSeqProperties
  <2>3. QED
    BY <1>2, <2>2
<1> HIDE DEF later
<1>6. PassResult(later, r)
  BY <1>4, <1>5, ThroughResult
<1>7. /\ r.stages \in Seq(Live) /\ r.out \in Seq(Line)
      /\ Len(r.stages) = n - next
      /\ \A i \in 1 .. n - next : r.stages[i].kind = stages[next + i].kind
      /\ \A i \in 1 .. n - next : r.stages[i] \in Live
      /\ next < n /\ stages[n].kind = "MaxBytes" =>
            r.stages[n - next].written = stages[n].written + Bytes(r.out)
  <2>1. /\ r.stages \in Seq(Live) /\ r.out \in Seq(Line)
        /\ Len(r.stages) = Len(later)
        /\ \A i \in 1 .. Len(later) : r.stages[i].kind = later[i].kind
        /\ later # <<>> /\ later[Len(later)].kind = "MaxBytes" =>
              r.stages[Len(later)].written
                = later[Len(later)].written + Bytes(r.out)
    BY <1>6 DEF PassResult
  <2> HIDE DEF r
  <2>2. \A i \in 1 .. n - next : r.stages[i] \in Live
    BY <1>5, <2>1
  <2>3. ASSUME next < n
        PROVE  later # <<>> /\ later[n - next] = stages[n]
    <3>1. Len(<<>>) = 0
      OBVIOUS
    <3>2. n - next \in 1 .. n - next /\ next + (n - next) = n
      BY <1>2, <2>3
    <3>3. later # <<>>
      BY <1>2, <1>5, <2>3, <3>1
    <3>4. later[n - next] = stages[next + (n - next)]
      BY <1>5, <3>2
    <3>5. QED
      BY <3>2, <3>3, <3>4
  <2>4. QED
    BY <1>5, <2>1, <2>2, <2>3
<1> HIDE DEF r
<1>8. /\ before \in Seq(Stage) /\ Len(before) = next - 1
      /\ \A i \in 1 .. next - 1 : before[i] = stages[i]
  <2>1. \A i \in 1 .. next - 1 : stages[i] \in Stage
    BY <1>2
  <2>2. before \in Seq(Stage)
    BY <1>2, <2>1, SubSeqProperties
  <2>3. QED
    BY <1>2, <2>2
<1> HIDE DEF before
<1>9. /\ stages' \in Seq(Stage) /\ Len(stages') = n
      /\ \A i \in 1 .. next - 1 : stages'[i] = stages[i]
      /\ stages'[next] = f.stage
      /\ \A i \in next + 1 .. n : stages'[i] = r.stages[i - next]
  <2> DEFINE a == before \o <<f.stage>>
             c == a \o r.stages
  <2>1. /\ a \in Seq(Stage) /\ Len(a) = next
        /\ \A i \in 1 .. next - 1 : a[i] = before[i]
        /\ a[next] = f.stage
    <3>1. <<f.stage>> \in Seq(Stage) /\ Len(<<f.stage>>) = 1 /\ <<f.stage>>[1] = f.stage
      BY <1>4
    <3>2. QED
      BY <1>2, <1>8, <3>1, ConcatProperties
  <2> HIDE DEF a
  <2>2. r.stages \in Seq(Stage)
    <3>1. Live \subseteq Stage
      BY DEF Live
    <3>2. QED
      BY <1>7, <3>1, SeqMonotonic
  <2>3. /\ c \in Seq(Stage) /\ Len(c) = n
        /\ \A i \in 1 .. n : c[i] = IF i <= next THEN a[i] ELSE r.stages[i - next]
    <3>1. /\ c \in Seq(Stage) /\ Len(c) = Len(a) + Len(r.stages)
          /\ \A i \in 1 .. Len(a) + Len(r.stages) :
                c[i] = IF i <= Len(a) THEN a[i] ELSE r.stages[i - Len(a)]
      BY <2>1, <2>2, ConcatProperties
    <3> HIDE DEF c
    <3>2. Len(a) = next /\ Len(a) + Len(r.stages) = n
      BY <1>2, <1>7, <2>1
    <3>3. QED
      BY <3>1, <3>2
  <2>4. stages' = c
    BY <1>1 DEF a
  <2> HIDE DEF c
  <2>5. QED
    BY <1>2, <1>8, <2>1, <2>3, <2>4
<1>10. StagesHold'
  <2>1. stages' # <<>>
    <3>1. Len(<<>>) = 0
      OBVIOUS
    <3>2. QED
      BY <1>2, <1>9, <3>1
  <2>2. ASSUME NEW i \in 1 .. n, i >= next'
        PROVE  Counted(stages'[i])
    <3>1. i \in next + 1 .. n /\ i - next \in 1 .. n - next
      BY <1>1, <1>2, <2>2
    <3>2. stages'[i] \in Live
      BY <1>7, <1>9, <3>1
    <3>3. QED
      BY <3>2 DEF Live
  <2>3. QED
    BY <1>9, <2>1, <2>2 DEF StagesHold, Counted
<1>11. output' \in Seq(Line) /\ Bytes(output') = Bytes(output) + Bytes(r.out)
  BY <1>1, <1>2, <1>7, BytesConcat, ConcatProperties
<1>12. Bytes(output) \in Nat /\ Bytes(r.out) \in Nat
  BY <1>2, <1>7, BytesType
<1>13. stages'[n].kind = stages[n].kind
  <2>1. CASE next = n
    BY <1>2, <1>4, <1>9, <2>1
  <2>2. CASE next < n
    <3>1. n \in next + 1 .. n /\ n - next \in 1 .. n - next /\ next + (n - next) = n
      BY <1>2, <2>2
    <3>2. QED
      BY <1>7, <1>9, <3>1
  <2>3. QED
    BY <1>2, <2>1, <2>2
<1> DEFINE Kept == IF next' = n + 1
                   THEN \E passed \in Seq(Line) :
                           /\ output' = passed \o Flush(stages'[n]).out
                           /\ Bytes(passed) <= stages'[n].written
                   ELSE Bytes(output') <= stages'[n].written
<1>14. ASSUME stages[n].kind = "MaxBytes" PROVE Kept
  <2>1. stages[n].written \in Nat
    <3>1. stages[n] \in Stage
      BY <1>2
    <3>2. QED
      BY <1>14, <3>1, KindDecides DEF CapStage
  <2>2. Bytes(output) <= stages[n].written
    <3>1. next # n + 1
      BY <1>2
    <3>2. QED
      BY <1>14, <3>1 DEF PipelineInv, CapHolds, Done
  <2>3. CASE next = n
    <3>1. later = <<>>
      BY <1>5, <2>3, EmptySeq
    <3>2. r.out = f.out
      BY <3>1, ThroughEmpty DEF r
    <3>3. stages'[n] = stages[n]
      BY <1>4, <1>9, <1>14, <2>3
    <3>4. f = Flush(stages'[n])
      BY <2>3, <3>3 DEF f
    <3>5. output' = output \o Flush(stages'[n]).out
      <4>1. output' = output \o r.out
        BY <1>1
      <4>2. QED
        BY <3>2, <3>4, <4>1
    <3>6. next' = n + 1
      BY <1>1, <2>3
    <3>7. QED
      BY <1>2, <2>2, <3>3, <3>5, <3>6
  <2>4. CASE next < n
    <3>1. stages'[n].written = stages[n].written + Bytes(r.out)
      <4>1. n \in next + 1 .. n
        BY <1>2, <2>4
      <4>2. QED
        BY <1>7, <1>9, <1>14, <2>4, <4>1
    <3>2. next' # n + 1
      BY <1>1, <1>2, <2>4
    <3>3. QED
      BY <1>11, <1>12, <2>1, <2>2, <3>1, <3>2
  <2> HIDE DEF Kept
  <2>5. QED
    BY <1>2, <2>3, <2>4
<1>15. CapHolds'
  <2>1. Len(stages') = n
    BY <1>9
  <2>2. Done' <=> next' = n + 1
    BY <2>1 DEF Done
  <2> HIDE DEF n
  <2>3. QED
    BY <1>13, <1>14, <2>1, <2>2 DEF CapHolds
<1>16. next' \in 0 .. Len(stages') + 1
  <2>1. next' = next + 1 /\ next \in 1 .. n /\ n \in Nat /\ Len(stages') = n
    BY <1>1, <1>2, <1>9
  <2> HIDE DEF n
  <2>2. QED
    BY <2>1
<1>17. QED
  BY <1>1, <1>2, <1>10, <1>11, <1>15, <1>16 DEF PipelineInv

\* Every step keeps it.
LEMMA StepInv == PipelineInv /\ [Next]_vars => PipelineInv'
<1> SUFFICES ASSUME PipelineInv, [Next]_vars PROVE PipelineInv'
  OBVIOUS
<1>1. CASE Feed
  BY <1>1, FeedInv
<1>2. CASE EndOfStream
  BY <1>2, EndInv
<1>3. CASE FlushStage
  BY <1>3, FlushInv
<1>4. CASE UNCHANGED vars
  <2>1. UNCHANGED <<stages, input, output, next>>
    BY <1>4 DEF vars
  <2>2. QED
    BY <2>1 DEF PipelineInv, StagesHold, CapHolds, Done, Counted
<1>5. QED
  BY <1>1, <1>2, <1>3, <1>4 DEF Next

\* PipelineInv is an invariant of every run.
LEMMA InvariantHolds == Spec => []PipelineInv
  BY InitInv, StepInv, PTL DEF Spec

\* Every counter of every stage stays in its range and in the range of its
\* configuration (PipelineTypeOK): in particular the budget of keep_head and
\* the window of keep_around_match are never decremented below zero
\* (stages.rs).
THEOREM PipelineTypeCorrect == Spec => []PipelineTypeOK
<1>1. PipelineInv => PipelineTypeOK
  <2> SUFFICES ASSUME PipelineInv PROVE PipelineTypeOK
    OBVIOUS
  <2>1. /\ stages \in Seq(Stage) /\ input \in Seq(ToolLine)
        /\ output \in Seq(Line) /\ next \in 0 .. Len(stages) + 1
    BY DEF PipelineInv, StagesHold
  <2>2. ASSUME NEW i \in DOMAIN stages PROVE Configured(stages[i])
    <3> DEFINE s == stages[i]
    <3>1. s \in Stage
      BY <2>1
    <3> HIDE DEF s
    <3>2. CASE s.kind = "Dedupe"
      <4>1. s.last \in Seq(Line) /\ Len(s.last) <= 1 /\ s.repeat_count \in Nat
        BY <3>1, <3>2, KindDecides DEF DedupeStage
      <4>2. QED
        BY <3>2, <4>1 DEF Configured, s
    <3>3. CASE s.kind = "CollapseRepeated"
      <4>1. s.kept_so_far \in Nat /\ s.dropped \in Nat
        BY <3>1, <3>3, KindDecides DEF CollapseStage
      <4>2. QED
        BY <3>3, <4>1 DEF Configured, s
    <3>4. CASE s.kind = "KeepHead"
      <4>1. s.remaining \in Nat /\ s.n \in Nat /\ s.remaining <= s.n
        BY <3>1, <3>4, KindDecides DEF HeadStage
      <4>2. QED
        BY <3>4, <4>1 DEF Configured, s
    <3>5. CASE s.kind = "KeepTail"
      <4>1. s.ring \in Seq(Line) /\ s.byte_count \in Nat
        BY <3>1, <3>5, KindDecides DEF TailStage
      <4>2. QED
        BY <3>5, <4>1 DEF Configured, s
    <3>6. CASE s.kind = "KeepAroundMatch"
      <4>1. /\ s.ctx_buf \in Seq(Line) /\ s.emit_after \in Nat
            /\ s.after \in Nat /\ s.emit_after <= s.after
        BY <3>1, <3>6, KindDecides DEF AroundStage
      <4>2. QED
        BY <3>6, <4>1 DEF Configured, s
    <3>7. CASE s.kind = "MaxBytes"
      <4>1. /\ s.written \in Nat /\ s.cap \in Nat /\ s.written <= s.cap
            /\ s.truncated \in BOOLEAN /\ s.dropped_bytes \in Nat
        BY <3>1, <3>7, KindDecides DEF CapStage
      <4>2. QED
        BY <3>7, <4>1 DEF Configured, s
    <3>8. CASE s.kind \notin {"Dedupe", "CollapseRepeated", "KeepHead",
                              "KeepTail", "KeepAroundMatch", "MaxBytes"}
      BY <3>8 DEF Configured, s
    <3>9. QED
      BY <3>2, <3>3, <3>4, <3>5, <3>6, <3>7, <3>8 DEF s
  <2>3. QED
    BY <2>1, <2>2 DEF PipelineTypeOK
<1>2. QED
  BY <1>1, InvariantHolds, PTL

\* What a stage holds back is bounded by its configuration, whatever the length
\* of the stream (StateBounded): a tail by its lines or bytes, a context by its
\* lines, and the byte count of a tail is that of its ring (stages.rs).
THEOREM StateBoundedAlways == Spec => []StateBounded
<1>1. PipelineInv => StateBounded
  <2> SUFFICES ASSUME PipelineInv, NEW i \in DOMAIN stages PROVE Bounded(i)
    BY DEF StateBounded
  <2> DEFINE s == stages[i]
  <2>1. /\ s \in Stage
        /\ i >= next => Counted(s)
    <3>1. /\ stages \in Seq(Stage)
          /\ \A j \in 1 .. Len(stages) : j >= next => Counted(stages[j])
      BY DEF PipelineInv, StagesHold
    <3>2. QED
      BY <3>1
  <2> HIDE DEF s
  <2>2. CASE s.kind = "KeepTail"
    <3>1. /\ s.unit \in {"lines", "bytes"}
          /\ s.unit = "lines" => Len(s.ring) <= s.n
          /\ s.unit = "bytes" => Bytes(s.ring) <= s.n \/ Len(s.ring) = 1
      BY <2>1, <2>2, KindDecides DEF TailStage
    <3>2. CASE s.unit = "lines"
      BY <2>2, <3>1, <3>2 DEF Bounded, s
    <3>3. CASE s.unit = "bytes"
      <4>1. i >= next => s.byte_count = Bytes(s.ring)
        BY <2>1, <2>2, <3>3 DEF Counted
      <4>2. QED
        BY <2>2, <3>1, <3>3, <4>1 DEF Bounded, s
    <3>4. QED
      BY <3>1, <3>2, <3>3
  <2>3. CASE s.kind = "KeepAroundMatch"
    <3>1. Len(s.ctx_buf) <= s.before
      BY <2>1, <2>3, KindDecides DEF AroundStage
    <3>2. QED
      BY <2>3, <3>1 DEF Bounded, s
  <2>4. CASE s.kind \notin {"KeepTail", "KeepAroundMatch"}
    BY <2>4 DEF Bounded, s
  <2>5. QED
    BY <2>2, <2>3, <2>4
<1>2. QED
  BY <1>1, InvariantHolds, PTL

\* A line put at the end of a list is the last, and the list the rest.
LEMMA FrontLast ==
    ASSUME NEW t \in Seq(Line), NEW x \in Line
    PROVE  LET s == t \o <<x>>
           IN  s # <<>> /\ Last(s) = x /\ Front(s) = t
<1> DEFINE s == t \o <<x>>
           n == Len(t)
<1>1. n \in Nat /\ t = SubSeq(t, 1, n)
  BY SubSeqFull
<1>2. /\ s \in Seq(Line) /\ Len(s) = n + 1 /\ s[n + 1] = x
      /\ \A i \in 1 .. n : s[i] = t[i]
  BY <1>1
<1> HIDE DEF s
<1>3. s # <<>> /\ Last(s) = x
  BY <1>1, <1>2 DEF Last
<1>4. Front(s) = SubSeq(s, 1, n)
  BY <1>1, <1>2 DEF Front
<1>5. /\ SubSeq(s, 1, n) \in Seq(Line) /\ Len(SubSeq(s, 1, n)) = n
      /\ \A i \in 1 .. n : SubSeq(s, 1, n)[i] = s[i]
  BY <1>1, <1>2
<1>6. SubSeq(s, 1, n) = t
  BY <1>1, <1>2, <1>5, SeqEqual
<1>7. QED
  BY <1>3, <1>4, <1>6 DEF s

\* Where max_bytes comes last, the lines it lets through never exceed its cap,
\* at any moment of the run; the marker is all there is beyond it, once, last,
\* when everything is flushed, with the bytes that were dropped (OutputCapped).
THEOREM OutputCappedAlways == Spec => []OutputCapped
<1>1. PipelineInv => OutputCapped
  <2> DEFINE s == stages[Len(stages)]
             m == [text |-> "truncated", count |-> s.dropped_bytes]
  <2> SUFFICES ASSUME PipelineInv, s.kind = "MaxBytes"
               PROVE  IF Done /\ s.truncated
                      THEN /\ output # <<>> /\ Last(output) = m
                           /\ Bytes(Front(output)) <= s.cap
                      ELSE Bytes(output) <= s.cap
    BY DEF OutputCapped
  <2>1. s \in Stage /\ output \in Seq(Line)
    <3>1. stages \in Seq(Stage) /\ stages # <<>> /\ output \in Seq(Line)
      BY DEF PipelineInv, StagesHold
    <3>2. Len(stages) \in 1 .. Len(stages)
      BY <3>1, EmptySeq
    <3>3. QED
      BY <3>1, <3>2
  <2>2. /\ s.written \in Nat /\ s.cap \in Nat /\ s.written <= s.cap
        /\ s.dropped_bytes \in Nat
    BY <2>1, KindDecides DEF CapStage
  <2>3. Flush(s).out = IF s.truncated THEN <<m>> ELSE <<>>
    BY DEF Flush, Emit
  <2>4. m \in Line
    BY <2>2 DEF Line, Marker
  <2>5. IF Done
        THEN \E passed \in Seq(Line) :
                output = passed \o Flush(s).out /\ Bytes(passed) <= s.written
        ELSE Bytes(output) <= s.written
    BY DEF PipelineInv, CapHolds
  <2> HIDE DEF s, m
  <2>6. CASE Done
    <3>1. PICK passed \in Seq(Line) :
             output = passed \o Flush(s).out /\ Bytes(passed) <= s.written
      BY <2>5, <2>6
    <3>2. Bytes(passed) <= s.cap
      BY <2>2, <3>1, BytesType
    <3>3. CASE s.truncated
      <4>1. output = passed \o <<m>>
        BY <2>3, <3>1, <3>3
      <4>2. QED
        BY <2>4, <2>6, <3>2, <3>3, <4>1, FrontLast
    <3>4. CASE ~s.truncated
      <4>1. output = passed
        BY <2>3, <3>1, <3>4
      <4>2. QED
        BY <3>2, <3>4, <4>1
    <3>5. QED
      BY <3>3, <3>4
  <2>7. CASE ~Done
    BY <2>1, <2>2, <2>5, <2>7, BytesType
  <2>8. QED
    BY <2>6, <2>7
<1>2. QED
  BY <1>1, InvariantHolds, PTL

-----------------------------------------------------------------------------
\* Lists of lines join up in any grouping.
LEMMA LinesJoin ==
    /\ <<>> \in Seq(Line)
    /\ \A x \in Line : <<x>> \in Seq(Line) /\ <<x>> = Append(<<>>, x)
    /\ \A s \in Seq(Line) : s \o <<>> = s /\ <<>> \o s = s
    /\ \A s, t \in Seq(Line) : s \o t \in Seq(Line)
    /\ \A s, t \in Seq(Line), x \in Line :
          /\ Append(t, x) \in Seq(Line)
          /\ s \o Append(t, x) = Append(s \o t, x)
          /\ Append(t, x) = t \o <<x>>
  OBVIOUS

\* A list of lines with a line more is one.
LEMMA LineAdded == \A t \in Seq(Line), x \in Line : Append(t, x) \in Seq(Line)
  OBVIOUS

\* Three parts join up in any grouping.
LEMMA JoinAssoc ==
    \A s, t, u \in Seq(Line) : (s \o t) \o u = s \o (t \o u)
  BY ConcatAssociative

\* The same, for what three steps emit.
LEMMA OutsJoin ==
    \A p, q, r :
       /\ p.out \in Seq(Line)
       /\ q.out \in Seq(Line)
       /\ r.out \in Seq(Line)
       => (p.out \o q.out) \o r.out = p.out \o (q.out \o r.out)
  BY JoinAssoc

\* An element put before and one put after.
LEMMA ConsAppend ==
    ASSUME NEW A, NEW x \in A, NEW s \in Seq(A), NEW y \in A
    PROVE  Append(<<x>> \o s, y) = <<x>> \o Append(s, y)
  OBVIOUS

\* No line leaves the stage as it is.
LEMMA StepAllEmpty == \A s : StepAll(s, <<>>) = Emit(s, <<>>)
  BY StepAllIsFold, StepFold!FoldEmpty

\* Where a stage is left, and what it has emitted.
LEMMA StepAllType ==
    ASSUME NEW s \in Live, NEW lines \in Seq(Line)
    PROVE  /\ StepAll(s, lines).stage \in Live
           /\ StepAll(s, lines).out \in Seq(Line)
           /\ StepAll(s, lines)
                = Emit(StepAll(s, lines).stage, StepAll(s, lines).out)
<1>1. StepAll(s, lines) \in [stage: Live, out: Seq(Line)]
  BY StepAllOutcome DEF Outcome
<1>2. QED
  BY <1>1 DEF Emit

\* A line more is a step more.
LEMMA StepAllAppend ==
    ASSUME NEW s \in Live, NEW lines \in Seq(Line), NEW line \in Line
    PROVE  LET p == StepAll(s, lines)
               r == Step(p.stage, line)
           IN  /\ r.stage \in Live /\ r.out \in Seq(Line)
               /\ StepAll(s, Append(lines, line)) = Emit(r.stage, p.out \o r.out)
<1> DEFINE p == StepAll(s, lines)
           r == Step(p.stage, line)
<1>1. StepFold!Fold(Emit(s, <<>>), Append(lines, line))
        = StepLine(StepFold!Fold(Emit(s, <<>>), lines), line)
  BY StepFold!FoldAppend
<1>2. StepAll(s, Append(lines, line)) = StepLine(p, line)
  BY <1>1, StepAllIsFold
<1>3. p.stage \in Live
  BY StepAllType
<1>4. r.stage \in Live /\ r.out \in Seq(Line)
  BY <1>3, StepOutcome DEF Outcome
<1>5. QED
  BY <1>2, <1>4 DEF StepLine

\* A stage that takes one batch and then another has taken both at once.
LEMMA StepAllConcat ==
    ASSUME NEW s \in Live, NEW a \in Seq(Line), NEW b \in Seq(Line)
    PROVE  LET p == StepAll(s, a)
               q == StepAll(p.stage, b)
           IN  StepAll(s, a \o b) = Emit(q.stage, p.out \o q.out)
<1> DEFINE p == StepAll(s, a)
           Both(t) == Emit(StepAll(p.stage, t).stage,
                           p.out \o StepAll(p.stage, t).out)
           Good(t) == StepAll(s, a \o t) = Both(t)
<1>2. p.stage \in Live /\ p.out \in Seq(Line) /\ p = Emit(p.stage, p.out)
  BY StepAllType
<1>3. Good(<<>>)
  <2>1. StepAll(p.stage, <<>>).stage = p.stage /\ StepAll(p.stage, <<>>).out = <<>>
    BY StepAllEmpty DEF Emit
  <2>2. p.out \o <<>> = p.out /\ a \o <<>> = a
    BY <1>2, LinesJoin
  <2>3. QED
    BY <1>2, <2>1, <2>2
<1>4. ASSUME NEW t \in Seq(Line), Good(t), NEW line \in Line
      PROVE  Good(Append(t, line))
  <2> DEFINE q == StepAll(p.stage, t)
             r == Step(q.stage, line)
             g == Emit(q.stage, p.out \o q.out)
  <2>1. StepAll(s, a \o t) = g /\ g.stage = q.stage /\ g.out = p.out \o q.out
    BY <1>4 DEF Emit
  <2> HIDE DEF p
  <2>2. /\ q.out \in Seq(Line) /\ r.stage \in Live /\ r.out \in Seq(Line)
        /\ StepAll(p.stage, Append(t, line)) = Emit(r.stage, q.out \o r.out)
    BY <1>2, StepAllAppend, StepAllType
  <2>3. a \o Append(t, line) = Append(a \o t, line) /\ a \o t \in Seq(Line)
    BY LinesJoin
  <2> HIDE DEF g
  <2>4. StepAll(s, Append(a \o t, line)) = Emit(r.stage, g.out \o r.out)
    <3> DEFINE h == a \o t
    <3>1. h \in Seq(Line) /\ StepAll(s, h) = g /\ g.stage = q.stage
      BY <2>1, <2>3
    <3> HIDE DEF h, q
    <3>2. StepAll(s, Append(h, line)) = Emit(r.stage, g.out \o r.out)
      BY <3>1, StepAllAppend
    <3>3. QED
      BY <3>2 DEF h
  <2> HIDE DEF q, r, Both, Good
  <2>5. (p.out \o q.out) \o r.out = p.out \o (q.out \o r.out)
    <3>1. p.out \in Seq(Line) /\ q.out \in Seq(Line) /\ r.out \in Seq(Line)
      BY <1>2, <2>2
    <3>2. QED
      BY ONLY <3>1, OutsJoin, Zenon
  <2>6. Both(Append(t, line)) = Emit(r.stage, p.out \o (q.out \o r.out))
    BY <2>2 DEF Both, Emit
  <2>7. QED
    BY <2>1, <2>3, <2>4, <2>5, <2>6 DEF Good
<1>5. \A t \in Seq(Line) : Good(t)
  <2> DEFINE T == {t \in Seq(Line) : Good(t)}
  <2> HIDE DEF Good
  <2>1. <<>> \in T /\ T \in SUBSET Seq(Line)
    BY <1>3, LinesJoin
  <2>2. \A t \in T, line \in Line : Append(t, line) \in T
    BY <1>4, LinesJoin
  <2> HIDE DEF T
  <2>3. T = Seq(Line)
    BY <2>1, <2>2, BytesFold!SeqInduction
  <2>4. QED
    BY <2>3 DEF T
<1>6. QED
  BY <1>5

-----------------------------------------------------------------------------
\* Two batches one after the other through the same stages.
Joined(p, q) == [stages |-> q.stages, out |-> p.out \o q.out]

\* A list of stages that takes one batch and then another has taken both at
\* once: what each stage emits reaches the next in the same order.
LEMMA ThroughConcat ==
    ASSUME NEW list \in Seq(Live), NEW a \in Seq(Line), NEW b \in Seq(Line)
    PROVE  Through(list, a \o b)
             = Joined(Through(list, a), Through(Through(list, a).stages, b))
<1> DEFINE P(l) == Through(l, a)
           Q(l) == Through(P(l).stages, b)
           Good(l) == Through(l, a \o b) = Joined(P(l), Q(l))
<1>1. Good(<<>>)
  <2>1. P(<<>>).stages = <<>> /\ P(<<>>).out = a
    BY ThroughEmpty
  <2>2. Q(<<>>).stages = <<>> /\ Q(<<>>).out = b
    BY <2>1, ThroughEmpty
  <2>3. Through(<<>>, a \o b) = [stages |-> <<>>, out |-> a \o b]
    BY ThroughEmpty
  <2> HIDE DEF P, Q
  <2>4. QED
    BY <2>1, <2>2, <2>3 DEF Joined
<1>2. ASSUME NEW l \in Seq(Live), Good(l), NEW s \in Live
      PROVE  Good(Append(l, s))
  <2> DEFINE p == P(l)
             q == Q(l)
             u == StepAll(s, p.out)
             v == StepAll(u.stage, q.out)
             w == StepAll(s, p.out \o q.out)
  <2>1. Through(l, a \o b) = Joined(p, q) /\ a \o b \in Seq(Line)
    BY <1>2, LinesJoin
  <2>2. p.stages \in Seq(Live) /\ p.out \in Seq(Line)
    BY ThroughResult DEF PassResult
  <2>3. q.stages \in Seq(Live) /\ q.out \in Seq(Line)
    BY <2>2, ThroughResult DEF PassResult
  <2> HIDE DEF P, Q, Good
  <2>4. u.stage \in Live /\ u.out \in Seq(Line)
    BY <2>2, StepAllType
  <2>5. v.stage \in Live /\ v.out \in Seq(Line)
    BY <2>3, <2>4, StepAllType
  <2>6. w = Emit(v.stage, u.out \o v.out)
    BY <2>2, <2>3, StepAllConcat
  <2> HIDE DEF u, v, w
  <2>7. w.stage = v.stage /\ w.out = u.out \o v.out
    BY <2>6 DEF Emit
  <2>8. P(Append(l, s)) = [stages |-> Append(p.stages, u.stage), out |-> u.out]
    BY ThroughAppend DEF P, u, PassOn
  <2>9. Q(Append(l, s)) = [stages |-> Append(q.stages, v.stage), out |-> v.out]
    <3>1. Through(Append(p.stages, u.stage), b)
            = PassOn(Through(p.stages, b), u.stage)
      BY <2>2, <2>4, ThroughAppend
    <3>2. PassOn(q, u.stage) = [stages |-> Append(q.stages, v.stage), out |-> v.out]
      BY DEF PassOn, v
    <3>3. P(Append(l, s)).stages = Append(p.stages, u.stage)
      BY <2>8
    <3>4. QED
      BY <3>1, <3>2, <3>3 DEF Q
  <2>10. Through(Append(l, s), a \o b)
           = [stages |-> Append(q.stages, w.stage), out |-> w.out]
    <3>1. Through(Append(l, s), a \o b) = PassOn(Joined(p, q), s)
      BY <2>1, ThroughAppend
    <3>2. QED
      BY <3>1 DEF PassOn, Joined, w
  <2>11. Joined(P(Append(l, s)), Q(Append(l, s)))
           = [stages |-> Append(q.stages, v.stage), out |-> u.out \o v.out]
    BY <2>8, <2>9 DEF Joined
  <2>12. QED
    BY <2>7, <2>10, <2>11 DEF Good
<1>3. QED
  <2> DEFINE T == {l \in Seq(Live) : Good(l)}
  <2> HIDE DEF Good
  <2>1. <<>> \in T /\ T \in SUBSET Seq(Live)
    BY <1>1
  <2>2. \A l \in T, s \in Live : Append(l, s) \in T
    BY <1>2
  <2> HIDE DEF T
  <2>3. T = Seq(Live)
    BY <2>1, <2>2, BytesFold!SeqInduction
  <2>4. Good(list)
    BY <2>3 DEF T
  <2>5. QED
    BY <2>4 DEF Good

\* The first stage of a list passes on to the others.
LEMMA ThroughCons ==
    ASSUME NEW s \in Live, NEW list \in Seq(Live), NEW lines \in Seq(Line)
    PROVE  LET r == StepAll(s, lines)
               t == Through(list, r.out)
           IN  Through(<<s>> \o list, lines)
                 = [stages |-> <<r.stage>> \o t.stages, out |-> t.out]
<1> DEFINE r == StepAll(s, lines)
           R(l) == [stages |-> <<r.stage>> \o Through(l, r.out).stages,
                    out |-> Through(l, r.out).out]
           Good(l) == Through(<<s>> \o l, lines) = R(l)
<1>1. r.stage \in Live /\ r.out \in Seq(Line)
  BY StepAllType
<1>2. Good(<<>>)
  <2>1. /\ <<s>> \o <<>> = Append(<<>>, s) /\ <<>> \in Seq(Live)
        /\ <<r.stage>> \o <<>> = Append(<<>>, r.stage)
    BY <1>1
  <2>2. Through(Append(<<>>, s), lines) = PassOn(Through(<<>>, lines), s)
    BY <2>1, ThroughAppend
  <2>3. Through(<<>>, lines) = [stages |-> <<>>, out |-> lines]
        /\ Through(<<>>, r.out) = [stages |-> <<>>, out |-> r.out]
    BY ThroughEmpty
  <2>4. PassOn(Through(<<>>, lines), s)
          = [stages |-> Append(<<>>, r.stage), out |-> r.out]
    BY <2>3 DEF PassOn
  <2> HIDE DEF r
  <2>5. R(<<>>) = [stages |-> Append(<<>>, r.stage), out |-> r.out]
    BY <2>1, <2>3
  <2> HIDE DEF R
  <2>6. QED
    BY <2>1, <2>2, <2>4, <2>5
<1>3. ASSUME NEW l \in Seq(Live), Good(l), NEW c \in Live
      PROVE  Good(Append(l, c))
  <2> HIDE DEF r
  <2> DEFINE t == Through(l, r.out)
             u == StepAll(c, t.out)
             h == <<s>> \o l
  <2>1. Through(h, lines) = R(l)
    BY <1>3
  <2>2. t.stages \in Seq(Live) /\ t.out \in Seq(Line)
    BY <1>1, ThroughResult DEF PassResult
  <2>3. u.stage \in Live /\ u.out \in Seq(Line)
    BY <2>2, StepAllType
  <2>4. Through(Append(l, c), r.out)
          = [stages |-> Append(t.stages, u.stage), out |-> u.out]
    BY <1>1, ThroughAppend DEF PassOn
  <2>5. h \in Seq(Live) /\ <<s>> \o Append(l, c) = Append(h, c)
    OBVIOUS
  <2>6. Through(Append(h, c), lines) = PassOn(Through(h, lines), c)
    BY <2>5, ThroughAppend
  <2>7. R(l) = [stages |-> <<r.stage>> \o t.stages, out |-> t.out]
    OBVIOUS
  <2>8. PassOn(R(l), c)
          = [stages |-> Append(<<r.stage>> \o t.stages, u.stage), out |-> u.out]
    BY <2>7 DEF PassOn
  <2> HIDE DEF t, u, h, Good
  <2>9. Append(<<r.stage>> \o t.stages, u.stage)
          = <<r.stage>> \o Append(t.stages, u.stage)
    <3>1. \A a, d \in Live, b \in Seq(Live) :
             Append(<<a>> \o b, d) = <<a>> \o Append(b, d)
      BY ConsAppend
    <3>2. QED
      BY <1>1, <2>2, <2>3, <3>1, Zenon
  <2>10. R(Append(l, c)) = [stages |-> <<r.stage>> \o Append(t.stages, u.stage),
                            out |-> u.out]
    BY <2>4
  <2> HIDE DEF R
  <2>11. Through(<<s>> \o Append(l, c), lines) = R(Append(l, c))
    BY <2>1, <2>5, <2>6, <2>8, <2>9, <2>10
  <2>12. QED
    BY <2>11 DEF Good
<1>4. QED
  <2> DEFINE T == {l \in Seq(Live) : Good(l)}
  <2> HIDE DEF Good
  <2>1. <<>> \in T /\ T \in SUBSET Seq(Live)
    BY <1>2
  <2>2. \A l \in T, c \in Live : Append(l, c) \in T
    BY <1>3
  <2> HIDE DEF T
  <2>3. T = Seq(Live)
    BY <2>1, <2>2, BytesFold!SeqInduction
  <2>4. Good(list)
    BY <2>3 DEF T
  <2>5. QED
    BY <2>4 DEF Good

-----------------------------------------------------------------------------
\* What a stage makes of a whole stream: what it emits line after line, and
\* what it still owes at the end.
Whole(s, lines) ==
    LET r == StepAll(s, lines) IN r.out \o Flush(r.stage).out

WholeNext(lines, s) == Whole(s, lines)

WholeFold == INSTANCE Folding WITH Op <- WholeNext

\* Stage after stage, each given all that comes out of the one before it.
WholeAll(list, lines) == WholeFold!Fold(lines, list)

\* A whole stream comes out of a stage.
LEMMA WholeType ==
    ASSUME NEW s \in Live, NEW lines \in Seq(Line)
    PROVE  Whole(s, lines) \in Seq(Line)
<1> DEFINE r == StepAll(s, lines)
<1>1. r.stage \in Live /\ r.out \in Seq(Line)
  BY StepAllType
<1>2. Flush(r.stage).out \in Seq(Line)
  BY <1>1, FlushOutcome
<1> HIDE DEF r
<1>3. r.out \o Flush(r.stage).out \in Seq(Line)
  BY <1>1, <1>2, LinesJoin
<1>4. QED
  BY <1>3 DEF Whole, r

\* A whole stream comes out of a list of stages.
LEMMA WholeAllType ==
    ASSUME NEW list \in Seq(Live), NEW lines \in Seq(Line)
    PROVE  WholeAll(list, lines) \in Seq(Line)
<1>1. \A x \in Seq(Line), s \in Live : WholeNext(x, s) \in Seq(Line)
  BY WholeType DEF WholeNext
<1>2. QED
  BY <1>1, WholeFold!FoldType DEF WholeAll

\* Without a stage nothing changes; one more takes what came out before it.
LEMMA WholeAllStep ==
    /\ \A lines : WholeAll(<<>>, lines) = lines
    /\ \A list \in Seq(Live), s \in Live : \A lines :
          WholeAll(Append(list, s), lines) = Whole(s, WholeAll(list, lines))
  BY WholeFold!FoldEmpty, WholeFold!FoldAppend DEF WholeAll, WholeNext

\* The flush of the first of some stages: what it owed goes through the
\* others, and they are where all of its stream, in one piece, would have
\* taken them.
LEMMA FlushPasses ==
    ASSUME NEW s \in Live, NEW list \in Seq(Live), NEW lines \in Seq(Line)
    PROVE  LET p == Through(<<s>> \o list, lines)
               f == Flush(p.stages[1])
           IN  /\ p.stages[1] \in Live
               /\ Through(list, Whole(s, lines))
                    = Joined(p, Through(SubSeq(p.stages, 2, Len(p.stages)), f.out))
<1> DEFINE p == Through(<<s>> \o list, lines)
           r == StepAll(s, lines)
           t == Through(list, r.out)
           f == Flush(r.stage)
<1>1. r.stage \in Live /\ r.out \in Seq(Line)
  BY StepAllType
<1>2. t.stages \in Seq(Live) /\ t.out \in Seq(Line)
  BY <1>1, ThroughResult DEF PassResult
<1>3. p = [stages |-> <<r.stage>> \o t.stages, out |-> t.out]
  BY ThroughCons
<1>4. f.out \in Seq(Line)
  BY <1>1, FlushOutcome
<1>5. Through(list, r.out \o f.out) = Joined(t, Through(t.stages, f.out))
  BY <1>1, <1>4, ThroughConcat
<1>6. Whole(s, lines) = r.out \o f.out
  BY DEF Whole
<1> HIDE DEF p, r, t, f
<1>7. /\ (<<r.stage>> \o t.stages)[1] = r.stage
      /\ SubSeq(<<r.stage>> \o t.stages, 2, Len(<<r.stage>> \o t.stages)) = t.stages
  <2> DEFINE c == <<r.stage>> \o t.stages
             u == SubSeq(c, 2, Len(c))
  <2>1. /\ c \in Seq(Live) /\ Len(c) = Len(t.stages) + 1
        /\ c[1] = r.stage
        /\ \A i \in 1 .. Len(t.stages) : c[i + 1] = t.stages[i]
    BY <1>1, <1>2
  <2> HIDE DEF c
  <2>2. /\ u \in Seq(Live) /\ Len(u) = Len(t.stages)
        /\ \A i \in 1 .. Len(t.stages) : u[i] = t.stages[i]
    BY <1>2, <2>1
  <2> HIDE DEF u
  <2>3. u = t.stages
    BY <1>2, <2>2, SeqEqual
  <2>4. QED
    BY <2>1, <2>3 DEF c, u
<1>8. p.stages[1] = r.stage /\ SubSeq(p.stages, 2, Len(p.stages)) = t.stages
      /\ p.out = t.out
  BY <1>3, <1>7
<1>9. Joined(t, Through(t.stages, f.out)) = Joined(p, Through(t.stages, f.out))
  BY <1>8 DEF Joined
<1>10. QED
  BY <1>1, <1>5, <1>6, <1>8, <1>9 DEF p, f

\* No line through a list of stages leaves them as they are.
LEMMA ThroughNothing ==
    ASSUME NEW list \in Seq(Live)
    PROVE  Through(list, <<>>) = [stages |-> list, out |-> <<>>]
<1> DEFINE Good(l) == Through(l, <<>>) = [stages |-> l, out |-> <<>>]
<1>1. Good(<<>>)
  BY ThroughEmpty
<1>2. ASSUME NEW l \in Seq(Live), Good(l), NEW s \in Live
      PROVE  Good(Append(l, s))
  <2>1. Through(Append(l, s), <<>>) = PassOn(Through(l, <<>>), s)
    BY ThroughAppend
  <2>2. StepAll(s, <<>>).stage = s /\ StepAll(s, <<>>).out = <<>>
    BY StepAllEmpty DEF Emit
  <2>3. QED
    BY <1>2, <2>1, <2>2 DEF PassOn
<1>3. QED
  <2> DEFINE T == {l \in Seq(Live) : Good(l)}
  <2> HIDE DEF Good
  <2>1. <<>> \in T /\ T \in SUBSET Seq(Live)
    BY <1>1
  <2>2. \A l \in T, s \in Live : Append(l, s) \in T
    BY <1>2
  <2> HIDE DEF T
  <2>3. T = Seq(Live)
    BY <2>1, <2>2, BytesFold!SeqInduction
  <2>4. Good(list)
    BY <2>3 DEF T
  <2>5. QED
    BY <2>4 DEF Good

-----------------------------------------------------------------------------
\* The stages the rule compiles to, as they were before the first line.
Compiled == CompilePipeline(specs)

\* The first stage that has not been flushed.
First == IF next = 0 THEN 1 ELSE next

\* All that will ever have reached stage j.
Came(j) == WholeAll(SubSeq(Compiled, 1, j - 1), input)

\* The rule is one that loads.
RuleHolds ==
    /\ specs \in Seq(StageSpec)
    /\ \A i \in DOMAIN specs : Accepted(specs[i])

\* The stages still to be flushed, and the output, are where the stream that
\* reaches them would have taken them, had it come in one piece.
StreamHolds ==
    LET n == Len(Compiled)
    IN  /\ Len(stages) = n
        /\ Through(SubSeq(Compiled, First, n), Came(First))
             = [stages |-> SubSeq(stages, First, n), out |-> output]

StreamInv == PipelineInv /\ RuleHolds /\ StreamHolds

\* The rule compiles to stages that have not been flushed.
LEMMA CompiledType ==
    ASSUME RuleHolds
    PROVE  /\ Compiled \in Seq(Live) /\ Len(Compiled) \in Nat /\ Len(Compiled) > 0
           /\ \A k \in 1 .. Len(Compiled) : Compiled[k] \in Live
<1>1. Compiled \in Seq(Live) /\ Compiled # <<>>
  BY CompileType DEF RuleHolds, Compiled
<1>2. QED
  BY <1>1, EmptySeq

\* Part of the stages that have not been flushed.
LEMMA LivePart ==
    ASSUME NEW list \in Seq(Live), NEW k \in 1 .. Len(list) + 1
    PROVE  /\ SubSeq(list, 1, k - 1) \in Seq(Live)
           /\ SubSeq(list, k, Len(list)) \in Seq(Live)
  OBVIOUS

\* A longer prefix has one element more at its end.
LEMMA PrefixAppend ==
    ASSUME NEW A, NEW s \in Seq(A), NEW k \in 1 .. Len(s)
    PROVE  SubSeq(s, 1, k) = Append(SubSeq(s, 1, k - 1), s[k])
<1> DEFINE a == SubSeq(s, 1, k)
           b == SubSeq(s, 1, k - 1)
           c == Append(b, s[k])
<1>1. Len(s) \in Nat /\ k \in Nat /\ s[k] \in A
  OBVIOUS
<1>2. a \in Seq(A) /\ Len(a) = k /\ \A i \in 1 .. k : a[i] = s[i]
  BY <1>1
<1>3. b \in Seq(A) /\ Len(b) = k - 1 /\ \A i \in 1 .. k - 1 : b[i] = s[i]
  BY <1>1
<1> HIDE DEF a, b
<1>4. /\ c \in Seq(A) /\ Len(c) = k /\ c[k] = s[k]
      /\ \A i \in 1 .. k - 1 : c[i] = b[i]
  BY <1>1, <1>3
<1> HIDE DEF c
<1>5. \A i \in 1 .. k : c[i] = s[i]
  BY <1>1, <1>3, <1>4
<1>6. c = a
  BY <1>2, <1>4, <1>5, SeqEqual
<1>7. QED
  BY <1>6 DEF a, b, c

\* What reaches the first stage is the input, and what reaches stage k + 1 is
\* what stage k makes of what reaches it.
LEMMA CameStep ==
    ASSUME RuleHolds, input \in Seq(Line)
    PROVE  /\ Came(1) = input
           /\ \A k \in 1 .. Len(Compiled) :
                 /\ Came(k) \in Seq(Line)
                 /\ Came(k + 1) = Whole(Compiled[k], Came(k))
<1> DEFINE C == Compiled
<1>1. C \in Seq(Live) /\ Len(C) \in Nat
  BY CompiledType
<1> HIDE DEF C
<1>2. WholeAll(SubSeq(C, 1, 1 - 1), input) = input
  <2>1. SubSeq(C, 1, 1 - 1) = <<>>
    BY <1>1
  <2>2. QED
    BY <2>1, WholeAllStep
<1>3. ASSUME NEW k \in 1 .. Len(C)
      PROVE  /\ WholeAll(SubSeq(C, 1, k - 1), input) \in Seq(Line)
             /\ WholeAll(SubSeq(C, 1, (k + 1) - 1), input)
                  = Whole(C[k], WholeAll(SubSeq(C, 1, k - 1), input))
  <2> DEFINE b == SubSeq(C, 1, k - 1)
  <2>1. b \in Seq(Live) /\ C[k] \in Live
    BY <1>1
  <2>2. SubSeq(C, 1, (k + 1) - 1) = Append(b, C[k])
    <3>1. (k + 1) - 1 = k
      BY <1>1
    <3>2. QED
      BY <1>1, <3>1, PrefixAppend
  <2> HIDE DEF b
  <2>3. /\ WholeAll(b, input) \in Seq(Line)
        /\ WholeAll(Append(b, C[k]), input) = Whole(C[k], WholeAll(b, input))
    BY <2>1, WholeAllStep, WholeAllType
  <2>4. QED
    BY <2>2, <2>3 DEF b
<1>4. QED
  BY <1>2, <1>3 DEF Came, C

\* A rule has been compiled: nothing has come, nothing is flushed.
LEMMA StreamInit == Init => StreamInv
<1> SUFFICES ASSUME Init PROVE StreamInv
  OBVIOUS
<1>1. PipelineInv
  BY InitInv
<1>2. RuleHolds
  <2>1. PICK parent \in Parents, child \in Children :
           specs = MergeRules(parent, child)
    BY DEF Init
  <2>2. parent \in Seq(StageSpec) /\ child \in Seq(StageSpec)
    BY RulesAssumption
  <2>3. parent \o child \in Seq(StageSpec)
    BY <2>2, ConcatProperties
  <2>4. QED
    BY <2>1, <2>3 DEF MergeRules, Init, RuleHolds
<1>3. stages = Compiled /\ input = <<>> /\ output = <<>> /\ next = 0
  BY DEF Init, Compiled
<1>4. Compiled \in Seq(Live)
  BY <1>2, CompiledType
<1>5. SubSeq(Compiled, 1, Len(Compiled)) = Compiled
  BY <1>4, SubSeqFull
<1>6. Came(1) = <<>>
  BY <1>2, <1>3, CameStep, LinesJoin
<1>7. Through(Compiled, <<>>) = [stages |-> Compiled, out |-> <<>>]
  BY <1>4, ThroughNothing
<1>8. First = 1
  BY <1>3 DEF First
<1>9. StreamHolds
  BY <1>3, <1>5, <1>6, <1>7, <1>8 DEF StreamHolds
<1>10. QED
  BY <1>1, <1>2, <1>9 DEF StreamInv

\* A line more: every stage has taken one line more.
LEMMA StreamFeed == StreamInv /\ Feed => StreamHolds'
<1> SUFFICES ASSUME StreamInv, Feed PROVE StreamHolds'
  OBVIOUS
<1> DEFINE n == Len(Compiled)
<1>1. PICK line \in ToolLine :
        /\ stages' = Through(stages, <<line>>).stages
        /\ output' = output \o Through(stages, <<line>>).out
        /\ input' = Append(input, line)
  BY DEF Feed
<1>2. next = 0 /\ next' = 0 /\ specs' = specs
  BY DEF Feed
<1>3. /\ RuleHolds /\ input \in Seq(Line) /\ stages \in Seq(Live)
      /\ line \in Line
  <2>1. /\ stages \in Seq(Stage) /\ input \in Seq(ToolLine) /\ RuleHolds
        /\ \A i \in 1 .. Len(stages) : i >= next => Counted(stages[i])
    BY DEF StreamInv, PipelineInv, StagesHold
  <2>2. \A i \in 1 .. Len(stages) : i >= next
    BY <1>2, <2>1
  <2>3. \A i \in 1 .. Len(stages) : stages[i] \in Live
    BY <2>1, <2>2 DEF Live
  <2>4. ToolLine \subseteq Line
    BY DEF Line
  <2>5. stages \in Seq(Live)
    BY <2>1, <2>3
  <2>6. input \in Seq(Line)
    BY <2>1, <2>4, SeqMonotonic
  <2>7. QED
    BY <2>1, <2>4, <2>5, <2>6
<1>4. Compiled \in Seq(Live) /\ SubSeq(Compiled, 1, n) = Compiled
  BY <1>3, CompiledType, SubSeqFull
<1>5. Came(1) = input /\ First = 1 /\ First' = 1
  BY <1>2, <1>3, CameStep DEF First
<1>6. Len(stages) = n /\ SubSeq(stages, 1, Len(stages)) = stages
  BY <1>3, SubSeqFull DEF StreamInv, StreamHolds
<1> HIDE DEF n
<1>7. Through(Compiled, input) = [stages |-> stages, out |-> output]
  BY <1>4, <1>5, <1>6 DEF StreamInv, StreamHolds, n
<1> DEFINE r == Through(stages, <<line>>)
<1>8. r.stages \in Seq(Live) /\ Len(r.stages) = n
  <2>1. <<line>> \in Seq(Line)
    BY <1>3, LinesJoin
  <2>2. QED
    BY <1>3, <1>6, <2>1, ThroughResult DEF PassResult
<1>9. Through(Compiled, Append(input, line))
        = [stages |-> r.stages, out |-> output \o r.out]
  <2>1. Append(input, line) = input \o <<line>> /\ <<line>> \in Seq(Line)
    BY <1>3, LinesJoin
  <2>2. Through(Compiled, input \o <<line>>)
          = Joined(Through(Compiled, input),
                   Through(Through(Compiled, input).stages, <<line>>))
    BY <1>3, <1>4, <2>1, ThroughConcat
  <2>3. Through(Compiled, input).stages = stages
        /\ Through(Compiled, input).out = output
    BY <1>7
  <2>4. QED
    BY <2>1, <2>2, <2>3 DEF Joined
<1>10. stages' = r.stages /\ output' = output \o r.out /\ input' = Append(input, line)
  BY <1>1
<1> HIDE DEF r
<1>11. /\ Compiled' = Compiled /\ RuleHolds' /\ input' \in Seq(Line)
  BY <1>2, <1>3, <1>10, LinesJoin DEF Compiled, RuleHolds
<1>12. Came(1)' = input'
  <2>1. Came(1)' = WholeAll(SubSeq(Compiled, 1, 0), input')
    BY <1>11 DEF Came
  <2>2. SubSeq(Compiled, 1, 0) = <<>>
    BY <1>4
  <2>3. QED
    BY <2>1, <2>2, WholeAllStep
<1>13. Came(First)' = input'
  BY <1>5, <1>12 DEF Came
<1>14. SubSeq(stages', 1, n) = stages'
  BY <1>8, <1>10, SubSeqFull
<1>15. QED
  BY <1>4, <1>5, <1>8, <1>9, <1>10, <1>11, <1>13, <1>14 DEF StreamHolds, n

\* The end of the stream: the first stage is the first to be flushed.
LEMMA StreamEnd == StreamInv /\ EndOfStream => StreamHolds'
<1> SUFFICES ASSUME StreamInv, EndOfStream PROVE StreamHolds'
  OBVIOUS
<1>1. /\ next = 0 /\ next' = 1 /\ stages' = stages /\ output' = output
      /\ input' = input /\ specs' = specs
  BY DEF EndOfStream
<1>2. Compiled' = Compiled /\ First = 1 /\ First' = 1
  BY <1>1 DEF Compiled, First
<1>3. Came(First) = Came(1) /\ Came(First)' = Came(1)
  BY <1>1, <1>2 DEF Came
<1>4. QED
  BY <1>1, <1>2, <1>3 DEF StreamInv, StreamHolds

\* A stage flushed: the ones after it have had all of their stream that the
\* flushed stage will ever give them.
LEMMA StreamFlush == StreamInv /\ FlushStage => StreamHolds'
<1> SUFFICES ASSUME StreamInv, FlushStage PROVE StreamHolds'
  OBVIOUS
<1>0. PICK k : k = next
  OBVIOUS
<1> DEFINE n == Len(Compiled)
           f == Flush(stages[k])
           rest == Through(SubSeq(stages, k + 1, Len(stages)), f.out)
           before == SubSeq(stages, 1, k - 1)
<1>1. /\ stages' = before \o <<f.stage>> \o rest.stages
      /\ output' = output \o rest.out
      /\ k \in DOMAIN stages /\ next' = k + 1 /\ input' = input /\ specs' = specs
  BY <1>0 DEF FlushStage
<1>2. /\ RuleHolds /\ stages \in Seq(Stage) /\ Len(stages) = n
      /\ input \in Seq(Line)
  <2>1. ToolLine \subseteq Line
    BY DEF Line
  <2>2. QED
    BY <2>1, SeqMonotonic DEF StreamInv, StreamHolds, PipelineInv, StagesHold
<1>3. /\ Compiled \in Seq(Live) /\ n \in Nat /\ n > 0
      /\ \A i \in 1 .. n : Compiled[i] \in Live
  BY <1>2, CompiledType
<1>4. k \in 1 .. n
  BY <1>1, <1>2
<1>5. First = k /\ First' = k + 1
  BY <1>0, <1>1, <1>3, <1>4 DEF First
<1> DEFINE c == Compiled[k]
           later == SubSeq(Compiled, k + 1, n)
           p == Through(<<c>> \o later, Came(k))
           mine == SubSeq(stages, k, n)
<1>6. c \in Live /\ later \in Seq(Live)
  BY <1>3, <1>4
<1>7. SubSeq(Compiled, k, n) = <<c>> \o later
  <2>1. n \in k .. n
    BY <1>3, <1>4
  <2>2. QED
    BY <1>3, <1>4, <2>1, SubSeqRecursiveFirst
<1>8. Came(k) \in Seq(Line) /\ Came(k + 1) = Whole(c, Came(k))
  BY <1>2, <1>4, CameStep
<1>9. p = [stages |-> mine, out |-> output]
  BY <1>5, <1>7 DEF StreamInv, StreamHolds
<1>10. mine[1] = stages[k] /\ SubSeq(mine, 2, Len(mine)) = SubSeq(stages, k + 1, n)
  <2> DEFINE a == SubSeq(mine, 2, Len(mine))
             b == SubSeq(stages, k + 1, n)
  <2>1. /\ mine \in Seq(Stage) /\ Len(mine) = n - k + 1 /\ mine[1] = stages[k]
        /\ \A i \in 1 .. n - k : mine[i + 1] = stages[k + i]
    BY <1>2, <1>3, <1>4
  <2>2. b \in Seq(Stage) /\ Len(b) = n - k /\ \A i \in 1 .. n - k : b[i] = stages[k + i]
    BY <1>2, <1>3, <1>4
  <2> HIDE DEF mine
  <2>3. a \in Seq(Stage) /\ Len(a) = n - k /\ \A i \in 1 .. n - k : a[i] = mine[i + 1]
    BY <1>3, <1>4, <2>1
  <2> HIDE DEF a, b
  <2>4. a = b
    <3>1. Len(a) = Len(b) /\ \A i \in 1 .. Len(a) : a[i] = b[i]
      BY <2>1, <2>2, <2>3
    <3>2. QED
      BY <2>2, <2>3, <3>1, SeqEqual
  <2>5. QED
    BY <2>1, <2>4 DEF a, b
<1>11. Through(later, Came(k + 1)) = Joined(p, rest)
  <2>1. p.stages[1] = stages[k]
        /\ SubSeq(p.stages, 2, Len(p.stages)) = SubSeq(stages, k + 1, Len(stages))
    <3>1. p.stages = mine
      BY <1>9
    <3>2. QED
      BY <1>2, <1>10, <3>1
  <2> HIDE DEF p, later, c
  <2>2. Through(later, Whole(c, Came(k)))
          = Joined(p, Through(SubSeq(p.stages, 2, Len(p.stages)),
                              Flush(p.stages[1]).out))
    BY <1>6, <1>8, FlushPasses DEF p
  <2>3. QED
    BY <1>8, <2>1, <2>2
<1>12. rest.stages \in Seq(Live) /\ Len(rest.stages) = n - k
  <2>1. stages[k] \in Live /\ SubSeq(stages, k + 1, Len(stages)) \in Seq(Live)
        /\ Len(SubSeq(stages, k + 1, Len(stages))) = n - k
    <3>1. \A i \in 1 .. Len(stages) : i >= next => Counted(stages[i])
      BY DEF StreamInv, PipelineInv, StagesHold
    <3>2. \A i \in k .. n : stages[i] \in Live
      BY <1>0, <1>2, <1>4, <3>1 DEF Live
    <3>3. QED
      BY <1>2, <1>3, <1>4, <3>2
  <2>2. f.out \in Seq(Line)
    BY <2>1, FlushOutcome
  <2> HIDE DEF f
  <2>3. QED
    BY <2>1, <2>2, ThroughResult DEF PassResult
<1>13. f.stage \in Stage
  <2>1. stages[k] \in Live
    BY <1>0, <1>2, <1>4 DEF StreamInv, PipelineInv, StagesHold, Live
  <2>2. QED
    BY <2>1, FlushOutcome
<1>14. Len(stages') = n /\ SubSeq(stages', k + 1, n) = rest.stages
  <2> HIDE DEF f, rest
  <2> DEFINE a == before \o <<f.stage>>
             w == a \o rest.stages
             d == SubSeq(w, k + 1, n)
  <2>1. a \in Seq(Stage) /\ Len(a) = k
    BY <1>2, <1>4, <1>13
  <2>2. rest.stages \in Seq(Stage)
    <3>1. Live \subseteq Stage
      BY DEF Live
    <3>2. QED
      BY <1>12, <3>1, SeqMonotonic
  <2> HIDE DEF a
  <2>3. /\ w \in Seq(Stage) /\ Len(w) = n
        /\ \A i \in 1 .. n - k : w[k + i] = rest.stages[i]
    BY <1>3, <1>4, <1>12, <2>1, <2>2
  <2>4. stages' = w
    BY <1>1 DEF a
  <2> HIDE DEF w
  <2>5. /\ d \in Seq(Stage) /\ Len(d) = n - k
        /\ \A i \in 1 .. n - k : d[i] = w[k + i]
    BY <1>3, <1>4, <2>3
  <2> HIDE DEF d
  <2>6. d = rest.stages
    BY <1>12, <2>2, <2>3, <2>5, SeqEqual
  <2>7. QED
    BY <2>3, <2>4, <2>6 DEF d
<1>15. Compiled' = Compiled
  BY <1>1 DEF Compiled
<1> HIDE DEF p, rest, f, before, later, mine, c
<1>16. Came(First)' = Came(k + 1)
  <2>1. Came(First)' = WholeAll(SubSeq(Compiled', 1, First' - 1), input')
    BY DEF Came
  <2>2. Came(k + 1) = WholeAll(SubSeq(Compiled, 1, (k + 1) - 1), input)
    BY DEF Came
  <2>3. First' = k + 1
    BY <1>5
  <2>4. QED
    BY <1>1, <1>15, <2>1, <2>2, <2>3
<1>17. Joined(p, rest) = [stages |-> rest.stages, out |-> output \o rest.out]
  <2>1. p.out = output
    BY <1>9
  <2>2. QED
    BY <2>1 DEF Joined
<1>18. Through(later, Came(k + 1))
         = [stages |-> SubSeq(stages', k + 1, n), out |-> output']
  BY <1>1, <1>11, <1>14, <1>17
<1>19. /\ Len(stages') = Len(Compiled')
       /\ SubSeq(Compiled', First', Len(Compiled')) = later
       /\ SubSeq(stages', First', Len(Compiled')) = SubSeq(stages', k + 1, n)
  BY <1>5, <1>14, <1>15 DEF later
<1> HIDE DEF n
<1>20. Through(SubSeq(Compiled', First', Len(Compiled')), Came(First)')
         = [stages |-> SubSeq(stages', First', Len(Compiled')), out |-> output']
  BY <1>16, <1>18, <1>19
<1>21. QED
  BY <1>19, <1>20 DEF StreamHolds

\* StreamInv is an invariant of every run.
LEMMA StreamInvariant == Spec => []StreamInv
<1>1. ASSUME StreamInv, [Next]_vars PROVE StreamInv'
  <2>1. PipelineInv'
    <3>1. PipelineInv
      BY <1>1 DEF StreamInv
    <3>2. QED
      BY <1>1, <3>1, StepInv
  <2>2. RuleHolds'
    <3>1. specs' = specs
      BY <1>1 DEF Next, Feed, EndOfStream, FlushStage, vars
    <3>2. QED
      BY <1>1, <3>1 DEF StreamInv, RuleHolds
  <2>3. StreamHolds'
    <3>1. CASE Feed
      BY <1>1, <3>1, StreamFeed
    <3>2. CASE EndOfStream
      BY <1>1, <3>2, StreamEnd
    <3>3. CASE FlushStage
      BY <1>1, <3>3, StreamFlush
    <3>4. CASE UNCHANGED vars
      <4>1. UNCHANGED <<specs, stages, input, output, next>>
        BY <3>4 DEF vars
      <4>2. QED
        BY <1>1, <4>1 DEF StreamInv, StreamHolds, Compiled, First, Came
    <3>5. QED
      BY <1>1, <3>1, <3>2, <3>3, <3>4 DEF Next
  <2>4. QED
    BY <2>1, <2>2, <2>3 DEF StreamInv
<1>2. QED
  BY <1>1, StreamInit, PTL DEF Spec

\* At the end the output is what the stages make of the whole input, each
\* given all that the one before it emits.
LEMMA DoneOutput ==
    StreamInv /\ Done => output = WholeAll(Compiled, input)
<1> SUFFICES ASSUME StreamInv, Done PROVE output = WholeAll(Compiled, input)
  OBVIOUS
<1> DEFINE n == Len(Compiled)
<1>1. RuleHolds /\ Len(stages) = n /\ next = n + 1
  BY DEF StreamInv, StreamHolds, Done
<1>2. Compiled \in Seq(Live) /\ n \in Nat
  BY <1>1, CompiledType
<1>3. First = n + 1
  BY <1>1, <1>2 DEF First
<1>4. SubSeq(Compiled, n + 1, n) = <<>> /\ SubSeq(Compiled, 1, (n + 1) - 1) = Compiled
  <2>1. (n + 1) - 1 = n
    BY <1>2
  <2>2. QED
    BY <1>2, <2>1, SubSeqFull
<1>5. Through(SubSeq(Compiled, First, n), Came(First)).out = output
  BY DEF StreamInv, StreamHolds
<1>6. SubSeq(Compiled, First, n) = <<>>
  BY <1>3, <1>4
<1>7. Came(First) = WholeAll(Compiled, input)
  <2>1. First - 1 = n
    BY <1>2, <1>3
  <2>2. QED
    BY <1>2, <2>1, SubSeqFull DEF Came
<1> HIDE DEF n
<1>8. Through(<<>>, Came(First)).out = Came(First)
  BY ThroughEmpty
<1>9. QED
  BY <1>5, <1>6, <1>7, <1>8

-----------------------------------------------------------------------------
\* The function that FlattenSeq defines: what the first i sequences give.
IsFlat(ss, f) ==
    f = [i \in 1 .. Len(ss) |-> IF i = 1 THEN ss[i] ELSE f[i - 1] \o ss[i]]

\* FlattenSeq is that function at the last position.
LEMMA FlattenIs ==
    \A ss : FlattenSeq(ss) =
        IF Len(ss) = 0 THEN ss ELSE (CHOOSE f : IsFlat(ss, f))[Len(ss)]
  BY DEF FlattenSeq, IsFlat

\* It exists for every sequence of sequences.
LEMMA FlatExists ==
    ASSUME NEW A, NEW ss \in Seq(A)
    PROVE  \E f : IsFlat(ss, f)
<1> DEFINE Good(r) == \E f : IsFlat(r, f)
<1>1. Good(<<>>)
  <2> DEFINE f == [i \in 1 .. Len(<<>>) |-> {}]
  <2>1. 1 .. Len(<<>>) = {}
    OBVIOUS
  <2>2. IsFlat(<<>>, f)
    BY <2>1 DEF IsFlat
  <2>3. QED
    BY <2>2
<1>2. ASSUME NEW r \in Seq(A), Good(r), NEW x \in A PROVE Good(Append(r, x))
  <2>1. PICK f : IsFlat(r, f)
    BY <1>2
  <2> DEFINE n == Len(r)
             p == Append(r, x)
             g == [i \in 1 .. n + 1 |->
                     IF i \in 1 .. n THEN f[i]
                     ELSE IF i = 1 THEN p[i] ELSE f[n] \o p[i]]
  <2>2. n \in Nat /\ Len(p) = n + 1 /\ \A i \in 1 .. n : p[i] = r[i]
    OBVIOUS
  <2>3. \A i \in 1 .. n : f[i] = IF i = 1 THEN r[i] ELSE f[i - 1] \o r[i]
    BY <2>1 DEF IsFlat
  <2> HIDE DEF n, p
  <2>4. ASSUME NEW i \in 1 .. n + 1
        PROVE  g[i] = IF i = 1 THEN p[i] ELSE g[i - 1] \o p[i]
    <3>1. CASE i \in 1 .. n
      <4>1. g[i] = f[i]
        BY <2>2, <3>1
      <4>2. i # 1 => i - 1 \in 1 .. n /\ i - 1 \in 1 .. n + 1
        BY <2>2, <3>1
      <4>3. i # 1 => g[i - 1] = f[i - 1]
        BY <4>2
      <4> HIDE DEF g
      <4>4. QED
        BY <2>2, <2>3, <3>1, <4>1, <4>3
    <3>2. CASE i = n + 1
      <4>1. i \notin 1 .. n /\ i \in 1 .. n + 1
        BY <2>2, <3>2
      <4>2. g[i] = IF i = 1 THEN p[i] ELSE f[n] \o p[i]
        BY <4>1
      <4>3. i # 1 => i - 1 = n /\ n \in 1 .. n /\ n \in 1 .. n + 1
        BY <2>2, <3>2
      <4>4. i # 1 => g[i - 1] = f[n]
        BY <4>3
      <4> HIDE DEF g
      <4>5. QED
        BY <4>2, <4>4
    <3>3. QED
      BY <2>2, <3>1, <3>2
  <2>5. DOMAIN g = 1 .. n + 1 /\ g = [i \in 1 .. n + 1 |-> g[i]]
    OBVIOUS
  <2> HIDE DEF g
  <2>6. g = [i \in 1 .. n + 1 |-> IF i = 1 THEN p[i] ELSE g[i - 1] \o p[i]]
    BY <2>4, <2>5
  <2>7. IsFlat(p, g)
    BY <2>2, <2>6 DEF IsFlat
  <2>8. QED
    BY <2>7 DEF p
<1>3. QED
  <2> DEFINE T == {r \in Seq(A) : Good(r)}
  <2> HIDE DEF Good
  <2>1. <<>> \in T /\ T \in SUBSET Seq(A)
    BY <1>1
  <2>2. \A r \in T, x \in A : Append(r, x) \in T
    BY <1>2
  <2> HIDE DEF T
  <2>3. T = Seq(A)
    BY <2>1, <2>2, BytesFold!SeqInduction
  <2>4. Good(ss)
    BY <2>3 DEF T
  <2>5. QED
    BY <2>4 DEF Good

\* FlattenSeq joins up lists of lines from the first to the last.
LEMMA FlattenAppend ==
    /\ FlattenSeq(<<>>) = <<>>
    /\ \A ss \in Seq(Seq(Line)), x \in Seq(Line) :
          FlattenSeq(Append(ss, x)) = FlattenSeq(ss) \o x
<1>1. FlattenSeq(<<>>) = <<>>
  BY FlattenIs
<1>2. ASSUME NEW ss \in Seq(Seq(Line)), NEW x \in Seq(Line)
      PROVE  FlattenSeq(Append(ss, x)) = FlattenSeq(ss) \o x
  <2> DEFINE n == Len(ss)
             p == Append(ss, x)
             f == CHOOSE h : IsFlat(ss, h)
             g == CHOOSE h : IsFlat(p, h)
  <2>1. /\ n \in Nat /\ p \in Seq(Seq(Line)) /\ Len(p) = n + 1 /\ p[n + 1] = x
        /\ \A i \in 1 .. n : p[i] = ss[i]
    OBVIOUS
  <2> HIDE DEF p
  <2>2. IsFlat(ss, f)
    BY FlatExists
  <2>3. IsFlat(p, g)
    BY <2>1, FlatExists
  <2>4. FlattenSeq(p) = g[n + 1]
    <3>1. Len(p) # 0
      BY <2>1
    <3>2. QED
      BY <2>1, <3>1, FlattenIs
  <2>5. n # 0 => FlattenSeq(ss) = f[n]
    BY FlattenIs
  <2> HIDE DEF n, f, g
  <2>6. /\ \A i \in 1 .. n : f[i] = IF i = 1 THEN ss[i] ELSE f[i - 1] \o ss[i]
        /\ \A i \in 1 .. n + 1 : g[i] = IF i = 1 THEN p[i] ELSE g[i - 1] \o p[i]
    BY <2>1, <2>2, <2>3 DEF IsFlat, n
  <2>7. \A k \in Nat : k \in 1 .. n => f[k] = g[k]
    <3> DEFINE T == {k \in Nat : k \in 1 .. n => f[k] = g[k]}
    <3>1. 0 \in T
      OBVIOUS
    <3>2. ASSUME NEW k \in T PROVE k + 1 \in T
      <4>1. k \in Nat /\ (k \in 1 .. n => f[k] = g[k])
        OBVIOUS
      <4>2. ASSUME k + 1 \in 1 .. n PROVE f[k + 1] = g[k + 1]
        <5>1. k + 1 \in 1 .. n + 1 /\ (k + 1) - 1 = k /\ p[k + 1] = ss[k + 1]
          BY <2>1, <4>1, <4>2
        <5>2. k + 1 # 1 => k \in 1 .. n
          BY <2>1, <4>1, <4>2
        <5>3. /\ f[k + 1] = IF k + 1 = 1 THEN ss[k + 1] ELSE f[k] \o ss[k + 1]
              /\ g[k + 1] = IF k + 1 = 1 THEN p[k + 1] ELSE g[k] \o p[k + 1]
          BY <2>6, <4>2, <5>1
        <5>4. QED
          BY <4>1, <5>1, <5>2, <5>3
      <4>3. QED
        BY <4>1, <4>2
    <3>3. T \in SUBSET Nat
      OBVIOUS
    <3> HIDE DEF T
    <3>4. T = Nat
      BY <3>1, <3>2, <3>3, BytesFold!SetInduction
    <3>5. QED
      BY <3>4 DEF T
  <2>8. CASE n = 0
    <3>1. ss = <<>>
      BY <2>8 DEF n
    <3>2. n + 1 = 1 /\ 1 \in 1 .. n + 1
      BY <2>8
    <3>3. g[1] = p[1]
      BY <2>6, <3>2
    <3>4. <<>> \o x = x
      BY LinesJoin
    <3>5. QED
      BY <1>1, <2>1, <2>4, <3>1, <3>2, <3>3, <3>4 DEF p
  <2>9. CASE n # 0
    <3>1. n \in 1 .. n /\ n + 1 \in 1 .. n + 1 /\ n + 1 # 1 /\ (n + 1) - 1 = n
      BY <2>1, <2>9
    <3>2. g[n + 1] = g[n] \o p[n + 1]
      BY <2>6, <3>1
    <3>3. g[n] = f[n]
      BY <2>1, <2>7, <3>1
    <3>4. QED
      BY <2>1, <2>4, <2>5, <2>9, <3>2, <3>3 DEF p
  <2>10. QED
    BY <2>8, <2>9
<1>3. QED
  BY <1>1, <1>2

\* What is joined up is a list of lines.
LEMMA FlattenType ==
    \A ss \in Seq(Seq(Line)) : FlattenSeq(ss) \in Seq(Line)
<1> DEFINE Good(ss) == FlattenSeq(ss) \in Seq(Line)
<1>1. Good(<<>>)
  BY FlattenAppend, LinesJoin
<1>2. ASSUME NEW ss \in Seq(Seq(Line)), Good(ss), NEW x \in Seq(Line)
      PROVE  Good(Append(ss, x))
  <2>1. FlattenSeq(Append(ss, x)) = FlattenSeq(ss) \o x
    BY FlattenAppend
  <2>2. FlattenSeq(ss) \o x \in Seq(Line)
    BY <1>2, LinesJoin
  <2>3. QED
    BY <2>1, <2>2
<1>3. QED
  <2> DEFINE T == {ss \in Seq(Seq(Line)) : Good(ss)}
  <2> HIDE DEF Good
  <2>1. <<>> \in T /\ T \in SUBSET Seq(Seq(Line))
    BY <1>1
  <2>2. \A ss \in T, x \in Seq(Line) : Append(ss, x) \in T
    BY <1>2
  <2> HIDE DEF T
  <2>3. T = Seq(Seq(Line))
    BY <2>1, <2>2, BytesFold!SeqInduction
  <2>4. QED
    BY <2>3 DEF T, Good

-----------------------------------------------------------------------------
\* The lines at some of the positions of a stream.
Kept(lines, K) ==
    [i \in DOMAIN lines |-> IF i \in K THEN <<lines[i]>> ELSE <<>>]

Chosen(lines, K) == FlattenSeq(Kept(lines, K))

\* Whether a position is chosen only matters where there is a line.
LEMMA ChosenSame ==
    ASSUME NEW lines \in Seq(Line), NEW K, NEW M,
           \A i \in 1 .. Len(lines) : i \in K <=> i \in M
    PROVE  Chosen(lines, K) = Chosen(lines, M)
<1>1. DOMAIN lines = 1 .. Len(lines)
  OBVIOUS
<1>2. Kept(lines, K) = Kept(lines, M)
  BY <1>1 DEF Kept
<1>3. QED
  BY <1>2 DEF Chosen

\* What is chosen of no line, and of a line more.
LEMMA ChosenStep ==
    /\ \A K : Chosen(<<>>, K) = <<>>
    /\ \A lines \in Seq(Line) : \A K : Chosen(lines, K) \in Seq(Line)
    /\ \A lines \in Seq(Line), x \in Line : \A K :
          Chosen(Append(lines, x), K) =
              Chosen(lines, K) \o IF Len(lines) + 1 \in K THEN <<x>> ELSE <<>>
<1>1. ASSUME NEW K PROVE Chosen(<<>>, K) = <<>>
  <2>1. Kept(<<>>, K) = <<>>
    BY DEF Kept
  <2>2. QED
    BY <2>1, FlattenAppend DEF Chosen
<1>2. ASSUME NEW lines \in Seq(Line), NEW x \in Line, NEW K
      PROVE  /\ Chosen(lines, K) \in Seq(Line)
             /\ Chosen(Append(lines, x), K) =
                   Chosen(lines, K)
                       \o IF Len(lines) + 1 \in K THEN <<x>> ELSE <<>>
  <2> DEFINE n == Len(lines)
             a == Kept(lines, K)
             last == IF n + 1 \in K THEN <<x>> ELSE <<>>
             p == Append(lines, x)
             b == Kept(p, K)
             c == Append(a, last)
  <2>1. /\ n \in Nat /\ p \in Seq(Line) /\ Len(p) = n + 1 /\ p[n + 1] = x
        /\ DOMAIN p = 1 .. n + 1 /\ DOMAIN lines = 1 .. n
        /\ \A i \in 1 .. n : p[i] = lines[i]
    OBVIOUS
  <2>2. \A q \in Seq(Line) : Kept(q, K) \in Seq(Seq(Line))
                             /\ Len(Kept(q, K)) = Len(q)
    <3>1. SUFFICES ASSUME NEW q \in Seq(Line)
                   PROVE  Kept(q, K) \in Seq(Seq(Line)) /\ Len(Kept(q, K)) = Len(q)
      OBVIOUS
    <3>2. \A i \in 1 .. Len(q) :
             (IF i \in K THEN <<q[i]>> ELSE <<>>) \in Seq(Line)
      BY LinesJoin
    <3>3. DOMAIN q = 1 .. Len(q) /\ Len(q) \in Nat
      OBVIOUS
    <3> DEFINE e(i) == IF i \in K THEN <<q[i]>> ELSE <<>>
    <3>4. Kept(q, K) = [i \in 1 .. Len(q) |-> e(i)]
      BY <3>3 DEF Kept
    <3>5. \A i \in 1 .. Len(q) : e(i) \in Seq(Line)
      BY <3>2
    <3> HIDE DEF e
    <3>6. QED
      BY <3>3, <3>4, <3>5
  <2>3. last \in Seq(Line)
    BY LinesJoin
  <2>4. \A i \in 1 .. n : a[i] = IF i \in K THEN <<lines[i]>> ELSE <<>>
    BY <2>1 DEF Kept
  <2>5. \A i \in 1 .. n + 1 : b[i] = IF i \in K THEN <<p[i]>> ELSE <<>>
    BY <2>1 DEF Kept
  <2>6. b[n + 1] = last /\ \A i \in 1 .. n : b[i] = a[i]
    <3> HIDE DEF a, b, p, n
    <3>1. n + 1 \in 1 .. n + 1 /\ \A i \in 1 .. n : i \in 1 .. n + 1
      BY <2>1
    <3>2. b[n + 1] = last
      BY <2>1, <2>5, <3>1
    <3>3. \A i \in 1 .. n : b[i] = a[i]
      BY <2>1, <2>4, <2>5, <3>1
    <3>4. QED
      BY <3>2, <3>3
  <2>7. /\ a \in Seq(Seq(Line)) /\ Len(a) = n
        /\ b \in Seq(Seq(Line)) /\ Len(b) = n + 1
    BY <2>1, <2>2
  <2> HIDE DEF a, b, last, p
  <2>8. /\ c \in Seq(Seq(Line)) /\ Len(c) = n + 1 /\ c[n + 1] = last
        /\ \A i \in 1 .. n : c[i] = a[i]
    BY <2>3, <2>7
  <2> HIDE DEF c, n
  <2>9. \A i \in 1 .. n + 1 : i \in 1 .. n \/ i = n + 1
    BY <2>1
  <2>10. b = c
    <3>1. Len(b) = Len(c) /\ \A i \in 1 .. Len(b) : b[i] = c[i]
      BY <2>6, <2>7, <2>8, <2>9
    <3>2. QED
      BY <2>7, <2>8, <3>1, SeqEqual
  <2>11. FlattenSeq(c) = FlattenSeq(a) \o last
    BY <2>3, <2>7, FlattenAppend DEF c
  <2>12. FlattenSeq(a) \in Seq(Line)
    BY <2>7, FlattenType
  <2>13. QED
    BY <2>10, <2>11, <2>12 DEF Chosen, a, b, p, n, last
<1>3. \E x : x \in Line
  <2>1. [text |-> "collapsed", count |-> 0] \in Line
    BY DEF Line, Marker
  <2>2. QED
    BY <2>1
<1>4. ASSUME NEW lines \in Seq(Line), NEW K PROVE Chosen(lines, K) \in Seq(Line)
  BY <1>2, <1>3
<1>5. ASSUME NEW lines \in Seq(Line), NEW x \in Line, NEW K
      PROVE  Chosen(Append(lines, x), K) =
                 Chosen(lines, K) \o IF Len(lines) + 1 \in K THEN <<x>> ELSE <<>>
  BY <1>2
<1>6. QED
  BY <1>1, <1>4, <1>5

-----------------------------------------------------------------------------
\* What is chosen of the first lines, and all of the later ones.
LEMMA ChosenRest ==
    ASSUME NEW lines \in Seq(Line), NEW K, NEW m \in 0 .. Len(lines),
           \A i \in m + 1 .. Len(lines) : i \in K
    PROVE  Chosen(lines, K)
             = Chosen(SubSeq(lines, 1, m), K) \o SubSeq(lines, m + 1, Len(lines))
<1> DEFINE n == Len(lines)
           Pre(k) == SubSeq(lines, 1, k)
           Good(k) == k \in m .. n => Chosen(Pre(k), K)
                        = Chosen(Pre(m), K) \o SubSeq(lines, m + 1, k)
           T == {k \in Nat : Good(k)}
<1>1. n \in Nat /\ m \in Nat /\ m <= n /\ \A i \in 1 .. n : lines[i] \in Line
  OBVIOUS
<1>2. \A k \in 0 .. n : Pre(k) \in Seq(Line) /\ Len(Pre(k)) = k
  BY <1>1
<1>3. Chosen(Pre(m), K) \in Seq(Line)
  BY <1>1, <1>2, ChosenStep
<1>4. Good(m)
  <2>1. SubSeq(lines, m + 1, m) = <<>>
    BY <1>1
  <2>2. Chosen(Pre(m), K) \o <<>> = Chosen(Pre(m), K)
    BY <1>3, LinesJoin
  <2> HIDE DEF Pre
  <2>3. QED
    BY <2>1, <2>2
<1>5. ASSUME NEW k \in m .. n - 1, Good(k) PROVE Good(k + 1)
  <2>1. /\ k \in 0 .. n /\ k + 1 \in 0 .. n /\ k + 1 \in m + 1 .. n
        /\ k + 1 \in 1 .. n /\ (k + 1) - 1 = k /\ k \in m .. n
    BY <1>1
  <2>2. Pre(k + 1) = Append(Pre(k), lines[k + 1])
    BY <2>1, PrefixAppend
  <2>3. Chosen(Pre(k + 1), K) = Chosen(Pre(k), K) \o <<lines[k + 1]>>
    <3>1. Pre(k) \in Seq(Line) /\ Len(Pre(k)) = k /\ lines[k + 1] \in Line
      BY <1>1, <1>2, <2>1
    <3>2. k + 1 \in K
      BY <2>1
    <3> HIDE DEF Pre
    <3>3. Chosen(Append(Pre(k), lines[k + 1]), K)
            = Chosen(Pre(k), K) \o <<lines[k + 1]>>
      BY <3>1, <3>2, ChosenStep
    <3>4. QED
      BY <2>2, <3>3
  <2> DEFINE a == Chosen(Pre(m), K)
             b == SubSeq(lines, m + 1, k)
             c == lines[k + 1]
  <2>4. b \in Seq(Line) /\ c \in Line
    BY <1>1, <2>1
  <2>5. SubSeq(lines, m + 1, k + 1) = Append(b, c)
    BY <1>1, <2>1, SubSeqRecursiveSecond
  <2>6. Chosen(Pre(k), K) = a \o b
    BY <1>5, <2>1
  <2>7. a \in Seq(Line)
    BY <1>3
  <2> HIDE DEF a, b, c
  <2>8. (a \o b) \o <<c>> = a \o Append(b, c)
    <3>1. Append(b, c) = b \o <<c>> /\ <<c>> \in Seq(Line)
      BY <2>4, LinesJoin
    <3>2. (a \o b) \o <<c>> = a \o (b \o <<c>>)
      BY ONLY <2>4, <2>7, <3>1, JoinAssoc, Zenon
    <3>3. QED
      BY <3>1, <3>2
  <2>9. QED
    BY <2>3, <2>5, <2>6, <2>8 DEF a, c
<1>6. Good(n)
  <2> DEFINE U == {k \in Nat : m + k <= n => Good(m + k)}
  <2> HIDE DEF Good
  <2>1. 0 \in U
    BY <1>1, <1>4
  <2>2. ASSUME NEW k \in U PROVE k + 1 \in U
    <3>1. k \in Nat /\ (m + k <= n => Good(m + k))
      OBVIOUS
    <3>2. ASSUME m + (k + 1) <= n PROVE Good(m + (k + 1))
      <4>1. m + k \in m .. n - 1 /\ (m + k) + 1 = m + (k + 1) /\ m + k <= n
        BY <1>1, <3>1, <3>2
      <4>2. Good((m + k) + 1)
        BY <1>5, <3>1, <4>1
      <4>3. QED
        BY <4>1, <4>2
    <3>3. QED
      BY <3>1, <3>2
  <2>3. U \in SUBSET Nat
    OBVIOUS
  <2> HIDE DEF U
  <2>4. U = Nat
    BY <2>1, <2>2, <2>3, BytesFold!SetInduction
  <2>5. n - m \in U /\ m + (n - m) = n
    BY <1>1, <2>4
  <2>6. QED
    BY <1>1, <2>5 DEF U
<1>7. Pre(n) = lines /\ n \in m .. n
  BY <1>1, SubSeqFull
<1>8. Chosen(Pre(n), K) = Chosen(Pre(m), K) \o SubSeq(lines, m + 1, n)
  BY <1>6, <1>7
<1>9. QED
  BY <1>7, <1>8

\* The lines whose text is in a set.
Picked(lines, S) == Chosen(lines, {i \in DOMAIN lines : lines[i].text \in S})

\* What is picked of no line, and of a line more.
LEMMA PickedStep ==
    /\ \A S : Picked(<<>>, S) = <<>>
    /\ \A lines \in Seq(Line) : \A S : Picked(lines, S) \in Seq(Line)
    /\ \A lines \in Seq(Line), x \in Line : \A S :
          Picked(Append(lines, x), S) =
              Picked(lines, S) \o IF x.text \in S THEN <<x>> ELSE <<>>
<1>1. ASSUME NEW lines \in Seq(Line), NEW x \in Line, NEW S
      PROVE  Picked(Append(lines, x), S) =
                Picked(lines, S) \o IF x.text \in S THEN <<x>> ELSE <<>>
  <2> DEFINE n == Len(lines)
             p == Append(lines, x)
             K == {i \in DOMAIN lines : lines[i].text \in S}
             M == {i \in DOMAIN p : p[i].text \in S}
  <2>1. /\ n \in Nat /\ DOMAIN p = 1 .. n + 1 /\ DOMAIN lines = 1 .. n
        /\ p[n + 1] = x /\ \A i \in 1 .. n : p[i] = lines[i]
    OBVIOUS
  <2>2. \A i \in 1 .. n : i \in 1 .. n + 1
    BY <2>1
  <2>3. \A i \in 1 .. n : i \in K <=> i \in M
    BY <2>1, <2>2
  <2>4. n + 1 \in M <=> x.text \in S
    BY <2>1
  <2> HIDE DEF K, M
  <2>5. Chosen(lines, K) = Chosen(lines, M)
    BY <2>3, ChosenSame
  <2>6. Chosen(p, M) = Chosen(lines, M) \o IF n + 1 \in M THEN <<x>> ELSE <<>>
    BY ChosenStep
  <2>7. QED
    BY <2>4, <2>5, <2>6 DEF Picked, K, M
<1>2. \A S : Picked(<<>>, S) = <<>>
  BY ChosenStep DEF Picked
<1>3. \A lines \in Seq(Line) : \A S : Picked(lines, S) \in Seq(Line)
  BY ChosenStep DEF Picked
<1>4. QED
  BY <1>1, <1>2, <1>3

\* What is picked of a line more, for one stream and one set.
LEMMA PickedAppend ==
    ASSUME NEW lines \in Seq(Line), NEW x \in Line, NEW S
    PROVE  /\ x.text \in S =>
                 Picked(Append(lines, x), S) = Append(Picked(lines, S), x)
           /\ x.text \notin S =>
                 Picked(Append(lines, x), S) = Picked(lines, S)
<1> DEFINE p == Picked(lines, S)
           y == IF x.text \in S THEN <<x>> ELSE <<>>
<1>1. p \in Seq(Line) /\ Picked(Append(lines, x), S) = p \o y
  BY PickedStep
<1> HIDE DEF p
<1>2. x.text \in S => p \o y = Append(p, x)
  BY <1>1, LinesJoin
<1>3. x.text \notin S => p \o y = p
  BY <1>1, LinesJoin
<1>4. QED
  BY <1>1, <1>2, <1>3 DEF p

\* What is picked twice is picked once.
LEMMA PickedTwice ==
    ASSUME NEW lines \in Seq(Line), NEW S, NEW U
    PROVE  Picked(Picked(lines, S), U) = Picked(lines, S \cap U)
<1> DEFINE Good(t) == Picked(Picked(t, S), U) = Picked(t, S \cap U)
<1>1. Good(<<>>)
  BY PickedStep
<1>2. ASSUME NEW t \in Seq(Line), Good(t), NEW x \in Line
      PROVE  Good(Append(t, x))
  <2> DEFINE a == Picked(t, S)
  <2>1. a \in Seq(Line)
    BY PickedStep
  <2>2. Picked(a, U) = Picked(t, S \cap U)
    BY <1>2
  <2> HIDE DEF a, Good
  <2>3. CASE x.text \in S /\ x.text \in U
    <3>1. x.text \in S \cap U
      BY <2>3
    <3>2. /\ Picked(Append(t, x), S) = Append(a, x)
          /\ Picked(Append(a, x), U) = Append(Picked(a, U), x)
          /\ Picked(Append(t, x), S \cap U) = Append(Picked(t, S \cap U), x)
      BY <2>1, <2>3, <3>1, PickedAppend DEF a
    <3>3. QED
      BY <2>2, <3>2 DEF Good
  <2>4. CASE x.text \in S /\ x.text \notin U
    <3>1. x.text \notin S \cap U
      BY <2>4
    <3>2. /\ Picked(Append(t, x), S) = Append(a, x)
          /\ Picked(Append(a, x), U) = Picked(a, U)
          /\ Picked(Append(t, x), S \cap U) = Picked(t, S \cap U)
      BY <2>1, <2>4, <3>1, PickedAppend DEF a
    <3>3. QED
      BY <2>2, <3>2 DEF Good
  <2>5. CASE x.text \notin S
    <3>1. x.text \notin S \cap U
      BY <2>5
    <3>2. /\ Picked(Append(t, x), S) = a
          /\ Picked(Append(t, x), S \cap U) = Picked(t, S \cap U)
      BY <2>5, <3>1, PickedAppend DEF a
    <3>3. QED
      BY <2>2, <3>2 DEF Good
  <2>6. QED
    BY <2>3, <2>4, <2>5
<1>3. QED
  <2> DEFINE T == {t \in Seq(Line) : Good(t)}
  <2> HIDE DEF Good
  <2>1. <<>> \in T /\ T \in SUBSET Seq(Line)
    BY <1>1, LinesJoin
  <2>2. \A t \in T, x \in Line : Append(t, x) \in T
    BY <1>2, LinesJoin
  <2> HIDE DEF T
  <2>3. T = Seq(Line)
    BY <2>1, <2>2, BytesFold!SeqInduction
  <2>4. QED
    BY <2>3 DEF T, Good

-----------------------------------------------------------------------------
\* Whatever holds of a stage and its output before the first line, and of
\* every stage and output a line later, holds after any stream.
LEMMA StreamInduction ==
    ASSUME NEW s \in Live, NEW F,
           Emit(s, <<>>) \in F[<<>>],
           \A t \in Seq(Line), x \in Line : \A p \in [stage: Live, out: Seq(Line)] :
              p \in F[t] =>
                 Emit(Step(p.stage, x).stage, p.out \o Step(p.stage, x).out)
                    \in F[Append(t, x)],
           NEW lines \in Seq(Line)
    PROVE  StepAll(s, lines) \in F[lines]
<1> DEFINE Good(t) == StepAll(s, t) \in F[t]
<1>1. Good(<<>>)
  BY StepAllEmpty
<1>2. ASSUME NEW t \in Seq(Line), Good(t), NEW x \in Line
      PROVE  Good(Append(t, x))
  <2> DEFINE p == StepAll(s, t)
  <2>1. p \in [stage: Live, out: Seq(Line)]
    BY StepAllOutcome DEF Outcome
  <2>2. StepAll(s, Append(t, x))
          = Emit(Step(p.stage, x).stage, p.out \o Step(p.stage, x).out)
    BY StepAllAppend
  <2>3. p \in F[t]
    BY <1>2
  <2> HIDE DEF p
  <2>4. Emit(Step(p.stage, x).stage, p.out \o Step(p.stage, x).out)
          \in F[Append(t, x)]
    BY <2>1, <2>3
  <2>5. QED
    BY <2>2, <2>4
<1>3. QED
  <2> DEFINE T == {t \in Seq(Line) : Good(t)}
  <2> HIDE DEF Good
  <2>1. <<>> \in T /\ T \in SUBSET Seq(Line)
    BY <1>1, LinesJoin
  <2>2. \A t \in T, x \in Line : Append(t, x) \in T
    BY <1>2, LinesJoin
  <2> HIDE DEF T
  <2>3. T = Seq(Line)
    BY <2>1, <2>2, BytesFold!SeqInduction
  <2>4. QED
    BY <2>3 DEF T, Good

-----------------------------------------------------------------------------
\* A stage without a state of its own, that owes nothing at the end, makes of
\* the stream what it makes of each line in turn.
LEMMA Stateless ==
    ASSUME NEW s \in Live, NEW G,
           G[<<>>] = <<>>, \A t \in Seq(Line) : G[t] \in Seq(Line),
           \A t \in Seq(Line), x \in Line :
              Step(s, x).stage = s /\ G[Append(t, x)] = G[t] \o Step(s, x).out,
           Flush(s).out = <<>>,
           NEW lines \in Seq(Line)
    PROVE  Whole(s, lines) = G[lines]
<1> DEFINE F == [t \in Seq(Line) |-> {Emit(s, G[t])}]
<1>1. \A t \in Seq(Line) : F[t] = {Emit(s, G[t])}
  OBVIOUS
<1> HIDE DEF F
<1>2. Emit(s, <<>>) \in F[<<>>]
  <2>1. F[<<>>] = {Emit(s, G[<<>>])}
    BY <1>1, LinesJoin
  <2>2. QED
    BY <2>1
<1>3. ASSUME NEW t \in Seq(Line), NEW x \in Line,
             NEW p \in [stage: Live, out: Seq(Line)], p \in F[t]
      PROVE  Emit(Step(p.stage, x).stage, p.out \o Step(p.stage, x).out)
               \in F[Append(t, x)]
  <2>1. p = Emit(s, G[t])
    BY <1>1, <1>3
  <2>2. p.stage = s /\ p.out = G[t]
    BY <2>1 DEF Emit
  <2>3. F[Append(t, x)] = {Emit(s, G[Append(t, x)])}
    BY <1>1, LineAdded
  <2>4. Step(s, x).stage = s /\ G[Append(t, x)] = G[t] \o Step(s, x).out
    OBVIOUS
  <2>5. QED
    BY <2>2, <2>3, <2>4
<1>4. StepAll(s, lines) \in F[lines]
  BY <1>2, <1>3, StreamInduction
<1>5. StepAll(s, lines) = Emit(s, G[lines])
  BY <1>1, <1>4
<1>6. G[lines] \o <<>> = G[lines]
  BY LinesJoin
<1>7. StepAll(s, lines).stage = s /\ StepAll(s, lines).out = G[lines]
  BY <1>5 DEF Emit
<1>8. Whole(s, lines) = G[lines] \o <<>>
  BY <1>7 DEF Whole
<1>9. QED
  BY <1>6, <1>8

\* A stream with each line rewritten, and a line more.
Mapped(lines, f) == [p \in DOMAIN lines |-> Rewritten(lines[p], f)]

\* One line more of a stream rewritten line by line: the new line, rewritten,
\* comes after the others.
LEMMA MappedStep ==
    ASSUME NEW lines \in Seq(Line), NEW x \in Line, NEW f \in [Text -> Text]
    PROVE  /\ Mapped(<<>>, f) = <<>>
           /\ Mapped(lines, f) \in Seq(Line)
           /\ Mapped(Append(lines, x), f) = Mapped(lines, f) \o <<Rewritten(x, f)>>
<1> DEFINE n == Len(lines)
           p == Append(lines, x)
           y == Rewritten(x, f)
           a == Mapped(lines, f)
           b == Mapped(p, f)
           c == Append(a, y)
<1>1. /\ n \in Nat /\ p \in Seq(Line) /\ Len(p) = n + 1 /\ p[n + 1] = x
      /\ DOMAIN p = 1 .. n + 1 /\ DOMAIN lines = 1 .. n
      /\ \A i \in 1 .. n : p[i] = lines[i]
  OBVIOUS
<1>2. \A q \in Seq(Line) : Mapped(q, f) \in Seq(Line) /\ Len(Mapped(q, f)) = Len(q)
  <2>1. SUFFICES ASSUME NEW q \in Seq(Line)
                 PROVE  Mapped(q, f) \in Seq(Line) /\ Len(Mapped(q, f)) = Len(q)
    OBVIOUS
  <2> DEFINE e(i) == Rewritten(q[i], f)
  <2>2. DOMAIN q = 1 .. Len(q) /\ Len(q) \in Nat
    OBVIOUS
  <2>3. \A i \in 1 .. Len(q) : e(i) \in Line
    BY RewrittenType
  <2>4. Mapped(q, f) = [i \in 1 .. Len(q) |-> e(i)]
    BY <2>2 DEF Mapped
  <2> HIDE DEF e
  <2>5. QED
    BY <2>2, <2>3, <2>4
<1>3. y \in Line
  BY RewrittenType
<1>4. \A i \in 1 .. n : a[i] = Rewritten(lines[i], f)
  BY <1>1 DEF Mapped
<1>5. \A i \in 1 .. n + 1 : b[i] = Rewritten(p[i], f)
  BY <1>1 DEF Mapped
<1>6. a \in Seq(Line) /\ Len(a) = n /\ b \in Seq(Line) /\ Len(b) = n + 1
  BY <1>1, <1>2
<1> HIDE DEF a, b, p
<1>7. b[n + 1] = y /\ \A i \in 1 .. n : b[i] = a[i]
  <2> HIDE DEF n
  <2>1. n + 1 \in 1 .. n + 1 /\ \A i \in 1 .. n : i \in 1 .. n + 1
    BY <1>1
  <2>2. b[n + 1] = y
    BY <1>1, <1>5, <2>1
  <2>3. \A i \in 1 .. n : b[i] = a[i]
    BY <1>1, <1>4, <1>5, <2>1
  <2>4. QED
    BY <2>2, <2>3
<1> HIDE DEF y
<1>8. /\ c \in Seq(Line) /\ Len(c) = n + 1 /\ c[n + 1] = y
      /\ \A i \in 1 .. n : c[i] = a[i]
  BY <1>3, <1>6
<1> HIDE DEF c, n
<1>9. b = c
  <2>1. \A i \in 1 .. n + 1 : i \in 1 .. n \/ i = n + 1
    BY <1>1
  <2>2. Len(b) = Len(c) /\ \A i \in 1 .. Len(b) : b[i] = c[i]
    BY <1>6, <1>7, <1>8, <2>1
  <2>3. QED
    BY <1>6, <1>8, <2>2, SeqEqual
<1>10. c = a \o <<y>>
  BY <1>3, <1>6, LinesJoin DEF c
<1>11. Mapped(<<>>, f) = <<>>
  BY DEF Mapped
<1>12. QED
  BY <1>6, <1>9, <1>10, <1>11 DEF a, b, p, y

\* There is a line.
LEMMA SomeLine == \E x : x \in Line
<1>1. [text |-> "collapsed", count |-> 0] \in Line
  BY DEF Line, Marker
<1>2. QED
  BY <1>1

\* A stage that rewrites each line.
LEMMA WholeMapped ==
    ASSUME NEW s \in Live, NEW f \in [Text -> Text], NEW lines \in Seq(Line),
           \A x \in Line : Step(s, x) = Emit(s, <<Rewritten(x, f)>>),
           Flush(s) = Emit(s, <<>>)
    PROVE  Whole(s, lines) = Mapped(lines, f)
<1> DEFINE G == [t \in Seq(Line) |-> Mapped(t, f)]
<1>1. \A t \in Seq(Line) : G[t] = Mapped(t, f)
  OBVIOUS
<1> HIDE DEF G
<1>2. PICK x0 \in Line : TRUE
  BY SomeLine
<1>3. \A t \in Seq(Line) : Mapped(t, f) \in Seq(Line)
  BY <1>2, MappedStep
<1>4. G[<<>>] = <<>>
  BY <1>1, <1>2, LinesJoin, MappedStep
<1>5. ASSUME NEW t \in Seq(Line), NEW x \in Line
      PROVE  Step(s, x).stage = s /\ G[Append(t, x)] = G[t] \o Step(s, x).out
  <2>1. Step(s, x).stage = s /\ Step(s, x).out = <<Rewritten(x, f)>>
    BY DEF Emit
  <2>2. Mapped(Append(t, x), f) = Mapped(t, f) \o <<Rewritten(x, f)>>
    BY MappedStep
  <2>3. G[Append(t, x)] = Mapped(Append(t, x), f)
    BY <1>1, LinesJoin
  <2>4. G[t] = Mapped(t, f)
    BY <1>1
  <2>5. QED
    BY <2>1, <2>2, <2>3, <2>4
<1>6. Flush(s).out = <<>>
  BY DEF Emit
<1>7. \A t \in Seq(Line) : G[t] \in Seq(Line)
  BY <1>1, <1>3
<1>8. Whole(s, lines) = G[lines]
  BY <1>4, <1>5, <1>6, <1>7, Stateless
<1>9. QED
  BY <1>1, <1>8

\* A stage that lets some of the texts through.
LEMMA WholePicked ==
    ASSUME NEW s \in Live, NEW S, NEW lines \in Seq(Line),
           \A x \in Line :
              Step(s, x) = Emit(s, IF x.text \in S THEN <<x>> ELSE <<>>),
           Flush(s) = Emit(s, <<>>)
    PROVE  Whole(s, lines) = Picked(lines, S)
<1> DEFINE G == [t \in Seq(Line) |-> Picked(t, S)]
<1>1. \A t \in Seq(Line) : G[t] = Picked(t, S)
  OBVIOUS
<1> HIDE DEF G
<1>2. \A t \in Seq(Line) : G[t] \in Seq(Line)
  BY <1>1, PickedStep
<1>3. G[<<>>] = <<>>
  BY <1>1, LinesJoin, PickedStep
<1>4. ASSUME NEW t \in Seq(Line), NEW x \in Line
      PROVE  Step(s, x).stage = s /\ G[Append(t, x)] = G[t] \o Step(s, x).out
  <2> DEFINE y == IF x.text \in S THEN <<x>> ELSE <<>>
  <2>1. Step(s, x) = Emit(s, y)
    OBVIOUS
  <2>2. Picked(Append(t, x), S) = Picked(t, S) \o y
    <3>1. \A K : Picked(Append(t, x), K)
                  = Picked(t, K) \o IF x.text \in K THEN <<x>> ELSE <<>>
      BY ONLY t \in Seq(Line), x \in Line, PickedStep
    <3>2. QED
      BY <3>1
  <2> HIDE DEF y
  <2>3. Step(s, x).stage = s /\ Step(s, x).out = y
    BY <2>1 DEF Emit
  <2>4. G[Append(t, x)] = Picked(Append(t, x), S) /\ G[t] = Picked(t, S)
    BY <1>1, LinesJoin
  <2>5. QED
    BY <2>2, <2>3, <2>4
<1>5. Flush(s).out = <<>>
  BY DEF Emit
<1>6. Whole(s, lines) = G[lines]
  BY <1>2, <1>3, <1>4, <1>5, Stateless
<1>7. QED
  BY <1>1, <1>6

\* strip_ansi, replace_regex, drop_regex and keep_regex on a whole stream.
LEMMA WholeStrip ==
    ASSUME NEW s \in StripStage, NEW lines \in Seq(Line)
    PROVE  Whole(s, lines) = Mapped(lines, Plain)
<1>1. s.kind = "StripAnsi" /\ s \in Live
  BY DEF StripStage, Live, Stage, Counted
<1>2. Flush(s) = Emit(s, <<>>)
  BY <1>1 DEF Flush
<1>3. \A x \in Line : Step(s, x) = Emit(s, <<Rewritten(x, Plain)>>)
  BY <1>1 DEF Step, StripAnsiStep
<1>4. QED
  BY <1>1, <1>2, <1>3, TextAssumption, WholeMapped

\* replace_regex on a whole stream rewrites each of its lines.
LEMMA WholeReplace ==
    ASSUME NEW s \in ReplaceStage, NEW lines \in Seq(Line)
    PROVE  Whole(s, lines) = Mapped(lines, s.rewrite)
<1>1. s.kind = "ReplaceRegex" /\ s \in Live /\ s.rewrite \in [Text -> Text]
  BY DEF ReplaceStage, Live, Stage, Counted
<1>2. Flush(s) = Emit(s, <<>>)
  BY <1>1 DEF Flush
<1>3. \A x \in Line : Step(s, x) = Emit(s, <<Rewritten(x, s.rewrite)>>)
  BY <1>1 DEF Step, ReplaceRegexStep
<1>4. QED
  BY <1>1, <1>2, <1>3, WholeMapped

\* drop_regex on a whole stream keeps the lines that do not match.
LEMMA WholeDrop ==
    ASSUME NEW s \in DropStage, NEW lines \in Seq(Line)
    PROVE  Whole(s, lines) = Picked(lines, (Text \cup Marker) \ s.pattern)
<1>1. s.kind = "DropRegex" /\ s \in Live
  BY DEF DropStage, Live, Stage, Counted
<1>2. Flush(s) = Emit(s, <<>>)
  BY <1>1 DEF Flush
<1> DEFINE S == (Text \cup Marker) \ s.pattern
<1>3. ASSUME NEW x \in Line
      PROVE  Step(s, x) = Emit(s, IF x.text \in S THEN <<x>> ELSE <<>>)
  <2>1. x.text \in Text \cup Marker
    BY DEF Line, ToolLine
  <2>2. x.text \in S <=> x.text \notin s.pattern
    BY <2>1
  <2>3. Step(s, x) = Emit(s, IF x.text \in s.pattern THEN <<>> ELSE <<x>>)
    BY <1>1 DEF Step, DropRegexStep
  <2> HIDE DEF S
  <2>4. QED
    BY <2>2, <2>3
<1> HIDE DEF S
<1>4. Whole(s, lines) = Picked(lines, S)
  BY <1>1, <1>2, <1>3, WholePicked
<1>5. QED
  BY <1>4 DEF S

\* keep_regex on a whole stream keeps the lines that match one of its
\* patterns.
LEMMA WholeKeep ==
    ASSUME NEW s \in KeepStage, NEW lines \in Seq(Line)
    PROVE  Whole(s, lines) = Picked(lines, UNION s.patterns)
<1>1. s.kind = "KeepRegex" /\ s \in Live
  BY DEF KeepStage, Live, Stage, Counted
<1>2. Flush(s) = Emit(s, <<>>)
  BY <1>1 DEF Flush
<1> DEFINE S == UNION s.patterns
<1>3. ASSUME NEW x \in Line
      PROVE  Step(s, x) = Emit(s, IF x.text \in S THEN <<x>> ELSE <<>>)
  <2>1. x.text \in S <=> \E p \in s.patterns : x.text \in p
    OBVIOUS
  <2>2. Step(s, x)
          = Emit(s, IF \E p \in s.patterns : x.text \in p THEN <<x>> ELSE <<>>)
    BY <1>1 DEF Step, KeepRegexStep
  <2> HIDE DEF S
  <2>3. QED
    BY <2>1, <2>2
<1> HIDE DEF S
<1>4. Whole(s, lines) = Picked(lines, S)
  BY <1>1, <1>2, <1>3, WholePicked
<1>5. QED
  BY <1>4 DEF S

-----------------------------------------------------------------------------
\* Max finds the largest of a set that has one.
LEMMA MaxIs ==
    ASSUME NEW S, NEW h \in S, S \subseteq Int, \A y \in S : h >= y
    PROVE  Max(S) = h
<1>1. Max(S) \in S /\ \A y \in S : Max(S) >= y
  BY DEF Max
<1>2. Max(S) >= h /\ h >= Max(S) /\ Max(S) \in Int /\ h \in Int
  BY <1>1
<1>3. QED
  BY <1>2

\* How long a run of members of S ends at position i.
IsRun(i, S, h) ==
    /\ h \in 0 .. i
    /\ \A j \in i - h + 1 .. i : j \in S
    /\ h < i => i - h \notin S

Runs(i, S) == {0} \cup {k \in 1 .. i : \A j \in i - k + 1 .. i : j \in S}

RunMax(i, S) == Max(Runs(i, S))

\* RunMax finds it.
LEMMA RunIs ==
    ASSUME NEW i \in Nat, NEW S, NEW h, IsRun(i, S, h)
    PROVE  RunMax(i, S) = h
<1>1. h \in 0 .. i /\ h \in Nat /\ \A j \in i - h + 1 .. i : j \in S
  BY DEF IsRun
<1>2. h \in Runs(i, S)
  <2>1. h = 0 \/ h \in 1 .. i
    BY <1>1
  <2>2. QED
    BY <1>1, <2>1 DEF Runs
<1>3. ASSUME NEW y \in Runs(i, S) PROVE h >= y /\ y \in Int
  <2>1. CASE y = 0
    BY <1>1, <2>1
  <2>2. CASE y \in 1 .. i /\ \A j \in i - y + 1 .. i : j \in S
    <3>1. y \in Nat /\ y <= i
      BY <2>2
    <3>2. ASSUME h < y PROVE FALSE
      <4>1. h < i /\ i - h \in i - y + 1 .. i
        BY <1>1, <3>1, <3>2
      <4>2. i - h \in S
        BY <2>2, <4>1
      <4>3. QED
        BY <4>1, <4>2 DEF IsRun
    <3>3. QED
      BY <1>1, <3>1, <3>2
  <2>3. QED
    BY <1>3, <2>1, <2>2 DEF Runs
<1>4. QED
  BY <1>2, <1>3, MaxIs DEF RunMax

\* A run goes on or breaks off.
LEMMA RunOn ==
    ASSUME NEW i \in Nat, NEW S, NEW h, IsRun(i, S, h)
    PROVE  IsRun(i + 1, S, IF i + 1 \in S THEN h + 1 ELSE 0)
<1>1. h \in 0 .. i /\ h \in Nat /\ \A j \in i - h + 1 .. i : j \in S
  BY DEF IsRun
<1>2. h < i => i - h \notin S
  BY DEF IsRun
<1>3. CASE i + 1 \in S
  <2>1. h + 1 \in 0 .. i + 1
    BY <1>1
  <2>2. \A j \in (i + 1) - (h + 1) + 1 .. i + 1 : j \in i - h + 1 .. i \/ j = i + 1
    BY <1>1
  <2>3. \A j \in (i + 1) - (h + 1) + 1 .. i + 1 : j \in S
    BY <1>1, <1>3, <2>2
  <2>4. h + 1 < i + 1 => (i + 1) - (h + 1) \notin S
    <3>1. (i + 1) - (h + 1) = i - h
      BY <1>1
    <3>2. QED
      BY <1>1, <1>2, <3>1
  <2>5. IsRun(i + 1, S, h + 1)
    BY <2>1, <2>3, <2>4 DEF IsRun
  <2>6. QED
    BY <1>3, <2>5
<1>4. CASE i + 1 \notin S
  <2>1. 0 \in 0 .. i + 1 /\ (i + 1) - 0 + 1 .. i + 1 = {}
    BY <1>1
  <2>2. (i + 1) - 0 = i + 1
    OBVIOUS
  <2>3. IsRun(i + 1, S, 0)
    BY <1>4, <2>1, <2>2 DEF IsRun
  <2>4. QED
    BY <1>4, <2>3
<1>5. QED
  BY <1>3, <1>4

\* Every position ends a run, of no member perhaps, and RunMax is its length:
\* one more than at the position before, or none.
LEMMA RunStep ==
    ASSUME NEW S
    PROVE  /\ RunMax(0, S) = 0
           /\ \A i \in Nat :
                 /\ RunMax(i, S) \in 0 .. i
                 /\ IsRun(i, S, RunMax(i, S))
                 /\ RunMax(i + 1, S)
                      = IF i + 1 \in S THEN RunMax(i, S) + 1 ELSE 0
<1> DEFINE Good(i) == IsRun(i, S, RunMax(i, S))
<1>1. Good(0) /\ RunMax(0, S) = 0
  <2>1. 0 \in 0 .. 0 /\ 0 - 0 + 1 .. 0 = {} /\ ~(0 < 0)
    OBVIOUS
  <2>2. IsRun(0, S, 0)
    BY <2>1 DEF IsRun
  <2>3. RunMax(0, S) = 0
    BY <2>2, RunIs
  <2>4. QED
    BY <2>2, <2>3
<1>2. ASSUME NEW i \in Nat, Good(i)
      PROVE  /\ Good(i + 1)
             /\ RunMax(i + 1, S) = IF i + 1 \in S THEN RunMax(i, S) + 1 ELSE 0
  <2> DEFINE h == IF i + 1 \in S THEN RunMax(i, S) + 1 ELSE 0
  <2>1. IsRun(i + 1, S, h)
    BY <1>2, RunOn
  <2> HIDE DEF h
  <2>2. RunMax(i + 1, S) = h
    BY <2>1, RunIs
  <2>3. QED
    BY <2>1, <2>2 DEF h
<1>3. \A i \in Nat : Good(i)
  <2> DEFINE T == {i \in Nat : Good(i)}
  <2> HIDE DEF Good
  <2>1. 0 \in T /\ T \in SUBSET Nat /\ \A i \in T : i + 1 \in T
    BY <1>1, <1>2
  <2> HIDE DEF T
  <2>2. T = Nat
    BY <2>1, BytesFold!SetInduction
  <2>3. QED
    BY <2>2 DEF T
<1>4. \A i \in Nat : RunMax(i, S) \in 0 .. i
  BY <1>3 DEF IsRun
<1>5. QED
  BY <1>1, <1>2, <1>3, <1>4

\* A run depends on the positions it can reach only.
LEMMA RunSame ==
    ASSUME NEW i \in Nat, NEW S, NEW U, \A j \in 1 .. i : j \in S <=> j \in U
    PROVE  RunMax(i, S) = RunMax(i, U)
<1>1. \A k \in 1 .. i : \A j \in i - k + 1 .. i : j \in 1 .. i
  OBVIOUS
<1>2. Runs(i, S) = Runs(i, U)
  BY <1>1 DEF Runs
<1>3. QED
  BY <1>2 DEF RunMax

\* A stage and what it has emitted.
Progress == [stage: Live, out: Seq(Line)]

\* The same, for a relation of the stream to the stage and its output.
LEMMA StreamRelation ==
    ASSUME NEW s \in Live, NEW F,
           Emit(s, <<>>) \in F[<<>>],
           \A t \in Seq(Line), x \in Line, p \in Progress, q \in Progress :
              /\ p \in F[t]
              /\ q.stage = Step(p.stage, x).stage
              /\ q.out = p.out \o Step(p.stage, x).out
              => q \in F[Append(t, x)],
           NEW lines \in Seq(Line)
    PROVE  StepAll(s, lines) \in F[lines] /\ StepAll(s, lines) \in Progress
<1>1. ASSUME NEW t \in Seq(Line), NEW x \in Line, NEW p \in Progress, p \in F[t]
      PROVE  Emit(Step(p.stage, x).stage, p.out \o Step(p.stage, x).out)
               \in F[Append(t, x)]
  <2> DEFINE r == Step(p.stage, x)
             q == Emit(r.stage, p.out \o r.out)
  <2>1. p.stage \in Live /\ p.out \in Seq(Line)
    BY DEF Progress
  <2>2. r.stage \in Live /\ r.out \in Seq(Line)
    BY <2>1, StepOutcome DEF Outcome
  <2>3. p.out \o r.out \in Seq(Line)
    BY <2>1, <2>2, LinesJoin
  <2> HIDE DEF r
  <2>4. q.stage = r.stage /\ q.out = p.out \o r.out /\ q \in Progress
    BY <2>2, <2>3 DEF Emit, Progress
  <2> HIDE DEF q
  <2>5. q \in F[Append(t, x)]
    BY <1>1, <2>4 DEF r
  <2>6. QED
    BY <2>5 DEF q, r
<1>2. StepAll(s, lines) \in F[lines]
  BY <1>1, StreamInduction DEF Progress
<1>3. QED
  BY <1>2, StepAllOutcome DEF Outcome, Progress

-----------------------------------------------------------------------------
\* The positions of a line in a stream, and how many copies of the line at
\* position p stand up to p without a break.
Same(lines, x) == {j \in DOMAIN lines : lines[j] = x}

Copies(lines, p) == RunMax(p, Same(lines, lines[p]))

DedupeKeeps(lines, max_kept) ==
    {p \in DOMAIN lines : Copies(lines, p) = 1 \/ Copies(lines, p) <= max_kept}

\* A line more changes no count before it; it counts one more than its
\* predecessor when it is a copy of it, and one otherwise.
LEMMA CopiesStep ==
    ASSUME NEW t \in Seq(Line), NEW x \in Line
    PROVE  LET n == Len(t)
               p == Append(t, x)
           IN  /\ \A i \in 1 .. n : Copies(p, i) = Copies(t, i)
                                    /\ Copies(t, i) \in 1 .. n
               /\ n = 0 \/ t[n] # x => Copies(p, n + 1) = 1
               /\ n # 0 /\ t[n] = x => Copies(p, n + 1) = Copies(t, n) + 1
<1> DEFINE n == Len(t)
           p == Append(t, x)
<1>1. /\ n \in Nat /\ DOMAIN p = 1 .. n + 1 /\ DOMAIN t = 1 .. n /\ p[n + 1] = x
      /\ \A i \in 1 .. n : p[i] = t[i]
  OBVIOUS
<1> HIDE DEF n, p
<1>2. \A i \in 1 .. n : i \in 1 .. n + 1
  BY <1>1
<1>3. \A y : \A i \in 1 .. n : i \in Same(p, y) <=> i \in Same(t, y)
  BY <1>1, <1>2 DEF Same
<1>4. ASSUME NEW i \in 1 .. n
      PROVE  Copies(p, i) = Copies(t, i) /\ Copies(t, i) \in 1 .. n
  <2>0. PICK k \in Nat : k + 1 = i
    <3>1. i - 1 \in Nat /\ (i - 1) + 1 = i
      BY <1>1
    <3>2. QED
      BY <3>1
  <2>1. i \in Nat /\ \A j \in 1 .. i : j \in 1 .. n
    BY <1>1
  <2>2. RunMax(i, Same(p, t[i])) = RunMax(i, Same(t, t[i]))
    BY <1>3, <2>1, RunSame
  <2>3. i \in Same(t, t[i])
    BY <1>1 DEF Same
  <2>4. RunMax(k + 1, Same(t, t[i])) = RunMax(k, Same(t, t[i])) + 1
    BY <2>0, <2>3, RunStep
  <2>5. RunMax(k, Same(t, t[i])) \in 0 .. k
    BY <2>0, RunStep
  <2>6. RunMax(i, Same(t, t[i])) \in 1 .. n
    BY <1>1, <2>0, <2>4, <2>5
  <2>7. QED
    BY <1>1, <2>2, <2>6 DEF Copies
<1>5. Copies(p, n + 1) = RunMax(n, Same(t, x)) + 1
  <2>1. n + 1 \in Same(p, x)
    BY <1>1 DEF Same
  <2>2. RunMax(n + 1, Same(p, x)) = RunMax(n, Same(p, x)) + 1
    BY <1>1, <2>1, RunStep
  <2>3. RunMax(n, Same(p, x)) = RunMax(n, Same(t, x))
    BY <1>1, <1>3, RunSame
  <2>4. QED
    BY <1>1, <2>2, <2>3 DEF Copies
<1>6. ASSUME n = 0 \/ t[n] # x PROVE RunMax(n, Same(t, x)) = 0
  <2>1. CASE n = 0
    BY <2>1, RunStep
  <2>2. CASE n # 0
    <3>1. n \notin Same(t, x) /\ (n - 1) + 1 = n /\ n - 1 \in Nat
      BY <1>1, <1>6, <2>2 DEF Same
    <3>2. QED
      BY <3>1, RunStep
  <2>3. QED
    BY <2>1, <2>2
<1>7. n # 0 /\ t[n] = x => RunMax(n, Same(t, x)) = Copies(t, n)
  BY DEF Copies
<1>8. RunMax(n, Same(t, x)) \in Nat
  <2>1. RunMax(n, Same(t, x)) \in 0 .. n
    BY <1>1, RunStep
  <2>2. QED
    BY <1>1, <2>1
<1>9. QED
  BY <1>4, <1>5, <1>6, <1>7, <1>8 DEF n, p

\* Where dedupe is after a stream, and what it has emitted.
DedupeHolds(s, t, p) ==
    LET n == Len(t) IN
    /\ p.stage.kind = "Dedupe" /\ p.stage.max_kept = s.max_kept
    /\ p.out = Chosen(t, DedupeKeeps(t, s.max_kept))
    /\ n = 0 => p.stage.last = <<>>
    /\ n # 0 =>
         /\ p.stage.last = <<t[n]>>
         /\ p.stage.repeat_count
              = Least(Copies(t, n), IF s.max_kept = 0 THEN 1 ELSE s.max_kept)

\* One line more at dedupe.
LEMMA DedupeMore ==
    ASSUME NEW s \in DedupeStage, NEW t \in Seq(Line), NEW x \in Line,
           NEW p \in Progress, NEW q \in Progress, DedupeHolds(s, t, p),
           q.stage = Step(p.stage, x).stage,
           q.out = p.out \o Step(p.stage, x).out
    PROVE  DedupeHolds(s, Append(t, x), q)
<1> DEFINE n == Len(t)
           u == Append(t, x)
           m == s.max_kept
           g == p.stage
           K == DedupeKeeps(t, m)
           M == DedupeKeeps(u, m)
           c == Copies(t, n)
           top == IF m = 0 THEN 1 ELSE m
<1>1. m \in Nat /\ g \in Live /\ p.out \in Seq(Line) /\ g.kind = "Dedupe"
      /\ g.max_kept = m
  BY DEF DedupeStage, Progress, DedupeHolds
<1>2. /\ g.last \in Seq(Line) /\ g.repeat_count \in Nat
      /\ g \in [kind: {"Dedupe"}, max_kept: Nat, last: Seq(Line), repeat_count: Nat]
  BY <1>1, KindDecides DEF Live, DedupeStage
<1>3. /\ n \in Nat /\ u \in Seq(Line) /\ Len(u) = n + 1 /\ u[n + 1] = x
      /\ DOMAIN u = 1 .. n + 1 /\ DOMAIN t = 1 .. n
      /\ \A i \in 1 .. n : u[i] = t[i]
  OBVIOUS
<1>4. /\ \A i \in 1 .. n : Copies(u, i) = Copies(t, i) /\ Copies(t, i) \in 1 .. n
      /\ n = 0 \/ t[n] # x => Copies(u, n + 1) = 1
      /\ n # 0 /\ t[n] = x => Copies(u, n + 1) = c + 1
  BY CopiesStep
<1> HIDE DEF n, u
<1>5. \A i \in 1 .. n : i \in K <=> i \in M
  <2>1. \A i \in 1 .. n : i \in 1 .. n + 1
    BY <1>3
  <2>2. QED
    BY <1>3, <1>4, <2>1 DEF DedupeKeeps
<1>6. n + 1 \in M <=> Copies(u, n + 1) = 1 \/ Copies(u, n + 1) <= m
  BY <1>3 DEF DedupeKeeps
<1> HIDE DEF K, M, c, m, g, top
<1>7. Chosen(u, M) = p.out \o IF n + 1 \in M THEN <<x>> ELSE <<>>
  <2>1. Chosen(t, K) = Chosen(t, M)
    BY <1>5, ChosenSame DEF n
  <2>2. Chosen(u, M) = Chosen(t, M) \o IF n + 1 \in M THEN <<x>> ELSE <<>>
    BY ChosenStep DEF u, n
  <2>3. p.out = Chosen(t, K)
    BY DEF DedupeHolds, K, m
  <2>4. QED
    BY <2>1, <2>2, <2>3
<1>8. Step(g, x) = DedupeStep(g, x)
  BY <1>1 DEF Step
<1>9. /\ n = 0 => g.last = <<>>
      /\ n # 0 => g.last = <<t[n]>> /\ g.repeat_count = Least(c, top)
  BY DEF DedupeHolds, n, c, g, top, m
<1>10. SUFFICES /\ q.stage.kind = "Dedupe" /\ q.stage.max_kept = m
                /\ q.out = Chosen(u, M)
                /\ q.stage.last = <<x>>
                /\ q.stage.repeat_count = Least(Copies(u, n + 1), top)
  BY <1>3 DEF DedupeHolds, u, m, M, top
<1>11. g.last # <<x>> <=> n = 0 \/ t[n] # x
  <2>1. <<>> # <<x>>
    OBVIOUS
  <2>2. \A y : <<y>> = <<x>> <=> y = x
    OBVIOUS
  <2>3. QED
    BY <1>9, <2>1, <2>2
<1>12. top \in Nat /\ top >= 1 /\ top >= m /\ (top = m \/ (m = 0 /\ top = 1))
  BY <1>1 DEF top
<1>13. CASE g.last # <<x>>
  <2> DEFINE h == [g EXCEPT !.last = <<x>>, !.repeat_count = 1]
  <2>1. Step(g, x) = Emit(h, <<x>>)
    BY <1>8, <1>13 DEF DedupeStep
  <2>2. /\ h.kind = "Dedupe" /\ h.max_kept = m /\ h.last = <<x>>
        /\ h.repeat_count = 1
    BY <1>1, <1>2
  <2> HIDE DEF h
  <2>3. q.stage = h /\ q.out = p.out \o <<x>>
    BY <2>1 DEF Emit, g
  <2>4. Copies(u, n + 1) = 1 /\ n + 1 \in M
    BY <1>4, <1>6, <1>11, <1>13
  <2>5. Least(1, top) = 1
    BY <1>12 DEF Least
  <2>6. QED
    BY <1>7, <2>2, <2>3, <2>4, <2>5
<1>14. CASE g.last = <<x>>
  <2>1. n # 0 /\ t[n] = x /\ g.repeat_count = Least(c, top) /\ c \in 1 .. n
    <3>1. n # 0 /\ t[n] = x
      BY <1>11, <1>14
    <3>2. n \in 1 .. n
      BY <1>3, <3>1
    <3>3. QED
      BY <1>4, <1>9, <3>1, <3>2 DEF c
  <2>2. Copies(u, n + 1) = c + 1 /\ c \in Nat /\ c >= 1
    BY <1>3, <1>4, <2>1
  <2>3. CASE g.repeat_count < m
    <3> DEFINE h == [g EXCEPT !.repeat_count = @ + 1]
    <3>1. Step(g, x) = Emit(h, <<x>>)
      BY <1>1, <1>8, <1>14, <2>3 DEF DedupeStep
    <3>2. /\ h.kind = "Dedupe" /\ h.max_kept = m /\ h.last = <<x>>
          /\ h.repeat_count = g.repeat_count + 1
      BY <1>1, <1>2, <1>14
    <3> HIDE DEF h
    <3>3. q.stage = h /\ q.out = p.out \o <<x>>
      BY <3>1 DEF Emit, g
    <3>4. g.repeat_count = c /\ c + 1 <= m /\ Least(c + 1, top) = c + 1
      BY <1>1, <1>12, <2>1, <2>2, <2>3 DEF Least
    <3>5. n + 1 \in M
      BY <1>6, <2>2, <3>4
    <3>6. QED
      BY <1>7, <2>2, <3>2, <3>3, <3>4, <3>5
  <2>4. CASE ~(g.repeat_count < m)
    <3>1. Step(g, x) = Emit(g, <<>>)
      BY <1>1, <1>8, <1>14, <2>4 DEF DedupeStep
    <3>2. q.stage = g /\ q.out = p.out \o <<>>
      BY <3>1 DEF Emit, g
    <3>3. c >= m /\ Least(c + 1, top) = Least(c, top)
      BY <1>1, <1>12, <2>1, <2>2, <2>4 DEF Least
    <3>4. n + 1 \notin M
      BY <1>1, <1>6, <2>2, <3>3
    <3>5. QED
      BY <1>1, <1>7, <1>14, <2>1, <2>2, <3>2, <3>3, <3>4
  <2>5. QED
    BY <2>3, <2>4
<1>15. QED
  BY <1>13, <1>14

\* dedupe on a whole stream keeps the first copies of each run.
LEMMA WholeDedupe ==
    ASSUME NEW s \in DedupeStage, s.last = <<>>, NEW lines \in Seq(Line)
    PROVE  Whole(s, lines) = Chosen(lines, DedupeKeeps(lines, s.max_kept))
<1> DEFINE F == [t \in Seq(Line) |-> {p \in Progress : DedupeHolds(s, t, p)}]
<1>1. \A t \in Seq(Line) : F[t] = {p \in Progress : DedupeHolds(s, t, p)}
  OBVIOUS
<1> HIDE DEF F
<1>2. s.kind = "Dedupe" /\ s \in Live
  BY DEF DedupeStage, Live, Stage, Counted
<1>3. Emit(s, <<>>) \in F[<<>>]
  <2> DEFINE e == Emit(s, <<>>)
  <2>1. e \in Progress /\ e.stage = s /\ e.out = <<>>
    BY <1>2, LinesJoin DEF Progress, Emit
  <2>2. Len(<<>>) = 0
    OBVIOUS
  <2> HIDE DEF e
  <2>3. DedupeHolds(s, <<>>, e)
    BY <1>2, <2>1, <2>2, ChosenStep DEF DedupeHolds
  <2>4. F[<<>>] = {p \in Progress : DedupeHolds(s, <<>>, p)}
    BY <1>1, LinesJoin
  <2>5. QED
    BY <2>1, <2>3, <2>4 DEF e
<1>4. ASSUME NEW t \in Seq(Line), NEW x \in Line, NEW p \in Progress,
             NEW q \in Progress, p \in F[t],
             q.stage = Step(p.stage, x).stage,
             q.out = p.out \o Step(p.stage, x).out
      PROVE  q \in F[Append(t, x)]
  <2>1. DedupeHolds(s, t, p)
    BY <1>1, <1>4
  <2>2. DedupeHolds(s, Append(t, x), q)
    BY <1>4, <2>1, DedupeMore
  <2>3. F[Append(t, x)] = {y \in Progress : DedupeHolds(s, Append(t, x), y)}
    BY <1>1, LineAdded
  <2>4. QED
    BY <2>2, <2>3
<1> DEFINE r == StepAll(s, lines)
<1>5. r \in F[lines] /\ r \in Progress
  BY <1>2, <1>3, <1>4, StreamRelation
<1> HIDE DEF r
<1>6. DedupeHolds(s, lines, r)
  BY <1>1, <1>5
<1>7. r.stage.kind = "Dedupe" /\ r.out = Chosen(lines, DedupeKeeps(lines, s.max_kept))
  BY <1>6 DEF DedupeHolds
<1>8. Flush(r.stage).out = <<>>
  BY <1>7 DEF Flush, Emit
<1>9. r.out \o <<>> = r.out
  BY <1>5, LinesJoin DEF Progress
<1>10. QED
  BY <1>7, <1>8, <1>9 DEF Whole, r

-----------------------------------------------------------------------------
\* What one line costs of a budget.
CostOf(x, unit) == IF unit = "lines" THEN 1 ELSE Width[x.text]

Units == {"lines", "bytes"}

\* No line costs nothing, a line more costs its own cost more, and what is
\* cut in two costs what its parts cost.
LEMMA CostStep ==
    ASSUME NEW unit \in Units
    PROVE  /\ Cost(<<>>, unit) = 0
           /\ \A t \in Seq(Line) : Cost(t, unit) \in Nat
           /\ \A t \in Seq(Line) : t # <<>> => Cost(t, unit) > 0
           /\ \A x \in Line : CostOf(x, unit) \in Nat \ {0}
           /\ \A t \in Seq(Line), x \in Line :
                 Cost(Append(t, x), unit) = Cost(t, unit) + CostOf(x, unit)
           /\ \A t \in Seq(Line) : \A k \in 0 .. Len(t) :
                 Cost(t, unit) = Cost(SubSeq(t, 1, k), unit)
                                   + Cost(SubSeq(t, k + 1, Len(t)), unit)
<1>1. CASE unit = "lines"
  <2>1. \A t : Cost(t, unit) = Len(t)
    BY <1>1 DEF Cost
  <2>2. \A x : CostOf(x, unit) = 1
    BY <1>1 DEF CostOf
  <2>3. \A t \in Seq(Line) : \A k \in 0 .. Len(t) :
           Len(t) = Len(SubSeq(t, 1, k)) + Len(SubSeq(t, k + 1, Len(t)))
    <3>1. SUFFICES ASSUME NEW t \in Seq(Line), NEW k \in 0 .. Len(t)
                   PROVE  Len(t) = Len(SubSeq(t, 1, k))
                                     + Len(SubSeq(t, k + 1, Len(t)))
      OBVIOUS
    <3>2. Len(t) \in Nat /\ k \in Nat /\ k <= Len(t)
      OBVIOUS
    <3>3. Len(SubSeq(t, 1, k)) = k
      BY <3>2
    <3>4. Len(SubSeq(t, k + 1, Len(t))) = Len(t) - k
      <4>1. k + 1 \in 1 .. Len(t) + 1 /\ Len(t) \in (k + 1) - 1 .. Len(t)
        BY <3>2
      <4>2. Len(SubSeq(t, k + 1, Len(t))) = Len(t) - (k + 1) + 1
        BY <4>1, SubSeqProperties
      <4>3. QED
        BY <3>2, <4>2
    <3> DEFINE n == Len(t)
               a == Len(SubSeq(t, 1, k))
               b == Len(SubSeq(t, k + 1, Len(t)))
    <3>5. n \in Nat /\ k \in Nat /\ a = k /\ b = n - k
      BY <3>2, <3>3, <3>4
    <3> HIDE DEF n, a, b
    <3>6. n = a + b
      BY <3>5
    <3>7. QED
      BY <3>6 DEF n, a, b
  <2>4. /\ Len(<<>>) = 0
        /\ \A t \in Seq(Line) : Len(t) \in Nat
        /\ \A t \in Seq(Line) : t # <<>> => Len(t) > 0
        /\ \A t \in Seq(Line), x \in Line : Len(Append(t, x)) = Len(t) + 1
    OBVIOUS
  <2>5. \A t \in Seq(Line) : t # <<>> => Cost(t, unit) > 0
    BY <2>1, <2>4
  <2>6. \A t \in Seq(Line), x \in Line :
           Cost(Append(t, x), unit) = Cost(t, unit) + CostOf(x, unit)
    BY <2>1, <2>2, <2>4
  <2>7. \A t \in Seq(Line) : \A k \in 0 .. Len(t) :
           Cost(t, unit) = Cost(SubSeq(t, 1, k), unit)
                             + Cost(SubSeq(t, k + 1, Len(t)), unit)
    BY <2>1, <2>3
  <2>8. Cost(<<>>, unit) = 0 /\ \A t \in Seq(Line) : Cost(t, unit) \in Nat
    BY <2>1, <2>4
  <2>9. \A x \in Line : CostOf(x, unit) \in Nat \ {0}
    BY <2>2
  <2>10. QED
    BY <2>5, <2>6, <2>7, <2>8, <2>9
<1>2. CASE unit # "lines"
  <2>1. \A t : Cost(t, unit) = Bytes(t)
    BY <1>2 DEF Cost
  <2>2. \A x : CostOf(x, unit) = Width[x.text]
    BY <1>2 DEF CostOf
  <2>3. ASSUME NEW t \in Seq(Line), t # <<>> PROVE Bytes(t) > 0
    <3> DEFINE b == SubSeq(t, 1, Len(t) - 1)
               y == t[Len(t)]
    <3>1. Len(t) \in 1 .. Len(t) /\ b \in Seq(Line) /\ y \in Line
      BY <2>3
    <3>2. SubSeq(t, 1, Len(t)) = Append(b, y)
      BY <3>1, PrefixAppend
    <3>3. t = Append(b, y)
      BY <3>2, SubSeqFull
    <3> HIDE DEF b, y
    <3>4. Bytes(t) = Bytes(b) + Width[y.text]
      BY <3>1, <3>3, BytesAppend
    <3>5. Bytes(b) \in Nat /\ Width[y.text] \in Nat \ {0}
      BY <3>1, BytesType, WidthType
    <3>6. QED
      BY <3>4, <3>5
  <2>4. \A t \in Seq(Line) : \A k \in 0 .. Len(t) :
           Bytes(t) = Bytes(SubSeq(t, 1, k)) + Bytes(SubSeq(t, k + 1, Len(t)))
    BY BytesSplit
  <2>5. \A t \in Seq(Line), x \in Line :
           Bytes(Append(t, x)) = Bytes(t) + Width[x.text]
    BY BytesAppend
  <2>6. QED
    BY <2>1, <2>2, <2>3, <2>4, <2>5, BytesEmpty, BytesType, WidthType
<1>3. QED
  BY <1>1, <1>2

\* What a line more does to the parts of a stream.
LEMMA PartsAppend ==
    ASSUME NEW t \in Seq(Line), NEW x \in Line
    PROVE  LET n == Len(t)
               u == Append(t, x)
           IN  /\ \A k \in 0 .. n : SubSeq(u, 1, k) = SubSeq(t, 1, k)
               /\ SubSeq(u, 1, n + 1) = u /\ SubSeq(t, 1, n) = t
               /\ \A k \in 0 .. n :
                     SubSeq(u, k + 1, n + 1) = Append(SubSeq(t, k + 1, n), x)
<1> DEFINE n == Len(t)
           u == Append(t, x)
<1>1. /\ n \in Nat /\ u \in Seq(Line) /\ Len(u) = n + 1 /\ u[n + 1] = x
      /\ \A i \in 1 .. n : u[i] = t[i] /\ t[i] \in Line
  OBVIOUS
<1>2. SubSeq(u, 1, n + 1) = u /\ SubSeq(t, 1, n) = t
  BY <1>1, SubSeqFull
<1> HIDE DEF n, u
<1>3. ASSUME NEW k \in 0 .. n PROVE SubSeq(u, 1, k) = SubSeq(t, 1, k)
  <2> DEFINE a == SubSeq(u, 1, k)
             b == SubSeq(t, 1, k)
  <2>1. a \in Seq(Line) /\ Len(a) = k /\ \A i \in 1 .. k : a[i] = u[i]
    BY <1>1
  <2>2. b \in Seq(Line) /\ Len(b) = k /\ \A i \in 1 .. k : b[i] = t[i]
    BY <1>1 DEF n
  <2> HIDE DEF a, b
  <2>3. \A i \in 1 .. k : i \in 1 .. n
    BY <1>1
  <2>4. a = b
    BY <1>1, <2>1, <2>2, <2>3, SeqEqual
  <2>5. QED
    BY <2>4 DEF a, b
<1>4. ASSUME NEW k \in 0 .. n
      PROVE  SubSeq(u, k + 1, n + 1) = Append(SubSeq(t, k + 1, n), x)
  <2> DEFINE a == SubSeq(u, k + 1, n + 1)
             b == SubSeq(t, k + 1, n)
             c == Append(b, x)
  <2>1. /\ a \in Seq(Line) /\ Len(a) = (n - k) + 1
        /\ \A i \in 1 .. (n - k) + 1 : a[i] = u[k + i]
    <3> HIDE DEF n, u
    <3>1. a \in Seq(Line) /\ Len(a) = (n - k) + 1
      BY <1>1
    <3>2. \A i \in 1 .. (n - k) + 1 : a[i] = u[k + i]
      BY <1>1
    <3>3. QED
      BY <3>1, <3>2
  <2>2. /\ b \in Seq(Line) /\ Len(b) = n - k
        /\ \A i \in 1 .. n - k : b[i] = t[k + i]
    BY <1>1 DEF n
  <2> HIDE DEF a, b
  <2>3. /\ c \in Seq(Line) /\ Len(c) = (n - k) + 1 /\ c[(n - k) + 1] = x
        /\ \A i \in 1 .. n - k : c[i] = b[i]
    BY <2>2
  <2> HIDE DEF c
  <2>4. /\ \A i \in 1 .. n - k : k + i \in 1 .. n
        /\ \A i \in 1 .. (n - k) + 1 : i \in 1 .. n - k \/ i = (n - k) + 1
        /\ k + ((n - k) + 1) = n + 1
    BY <1>1
  <2>5. \A i \in 1 .. (n - k) + 1 : a[i] = c[i]
    <3> SUFFICES ASSUME NEW i \in 1 .. (n - k) + 1 PROVE a[i] = c[i]
      OBVIOUS
    <3> HIDE DEF n, u
    <3>1. CASE i \in 1 .. n - k
      <4>1. a[i] = u[k + i] /\ c[i] = t[k + i] /\ k + i \in 1 .. n
        BY <2>1, <2>2, <2>3, <2>4, <3>1
      <4>2. QED
        BY <1>1, <4>1
    <3>2. CASE i = (n - k) + 1
      <4>1. a[i] = u[n + 1] /\ c[i] = x
        BY <2>1, <2>3, <2>4, <3>2
      <4>2. QED
        BY <1>1, <4>1
    <3>3. QED
      BY <2>4, <3>1, <3>2
  <2>6. a = c
    BY <2>1, <2>3, <2>5, SeqEqual
  <2>7. QED
    BY <2>6 DEF a, b, c
<1>5. QED
  BY <1>2, <1>3, <1>4 DEF n, u

-----------------------------------------------------------------------------
\* h is how much of the stream fits a budget.
IsHead(t, unit, n, h) ==
    /\ h \in 0 .. Len(t)
    /\ Cost(SubSeq(t, 1, h), unit) <= n
    /\ h < Len(t) => Cost(SubSeq(t, 1, h + 1), unit) > n

\* A longer prefix costs no less.
LEMMA PrefixCost ==
    ASSUME NEW t \in Seq(Line), NEW unit \in Units,
           NEW k \in 0 .. Len(t), NEW h \in 0 .. k
    PROVE  /\ Cost(SubSeq(t, 1, h), unit) <= Cost(SubSeq(t, 1, k), unit)
           /\ Cost(SubSeq(t, 1, h), unit) \in Nat
           /\ Cost(SubSeq(t, 1, k), unit) \in Nat
<1> DEFINE s == SubSeq(t, 1, k)
           a == SubSeq(s, 1, h)
           b == SubSeq(s, h + 1, Len(s))
           d == SubSeq(t, 1, h)
<1>1. s \in Seq(Line) /\ Len(s) = k /\ \A i \in 1 .. k : s[i] = t[i]
  OBVIOUS
<1>2. d \in Seq(Line) /\ Len(d) = h /\ \A i \in 1 .. h : d[i] = t[i]
  OBVIOUS
<1> HIDE DEF s, d
<1>3. a \in Seq(Line) /\ b \in Seq(Line) /\ Len(a) = h /\ \A i \in 1 .. h : a[i] = s[i]
  BY <1>1
<1>4. Cost(s, unit) = Cost(a, unit) + Cost(b, unit)
  BY <1>1, CostStep
<1> HIDE DEF a, b
<1>5. a = d
  <2>1. \A i \in 1 .. h : i \in 1 .. k
    OBVIOUS
  <2>2. \A i \in 1 .. h : a[i] = d[i]
    BY <1>1, <1>2, <1>3, <2>1
  <2>3. QED
    BY <1>2, <1>3, <2>2, SeqEqual
<1>6. Cost(a, unit) \in Nat /\ Cost(b, unit) \in Nat /\ Cost(s, unit) \in Nat
  BY <1>1, <1>3, CostStep
<1>7. QED
  BY <1>4, <1>5, <1>6 DEF s, d

\* LongestHead finds it.
LEMMA HeadIs ==
    ASSUME NEW t \in Seq(Line), NEW unit \in Units, NEW n \in Nat, NEW h,
           IsHead(t, unit, n, h)
    PROVE  LongestHead(t, unit, n) = h
<1> DEFINE S == {k \in 0 .. Len(t) : Cost(SubSeq(t, 1, k), unit) <= n}
<1>1. h \in S /\ h \in Nat /\ Len(t) \in Nat /\ h <= Len(t)
  BY DEF IsHead
<1>2. ASSUME NEW y \in S PROVE h >= y
  <2>1. y \in 0 .. Len(t) /\ Cost(SubSeq(t, 1, y), unit) <= n
    OBVIOUS
  <2>2. ASSUME h < y PROVE FALSE
    <3>1. h < Len(t) /\ h + 1 \in 0 .. y
      BY <1>1, <2>1, <2>2
    <3>2. Cost(SubSeq(t, 1, h + 1), unit) > n
      BY <3>1 DEF IsHead
    <3>3. /\ Cost(SubSeq(t, 1, h + 1), unit) <= Cost(SubSeq(t, 1, y), unit)
          /\ Cost(SubSeq(t, 1, h + 1), unit) \in Nat
          /\ Cost(SubSeq(t, 1, y), unit) \in Nat
      BY <2>1, <3>1, PrefixCost
    <3>4. QED
      BY <2>1, <3>2, <3>3
  <2>3. QED
    BY <1>1, <2>1, <2>2
<1>3. S \subseteq Int
  OBVIOUS
<1> HIDE DEF S
<1>4. Max(S) = h
  BY <1>1, <1>2, <1>3, MaxIs
<1>5. QED
  BY <1>4 DEF LongestHead, S

\* With a line more, all of it still fits or the head is where it was.
LEMMA HeadOn ==
    ASSUME NEW t \in Seq(Line), NEW unit \in Units, NEW n \in Nat, NEW h,
           IsHead(t, unit, n, h), NEW x \in Line
    PROVE  LET u == Append(t, x)
           IN  /\ h = Len(t) /\ Cost(t, unit) + CostOf(x, unit) <= n
                    => IsHead(u, unit, n, h + 1)
               /\ ~(h = Len(t) /\ Cost(t, unit) + CostOf(x, unit) <= n)
                    => IsHead(u, unit, n, h)
<1> DEFINE m == Len(t)
           u == Append(t, x)
<1>1. m \in Nat /\ Len(u) = m + 1
  OBVIOUS
<1>2. h \in 0 .. m /\ Cost(SubSeq(t, 1, h), unit) <= n
      /\ (h < m => Cost(SubSeq(t, 1, h + 1), unit) > n)
  BY DEF IsHead
<1>3. /\ \A k \in 0 .. m : SubSeq(u, 1, k) = SubSeq(t, 1, k)
      /\ SubSeq(u, 1, m + 1) = u /\ SubSeq(t, 1, m) = t
  BY PartsAppend
<1>4. Cost(u, unit) = Cost(t, unit) + CostOf(x, unit)
  BY CostStep
<1>5. Cost(t, unit) \in Nat /\ CostOf(x, unit) \in Nat
  BY CostStep
<1> HIDE DEF m, u
<1>6. ASSUME h = m, Cost(t, unit) + CostOf(x, unit) <= n
      PROVE  IsHead(u, unit, n, h + 1)
  <2>1. h + 1 \in 0 .. m + 1 /\ ~(h + 1 < m + 1)
    BY <1>1, <1>6
  <2>2. SubSeq(u, 1, h + 1) = u
    BY <1>3, <1>6
  <2>3. QED
    BY <1>1, <1>4, <1>6, <2>1, <2>2 DEF IsHead
<1>7. ASSUME ~(h = m /\ Cost(t, unit) + CostOf(x, unit) <= n)
      PROVE  IsHead(u, unit, n, h)
  <2>1. h \in 0 .. m + 1 /\ SubSeq(u, 1, h) = SubSeq(t, 1, h)
    BY <1>1, <1>2, <1>3
  <2>2. CASE h = m
    <3>1. SubSeq(u, 1, h + 1) = u
      BY <1>3, <2>2
    <3>2. Cost(u, unit) > n
      BY <1>4, <1>5, <1>7, <2>2
    <3>3. QED
      BY <1>1, <1>2, <2>1, <3>1, <3>2 DEF IsHead
  <2>3. CASE h # m
    <3>1. h < m /\ h + 1 \in 0 .. m
      BY <1>1, <1>2, <2>3
    <3>2. SubSeq(u, 1, h + 1) = SubSeq(t, 1, h + 1)
      BY <1>3, <3>1
    <3>3. QED
      BY <1>1, <1>2, <2>1, <3>1, <3>2 DEF IsHead
  <2>4. QED
    BY <2>2, <2>3
<1>8. QED
  BY <1>6, <1>7 DEF m, u

\* Of no line, none fits: that is all.
LEMMA HeadEmpty ==
    ASSUME NEW unit \in Units, NEW n \in Nat
    PROVE  IsHead(<<>>, unit, n, 0)
<1>1. Len(<<>>) = 0 /\ SubSeq(<<>>, 1, 0) = <<>>
  OBVIOUS
<1>2. Cost(<<>>, unit) = 0
  BY CostStep
<1>3. 0 \in 0 .. Len(<<>>) /\ ~(0 < Len(<<>>))
  BY <1>1
<1>4. Cost(SubSeq(<<>>, 1, 0), unit) <= n
  <2> DEFINE e == SubSeq(<<>>, 1, 0)
  <2>1. e = <<>>
    BY <1>1
  <2> HIDE DEF e
  <2>2. Cost(e, unit) = 0
    BY <1>2, <2>1
  <2>3. Cost(e, unit) <= n
    BY <2>2
  <2>4. QED
    BY <2>3 DEF e
<1>5. QED
  BY <1>3, <1>4 DEF IsHead

-----------------------------------------------------------------------------
\* Where keep_head is after a stream, and what it has emitted.
HeadHolds(s, t, p) ==
    \E h \in 0 .. Len(t) :
        /\ IsHead(t, s.unit, s.n, h)
        /\ p.stage.kind = "KeepHead"
        /\ p.stage.unit = s.unit
        /\ p.stage.remaining
             = IF h = Len(t) THEN s.n - Cost(t, s.unit) ELSE 0
        /\ p.out = SubSeq(t, 1, h)

\* One line more at keep_head.
LEMMA HeadMore ==
    ASSUME NEW s \in HeadStage, NEW t \in Seq(Line), NEW x \in Line,
           NEW p \in Progress, NEW q \in Progress, HeadHolds(s, t, p),
           q.stage = Step(p.stage, x).stage,
           q.out = p.out \o Step(p.stage, x).out
    PROVE  HeadHolds(s, Append(t, x), q)
<1> DEFINE m == Len(t)
           u == Append(t, x)
           g == p.stage
           unit == s.unit
           n == s.n
           cost == CostOf(x, unit)
<1>1. n \in Nat /\ unit \in Units /\ g \in Live /\ p.out \in Seq(Line)
  BY DEF HeadStage, Progress, Units
<1>2. PICK h \in 0 .. m :
        /\ IsHead(t, unit, n, h) /\ g.kind = "KeepHead" /\ g.unit = unit
        /\ g.remaining = IF h = m THEN n - Cost(t, unit) ELSE 0
        /\ p.out = SubSeq(t, 1, h)
  BY DEF HeadHolds
<1>3. g \in [kind: {"KeepHead"}, unit: {"lines", "bytes"}, n: Nat, remaining: Nat]
  BY <1>1, <1>2, KindDecides DEF Live, HeadStage
<1>4. m \in Nat /\ Len(u) = m + 1 /\ u \in Seq(Line)
  OBVIOUS
<1>5. /\ \A k \in 0 .. m : SubSeq(u, 1, k) = SubSeq(t, 1, k)
      /\ SubSeq(u, 1, m + 1) = u /\ SubSeq(t, 1, m) = t
  BY PartsAppend
<1> HIDE DEF unit, n
<1>6. /\ h = m /\ Cost(t, unit) + cost <= n => IsHead(u, unit, n, h + 1)
      /\ ~(h = m /\ Cost(t, unit) + cost <= n) => IsHead(u, unit, n, h)
  BY <1>1, <1>2, HeadOn
<1>7. /\ Cost(u, unit) = Cost(t, unit) + cost
      /\ Cost(t, unit) \in Nat /\ cost \in Nat /\ cost > 0
  BY <1>1, CostStep
<1> HIDE DEF m, g
<1>8. Step(g, x) = IF g.remaining >= cost
                   THEN Emit([g EXCEPT !.remaining = @ - cost], <<x>>)
                   ELSE Emit([g EXCEPT !.remaining = 0], <<>>)
  BY <1>2 DEF Step, KeepHeadStep, CostOf
<1> HIDE DEF u, cost
<1>9. SUFFICES \E k \in 0 .. m + 1 :
                 /\ IsHead(u, unit, n, k)
                 /\ q.stage.kind = "KeepHead" /\ q.stage.unit = unit
                 /\ q.stage.remaining
                      = IF k = m + 1 THEN n - Cost(u, unit) ELSE 0
                 /\ q.out = SubSeq(u, 1, k)
  BY <1>4 DEF HeadHolds, u, unit, n
<1>10. CASE h = m /\ Cost(t, unit) + cost <= n
  <2>1. g.remaining >= cost
    BY <1>1, <1>2, <1>7, <1>10
  <2> DEFINE f == [g EXCEPT !.remaining = @ - cost]
  <2>2. f.kind = "KeepHead" /\ f.unit = unit /\ f.remaining = g.remaining - cost
    BY <1>2, <1>3
  <2>3. Step(g, x) = Emit(f, <<x>>)
    BY <1>8, <2>1
  <2> HIDE DEF f
  <2>4. q.stage = f /\ q.out = p.out \o <<x>>
    BY <2>3 DEF Emit, g
  <2>5. q.out = u
    <3>1. p.out = t
      BY <1>2, <1>5, <1>10
    <3>2. t \o <<x>> = Append(t, x)
      BY LinesJoin
    <3>3. QED
      BY <2>4, <3>1, <3>2 DEF u
  <2>6. f.remaining = n - Cost(u, unit)
    BY <1>1, <1>2, <1>7, <1>10, <2>2
  <2>7. m + 1 \in 0 .. m + 1 /\ IsHead(u, unit, n, m + 1)
    BY <1>4, <1>6, <1>10
  <2>8. QED
    BY <1>5, <2>2, <2>4, <2>5, <2>6, <2>7
<1>11. CASE ~(h = m /\ Cost(t, unit) + cost <= n)
  <2>1. ~(g.remaining >= cost)
    BY <1>1, <1>2, <1>7, <1>11
  <2> DEFINE f == [g EXCEPT !.remaining = 0]
  <2>2. f.kind = "KeepHead" /\ f.unit = unit /\ f.remaining = 0
    BY <1>2, <1>3
  <2>3. Step(g, x) = Emit(f, <<>>)
    BY <1>8, <2>1
  <2> HIDE DEF f
  <2>4. q.stage = f /\ q.out = p.out \o <<>>
    BY <2>3 DEF Emit, g
  <2>5. q.out = SubSeq(u, 1, h)
    BY <1>1, <1>2, <1>5, <2>4, LinesJoin
  <2>6. h \in 0 .. m + 1 /\ IsHead(u, unit, n, h) /\ h # m + 1
    BY <1>4, <1>6, <1>11
  <2>7. QED
    BY <2>2, <2>4, <2>5, <2>6
<1>12. QED
  BY <1>10, <1>11

\* keep_head on a whole stream keeps the longest head.
LEMMA WholeHead ==
    ASSUME NEW s \in HeadStage, s.remaining = s.n, NEW lines \in Seq(Line)
    PROVE  Whole(s, lines) = SubSeq(lines, 1, LongestHead(lines, s.unit, s.n))
<1> DEFINE F == [t \in Seq(Line) |-> {p \in Progress : HeadHolds(s, t, p)}]
<1>1. \A t \in Seq(Line) : F[t] = {p \in Progress : HeadHolds(s, t, p)}
  OBVIOUS
<1> HIDE DEF F
<1>2. s.kind = "KeepHead" /\ s \in Live /\ s.unit \in Units /\ s.n \in Nat
  BY DEF HeadStage, Live, Stage, Counted, Units
<1>3. Emit(s, <<>>) \in F[<<>>]
  <2> DEFINE e == Emit(s, <<>>)
  <2>1. e \in Progress /\ e.stage = s /\ e.out = <<>>
    BY <1>2, LinesJoin DEF Progress, Emit
  <2>2. Len(<<>>) = 0 /\ 0 \in 0 .. Len(<<>>) /\ SubSeq(<<>>, 1, 0) = <<>>
    OBVIOUS
  <2>3. Cost(<<>>, s.unit) = 0 /\ s.n - 0 = s.n
    BY <1>2, CostStep
  <2> HIDE DEF e
  <2>4. HeadHolds(s, <<>>, e)
    BY <1>2, <2>1, <2>2, <2>3, HeadEmpty DEF HeadHolds
  <2>5. F[<<>>] = {p \in Progress : HeadHolds(s, <<>>, p)}
    BY <1>1, LinesJoin
  <2>6. QED
    BY <2>1, <2>4, <2>5 DEF e
<1>4. ASSUME NEW t \in Seq(Line), NEW x \in Line, NEW p \in Progress,
             NEW q \in Progress, p \in F[t],
             q.stage = Step(p.stage, x).stage,
             q.out = p.out \o Step(p.stage, x).out
      PROVE  q \in F[Append(t, x)]
  <2>1. HeadHolds(s, t, p)
    BY <1>1, <1>4
  <2>2. HeadHolds(s, Append(t, x), q)
    BY <1>4, <2>1, HeadMore
  <2>3. F[Append(t, x)] = {y \in Progress : HeadHolds(s, Append(t, x), y)}
    BY <1>1, LineAdded
  <2>4. QED
    BY <2>2, <2>3
<1> DEFINE r == StepAll(s, lines)
<1>5. r \in F[lines] /\ r \in Progress
  BY <1>2, <1>3, <1>4, StreamRelation
<1> HIDE DEF r
<1>6. HeadHolds(s, lines, r)
  BY <1>1, <1>5
<1>7. PICK h : IsHead(lines, s.unit, s.n, h) /\ r.stage.kind = "KeepHead"
               /\ r.out = SubSeq(lines, 1, h)
  BY <1>6 DEF HeadHolds
<1>8. LongestHead(lines, s.unit, s.n) = h
  BY <1>2, <1>7, HeadIs
<1>9. Flush(r.stage).out = <<>>
  BY <1>7 DEF Flush, Emit
<1>10. r.out \o <<>> = r.out
  BY <1>5, LinesJoin DEF Progress
<1>11. QED
  BY <1>7, <1>8, <1>9, <1>10 DEF Whole, r

-----------------------------------------------------------------------------
\* Where max_bytes is after a stream, and what it has emitted.
CapFollows(s, t, p) ==
    \E h \in 0 .. Len(t) :
        /\ IsHead(t, "bytes", s.cap, h)
        /\ p.stage.kind = "MaxBytes"
        /\ p.stage.cap = s.cap
        /\ p.stage.truncated <=> h < Len(t)
        /\ p.stage.written = Bytes(SubSeq(t, 1, h))
        /\ p.stage.dropped_bytes = Bytes(SubSeq(t, h + 1, Len(t)))
        /\ p.out = SubSeq(t, 1, h)

\* One line more at max_bytes.
LEMMA CapMore ==
    ASSUME NEW s \in CapStage, NEW t \in Seq(Line), NEW x \in Line,
           NEW p \in Progress, NEW q \in Progress, CapFollows(s, t, p),
           q.stage = Step(p.stage, x).stage,
           q.out = p.out \o Step(p.stage, x).out
    PROVE  CapFollows(s, Append(t, x), q)
<1> DEFINE m == Len(t)
           u == Append(t, x)
           g == p.stage
           c == s.cap
           w == Width[x.text]
<1>1. c \in Nat /\ "bytes" \in Units /\ g \in Live /\ p.out \in Seq(Line)
  BY DEF CapStage, Progress, Units
<1>2. PICK h \in 0 .. m :
        /\ IsHead(t, "bytes", c, h) /\ g.kind = "MaxBytes" /\ g.cap = c
        /\ g.truncated <=> h < m
        /\ g.written = Bytes(SubSeq(t, 1, h))
        /\ g.dropped_bytes = Bytes(SubSeq(t, h + 1, m))
        /\ p.out = SubSeq(t, 1, h)
  BY DEF CapFollows
<1>3. g \in [kind: {"MaxBytes"}, cap: Nat, written: Nat, truncated: BOOLEAN,
             dropped_bytes: Nat]
  BY <1>1, <1>2, KindDecides DEF Live, CapStage
<1>4. m \in Nat /\ Len(u) = m + 1 /\ u \in Seq(Line)
  OBVIOUS
<1>5. /\ \A k \in 0 .. m : SubSeq(u, 1, k) = SubSeq(t, 1, k)
      /\ SubSeq(u, 1, m + 1) = u /\ SubSeq(t, 1, m) = t
      /\ \A k \in 0 .. m :
            SubSeq(u, k + 1, m + 1) = Append(SubSeq(t, k + 1, m), x)
  BY PartsAppend
<1>6. /\ Bytes(u) = Bytes(t) + w /\ Bytes(t) \in Nat /\ w \in Nat
      /\ Cost(t, "bytes") = Bytes(t) /\ CostOf(x, "bytes") = w
  BY BytesAppend, BytesType, WidthType DEF Cost, CostOf
<1> HIDE DEF c
<1>7. /\ h = m /\ Bytes(t) + w <= c => IsHead(u, "bytes", c, h + 1)
      /\ ~(h = m /\ Bytes(t) + w <= c) => IsHead(u, "bytes", c, h)
  BY <1>1, <1>2, <1>6, HeadOn
<1>8. SubSeq(t, h + 1, m) \in Seq(Line)
      /\ Bytes(Append(SubSeq(t, h + 1, m), x)) = Bytes(SubSeq(t, h + 1, m)) + w
  <2>1. SubSeq(t, h + 1, m) \in Seq(Line)
    OBVIOUS
  <2>2. QED
    BY <2>1, BytesAppend
<1> HIDE DEF m, g
<1>9. Step(g, x) =
        IF g.truncated \/ g.written + w > g.cap
        THEN Emit([g EXCEPT !.truncated = TRUE, !.dropped_bytes = @ + w], <<>>)
        ELSE Emit([g EXCEPT !.written = @ + w], <<x>>)
  BY <1>2 DEF Step, MaxBytesStep
<1> HIDE DEF u, w
<1>10. SUFFICES \E k \in 0 .. m + 1 :
                 /\ IsHead(u, "bytes", c, k)
                 /\ q.stage.kind = "MaxBytes" /\ q.stage.cap = c
                 /\ q.stage.truncated <=> k < m + 1
                 /\ q.stage.written = Bytes(SubSeq(u, 1, k))
                 /\ q.stage.dropped_bytes = Bytes(SubSeq(u, k + 1, m + 1))
                 /\ q.out = SubSeq(u, 1, k)
  BY <1>4 DEF CapFollows, u, c
<1>11. CASE h = m /\ Bytes(t) + w <= c
  <2>1. g.truncated = FALSE /\ g.written = Bytes(t)
    <3>1. ~(h < m) /\ SubSeq(t, 1, h) = t
      BY <1>4, <1>5, <1>11
    <3>2. ~g.truncated /\ g.truncated \in BOOLEAN
      BY <1>2, <1>3, <3>1
    <3>3. g.written = Bytes(t)
      BY <1>2, <3>1
    <3>4. QED
      BY <3>2, <3>3
  <2>2. ~(g.truncated \/ g.written + w > g.cap)
    BY <1>1, <1>2, <1>6, <1>11, <2>1
  <2> DEFINE f == [g EXCEPT !.written = @ + w]
  <2>3. /\ f.kind = "MaxBytes" /\ f.cap = c /\ f.truncated = FALSE
        /\ f.written = g.written + w /\ f.dropped_bytes = g.dropped_bytes
    BY <1>2, <1>3, <2>1
  <2>4. Step(g, x) = Emit(f, <<x>>)
    BY <1>9, <2>2
  <2> HIDE DEF f
  <2>5. q.stage = f /\ q.out = p.out \o <<x>>
    BY <2>4 DEF Emit, g
  <2>6. q.out = u
    <3>1. p.out = t
      BY <1>2, <1>5, <1>11
    <3>2. t \o <<x>> = Append(t, x)
      BY LinesJoin
    <3>3. QED
      BY <2>5, <3>1, <3>2 DEF u
  <2>7. f.written = Bytes(u)
    BY <1>6, <2>1, <2>3
  <2>8. f.dropped_bytes = Bytes(SubSeq(u, (m + 1) + 1, m + 1))
    <3>1. SubSeq(u, (m + 1) + 1, m + 1) = <<>> /\ SubSeq(t, m + 1, m) = <<>>
      BY <1>4
    <3>2. QED
      BY <1>2, <1>11, <2>3, <3>1
  <2>9. m + 1 \in 0 .. m + 1 /\ IsHead(u, "bytes", c, m + 1) /\ ~(m + 1 < m + 1)
    BY <1>4, <1>7, <1>11
  <2>10. QED
    BY <1>5, <2>3, <2>5, <2>6, <2>7, <2>8, <2>9
<1>12. CASE ~(h = m /\ Bytes(t) + w <= c)
  <2>1. g.truncated \/ g.written + w > g.cap
    <3>1. CASE h < m
      BY <1>2, <3>1
    <3>2. CASE h = m
      <4>1. g.written = Bytes(t)
        BY <1>2, <1>5, <3>2
      <4>2. QED
        BY <1>1, <1>2, <1>6, <1>12, <3>2, <4>1
    <3>3. QED
      BY <1>4, <3>1, <3>2
  <2> DEFINE f == [g EXCEPT !.truncated = TRUE, !.dropped_bytes = @ + w]
  <2>2. /\ f.kind = "MaxBytes" /\ f.cap = c /\ f.truncated = TRUE
        /\ f.written = g.written /\ f.dropped_bytes = g.dropped_bytes + w
    BY <1>2, <1>3
  <2>3. Step(g, x) = Emit(f, <<>>)
    BY <1>9, <2>1
  <2> HIDE DEF f
  <2>4. q.stage = f /\ q.out = p.out \o <<>>
    BY <2>3 DEF Emit, g
  <2>5. SubSeq(u, 1, h) = SubSeq(t, 1, h)
        /\ SubSeq(u, h + 1, m + 1) = Append(SubSeq(t, h + 1, m), x)
    BY <1>5
  <2>6. q.out = SubSeq(u, 1, h)
    BY <1>1, <1>2, <2>4, <2>5, LinesJoin
  <2>7. f.dropped_bytes = Bytes(SubSeq(u, h + 1, m + 1))
    BY <1>2, <1>8, <2>2, <2>5 DEF w
  <2>8. h \in 0 .. m + 1 /\ IsHead(u, "bytes", c, h) /\ h < m + 1
    BY <1>4, <1>7, <1>12
  <2>9. QED
    BY <1>2, <2>2, <2>4, <2>5, <2>6, <2>7, <2>8
<1>13. QED
  BY <1>11, <1>12

\* max_bytes on a whole stream keeps the head that fits and says how much it
\* has dropped.
LEMMA WholeCap ==
    ASSUME NEW cap \in Nat, NEW lines \in Seq(Line)
    PROVE  Whole(MaxBytesStage(cap), lines) = CappedAt(lines, cap)
<1> DEFINE s == MaxBytesStage(cap)
           F == [t \in Seq(Line) |-> {p \in Progress : CapFollows(s, t, p)}]
<1>1. \A t \in Seq(Line) : F[t] = {p \in Progress : CapFollows(s, t, p)}
  OBVIOUS
<1> HIDE DEF F
<1>2. /\ s.kind = "MaxBytes" /\ s \in Live /\ s.cap = cap /\ s \in CapStage
      /\ s.written = 0 /\ s.truncated = FALSE /\ s.dropped_bytes = 0
  <2>1. s \in Live
    BY MaxBytesLoaded DEF Loaded
  <2>2. s.kind = "MaxBytes" /\ s.cap = cap /\ s.written = 0
        /\ s.truncated = FALSE /\ s.dropped_bytes = 0
    BY DEF MaxBytesStage
  <2> HIDE DEF s
  <2>3. QED
    BY <2>1, <2>2, KindDecides DEF Live
<1> HIDE DEF s
<1>3. Emit(s, <<>>) \in F[<<>>]
  <2> DEFINE e == Emit(s, <<>>)
  <2>1. e \in Progress /\ e.stage = s /\ e.out = <<>>
    BY <1>2, LinesJoin DEF Progress, Emit
  <2>2. /\ Len(<<>>) = 0 /\ 0 \in 0 .. Len(<<>>) /\ SubSeq(<<>>, 1, 0) = <<>>
        /\ SubSeq(<<>>, 0 + 1, Len(<<>>)) = <<>> /\ ~(0 < Len(<<>>))
    OBVIOUS
  <2> HIDE DEF e
  <2>3. IsHead(<<>>, "bytes", s.cap, 0)
    BY <1>2, HeadEmpty DEF Units
  <2>4. CapFollows(s, <<>>, e)
    BY <1>2, <2>1, <2>2, <2>3, BytesEmpty DEF CapFollows
  <2>5. F[<<>>] = {p \in Progress : CapFollows(s, <<>>, p)}
    BY <1>1, LinesJoin
  <2>6. QED
    BY <2>1, <2>4, <2>5 DEF e
<1>4. ASSUME NEW t \in Seq(Line), NEW x \in Line, NEW p \in Progress,
             NEW q \in Progress, p \in F[t],
             q.stage = Step(p.stage, x).stage,
             q.out = p.out \o Step(p.stage, x).out
      PROVE  q \in F[Append(t, x)]
  <2>1. CapFollows(s, t, p)
    BY <1>1, <1>4
  <2>2. CapFollows(s, Append(t, x), q)
    BY <1>2, <1>4, <2>1, CapMore
  <2>3. F[Append(t, x)] = {y \in Progress : CapFollows(s, Append(t, x), y)}
    BY <1>1, LineAdded
  <2>4. QED
    BY <2>2, <2>3
<1> DEFINE r == StepAll(s, lines)
<1>5. r \in F[lines] /\ r \in Progress
  BY <1>2, <1>3, <1>4, StreamRelation
<1> HIDE DEF r
<1>6. CapFollows(s, lines, r)
  BY <1>1, <1>5
<1>7. PICK h \in 0 .. Len(lines) :
        /\ IsHead(lines, "bytes", cap, h) /\ r.stage.kind = "MaxBytes"
        /\ r.stage.truncated <=> h < Len(lines)
        /\ r.stage.dropped_bytes = Bytes(SubSeq(lines, h + 1, Len(lines)))
        /\ r.out = SubSeq(lines, 1, h)
  BY <1>2, <1>6 DEF CapFollows
<1>8. LongestHead(lines, "bytes", cap) = h
  BY <1>7, HeadIs DEF Units
<1> DEFINE rest == SubSeq(lines, h + 1, Len(lines))
           d == Bytes(rest)
           mark == [text |-> "truncated", count |-> d]
<1>9. d = 0 <=> ~(h < Len(lines))
  <2>1. rest \in Seq(Line) /\ Len(rest) = Len(lines) - h /\ Len(lines) \in Nat
    OBVIOUS
  <2> HIDE DEF rest
  <2>2. CASE h < Len(lines)
    <3>1. rest # <<>>
      BY <2>1, <2>2
    <3>2. Cost(rest, "bytes") > 0 /\ Cost(rest, "bytes") = d
      BY <2>1, <3>1, CostStep DEF Units, Cost
    <3>3. QED
      BY <2>2, <3>2
  <2>3. CASE ~(h < Len(lines))
    <3>1. rest = <<>>
      BY <2>1, <2>3
    <3>2. QED
      BY <2>3, <3>1, BytesEmpty
  <2>4. QED
    BY <2>2, <2>3
<1>10. Flush(r.stage).out = IF d = 0 THEN <<>> ELSE <<mark>>
  <2>1. Flush(r.stage).out
          = IF r.stage.truncated
            THEN <<[text |-> "truncated", count |-> r.stage.dropped_bytes]>>
            ELSE <<>>
    BY <1>7 DEF Flush, Emit
  <2>2. r.stage.dropped_bytes = d
    BY <1>7
  <2> HIDE DEF d
  <2>3. QED
    BY <1>7, <1>9, <2>1, <2>2
<1>11. Whole(s, lines) = SubSeq(lines, 1, h) \o Flush(r.stage).out
  BY <1>7 DEF Whole, r
<1>12. CappedAt(lines, cap) = SubSeq(lines, 1, h) \o IF d = 0 THEN <<>> ELSE <<mark>>
  BY <1>8 DEF CappedAt
<1> HIDE DEF d, mark
<1>13. QED
  BY <1>10, <1>11, <1>12 DEF s

-----------------------------------------------------------------------------
\* Lists joined up, and a list more.
LEMMA FlattenEntries ==
    ASSUME NEW n \in Nat, NEW e, \A i \in 1 .. n + 1 : e[i] \in Seq(Line)
    PROVE  /\ FlattenSeq([i \in 1 .. n |-> e[i]]) \in Seq(Line)
           /\ FlattenSeq([i \in 1 .. n + 1 |-> e[i]])
                = FlattenSeq([i \in 1 .. n |-> e[i]]) \o e[n + 1]
<1> DEFINE a == [i \in 1 .. n |-> e[i]]
           b == [i \in 1 .. n + 1 |-> e[i]]
           c == Append(a, e[n + 1])
<1>1. /\ \A i \in 1 .. n : i \in 1 .. n + 1
      /\ \A i \in 1 .. n + 1 : i \in 1 .. n \/ i = n + 1
      /\ n + 1 \in 1 .. n + 1 /\ n + 1 \in Nat
  OBVIOUS
<1>2. a \in Seq(Seq(Line)) /\ Len(a) = n /\ \A i \in 1 .. n : a[i] = e[i]
  BY <1>1
<1>3. b \in Seq(Seq(Line)) /\ Len(b) = n + 1 /\ \A i \in 1 .. n + 1 : b[i] = e[i]
  BY <1>1
<1> HIDE DEF a, b
<1>4. e[n + 1] \in Seq(Line)
  BY <1>1
<1>5. /\ c \in Seq(Seq(Line)) /\ Len(c) = n + 1 /\ c[n + 1] = e[n + 1]
      /\ \A i \in 1 .. n : c[i] = a[i]
  BY <1>2, <1>4
<1> HIDE DEF c
<1>6. b = c
  <2>1. \A i \in 1 .. n + 1 : b[i] = c[i]
    BY <1>1, <1>2, <1>3, <1>5
  <2>2. QED
    BY <1>3, <1>5, <2>1, SeqEqual
<1>7. FlattenSeq(c) = FlattenSeq(a) \o e[n + 1]
  BY <1>2, <1>4, FlattenAppend DEF c
<1>8. FlattenSeq(a) \in Seq(Line)
  BY <1>2, FlattenType
<1>9. QED
  BY <1>6, <1>7, <1>8 DEF a, b

-----------------------------------------------------------------------------
\* What collapse_repeated leaves at position i, when the matches are at the
\* positions in K: the line unless its run is too long already, and the
\* marker where a run that was too long breaks off.
MarkerOf(k) == IF k > 0 THEN <<[text |-> "collapsed", count |-> k]>> ELSE <<>>

EntryOf(x, K, m, i) ==
    (IF RunMax(i, K) <= m THEN <<x>> ELSE <<>>)
        \o (IF RunMax(i + 1, K) = 0 THEN MarkerOf(RunMax(i, K) - m) ELSE <<>>)

Collapse(t, K, m) ==
    FlattenSeq([i \in 1 .. Len(t) |-> EntryOf(t[i], K, m, i)])

\* What is left at a position is a list of lines, which depends on the
\* matches up to the position after it.
LEMMA EntryType ==
    ASSUME NEW x \in Line, NEW K, NEW m \in Nat, NEW i \in Nat
    PROVE  /\ EntryOf(x, K, m, i) \in Seq(Line)
           /\ MarkerOf(RunMax(i, K) - m) \in Seq(Line)
           /\ RunMax(i, K) \in Nat
<1>1. RunMax(i, K) \in Nat
  <2>1. RunMax(i, K) \in 0 .. i
    BY RunStep
  <2>2. QED
    BY <2>1
<1> DEFINE r == RunMax(i, K)
<1> HIDE DEF r
<1>2. r \in Nat
  BY <1>1 DEF r
<1>3. MarkerOf(r - m) \in Seq(Line)
  <2>1. r - m > 0 => [text |-> "collapsed", count |-> r - m] \in Line
    BY <1>2 DEF Line, Marker
  <2>2. QED
    BY <2>1, LinesJoin DEF MarkerOf
<1>4. (IF r <= m THEN <<x>> ELSE <<>>) \in Seq(Line)
  BY LinesJoin
<1>5. (IF RunMax(i + 1, K) = 0 THEN MarkerOf(r - m) ELSE <<>>) \in Seq(Line)
  BY <1>3, LinesJoin
<1>6. EntryOf(x, K, m, i) \in Seq(Line)
  BY <1>4, <1>5, LinesJoin DEF EntryOf, r
<1>7. QED
  BY <1>1, <1>3, <1>6 DEF r

\* What collapse_repeated promises at a position depends on the lines up to
\* the next one only.
LEMMA EntrySame ==
    ASSUME NEW x, NEW K, NEW M, NEW m, NEW i \in Nat,
           \A j \in 1 .. i + 1 : j \in K <=> j \in M
    PROVE  EntryOf(x, K, m, i) = EntryOf(x, M, m, i)
<1>1. i + 1 \in Nat /\ \A j \in 1 .. i : j \in 1 .. i + 1
  OBVIOUS
<1>2. RunMax(i, K) = RunMax(i, M)
  BY <1>1, RunSame
<1>3. RunMax(i + 1, K) = RunMax(i + 1, M)
  BY <1>1, RunSame
<1>4. QED
  BY <1>2, <1>3 DEF EntryOf

\* A line more, with the matches where they are.
LEMMA CollapseStepOn ==
    ASSUME NEW m \in Nat, NEW K
    PROVE  /\ Collapse(<<>>, K, m) = <<>>
           /\ \A t \in Seq(Line) : Collapse(t, K, m) \in Seq(Line)
           /\ \A t \in Seq(Line), x \in Line :
                 Collapse(Append(t, x), K, m)
                   = Collapse(t, K, m) \o EntryOf(x, K, m, Len(t) + 1)
<1>1. Collapse(<<>>, K, m) = <<>>
  <2>1. [i \in 1 .. Len(<<>>) |-> EntryOf(<<>>[i], K, m, i)] = <<>>
    OBVIOUS
  <2>2. QED
    BY <2>1, FlattenAppend DEF Collapse
<1>2. ASSUME NEW t \in Seq(Line), NEW x \in Line
      PROVE  /\ Collapse(t, K, m) \in Seq(Line)
             /\ Collapse(Append(t, x), K, m)
                  = Collapse(t, K, m) \o EntryOf(x, K, m, Len(t) + 1)
  <2> DEFINE n == Len(t)
             u == Append(t, x)
             e == [i \in 1 .. n + 1 |-> EntryOf(u[i], K, m, i)]
  <2>1. /\ n \in Nat /\ Len(u) = n + 1 /\ u[n + 1] = x
        /\ \A i \in 1 .. n : u[i] = t[i]
        /\ \A i \in 1 .. n + 1 : u[i] \in Line
    OBVIOUS
  <2> HIDE DEF n, u
  <2>2. \A i \in 1 .. n + 1 : i \in Nat /\ (i \in 1 .. n \/ i = n + 1)
    BY <2>1
  <2>3. \A i \in 1 .. n + 1 : e[i] = EntryOf(u[i], K, m, i)
    OBVIOUS
  <2> HIDE DEF e
  <2>4. \A i \in 1 .. n + 1 : e[i] \in Seq(Line)
    BY <2>1, <2>2, <2>3, EntryType
  <2>5. /\ FlattenSeq([i \in 1 .. n |-> e[i]]) \in Seq(Line)
        /\ FlattenSeq([i \in 1 .. n + 1 |-> e[i]])
             = FlattenSeq([i \in 1 .. n |-> e[i]]) \o e[n + 1]
    BY <2>1, <2>4, FlattenEntries
  <2>6. [i \in 1 .. n |-> e[i]] = [i \in 1 .. n |-> EntryOf(t[i], K, m, i)]
    <3>1. \A i \in 1 .. n : i \in 1 .. n + 1
      BY <2>1
    <3>2. \A i \in 1 .. n : e[i] = EntryOf(t[i], K, m, i)
      BY <2>1, <2>3, <3>1
    <3>3. QED
      BY <3>2
  <2>7. [i \in 1 .. n + 1 |-> e[i]] = [i \in 1 .. n + 1 |-> EntryOf(u[i], K, m, i)]
    BY <2>3
  <2>8. e[n + 1] = EntryOf(x, K, m, n + 1)
    <3>1. n + 1 \in 1 .. n + 1
      BY <2>1
    <3>2. QED
      BY <2>1, <2>3, <3>1
  <2>9. Collapse(t, K, m) = FlattenSeq([i \in 1 .. n |-> e[i]])
    BY <2>6 DEF Collapse, n
  <2>10. Collapse(u, K, m) = FlattenSeq([i \in 1 .. n + 1 |-> e[i]])
    BY <2>1, <2>7 DEF Collapse
  <2>11. QED
    BY <2>5, <2>8, <2>9, <2>10 DEF n, u
<1>3. ASSUME NEW t \in Seq(Line) PROVE Collapse(t, K, m) \in Seq(Line)
  BY <1>2, SomeLine
<1>4. ASSUME NEW t \in Seq(Line), NEW x \in Line
      PROVE  Collapse(Append(t, x), K, m)
               = Collapse(t, K, m) \o EntryOf(x, K, m, Len(t) + 1)
  BY <1>2
<1>5. QED
  BY <1>1, <1>3, <1>4

\* What collapse_repeated promises of a stream depends on which of its lines
\* match, and on no position beyond the one after its end.
LEMMA CollapseSame ==
    ASSUME NEW t \in Seq(Line), NEW K, NEW M, NEW m,
           \A j \in 1 .. Len(t) + 1 : j \in K <=> j \in M
    PROVE  Collapse(t, K, m) = Collapse(t, M, m)
<1>1. ASSUME NEW i \in 1 .. Len(t)
      PROVE  EntryOf(t[i], K, m, i) = EntryOf(t[i], M, m, i)
  <2>1. i \in Nat /\ \A j \in 1 .. i + 1 : j \in 1 .. Len(t) + 1
    OBVIOUS
  <2>2. QED
    BY <2>1, EntrySame
<1>2. [i \in 1 .. Len(t) |-> EntryOf(t[i], K, m, i)]
        = [i \in 1 .. Len(t) |-> EntryOf(t[i], M, m, i)]
  BY <1>1
<1>3. QED
  BY <1>2 DEF Collapse

\* Where the stream ends, or the next line does not match, the last run gets
\* its marker; where it goes on, not yet.
LEMMA CollapseClose ==
    ASSUME NEW t \in Seq(Line), NEW K, NEW M, NEW m \in Nat,
           \A j \in 1 .. Len(t) : j \in K <=> j \in M,
           Len(t) + 1 \notin K, Len(t) + 1 \in M
    PROVE  Collapse(t, K, m)
             = Collapse(t, M, m) \o MarkerOf(RunMax(Len(t), K) - m)
<1> DEFINE n == Len(t)
<1>1. n \in Nat
  OBVIOUS
<1>2. CASE n = 0
  <2>1. t = <<>>
    BY <1>2
  <2>2. RunMax(n, K) = 0
    BY <1>2, RunStep
  <2>3. MarkerOf(RunMax(n, K) - m) = <<>>
    <3>1. ~(0 - m > 0)
      OBVIOUS
    <3>2. QED
      BY <2>2, <3>1 DEF MarkerOf
  <2>4. <<>> \o <<>> = <<>>
    BY LinesJoin
  <2>5. Collapse(t, K, m) = <<>> /\ Collapse(t, M, m) = <<>>
    BY <2>1, CollapseStepOn
  <2>6. QED
    BY <2>3, <2>4, <2>5
<1>3. CASE n # 0
  <2>1. PICK k \in Nat : k + 1 = n
    <3>1. n - 1 \in Nat /\ (n - 1) + 1 = n
      BY <1>1, <1>3
    <3>2. QED
      BY <3>1
  <2> DEFINE a == SubSeq(t, 1, k)
             x == t[n]
  <2>2. a \in Seq(Line) /\ Len(a) = k /\ x \in Line /\ t = Append(a, x)
    <3>1. n \in 1 .. Len(t) /\ n - 1 = k /\ x \in Line
      BY <1>1, <1>3, <2>1
    <3>2. SubSeq(t, 1, n) = Append(SubSeq(t, 1, n - 1), t[n])
      BY <3>1, PrefixAppend
    <3>3. SubSeq(t, 1, n) = t
      BY SubSeqFull
    <3>4. a \in Seq(Line) /\ Len(a) = k
      BY <1>1, <2>1
    <3>5. QED
      BY <3>1, <3>2, <3>3, <3>4
  <2> HIDE DEF a, x
  <2>3. /\ Collapse(t, K, m) = Collapse(a, K, m) \o EntryOf(x, K, m, n)
        /\ Collapse(t, M, m) = Collapse(a, M, m) \o EntryOf(x, M, m, n)
    <3>1. ASSUME NEW U
          PROVE  Collapse(Append(a, x), U, m)
                   = Collapse(a, U, m) \o EntryOf(x, U, m, Len(a) + 1)
      <4>1. a \in Seq(Line) /\ x \in Line /\ m \in Nat
        BY <2>2
      <4>2. QED
        BY ONLY <4>1, CollapseStepOn
    <3>2. Len(a) + 1 = n
      BY <2>1, <2>2
    <3> HIDE DEF n
    <3>3. QED
      BY <2>2, <3>1, <3>2
  <2> HIDE DEF n
  <2>4. (\A j \in 1 .. n : j \in K <=> j \in M) /\ n + 1 \notin K /\ n + 1 \in M
    BY DEF n
  <2>5. Collapse(a, K, m) = Collapse(a, M, m) /\ Collapse(a, M, m) \in Seq(Line)
    <3>1. Len(a) + 1 = n
      BY <2>1, <2>2
    <3>2. \A j \in 1 .. Len(a) + 1 : j \in K <=> j \in M
      BY <2>4, <3>1
    <3>3. Collapse(a, K, m) = Collapse(a, M, m)
      BY <2>2, <3>2, CollapseSame
    <3>4. Collapse(a, M, m) \in Seq(Line)
      BY <2>2, CollapseStepOn
    <3>5. QED
      BY <3>3, <3>4
  <2>6. RunMax(n, K) = RunMax(n, M)
    BY <1>1, <2>4, RunSame
  <2>7. RunMax(n + 1, K) = 0 /\ RunMax(n + 1, M) = RunMax(n, M) + 1
    BY <1>1, <2>4, RunStep
  <2>8. RunMax(n, M) \in Nat /\ MarkerOf(RunMax(n, M) - m) \in Seq(Line)
    BY <1>1, <2>2, EntryType
  <2> DEFINE y == IF RunMax(n, M) <= m THEN <<x>> ELSE <<>>
             z == MarkerOf(RunMax(n, M) - m)
  <2>9. y \in Seq(Line) /\ z \in Seq(Line)
    BY <2>2, <2>8, LinesJoin
  <2>10. EntryOf(x, K, m, n) = y \o z
    BY <2>6, <2>7 DEF EntryOf
  <2>11. EntryOf(x, M, m, n) = y \o <<>>
    <3>1. RunMax(n + 1, M) # 0
      BY <2>7, <2>8
    <3>2. QED
      BY <3>1 DEF EntryOf
  <2> HIDE DEF y, z
  <2> DEFINE b == Collapse(a, M, m)
  <2>12. b \in Seq(Line) /\ y \o <<>> = y
    BY <2>5, <2>9, LinesJoin
  <2> HIDE DEF b
  <2>13. b \o (y \o z) = (b \o y) \o z
    BY <2>9, <2>12, JoinAssoc
  <2>14. Collapse(t, K, m) = Collapse(t, M, m) \o z
    BY <2>3, <2>5, <2>10, <2>11, <2>12, <2>13 DEF b
  <2>15. QED
    BY <2>6, <2>14 DEF z, n
<1>4. QED
  BY <1>2, <1>3

\* The positions of the lines that match.
Hits(t, S) == {j \in DOMAIN t : t[j].text \in S}

\* A line more is a match more, or not.
LEMMA HitsAppend ==
    ASSUME NEW t \in Seq(Line), NEW x \in Line, NEW S
    PROVE  LET n == Len(t)
               u == Append(t, x)
           IN  /\ \A j \in 1 .. n : j \in Hits(u, S) <=> j \in Hits(t, S)
               /\ n + 1 \in Hits(u, S) <=> x.text \in S
               /\ n + 1 \notin Hits(t, S) /\ n + 2 \notin Hits(u, S)
<1> DEFINE n == Len(t)
           u == Append(t, x)
<1>1. /\ n \in Nat /\ DOMAIN u = 1 .. n + 1 /\ DOMAIN t = 1 .. n
      /\ u[n + 1] = x /\ \A i \in 1 .. n : u[i] = t[i]
  OBVIOUS
<1> HIDE DEF n, u
<1>2. /\ \A i \in 1 .. n : i \in 1 .. n + 1
      /\ n + 1 \in 1 .. n + 1 /\ n + 1 \notin 1 .. n /\ n + 2 \notin 1 .. n + 1
  BY <1>1
<1>3. \A j \in 1 .. n : j \in Hits(u, S) <=> j \in Hits(t, S)
  BY <1>1, <1>2 DEF Hits
<1>4. n + 1 \in Hits(u, S) <=> x.text \in S
  BY <1>1, <1>2 DEF Hits
<1>5. n + 1 \notin Hits(t, S) /\ n + 2 \notin Hits(u, S)
  BY <1>1, <1>2 DEF Hits
<1>6. QED
  BY <1>3, <1>4, <1>5 DEF n, u

\* Where collapse_repeated is after a stream, and what it has emitted: the
\* stream may still go on with a match.
CollapseHolds(s, t, p) ==
    LET n == Len(t)
        K == Hits(t, s.pattern)
        r == RunMax(n, K)
    IN  /\ p.stage.kind = "CollapseRepeated"
        /\ p.stage.pattern = s.pattern /\ p.stage.max_kept = s.max_kept
        /\ p.stage.kept_so_far = Least(r, s.max_kept)
        /\ p.stage.dropped = IF r > s.max_kept THEN r - s.max_kept ELSE 0
        /\ p.out = Collapse(t, K \cup {n + 1}, s.max_kept)

\* The marker the stage owes is the one that closes the last run.
LEMMA CollapseOwes ==
    ASSUME NEW s \in CollapseStage, NEW t \in Seq(Line), NEW p \in Progress,
           CollapseHolds(s, t, p)
    PROVE  /\ CollapsedMarker(p.stage)
                = MarkerOf(RunMax(Len(t), Hits(t, s.pattern)) - s.max_kept)
           /\ CollapsedMarker(p.stage) \in Seq(Line)
           /\ Collapse(t, Hits(t, s.pattern), s.max_kept)
                = p.out \o CollapsedMarker(p.stage)
<1> DEFINE n == Len(t)
           K == Hits(t, s.pattern)
           M == K \cup {n + 1}
           r == RunMax(n, K)
           m == s.max_kept
<1>1. m \in Nat /\ n \in Nat
  BY DEF CollapseStage
<1>2. r \in Nat
  BY <1>1, EntryType, SomeLine
<1>3. p.stage.dropped = (IF r > m THEN r - m ELSE 0) /\ p.out = Collapse(t, M, m)
  BY DEF CollapseHolds
<1> HIDE DEF r
<1>4. CollapsedMarker(p.stage) = MarkerOf(r - m)
  <2>1. p.stage.dropped > 0 <=> r - m > 0
    BY <1>1, <1>2, <1>3
  <2>2. r - m > 0 => p.stage.dropped = r - m
    BY <1>1, <1>2, <1>3
  <2>3. QED
    BY <2>1, <2>2 DEF CollapsedMarker, MarkerOf
<1>5. Collapse(t, K, m) = Collapse(t, M, m) \o MarkerOf(r - m)
  <2>1. n + 1 \notin K
    <3>1. DOMAIN t = 1 .. n
      OBVIOUS
    <3>2. QED
      BY <1>1, <3>1 DEF Hits
  <2>2. n + 1 \in M /\ \A j \in 1 .. n : j \in K <=> j \in M
    BY <1>1
  <2> HIDE DEF K, M
  <2>3. QED
    BY <1>1, <2>1, <2>2, CollapseClose DEF r
<1>6. MarkerOf(r - m) \in Seq(Line)
  BY <1>1, EntryType, SomeLine DEF r
<1>7. QED
  BY <1>3, <1>4, <1>5, <1>6 DEF r

\* One line more at collapse_repeated.
LEMMA CollapseMore ==
    ASSUME NEW s \in CollapseStage, NEW t \in Seq(Line), NEW x \in Line,
           NEW p \in Progress, NEW q \in Progress, CollapseHolds(s, t, p),
           q.stage = Step(p.stage, x).stage,
           q.out = p.out \o Step(p.stage, x).out
    PROVE  CollapseHolds(s, Append(t, x), q)
<1> DEFINE n == Len(t)
           u == Append(t, x)
           m == s.max_kept
           S == s.pattern
           g == p.stage
           K == Hits(t, S)
           M == Hits(u, S)
           r == RunMax(n, K)
           r1 == RunMax(n + 1, M)
           end == M \cup {n + 2}
<1>1. /\ m \in Nat /\ n \in Nat /\ u \in Seq(Line) /\ Len(u) = n + 1
      /\ g \in Live /\ p.out \in Seq(Line)
  BY DEF CollapseStage, Progress
<1>2. /\ g.kind = "CollapseRepeated" /\ g.pattern = S /\ g.max_kept = m
      /\ g.kept_so_far = Least(r, m)
      /\ g.dropped = (IF r > m THEN r - m ELSE 0)
      /\ p.out = Collapse(t, K \cup {n + 1}, m)
  BY DEF CollapseHolds
<1>3. g \in [kind: {"CollapseRepeated"}, pattern: Pats, max_kept: Nat,
             kept_so_far: Nat, dropped: Nat]
  BY <1>1, <1>2, KindDecides DEF Live, CollapseStage
<1>4. /\ \A j \in 1 .. n : j \in M <=> j \in K
      /\ n + 1 \in M <=> x.text \in S
      /\ n + 1 \notin K /\ n + 2 \notin M
  BY HitsAppend
<1>5. r \in Nat /\ r1 = IF n + 1 \in M THEN r + 1 ELSE 0
  <2>1. RunMax(n, M) = r
    BY <1>1, <1>4, RunSame
  <2>2. RunMax(n + 1, M) = IF n + 1 \in M THEN RunMax(n, M) + 1 ELSE 0
    BY <1>1, RunStep
  <2>3. r \in Nat
    BY <1>1, EntryType, SomeLine
  <2>4. QED
    BY <2>1, <2>2, <2>3
<1>6. Collapse(u, end, m) = Collapse(t, end, m) \o EntryOf(x, end, m, n + 1)
  <2> HIDE DEF end
  <2>1. QED
    BY <1>1, CollapseStepOn
<1>7. EntryOf(x, end, m, n + 1) = IF r1 <= m THEN <<x>> ELSE <<>>
  <2>1. RunMax(n + 1, end) = r1
    <3>1. \A j \in 1 .. n + 1 : j \in end <=> j \in M
      BY <1>1
    <3>2. QED
      BY <1>1, <3>1, RunSame
  <2>2. RunMax((n + 1) + 1, end) # 0
    <3>1. (n + 1) + 1 \in end /\ n + 1 \in Nat
      BY <1>1
    <3>2. RunMax((n + 1) + 1, end) = RunMax(n + 1, end) + 1
      BY <3>1, RunStep
    <3>3. RunMax(n + 1, end) \in 0 .. n + 1
      BY <3>1, RunStep
    <3>4. QED
      BY <1>1, <3>2, <3>3
  <2>3. \A y \in Line : <<y>> \o <<>> = <<y>>
    BY LinesJoin
  <2>4. <<>> \o <<>> = <<>>
    BY LinesJoin
  <2> HIDE DEF end, r1
  <2>5. QED
    BY <2>1, <2>2, <2>3, <2>4 DEF EntryOf
<1>8. CollapseHolds(s, u, q) <=>
        /\ q.stage.kind = "CollapseRepeated"
        /\ q.stage.pattern = S /\ q.stage.max_kept = m
        /\ q.stage.kept_so_far = Least(r1, m)
        /\ q.stage.dropped = (IF r1 > m THEN r1 - m ELSE 0)
        /\ q.out = Collapse(u, end, m)
  <2>1. (n + 1) + 1 = n + 2
    BY <1>1
  <2>2. QED
    BY <1>1, <2>1 DEF CollapseHolds
<1>9. Step(g, x) = CollapseStep(g, x)
  BY <1>2 DEF Step
<1>10. CollapsedMarker(g) \in Seq(Line) /\ Collapse(t, K, m) = p.out \o CollapsedMarker(g)
  BY CollapseOwes
<1> HIDE DEF u, m, S, g, r, r1
<1>11. CASE x.text \notin S
  <2> DEFINE f == [g EXCEPT !.kept_so_far = 0, !.dropped = 0]
             y == Append(CollapsedMarker(g), x)
  <2>1. Step(g, x) = Emit(f, y)
    BY <1>2, <1>9, <1>11 DEF CollapseStep
  <2>2. /\ f.kind = "CollapseRepeated" /\ f.pattern = S /\ f.max_kept = m
        /\ f.kept_so_far = 0 /\ f.dropped = 0
    BY <1>2, <1>3
  <2> HIDE DEF f, y
  <2>3. q.stage = f /\ q.out = p.out \o y
    BY <2>1 DEF Emit, g
  <2>4. r1 = 0 /\ Least(r1, m) = 0 /\ ~(r1 > m) /\ r1 <= m
    BY <1>1, <1>4, <1>5, <1>11 DEF Least
  <2>5. Collapse(t, end, m) = Collapse(t, K, m)
    <3>1. \A j \in 1 .. n + 1 : j \in end <=> j \in K
      <4>1. \A j \in 1 .. n + 1 : j # n + 2 /\ (j \in 1 .. n \/ j = n + 1)
        BY <1>1
      <4>2. n + 1 \notin M
        BY <1>4, <1>11
      <4>3. \A j \in 1 .. n + 1 : j \in end <=> j \in M
        BY <4>1
      <4>4. QED
        BY <1>4, <4>1, <4>2, <4>3
    <3> HIDE DEF end, K
    <3>2. QED
      BY <3>1, CollapseSame
  <2>6. Collapse(u, end, m) = (p.out \o CollapsedMarker(g)) \o <<x>>
    BY <1>6, <1>7, <1>10, <2>4, <2>5
  <2>7. (p.out \o CollapsedMarker(g)) \o <<x>> = p.out \o y
    <3> DEFINE a == p.out
               b == CollapsedMarker(g)
               c == <<x>>
    <3>1. a \in Seq(Line) /\ b \in Seq(Line)
      BY <1>1, <1>10
    <3> HIDE DEF a, b
    <3>2. c \in Seq(Line) /\ Append(b, x) = b \o c
      BY <3>1, LinesJoin
    <3> HIDE DEF c
    <3>3. (a \o b) \o c = a \o (b \o c)
      BY ONLY <3>1, <3>2, JoinAssoc
    <3>4. y = b \o c
      BY <3>2 DEF y, b
    <3>5. QED
      BY <3>3, <3>4 DEF a, b, c
  <2>8. QED
    BY <1>8, <2>2, <2>3, <2>4, <2>6, <2>7 DEF u
<1>12. ASSUME x.text \in S
       PROVE  Collapse(t, end, m) = p.out /\ r1 = r + 1
  <2>1. \A j \in 1 .. n + 1 : j \in end <=> j \in K \cup {n + 1}
    <3>1. \A j \in 1 .. n + 1 : j # n + 2 /\ (j \in 1 .. n \/ j = n + 1)
      BY <1>1
    <3>2. n + 1 \in M
      BY <1>4, <1>12
    <3>3. \A j \in 1 .. n + 1 : j \in end <=> j \in M
      BY <3>1
    <3>4. \A j \in 1 .. n : j # n + 1
      BY <1>1
    <3>5. QED
      BY <1>4, <3>1, <3>2, <3>3, <3>4
  <2> DEFINE N1 == K \cup {n + 1}
  <2> HIDE DEF end, N1
  <2>2. \A j \in 1 .. Len(t) + 1 : j \in end <=> j \in N1
    BY <2>1 DEF N1
  <2>3. Collapse(t, end, m) = Collapse(t, N1, m)
    BY <2>2, CollapseSame
  <2>4. QED
    BY <1>2, <1>4, <1>5, <1>12, <2>3 DEF N1
<1>13. CASE x.text \in S /\ g.kept_so_far < m
  <2> DEFINE f == [g EXCEPT !.kept_so_far = @ + 1]
  <2>1. Step(g, x) = Emit(f, <<x>>)
    BY <1>2, <1>9, <1>13 DEF CollapseStep
  <2>2. /\ f.kind = "CollapseRepeated" /\ f.pattern = S /\ f.max_kept = m
        /\ f.kept_so_far = g.kept_so_far + 1 /\ f.dropped = g.dropped
    BY <1>2, <1>3
  <2> HIDE DEF f
  <2>3. q.stage = f /\ q.out = p.out \o <<x>>
    BY <2>1 DEF Emit, g
  <2>4. /\ g.kept_so_far = r /\ r < m /\ g.dropped = 0
        /\ r + 1 <= m /\ ~(r + 1 > m) /\ Least(r + 1, m) = r + 1
    BY <1>1, <1>2, <1>5, <1>13 DEF Least
  <2>5. Collapse(u, end, m) = p.out \o <<x>>
    BY <1>6, <1>7, <1>12, <1>13, <2>4
  <2>6. QED
    BY <1>8, <1>12, <1>13, <2>2, <2>3, <2>4, <2>5 DEF u
<1>14. CASE x.text \in S /\ ~(g.kept_so_far < m)
  <2> DEFINE f == [g EXCEPT !.dropped = @ + 1]
  <2>1. Step(g, x) = Emit(f, <<>>)
    BY <1>2, <1>9, <1>14 DEF CollapseStep
  <2>2. /\ f.kind = "CollapseRepeated" /\ f.pattern = S /\ f.max_kept = m
        /\ f.kept_so_far = g.kept_so_far /\ f.dropped = g.dropped + 1
    BY <1>2, <1>3
  <2> HIDE DEF f
  <2>3. q.stage = f /\ q.out = p.out \o <<>>
    BY <2>1 DEF Emit, g
  <2>4. /\ g.kept_so_far = m /\ r >= m /\ g.dropped = r - m
        /\ r + 1 > m /\ ~(r + 1 <= m) /\ Least(r + 1, m) = m
        /\ (r - m) + 1 = (r + 1) - m
    BY <1>1, <1>2, <1>5, <1>14 DEF Least
  <2>5. Collapse(u, end, m) = p.out \o <<>>
    BY <1>6, <1>7, <1>12, <1>14, <2>4
  <2>6. QED
    BY <1>8, <1>12, <1>14, <2>2, <2>3, <2>4, <2>5 DEF u
<1>15. QED
  BY <1>11, <1>13, <1>14

\* What the promise of collapse_repeated says, run by run, is what is left at
\* each position.
LEMMA CollapsedRunsIs ==
    ASSUME NEW lines \in Seq(Line), NEW spec, spec.max_kept \in Nat
    PROVE  CollapsedRuns(lines, spec)
             = Collapse(lines, Hits(lines, spec.pattern), spec.max_kept)
<1> DEFINE n == Len(lines)
           K == Hits(lines, spec.pattern)
           m == spec.max_kept
           run == [i \in 0 .. Len(lines) + 1 |->
                     IF i \notin DOMAIN lines THEN 0
                     ELSE Max({0} \cup {k \in 1 .. i :
                             \A j \in i - k + 1 .. i :
                                lines[j].text \in spec.pattern})]
           mine(i) == (IF run[i] - m <= 0 \/ run[i] = 0 THEN <<lines[i]>> ELSE <<>>)
                        \o (IF run[i + 1] = 0 /\ run[i] > 0 /\ run[i] - m > 0
                            THEN <<[text |-> "collapsed", count |-> run[i] - m]>>
                            ELSE <<>>)
<1>1. CollapsedRuns(lines, spec) = FlattenSeq([i \in DOMAIN lines |-> mine(i)])
  BY DEF CollapsedRuns, RunUpTo
<1>2. n \in Nat /\ m \in Nat /\ DOMAIN lines = 1 .. n
  OBVIOUS
<1>3. \A i \in 1 .. n : run[i] = RunMax(i, K)
  <2>1. SUFFICES ASSUME NEW i \in 1 .. n PROVE run[i] = RunMax(i, K)
    OBVIOUS
  <2>2. i \in 0 .. Len(lines) + 1 /\ i \in DOMAIN lines
    BY <1>2
  <2>3. run[i] = Max({0} \cup {k \in 1 .. i : \A j \in i - k + 1 .. i :
                                 lines[j].text \in spec.pattern})
    BY <2>2
  <2>4. \A k \in 1 .. i : \A j \in i - k + 1 .. i :
           j \in K <=> lines[j].text \in spec.pattern
    <3>1. \A k \in 1 .. i : \A j \in i - k + 1 .. i : j \in 1 .. n
      BY <1>2
    <3>2. \A j \in 1 .. n : j \in K <=> lines[j].text \in spec.pattern
      BY <1>2 DEF Hits
    <3> HIDE DEF K, run
    <3>3. QED
      BY <3>1, <3>2
  <2> HIDE DEF run, K
  <2>5. Runs(i, K) = {0} \cup {k \in 1 .. i : \A j \in i - k + 1 .. i :
                                 lines[j].text \in spec.pattern}
    BY <2>4 DEF Runs
  <2>6. QED
    BY <2>3, <2>5 DEF RunMax
<1>4. run[n + 1] = 0 /\ RunMax(n + 1, K) = 0
  <2>1. n + 1 \notin DOMAIN lines /\ n + 1 \in 0 .. Len(lines) + 1
    BY <1>2
  <2>2. n + 1 \notin K
    BY <2>1 DEF Hits
  <2>3. run[n + 1] = 0
    BY <2>1
  <2> HIDE DEF run, K, n
  <2>4. QED
    BY <1>2, <2>2, <2>3, RunStep
<1> HIDE DEF run, K
<1>5. ASSUME NEW i \in 1 .. n PROVE mine(i) = EntryOf(lines[i], K, m, i)
  <2>1. run[i] = RunMax(i, K)
    BY <1>3
  <2>2. run[i + 1] = RunMax(i + 1, K)
    <3>1. i + 1 \in 1 .. n \/ i + 1 = n + 1
      BY <1>2
    <3>2. QED
      BY <1>3, <1>4, <3>1
  <2> DEFINE r == run[i]
  <2>3. r \in Nat
    BY <2>1, EntryType, SomeLine
  <2> HIDE DEF r
  <2>4. r - m <= 0 \/ r = 0 <=> r <= m
    BY <1>2, <2>3
  <2>5. r > 0 /\ r - m > 0 <=> r - m > 0
    BY <1>2, <2>3
  <2>6. mine(i) = (IF r <= m THEN <<lines[i]>> ELSE <<>>)
                    \o (IF run[i + 1] = 0 THEN MarkerOf(r - m) ELSE <<>>)
    BY <2>4, <2>5 DEF MarkerOf, r
  <2>7. QED
    BY <2>1, <2>2, <2>6 DEF EntryOf, r
<1>6. [i \in DOMAIN lines |-> mine(i)]
        = [i \in 1 .. n |-> EntryOf(lines[i], K, m, i)]
  <2> HIDE DEF mine
  <2>1. QED
    BY <1>2, <1>5
<1>7. QED
  BY <1>1, <1>6 DEF Collapse, K

\* collapse_repeated on a whole stream.
LEMMA WholeCollapse ==
    ASSUME NEW s \in CollapseStage, s.kept_so_far = 0, s.dropped = 0,
           NEW lines \in Seq(Line)
    PROVE  Whole(s, lines)
             = Collapse(lines, Hits(lines, s.pattern), s.max_kept)
<1> DEFINE F == [t \in Seq(Line) |-> {p \in Progress : CollapseHolds(s, t, p)}]
<1>1. \A t \in Seq(Line) : F[t] = {p \in Progress : CollapseHolds(s, t, p)}
  OBVIOUS
<1> HIDE DEF F
<1>2. s.kind = "CollapseRepeated" /\ s \in Live /\ s.max_kept \in Nat
  BY DEF CollapseStage, Live, Stage, Counted
<1>3. Emit(s, <<>>) \in F[<<>>]
  <2> DEFINE e == Emit(s, <<>>)
             K == Hits(<<>>, s.pattern)
  <2>1. e \in Progress /\ e.stage = s /\ e.out = <<>>
    BY <1>2, LinesJoin DEF Progress, Emit
  <2>2. Len(<<>>) = 0
    OBVIOUS
  <2> HIDE DEF e
  <2>3. RunMax(0, K) = 0 /\ Least(0, s.max_kept) = 0 /\ ~(0 > s.max_kept)
    BY <1>2, RunStep DEF Least
  <2>4. Collapse(<<>>, K \cup {0 + 1}, s.max_kept) = <<>>
    BY <1>2, CollapseStepOn
  <2>5. CollapseHolds(s, <<>>, e)
    BY <1>2, <2>1, <2>2, <2>3, <2>4 DEF CollapseHolds
  <2>6. F[<<>>] = {p \in Progress : CollapseHolds(s, <<>>, p)}
    BY <1>1, LinesJoin
  <2>7. QED
    BY <2>1, <2>5, <2>6 DEF e
<1>4. ASSUME NEW t \in Seq(Line), NEW x \in Line, NEW p \in Progress,
             NEW q \in Progress, p \in F[t],
             q.stage = Step(p.stage, x).stage,
             q.out = p.out \o Step(p.stage, x).out
      PROVE  q \in F[Append(t, x)]
  <2>1. CollapseHolds(s, t, p)
    BY <1>1, <1>4
  <2>2. CollapseHolds(s, Append(t, x), q)
    BY <1>4, <2>1, CollapseMore
  <2>3. F[Append(t, x)] = {y \in Progress : CollapseHolds(s, Append(t, x), y)}
    BY <1>1, LineAdded
  <2>4. QED
    BY <2>2, <2>3
<1> DEFINE r == StepAll(s, lines)
<1>5. r \in F[lines] /\ r \in Progress
  BY <1>2, <1>3, <1>4, StreamRelation
<1> HIDE DEF r
<1>6. CollapseHolds(s, lines, r)
  BY <1>1, <1>5
<1>7. Collapse(lines, Hits(lines, s.pattern), s.max_kept)
        = r.out \o CollapsedMarker(r.stage)
  BY <1>5, <1>6, CollapseOwes
<1>8. Flush(r.stage).out = CollapsedMarker(r.stage)
  <2>1. r.stage.kind = "CollapseRepeated"
    BY <1>6 DEF CollapseHolds
  <2>2. CASE r.stage.dropped > 0
    BY <2>1, <2>2 DEF Flush, Emit
  <2>3. CASE ~(r.stage.dropped > 0)
    BY <2>1, <2>3 DEF Flush, Emit, CollapsedMarker
  <2>4. QED
    BY <2>2, <2>3
<1>9. QED
  BY <1>7, <1>8 DEF Whole, r

-----------------------------------------------------------------------------
\* The last k lines of a stream.
Suffix(t, k) == SubSeq(t, Len(t) - k + 1, Len(t))

\* A suffix of a suffix, of a line more, and of no line.
LEMMA SuffixStep ==
    ASSUME NEW t \in Seq(Line), NEW k \in 0 .. Len(t)
    PROVE  /\ Suffix(t, k) \in Seq(Line) /\ Len(Suffix(t, k)) = k
           /\ Suffix(t, 0) = <<>> /\ Suffix(t, Len(t)) = t
           /\ \A x \in Line : Suffix(Append(t, x), k + 1) = Append(Suffix(t, k), x)
           /\ \A j \in 0 .. k : SubSeq(Suffix(t, k), j + 1, k) = Suffix(t, k - j)
<1> DEFINE n == Len(t)
           a == Suffix(t, k)
<1>1. n \in Nat /\ k \in Nat /\ k <= n
  OBVIOUS
<1>2. a \in Seq(Line) /\ Len(a) = k /\ \A i \in 1 .. k : a[i] = t[(n - k) + i]
  <2>1. n - k + 1 \in 1 .. n + 1 /\ n \in (n - k + 1) - 1 .. n
    BY <1>1
  <2>2. /\ a \in Seq(Line) /\ Len(a) = n - (n - k + 1) + 1
    BY <2>1, SubSeqProperties DEF Suffix
  <2>3. \A i \in 1 .. k : a[i] = t[(n - k) + i]
    <3>1. \A i \in 1 .. k : i \in 1 .. n - (n - k + 1) + 1
          /\ (n - k + 1) + i - 1 = (n - k) + i
      BY <1>1
    <3>2. \A i \in 1 .. n - (n - k + 1) + 1 : a[i] = t[(n - k + 1) + i - 1]
      BY <2>1, SubSeqProperties DEF Suffix
    <3> HIDE DEF a, n
    <3>3. QED
      BY <3>1, <3>2
  <2>4. QED
    BY <1>1, <2>2, <2>3
<1>3. Suffix(t, 0) = <<>> /\ Suffix(t, n) = t
  <2>1. n - 0 + 1 = n + 1 /\ n - n + 1 = 1 /\ SubSeq(t, n + 1, n) = <<>>
    BY <1>1
  <2>2. SubSeq(t, 1, n) = t
    BY SubSeqFull
  <2>3. QED
    BY <2>1, <2>2 DEF Suffix
<1>4. ASSUME NEW x \in Line
      PROVE  Suffix(Append(t, x), k + 1) = Append(Suffix(t, k), x)
  <2>1. Len(Append(t, x)) = n + 1 /\ (n + 1) - (k + 1) + 1 = (n - k) + 1
    BY <1>1
  <2>2. n - k \in 0 .. n
    BY <1>1
  <2>3. SubSeq(Append(t, x), (n - k) + 1, n + 1) = Append(SubSeq(t, (n - k) + 1, n), x)
    BY <2>2, PartsAppend
  <2>4. QED
    BY <2>1, <2>3 DEF Suffix
<1>5. ASSUME NEW j \in 0 .. k PROVE SubSeq(a, j + 1, k) = Suffix(t, k - j)
  <2> DEFINE b == SubSeq(a, j + 1, k)
             c == Suffix(t, k - j)
  <2>1. n - (k - j) + 1 \in 1 .. n + 1 /\ n \in (n - (k - j) + 1) - 1 .. n
    BY <1>1
  <2>2. /\ c \in Seq(Line) /\ Len(c) = n - (n - (k - j) + 1) + 1
        /\ \A i \in 1 .. n - (n - (k - j) + 1) + 1 :
              c[i] = t[(n - (k - j) + 1) + i - 1]
    BY <2>1, SubSeqProperties DEF Suffix
  <2> HIDE DEF a, c, n
  <2>3. /\ b \in Seq(Line) /\ Len(b) = k - j
        /\ \A i \in 1 .. k - j : b[i] = a[j + i]
    BY <1>1, <1>2
  <2> HIDE DEF b
  <2>4. /\ n - (n - (k - j) + 1) + 1 = k - j
        /\ \A i \in 1 .. k - j : /\ j + i \in 1 .. k
                                 /\ (n - (k - j) + 1) + i - 1 = (n - k) + (j + i)
    BY <1>1
  <2>5. ASSUME NEW i \in 1 .. k - j PROVE b[i] = c[i]
    <3>1. i \in 1 .. n - (n - (k - j) + 1) + 1
      BY <2>4
    <3>2. c[i] = t[(n - (k - j) + 1) + i - 1]
      BY <2>2, <3>1
    <3>3. b[i] = a[j + i]
      BY <2>3
    <3>4. a[j + i] = t[(n - k) + (j + i)]
      BY <1>2, <2>4
    <3>5. QED
      BY <2>4, <3>2, <3>3, <3>4
  <2>6. b = c
    BY <2>2, <2>3, <2>4, <2>5, SeqEqual
  <2>7. QED
    BY <2>6 DEF b, c
<1>6. QED
  BY <1>2, <1>3, <1>4, <1>5 DEF n, a

\* h is how much of the end of the stream fits a budget, the last line
\* whatever it costs.
IsTail(t, unit, n, h) ==
    /\ h \in 0 .. Len(t)
    /\ h = 0 => Len(t) = 0
    /\ h > 1 => Cost(Suffix(t, h), unit) <= n
    /\ h < Len(t) => Cost(Suffix(t, h + 1), unit) > n

\* A longer suffix costs no less.
LEMMA SuffixCost ==
    ASSUME NEW t \in Seq(Line), NEW unit \in Units,
           NEW k \in 0 .. Len(t), NEW h \in 0 .. k
    PROVE  /\ Cost(Suffix(t, h), unit) <= Cost(Suffix(t, k), unit)
           /\ Cost(Suffix(t, h), unit) \in Nat
           /\ Cost(Suffix(t, k), unit) \in Nat
<1> DEFINE s == Suffix(t, k)
           d == Suffix(t, h)
           j == k - h
           a == SubSeq(s, 1, j)
<1>1. Len(t) \in Nat /\ k \in Nat /\ h \in Nat /\ h \in 0 .. Len(t) /\ j \in 0 .. k
      /\ k - j = h
  OBVIOUS
<1>2. s \in Seq(Line) /\ Len(s) = k /\ SubSeq(s, j + 1, k) = Suffix(t, k - j)
  BY <1>1, SuffixStep
<1>3. d \in Seq(Line)
  BY <1>1, SuffixStep
<1> HIDE DEF j
<1>4. SubSeq(s, j + 1, k) = d
  BY <1>1, <1>2
<1> HIDE DEF s, d
<1>5. a \in Seq(Line)
  BY <1>1, <1>2
<1>6. Cost(s, unit) = Cost(a, unit) + Cost(SubSeq(s, j + 1, Len(s)), unit)
  BY <1>1, <1>2, CostStep
<1> HIDE DEF a
<1>7. Cost(s, unit) = Cost(a, unit) + Cost(d, unit)
  BY <1>2, <1>4, <1>6
<1>8. Cost(a, unit) \in Nat /\ Cost(d, unit) \in Nat /\ Cost(s, unit) \in Nat
  BY <1>2, <1>3, <1>5, CostStep
<1>9. QED
  BY <1>7, <1>8 DEF s, d

\* LongestTail finds it.
LEMMA TailIs ==
    ASSUME NEW t \in Seq(Line), NEW unit \in Units, NEW n \in Nat, NEW h,
           IsTail(t, unit, n, h)
    PROVE  LongestTail(t, unit, n) = h
<1> DEFINE m == Len(t)
           Fit == {k \in 1 .. m : Cost(Suffix(t, k), unit) <= n}
           S == {Least(1, m)} \cup Fit
<1>1. h \in 0 .. m /\ h \in Nat /\ m \in Nat /\ h <= m
  BY DEF IsTail
<1>2. /\ h = 0 => m = 0
      /\ h > 1 => Cost(Suffix(t, h), unit) <= n
      /\ h < m => Cost(Suffix(t, h + 1), unit) > n
  BY DEF IsTail
<1>3. Least(1, m) = IF m = 0 THEN 0 ELSE 1
  BY <1>1 DEF Least
<1>4. h \in S
  <2>1. h = 0 => h = Least(1, m)
    BY <1>2, <1>3
  <2>2. h = 1 => h = Least(1, m)
    BY <1>1, <1>3
  <2>3. h > 1 => h \in Fit
    BY <1>1, <1>2
  <2>4. QED
    BY <1>1, <2>1, <2>2, <2>3
<1>5. ASSUME NEW y \in S PROVE h >= y /\ y \in Int
  <2>1. CASE y = Least(1, m)
    BY <1>1, <1>2, <1>3, <2>1
  <2>2. CASE y \in Fit
    <3>1. y \in 1 .. m /\ Cost(Suffix(t, y), unit) <= n
      BY <2>2
    <3>2. ASSUME h < y PROVE FALSE
      <4>1. h < m /\ h + 1 \in 0 .. y /\ y \in 0 .. Len(t)
        BY <1>1, <3>1, <3>2
      <4>2. Cost(Suffix(t, h + 1), unit) > n
        BY <1>2, <4>1
      <4>3. /\ Cost(Suffix(t, h + 1), unit) <= Cost(Suffix(t, y), unit)
            /\ Cost(Suffix(t, h + 1), unit) \in Nat
            /\ Cost(Suffix(t, y), unit) \in Nat
        BY <4>1, SuffixCost
      <4>4. QED
        BY <3>1, <4>2, <4>3
    <3>3. QED
      BY <1>1, <3>1, <3>2
  <2>3. QED
    BY <1>5, <2>1, <2>2
<1>6. LongestTail(t, unit, n) = Max(S)
  BY DEF LongestTail, Suffix
<1> HIDE DEF S
<1>7. Max(S) = h
  BY <1>4, <1>5, MaxIs
<1>8. QED
  BY <1>6, <1>7

\* A ring that has given up k lines and taken one is the longest tail again.
LEMMA TailOn ==
    ASSUME NEW t \in Seq(Line), NEW unit \in Units, NEW n \in Nat,
           NEW h \in 0 .. Len(t), IsTail(t, unit, n, h), NEW x \in Line,
           NEW k \in 0 .. h,
           k < h => Cost(Append(Suffix(t, h - k), x), unit) <= n,
           k > 0 => Cost(Append(Suffix(t, h - k + 1), x), unit) > n
    PROVE  IsTail(Append(t, x), unit, n, h - k + 1)
<1> DEFINE m == Len(t)
           u == Append(t, x)
           e == h - k + 1
<1>1. m \in Nat /\ Len(u) = m + 1 /\ h \in Nat /\ k \in Nat /\ h <= m /\ k <= h
  OBVIOUS
<1>2. /\ h = 0 => m = 0
      /\ h > 1 => Cost(Suffix(t, h), unit) <= n
      /\ h < m => Cost(Suffix(t, h + 1), unit) > n
  BY DEF IsTail
<1>3. \A j \in 0 .. m : Suffix(u, j + 1) = Append(Suffix(t, j), x)
                        /\ Suffix(t, j) \in Seq(Line)
  BY SuffixStep
<1> HIDE DEF m, u
<1>4. e \in 0 .. m + 1 /\ e # 0
  BY <1>1
<1>5. ASSUME e > 1 PROVE Cost(Suffix(u, e), unit) <= n
  <2>1. k < h /\ h - k \in 0 .. m
    BY <1>1, <1>5
  <2>2. QED
    BY <1>3, <2>1
<1>6. ASSUME e < m + 1 PROVE Cost(Suffix(u, e + 1), unit) > n
  <2>1. CASE k > 0
    <3>1. h - k + 1 \in 0 .. m
      BY <1>1, <2>1
    <3>2. Suffix(u, e + 1) = Append(Suffix(t, h - k + 1), x)
      BY <1>3, <3>1
    <3>3. QED
      BY <2>1, <3>2
  <2>2. CASE k = 0
    <3>1. h < m /\ h + 1 \in 0 .. m /\ e = h + 1
      BY <1>1, <1>6, <2>2
    <3>2. Cost(Suffix(t, h + 1), unit) > n
      BY <1>2, <3>1
    <3>3. Suffix(u, e + 1) = Append(Suffix(t, h + 1), x)
          /\ Suffix(t, h + 1) \in Seq(Line)
      BY <1>3, <3>1
    <3> DEFINE b == Suffix(t, h + 1)
    <3>4. b \in Seq(Line)
      BY <3>3
    <3> HIDE DEF b
    <3>5. /\ Cost(Append(b, x), unit) = Cost(b, unit) + CostOf(x, unit)
          /\ Cost(b, unit) \in Nat /\ CostOf(x, unit) \in Nat
      BY <3>4, CostStep
    <3>6. Cost(b, unit) > n
      BY <3>2 DEF b
    <3>7. Cost(Append(b, x), unit) > n
      BY <3>5, <3>6
    <3>8. QED
      BY <3>3, <3>7 DEF b
  <2>3. QED
    BY <1>1, <2>1, <2>2
<1> HIDE DEF e
<1>7. IsTail(u, unit, n, e)
  BY <1>1, <1>4, <1>5, <1>6 DEF IsTail
<1>8. QED
  BY <1>7 DEF u, e

-----------------------------------------------------------------------------
\* What a ring gives up is what does not fit with the line, and no more.
LEMMA PoppedIs ==
    ASSUME NEW g \in TailStage, Counted(g), NEW x \in Line
    PROVE  LET r == g.ring
               h == Len(r)
               k == PoppedFor(g, x)
           IN  /\ k \in 0 .. h
               /\ k < h => Cost(Append(SubSeq(r, k + 1, h), x), g.unit) <= g.n
               /\ k > 0 => Cost(Append(SubSeq(r, k, h), x), g.unit) > g.n
<1> DEFINE r == g.ring
           h == Len(r)
           k == PoppedFor(g, x)
           n == g.n
           w == Width[x.text]
           C(j) == Cost(Append(SubSeq(r, j + 1, h), x), g.unit)
<1>1. /\ r \in Seq(Line) /\ h \in Nat /\ n \in Nat \ {0}
      /\ g.unit \in {"lines", "bytes"}
      /\ g.unit = "lines" => h <= n
  BY DEF TailStage
<1>2. w \in Nat
  BY WidthType
<1>3. k \in 0 .. h
  BY PoppedType
<1>4. ASSUME NEW j \in 0 .. h
      PROVE  /\ SubSeq(r, j + 1, h) \in Seq(Line)
             /\ Len(Append(SubSeq(r, j + 1, h), x)) = h - j + 1
  <2>1. j + 1 \in 1 .. h + 1 /\ h \in (j + 1) - 1 .. h /\ h - (j + 1) + 1 = h - j
    BY <1>1
  <2>2. SubSeq(r, j + 1, h) \in Seq(Line) /\ Len(SubSeq(r, j + 1, h)) = h - (j + 1) + 1
    BY <1>1, <2>1, SubSeqProperties
  <2> DEFINE a == SubSeq(r, j + 1, h)
  <2>3. a \in Seq(Line) /\ Len(a) = h - j
    BY <2>1, <2>2
  <2> HIDE DEF a, h, r
  <2>4. Len(Append(a, x)) = h - j + 1
    BY <2>3
  <2>5. QED
    BY <2>3, <2>4 DEF a
<1>5. SUFFICES /\ k < h => C(k) <= n
               /\ k > 0 => C(k - 1) > n
  <2>1. k > 0 => (k - 1) + 1 = k
    BY <1>3
  <2>2. QED
    BY <1>3, <1>5, <2>1
<1>6. CASE g.unit = "lines"
  <2>1. \A j \in 0 .. h : C(j) = h - j + 1
    BY <1>4, <1>6 DEF Cost
  <2>2. k = IF h >= n THEN 1 ELSE 0
    BY <1>6, PoppedType
  <2> HIDE DEF C, h, k, n
  <2>3. QED
    BY <1>1, <1>3, <1>6, <2>1, <2>2
<1>7. CASE g.unit = "bytes"
  <2> DEFINE Fits(j) == g.byte_count - Bytes(SubSeq(r, 1, j)) + w <= n
             K == {h} \cup {j \in 0 .. h : Fits(j)}
  <2>1. ASSUME NEW j \in 0 .. h
        PROVE  C(j) \in Nat /\ (Fits(j) <=> C(j) <= n)
    <3>1. /\ SubSeq(r, 1, j) \in Seq(Line)
          /\ Bytes(r) = Bytes(SubSeq(r, 1, j)) + Bytes(SubSeq(r, j + 1, h))
      BY <1>1, BytesSplit
    <3>2. C(j) = Bytes(SubSeq(r, j + 1, h)) + w
      BY <1>4, <1>7, BytesAppend DEF Cost
    <3>3. Bytes(SubSeq(r, 1, j)) \in Nat /\ Bytes(SubSeq(r, j + 1, h)) \in Nat
      BY <1>4, <3>1, BytesType
    <3>4. g.byte_count = Bytes(r)
      BY <1>7, KindDecides DEF Counted, TailStage
    <3> DEFINE b == Bytes(SubSeq(r, 1, j))
               c == Bytes(SubSeq(r, j + 1, h))
               d == Bytes(r)
               e == C(j)
    <3>5. e = c + w /\ d = b + c /\ b \in Nat /\ c \in Nat
      BY <3>1, <3>2, <3>3
    <3>6. Fits(j) <=> d - b + w <= n
      BY <3>4
    <3> HIDE DEF b, c, d, e, Fits
    <3>7. e \in Nat /\ (Fits(j) <=> e <= n)
      BY <1>1, <1>2, <3>5, <3>6
    <3>8. QED
      BY <3>7 DEF e
  <2>2. k = Min(K)
    BY <1>7 DEF PoppedFor
  <2>3. K \in SUBSET Nat /\ K # {}
    BY <1>1
  <2>4. Min(K) \in K /\ \A j \in K : Min(K) <= j
    <3> HIDE DEF K
    <3>1. QED
      BY <2>3, BytesFold!MinOfNaturals DEF BytesFold!Min, Min
  <2> HIDE DEF C, h, k, n, Fits
  <2>5. k < h => C(k) <= n
    BY <1>1, <1>3, <2>1, <2>2, <2>4
  <2>6. ASSUME k > 0 PROVE C(k - 1) > n
    <3>1. k - 1 \in 0 .. h /\ ~(k <= k - 1)
      BY <1>1, <1>3, <2>6
    <3>2. k - 1 \notin K
      BY <2>2, <2>4, <3>1
    <3>3. ~Fits(k - 1)
      BY <3>1, <3>2
    <3>4. C(k - 1) \in Nat /\ ~(C(k - 1) <= n)
      BY <2>1, <3>1, <3>3
    <3>5. QED
      BY <1>1, <3>4
  <2>7. QED
    BY <2>5, <2>6
<1>8. QED
  BY <1>1, <1>6, <1>7

\* Where keep_tail is after a stream: its ring is the longest tail, and it has
\* emitted nothing.
TailHolds(s, t, p) ==
    /\ p.stage.kind = "KeepTail"
    /\ p.stage.unit = s.unit
    /\ p.stage.n = s.n
    /\ p.out = <<>>
    /\ \E h \in 0 .. Len(t) : /\ IsTail(t, s.unit, s.n, h)
                              /\ p.stage.ring = Suffix(t, h)

\* One line more at keep_tail.
LEMMA TailMore ==
    ASSUME NEW s \in TailStage, NEW t \in Seq(Line), NEW x \in Line,
           NEW p \in Progress, NEW q \in Progress, TailHolds(s, t, p),
           q.stage = Step(p.stage, x).stage,
           q.out = p.out \o Step(p.stage, x).out
    PROVE  TailHolds(s, Append(t, x), q)
<1> DEFINE m == Len(t)
           u == Append(t, x)
           g == p.stage
           r == g.ring
           unit == s.unit
           n == s.n
           k == PoppedFor(g, x)
<1>1. n \in Nat /\ unit \in Units /\ g \in Live
  BY DEF TailStage, Progress, Units
<1>2. g.kind = "KeepTail" /\ g.unit = unit /\ g.n = n /\ p.out = <<>>
  BY DEF TailHolds
<1>3. PICK h \in 0 .. m : IsTail(t, unit, n, h) /\ r = Suffix(t, h)
  BY DEF TailHolds
<1>4. g \in TailStage /\ Counted(g)
  BY <1>1, <1>2, KindDecides DEF Live
<1>5. g \in [kind: {"KeepTail"}, unit: {"lines", "bytes"}, n: Nat \ {0},
             ring: Seq(Line), byte_count: Nat]
  BY <1>4 DEF TailStage
<1>6. m \in Nat /\ Len(u) = m + 1 /\ u \in Seq(Line) /\ h \in Nat /\ h <= m
  OBVIOUS
<1>7. /\ Len(r) = h /\ r \in Seq(Line)
      /\ \A j \in 0 .. h : SubSeq(r, j + 1, h) = Suffix(t, h - j)
      /\ \A j \in 0 .. m : Suffix(u, j + 1) = Append(Suffix(t, j), x)
  <2>1. /\ Suffix(t, h) \in Seq(Line) /\ Len(Suffix(t, h)) = h
        /\ \A j \in 0 .. h : SubSeq(Suffix(t, h), j + 1, h) = Suffix(t, h - j)
    BY SuffixStep
  <2>2. \A j \in 0 .. m : Suffix(u, j + 1) = Append(Suffix(t, j), x)
    BY SuffixStep
  <2>3. QED
    BY <1>3, <2>1, <2>2
<1> DEFINE f == [g EXCEPT !.ring = Append(SubSeq(@, k + 1, Len(@)), x),
                          !.byte_count = IF g.unit = "lines" THEN 0
                             ELSE g.byte_count - Bytes(SubSeq(g.ring, 1, k))
                                    + Width[x.text]]
<1>8. Step(g, x) = Emit(f, <<>>)
  BY <1>2 DEF Step, KeepTailStep
<1>9. /\ f.kind = "KeepTail" /\ f.unit = unit /\ f.n = n
      /\ f.ring = Append(SubSeq(r, k + 1, Len(r)), x)
  BY <1>2, <1>5
<1>10. /\ k \in 0 .. h
       /\ k < h => Cost(Append(SubSeq(r, k + 1, h), x), unit) <= n
       /\ k > 0 => Cost(Append(SubSeq(r, k, h), x), unit) > n
  BY <1>2, <1>4, <1>7, PoppedIs
<1> HIDE DEF k, f, m, g, u, r
<1>11. SubSeq(r, k + 1, h) = Suffix(t, h - k)
  BY <1>7, <1>10
<1>12. k > 0 => SubSeq(r, k, h) = Suffix(t, h - k + 1)
  <2>1. ASSUME k > 0 PROVE SubSeq(r, k, h) = Suffix(t, h - k + 1)
    <3>0. k \in 0 .. h
      BY <1>10
    <3>1. k - 1 \in 0 .. h /\ (k - 1) + 1 = k /\ h - (k - 1) = h - k + 1
      BY <1>6, <2>1, <3>0
    <3>2. SubSeq(r, (k - 1) + 1, h) = Suffix(t, h - (k - 1))
      BY <1>7, <3>1
    <3>3. QED
      BY <3>1, <3>2
  <2>2. QED
    BY <2>1
<1>13. IsTail(u, unit, n, h - k + 1)
  <2>1. k < h => Cost(Append(Suffix(t, h - k), x), unit) <= n
    BY <1>10, <1>11
  <2>2. k > 0 => Cost(Append(Suffix(t, h - k + 1), x), unit) > n
    BY <1>10, <1>12
  <2>3. h \in 0 .. Len(t)
    BY DEF m
  <2> HIDE DEF unit, n
  <2>4. QED
    BY <1>1, <1>3, <1>10, <2>1, <2>2, <2>3, TailOn DEF u
<1>14. f.ring = Suffix(u, h - k + 1)
  <2>1. h - k \in 0 .. m
    BY <1>6, <1>10
  <2>2. QED
    BY <1>7, <1>9, <1>11, <2>1
<1>15. h - k + 1 \in 0 .. m + 1
  BY <1>6, <1>10
<1>16. q.stage = f /\ q.out = <<>>
  <2>1. q.stage = f /\ q.out = p.out \o <<>>
    BY <1>8 DEF Emit, g
  <2>2. QED
    BY <1>2, <2>1, LinesJoin
<1>17. QED
  BY <1>6, <1>9, <1>13, <1>14, <1>15, <1>16 DEF TailHolds, u

\* No line has no tail.
LEMMA TailEmpty ==
    ASSUME NEW unit, NEW n PROVE IsTail(<<>>, unit, n, 0)
  BY DEF IsTail

\* keep_tail on a whole stream keeps the longest tail, and the last line
\* whatever it costs.
LEMMA WholeTail ==
    ASSUME NEW s \in TailStage, s.ring = <<>>, s.byte_count = 0,
           NEW lines \in Seq(Line)
    PROVE  Whole(s, lines)
             = SubSeq(lines, Len(lines) - LongestTail(lines, s.unit, s.n) + 1,
                      Len(lines))
<1> DEFINE F == [t \in Seq(Line) |-> {p \in Progress : TailHolds(s, t, p)}]
<1>1. \A t \in Seq(Line) : F[t] = {p \in Progress : TailHolds(s, t, p)}
  OBVIOUS
<1> HIDE DEF F
<1>2. s.kind = "KeepTail" /\ s \in Live /\ s.unit \in Units /\ s.n \in Nat
  BY BytesEmpty DEF TailStage, Live, Stage, Counted, Units
<1>3. Emit(s, <<>>) \in F[<<>>]
  <2> DEFINE e == Emit(s, <<>>)
  <2>1. e \in Progress /\ e.stage = s /\ e.out = <<>>
    BY <1>2, LinesJoin DEF Progress, Emit
  <2>2. <<>> \in Seq(Line) /\ Len(<<>>) = 0 /\ 0 \in 0 .. Len(<<>>)
    OBVIOUS
  <2>3. Suffix(<<>>, 0) = <<>>
    BY <2>2, SuffixStep
  <2> HIDE DEF e
  <2>4. TailHolds(s, <<>>, e)
    BY <1>2, <2>1, <2>2, <2>3, TailEmpty DEF TailHolds
  <2>5. F[<<>>] = {p \in Progress : TailHolds(s, <<>>, p)}
    BY <1>1, LinesJoin
  <2>6. QED
    BY <2>1, <2>4, <2>5 DEF e
<1>4. ASSUME NEW t \in Seq(Line), NEW x \in Line, NEW p \in Progress,
             NEW q \in Progress, p \in F[t],
             q.stage = Step(p.stage, x).stage,
             q.out = p.out \o Step(p.stage, x).out
      PROVE  q \in F[Append(t, x)]
  <2>1. TailHolds(s, t, p)
    BY <1>1, <1>4
  <2>2. TailHolds(s, Append(t, x), q)
    BY <1>4, <2>1, TailMore
  <2>3. F[Append(t, x)] = {y \in Progress : TailHolds(s, Append(t, x), y)}
    BY <1>1, LineAdded
  <2>4. QED
    BY <2>2, <2>3
<1> DEFINE r == StepAll(s, lines)
<1>5. r \in F[lines] /\ r \in Progress
  BY <1>2, <1>3, <1>4, StreamRelation
<1> HIDE DEF r
<1>6. TailHolds(s, lines, r)
  BY <1>1, <1>5
<1>7. PICK h \in 0 .. Len(lines) :
        IsTail(lines, s.unit, s.n, h) /\ r.stage.ring = Suffix(lines, h)
  BY <1>6 DEF TailHolds
<1>8. LongestTail(lines, s.unit, s.n) = h
  BY <1>2, <1>7, TailIs
<1>9. Flush(r.stage).out = Suffix(lines, h)
  BY <1>6, <1>7 DEF Flush, Emit, TailHolds
<1>10. r.out = <<>>
  BY <1>6 DEF TailHolds
<1>11. <<>> \o Suffix(lines, h) = Suffix(lines, h)
  <2>1. Suffix(lines, h) \in Seq(Line)
    BY SuffixStep
  <2>2. QED
    BY <2>1, LinesJoin
<1>12. QED
  BY <1>8, <1>9, <1>10, <1>11 DEF Whole, r, Suffix

-----------------------------------------------------------------------------
\* The positions within b before or a after one of the positions of H.
Near(H, b, a) == {i \in Nat : \E m \in H : m - b <= i /\ i <= m + a}

\* After n lines, of which H match, the last c wait in the context and the
\* next e lines are in a window whatever they are.
NearState(H, n, b, a, c, e) ==
    /\ c \in 0 .. n /\ c <= b /\ e \in Nat
    /\ c > 0 => e = 0
    /\ \A j \in Nat \ {0} : (\E m \in H : n + j <= m + a) <=> j <= e
    /\ \A i \in n - c + 1 .. n : i \notin Near(H, b, a)
    /\ \A i \in 1 .. n - c : i \in Near(H, b, a) \/ i < (n + 1) - b

\* A match takes the context with it and opens the window of the next a lines;
\* no line given up before it is in its window.
LEMMA NearHit ==
    ASSUME NEW n \in Nat, NEW b \in Nat, NEW a \in Nat, NEW H \in SUBSET (1 .. n),
           NEW c, NEW e, NearState(H, n, b, a, c, e)
    PROVE  LET M == H \cup {n + 1} IN
           /\ NearState(M, n + 1, b, a, 0, a)
           /\ \A i \in 1 .. n - c : i \in Near(M, b, a) <=> i \in Near(H, b, a)
           /\ \A i \in n - c + 1 .. n + 1 : i \in Near(M, b, a)
<1> DEFINE M == H \cup {n + 1}
<1>1. /\ c \in 0 .. n /\ c <= b /\ e \in Nat
      /\ \A i \in 1 .. n - c : i \in Near(H, b, a) \/ i < (n + 1) - b
  BY DEF NearState
<1>2. \A i \in Nat : i \in Near(M, b, a)
        <=> \/ i \in Near(H, b, a)
            \/ (n + 1) - b <= i /\ i <= (n + 1) + a
  BY DEF Near
<1>3. \A i \in 1 .. n - c : i \in Near(M, b, a) <=> i \in Near(H, b, a)
  <2>1. SUFFICES ASSUME NEW i \in 1 .. n - c
                 PROVE  i \in Near(M, b, a) <=> i \in Near(H, b, a)
    OBVIOUS
  <2>2. i \in Nat /\ (i < (n + 1) - b => ~((n + 1) - b <= i))
    BY <1>1
  <2>3. QED
    BY <1>1, <1>2, <2>2
<1>4. \A i \in n - c + 1 .. n + 1 : i \in Near(M, b, a)
  <2>1. SUFFICES ASSUME NEW i \in n - c + 1 .. n + 1 PROVE i \in Near(M, b, a)
    OBVIOUS
  <2>2. i \in Nat /\ (n + 1) - b <= i /\ i <= (n + 1) + a
    BY <1>1
  <2>3. QED
    BY <1>2, <2>2
<1>5. \A j \in Nat \ {0} : (\E m \in M : (n + 1) + j <= m + a) <=> j <= a
  <2>1. SUFFICES ASSUME NEW j \in Nat \ {0}
                 PROVE  (\E m \in M : (n + 1) + j <= m + a) <=> j <= a
    OBVIOUS
  <2>2. \A m \in M : m \in 1 .. n + 1
    OBVIOUS
  <2>3. ASSUME NEW m \in M, (n + 1) + j <= m + a PROVE j <= a
    BY <2>2, <2>3
  <2>4. ASSUME j <= a PROVE n + 1 \in M /\ (n + 1) + j <= (n + 1) + a
    BY <2>4
  <2> HIDE DEF M
  <2>5. QED
    BY <2>3, <2>4
<1>6. \A i \in 1 .. (n + 1) - 0 :
         i \in Near(M, b, a) \/ i < ((n + 1) + 1) - b
  <2>1. SUFFICES ASSUME NEW i \in 1 .. n + 1, ~(i < ((n + 1) + 1) - b)
                 PROVE  i \in Near(M, b, a)
    OBVIOUS
  <2>2. i \in Nat /\ (n + 1) - b <= i /\ i <= (n + 1) + a
    BY <2>1
  <2>3. QED
    BY <1>2, <2>2
<1> HIDE DEF M
<1>7. NearState(M, n + 1, b, a, 0, a)
  <2>1. 0 \in 0 .. n + 1 /\ 0 <= b /\ (n + 1) - 0 + 1 .. n + 1 = {}
    OBVIOUS
  <2>2. QED
    BY <1>5, <1>6, <2>1 DEF NearState
<1>8. QED
  BY <1>3, <1>4, <1>7 DEF M

\* A line that does not match uses one of the lines of an open window.
LEMMA NearOn ==
    ASSUME NEW n \in Nat, NEW b \in Nat, NEW a \in Nat, NEW H \in SUBSET (1 .. n),
           NEW c, NEW e, NearState(H, n, b, a, c, e), e > 0
    PROVE  /\ c = 0 /\ n + 1 \in Near(H, b, a)
           /\ NearState(H, n + 1, b, a, 0, e - 1)
<1>1. /\ c \in 0 .. n /\ e \in Nat /\ e - 1 \in Nat
      /\ c > 0 => e = 0
      /\ \A j \in Nat \ {0} : (\E m \in H : n + j <= m + a) <=> j <= e
      /\ \A i \in 1 .. n - c : i \in Near(H, b, a) \/ i < (n + 1) - b
  BY DEF NearState
<1>2. c = 0
  BY <1>1
<1>3. n + 1 \in Near(H, b, a)
  <2>1. PICK m \in H : n + 1 <= m + a
    <3>1. 1 \in Nat \ {0} /\ 1 <= e
      BY <1>1
    <3>2. QED
      BY <1>1, <3>1
  <2>2. m \in 1 .. n /\ n + 1 \in Nat /\ m - b <= n + 1
    OBVIOUS
  <2>3. QED
    BY <2>1, <2>2 DEF Near
<1>4. \A j \in Nat \ {0} : (\E m \in H : (n + 1) + j <= m + a) <=> j <= e - 1
  <2>1. SUFFICES ASSUME NEW j \in Nat \ {0}
                 PROVE  (\E m \in H : (n + 1) + j <= m + a) <=> j <= e - 1
    OBVIOUS
  <2>2. j + 1 \in Nat \ {0} /\ n + (j + 1) = (n + 1) + j
        /\ (j + 1 <= e <=> j <= e - 1)
    BY <1>1
  <2>3. (\E m \in H : n + (j + 1) <= m + a) <=> j + 1 <= e
    BY <1>1, <2>2
  <2>4. QED
    BY <2>2, <2>3
<1>5. \A i \in 1 .. (n + 1) - 0 :
         i \in Near(H, b, a) \/ i < ((n + 1) + 1) - b
  <2>1. SUFFICES ASSUME NEW i \in 1 .. n + 1
                 PROVE  i \in Near(H, b, a) \/ i < ((n + 1) + 1) - b
    OBVIOUS
  <2>2. CASE i = n + 1
    BY <1>3, <2>2
  <2>3. CASE i # n + 1
    <3>1. i \in 1 .. n - c /\ (i < (n + 1) - b => i < ((n + 1) + 1) - b)
      BY <1>2, <2>3
    <3>2. QED
      BY <1>1, <3>1
  <2>4. QED
    BY <2>2, <2>3
<1>6. 0 \in 0 .. n + 1 /\ 0 <= b /\ (n + 1) - 0 + 1 .. n + 1 = {}
  OBVIOUS
<1>7. NearState(H, n + 1, b, a, 0, e - 1)
  BY <1>1, <1>4, <1>5, <1>6 DEF NearState
<1>8. QED
  BY <1>2, <1>3, <1>7

\* A line outside every window waits in the context, if there is one.
LEMMA NearWait ==
    ASSUME NEW n \in Nat, NEW b \in Nat, NEW a \in Nat, NEW H \in SUBSET (1 .. n),
           NEW c, NearState(H, n, b, a, c, 0),
           NEW d, d = IF c >= b THEN c ELSE c + 1
    PROVE  n + 1 \notin Near(H, b, a) /\ NearState(H, n + 1, b, a, d, 0)
<1>1. /\ c \in 0 .. n /\ c <= b
      /\ \A j \in Nat \ {0} : ~\E m \in H : n + j <= m + a
      /\ \A i \in n - c + 1 .. n : i \notin Near(H, b, a)
      /\ \A i \in 1 .. n - c : i \in Near(H, b, a) \/ i < (n + 1) - b
  <2>1. \A j \in Nat \ {0} : ~(j <= 0)
    OBVIOUS
  <2>2. \A j \in Nat \ {0} : (\E m \in H : n + j <= m + a) <=> j <= 0
    BY DEF NearState
  <2>3. QED
    BY <2>1, <2>2 DEF NearState
<1>2. n + 1 \notin Near(H, b, a)
  <2>1. 1 \in Nat \ {0}
    OBVIOUS
  <2>2. ~\E m \in H : n + 1 <= m + a
    BY <1>1, <2>1
  <2>3. QED
    BY <2>2 DEF Near
<1>3. \A j \in Nat \ {0} : (\E m \in H : (n + 1) + j <= m + a) <=> j <= 0
  <2>1. SUFFICES ASSUME NEW j \in Nat \ {0}
                 PROVE  ~(\E m \in H : (n + 1) + j <= m + a) /\ ~(j <= 0)
    OBVIOUS
  <2>2. j + 1 \in Nat \ {0} /\ n + (j + 1) = (n + 1) + j /\ ~(j <= 0)
    OBVIOUS
  <2>3. QED
    BY <1>1, <2>2
<1>4. d \in 0 .. n + 1 /\ d <= b /\ (d = c \/ d = c + 1) /\ (d = c => c >= b)
  BY <1>1
<1>5. \A i \in (n + 1) - d + 1 .. n + 1 : i \notin Near(H, b, a)
  <2>1. SUFFICES ASSUME NEW i \in (n + 1) - d + 1 .. n + 1
                 PROVE  i \notin Near(H, b, a)
    OBVIOUS
  <2>2. CASE i = n + 1
    BY <1>2, <2>2
  <2>3. CASE i # n + 1
    <3>1. i \in n - c + 1 .. n
      BY <1>1, <1>4, <2>3
    <3>2. QED
      BY <1>1, <3>1
  <2>4. QED
    BY <2>2, <2>3
<1>6. \A i \in 1 .. (n + 1) - d :
         i \in Near(H, b, a) \/ i < ((n + 1) + 1) - b
  <2>1. SUFFICES ASSUME NEW i \in 1 .. (n + 1) - d
                 PROVE  i \in Near(H, b, a) \/ i < ((n + 1) + 1) - b
    OBVIOUS
  <2>2. CASE d = c
    <3>1. i < ((n + 1) + 1) - b
      BY <1>1, <1>4, <2>2
    <3>2. QED
      BY <3>1
  <2>3. CASE d = c + 1
    <3>1. i \in 1 .. n - c /\ (i < (n + 1) - b => i < ((n + 1) + 1) - b)
      BY <1>1, <2>3
    <3>2. QED
      BY <1>1, <3>1
  <2>4. QED
    BY <1>4, <2>2, <2>3
<1>7. NearState(H, n + 1, b, a, d, 0)
  BY <1>3, <1>4, <1>5, <1>6 DEF NearState
<1>8. QED
  BY <1>2, <1>7

\* Where keep_around_match is after a stream, and what it has emitted: the
\* lines in a window, none of which still waits in the context.
AroundHolds(s, t, p) ==
    LET n == Len(t)
        H == Hits(t, s.pattern)
        W == Near(H, s.before, s.after)
    IN  /\ p.stage.kind = "KeepAroundMatch"
        /\ p.stage.pattern = s.pattern
        /\ p.stage.before = s.before /\ p.stage.after = s.after
        /\ p.out = Chosen(t, W)
        /\ \E c \in 0 .. n :
              /\ NearState(H, n, s.before, s.after, c, p.stage.emit_after)
              /\ p.stage.ctx_buf = Suffix(t, c)
              /\ p.out = Chosen(SubSeq(t, 1, n - c), W)

\* The matches of a stream that a line is added to.
LEMMA HitsStep ==
    ASSUME NEW t \in Seq(Line), NEW x \in Line, NEW S
    PROVE  /\ Hits(t, S) \in SUBSET (1 .. Len(t))
           /\ x.text \in S =>
                Hits(Append(t, x), S) = Hits(t, S) \cup {Len(t) + 1}
           /\ x.text \notin S => Hits(Append(t, x), S) = Hits(t, S)
<1> DEFINE n == Len(t)
           u == Append(t, x)
           H == Hits(t, S)
           M == Hits(u, S)
<1>1. n \in Nat /\ DOMAIN u = 1 .. n + 1 /\ DOMAIN t = 1 .. n
  OBVIOUS
<1>2. H \in SUBSET (1 .. n) /\ M \in SUBSET (1 .. n + 1)
  BY <1>1 DEF Hits
<1>3. /\ \A j \in 1 .. n : j \in M <=> j \in H
      /\ n + 1 \in M <=> x.text \in S
  BY HitsAppend
<1> HIDE DEF n, u, H, M
<1>4. \A j \in 1 .. n + 1 : j \in 1 .. n \/ j = n + 1
  BY <1>1
<1>5. n + 1 \notin 1 .. n
  BY <1>1
<1>6. x.text \in S => M = H \cup {n + 1}
  BY <1>2, <1>3, <1>4
<1>7. x.text \notin S => M = H
  BY <1>2, <1>3, <1>4, <1>5
<1>8. QED
  BY <1>2, <1>6, <1>7 DEF n, u, H, M

\* What is chosen of a line more, for one stream and one set.
LEMMA ChosenAppend ==
    ASSUME NEW t \in Seq(Line), NEW x \in Line, NEW K, NEW n, n = Len(t) + 1
    PROVE  /\ n \in K => Chosen(Append(t, x), K) = Chosen(t, K) \o <<x>>
           /\ n \notin K => Chosen(Append(t, x), K) = Chosen(t, K)
<1>1. Chosen(Append(t, x), K) = Chosen(t, K) \o IF n \in K THEN <<x>> ELSE <<>>
  BY ChosenStep
<1>2. Chosen(t, K) \o <<>> = Chosen(t, K)
  BY ChosenStep, LinesJoin
<1>3. QED
  BY <1>1, <1>2

\* What was chosen while c lines wait is still what is chosen when a line
\* more waits.
LEMMA ChosenWait ==
    ASSUME NEW t \in Seq(Line), NEW x \in Line, NEW W, NEW c \in 0 .. Len(t),
           NEW d, d = c \/ d = c + 1,
           \A i \in Len(t) - c + 1 .. Len(t) : i \notin W,
           Len(t) + 1 \notin W,
           Chosen(t, W) = Chosen(SubSeq(t, 1, Len(t) - c), W)
    PROVE  LET u == Append(t, x) IN
           /\ Chosen(u, W) = Chosen(t, W)
           /\ Chosen(SubSeq(u, 1, (Len(t) + 1) - d), W) = Chosen(t, W)
<1> DEFINE n == Len(t)
           u == Append(t, x)
           a == SubSeq(t, 1, n - c)
<1>1. /\ n \in Nat /\ c \in 0 .. n /\ u \in Seq(Line) /\ Len(u) = n + 1
      /\ \A i \in 1 .. n + 1 : u[i] \in Line
  OBVIOUS
<1>2. Chosen(t, W) \in Seq(Line)
  BY ChosenStep
<1>3. Chosen(u, W) = Chosen(t, W)
  <2>1. Chosen(u, W) = Chosen(t, W) \o <<>>
    BY ChosenStep
  <2>2. QED
    BY <1>2, <2>1, LinesJoin
<1>4. \A k \in 0 .. n : SubSeq(u, 1, k) = SubSeq(t, 1, k)
  BY PartsAppend
<1>5. n - c \in 0 .. n /\ n - c + 1 \in 1 .. n + 1 /\ n - c + 1 \notin W
  <2>1. n - c \in 0 .. n /\ n - c + 1 \in 1 .. n + 1
    BY <1>1
  <2>2. c # 0 => n - c + 1 \in n - c + 1 .. n
    BY <1>1
  <2>3. c = 0 => n - c + 1 = n + 1
    BY <1>1
  <2>4. QED
    BY <2>1, <2>2, <2>3
<1>6. a \in Seq(Line) /\ Len(a) = n - c /\ a = SubSeq(u, 1, n - c)
  BY <1>1, <1>4, <1>5
<1>7. CASE d = c + 1
  <2>1. (n + 1) - d = n - c
    BY <1>1, <1>7
  <2>2. QED
    BY <1>3, <1>6, <2>1
<1>8. CASE d = c
  <2>1. (n + 1) - d = n - c + 1
    BY <1>1, <1>8
  <2> DEFINE y == u[n - c + 1]
  <2>2. SubSeq(u, 1, n - c + 1) = Append(SubSeq(u, 1, n - c), y)
    <3>1. n - c \in Nat /\ n - c + 1 \in 1 .. Len(u)
      BY <1>1, <1>5
    <3> HIDE DEF n, u
    <3>2. n - c \in 0 .. Len(u) - 1
      BY <1>1, <3>1
    <3>3. QED
      BY <1>1, <3>1, <3>2, PrefixAppend
  <2>3. y \in Line
    BY <1>1, <1>5
  <2> HIDE DEF y, a
  <2>4. n - c + 1 = Len(a) + 1
    BY <1>6
  <2>5. Chosen(Append(a, y), W) = Chosen(a, W)
    <3>1. \A k : k = Len(a) + 1 /\ k \notin W =>
                    Chosen(Append(a, y), W) = Chosen(a, W)
      BY <1>6, <2>3, ChosenAppend
    <3> HIDE DEF n
    <3>2. QED
      BY <1>5, <2>4, <3>1
  <2>6. Chosen(a, W) = Chosen(t, W)
    BY DEF a
  <2>7. QED
    BY <1>3, <1>6, <2>1, <2>2, <2>5, <2>6
<1>9. QED
  BY <1>7, <1>8

\* What is chosen when a match takes the context with it.
LEMMA ChosenHit ==
    ASSUME NEW t \in Seq(Line), NEW x \in Line, NEW W, NEW V,
           NEW c \in 0 .. Len(t),
           \A i \in 1 .. Len(t) - c : i \in V <=> i \in W,
           \A i \in Len(t) - c + 1 .. Len(t) + 1 : i \in V
    PROVE  Chosen(Append(t, x), V)
             = Chosen(SubSeq(t, 1, Len(t) - c), W) \o Append(Suffix(t, c), x)
<1> DEFINE n == Len(t)
           u == Append(t, x)
           m == n - c
           a == SubSeq(t, 1, m)
<1>1. /\ n \in Nat /\ c \in 0 .. n /\ u \in Seq(Line) /\ Len(u) = n + 1
      /\ m \in 0 .. n /\ m \in 0 .. n + 1
  OBVIOUS
<1>2. SubSeq(u, 1, m) = a /\ SubSeq(u, m + 1, n + 1) = Append(SubSeq(t, m + 1, n), x)
  BY <1>1, PartsAppend
<1>3. a \in Seq(Line) /\ Len(a) = m
  BY <1>1
<1>4. SubSeq(t, m + 1, n) = Suffix(t, c)
  BY DEF Suffix
<1>5. Chosen(u, V) = Chosen(SubSeq(u, 1, m), V) \o SubSeq(u, m + 1, n + 1)
  <2>1. \A i \in m + 1 .. Len(u) : i \in V
    BY <1>1
  <2> HIDE DEF m, u, n
  <2>2. m \in 0 .. Len(u)
    BY <1>1
  <2>3. Chosen(u, V) = Chosen(SubSeq(u, 1, m), V) \o SubSeq(u, m + 1, Len(u))
    BY <1>1, <2>1, <2>2, ChosenRest
  <2>4. QED
    BY <1>1, <2>3
<1>6. Chosen(a, V) = Chosen(a, W)
  <2>1. \A i \in 1 .. m : i \in V <=> i \in W
    OBVIOUS
  <2> HIDE DEF a, m
  <2>2. QED
    BY <1>3, <2>1, ChosenSame
<1>7. QED
  BY <1>2, <1>4, <1>5, <1>6

\* One line more at keep_around_match.
LEMMA AroundMore ==
    ASSUME NEW s \in AroundStage, NEW t \in Seq(Line), NEW x \in Line,
           NEW p \in Progress, NEW q \in Progress, AroundHolds(s, t, p),
           q.stage = Step(p.stage, x).stage,
           q.out = p.out \o Step(p.stage, x).out
    PROVE  AroundHolds(s, Append(t, x), q)
<1> DEFINE n == Len(t)
           u == Append(t, x)
           g == p.stage
           S == s.pattern
           b == s.before
           a == s.after
           H == Hits(t, S)
           M == Hits(u, S)
           W == Near(H, b, a)
           V == Near(M, b, a)
           e == g.emit_after
           ctx == g.ctx_buf
<1>1. b \in Nat /\ a \in Nat /\ g \in Live /\ p.out \in Seq(Line)
  BY DEF AroundStage, Progress
<1>2. /\ g.kind = "KeepAroundMatch" /\ g.pattern = S /\ g.before = b /\ g.after = a
      /\ p.out = Chosen(t, W)
  BY DEF AroundHolds
<1>3. PICK c \in 0 .. n :
        /\ NearState(H, n, b, a, c, e) /\ ctx = Suffix(t, c)
        /\ p.out = Chosen(SubSeq(t, 1, n - c), W)
  BY DEF AroundHolds
<1>4. g \in [kind: {"KeepAroundMatch"}, pattern: Pats, before: Nat, after: Nat,
             ctx_buf: Seq(Line), emit_after: Nat]
  BY <1>1, <1>2, KindDecides DEF Live, AroundStage
<1>5. n \in Nat /\ u \in Seq(Line) /\ Len(u) = n + 1 /\ c \in Nat /\ e \in Nat
  BY <1>4
<1>6. /\ H \in SUBSET (1 .. n)
      /\ x.text \in S => M = H \cup {n + 1}
      /\ x.text \notin S => M = H
  BY HitsStep
<1>7. Step(g, x) = KeepAroundStep(g, x)
  BY <1>2 DEF Step
<1>8. SUFFICES /\ q.stage.kind = "KeepAroundMatch" /\ q.stage.pattern = S
               /\ q.stage.before = b /\ q.stage.after = a
               /\ q.out = Chosen(u, V)
               /\ \E d \in 0 .. n + 1 :
                     /\ NearState(M, n + 1, b, a, d, q.stage.emit_after)
                     /\ q.stage.ctx_buf = Suffix(u, d)
                     /\ q.out = Chosen(SubSeq(u, 1, (n + 1) - d), V)
  BY <1>5 DEF AroundHolds
<1>9. /\ Suffix(u, 0) = <<>> /\ SubSeq(u, 1, (n + 1) - 0) = u
      /\ 0 \in 0 .. n + 1
      /\ \A k \in 0 .. n : Suffix(u, k + 1) = Append(Suffix(t, k), x)
  <2>1. SubSeq(u, 1, n + 1) = u /\ (n + 1) - 0 = n + 1
    BY <1>5, PartsAppend
  <2>2. Suffix(u, 0) = <<>>
    <3> HIDE DEF u
    <3>1. 0 \in 0 .. Len(u)
      BY <1>5
    <3>2. QED
      BY <1>5, <3>1, SuffixStep
  <2>3. \A k \in 0 .. n : Suffix(u, k + 1) = Append(Suffix(t, k), x)
    BY SuffixStep
  <2>4. QED
    BY <1>5, <2>1, <2>2, <2>3
<1>10. c > 0 => e = 0
  BY <1>3 DEF NearState
<1>11. c <= b /\ \A i \in n - c + 1 .. n : i \notin W
  BY <1>3 DEF NearState
<1>12. CASE x.text \in S
  <2> DEFINE f == [g EXCEPT !.ctx_buf = <<>>, !.emit_after = g.after]
  <2>1. /\ f.kind = "KeepAroundMatch" /\ f.pattern = S /\ f.before = b
        /\ f.after = a /\ f.ctx_buf = <<>> /\ f.emit_after = a
    BY <1>2, <1>4
  <2> DEFINE y == Append(ctx, x)
  <2>2. Step(g, x) = Emit(f, y)
    BY <1>2, <1>7, <1>12 DEF KeepAroundStep
  <2> HIDE DEF f, y
  <2>3. q.stage = f /\ q.out = p.out \o y
    BY <2>2 DEF Emit
  <2> HIDE DEF n, u, H, M, e, ctx, g, b, a
  <2>4. M = H \cup {n + 1}
    BY <1>6, <1>12
  <2>5. /\ NearState(M, n + 1, b, a, 0, a)
        /\ \A i \in 1 .. n - c : i \in V <=> i \in W
        /\ \A i \in n - c + 1 .. n + 1 : i \in V
    BY <1>1, <1>3, <1>5, <1>6, <2>4, NearHit
  <2> HIDE DEF V, W
  <2>6. Chosen(u, V) = Chosen(SubSeq(t, 1, n - c), W) \o Append(Suffix(t, c), x)
    BY <2>5, ChosenHit DEF n, u
  <2>7. q.out = Chosen(u, V)
    BY <1>3, <2>3, <2>6 DEF y
  <2>8. QED
    BY <1>9, <2>1, <2>3, <2>5, <2>7
<1>13. CASE x.text \notin S /\ e > 0
  <2> DEFINE f == [g EXCEPT !.emit_after = @ - 1]
  <2>1. /\ f.kind = "KeepAroundMatch" /\ f.pattern = S /\ f.before = b
        /\ f.after = a /\ f.ctx_buf = ctx /\ f.emit_after = e - 1
    BY <1>2, <1>4
  <2>2. Step(g, x) = Emit(f, <<x>>)
    BY <1>2, <1>7, <1>13 DEF KeepAroundStep
  <2> HIDE DEF f
  <2>3. q.stage = f /\ q.out = p.out \o <<x>>
    BY <2>2 DEF Emit
  <2> HIDE DEF n, u, H, M, e, ctx, g, b, a
  <2>4. M = H
    BY <1>6, <1>13
  <2>5. c = 0 /\ n + 1 \in W /\ NearState(M, n + 1, b, a, 0, e - 1)
    BY <1>1, <1>3, <1>5, <1>6, <1>13, <2>4, NearOn
  <2>6. V = W
    BY <2>4
  <2> HIDE DEF V, W
  <2>7. Chosen(u, V) = Chosen(t, V) \o IF n + 1 \in V THEN <<x>> ELSE <<>>
    BY ChosenStep DEF n, u
  <2>8. q.out = Chosen(u, V)
    BY <1>2, <2>3, <2>5, <2>6, <2>7
  <2>9. ctx = Suffix(u, 0)
    <3>1. Suffix(t, 0) = <<>>
      BY SuffixStep
    <3>2. QED
      BY <1>3, <1>9, <2>5, <3>1
  <2>10. QED
    BY <1>9, <2>1, <2>3, <2>5, <2>8, <2>9
<1>14. CASE x.text \notin S /\ ~(e > 0)
  <2> DEFINE d == IF c >= b THEN c ELSE c + 1
  <2>1. e = 0 /\ M = H
    BY <1>5, <1>6, <1>14
  <2>2. n + 1 \notin W /\ NearState(M, n + 1, b, a, d, 0)
    <3> HIDE DEF n, u, H, M, e, ctx, g, b, a
    <3>1. NearState(H, n, b, a, c, 0)
      BY <1>3, <2>1
    <3>2. QED
      BY <1>1, <1>5, <1>6, <2>1, <3>1, NearWait
  <2>3. (d = c \/ d = c + 1) /\ d \in 0 .. n + 1
    BY <2>2 DEF NearState
  <2>4. V = W
    BY <2>1
  <2>5. Chosen(u, V) = p.out /\ Chosen(SubSeq(u, 1, (n + 1) - d), V) = p.out
    <3> HIDE DEF V, W, d
    <3>1. Chosen(t, W) = Chosen(SubSeq(t, 1, n - c), W)
      BY <1>2, <1>3
    <3>2. /\ \A i \in Len(t) - c + 1 .. Len(t) : i \notin W
          /\ Len(t) + 1 \notin W /\ c \in 0 .. Len(t)
          /\ Chosen(t, W) = Chosen(SubSeq(t, 1, Len(t) - c), W)
      BY <1>11, <2>2, <3>1 DEF n
    <3> HIDE DEF n, u
    <3>3. /\ Chosen(u, W) = Chosen(t, W)
          /\ Chosen(SubSeq(u, 1, (n + 1) - d), W) = Chosen(t, W)
      <4>1. d = c \/ d = c + 1
        BY <2>3
      <4>2. /\ Chosen(Append(t, x), W) = Chosen(t, W)
            /\ Chosen(SubSeq(Append(t, x), 1, (Len(t) + 1) - d), W) = Chosen(t, W)
        BY ONLY <3>2, <4>1, t \in Seq(Line), x \in Line, ChosenWait
      <4>3. QED
        BY <4>2 DEF u, n
    <3>4. QED
      BY <1>2, <2>4, <3>3
  <2>6. p.out \o <<>> = p.out
    BY <1>1, LinesJoin
  <2>7. Len(ctx) = c
    BY <1>3, SuffixStep
  <2>8. CASE b = 0
    <3>1. Step(g, x) = Emit(g, <<>>)
      BY <1>2, <1>7, <1>14, <2>8 DEF KeepAroundStep
    <3>2. q.stage = g /\ q.out = p.out
      BY <2>6, <3>1 DEF Emit
    <3> HIDE DEF n, u, H, M, V, W, ctx, g, b, a
    <3>3. c = 0 /\ d = 0
      BY <1>5, <1>11, <2>8
    <3>4. ctx = Suffix(u, d)
      <4>1. Suffix(t, 0) = <<>>
        BY SuffixStep
      <4>2. QED
        BY <1>3, <1>9, <3>3, <4>1
    <3>5. q.stage.ctx_buf = Suffix(u, d) /\ q.stage.emit_after = 0
      BY <2>1, <3>2, <3>4 DEF g, ctx, e
    <3>6. q.stage.kind = "KeepAroundMatch" /\ q.stage.pattern = S
          /\ q.stage.before = b /\ q.stage.after = a
      BY <1>2, <3>2
    <3> HIDE DEF d
    <3>7. QED
      BY <2>2, <2>3, <2>5, <3>2, <3>5, <3>6
  <2>9. CASE b # 0
    <3> DEFINE kept == IF Len(ctx) >= b THEN Tail(ctx) ELSE ctx
               f == [g EXCEPT !.ctx_buf = Append(kept, x)]
    <3>1. Step(g, x) = Emit(f, <<>>)
      BY <1>2, <1>7, <1>14, <2>9 DEF KeepAroundStep
    <3>2. /\ f.kind = "KeepAroundMatch" /\ f.pattern = S /\ f.before = b
          /\ f.after = a /\ f.ctx_buf = Append(kept, x) /\ f.emit_after = 0
      BY <1>2, <1>4, <2>1
    <3> HIDE DEF f
    <3>3. q.stage = f /\ q.out = p.out
      BY <2>6, <3>1 DEF Emit
    <3>4. d - 1 \in 0 .. n /\ (d - 1) + 1 = d
      BY <1>1, <1>5, <1>11, <2>3, <2>9
    <3>5. kept = Suffix(t, d - 1)
      <4>1. CASE c >= b
        <5>1. d = c /\ c >= 1 /\ kept = Tail(ctx) /\ 1 \in 0 .. c
          BY <1>1, <1>5, <2>7, <2>9, <4>1
        <5>2. ctx \in Seq(Line) /\ SubSeq(ctx, 2, c) = Suffix(t, c - 1)
          <6>0. \A j \in 0 .. c : SubSeq(Suffix(t, c), j + 1, c) = Suffix(t, c - j)
            BY SuffixStep
          <6>1. \A j \in 0 .. c : SubSeq(ctx, j + 1, c) = Suffix(t, c - j)
            BY <1>3, <6>0
          <6>2. SubSeq(ctx, 1 + 1, c) = Suffix(t, c - 1) /\ 1 + 1 = 2
            <7>1. 1 \in 0 .. c
              BY <5>1
            <7>2. SubSeq(ctx, 1 + 1, c) = Suffix(t, c - 1)
              BY <6>1, <7>1, Zenon
            <7>3. QED
              BY <7>2
          <6>3. ctx \in Seq(Line)
            BY <1>4
          <6>4. QED
            BY <6>2, <6>3
        <5> HIDE DEF ctx, d, kept
        <5>3. ctx # <<>>
          BY <2>7, <5>1
        <5>4. Tail(ctx) = SubSeq(ctx, 2, Len(ctx))
          BY <5>2, <5>3, TailIsSubSeq
        <5>5. QED
          BY <2>7, <5>1, <5>2, <5>4
      <4>2. CASE ~(c >= b)
        <5>1. d = c + 1 /\ kept = ctx /\ d - 1 = c
          BY <1>5, <2>7, <4>2
        <5>2. QED
          BY <1>3, <5>1
      <4>3. QED
        BY <4>1, <4>2
    <3> HIDE DEF d, kept
    <3>6. f.ctx_buf = Suffix(u, d)
      BY <1>9, <3>2, <3>4, <3>5
    <3> HIDE DEF n, u, H, M, V, W, ctx, g, b, a
    <3>7. QED
      BY <2>2, <2>3, <2>5, <3>2, <3>3, <3>6
  <2>10. QED
    BY <2>8, <2>9
<1>15. QED
  BY <1>12, <1>13, <1>14

\* keep_around_match on a whole stream keeps the lines in a window.
LEMMA WholeAround ==
    ASSUME NEW s \in AroundStage, s.ctx_buf = <<>>, s.emit_after = 0,
           NEW lines \in Seq(Line)
    PROVE  Whole(s, lines)
             = Chosen(lines, Near(Hits(lines, s.pattern), s.before, s.after))
<1> DEFINE F == [t \in Seq(Line) |-> {p \in Progress : AroundHolds(s, t, p)}]
<1>1. \A t \in Seq(Line) : F[t] = {p \in Progress : AroundHolds(s, t, p)}
  OBVIOUS
<1> HIDE DEF F
<1>2. s.kind = "KeepAroundMatch" /\ s \in Live /\ s.before \in Nat /\ s.after \in Nat
  BY DEF AroundStage, Live, Stage, Counted
<1>3. Emit(s, <<>>) \in F[<<>>]
  <2> DEFINE e == Emit(s, <<>>)
             H == Hits(<<>>, s.pattern)
             W == Near(H, s.before, s.after)
  <2>1. e \in Progress /\ e.stage = s /\ e.out = <<>>
    BY <1>2, LinesJoin DEF Progress, Emit
  <2>2. /\ <<>> \in Seq(Line) /\ Len(<<>>) = 0 /\ 0 \in 0 .. Len(<<>>)
        /\ SubSeq(<<>>, 1, 0) = <<>> /\ 0 - 0 = 0
    OBVIOUS
  <2>3. Suffix(<<>>, 0) = <<>>
    BY <2>2, SuffixStep
  <2>4. H = {}
    BY DEF Hits
  <2> HIDE DEF e, H
  <2>5. NearState(H, 0, s.before, s.after, 0, 0)
    <3>1. \A j \in Nat \ {0} : (\E m \in H : 0 + j <= m + s.after) <=> j <= 0
      BY <2>4
    <3>2. 0 - 0 + 1 .. 0 = {} /\ 1 .. 0 - 0 = {} /\ 0 \in 0 .. 0 /\ 0 <= s.before
      BY <1>2
    <3>3. QED
      BY <3>1, <3>2 DEF NearState
  <2>6. Chosen(<<>>, W) = <<>>
    BY ChosenStep
  <2> HIDE DEF W
  <2>7. AroundHolds(s, <<>>, e)
    BY <1>2, <2>1, <2>2, <2>3, <2>5, <2>6 DEF AroundHolds, H, W
  <2>8. F[<<>>] = {p \in Progress : AroundHolds(s, <<>>, p)}
    BY <1>1, LinesJoin
  <2>9. QED
    BY <2>1, <2>7, <2>8 DEF e
<1>4. ASSUME NEW t \in Seq(Line), NEW x \in Line, NEW p \in Progress,
             NEW q \in Progress, p \in F[t],
             q.stage = Step(p.stage, x).stage,
             q.out = p.out \o Step(p.stage, x).out
      PROVE  q \in F[Append(t, x)]
  <2>1. AroundHolds(s, t, p)
    BY <1>1, <1>4
  <2>2. AroundHolds(s, Append(t, x), q)
    BY <1>4, <2>1, AroundMore
  <2>3. F[Append(t, x)] = {y \in Progress : AroundHolds(s, Append(t, x), y)}
    BY <1>1, LineAdded
  <2>4. QED
    BY <2>2, <2>3
<1> DEFINE r == StepAll(s, lines)
<1>5. r \in F[lines] /\ r \in Progress
  BY <1>2, <1>3, <1>4, StreamRelation
<1> HIDE DEF r
<1>6. AroundHolds(s, lines, r)
  BY <1>1, <1>5
<1>7. /\ r.stage.kind = "KeepAroundMatch"
      /\ r.out = Chosen(lines, Near(Hits(lines, s.pattern), s.before, s.after))
  BY <1>6 DEF AroundHolds
<1>8. Flush(r.stage).out = <<>>
  BY <1>7 DEF Flush, Emit
<1>9. r.out \o <<>> = r.out
  BY <1>5, LinesJoin DEF Progress
<1>10. QED
  BY <1>7, <1>8, <1>9 DEF Whole, r

-----------------------------------------------------------------------------
\* The promise of an entry that drops, or that keeps, the lines that match.
LEMMA BatchDrop ==
    ASSUME NEW list, NEW i, list[i].kind = "DropRegex", NEW lines \in Seq(Line)
    PROVE  Batch(list, i, lines)
             = Picked(lines, (Text \cup Marker) \ list[i].pattern)
<1> DEFINE s == list[i]
           S == (Text \cup Marker) \ s.pattern
           K == {p \in DOMAIN lines : lines[p].text \in S}
           f == [p \in DOMAIN lines |->
                   IF lines[p].text \notin s.pattern THEN <<lines[p]>> ELSE <<>>]
<1>1. Batch(list, i, lines) = Select(lines, LAMBDA p: lines[p].text \notin s.pattern)
  BY DEF Batch
<1>2. Select(lines, LAMBDA p: lines[p].text \notin s.pattern) = FlattenSeq(f)
  BY DEF Select
<1>3. \A p \in DOMAIN lines : p \in K <=> lines[p].text \notin s.pattern
  <2>1. \A p \in DOMAIN lines : lines[p] \in Line
    OBVIOUS
  <2>2. \A l \in Line : l.text \in Text \cup Marker
    BY DEF Line, ToolLine
  <2>3. QED
    BY <2>1, <2>2
<1> HIDE DEF K, S, s
<1>4. f = Kept(lines, K)
  BY <1>3 DEF Kept
<1> HIDE DEF f
<1>5. QED
  BY <1>1, <1>2, <1>4 DEF Picked, Chosen, K, S, s

\* keep_regex promises the lines that match one of the alternatives it was
\* merged from.
LEMMA BatchKeep ==
    ASSUME NEW list, NEW i, list[i].kind = "KeepRegex", NEW lines \in Seq(Line)
    PROVE  Batch(list, i, lines) = Picked(lines, UNION Alternatives(list, i))
<1> DEFINE S == UNION Alternatives(list, i)
           K == {p \in DOMAIN lines : lines[p].text \in S}
           f == [p \in DOMAIN lines |->
                   IF lines[p].text \in S THEN <<lines[p]>> ELSE <<>>]
<1>1. Batch(list, i, lines) = Select(lines, LAMBDA p: lines[p].text \in S)
  BY DEF Batch
<1>2. Select(lines, LAMBDA p: lines[p].text \in S) = FlattenSeq(f)
  BY DEF Select
<1> HIDE DEF S
<1>3. f = Kept(lines, K)
  BY DEF Kept
<1> HIDE DEF f
<1>4. QED
  BY <1>1, <1>2, <1>3 DEF Picked, Chosen, S

\* The promise of a dedupe entry.
LEMMA BatchDedupe ==
    ASSUME NEW list, NEW i, list[i].kind = "Dedupe", list[i].max_kept \in Nat,
           NEW lines \in Seq(Line)
    PROVE  Batch(list, i, lines)
             = Chosen(lines, DedupeKeeps(lines, list[i].max_kept))
<1> DEFINE m == list[i].max_kept
           n == Len(lines)
           K == DedupeKeeps(lines, m)
           R(p) == Max({0} \cup {k \in 1 .. p : \A j \in p - k + 1 .. p :
                                   lines[j] = lines[p]})
           f == [p \in DOMAIN lines |->
                   IF R(p) = 1 \/ R(p) <= m THEN <<lines[p]>> ELSE <<>>]
<1>1. Batch(list, i, lines)
        = Select(lines, LAMBDA p:
             LET copies == RunUpTo(p, LAMBDA j: lines[j] = lines[p])
             IN  copies = 1 \/ copies <= m)
  BY DEF Batch
<1>2. Batch(list, i, lines) = FlattenSeq(f)
  BY <1>1 DEF Select, RunUpTo
<1>3. n \in Nat /\ DOMAIN lines = 1 .. n
  OBVIOUS
<1>4. ASSUME NEW p \in 1 .. n PROVE R(p) = Copies(lines, p)
  <2> DEFINE S == Same(lines, lines[p])
  <2>1. \A k \in 1 .. p : \A j \in p - k + 1 .. p : j \in 1 .. n
    BY <1>3
  <2>2. \A j \in 1 .. n : j \in S <=> lines[j] = lines[p]
    BY <1>3 DEF Same
  <2> HIDE DEF S
  <2>3. \A k \in 1 .. p : \A j \in p - k + 1 .. p : j \in S <=> lines[j] = lines[p]
    BY <2>1, <2>2
  <2>4. Runs(p, S) = {0} \cup {k \in 1 .. p : \A j \in p - k + 1 .. p :
                                 lines[j] = lines[p]}
    BY <2>3 DEF Runs
  <2>5. QED
    BY <2>4 DEF RunMax, Copies, S
<1> HIDE DEF R
<1>5. \A p \in 1 .. n : p \in K <=> R(p) = 1 \/ R(p) <= m
  BY <1>3, <1>4 DEF DedupeKeeps
<1> HIDE DEF K, m
<1>6. f = Kept(lines, K)
  BY <1>3, <1>5 DEF Kept
<1> HIDE DEF f
<1>7. QED
  BY <1>2, <1>6 DEF Chosen, K, m

\* The promise of a keep_around_match entry.
LEMMA BatchAround ==
    ASSUME NEW list, NEW i, list[i].kind = "KeepAroundMatch",
           list[i].before \in Nat, list[i].after \in Nat, NEW lines \in Seq(Line)
    PROVE  Batch(list, i, lines)
             = Chosen(lines, Near(Hits(lines, list[i].pattern),
                                  list[i].before, list[i].after))
<1> DEFINE s == list[i]
           K == Near(Hits(lines, s.pattern), s.before, s.after)
           f == [p \in DOMAIN lines |->
                   IF InWindow(lines, s, p) THEN <<lines[p]>> ELSE <<>>]
<1>1. Batch(list, i, lines) = Select(lines, LAMBDA p: InWindow(lines, s, p))
  BY DEF Batch
<1>2. Batch(list, i, lines) = FlattenSeq(f)
  BY <1>1 DEF Select
<1>3. ASSUME NEW p \in DOMAIN lines PROVE p \in K <=> InWindow(lines, s, p)
  <2>1. p \in Nat
    OBVIOUS
  <2>2. QED
    BY <2>1 DEF InWindow, Near, Hits
<1> HIDE DEF K, s
<1>4. f = Kept(lines, K)
  BY <1>3 DEF Kept
<1> HIDE DEF f
<1>5. QED
  BY <1>2, <1>4 DEF Chosen, K, s

\* What an entry other than keep_regex promises is what the stage it loads
\* makes of the whole stream.
LEMMA BatchWhole ==
    ASSUME NEW list, NEW i, NEW lines \in Seq(Line), list[i] \in StageSpec,
           Accepted(list[i]), list[i].kind # "KeepRegex"
    PROVE  Batch(list, i, lines) = Whole(SpecToStage(list[i]), lines)
<1> DEFINE e == list[i]
           s == SpecToStage(e)
           B == Batch(list, i, lines)
<1>1. s \in Live
  BY SpecLoaded DEF Loaded
<1>2. CASE e.kind = "StripAnsi"
  <2>1. s = e
    BY <1>2 DEF SpecToStage
  <2>2. s \in StripStage
    BY <1>1, <1>2, <2>1, KindDecides DEF Live
  <2>3. B = Mapped(lines, Plain)
    BY <1>2 DEF Batch, Mapped
  <2> HIDE DEF B, s
  <2>4. QED
    BY <2>2, <2>3, WholeStrip DEF B, s
<1>3. CASE e.kind = "ReplaceRegex"
  <2>1. s = e
    BY <1>3 DEF SpecToStage
  <2>2. s \in ReplaceStage
    BY <1>1, <1>3, <2>1, KindDecides DEF Live
  <2>3. B = Mapped(lines, e.rewrite)
    BY <1>3 DEF Batch, Mapped
  <2>4. Whole(s, lines) = Mapped(lines, s.rewrite)
    BY <2>2, WholeReplace
  <2>5. QED
    BY <2>1, <2>3, <2>4
<1>4. CASE e.kind = "DropRegex"
  <2>1. s = e
    BY <1>4 DEF SpecToStage
  <2>2. s \in DropStage
    BY <1>1, <1>4, <2>1, KindDecides DEF Live
  <2>3. B = Picked(lines, (Text \cup Marker) \ e.pattern)
    BY <1>4, BatchDrop
  <2>4. Whole(s, lines) = Picked(lines, (Text \cup Marker) \ s.pattern)
    BY <2>2, WholeDrop
  <2>5. QED
    BY <2>1, <2>3, <2>4
<1>5. CASE e.kind = "Dedupe"
  <2>1. e \in [kind: {"Dedupe"}, max_kept: Nat]
    BY <1>5 DEF StageSpec
  <2>2. /\ s.kind = "Dedupe" /\ s.max_kept = e.max_kept /\ s.last = <<>>
        /\ e.max_kept \in Nat
    BY <1>5, <2>1 DEF SpecToStage
  <2> HIDE DEF s
  <2>3. s \in DedupeStage
    BY <1>1, <2>2, KindDecides DEF Live
  <2>4. B = Chosen(lines, DedupeKeeps(lines, e.max_kept))
    BY <1>5, <2>2, BatchDedupe
  <2>5. Whole(s, lines) = Chosen(lines, DedupeKeeps(lines, s.max_kept))
    BY <2>2, <2>3, WholeDedupe
  <2> HIDE DEF B
  <2>6. QED
    BY <2>2, <2>4, <2>5 DEF B, s
<1>6. CASE e.kind = "CollapseRepeated"
  <2>1. e \in [kind: {"CollapseRepeated"}, pattern: SUBSET (Text \cup Marker),
               max_kept: Nat]
    BY <1>6 DEF StageSpec
  <2>2. /\ s.kind = "CollapseRepeated" /\ s.max_kept = e.max_kept
        /\ s.pattern = e.pattern /\ s.kept_so_far = 0 /\ s.dropped = 0
        /\ e.max_kept \in Nat
    BY <1>6, <2>1 DEF SpecToStage
  <2> HIDE DEF s
  <2>3. s \in CollapseStage
    BY <1>1, <2>2, KindDecides DEF Live
  <2>4. B = CollapsedRuns(lines, e)
    BY <1>6 DEF Batch
  <2>5. CollapsedRuns(lines, e) = Collapse(lines, Hits(lines, e.pattern), e.max_kept)
    BY <2>2, CollapsedRunsIs
  <2>6. Whole(s, lines) = Collapse(lines, Hits(lines, s.pattern), s.max_kept)
    BY <2>2, <2>3, WholeCollapse
  <2> HIDE DEF B
  <2>7. QED
    BY <2>2, <2>4, <2>5, <2>6 DEF B, s
<1>7. CASE e.kind = "KeepHead"
  <2>1. e \in [kind: {"KeepHead", "KeepTail"}, unit: {"lines", "bytes"}, n: Nat]
    BY <1>7 DEF StageSpec
  <2>2. /\ s.kind = "KeepHead" /\ s.unit = e.unit /\ s.n = e.n /\ s.remaining = s.n
    BY <1>7, <2>1 DEF SpecToStage
  <2> HIDE DEF s
  <2>3. s \in HeadStage
    BY <1>1, <2>2, KindDecides DEF Live
  <2>4. B = SubSeq(lines, 1, LongestHead(lines, e.unit, e.n))
    BY <1>7 DEF Batch
  <2>5. Whole(s, lines) = SubSeq(lines, 1, LongestHead(lines, s.unit, s.n))
    BY <2>2, <2>3, WholeHead
  <2> HIDE DEF B
  <2>6. QED
    BY <2>2, <2>4, <2>5 DEF B, s
<1>8. CASE e.kind = "KeepTail"
  <2>1. e \in [kind: {"KeepHead", "KeepTail"}, unit: {"lines", "bytes"}, n: Nat]
    BY <1>8 DEF StageSpec
  <2>2. /\ s.kind = "KeepTail" /\ s.unit = e.unit /\ s.n = e.n
        /\ s.ring = <<>> /\ s.byte_count = 0
    BY <1>8, <2>1 DEF SpecToStage
  <2> HIDE DEF s
  <2>3. s \in TailStage
    BY <1>1, <2>2, KindDecides DEF Live
  <2>4. B = SubSeq(lines, Len(lines) - LongestTail(lines, e.unit, e.n) + 1, Len(lines))
    BY <1>8 DEF Batch
  <2>5. Whole(s, lines)
          = SubSeq(lines, Len(lines) - LongestTail(lines, s.unit, s.n) + 1, Len(lines))
    BY <2>2, <2>3, WholeTail
  <2> HIDE DEF B
  <2>6. QED
    BY <2>2, <2>4, <2>5 DEF B, s
<1>9. CASE e.kind = "KeepAroundMatch"
  <2>1. e \in [kind: {"KeepAroundMatch"}, pattern: SUBSET (Text \cup Marker),
               before: Nat, after: Nat]
    BY <1>9 DEF StageSpec
  <2>2. /\ s.kind = "KeepAroundMatch" /\ s.before = e.before /\ s.after = e.after
        /\ s.pattern = e.pattern /\ s.ctx_buf = <<>> /\ s.emit_after = 0
        /\ e.before \in Nat /\ e.after \in Nat
    BY <1>9, <2>1 DEF SpecToStage
  <2> HIDE DEF s
  <2>3. s \in AroundStage
    BY <1>1, <2>2, KindDecides DEF Live
  <2>4. B = Chosen(lines, Near(Hits(lines, e.pattern), e.before, e.after))
    BY <1>9, <2>2, BatchAround
  <2>5. Whole(s, lines) = Chosen(lines, Near(Hits(lines, s.pattern), s.before, s.after))
    BY <2>2, <2>3, WholeAround
  <2> HIDE DEF B
  <2>6. QED
    BY <2>2, <2>4, <2>5 DEF B, s
<1>10. CASE e.kind = "MaxBytes"
  <2>1. e.cap \in Nat
    BY <1>10 DEF StageSpec
  <2>2. s = MaxBytesStage(e.cap)
    BY <1>10 DEF SpecToStage
  <2>3. B = CappedAt(lines, e.cap)
    BY <1>10 DEF Batch
  <2> HIDE DEF s, B
  <2>4. QED
    BY <2>1, <2>2, <2>3, WholeCap DEF s, B
<1>11. e.kind \in {"StripAnsi", "DropRegex", "KeepRegex", "ReplaceRegex",
                   "Dedupe", "CollapseRepeated", "KeepHead", "KeepTail",
                   "KeepAroundMatch", "MaxBytes"}
  BY DEF StageSpec
<1>12. QED
  BY <1>2, <1>3, <1>4, <1>5, <1>6, <1>7, <1>8, <1>9, <1>10, <1>11

-----------------------------------------------------------------------------
\* The larger of two numbers.
LEMMA MaxPair ==
    ASSUME NEW i \in Int, NEW k \in Int
    PROVE  Max({i, k}) = IF i <= k THEN k ELSE i
<1> DEFINE D == {i, k}
           h == IF i <= k THEN k ELSE i
<1>1. h \in D /\ D \subseteq Int /\ \A y \in D : h >= y
  OBVIOUS
<1> HIDE DEF D, h
<1>2. Max(D) = h
  BY <1>1, MaxIs
<1>3. QED
  BY <1>2 DEF D, h

\* Whether entry k and entry i are in one run of keep_regex entries.
OneRun(list, i, k) ==
    /\ \A m \in k .. i : list[m].kind = "KeepRegex"
    /\ \A m \in i .. k : list[m].kind = "KeepRegex"

\* The alternatives of an entry are the patterns of its run.
LEMMA AlternativesAre ==
    ASSUME NEW list \in Seq(StageSpec), NEW i \in 1 .. Len(list),
           list[i].kind = "KeepRegex"
    PROVE  Alternatives(list, i)
             = {list[k].pattern : k \in {j \in 1 .. Len(list) : OneRun(list, i, j)}}
<1> DEFINE n == Len(list)
           Inside(k) == \A m \in Least(i, k) .. Max({i, k}) : list[m].kind = "KeepRegex"
<1>1. n \in Nat /\ DOMAIN list = 1 .. n
  OBVIOUS
<1>2. ASSUME NEW k \in 1 .. n PROVE Inside(k) <=> OneRun(list, i, k)
  <2>1. i \in Nat /\ k \in Nat /\ {i, k} \subseteq Int
    BY <1>1
  <2>2. CASE i <= k
    <3>1. Max({i, k}) = k
      BY <2>1, <2>2, MaxPair
    <3>2. Least(i, k) = i
      BY <2>1, <2>2 DEF Least
    <3>3. \A m \in k .. i : m = i
      BY <2>1, <2>2
    <3>4. QED
      BY <3>1, <3>2, <3>3 DEF OneRun
  <2>3. CASE ~(i <= k)
    <3>1. Max({i, k}) = i
      BY <2>1, <2>3, MaxPair
    <3>2. Least(i, k) = k
      BY <2>1, <2>3 DEF Least
    <3>3. i .. k = {}
      BY <2>1, <2>3
    <3>4. QED
      BY <3>1, <3>2, <3>3 DEF OneRun
  <2>4. QED
    BY <2>2, <2>3
<1>3. Alternatives(list, i) = {list[k].pattern : k \in {j \in DOMAIN list : Inside(j)}}
  BY DEF Alternatives
<1> HIDE DEF Inside
<1>4. {j \in DOMAIN list : Inside(j)} = {j \in 1 .. n : OneRun(list, i, j)}
  BY <1>1, <1>2
<1>5. QED
  BY <1>3, <1>4

\* Two keep_regex entries in a row have the same alternatives.
LEMMA AlternativesSame ==
    ASSUME NEW list \in Seq(StageSpec), NEW i \in 1 .. Len(list),
           i + 1 \in 1 .. Len(list),
           list[i].kind = "KeepRegex", list[i + 1].kind = "KeepRegex"
    PROVE  Alternatives(list, i) = Alternatives(list, i + 1)
<1> DEFINE n == Len(list)
<1>1. n \in Nat /\ i \in Nat
  OBVIOUS
<1>2. ASSUME NEW k \in 1 .. n PROVE OneRun(list, i, k) <=> OneRun(list, i + 1, k)
  <2>1. k \in Nat
    BY <1>1
  <2>2. \A m \in k .. i + 1 : m \in k .. i \/ m = i + 1
    BY <1>1, <2>1
  <2>3. \A m \in k .. i : m \in k .. i + 1
    BY <1>1, <2>1
  <2>4. \A m \in i .. k : m \in i + 1 .. k \/ m = i
    BY <1>1, <2>1
  <2>5. \A m \in i + 1 .. k : m \in i .. k
    BY <1>1, <2>1
  <2>6. QED
    BY <2>2, <2>3, <2>4, <2>5 DEF OneRun
<1>3. {j \in 1 .. n : OneRun(list, i, j)} = {j \in 1 .. n : OneRun(list, i + 1, j)}
  BY <1>2
<1>4. QED
  BY <1>3, AlternativesAre

\* The patterns of the keep_regex entries that end with entry m, without a
\* break.
Gathered(list, m) ==
    {list[k].pattern :
        k \in {j \in 1 .. m : \A l \in j .. m : list[l].kind = "KeepRegex"}}

\* Where a run of keep_regex entries ends, they are all its alternatives.
LEMMA AlternativesEnd ==
    ASSUME NEW list \in Seq(StageSpec), NEW m \in 1 .. Len(list),
           list[m].kind = "KeepRegex",
           m + 1 \in 1 .. Len(list) => list[m + 1].kind # "KeepRegex"
    PROVE  Alternatives(list, m) = Gathered(list, m)
<1> DEFINE n == Len(list)
<1>1. n \in Nat /\ m \in Nat /\ m <= n
  OBVIOUS
<1>2. ASSUME NEW k \in 1 .. n
      PROVE  OneRun(list, m, k)
               <=> k \in 1 .. m /\ \A l \in k .. m : list[l].kind = "KeepRegex"
  <2>1. k \in Nat
    BY <1>1
  <2>2. CASE k <= m
    <3>1. k \in 1 .. m /\ \A l \in m .. k : l = m
      BY <1>1, <2>1, <2>2
    <3>2. QED
      BY <3>1 DEF OneRun
  <2>3. CASE ~(k <= m)
    <3>1. k \notin 1 .. m /\ m + 1 \in m .. k /\ m + 1 \in 1 .. n
      BY <1>1, <2>1, <2>3
    <3>2. list[m + 1].kind # "KeepRegex"
      BY <3>1
    <3>3. QED
      BY <3>1, <3>2 DEF OneRun
  <2>4. QED
    BY <2>2, <2>3
<1>3. \A k \in 1 .. m : k \in 1 .. n
  BY <1>1
<1>4. {j \in 1 .. n : OneRun(list, m, j)}
        = {j \in 1 .. m : \A l \in j .. m : list[l].kind = "KeepRegex"}
  <2> HIDE DEF n
  <2>1. QED
    BY <1>2, <1>3
<1>5. QED
  BY <1>4, AlternativesAre DEF Gathered

\* A keep_regex entry adds its pattern to what has gathered; another entry
\* leaves nothing.
LEMMA GatheredStep ==
    ASSUME NEW list \in Seq(StageSpec), NEW m \in 0 .. Len(list) - 1
    PROVE  /\ Gathered(list, 0) = {}
           /\ list[m + 1].kind = "KeepRegex" =>
                Gathered(list, m + 1) = Gathered(list, m) \cup {list[m + 1].pattern}
           /\ list[m + 1].kind # "KeepRegex" => Gathered(list, m + 1) = {}
           /\ m # 0 /\ Gathered(list, m) # {} => list[m].kind = "KeepRegex"
           /\ m # 0 /\ list[m].kind = "KeepRegex" => Gathered(list, m) # {}
<1> DEFINE J(i) == {j \in 1 .. i : \A l \in j .. i : list[l].kind = "KeepRegex"}
<1>1. m \in Nat
  OBVIOUS
<1>2. Gathered(list, 0) = {}
  <2>1. 1 .. 0 = {}
    OBVIOUS
  <2>2. QED
    BY <2>1 DEF Gathered
<1>3. ASSUME list[m + 1].kind = "KeepRegex"
      PROVE  Gathered(list, m + 1) = Gathered(list, m) \cup {list[m + 1].pattern}
  <2>1. J(m + 1) = J(m) \cup {m + 1}
    <3>1. ASSUME NEW j \in 1 .. m + 1, j # m + 1
          PROVE  /\ j \in 1 .. m
                 /\ (\A l \in j .. m + 1 : list[l].kind = "KeepRegex")
                      <=> \A l \in j .. m : list[l].kind = "KeepRegex"
      <4>1. j \in 1 .. m
        BY <1>1, <3>1
      <4>2. \A l \in j .. m + 1 : l \in j .. m \/ l = m + 1
        BY <1>1
      <4>3. \A l \in j .. m : l \in j .. m + 1
        BY <1>1
      <4>4. QED
        BY <1>3, <4>1, <4>2, <4>3
    <3>2. m + 1 \in 1 .. m + 1 /\ \A l \in m + 1 .. m + 1 : l = m + 1
      BY <1>1
    <3>3. \A j \in 1 .. m : j \in 1 .. m + 1 /\ j # m + 1
      BY <1>1
    <3>4. m + 1 \in J(m + 1)
      BY <1>3, <3>2
    <3>5. \A j \in J(m + 1) : j \in J(m) \/ j = m + 1
      BY <3>1
    <3>6. \A j \in J(m) : j \in J(m + 1)
      BY <3>1, <3>3
    <3> HIDE DEF J
    <3>7. QED
      BY <3>4, <3>5, <3>6
  <2>2. \A i : Gathered(list, i) = {list[k].pattern : k \in J(i)}
    BY DEF Gathered
  <2> HIDE DEF J
  <2>3. QED
    BY <2>1, <2>2
<1>4. ASSUME list[m + 1].kind # "KeepRegex" PROVE Gathered(list, m + 1) = {}
  <2>1. \A j \in 1 .. m + 1 : m + 1 \in j .. m + 1
    BY <1>1
  <2>2. J(m + 1) = {}
    BY <1>4, <2>1
  <2>3. QED
    BY <2>2 DEF Gathered
<1>5. ASSUME m # 0, Gathered(list, m) # {} PROVE list[m].kind = "KeepRegex"
  <2>1. PICK j \in 1 .. m : \A l \in j .. m : list[l].kind = "KeepRegex"
    BY <1>5 DEF Gathered
  <2>2. m \in j .. m
    BY <1>1
  <2>3. QED
    BY <2>1, <2>2
<1>6. ASSUME m # 0, list[m].kind = "KeepRegex" PROVE Gathered(list, m) # {}
  <2>1. m \in 1 .. m /\ \A l \in m .. m : l = m
    BY <1>1, <1>6
  <2>2. m \in J(m)
    BY <1>6, <2>1
  <2>3. list[m].pattern \in Gathered(list, m)
    BY <2>2 DEF Gathered
  <2>4. QED
    BY <2>3
<1>7. QED
  BY <1>2, <1>3, <1>4, <1>5, <1>6

-----------------------------------------------------------------------------
\* The entries of the rule in turn, on all the lines.
BatchAt(lines, i) == Batch(specs, i, lines)

BatchFold == INSTANCE Folding WITH Op <- BatchAt

Entries(m) == [i \in 1 .. m |-> i]

Each(m, lines) == BatchFold!Fold(lines, Entries(m))

\* No entry changes nothing; one more takes what the entries before it left.
LEMMA EachStep ==
    ASSUME NEW lines
    PROVE  /\ Each(0, lines) = lines
           /\ \A m \in Nat : Each(m + 1, lines) = Batch(specs, m + 1, Each(m, lines))
<1>1. Each(0, lines) = lines
  <2>1. Entries(0) = <<>>
    BY DEF Entries
  <2>2. QED
    BY <2>1, BatchFold!FoldEmpty DEF Each
<1>2. ASSUME NEW m \in Nat
      PROVE  Each(m + 1, lines) = Batch(specs, m + 1, Each(m, lines))
  <2> DEFINE a == Entries(m)
             b == Entries(m + 1)
             c == Append(a, m + 1)
  <2>1. /\ a \in Seq(Nat) /\ Len(a) = m /\ b \in Seq(Nat) /\ Len(b) = m + 1
        /\ \A i \in 1 .. m : a[i] = i
        /\ \A i \in 1 .. m + 1 : b[i] = i
    BY DEF Entries
  <2> HIDE DEF a, b
  <2>2. /\ c \in Seq(Nat) /\ Len(c) = m + 1 /\ c[m + 1] = m + 1
        /\ \A i \in 1 .. m : c[i] = a[i]
    BY <2>1
  <2> HIDE DEF c
  <2>3. \A i \in 1 .. m + 1 : b[i] = c[i]
    <3>1. \A i \in 1 .. m + 1 : i \in 1 .. m \/ i = m + 1
      OBVIOUS
    <3>2. QED
      BY <2>1, <2>2, <3>1
  <2>4. b = c
    BY <2>1, <2>2, <2>3, SeqEqual
  <2>5. BatchFold!Fold(lines, Append(a, m + 1)) = BatchAt(BatchFold!Fold(lines, a), m + 1)
    <3>1. m + 1 \in Nat
      OBVIOUS
    <3>2. QED
      BY <2>1, <3>1, BatchFold!FoldAppend
  <2>6. QED
    BY <2>4, <2>5 DEF Each, BatchAt, a, b, c
<1>3. QED
  BY <1>1, <1>2

\* The promise of the rule is that fold, and the default cap.
LEMMA PromisedIs ==
    ASSUME RuleHolds
    PROVE  Promised = IF \E i \in DOMAIN specs : specs[i].kind = "MaxBytes"
                      THEN Each(Len(specs), input)
                      ELSE CappedAt(Each(Len(specs), input), DefaultMaxBytes)
<1> DEFINE every == FoldLeft(LAMBDA lines, i: Batch(specs, i, lines), input,
                             [i \in DOMAIN specs |-> i])
<1>1. DOMAIN specs = 1 .. Len(specs)
  BY DEF RuleHolds
<1>2. every = BatchFold!Fold(input, [i \in DOMAIN specs |-> i])
  BY DEF BatchFold!Fold, BatchFold!IsIter, FoldLeft, MapThenFoldSet, Max,
         BatchFold!Max, BatchAt
<1>3. every = Each(Len(specs), input)
  BY <1>1, <1>2 DEF Each, Entries
<1>4. Promised = IF \E i \in DOMAIN specs : specs[i].kind = "MaxBytes"
                 THEN every ELSE CappedAt(every, DefaultMaxBytes)
  BY DEF Promised
<1>5. QED
  BY <1>3, <1>4

\* The merge of the first stages the rule loads.
Loads(m) == [i \in 1 .. m |-> SpecToStage(specs[i])]

Merged(m) == MergeFold!Fold(Unmerged, Loads(m))

\* The stages are stages, and one more is merged into those before it.
LEMMA MergedStep ==
    ASSUME RuleHolds
    PROVE  /\ Loads(Len(specs)) \in Seq(Loaded)
           /\ Merged(0) = Unmerged
           /\ \A m \in 0 .. Len(specs) - 1 :
                /\ SpecToStage(specs[m + 1]) \in Loaded
                /\ Merged(m + 1) = MergeOne(Merged(m), SpecToStage(specs[m + 1]))
<1> DEFINE n == Len(specs)
<1>1. n \in Nat /\ DOMAIN specs = 1 .. n /\ \A i \in 1 .. n : specs[i] \in StageSpec
  BY DEF RuleHolds
<1>2. \A i \in 1 .. n : SpecToStage(specs[i]) \in Loaded
  BY <1>1, SpecLoaded DEF RuleHolds
<1>3. ASSUME NEW m \in 0 .. n
      PROVE  /\ Loads(m) \in Seq(Loaded) /\ Len(Loads(m)) = m
             /\ \A i \in 1 .. m : Loads(m)[i] = SpecToStage(specs[i])
  <2>1. m \in Nat /\ \A i \in 1 .. m : i \in 1 .. n
    BY <1>1
  <2> DEFINE e(i) == SpecToStage(specs[i])
  <2>2. \A i \in 1 .. m : e(i) \in Loaded
    BY <1>2, <2>1
  <2>3. Loads(m) = [i \in 1 .. m |-> e(i)]
    BY DEF Loads
  <2> HIDE DEF e
  <2>4. /\ Loads(m) \in Seq(Loaded) /\ Len(Loads(m)) = m
        /\ \A i \in 1 .. m : Loads(m)[i] = e(i)
    BY <2>1, <2>2, <2>3
  <2>5. QED
    BY <2>4 DEF e
<1>4. Merged(0) = Unmerged
  <2>1. Loads(0) = <<>>
    BY DEF Loads
  <2>2. QED
    BY <2>1, MergeFold!FoldEmpty DEF Merged
<1>5. ASSUME NEW m \in 0 .. n - 1
      PROVE  Merged(m + 1) = MergeOne(Merged(m), SpecToStage(specs[m + 1]))
  <2> DEFINE a == Loads(m)
             b == Loads(m + 1)
             s == SpecToStage(specs[m + 1])
             c == Append(a, s)
  <2>1. m \in Nat /\ m \in 0 .. n /\ m + 1 \in 0 .. n /\ m + 1 \in 1 .. n
        /\ m + 1 \in 1 .. m + 1
    BY <1>1
  <2>2. s \in Loaded
    BY <1>2, <2>1
  <2>3. /\ a \in Seq(Loaded) /\ Len(a) = m /\ b \in Seq(Loaded) /\ Len(b) = m + 1
        /\ \A i \in 1 .. m : a[i] = SpecToStage(specs[i])
        /\ \A i \in 1 .. m + 1 : b[i] = SpecToStage(specs[i])
    BY <1>3, <2>1
  <2>4. b[m + 1] = s
    BY <2>1, <2>3
  <2> HIDE DEF a, b, s
  <2>5. /\ c \in Seq(Loaded) /\ Len(c) = m + 1 /\ c[m + 1] = s
        /\ \A i \in 1 .. m : c[i] = a[i]
    BY <2>2, <2>3
  <2> HIDE DEF c
  <2>6. \A i \in 1 .. m + 1 : b[i] = c[i]
    <3>1. \A i \in 1 .. m + 1 : (i \in 1 .. m /\ i \in 1 .. m + 1) \/ i = m + 1
      BY <2>1
    <3>2. \A i \in 1 .. m : i \in 1 .. m + 1 => b[i] = c[i]
      BY <2>3, <2>5
    <3>3. b[m + 1] = c[m + 1]
      BY <2>4, <2>5
    <3>4. QED
      BY <3>1, <3>2, <3>3
  <2>7. b = c
    BY <2>3, <2>5, <2>6, SeqEqual
  <2>8. MergeFold!Fold(Unmerged, Append(a, s)) = MergeOne(MergeFold!Fold(Unmerged, a), s)
    BY <2>2, <2>3, MergeFold!FoldAppend
  <2>9. QED
    BY <2>7, <2>8 DEF Merged, a, b, c, s
<1>6. n \in 0 .. n /\ \A m \in 0 .. n - 1 : m + 1 \in 1 .. n
  BY <1>1
<1>7. QED
  BY <1>2, <1>3, <1>4, <1>5, <1>6

\* Where the merge is after the first m entries: what its stages make of the
\* lines is what these entries promise, but for the patterns still pending,
\* which are those of the run of keep_regex entries it is in.
MergeHolds(m, lines) ==
    LET a == Merged(m)
        through == WholeAll(a.result, lines)
    IN  /\ a \in [result: Seq(Live), pending: SUBSET Pats]
        /\ a.pending = Gathered(specs, m)
        /\ a.pending = {} => Each(m, lines) = through
        /\ a.pending # {} =>
              Each(m, lines) = Picked(through, UNION Alternatives(specs, m))

\* Where a run ends, the stage it is released as does what its entries
\* promise.
LEMMA MergeEnds ==
    ASSUME RuleHolds, NEW lines \in Seq(Line), NEW m \in 0 .. Len(specs),
           MergeHolds(m, lines),
           m + 1 \in 1 .. Len(specs) => specs[m + 1].kind # "KeepRegex"
    PROVE  LET all == Merged(m).result \o Released(Merged(m).pending) IN
           all \in Seq(Live) /\ WholeAll(all, lines) = Each(m, lines)
<1> DEFINE a == Merged(m)
           P == a.pending
           k == [kind |-> "KeepRegex", patterns |-> P]
           R == WholeAll(a.result, lines)
           n == Len(specs)
<1>1. /\ a.result \in Seq(Live) /\ P \in SUBSET Pats /\ P = Gathered(specs, m)
      /\ P = {} => Each(m, lines) = R
      /\ P # {} => Each(m, lines) = Picked(R, UNION Alternatives(specs, m))
  BY DEF MergeHolds
<1>2. specs \in Seq(StageSpec) /\ n \in Nat /\ m \in Nat
  BY DEF RuleHolds
<1> HIDE DEF a, P, R
<1>3. CASE P = {}
  <2>1. Released(P) = <<>> /\ a.result \o <<>> = a.result
    BY <1>1, <1>3 DEF Released
  <2>2. QED
    BY <1>1, <1>3, <2>1 DEF a, P, R
<1>4. CASE P # {}
  <2>1. m # 0 /\ m \in 1 .. n
    <3>1. 1 .. 0 = {}
      OBVIOUS
    <3>2. Gathered(specs, 0) = {}
      BY <3>1 DEF Gathered
    <3>3. QED
      BY <1>1, <1>2, <1>4, <3>2
  <2>2. specs[m].kind = "KeepRegex"
    <3>1. PICK j \in 1 .. m : \A l \in j .. m : specs[l].kind = "KeepRegex"
      BY <1>1, <1>4 DEF Gathered
    <3>2. m \in j .. m
      BY <1>2
    <3>3. QED
      BY <3>1, <3>2
  <2>3. Alternatives(specs, m) = P
    BY <1>1, <1>2, <2>1, <2>2, AlternativesEnd
  <2>4. k \in KeepStage /\ k.kind = "KeepRegex" /\ k.patterns = P
    BY <1>1 DEF KeepStage
  <2>5. Released(P) = <<k>>
    BY <1>4 DEF Released
  <2> HIDE DEF k
  <2>6. k \in Live
    BY <2>4 DEF Live, Stage, Counted
  <2> DEFINE r == a.result
  <2>7. r \in Seq(Live)
    BY <1>1
  <2>8. r \o Released(P) = Append(r, k)
    <3> HIDE DEF r
    <3>1. r \o <<k>> = Append(r, k)
      BY <2>6, <2>7
    <3>2. QED
      BY <2>5, <3>1
  <2>9. Append(r, k) \in Seq(Live)
    BY <2>6, <2>7
  <2>10. WholeAll(Append(r, k), lines) = Whole(k, R)
    BY <2>6, <2>7, WholeAllStep DEF R
  <2>11. R \in Seq(Line)
    BY <1>1, WholeAllType DEF R
  <2>12. Whole(k, R) = Picked(R, UNION P)
    BY <2>4, <2>11, WholeKeep
  <2>13. Each(m, lines) = Picked(R, UNION P)
    BY <1>1, <1>4, <2>3
  <2>14. QED
    BY <2>8, <2>9, <2>10, <2>12, <2>13 DEF a, P
<1>5. QED
  BY <1>3, <1>4

\* The merge of one entry more.
LEMMA MergeMore ==
    ASSUME RuleHolds, NEW lines \in Seq(Line), NEW m \in 0 .. Len(specs) - 1,
           MergeHolds(m, lines)
    PROVE  MergeHolds(m + 1, lines)
<1> DEFINE n == Len(specs)
           a == Merged(m)
           b == Merged(m + 1)
           e == specs[m + 1]
           s == SpecToStage(e)
           P == a.pending
           R == WholeAll(a.result, lines)
           E == Each(m, lines)
<1>1. /\ a \in [result: Seq(Live), pending: SUBSET Pats]
      /\ P = Gathered(specs, m)
      /\ P = {} => E = R
      /\ P # {} => E = Picked(R, UNION Alternatives(specs, m))
  BY DEF MergeHolds
<1>2. specs \in Seq(StageSpec) /\ n \in Nat /\ m \in Nat /\ m + 1 \in 1 .. n
      /\ m \in 0 .. n
  BY DEF RuleHolds
<1>3. e \in StageSpec /\ Accepted(e)
  BY <1>2 DEF RuleHolds
<1>4. s \in Loaded /\ b = MergeOne(a, s)
  BY MergedStep
<1>5. s \in Live /\ s.kind = e.kind
  <2>1. s \in Live
    BY <1>4 DEF Loaded
  <2>2. e.kind \in {"StripAnsi", "DropRegex", "KeepRegex", "ReplaceRegex",
                    "Dedupe", "CollapseRepeated", "KeepHead", "KeepTail",
                    "KeepAroundMatch", "MaxBytes"}
    BY <1>3 DEF StageSpec
  <2>3. s.kind = e.kind
    BY <2>2 DEF SpecToStage, MaxBytesStage
  <2>4. QED
    BY <2>1, <2>3
<1>6. R \in Seq(Line) /\ E \in Seq(Line)
  <2>1. a.result \in Seq(Live)
    BY <1>1
  <2>2. R \in Seq(Line)
    BY <2>1, WholeAllType
  <2> HIDE DEF R, E, P
  <2>3. QED
    BY <1>1, <2>2, PickedStep
<1>7. Each(m + 1, lines) = Batch(specs, m + 1, E)
  BY <1>2, EachStep
<1>8. /\ e.kind = "KeepRegex" =>
            Gathered(specs, m + 1) = Gathered(specs, m) \cup {e.pattern}
      /\ e.kind # "KeepRegex" => Gathered(specs, m + 1) = {}
      /\ m # 0 /\ Gathered(specs, m) # {} => specs[m].kind = "KeepRegex"
      /\ m = 0 => Gathered(specs, m) = {}
  BY <1>2, GatheredStep
<1> DEFINE A == UNION Alternatives(specs, m + 1)
<1>9. CASE e.kind = "KeepRegex"
  <2>1. s = [kind |-> "KeepRegex", patterns |-> {e.pattern}] /\ e.pattern \in Pats
    BY <1>3, <1>9 DEF SpecToStage, StageSpec, Pats
  <2>2. s.patterns = {e.pattern} /\ s.kind = "KeepRegex"
    BY <2>1
  <2> DEFINE c == [result |-> a.result, pending |-> P \cup {e.pattern}]
  <2>3. a.result \in Seq(Live) /\ P \in SUBSET Pats
        /\ a = [result |-> a.result, pending |-> a.pending]
    BY <1>1
  <2> HIDE DEF a, s, e
  <2>4. b = c
    BY <1>4, <2>2, <2>3 DEF MergeOne
  <2>5. /\ c \in [result: Seq(Live), pending: SUBSET Pats]
        /\ c.result = a.result /\ c.pending = P \cup {e.pattern} /\ c.pending # {}
    BY <2>1, <2>3
  <2>6. Batch(specs, m + 1, E) = Picked(E, A)
    <3>1. specs[m + 1].kind = "KeepRegex"
      BY <1>9 DEF e
    <3> HIDE DEF E
    <3>2. QED
      BY <1>6, <3>1, BatchKeep
  <2>7. Picked(E, A) = Picked(R, A)
    <3>1. CASE P = {}
      BY <1>1, <3>1
    <3>2. CASE P # {}
      <4>1. m # 0 /\ specs[m].kind = "KeepRegex" /\ m \in 1 .. n
        BY <1>1, <1>2, <1>8, <3>2
      <4>2. Alternatives(specs, m) = Alternatives(specs, m + 1)
        BY <1>2, <1>9, <4>1, AlternativesSame DEF e
      <4>3. E = Picked(R, A)
        BY <1>1, <3>2, <4>2
      <4> HIDE DEF E, R, A
      <4>4. Picked(Picked(R, A), A) = Picked(R, A \cap A) /\ A \cap A = A
        BY <1>6, PickedTwice
      <4>5. QED
        BY <4>3, <4>4
    <3>3. QED
      BY <3>1, <3>2
  <2> HIDE DEF c
  <2>8. MergeHolds(m + 1, lines)
    <3>1. b.pending = Gathered(specs, m + 1)
      BY <1>1, <1>8, <1>9, <2>4, <2>5
    <3>2. Each(m + 1, lines) = Picked(WholeAll(b.result, lines), A)
      BY <1>7, <2>4, <2>5, <2>6, <2>7
    <3>3. b \in [result: Seq(Live), pending: SUBSET Pats] /\ b.pending # {}
      BY <2>4, <2>5
    <3> HIDE DEF b
    <3>4. QED
      BY <3>1, <3>2, <3>3 DEF MergeHolds, b
  <2>9. QED
    BY <2>8
<1>10. CASE e.kind # "KeepRegex"
  <2> DEFINE all == a.result \o Released(P)
             c == [result |-> Append(all, s), pending |-> {}]
  <2>1. all \in Seq(Live) /\ WholeAll(all, lines) = E
    BY <1>2, <1>10, MergeEnds
  <2>2. b = c
    BY <1>4, <1>5, <1>10 DEF MergeOne
  <2> HIDE DEF all
  <2>3. Append(all, s) \in Seq(Live)
    BY <1>5, <2>1
  <2>4. /\ c \in [result: Seq(Live), pending: SUBSET Pats]
        /\ c.result = Append(all, s) /\ c.pending = {}
    BY <2>3
  <2>5. WholeAll(Append(all, s), lines) = Whole(s, WholeAll(all, lines))
    BY <1>5, <2>1, WholeAllStep
  <2>6. Batch(specs, m + 1, E) = Whole(s, E)
    <3> HIDE DEF E
    <3>1. QED
      BY <1>3, <1>6, <1>10, BatchWhole
  <2> HIDE DEF c
  <2>7. Each(m + 1, lines) = WholeAll(b.result, lines)
    BY <1>7, <2>1, <2>2, <2>4, <2>5, <2>6
  <2>8. b \in [result: Seq(Live), pending: SUBSET Pats] /\ b.pending = {}
    BY <2>2, <2>4
  <2>9. Gathered(specs, m + 1) = {}
    BY <1>8, <1>10
  <2> HIDE DEF b
  <2>10. QED
    BY <2>7, <2>8, <2>9 DEF MergeHolds, b
<1>11. QED
  BY <1>9, <1>10

\* The merge of all the entries.
LEMMA MergeAll ==
    ASSUME RuleHolds, NEW lines \in Seq(Line)
    PROVE  MergeHolds(Len(specs), lines)
<1> DEFINE n == Len(specs)
           T == {m \in Nat : m \in 0 .. n => MergeHolds(m, lines)}
<1>1. n \in Nat
  BY DEF RuleHolds
<1>2. MergeHolds(0, lines)
  <2>1. Merged(0) = Unmerged /\ Each(0, lines) = lines
    BY MergedStep, EachStep
  <2>2. 1 .. 0 = {} /\ <<>> \in Seq(Live)
    OBVIOUS
  <2>3. Gathered(specs, 0) = {}
    BY <2>2 DEF Gathered
  <2>4. Unmerged.result = <<>> /\ Unmerged.pending = {}
        /\ Unmerged \in [result: Seq(Live), pending: SUBSET Pats]
    BY <2>2 DEF Unmerged
  <2>5. WholeAll(<<>>, lines) = lines
    BY WholeAllStep
  <2>6. QED
    BY <2>1, <2>3, <2>4, <2>5 DEF MergeHolds
<1>3. ASSUME NEW m \in T PROVE m + 1 \in T
  <2>1. m \in Nat /\ (m \in 0 .. n => MergeHolds(m, lines))
    OBVIOUS
  <2>2. ASSUME m + 1 \in 0 .. n PROVE MergeHolds(m + 1, lines)
    <3>1. m \in 0 .. n /\ m \in 0 .. n - 1
      BY <1>1, <2>1, <2>2
    <3>2. QED
      BY <2>1, <3>1, MergeMore
  <2>3. QED
    BY <2>1, <2>2
<1>4. 0 \in T /\ T \in SUBSET Nat
  BY <1>2
<1> HIDE DEF T
<1>5. T = Nat
  BY <1>3, <1>4, BytesFold!SetInduction
<1>6. n \in T /\ n \in 0 .. n
  BY <1>1, <1>5
<1>7. QED
  BY <1>6 DEF T

\* What the compiled stages make of the input, one after the other, is what
\* the rule promises.
LEMMA WholeIsPromised ==
    ASSUME RuleHolds, input \in Seq(Line)
    PROVE  WholeAll(Compiled, input) = Promised
<1> DEFINE n == Len(specs)
           C == Loads(n)
           a == Merged(n)
           all == a.result \o Released(a.pending)
           E == Each(n, input)
           cap == MaxBytesStage(DefaultMaxBytes)
           capped == \E i \in DOMAIN specs : specs[i].kind = "MaxBytes"
           compiled == [i \in DOMAIN specs |-> SpecToStage(specs[i])]
<1>1. n \in Nat /\ n \in 0 .. n /\ n + 1 \notin 1 .. n /\ DOMAIN specs = 1 .. n
  BY DEF RuleHolds
<1>2. MergeHolds(n, input)
  BY MergeAll
<1>3. all \in Seq(Live) /\ WholeAll(all, input) = E
  BY <1>1, <1>2, MergeEnds
<1>4. a \in [result: Seq(Live), pending: SUBSET Pats]
  BY <1>2 DEF MergeHolds
<1>5. compiled = C
  BY <1>1 DEF Loads
<1>6. (\E i \in DOMAIN compiled : compiled[i].kind = "MaxBytes") <=> capped
  <2>1. ASSUME NEW i \in DOMAIN specs
        PROVE  SpecToStage(specs[i]).kind = specs[i].kind
    <3>1. specs[i] \in StageSpec
      BY DEF RuleHolds
    <3>2. specs[i].kind \in {"StripAnsi", "DropRegex", "KeepRegex", "ReplaceRegex",
                             "Dedupe", "CollapseRepeated", "KeepHead", "KeepTail",
                             "KeepAroundMatch", "MaxBytes"}
      BY <3>1 DEF StageSpec
    <3>3. QED
      BY <3>2 DEF SpecToStage, MaxBytesStage
  <2>2. QED
    BY <2>1
<1>7. Compiled = MergeKeepRegex(IF capped THEN C ELSE Append(C, cap))
  BY <1>5, <1>6 DEF Compiled, CompilePipeline
<1>8. Promised = IF capped THEN E ELSE CappedAt(E, DefaultMaxBytes)
  BY PromisedIs
<1>9. MergeFold!Fold(Unmerged, C) = a
  BY DEF Merged
<1> HIDE DEF C, a, E, capped, cap, all
<1>10. CASE capped
  <2>1. Compiled = MergeKeepRegex(C)
    BY <1>7, <1>10
  <2>2. MergeKeepRegex(C) = all
    BY <1>9, MergeIsFold DEF all
  <2>3. QED
    BY <1>3, <1>8, <1>10, <2>1, <2>2
<1>11. CASE ~capped
  <2>1. Compiled = MergeKeepRegex(Append(C, cap))
    BY <1>7, <1>11
  <2>2. cap \in Loaded /\ cap.kind = "MaxBytes" /\ cap \in Live
        /\ DefaultMaxBytes \in Nat
    BY RulesAssumption, MaxBytesLoaded DEF cap, Loaded
  <2>3. C \in Seq(Loaded)
    BY MergedStep DEF C
  <2> DEFINE b == MergeFold!Fold(Unmerged, Append(C, cap))
  <2>4. b = MergeOne(a, cap)
    BY <1>9, <2>2, <2>3, MergeFold!FoldAppend
  <2>5. MergeOne(a, cap) = [result |-> Append(all, cap), pending |-> {}]
    BY <2>2 DEF MergeOne, all
  <2>6. MergeKeepRegex(Append(C, cap)) = b.result \o Released(b.pending)
    BY MergeIsFold
  <2> HIDE DEF b
  <2>7. b.result = Append(all, cap) /\ Released(b.pending) = <<>>
    BY <2>4, <2>5 DEF Released
  <2>8. Append(all, cap) \o <<>> = Append(all, cap)
    <3>1. Append(all, cap) \in Seq(Live)
      BY <1>3, <2>2
    <3>2. QED
      BY <3>1
  <2>9. WholeAll(Append(all, cap), input) = Whole(cap, E)
    BY <1>3, <2>2, WholeAllStep
  <2>10. E \in Seq(Line)
    BY <1>3, WholeAllType
  <2>11. Whole(cap, E) = CappedAt(E, DefaultMaxBytes)
    BY <2>2, <2>10, WholeCap DEF cap
  <2>12. QED
    BY <1>8, <1>11, <2>1, <2>6, <2>7, <2>8, <2>9, <2>11
<1>12. QED
  BY <1>10, <1>11

\* Streaming changes nothing: once every stage has been flushed, the output
\* is what each entry of the rule, in turn and on all the lines at once,
\* promises of the input, with the default cap at the end when the rule has
\* none (Pipeline::process_line, Pipeline::flush and the OR-merge of
\* compilation).
THEOREM StreamEqualsBatchAlways == Spec => []StreamEqualsBatch
<1>1. StreamInv => StreamEqualsBatch
  <2>1. SUFFICES ASSUME StreamInv, Done PROVE output = Promised
    BY DEF StreamEqualsBatch
  <2>2. output = WholeAll(Compiled, input)
    BY <2>1, DoneOutput
  <2>3. RuleHolds /\ input \in Seq(Line)
    <3>1. RuleHolds /\ input \in Seq(ToolLine)
      BY <2>1 DEF StreamInv, PipelineInv
    <3>2. ToolLine \subseteq Line
      BY DEF Line
    <3>3. QED
      BY <3>1, <3>2
  <2>4. QED
    BY <2>2, <2>3, WholeIsPromised
<1>2. QED
  BY <1>1, StreamInvariant, PTL

=============================================================================
