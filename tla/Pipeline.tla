------------------------------ MODULE Pipeline ------------------------------
(***************************************************************************)
(* A rule's success pipeline, from the stage lists of a rule and of the    *)
(* rule it extends to the filtered output: the extends merge, the          *)
(* compilation with the implicit output cap, the OR-merge of keep_regex    *)
(* stages, the streaming of one line after the other and the flush of one  *)
(* stage after the other (rules/loader.rs, pipeline/mod.rs).               *)
(*                                                                         *)
(* One process runs this code: the behaviours are the rules that can be    *)
(* written and the streams a tool can print.                               *)
(***************************************************************************)
EXTENDS Stages

CONSTANTS
    Parents,        \* pipelines of the rules that can be extended
    Children,       \* pipelines of the rules that extend them
    DefaultMaxBytes,\* defaults.max_bytes of the configuration
    MaxLines        \* bound: lines the tool prints

\* A stage as a rule file spells it: a regex for each pattern, a count for
\* each number, zero included (rules/schema.rs).
StageSpec ==
    [kind: {"StripAnsi"}]
    \cup [kind: {"DropRegex", "KeepRegex"}, pattern: SUBSET (Text \cup Marker)]
    \cup [kind: {"ReplaceRegex"}, rewrite: [Text -> Text]]
    \cup [kind: {"Dedupe"}, max_kept: Nat]
    \cup [kind: {"CollapseRepeated"}, pattern: SUBSET (Text \cup Marker),
          max_kept: Nat]
    \cup [kind: {"KeepHead", "KeepTail"}, unit: {"lines", "bytes"}, n: Nat]
    \cup [kind: {"KeepAroundMatch"}, pattern: SUBSET (Text \cup Marker),
          before: Nat, after: Nat]
    \cup [kind: {"MaxBytes"}, cap: Nat]

ASSUME RulesAssumption ==
    /\ Parents \subseteq Seq(StageSpec)
    /\ Children \subseteq Seq(StageSpec)
    /\ DefaultMaxBytes \in Nat

VARIABLES
    specs,          \* the flattened list of stages the rule asks for
    stages,         \* Pipeline::stages
    input,          \* the lines run through it so far
    output,         \* the lines emitted so far
    next            \* 0 while lines come, then the stage to flush

vars == <<specs, stages, input, output, next>>

-----------------------------------------------------------------------------
(***************************************************************************)
(* Loading.                                                                *)
(***************************************************************************)

\* The parent's stages come before the child's (ADR-0012).
MergeRules(parent, child) == parent \o child

\* A count of zero is refused for keep_head and keep_tail; compilation of
\* the whole rule fails with it.
Accepted(spec) == spec.kind \in {"KeepHead", "KeepTail"} => spec.n > 0

MaxBytesStage(cap) ==
    [kind |-> "MaxBytes", cap |-> cap, written |-> 0, truncated |-> FALSE,
     dropped_bytes |-> 0]

\* The stage as loaded: the entry of the rule file with its initial state.
SpecToStage(spec) ==
    CASE spec.kind = "KeepRegex" ->
            [kind |-> "KeepRegex", patterns |-> {spec.pattern}]
      [] spec.kind = "Dedupe" ->
            [kind |-> "Dedupe", max_kept |-> spec.max_kept,
             last |-> <<>>, repeat_count |-> 0]
      [] spec.kind = "CollapseRepeated" ->
            [kind |-> "CollapseRepeated", pattern |-> spec.pattern,
             max_kept |-> spec.max_kept, kept_so_far |-> 0, dropped |-> 0]
      [] spec.kind = "KeepHead" ->
            [kind |-> "KeepHead", unit |-> spec.unit, n |-> spec.n,
             remaining |-> spec.n]
      [] spec.kind = "KeepTail" ->
            [kind |-> "KeepTail", unit |-> spec.unit, n |-> spec.n,
             ring |-> <<>>, byte_count |-> 0]
      [] spec.kind = "KeepAroundMatch" ->
            [kind |-> "KeepAroundMatch", pattern |-> spec.pattern,
             before |-> spec.before, after |-> spec.after,
             ctx_buf |-> <<>>, emit_after |-> 0]
      [] spec.kind = "MaxBytes" -> MaxBytesStage(spec.cap)
      [] OTHER -> spec

\* The patterns of a run of keep_regex stages gather until another stage or
\* the end of the list releases them as one stage.
Released(pending) ==
    IF pending = {} THEN <<>>
    ELSE <<[kind |-> "KeepRegex", patterns |-> pending]>>

MergeKeepRegex(list) ==
    LET Add(acc, s) ==
            IF s.kind = "KeepRegex"
            THEN [acc EXCEPT !.pending = @ \cup s.patterns]
            ELSE [result  |-> Append(acc.result \o Released(acc.pending), s),
                  pending |-> {}]
        end == FoldLeft(Add, [result |-> <<>>, pending |-> {}], list)
    IN  end.result \o Released(end.pending)

\* A pipeline without a max_bytes of its own gets the default at its end.
CompilePipeline(list) ==
    LET compiled == [i \in DOMAIN list |-> SpecToStage(list[i])]
    IN  MergeKeepRegex(
            IF \E i \in DOMAIN compiled: compiled[i].kind = "MaxBytes"
            THEN compiled
            ELSE Append(compiled, MaxBytesStage(DefaultMaxBytes)))

-----------------------------------------------------------------------------
(***************************************************************************)
(* Running.                                                                *)
(***************************************************************************)

\* A batch of lines through one stage, then through a list of stages.
StepAll(s, lines) ==
    FoldLeft(LAMBDA acc, line:
                LET r == Step(acc.stage, line)
                IN  Emit(r.stage, acc.out \o r.out),
             Emit(s, <<>>), lines)

Through(list, lines) ==
    FoldLeft(LAMBDA acc, s:
                LET r == StepAll(s, acc.out)
                IN  [stages |-> Append(acc.stages, r.stage), out |-> r.out],
             [stages |-> <<>>, out |-> lines], list)

Init ==
    /\ \E parent \in Parents, child \in Children:
          specs = MergeRules(parent, child)
    /\ \A i \in DOMAIN specs: Accepted(specs[i])
    /\ stages = CompilePipeline(specs)
    /\ input = <<>>
    /\ output = <<>>
    /\ next = 0

\* One line of the tool goes through every stage.
Feed ==
    /\ next = 0
    /\ Len(input) < MaxLines
    /\ \E line \in ToolLine:
          LET r == Through(stages, <<line>>)
          IN  /\ stages' = r.stages
              /\ output' = output \o r.out
              /\ input' = Append(input, line)
    /\ UNCHANGED <<specs, next>>

EndOfStream ==
    /\ next = 0
    /\ next' = 1
    /\ UNCHANGED <<specs, stages, input, output>>

\* Mutant: what a stage owed goes straight to the output.
FlushStageDirect ==
    /\ next \in DOMAIN stages
    /\ LET flushed == Flush(stages[next])
       IN  /\ stages' = [stages EXCEPT ![next] = flushed.stage]
           /\ output' = output \o flushed.out
    /\ next' = next + 1
    /\ UNCHANGED <<specs, input>>

\* The next stage is flushed and what it owed goes through the later ones.
FlushStage ==
    /\ next \in DOMAIN stages
    /\ LET flushed == Flush(stages[next])
           rest == Through(SubSeq(stages, next + 1, Len(stages)), flushed.out)
       IN  /\ stages' = SubSeq(stages, 1, next - 1)
                            \o <<flushed.stage>> \o rest.stages
           /\ output' = output \o rest.out
    /\ next' = next + 1
    /\ UNCHANGED <<specs, input>>

Next == Feed \/ EndOfStream \/ FlushStage

Spec == Init /\ [][Next]_vars

Done == next = Len(stages) + 1

-----------------------------------------------------------------------------
(***************************************************************************)
(* What each primitive promises of a whole stream, said without any state: *)
(* which positions of the stream survive, and which marker follows them.   *)
(***************************************************************************)
Select(lines, Keeps(_)) ==
    FlattenSeq([i \in DOMAIN lines |->
                  IF Keeps(i) THEN <<lines[i]>> ELSE <<>>])

\* How many lines up to position i, i included, are alike without a break.
RunUpTo(i, Alike(_)) ==
    Max({0} \cup {k \in 1 .. i: \A j \in i - k + 1 .. i: Alike(j)})

\* The longest prefix that fits a budget of lines or of bytes.
Cost(lines, unit) == IF unit = "lines" THEN Len(lines) ELSE Bytes(lines)

LongestHead(lines, unit, n) ==
    Max({k \in 0 .. Len(lines): Cost(SubSeq(lines, 1, k), unit) <= n})

\* The length of the longest suffix that fits, or 1: the last line always
\* stays, however long it is.
LongestTail(lines, unit, n) ==
    Max({Least(1, Len(lines))} \cup
        {k \in 1 .. Len(lines):
            Cost(SubSeq(lines, Len(lines) - k + 1, Len(lines)), unit) <= n})

CollapsedRuns(lines, spec) ==
    LET run == [i \in 0 .. Len(lines) + 1 |->
                  IF i \notin DOMAIN lines THEN 0
                  ELSE RunUpTo(i, LAMBDA j: lines[j].text \in spec.pattern)]
        Over(i) == run[i] - spec.max_kept
    IN  FlattenSeq([i \in DOMAIN lines |->
            (IF Over(i) <= 0 \/ run[i] = 0 THEN <<lines[i]>> ELSE <<>>)
            \o (IF run[i + 1] = 0 /\ run[i] > 0 /\ Over(i) > 0
                THEN <<[text |-> "collapsed", count |-> Over(i)]>>
                ELSE <<>>)])

CappedAt(lines, cap) ==
    LET fit == LongestHead(lines, "bytes", cap)
        dropped == Bytes(SubSeq(lines, fit + 1, Len(lines)))
    IN  SubSeq(lines, 1, fit)
            \o IF dropped = 0 THEN <<>>
               ELSE <<[text |-> "truncated", count |-> dropped]>>

InWindow(lines, spec, i) ==
    \E m \in DOMAIN lines: /\ lines[m].text \in spec.pattern
                           /\ m - spec.before <= i
                           /\ i <= m + spec.after

\* keep_regex entries that follow each other are alternatives: a line must
\* match one of them.  Entries with another stage between them must each
\* be satisfied (pipeline/mod.rs, the OR-merge contract).
Alternatives(list, i) ==
    {list[j].pattern : j \in {k \in DOMAIN list:
        \A m \in Least(i, k) .. Max({i, k}): list[m].kind = "KeepRegex"}}

Batch(list, i, lines) ==
    LET s == list[i] IN
    CASE s.kind = "StripAnsi" ->
            [p \in DOMAIN lines |-> Rewritten(lines[p], Plain)]
      [] s.kind = "ReplaceRegex" ->
            [p \in DOMAIN lines |-> Rewritten(lines[p], s.rewrite)]
      [] s.kind = "DropRegex" ->
            Select(lines, LAMBDA p: lines[p].text \notin s.pattern)
      [] s.kind = "KeepRegex" ->
            Select(lines, LAMBDA p:
                lines[p].text \in UNION Alternatives(list, i))
      [] s.kind = "Dedupe" ->
            Select(lines, LAMBDA p:
                LET copies == RunUpTo(p, LAMBDA j: lines[j] = lines[p])
                IN  copies = 1 \/ copies <= s.max_kept)
      [] s.kind = "CollapseRepeated" -> CollapsedRuns(lines, s)
      [] s.kind = "KeepHead" ->
            SubSeq(lines, 1, LongestHead(lines, s.unit, s.n))
      [] s.kind = "KeepTail" ->
            SubSeq(lines, Len(lines) - LongestTail(lines, s.unit, s.n) + 1,
                   Len(lines))
      [] s.kind = "KeepAroundMatch" ->
            Select(lines, LAMBDA p: InWindow(lines, s, p))
      [] s.kind = "MaxBytes" -> CappedAt(lines, s.cap)

\* The promise of the whole rule: each entry in turn, on all the lines.
Promised ==
    LET every == FoldLeft(LAMBDA lines, i: Batch(specs, i, lines), input,
                          [i \in DOMAIN specs |-> i])
    IN  IF \E i \in DOMAIN specs: specs[i].kind = "MaxBytes"
        THEN every
        ELSE CappedAt(every, DefaultMaxBytes)

-----------------------------------------------------------------------------
(* Properties *)

Configured(s) ==
    CASE s.kind = "Dedupe" ->
            /\ s.last \in Seq(Line) /\ Len(s.last) <= 1
            /\ s.repeat_count \in Nat
      [] s.kind = "CollapseRepeated" -> {s.kept_so_far, s.dropped} \subseteq Nat
      [] s.kind = "KeepHead" -> s.remaining \in 0 .. s.n
      [] s.kind = "KeepTail" -> s.ring \in Seq(Line) /\ s.byte_count \in Nat
      [] s.kind = "KeepAroundMatch" ->
            s.ctx_buf \in Seq(Line) /\ s.emit_after \in 0 .. s.after
      [] s.kind = "MaxBytes" ->
            /\ s.written \in 0 .. s.cap
            /\ s.truncated \in BOOLEAN
            /\ s.dropped_bytes \in Nat
      [] OTHER -> TRUE

\* Every counter of every stage stays in the range of its unsigned type, none
\* being decremented below zero; keep_head never has more left than its n, a
\* window is never longer than `after`, what max_bytes let through never more
\* than its cap; rings and contexts are lists of lines.
PipelineTypeOK ==
    /\ \A i \in DOMAIN stages: Configured(stages[i])
    /\ input \in Seq(ToolLine)
    /\ output \in Seq(Line)
    /\ next \in 0 .. Len(stages) + 1

\* Streaming changes nothing: the lines that come out of the stages fed one
\* line at a time, and flushed in turn, are the lines each primitive keeps
\* of the whole stream, in their order, with the markers where the runs and
\* the output end.
StreamEqualsBatch == Done => output = Promised

\* A stage holds what its configuration allows and no more, whatever the
\* length of the stream: a tail of n lines holds n, a tail of n bytes holds
\* n bytes or one longer line, and its byte count is that of its ring; a
\* context holds `before` lines (the memory bounds of stages.rs).
Bounded(i) ==
    LET s == stages[i] IN
    CASE s.kind = "KeepTail" /\ s.unit = "lines" -> Len(s.ring) <= s.n
      [] s.kind = "KeepTail" /\ s.unit = "bytes" ->
            /\ Bytes(s.ring) <= s.n \/ Len(s.ring) = 1
            /\ i >= next => s.byte_count = Bytes(s.ring)
      [] s.kind = "KeepAroundMatch" -> Len(s.ctx_buf) <= s.before
      [] OTHER -> TRUE

StateBounded == \A i \in DOMAIN stages: Bounded(i)

\* Where max_bytes is the last stage, the lines it lets through never exceed
\* its cap, at any moment of the run: not while lines come, not while earlier
\* stages are flushed.  Beyond the cap there is only the marker, once, as the
\* last line, when everything is flushed, with the bytes that were dropped.
\* So this is the cap of docs/primitive-reference.md:374, whose marker is
\* appended to what was kept; with the marker the output may be longer than
\* max_bytes, which docs/specs/config-schema.md:71 says it never is.
OutputCapped ==
    LET last == stages[Len(stages)]
    IN  last.kind = "MaxBytes" =>
            IF Done /\ last.truncated
            THEN /\ output # <<>>
                 /\ Last(output) = [text |-> "truncated",
                                    count |-> last.dropped_bytes]
                 /\ Bytes(Front(output)) <= last.cap
            ELSE Bytes(output) <= last.cap

=============================================================================
