------------------------------- MODULE Stages -------------------------------
(***************************************************************************)
(* The ten native primitives of a filter rule (pipeline/stages.rs): what a *)
(* stage does with one line (Step) and what it still owes when the stream  *)
(* ends (Flush).  A stage is a record that holds its configuration and its *)
(* mutable state, like a variant of `enum Stage`.                          *)
(*                                                                         *)
(* Data.  A line is a text with a number: the tool's own lines carry 0 and *)
(* a `[lacon: ...]` marker carries the number it prints.  A regex is the   *)
(* set of the texts it matches, markers included; a replacement is the     *)
(* function it computes on texts, and leaves markers alone.  Width counts  *)
(* the newline that joins the output (`line.len() + 1`); the width of a    *)
(* marker does not depend on the number of digits printed.                 *)
(***************************************************************************)
EXTENDS Integers, SequencesExt

CONSTANTS
    Text,       \* what a tool can print on a line
    Width,      \* bytes of each text and marker, newline included
    Plain       \* the text without its ANSI escapes

Marker == {"collapsed", "truncated"}

ASSUME TextAssumption ==
    /\ Text \cap Marker = {}
    /\ Width \in [Text \cup Marker -> Nat \ {0}]
    /\ Plain \in [Text -> Text]

ToolLine == [text: Text, count: {0}]
Line == ToolLine \cup [text: Marker, count: Nat]

Least(a, b) == IF a < b THEN a ELSE b

\* Bytes of a list of lines once joined with newlines.
Bytes(lines) == FoldLeft(LAMBDA n, l: n + Width[l.text], 0, lines)

Emit(stage, lines) == [stage |-> stage, out |-> lines]

Rewritten(line, f) ==
    IF line.text \in Text THEN [line EXCEPT !.text = f[@]] ELSE line

-----------------------------------------------------------------------------
(***************************************************************************)
(* One line through one stage.                                             *)
(***************************************************************************)
StripAnsiStep(s, line) == Emit(s, <<Rewritten(line, Plain)>>)

ReplaceRegexStep(s, line) == Emit(s, <<Rewritten(line, s.rewrite)>>)

DropRegexStep(s, line) ==
    Emit(s, IF line.text \in s.pattern THEN <<>> ELSE <<line>>)

KeepRegexStep(s, line) ==
    Emit(s, IF \E p \in s.patterns: line.text \in p THEN <<line>> ELSE <<>>)

\* `repeat_count` counts the copies emitted, the first one whatever max_kept.
DedupeStep(s, line) ==
    IF s.last # <<line>>
    THEN Emit([s EXCEPT !.last = <<line>>, !.repeat_count = 1], <<line>>)
    ELSE IF s.repeat_count < s.max_kept
         THEN Emit([s EXCEPT !.repeat_count = @ + 1], <<line>>)
         ELSE Emit(s, <<>>)

\* The marker a run of suppressed lines leaves, if any was suppressed.
CollapsedMarker(s) ==
    IF s.dropped > 0
    THEN <<[text |-> "collapsed", count |-> s.dropped]>>
    ELSE <<>>

CollapseStep(s, line) ==
    IF line.text \notin s.pattern
    THEN Emit([s EXCEPT !.kept_so_far = 0, !.dropped = 0],
              Append(CollapsedMarker(s), line))
    ELSE IF s.kept_so_far < s.max_kept
         THEN Emit([s EXCEPT !.kept_so_far = @ + 1], <<line>>)
         ELSE Emit([s EXCEPT !.dropped = @ + 1], <<>>)

\* Mutant: bytes mode takes a line while any budget is left.
KeepHeadOverspends(s, line) ==
    LET cost == IF s.unit = "lines" THEN 1 ELSE Width[line.text]
    IN  IF s.remaining > 0
        THEN Emit([s EXCEPT !.remaining = @ - cost], <<line>>)
        ELSE Emit(s, <<>>)

\* In bytes mode the first line that does not fit spends the whole budget.
KeepHeadStep(s, line) ==
    LET cost == IF s.unit = "lines" THEN 1 ELSE Width[line.text]
    IN  IF s.remaining >= cost
        THEN Emit([s EXCEPT !.remaining = @ - cost], <<line>>)
        ELSE Emit([s EXCEPT !.remaining = 0], <<>>)

\* How many lines the ring gives up before it takes the line: in lines mode
\* the oldest one when it is full, in bytes mode as many as make room.
PoppedFor(s, line) ==
    IF s.unit = "lines"
    THEN IF Len(s.ring) >= s.n THEN 1 ELSE 0
    ELSE Min({Len(s.ring)} \cup
             {k \in 0 .. Len(s.ring):
                s.byte_count - Bytes(SubSeq(s.ring, 1, k))
                    + Width[line.text] <= s.n})

\* Mutant: the bytes of the lines given up stay counted.
KeepTailForgets(s, line) ==
    Emit([s EXCEPT !.ring = Append(SubSeq(@, PoppedFor(s, line) + 1, Len(@)),
                                   line),
                   !.byte_count = @ + Width[line.text]], <<>>)

KeepTailStep(s, line) ==
    LET k == PoppedFor(s, line)
        counted == IF s.unit = "lines" THEN 0
                   ELSE s.byte_count - Bytes(SubSeq(s.ring, 1, k))
                            + Width[line.text]
    IN  Emit([s EXCEPT !.ring = Append(SubSeq(@, k + 1, Len(@)), line),
                       !.byte_count = counted], <<>>)

\* A match releases the context and opens the window of `after` lines; a
\* line outside every window waits in the context.
KeepAroundStep(s, line) ==
    IF line.text \in s.pattern
    THEN Emit([s EXCEPT !.ctx_buf = <<>>, !.emit_after = s.after],
              Append(s.ctx_buf, line))
    ELSE IF s.emit_after > 0
    THEN Emit([s EXCEPT !.emit_after = @ - 1], <<line>>)
    ELSE IF s.before = 0
    THEN Emit(s, <<>>)
    ELSE LET kept == IF Len(s.ctx_buf) >= s.before
                     THEN Tail(s.ctx_buf) ELSE s.ctx_buf
         IN  Emit([s EXCEPT !.ctx_buf = Append(kept, line)], <<>>)

\* Mutant: a line is taken as long as the cap has not been passed already.
MaxBytesLate(s, line) ==
    LET w == Width[line.text]
    IN  IF s.truncated \/ s.written > s.cap
        THEN Emit([s EXCEPT !.truncated = TRUE, !.dropped_bytes = @ + w], <<>>)
        ELSE Emit([s EXCEPT !.written = @ + w], <<line>>)

\* Once a line does not fit, it and every later one are counted, not emitted.
MaxBytesStep(s, line) ==
    LET w == Width[line.text]
    IN  IF s.truncated \/ s.written + w > s.cap
        THEN Emit([s EXCEPT !.truncated = TRUE, !.dropped_bytes = @ + w], <<>>)
        ELSE Emit([s EXCEPT !.written = @ + w], <<line>>)

\* Stage::step.
Step(s, line) ==
    CASE s.kind = "StripAnsi"        -> StripAnsiStep(s, line)
      [] s.kind = "DropRegex"        -> DropRegexStep(s, line)
      [] s.kind = "KeepRegex"        -> KeepRegexStep(s, line)
      [] s.kind = "ReplaceRegex"     -> ReplaceRegexStep(s, line)
      [] s.kind = "Dedupe"           -> DedupeStep(s, line)
      [] s.kind = "CollapseRepeated" -> CollapseStep(s, line)
      [] s.kind = "KeepHead"         -> KeepHeadStep(s, line)
      [] s.kind = "KeepTail"         -> KeepTailStep(s, line)
      [] s.kind = "KeepAroundMatch"  -> KeepAroundStep(s, line)
      [] s.kind = "MaxBytes"         -> MaxBytesStep(s, line)

(***************************************************************************)
(* Stage::flush: the end of the stream.  KeepTail drains its ring but not  *)
(* its byte count; MaxBytes keeps its counters.                            *)
(***************************************************************************)
Flush(s) ==
    CASE s.kind = "KeepTail" -> Emit([s EXCEPT !.ring = <<>>], s.ring)
      [] s.kind = "CollapseRepeated" ->
            IF s.dropped > 0
            THEN Emit([s EXCEPT !.kept_so_far = 0, !.dropped = 0],
                      CollapsedMarker(s))
            ELSE Emit(s, <<>>)
      [] s.kind = "MaxBytes" ->
            Emit(s, IF s.truncated
                    THEN <<[text |-> "truncated", count |-> s.dropped_bytes]>>
                    ELSE <<>>)
      [] OTHER -> Emit(s, <<>>)

=============================================================================
