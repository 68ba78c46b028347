----------------------------- MODULE MCPipeline -----------------------------
(***************************************************************************)
(* A pipeline of at most one stage, extended by one of at most two.  "A"   *)
(* is "a" in colour; the widths make two or three lines reach the caps.    *)
(***************************************************************************)
EXTENDS Pipeline

MCText == {"a", "A", "b"}

MCWidth == [t \in MCText \cup {"collapsed", "truncated"} |->
              CASE t = "a" -> 2 [] t = "b" -> 3 [] t = "A" -> 4
                [] t = "collapsed" -> 3 [] OTHER -> 5]

MCPlain == [t \in MCText |-> IF t = "A" THEN "a" ELSE t]

HeadTail(kind) ==
    {[kind |-> kind, unit |-> u, n |-> n] : u \in {"lines"}, n \in {0, 2}}
    \cup {[kind |-> kind, unit |-> "bytes", n |-> n] : n \in {3, 6}}

Around(b, a) == [kind |-> "KeepAroundMatch", pattern |-> {"b"},
                 before |-> b, after |-> a]

Entries ==
    {[kind |-> "StripAnsi"],
     [kind |-> "DropRegex", pattern |-> {"b", "truncated"}],
     [kind |-> "KeepRegex", pattern |-> {"a"}],
     [kind |-> "KeepRegex", pattern |-> {"b", "collapsed"}],
     [kind |-> "ReplaceRegex",
      rewrite |-> [t \in MCText |-> IF t = "a" THEN "A" ELSE t]],
     [kind |-> "MaxBytes", cap |-> 6]}
    \cup {[kind |-> "Dedupe", max_kept |-> n] : n \in {0, 2}}
    \cup {[kind |-> "CollapseRepeated", pattern |-> {"a", "A"}, max_kept |-> n] :
            n \in 0 .. 1}
    \cup HeadTail("KeepHead") \cup HeadTail("KeepTail")
    \cup {Around(1, 1), Around(2, 0)}

Short == {<<>>} \cup {<<e>> : e \in Entries}

\* Stages that interact through what they hold back, drop or release late.
Mixing ==
    {e \in Entries: \/ e.kind \in {"KeepRegex", "MaxBytes"}
                    \/ e.kind = "CollapseRepeated" /\ e.max_kept = 1
                    \/ e.kind = "KeepTail" /\ e.unit = "lines" /\ e.n = 2}

Longer == Short \cup {<<d, e>> : d \in Mixing, e \in Mixing}

=============================================================================
