-------------------------------- MODULE Hook --------------------------------
(***************************************************************************)
(* One Bash call of the assistant under the hook: the hook decides what    *)
(* becomes of the command (lib.rs), the shell runs what it returned, and   *)
(* every `lacon run --rule <id>' in it looks its rule up again, in another *)
(* process, at another time and perhaps in another directory (run.rs),     *)
(* while somebody edits rule files.                                        *)
(***************************************************************************)
EXTENDS Loader, Shell

CONSTANTS
    Calls,          \* what the assistant may send (tool, command), where:
                    \*   disabled, whether LACON_DISABLE=1 is set
                    \*   tree, the rule files: directory -> entry -> content
                    \*   edited, whether somebody edits them meanwhile
    Home            \* the cwd of the payload

ASSUME CallsAssumption ==
    /\ Home \in ProjectDirs
    /\ \A in \in Calls:
          /\ in.command \in Seq(STRING)
          /\ DOMAIN in.tree = RuleDirs
          /\ \A dir \in RuleDirs, n \in Names:
                LET rule == in.tree[dir][n]
                IN  rule # Absent /\ (rule # NoFile => IsRule(rule))

VARIABLES
    input,          \* the call
    phase,          \* who is at work
    segments,       \* split_chain of the command
    rendered,       \* what the hook made of the first of them
    chosen,         \* the rules it found for them
    outcome,        \* the command the shell gets
    cwd,            \* of the shell
    items, pos,     \* the commands the shell reads, and the next of them
    status,         \* of the last command it ran
    log,            \* what became of the wrapped commands
    onDisk          \* history: every content a rule file had so far

hookVars == <<input, segments, rendered, chosen, outcome>>
shellVars == <<cwd, items, pos, status, log>>
vars == <<loaderVars, phase, hookVars, shellVars, onDisk>>

-----------------------------------------------------------------------------
(***************************************************************************)
(* The hook.                                                               *)
(***************************************************************************)
DefaultRewrite ==
    [remove_flags |-> {}, replace_flags |-> <<>>, add_flags |-> <<>>]

RewriteOf(rule) == IF rule.rewrite = Absent THEN DefaultRewrite ELSE rule.rewrite

Words(list) ==
    FoldLeft(Join, <<>>,
             [i \in DOMAIN list |->
                IF i = 1 THEN list[i] ELSE <<Space>> \o list[i]])

\* The environment of a wrapped command; one assignment stands for three.
WrapperEnv == <<"LACON_SESSION_ID", "=", "id">>
RuleFlag == <<"-", "-", "rule">>
DashDash == <<"-", "-">>

Wrap(rule, argv) ==
    LET rewritten == ApplyRewrite(argv, RewriteOf(rule))
    IN  Words(<<WrapperEnv, <<"lacon">>, <<"run">>, RuleFlag, <<rule.id>>,
                DashDash>>
              \o [i \in DOMAIN rewritten |-> QuoteForShell(rewritten[i])])

Rejoin(texts) ==
    FoldLeft(Join, <<>>,
             [i \in DOMAIN segments |-> texts[i] \o segments[i].span])

\* Mutant: only the first segment is looked at.
PassThroughFirstOnly(in) ==
    \/ in.tool # "Bash"
    \/ DetectBypass(in.command, in.disabled)
    \/ LET argv == ArgvForResolution(SplitChain(in.command)[1].text)
       IN  argv # <<>> /\ IsTui(argv)

\* Nothing is split or resolved for another tool, a bypass, or a chain with
\* an interactive command.
PassThrough(in) ==
    \/ in.tool # "Bash"
    \/ DetectBypass(in.command, in.disabled)
    \/ LET segs == SplitChain(in.command)
       IN  \E i \in DOMAIN segs:
              LET argv == ArgvForResolution(segs[i].text)
              IN  argv # <<>> /\ IsTui(argv)

\* The shell starts on the command it is given.
HandOver(cmd) ==
    /\ outcome' = cmd
    /\ items' = ShellReads(cmd).list
    /\ phase' = "shell"

Decide ==
    /\ phase = "hook"
    /\ segments' = SplitChain(input.command)
    /\ IF PassThrough(input)
       THEN HandOver(input.command)
       ELSE phase' = "segment" /\ UNCHANGED <<outcome, items>>
    /\ UNCHANGED <<loaderVars, input, rendered, chosen, cwd, pos, status, log,
                   onDisk>>

Current == segments[Len(rendered) + 1].text

\* Mutant: a segment that is left alone is taken over twice.
RenderVerbatimTwice ==
    /\ phase = "segment"
    /\ Len(rendered) < Len(segments)
    /\ ArgvForResolution(Current) = <<>> \/ ~IsWrapSafe(Current)
    /\ rendered' = rendered \o <<Current, Current>>
    /\ UNCHANGED <<loaderVars, phase, input, segments, chosen, outcome,
                   shellVars, onDisk>>

\* Empty, or not to be reproduced by tokenizing and quoting.
RenderVerbatim ==
    /\ phase = "segment"
    /\ Len(rendered) < Len(segments)
    /\ ArgvForResolution(Current) = <<>> \/ ~IsWrapSafe(Current)
    /\ rendered' = Append(rendered, Current)
    /\ UNCHANGED <<loaderVars, phase, input, segments, chosen, outcome,
                   shellVars, onDisk>>

BeginMatch ==
    /\ phase = "segment"
    /\ Len(rendered) < Len(segments)
    /\ ArgvForResolution(Current) # <<>> /\ IsWrapSafe(Current)
    /\ loader' = Begin(loader, "all", Absent)
    /\ phase' = "match"
    /\ UNCHANGED <<files, edits, hookVars, shellVars, onDisk>>

\* An error anywhere in the three layers leaves the segment as it is.
RenderMatched ==
    /\ phase = "match"
    /\ Finished(loader)
    /\ LET argv == ArgvForResolution(Current)
           hit == IF loader.failed THEN NoFile
                  ELSE FirstMatch(loader.rules, argv)
       IN  /\ rendered' = Append(rendered, IF hit = NoFile THEN Current
                                           ELSE Wrap(hit.rule, argv))
           /\ chosen' = IF hit = NoFile THEN chosen
                        ELSE Append(chosen, [argv |-> argv,
                                              source |-> hit.source,
                                              rule |-> hit.rule])
    /\ loader' = [loader EXCEPT !.want = "nothing"]
    /\ phase' = "segment"
    /\ UNCHANGED <<files, edits, input, segments, outcome, shellVars, onDisk>>

Reassemble ==
    /\ phase = "segment"
    /\ Len(rendered) = Len(segments)
    /\ HandOver(IF chosen = <<>> THEN input.command ELSE Rejoin(rendered))
    /\ loader' = NewLoader(Absent)
    /\ UNCHANGED <<files, edits, input, segments, rendered, chosen, cwd, pos,
                   status, log, onDisk>>

-----------------------------------------------------------------------------
(***************************************************************************)
(* The shell and lacon run.                                                *)
(***************************************************************************)
Command == SimpleCommand(items[pos].text)

IsWrapped(c) == /\ c.lead = <<WrapperEnv>>
                /\ IsPrefix(<<<<"lacon">>, <<"run">>, RuleFlag>>, c.argv)
WrappedId(c) == Head(c.argv[4])
WrappedArgv(c) == SubSeq(c.argv, 6, Len(c.argv))

\* && and || go by the status of what ran last.
Due == LET sep == IF pos = 1 THEN <<>> ELSE items[pos - 1].sep
       IN  CASE sep = <<"&", "&">> -> status = 0
             [] sep = <<"|", "|">> -> status # 0
             [] OTHER -> TRUE

Skips == ~Due \/ items[pos].text = <<>>
ChangesDirectory(dir) == Command.argv = <<<<"cd">>, <<dir>>>>

SkipCommand ==
    /\ phase = "shell" /\ pos <= Len(items) /\ Skips
    /\ pos' = pos + 1
    /\ UNCHANGED <<loaderVars, phase, hookVars, cwd, items, status, log, onDisk>>

RunCommand ==
    /\ phase = "shell" /\ pos <= Len(items) /\ ~Skips
    /\ ~IsWrapped(Command)
    /\ \/ \E dir \in ProjectDirs:
             ChangesDirectory(dir) /\ cwd' = dir /\ status' = 0
       \/ /\ ~\E dir \in ProjectDirs: ChangesDirectory(dir)
          /\ status' \in {0, 1}
          /\ UNCHANGED cwd
    /\ pos' = pos + 1
    /\ UNCHANGED <<loaderVars, phase, hookVars, items, log, onDisk>>

\* Mutant: lacon run does not look into the project.
StartLaconRunUserOnly ==
    /\ phase = "shell" /\ pos <= Len(items) /\ ~Skips
    /\ IsWrapped(Command)
    /\ loader' = Begin(NewLoader(UserDir), "one", WrappedId(Command))
    /\ phase' = "lacon run"
    /\ UNCHANGED <<files, edits, hookVars, shellVars, onDisk>>

\* lacon run --rule: a loader of its own for the directory it starts in.
StartLaconRun ==
    /\ phase = "shell" /\ pos <= Len(items) /\ ~Skips
    /\ IsWrapped(Command)
    /\ loader' = Begin(NewLoader(cwd), "one", WrappedId(Command))
    /\ phase' = "lacon run"
    /\ UNCHANGED <<files, edits, hookVars, shellVars, onDisk>>

\* Without a rule lacon run ends with 1 and starts nothing.
LaconRun ==
    /\ phase = "lacon run"
    /\ Finished(loader)
    /\ LET found == ~loader.failed /\ loader.rules # <<>>
       IN  /\ log' = log \cup {[at |-> pos, ran |-> found,
                                rule |-> IF found THEN Head(loader.rules)
                                         ELSE Absent]}
           /\ status' \in IF found THEN {0, 1} ELSE {1}
    /\ loader' = NewLoader(Absent)
    /\ pos' = pos + 1
    /\ phase' = "shell"
    /\ UNCHANGED <<files, edits, hookVars, cwd, items, onDisk>>

Exit ==
    /\ phase = "shell" /\ pos > Len(items)
    /\ phase' = "done"
    /\ UNCHANGED <<loaderVars, hookVars, shellVars, onDisk>>

-----------------------------------------------------------------------------
Contents0(tree) ==
    [d \in DOMAIN tree |->
        [n \in Names |-> [rule |-> tree[d][n], mtime |-> 0]]]

Init ==
    /\ input \in Calls
    /\ files = Contents0(input.tree)
    /\ onDisk = {<<d, n, input.tree[d][n]>> :
                    d \in DOMAIN input.tree, n \in Names}
    /\ edits = 0
    /\ loader = NewLoader(Home)
    /\ phase = "hook"
    /\ segments = <<>> /\ rendered = <<>> /\ chosen = <<>> /\ outcome = <<>>
    /\ cwd = Home
    /\ items = <<>> /\ pos = 1 /\ status = 0
    /\ log = {}

Loading ==
    /\ phase \in {"match", "lacon run"}
    /\ Walk
    /\ UNCHANGED <<phase, hookVars, shellVars, onDisk>>

\* Edits end with the call: later ones change nothing here.
Edit ==
    /\ phase # "done"
    /\ input.edited
    /\ EditRule
    /\ onDisk' = onDisk \cup {<<d, n, files'[d][n].rule>> :
                                d \in DOMAIN files, n \in Names}
    /\ UNCHANGED <<phase, hookVars, shellVars>>

\* The call is over.
Over == phase = "done" /\ UNCHANGED vars

Next ==
    \/ Decide \/ RenderVerbatim \/ BeginMatch \/ RenderMatched \/ Reassemble
    \/ Loading
    \/ SkipCommand \/ RunCommand \/ StartLaconRun \/ LaconRun \/ Exit
    \/ Edit \/ Over

Spec == Init /\ [][Next]_vars

-----------------------------------------------------------------------------
(***************************************************************************)
(* Properties.                                                             *)
(***************************************************************************)
HookTypeOK ==
    /\ phase \in {"hook", "segment", "match", "shell", "lacon run", "done"}
    /\ Len(rendered) <= Len(segments)
    /\ Len(chosen) <= Len(rendered)
    /\ pos \in 1 .. Len(items) + 1
    /\ status \in {0, 1}
    /\ cwd \in ProjectDirs
    /\ edits \in 0 .. MaxEdits
    /\ \A c \in loader.cache: c.mtime \in 0 .. edits

\* The command is handed to the shell, which has not run anything of it yet.
HandedOver == phase = "shell" /\ pos = 1

Reads == ShellReads(input.command)

\* What the splitter does not know of: comments, $'...', and a bracket that
\* stands for itself in the other kind of bracket.
Unusual == \/ ~Reads.complete
           \/ Reads.seen \cap {"comment", "ansi"} # {}
           \/ Reads.crossed

\* Taken apart and put together, a command is what it was, byte by byte
\* (chain.rs:16, "reproduces the original input byte-exact").
RejoinsExactly ==
    HandedOver => Rejoin([i \in DOMAIN segments |-> segments[i].text])
                        = input.command

\* A command is cut only where the shell itself ends one command and starts
\* the next (chained-commands.md:36).
CutsAreSeparators ==
    HandedOver /\ ~Unusual =>
        \A i \in 1 .. Len(segments) - 1: segments[i].at \in Reads.at

\* A quoted brace comes back unquoted, and the wrapper turns what leads a
\* command into an argument.
Excused(c) ==
    \/ c.lead # <<>>
    \/ \E i \in DOMAIN c.argv: Range(c.argv[i]) \cap {"{", "}"} # {}

WrappedAround(c, w) ==
    /\ IsWrapped(w)
    /\ ~c.live
    /\ \/ Excused(c)
       \/ /\ ~w.live
          /\ \E r \in Range(chosen):
                /\ WrappedId(w) = r.rule.id
                /\ WrappedArgv(w) = ApplyRewrite(c.argv, RewriteOf(r.rule))

SameList(old, new) ==
    /\ Len(new) = Len(old)
    /\ \A i \in DOMAIN old:
          /\ new[i].sep = old[i].sep
          /\ \/ new[i].text = old[i].text
             \/ WrappedAround(SimpleCommand(old[i].text),
                              SimpleCommand(new[i].text))

\* The shell reads the same list of commands with the same operators from
\* what the hook returns: each as it was, or wrapped around the very argv
\* the shell would have built, changed by the rule's rewrite block only
\* (chained-commands.md:56, chain.rs:400).
ShellReadsTheSame ==
    HandedOver /\ ~Unusual => SameList(Reads.list, ShellReads(outcome).list)

\* What is wrapped reaches the wrapper as the words it was: the shell does
\* not expand in the wrapper what was literal in the command (chain.rs:420,
\* "the requoted argv reproduces the exact same program invocation").
RequotedStaysLiteral ==
    HandedOver /\ ~Unusual =>
        \A seg \in Range(ShellReads(outcome).list):
            IsWrapped(SimpleCommand(seg.text)) =>
                \A word \in Range(ShellWords(seg.text)): ~BraceExpands(word)

\* When the splitter has seen every operator, one interactive command in
\* the chain leaves the whole input alone (chained-commands.md:64).
InteractiveLeftAlone ==
    HandedOver /\ ~Unusual
        /\ Reads.at = {segments[i].at : i \in 1 .. Len(segments) - 1}
        /\ (\E i \in DOMAIN Reads.list:
               LET c == SimpleCommand(Reads.list[i].text)
               IN  c.lead = <<>> /\ c.argv # <<>> /\ IsTui(c.argv))
    => outcome = input.command

Hatch == <<"LACON_DISABLE", "=", "1">>

\* The ways of writing it that the scan reads (lib.rs:74-77).
HatchSpellings ==
    {Hatch, <<"LACON_DISABLE", "=", "'", "1", "'">>,
     <<"LACON_DISABLE", "=", "\"", "1", "\"">>}

\* LACON_DISABLE=1 among the assignments that lead the command, bare or in
\* one pair of quotes, leaves the whole input alone, if there are only plain
\* assignments before it: no reserved word, no quoted blank or operator.
\* And the scan finds it only where the shell assigns it: not in an
\* argument, not in a later command (lib.rs:67-72, lib.rs:79-86).
EscapeHatchHonoured ==
    LET first == Reads.list[1].text
        written == SplitWhitespace(first)
        c == SimpleCommand(first)
        Cuts == Whitespace \cup {";", "&", "|"}
        PlainLead(n) == \A i \in 1 .. n: /\ c.lead[i] \notin Reserved
                                        /\ Range(c.lead[i]) \cap Cuts = {}
    IN  HandedOver /\ ~Unusual =>
            /\ (\E n \in DOMAIN c.lead: /\ written[n] \in HatchSpellings
                                       /\ PlainLead(n))
               => outcome = input.command
            /\ /\ InlineDisableBypass(input.command)
               /\ PlainLead(Len(c.lead))
               /\ ~c.live
               => Hatch \in Range(c.lead)

\* Every rule the hook chose was matched by no rule of a higher layer, as
\* long as nobody edits (filter-rule-schema.md:14).
HigherLayerWins ==
    edits = 0 => \A i \in DOMAIN chosen:
        \A d \in CASE chosen[i].source = Home -> {}
                  [] chosen[i].source = UserDir -> {Home}
                  [] OTHER -> {Home, UserDir}:
            \A n \in Names:
                LET rule == files[d][n].rule
                IN  rule # NoFile =>
                        LET flat == Load(rule, RulesIn(d))
                        IN  flat # Absent
                            /\ ~RuleMatchesArgv(flat, chosen[i].argv)

Disturbed == cwd # Home \/ edits > 0

Started == \A l \in log: l.ran

\* A wrapped command whose turn comes is started, as the command in it would
\* have been (chained-commands.md:56), as long as nobody edits rules.
WrappedCommandRuns == edits = 0 => Started

\* What match found, the lookup by id finds again in the other process: a
\* wrapped command is lost only to an edit or a change of directory.
LostOnlyByMoving == Disturbed \/ Started

AllRules(d) == IF d = BundledDir THEN Range(Bundled)
               ELSE {files[d][n].rule : n \in Names} \ {NoFile}

IdOnce(id) ==
    Cardinality({at \in {Home, UserDir} \X Names:
        LET rule == files[at[1]][at[2]].rule
        IN  rule # NoFile /\ ShallowProbeId(rule) = id})
      + Cardinality({n \in DOMAIN Bundled: Bundled[n].id = id}) = 1

\* Unless an id occurs twice, the rule that filters is the rule that matched.
RunsTheMatchedRule ==
    Disturbed \/ \A l \in log:
        LET id == WrappedId(SimpleCommand(items[l.at].text))
        IN  l.ran /\ IdOnce(id) =>
                \E r \in Range(chosen):
                    r.rule.id = id /\ r.rule = l.rule.rule

\* Whatever is loaded, the cache included, is what some file of that layer
\* held at some time: the cache never answers with another file's rule.
NoInventedRule ==
    \A r \in Range(loader.rules) \cup Range(chosen):
        \/ r.source = BundledDir
        \/ \E e \in onDisk:
              /\ e[1] = r.source /\ e[3] # NoFile
              /\ e[3].id = r.rule.id
              /\ e[3].extends = Absent => e[3] = r.rule

\* All the rules load unless one is broken by itself: a parent may be in any
\* layer (filter-rule-schema.md:98 extends a bundled rule from a project).
ParentsOfAnyLayer ==
    LET rules == UNION {AllRules(d) : d \in {Home, UserDir, BundledDir}}
        IsSound(rule) ==
            /\ Parses(rule) /\ Compiles(rule)
            /\ rule.extends # Absent =>
                  /\ rule.extends # rule.id
                  /\ \E parent \in rules: parent.id = rule.extends
    IN  phase = "match" /\ edits = 0 /\ (\A rule \in rules: IsSound(rule))
            => ~loader.failed

\* What is left to do: the stage, the commands left in it, and the layers
\* and entries the loader has yet to see for the current one.
Rank ==
    LET widest == Max({Cardinality(Names), Len(Bundled)})
        walk == Len(loader.layers) * (2 * widest + 2) + 2 * Cardinality(loader.listing)
                    + IF loader.content = Absent THEN 1 ELSE 0
    IN  <<CASE phase = "hook" -> 3
            [] phase \in {"segment", "match"} -> 2
            [] phase \in {"shell", "lacon run"} -> 1
            [] phase = "done" -> 0,
          IF phase \in {"segment", "match"}
          THEN Len(segments) - Len(rendered) ELSE Len(items) - pos + 1,
          IF phase \in {"match", "lacon run"} THEN walk ELSE 6 * widest + 8>>

Below(a, b) ==
    \E i \in DOMAIN a: a[i] < b[i] /\ \A j \in 1 .. i - 1: a[j] = b[j]

\* Every call comes to an end, whatever is edited meanwhile: each step
\* leaves less to do, and an edit leaves no more.  (That only a call that is
\* over stops is the deadlock check.)
CallEnds ==
    [][Below(Rank', Rank) \/ (Rank' = Rank /\ edits' > edits)]_vars
=============================================================================
