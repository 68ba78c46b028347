-------------------------------- MODULE Chain --------------------------------
(***************************************************************************)
(* How the hook reads a command: the chain splitter, the allowlist of      *)
(* segments that can be requoted, the tokenizer, the quoter and the        *)
(* terminal heuristic (adapter: chain.rs, lib.rs, quote.rs, tui.rs).       *)
(*                                                                         *)
(* A command is a sequence of pieces: the bytes the scanners tell apart,   *)
(* each a piece of its own, and plain words, each one piece standing for   *)
(* a run of inert bytes.  A word of an argv is a sequence of pieces too.   *)
(***************************************************************************)
EXTENDS SequencesExt, Integers

Space == " "
Tab == "\t"
Newline == "\n"
Single == "'"
Double == "\""
Backslash == "\\"
Backtick == "backtick"

Blank == {Space, Tab}
Whitespace == Blank \cup {Newline}

\* Bytes outside the allowlist, then those of it that a scanner looks for.
Special == {Backslash, Backtick, "$", "{", "}", "(", ")", "<", ">", "&", "|",
            ";", "#", "!", "*"}
Literal == {"=", "-", ",", "/"}
IsWord(b) == b \notin Special \cup Literal \cup Whitespace \cup {Single, Double}

Piece(cmd, i) == IF i \in DOMAIN cmd THEN cmd[i] ELSE "end of input"

\* The first position from i on, at most one past the end, where P holds.
FirstFrom(cmd, i, P(_)) ==
    Min({j \in i .. Len(cmd): P(cmd[j])} \cup {Max({i, Len(cmd) + 1})})

Join(text, more) == text \o more

-----------------------------------------------------------------------------
(***************************************************************************)
(* The splitter.                                                           *)
(***************************************************************************)
NoHeredoc == [delimiter |-> <<>>, strip_tabs |-> FALSE]

NewSplitState ==
    [in_single_quote |-> FALSE, in_double_quote |-> FALSE,
     subshell_depth |-> 0, cmd_sub_depth |-> 0, backtick_depth |-> 0,
     process_sub_depth |-> 0, param_expansion_depth |-> 0,
     in_heredoc |-> NoHeredoc, escape_pending |-> FALSE]

\* Mutant: an operator inside ${...} ends a segment.
AtTopLevelForgetful(st) ==
    [st EXCEPT !.escape_pending = FALSE, !.param_expansion_depth = 0]
        = NewSplitState

\* Every field but the pending escape is as in the beginning.
AtTopLevel(st) == [st EXCEPT !.escape_pending = FALSE] = NewSplitState

\* The delimiter that starts at i and the position after it; none: empty.
ScanHeredocDelimiter(cmd, i) ==
    LET quote == Piece(cmd, i)
        close == FirstFrom(cmd, i + 1, LAMBDA b: b = quote)
        stop == FirstFrom(cmd, i, LAMBDA b: ~IsWord(b) /\ b # "-")
    IN  IF quote \in {Single, Double}
        THEN [delimiter |-> IF close \in DOMAIN cmd
                            THEN SubSeq(cmd, i + 1, close - 1) ELSE <<>>,
              after |-> close + 1]
        ELSE [delimiter |-> SubSeq(cmd, i, stop - 1), after |-> stop]

\* What a step of the scanner leaves: the state and how far it moved.
Moved(n, st) == [st |-> st, used |-> n]

\* In a heredoc body only a newline matters: it ends the body when the line
\* after it is the delimiter.
ScanHeredocBody(cmd, i, st) ==
    LET end == FirstFrom(cmd, i + 1, LAMBDA b: b = Newline)
        start == IF st.in_heredoc.strip_tabs
                 THEN Min({end, FirstFrom(cmd, i + 1, LAMBDA b: b # Tab)})
                 ELSE i + 1
    IN  IF cmd[i] = Newline
              /\ SubSeq(cmd, start, end - 1) = st.in_heredoc.delimiter
        THEN Moved(end - i, [st EXCEPT !.in_heredoc = NoHeredoc])
        ELSE Moved(1, st)

ScanHeredocOpener(cmd, i, st) ==
    LET strip == Piece(cmd, i + 2) = "-"
        word == FirstFrom(cmd, IF strip THEN i + 3 ELSE i + 2,
                          LAMBDA b: b \notin Blank)
        found == ScanHeredocDelimiter(cmd, word)
    IN  IF found.delimiter = <<>> THEN Moved(2, st)
        ELSE Moved(found.after - i,
                   [st EXCEPT !.in_heredoc = [delimiter |-> found.delimiter,
                                              strip_tabs |-> strip]])

\* A closing parenthesis belongs to the first of these that is open.
CloseParen(st) ==
    IF st.cmd_sub_depth > 0 THEN [st EXCEPT !.cmd_sub_depth = @ - 1]
    ELSE IF st.process_sub_depth > 0
         THEN [st EXCEPT !.process_sub_depth = @ - 1]
    ELSE IF st.subshell_depth > 0 THEN [st EXCEPT !.subshell_depth = @ - 1]
    ELSE st

\* Outside single quotes: substitutions, expansions, heredocs, subshells.
\* Double quotes hide heredocs and parentheses only.
ScanConstructs(cmd, i, st) ==
    LET b == cmd[i]
        two == <<b, Piece(cmd, i + 1)>>
    IN  IF b = Backtick THEN Moved(1, [st EXCEPT !.backtick_depth = 1 - @])
        ELSE IF two = <<"$", "{">>
             THEN Moved(2, [st EXCEPT !.param_expansion_depth = @ + 1])
        ELSE IF two = <<"$", "(">>
             THEN Moved(2, [st EXCEPT !.cmd_sub_depth = @ + 1])
        ELSE IF st.param_expansion_depth > 0 /\ b \in {"{", "}"}
             THEN Moved(1, [st EXCEPT !.param_expansion_depth =
                                        IF b = "{" THEN @ + 1 ELSE @ - 1])
        ELSE IF two \in {<<"<", "(">>, <<">", "(">>}
             THEN Moved(2, [st EXCEPT !.process_sub_depth = @ + 1])
        ELSE IF two = <<"<", "<">> /\ Piece(cmd, i + 2) = "<" THEN Moved(3, st)
        ELSE IF st.in_double_quote THEN Moved(1, st)
        ELSE IF two = <<"<", "<">> THEN ScanHeredocOpener(cmd, i, st)
        ELSE IF b = "(" THEN Moved(1, [st EXCEPT !.subshell_depth = @ + 1])
        ELSE IF b = ")" THEN Moved(1, CloseParen(st))
        ELSE Moved(1, st)

\* The rules of the loop in their order: escape, heredoc body, quotes, the
\* rest.
Scan(cmd, i, st) ==
    LET b == cmd[i] IN
    IF st.escape_pending THEN Moved(1, [st EXCEPT !.escape_pending = FALSE])
    ELSE IF st.in_heredoc # NoHeredoc THEN ScanHeredocBody(cmd, i, st)
    ELSE IF b = Backslash /\ ~st.in_single_quote
         THEN Moved(1, [st EXCEPT !.escape_pending = TRUE])
    ELSE IF b = Single /\ ~st.in_double_quote
         THEN Moved(1, [st EXCEPT !.in_single_quote = ~@])
    ELSE IF b = Double /\ ~st.in_single_quote
         THEN Moved(1, [st EXCEPT !.in_double_quote = ~@])
    ELSE IF st.in_single_quote THEN Moved(1, st)
    ELSE ScanConstructs(cmd, i, st)

\* The chain operator at position i, empty when there is none.
OperatorAt(cmd, i) ==
    LET two == <<cmd[i], Piece(cmd, i + 1)>>
    IN  IF two \in {<<"&", "&">>, <<"|", "|">>} THEN two
        ELSE IF cmd[i] = ";" THEN <<";">> ELSE <<>>

\* Blanks before an operator move from the segment into the operator's span,
\* blanks after it are part of the span from the start.
TrimEnd(text) ==
    SubSeq(text, 1, Max({0} \cup {j \in DOMAIN text: text[j] \notin Blank}))

\* Mutant: the blanks in front of the operator get lost.
SegmentTrimmed(cmd, from, at, op, next) ==
    [text |-> TrimEnd(SubSeq(cmd, from, at - 1)), op |-> op, at |-> at,
     span |-> SubSeq(cmd, at, next - 1)]

Segment(cmd, from, at, op, next) ==
    LET text == TrimEnd(SubSeq(cmd, from, at - 1))
    IN  [text |-> text, op |-> op, at |-> at,
         span |-> SubSeq(cmd, from + Len(text), next - 1)]

\* What the splitter has so far: the position it is at, the start of the
\* segment it is in, the segments before it.
NewSplit(cmd) ==
    [cmd |-> cmd, st |-> NewSplitState, pos |-> 1, start |-> 1,
     segments |-> <<>>]

SplitAt(acc, i) ==
    LET op == OperatorAt(acc.cmd, i)
        next == FirstFrom(acc.cmd, i + Len(op), LAMBDA b: b \notin Blank)
        scan == Scan(acc.cmd, i, acc.st)
    IN  IF i < acc.pos THEN acc
        ELSE IF op # <<>> /\ AtTopLevel(acc.st) /\ ~acc.st.escape_pending
        THEN [acc EXCEPT
                !.segments = Append(@, Segment(acc.cmd, acc.start, i, op, next)),
                !.start = next, !.pos = next]
        ELSE [acc EXCEPT !.st = scan.st, !.pos = i + scan.used]

SplitChain(cmd) ==
    LET end == FoldLeft(SplitAt, NewSplit(cmd), [i \in DOMAIN cmd |-> i])
    IN  Append(end.segments,
               [text |-> SubSeq(cmd, end.start, Len(cmd)), op |-> <<>>,
                at |-> Len(cmd) + 1, span |-> <<>>])

-----------------------------------------------------------------------------
(***************************************************************************)
(* The words of a segment and back.                                        *)
(***************************************************************************)

\* Wrap-safe: blanks, inert bytes, closed single-quoted spans, and closed
\* double-quoted spans without anything that stays active in them; and at
\* least one of the latter three.
IsWrapSafe(text) ==
    LET Step(mode, b) ==
            CASE mode = "single" -> IF b = Single THEN "bare" ELSE mode
              [] mode = "double" ->
                    IF b = Double THEN "bare"
                    ELSE IF b \in {"$", Backtick, Backslash} THEN "unsafe"
                    ELSE mode
              [] mode = "bare" ->
                    CASE b = Single -> "single"
                      [] b = Double -> "double"
                      [] b \in Special \cup {Newline} -> "unsafe"
                      [] OTHER -> mode
              [] OTHER -> "unsafe"
    IN  /\ FoldLeft(Step, "bare", text) = "bare"
        /\ \E i \in DOMAIN text: text[i] \notin Blank

\* One byte more of a segment: whitespace outside quotes ends a word; the
\* quotes themselves are dropped.
TakeByte(acc, b) ==
    CASE acc.quote # "none" ->
            IF b = acc.quote THEN [acc EXCEPT !.quote = "none"]
            ELSE [acc EXCEPT !.current = Append(@, b)]
      [] acc.quote = "none" /\ b \in {Single, Double} ->
            [acc EXCEPT !.quote = b, !.has_token = TRUE]
      [] acc.quote = "none" /\ b \in Whitespace ->
            IF acc.has_token
            THEN [acc EXCEPT !.argv = Append(@, acc.current),
                             !.current = <<>>, !.has_token = FALSE]
            ELSE acc
      [] OTHER -> [acc EXCEPT !.current = Append(@, b), !.has_token = TRUE]

NoWords == [argv |-> <<>>, current |-> <<>>, has_token |-> FALSE,
            quote |-> "none"]

ArgvForResolution(text) ==
    LET end == FoldLeft(TakeByte, NoWords, text)
    IN  IF end.has_token THEN Append(end.argv, end.current) ELSE end.argv

\* The bytes that make the quoter quote.  Braces and commas are not of them.
Metachars == {"|", "&", ";", "<", ">", "(", ")", "$", Backtick, Backslash,
              Double, Single, Newline, Tab, Space, "*", "#", "=", "!"}

\* Mutant: an embedded single quote is left as it is.
QuoteForShellNaive(word) == <<Single>> \o word \o <<Single>>

\* Inside single quotes everything stands for itself but a single quote.
QuoteByte(text, b) ==
    text \o (IF b = Single THEN <<Single, Backslash, Single, Single>>
             ELSE <<b>>)

QuoteForShell(word) ==
    IF word # <<>> /\ \A i \in DOMAIN word: word[i] \notin Metachars
    THEN word
    ELSE <<Single>> \o FoldLeft(QuoteByte, <<>>, word) \o <<Single>>

\* A flag is removed, or else replaced.
RewriteArg(acc, arg) ==
    IF arg \in acc.rewrite.remove_flags THEN acc
    ELSE [acc EXCEPT !.out = Append(@,
            IF arg \in DOMAIN acc.rewrite.replace_flags
            THEN acc.rewrite.replace_flags[arg] ELSE arg)]

AddFlag(out, flag) == IF Contains(out, flag) THEN out ELSE Append(out, flag)

\* The rewrite block of a rule: flags removed, the others replaced, then
\* flags added unless present.  The command word is never touched.
ApplyRewrite(argv, rewrite) ==
    LET kept == FoldLeft(RewriteArg, [rewrite |-> rewrite, out |-> <<>>],
                         Tail(argv)).out
    IN  IF argv = <<>> THEN <<>>
        ELSE <<Head(argv)>> \o FoldLeft(AddFlag, kept, rewrite.add_flags)

-----------------------------------------------------------------------------
(***************************************************************************)
(* The escape hatches and the terminal heuristic.                          *)
(***************************************************************************)
SplitWhitespace(text) ==
    LET Step(acc, b) ==
            IF b \in Whitespace THEN Append(acc, <<>>)
            ELSE Append(Front(acc), Append(Last(acc), b))
    IN  SelectSeq(FoldLeft(Step, <<<<>>>>, text), LAMBDA w: w # <<>>)

\* NAME=value, with a name of word pieces.
IsAssignment(word) ==
    LET eq == FirstFrom(word, 1, LAMBDA b: b = "=")
    IN  eq \in DOMAIN word /\ eq > 1 /\ \A i \in 1 .. eq - 1: IsWord(word[i])

UnquoteOneLayer(value) ==
    IF Len(value) >= 2 /\ Head(value) = Last(value)
                       /\ Head(value) \in {Single, Double}
    THEN SubSeq(value, 2, Len(value) - 1) ELSE value

\* Mutant: a newline or an operator is a blank, so that assignments of a later
\* statement count.
InlineDisableBypassAnywhere(cmd) ==
    LET words == SplitWhitespace([i \in DOMAIN cmd |->
                    IF cmd[i] \in {";", "&", "|"} THEN Space ELSE cmd[i]])
    IN  \E i \in DOMAIN words:
            /\ \A j \in 1 .. i: IsAssignment(words[j])
            /\ IsPrefix(<<"LACON_DISABLE", "=">>, words[i])
            /\ UnquoteOneLayer(SubSeq(words[i], 3, Len(words[i]))) = <<"1">>

\* The assignments in front of the first statement's command word.
InlineDisableBypass(cmd) ==
    LET stop == FirstFrom(cmd, 1, LAMBDA b: b \in {Newline, ";", "&", "|"})
        words == SplitWhitespace(SubSeq(cmd, 1, stop - 1))
    IN  \E i \in DOMAIN words:
            /\ \A j \in 1 .. i: IsAssignment(words[j])
            /\ IsPrefix(<<"LACON_DISABLE", "=">>, words[i])
            /\ UnquoteOneLayer(SubSeq(words[i], 3, Len(words[i]))) = <<"1">>

DetectBypass(cmd, disabled) ==
    LET start == FirstFrom(cmd, 1, LAMBDA b: b \notin Whitespace)
    IN  \/ Piece(cmd, start) = "!" /\ Piece(cmd, start + 1) = "!"
        \/ InlineDisableBypass(cmd)
        \/ disabled

Basename(word) ==
    SubSeq(word, 1 + Max({0} \cup {i \in DOMAIN word: word[i] = "/"}),
           Len(word))

PureTui ==
    {"vim", "vi", "nvim", "nano", "emacs", "less", "more", "most", "man",
     "htop", "top", "btop", "screen", "tmux", "ssh", "mosh", "ipython", "irb",
     "pry", "redis-cli", "crontab", "visudo"}

\* A flag is a dash and a word; a long one two dashes and a word.
IsFlag(arg) == arg # <<>> /\ Head(arg) = "-"
HasAnyFlag(args, flags) == \E i \in DOMAIN args: args[i] \in flags

\* A message given inline, a cluster of short flags with an m among them too.
HasCommitMessage(args) ==
    \/ HasAnyFlag(args, {<<"-", "m">>, <<"-", "-", "message">>, <<"-", "F">>,
                         <<"-", "-", "file">>, <<"-", "am">>, <<"-", "vm">>})
    \/ \E i \in DOMAIN args: IsPrefix(<<"-", "-", "message", "=">>, args[i])

IsGitInteractive(args) ==
    LET sub == IF args = <<>> THEN <<>> ELSE Head(args)
        rest == IF args = <<>> THEN <<>> ELSE Tail(args)
        Patch == {<<"-", "p">>, <<"-", "-", "patch">>}
        Interactive == {<<"-", "i">>, <<"-", "-", "interactive">>}
    IN  \/ sub = <<"commit">> /\ ~HasCommitMessage(rest)
        \/ sub = <<"rebase">> /\ HasAnyFlag(rest, Interactive)
        \/ sub = <<"add">> /\ HasAnyFlag(rest, Patch \cup Interactive)
        \/ sub \in {<<"checkout">>, <<"stash">>} /\ HasAnyFlag(rest, Patch)

IsPkgInitInteractive(args) ==
    /\ args # <<>> /\ Head(args) = <<"init">>
    /\ ~HasAnyFlag(Tail(args), {<<"-", "y">>, <<"-", "-", "yes">>})

IsDbInteractive(args) ==
    /\ \A i \in DOMAIN args: IsFlag(args[i])
    /\ ~HasAnyFlag(args, {<<"-", "c">>, <<"-", "e">>, <<"-", "f">>,
            <<"-", "-", "command">>, <<"-", "-", "execute">>,
            <<"-", "-", "file">>})

IsTui(argv) ==
    LET tool == Basename(Head(argv))
        args == Tail(argv)
    IN  \/ \E t \in PureTui: tool = <<t>>
        \/ tool = <<"git">> /\ IsGitInteractive(args)
        \/ /\ tool \in {<<"npm">>, <<"yarn">>, <<"pnpm">>}
           /\ IsPkgInitInteractive(args)
        \/ /\ tool \in {<<"node">>, <<"python">>, <<"python3">>}
           /\ \A i \in DOMAIN args: IsFlag(args[i])
        \/ /\ tool \in {<<"mysql">>, <<"psql">>, <<"sqlite3">>}
           /\ IsDbInteractive(args)
=============================================================================
