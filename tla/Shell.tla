-------------------------------- MODULE Shell --------------------------------
(***************************************************************************)
(* The shell that runs what the hook returns, as far as the hook relies on *)
(* it: where a command list falls apart into its commands, and the words   *)
(* of a simple command.  Constructs nest, so the reader keeps a stack of   *)
(* what is open.  Left out: arithmetic, [[ ]], case, here-documents inside *)
(* a substitution, extended globs.                                         *)
(***************************************************************************)
EXTENDS Chain

Reserved == {<<"do">>, <<"then">>, <<"time">>}

NewReader == [open |-> <<>>, escape |-> FALSE, fresh |-> TRUE, heredoc |-> NoHeredoc]

Top(rd) == IF rd.open = <<>> THEN "list" ELSE Last(rd.open)
Push(rd, what) == [rd EXCEPT !.open = Append(@, what), !.fresh = what = "sub"]
Pop(rd) == [rd EXCEPT !.open = Front(@), !.fresh = FALSE]
Read(n, rd) == [rd |-> rd, used |-> n]

\* Where the body that starts after the newline at i has its last line's end.
BodyEnd(cmd, i, doc) ==
    LET LineEnd(j) == FirstFrom(cmd, j, LAMBDA b: b = Newline)
        Text(j) == SubSeq(cmd, IF doc.strip_tabs
                               THEN Min({LineEnd(j),
                                         FirstFrom(cmd, j, LAMBDA b: b # Tab)})
                               ELSE j, LineEnd(j) - 1)
    IN  Min({Len(cmd) + 1} \cup
            {LineEnd(j) : j \in {k \in i + 1 .. Len(cmd):
                cmd[k - 1] = Newline /\ Text(k) = doc.delimiter}})

\* Quotes, substitutions and expansions: what opens inside `top'.
ReadOpening(cmd, i, rd) ==
    LET b == cmd[i]
        top == Top(rd)
        two == <<b, Piece(cmd, i + 1)>>
        quoted == Len(rd.open) > 1 /\ rd.open[Len(rd.open) - 1] = "double"
    IN  IF b = Single /\ top # "double" /\ ~(top = "param" /\ quoted)
        THEN Read(1, Push(rd, IF i > 1 /\ cmd[i - 1] = "$" THEN "ansi"
                              ELSE "single"))
        ELSE IF b = Double THEN Read(1, IF top = "double" THEN Pop(rd)
                                        ELSE Push(rd, "double"))
        ELSE IF b = Backtick THEN Read(1, IF top = "tick" THEN Pop(rd)
                                          ELSE Push(rd, "tick"))
        ELSE IF two = <<"$", "{">> THEN Read(2, Push(rd, "param"))
        ELSE IF two = <<"$", "(">> THEN Read(2, Push(rd, "sub"))
        ELSE IF top = "param" /\ b = "}" THEN Read(1, Pop(rd))
        ELSE Read(1, [rd EXCEPT !.fresh = FALSE])

\* In a list of commands: comments, here-documents, parentheses.
ReadList(cmd, i, rd) ==
    LET b == cmd[i]
        two == <<b, Piece(cmd, i + 1)>>
        doc == ScanHeredocOpener(cmd, i, NewSplitState)
    IN  IF b = "#" /\ rd.fresh THEN Read(1, Push(rd, "comment"))
        ELSE IF two \in {<<"<", "(">>, <<">", "(">>}
             THEN Read(2, Push(rd, "sub"))
        ELSE IF b = "(" THEN Read(1, Push(rd, "sub"))
        ELSE IF b = ")" THEN Read(1, IF Top(rd) = "sub" THEN Pop(rd) ELSE rd)
        ELSE IF two = <<"<", "<">> /\ Piece(cmd, i + 2) = "<" THEN Read(3, rd)
        ELSE IF two = <<"<", "<">>
             THEN Read(doc.used, [rd EXCEPT !.heredoc = doc.st.in_heredoc])
        ELSE IF b = Newline /\ rd.heredoc # NoHeredoc
             THEN Read(BodyEnd(cmd, i, rd.heredoc) - i,
                       [rd EXCEPT !.heredoc = NoHeredoc, !.fresh = TRUE])
        ELSE IF b \in Whitespace \cup {"&", "|", ";"}
             THEN Read(1, [rd EXCEPT !.fresh = TRUE])
        ELSE ReadOpening(cmd, i, rd)

ReadPiece(cmd, i, rd) ==
    LET b == cmd[i]
        top == Top(rd)
    IN  IF rd.escape THEN Read(1, [rd EXCEPT !.escape = FALSE, !.fresh = FALSE])
        ELSE IF top = "comment" THEN Read(1, rd)
        ELSE IF top = "single" THEN Read(1, IF b = Single THEN Pop(rd) ELSE rd)
        ELSE IF b = Backslash THEN Read(1, [rd EXCEPT !.escape = TRUE])
        ELSE IF top = "ansi" THEN Read(1, IF b = Single THEN Pop(rd) ELSE rd)
        ELSE IF top \in {"list", "sub"} THEN ReadList(cmd, i, rd)
        ELSE ReadOpening(cmd, i, rd)

\* What separates two commands of a list.
SeparatorAt(cmd, i) ==
    LET op == OperatorAt(cmd, i)
    IN  IF op # <<>> THEN op
        ELSE IF cmd[i] \in {Newline, "&"} THEN <<cmd[i]>> ELSE <<>>

Trim(text) ==
    LET from == FirstFrom(text, 1, LAMBDA b: b \notin Blank)
    IN  TrimEnd(SubSeq(text, from, Len(text)))

\* A closing piece that stands inside another construct than its own.
Crosses(b, rd) ==
    \/ b = ")" /\ Top(rd) \in {"param", "tick"} /\ "sub" \in Range(rd.open)
    \/ /\ b = "}" /\ Top(rd) \in {"double", "sub", "tick"}
       /\ "param" \in Range(rd.open)

\* What a reading gathers: the commands of a list with the separator after
\* each, the positions of the separators, everything that was open anywhere,
\* and whether a closing piece stood inside another construct.
NewReading(cmd) ==
    [cmd |-> cmd, rd |-> NewReader, pos |-> 1, start |-> 1, list |-> <<>>,
     at |-> {}, seen |-> {}, crossed |-> FALSE]

Rest(acc, i) == Trim(SubSeq(acc.cmd, acc.start, i - 1))

EndCommand(acc, i, sep) ==
    [acc EXCEPT !.list = Append(@, [text |-> Rest(acc, i), sep |-> sep]),
                !.at = @ \cup {i}, !.rd.fresh = TRUE,
                !.start = i + Len(sep), !.pos = i + Len(sep)]

ReadOn(acc, i, crossed, next) ==
    [acc EXCEPT !.rd = next.rd, !.pos = i + next.used,
                !.seen = @ \cup Range(next.rd.open), !.crossed = @ \/ crossed]

\* The end of a comment is read as part of the list around it.
LeaveComment(acc, b) ==
    IF Top(acc.rd) = "comment" /\ b = Newline
    THEN [acc EXCEPT !.rd = Pop(@)] ELSE acc

ReadFrom(acc, i) ==
    LET sep == SeparatorAt(acc.cmd, i)
        b == acc.cmd[i]
    IN  IF /\ sep # <<>> /\ acc.rd.open = <<>> /\ ~acc.rd.escape
           /\ ~(b = Newline /\ acc.rd.heredoc # NoHeredoc)
        THEN EndCommand(acc, i, sep)
        ELSE ReadOn(acc, i, Crosses(b, acc.rd), ReadPiece(acc.cmd, i, acc.rd))

ReadAt(acc, i) ==
    IF i < acc.pos THEN acc ELSE ReadFrom(LeaveComment(acc, acc.cmd[i]), i)

\* What has been read when the command is at its end.
Reading(acc) ==
    [list |-> Append(acc.list, [text |-> Rest(acc, Len(acc.cmd) + 1),
                                sep |-> <<>>]),
     at |-> acc.at, seen |-> acc.seen, crossed |-> acc.crossed,
     complete |-> acc.rd.open \in {<<>>, <<"comment">>} /\ ~acc.rd.escape
                    /\ acc.rd.heredoc = NoHeredoc]

ShellReads(cmd) ==
    Reading(FoldLeft(ReadAt, NewReading(cmd), [i \in DOMAIN cmd |-> i]))

-----------------------------------------------------------------------------
(***************************************************************************)
(* Words of a simple command, each piece with whether it was quoted.       *)
(***************************************************************************)
AllWords(end) == IF end.has THEN Append(end.words, end.word) ELSE end.words

ShellWords(text) ==
    LET Add(acc, b, q) == [acc EXCEPT !.word = Append(@, [b |-> b, q |-> q]),
                                      !.has = TRUE]
        Step(acc, b) ==
            CASE acc.mode = "comment" -> acc
              [] acc.mode = "escape" -> [Add(acc, b, TRUE) EXCEPT !.mode = "bare"]
              [] acc.mode = "escape in double" ->
                    [(IF b \in {"$", Backtick, Backslash, Double}
                      THEN Add(acc, b, TRUE)
                      ELSE Add(Add(acc, Backslash, TRUE), b, TRUE))
                     EXCEPT !.mode = "double"]
              [] acc.mode = "single" ->
                    IF b = Single THEN [acc EXCEPT !.mode = "bare"]
                    ELSE Add(acc, b, TRUE)
              [] acc.mode = "double" ->
                    CASE b = Double -> [acc EXCEPT !.mode = "bare"]
                      [] b = Backslash -> [acc EXCEPT !.mode = "escape in double"]
                      [] OTHER -> Add(acc, b, b \notin {"$", Backtick})
              [] OTHER ->
                    CASE b = Single -> [acc EXCEPT !.mode = "single", !.has = TRUE]
                      [] b = Double -> [acc EXCEPT !.mode = "double", !.has = TRUE]
                      [] b = Backslash -> [acc EXCEPT !.mode = "escape"]
                      [] b = "#" /\ ~acc.has -> [acc EXCEPT !.mode = "comment"]
                      [] b \in Whitespace ->
                            IF acc.has
                            THEN [acc EXCEPT !.words = Append(@, acc.word),
                                             !.word = <<>>, !.has = FALSE]
                            ELSE acc
                      [] OTHER -> Add(acc, b, FALSE)
    IN  AllWords(FoldLeft(Step, [words |-> <<>>, word |-> <<>>, has |-> FALSE,
                                 mode |-> "bare"], text))

\* An unquoted {x,y} is expanded to several words.
BraceExpands(word) ==
    \E i, j, k \in DOMAIN word:
        /\ i < j /\ j < k
        /\ word[i].b = "{" /\ word[j].b = "," /\ word[k].b = "}"
        /\ \A n \in {i, j, k}: ~word[n].q

Plain(word) == [i \in DOMAIN word |-> word[i].b]

\* Words the shell takes out of the front: assignments, reserved words.
IsLead(word) ==
    LET bare == FirstFrom([i \in DOMAIN word |-> word[i].q], 1, LAMBDA q: q)
    IN  \/ IsAssignment(SubSeq(Plain(word), 1, bare - 1))
        \/ bare > Len(word) /\ Plain(word) \in Reserved

\* A simple command: what leads it, its argv, and whether anything in it is
\* left to an expansion, a redirection or an operator.
CommandOf(words) ==
    LET lead == Min({Len(words)} \cup
                    {i - 1 : i \in {j \in DOMAIN words: ~IsLead(words[j])}})
    IN  [lead |-> [i \in 1 .. lead |-> Plain(words[i])],
         argv |-> [i \in 1 .. Len(words) - lead |-> Plain(words[lead + i])],
         live |-> \E i \in DOMAIN words: \E j \in DOMAIN words[i]:
                     words[i][j].b \in Special /\ ~words[i][j].q]

SimpleCommand(text) == CommandOf(ShellWords(text))
=============================================================================
