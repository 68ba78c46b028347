------------------------------- MODULE MCHook -------------------------------
EXTENDS Hook

MCNames == 1 .. 2
MCProjectDirs == {"home", "sub"}

Rule(id, extends, match, rewrite, yaml) ==
    [id |-> id, extends |-> extends, match |-> match, rewrite |-> rewrite,
     yaml |-> yaml]
Is(prog) == [command |-> <<prog>>]
Quiet == [remove_flags |-> {<<"v">>}, replace_flags |-> (<<"t">> :> <<"u">>),
          add_flags |-> <<<<"q">>>>]

Build == Rule("build", Absent, [any |-> <<Is("cargo"), Is("make")>>], Quiet, "good")
Narrow == Rule("build", Absent,
               [all |-> <<Is("cargo"), [args_prefix |-> <<<<"t">>>>]>>],
               Absent, "good")
Child == Rule("child", "build", Absent, Absent, "good")
Orphan == Rule("orphan", "nobody", Is("make"), Absent, "good")
Loop == Rule("loop", "loop", Absent, Absent, "good")
BadStage == Rule("build", Absent, Is("cargo"), Absent, "bad stage")
BadKey == Rule("build", Absent, Is("cargo"), Absent, "bad key")
Broken == Rule("build", Absent, Is("cargo"), Absent, "broken")
AnyT == Rule("any", Absent, [command_regex |-> {<<"t">>}], Absent, "good")
Base == Rule("base", Absent, [args_contain |-> {<<"never">>}], Quiet, "good")
Make == Rule("make", "base", Is("make"), Absent, "good")

Variant == Rule("variant", "make", Absent, Absent, "good")

Maker == Rule("maker", Absent, Is("make"), Absent, "good")

MCBundled == <<Base, Make>>
MCContents == {Build, Narrow, Broken}

\* The predicates of the rules above, with the parts of those that nest.
Predicates ==
    {r.match : r \in {Build, Narrow, Orphan, BadStage, AnyT, Base}}
MCSpecs ==
    Predicates \cup Range(Build.match.any) \cup Range(Narrow.match.all)

\* Two entries in the project, one in a subdirectory of it, one of the user.
Tree(h1, h2, s1, u1) ==
    [home |-> <<h1, h2>>, sub |-> <<s1, NoFile>>, user |-> <<u1, NoFile>>]
BuildOnly == Tree(Build, NoFile, NoFile, NoFile)
Trees ==
    {BuildOnly,
     Tree(Narrow, Child, NoFile, Build),
     Tree(AnyT, NoFile, Build, Narrow),
     Tree(Build, Narrow, Build, NoFile),
     Tree(NoFile, BadStage, NoFile, Build),
     Tree(BadKey, NoFile, NoFile, Build),
     Tree(Broken, Build, Broken, NoFile),
     Tree(NoFile, Orphan, Build, Build),
     Tree(Loop, Build, NoFile, NoFile),
     Tree(NoFile, NoFile, NoFile, Build),
     Tree(Variant, NoFile, NoFile, NoFile),
     Tree(Narrow, Maker, NoFile, NoFile)}

In(cmd, tree, edited) ==
    [tool |-> "Bash", command |-> cmd, disabled |-> FALSE, tree |-> tree,
     edited |-> edited]

Run == <<"cargo", " ", "t">>
Other == <<"make", " ", "v">>

\* Commands one by one: each alone and in a chain with another.
Commands ==
    {Run, Other,
     <<>>, <<" ", "cargo", "\t", "t", " ">>,
     <<"/", "usr", "/", "cargo", " ", "t", " ", "q">>,
     <<"cargo", " ", "'", "t", " ", "v", "'">>,
     <<"cargo", " ", "\"", "a", "'", "b", ";", "\"">>,
     <<"cargo", " ", "'", "'">>,
     <<"cargo", " ", "\"", "$", "a", "\"">>,
     <<"cargo", " ", "'", "{", "a", ",", "t", "}", "'">>,
     <<"cargo", " ", "$", "(", "ls", " ", "&", "&", " ", "ls", ")">>,
     <<"cargo", " ", "$", "{", "a", ";", "}">>,
     <<"cargo", " ", "<", "<", "E", "\n", "a", " ", "&", "&", "\n", "E", "\n">>,
     <<"cargo", " ", "<", "<", "-", "'", "E", "'", "\n", "\t", "E", "\n", "ls">>,
     <<"cargo", " ", "<", "<", "<", "a">>,
     <<"cargo", " ", "<", "(", "ls", ";", "ls", ")">>,
     <<"(", "cargo", " ", "t">>, <<"ls", ")">>,
     <<Backtick, "ls", ";", "ls", Backtick>>,
     <<"\"", "cargo">>, <<"cargo", " ", "'", "a">>,
     <<"cargo", " ", "a", " ", "#", " ", "it", "'", "s">>,
     <<"cargo", " ", "a", " ", "\\">>, <<"cargo", " ", "a", "\\", ";", "b">>,
     <<"cargo", " ", "t", " ", ">", " ", "f">>,
     <<"cargo", " ", "t", "\n", "cargo", " ", "t">>,
     <<"A", "=", "1", " ", "cargo", " ", "t">>,
     <<"time", " ", "cargo", " ", "t">>,
     <<"!", "!", "cargo", " ", "t">>,
     <<"LACON_DISABLE", "=", "1", " ", "cargo", " ", "t">>,
     <<"A", "=", "2", " ", "LACON_DISABLE", "=", "'", "1", "'", " ", "make">>,
     <<"LACON_DISABLE", "=", "\"", "1", "\"">>,
     <<"LACON_DISABLE", "=", "\\", "1", " ", "ls">>,
     <<"LACON_DISABLE", "=", "'", "'", "1", " ", "ls">>,
     <<"time", " ", "LACON_DISABLE", "=", "1", " ", "cargo", " ", "t">>,
     <<"A", "=", "'", "a", " ", "b", "'", " ", "LACON_DISABLE", "=", "1", " ", "ls">>,
     <<"A", "=", "'", "a", " ", "LACON_DISABLE", "=", "1", " ", "'", " ", "ls">>,
     <<"A", "=", "1", "\n", "LACON_DISABLE", "=", "1", " ", "ls">>,
     <<"cargo", " ", "LACON_DISABLE", "=", "1">>,
     <<"LACON_DISABLE", "=", "0", " ", "cargo", " ", "t">>,
     <<"vim", " ", "a">>, <<"\"", "/", "vim", "\"", " ", "a">>,
     <<"git", " ", "commit">>,
     <<"git", " ", "commit", " ", "-", "am", " ", "a">>,
     <<"git", " ", "rebase", " ", "-", "i">>,
     <<"git", " ", "add", " ", "-", "p">>,
     <<"npm", " ", "init">>, <<"npm", " ", "init", " ", "-", "y">>,
     <<"python">>, <<"python", " ", "a">>, <<"psql", " ", "-", "c", " ", "a">>,
     <<"psql", " ", "-", "U">>}

Operators ==
    {<<" ", "&", "&", " ">>, <<" ", "|", "|">>, <<";">>, <<"&">>, <<" ", "|">>,
     <<"\n">>}

\* What the scanners tell apart, three in a row inside a chain.
Active == {"'", "\"", "\\", Backtick, "$", "{", "}", "(", ")", "#", "\n", "&",
           "a"}

Chains ==
    {c \o op \o d : c \in Commands, op \in Operators, d \in {Run, Other}}
    \cup {Other \o op \o c : c \in Commands, op \in Operators}
    \cup {Run \o <<" ", a, b, c, ";">> \o Other :
            a \in Active, b \in Active, c \in Active}
    \cup {<<a>> \o Run \o <<b, ";">> \o Other \o <<c>> :
            a \in Active, b \in Active, c \in Active}

\* Short calls with every rule tree and with edits in between.
And == <<" ", "&", "&", " ">>
Short == {Run \o And \o Run, <<"cd", " ", "sub">> \o And \o Run}

MCCalls ==
    {In(cmd, BuildOnly, FALSE) : cmd \in Chains}
    \cup {In(cmd, tree, FALSE) : tree \in Trees, cmd \in Short
            \cup {<<"make", " ", "t", ";">> \o Run, Other \o <<";">> \o Run}}
    \cup {In(Run, tree, TRUE) : tree \in Trees}
    \cup {In(cmd, Tree(Build, NoFile, Narrow, NoFile), TRUE) : cmd \in Short}
    \cup {[In(Run, BuildOnly, FALSE) EXCEPT !.tool = "Read"],
          [In(Run, BuildOnly, FALSE) EXCEPT !.disabled = TRUE]}
=============================================================================
