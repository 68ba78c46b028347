------------------------------ MODULE MCSetup ------------------------------
EXTENDS Setup

CONSTANTS p, q

Told(flags) == [flags |-> flags, terminal |-> FALSE, answer |-> "enter"]
Asked(answer) == [flags |-> {}, terminal |-> TRUE, answer |-> answer]
MCRuns == (p :> {Asked("b"), Asked("x")}) @@ (q :> {Told({"project"})})

Text(kind, groups) == [kind |-> kind, pretool |-> groups]
Bare == [settings |-> Text("absent", <<>>), lacon_md |-> "absent", claude_md |-> NoFile,
         rules |-> FALSE]
Lived == [Bare EXCEPT
    !.settings = Text("object", <<[bash |-> FALSE, hooks |-> <<"other">>],
                                      [bash |-> TRUE, hooks |-> Malformed],
                                      [bash |-> TRUE, hooks |-> <<"lacon", "own">>],
                                      [bash |-> TRUE, hooks |-> <<"lacon">>]>>),
    !.claude_md = <<"own">>]
Odd == [Bare EXCEPT !.settings = Text("no array", <<>>),
                    !.claude_md = <<"own", "import", "own">>]
Torn == [Bare EXCEPT !.settings = Text("garbage", <<>>)]
Odder == [Bare EXCEPT !.settings = Text("no object", <<>>)]
Both(a, b) == [project |-> a, user |-> b]
MCDisks == {Both(Lived, Bare), Both(Odd, Torn), Both(Odder, Bare)}

Healthy == [configs |-> [project |-> "absent", user |-> "valid"],
            rules |-> TRUE, data |-> TRUE, dir |-> "private", db |-> "sound"]
MCMachines ==
    {Healthy, [Healthy EXCEPT !.data = FALSE], [Healthy EXCEPT !.rules = FALSE],
     [Healthy EXCEPT !.dir = "absent", !.db = "absent"]}
=============================================================================
