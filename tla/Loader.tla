------------------------------- MODULE Loader -------------------------------
(***************************************************************************)
(* The rule loader of one process: the three layers, the walk over the     *)
(* files of a directory, the flattening of extends chains, the cache by    *)
(* path and mtime, the match of an argv and the lookup of an id            *)
(* (rules/loader.rs).  Whoever edits rule files does it beside the loader. *)
(*                                                                         *)
(* A rule file is a record: what its YAML is good for (ok), its id, the    *)
(* rule it extends, its match predicate and its rewrite block, Absent for  *)
(* a key that is not there.  Pipelines are in module Pipeline.             *)
(***************************************************************************)
EXTENDS Chain

CONSTANTS
    ProjectDirs,    \* working directories, each with a .lacon/rules
    Names,          \* 1 .. n: entries of a directory, in read_dir's order
    Bundled,        \* the sequence of rules in the binary
    Contents,       \* what a rule file may hold
    Specs,          \* match predicates: a rule's, and the parts of one
    NoFile,         \* no such entry
    Absent,         \* no such key
    MaxEdits        \* bound: edits of rule files

UserDir == "user"
BundledDir == "bundled"

RuleDirs == ProjectDirs \cup {UserDir}

\* What YAML can spell under `id' and `rewrite'.
IsRule(rule) ==
    /\ rule.id \in STRING
    /\ rule.rewrite # Absent =>
          LET replace == rule.rewrite.replace_flags
          IN  /\ \A flag \in DOMAIN replace: replace[flag] \in Seq(STRING)
              /\ rule.rewrite.add_flags \in Seq(Seq(STRING))

ASSUME LoaderAssumption ==
    /\ IsFiniteSet(Names) /\ Names = 1 .. Cardinality(Names)
    /\ Bundled \in Seq(Range(Bundled))
    /\ \A s \in Specs:
          /\ "any" \in DOMAIN s => Range(s.any) \subseteq Specs
          /\ "all" \in DOMAIN s => Range(s.all) \subseteq Specs
    /\ \A rule \in Contents \cup Range(Bundled): IsRule(rule)
    /\ MaxEdits \in Nat
    /\ UserDir \notin ProjectDirs /\ BundledDir \notin RuleDirs
    /\ Absent \notin Contents \cup Range(Bundled) \cup {NoFile}
    /\ NoFile \notin Contents \cup Range(Bundled)

VARIABLES
    files,          \* directory -> entry -> [rule, mtime]
    edits,          \* edits so far; the clock that gives files their mtime
    loader          \* RuleLoader and the progress of its current call

loaderVars == <<files, edits, loader>>

\* RuleLoader::new for a working directory, with an empty cache.
NewLoader(dir) ==
    [project |-> dir, cache |-> {}, want |-> "nothing", id |-> Absent,
     layers |-> <<>>,
     dir |-> Absent, listing |-> {}, content |-> Absent, rules |-> <<>>,
     failed |-> FALSE]

\* Mutant: the user's rules shadow the project's.
LayersUserFirst(l) == <<UserDir, l.project, BundledDir>>

Layers(l) == <<l.project, UserDir, BundledDir>>

-----------------------------------------------------------------------------
(***************************************************************************)
(* From YAML to a flat rule.                                               *)
(***************************************************************************)

\* The probe reads the id of any YAML map; the parse also wants every key
\* known; the compilation wants regexes, counts and scripts in order.
ShallowProbeId(rule) == IF rule.yaml = "broken" THEN Absent ELSE rule.id
Parses(rule) == rule.yaml \in {"good", "bad stage"}
Compiles(rule) == rule.yaml # "bad stage"

\* The rules beside which a rule is looked up: its directory's, as they are
\* now, or the binary's.
RulesIn(dir) ==
    IF dir = BundledDir THEN Bundled ELSE [n \in Names |-> files[dir][n].rule]

\* The first of them that probes to the id.  Parents come from the directory,
\* or layer, of the child.
FindRule(siblings, id) ==
    LET found == {n \in DOMAIN siblings:
                     siblings[n] # NoFile /\ ShallowProbeId(siblings[n]) = id}
    IN  IF found = {} THEN NoFile ELSE siblings[Min(found)]

\* The child's keys win; a stage the parent cannot compile stays in the
\* child's pipeline.
MergeRules(parent, child) ==
    [id |-> child.id,
     extends |-> Absent,
     match |-> IF child.match = Absent THEN parent.match ELSE child.match,
     rewrite |-> IF child.rewrite = Absent THEN parent.rewrite ELSE child.rewrite,
     yaml |-> IF parent.yaml = "bad stage" THEN "bad stage" ELSE child.yaml]

\* One rule up the chain.  A parent that is missing, does not parse or closes
\* a cycle is an error.  A layer prefix of the parent's id has been dropped:
\* it does not choose the layer.
MergeParent(up, i) ==
    LET parent == FindRule(up.siblings, up.extends)
    IN  IF up.failed \/ up.extends = Absent THEN up
        ELSE IF parent = NoFile THEN [up EXCEPT !.failed = TRUE]
        ELSE IF ~Parses(parent) \/ parent.id \in up.visited
        THEN [up EXCEPT !.failed = TRUE]
        ELSE [up EXCEPT !.flat = MergeRules(parent, @),
                        !.extends = parent.extends,
                        !.visited = @ \cup {parent.id}]

\* An id more than a layer can have: no chain without a cycle is longer.
AncestorLimit == Cardinality(Names) + Len(Bundled) + 1

\* The rule with what its ancestors add, Absent for an error.  The code
\* recurs to the last ancestor and merges on its way back; what the nearest
\* ancestor says wins either way.
FlattenExtends(rule, siblings) ==
    LET up == FoldLeft(MergeParent,
                       [siblings |-> siblings, flat |-> rule,
                        extends |-> rule.extends, visited |-> {rule.id},
                        failed |-> FALSE],
                       [i \in 1 .. AncestorLimit |-> i])
    IN  IF up.failed \/ up.extends # Absent THEN Absent ELSE up.flat

\* parse_one, flatten, compile: a flat rule, or Absent for an error.
Load(rule, siblings) ==
    IF ~Parses(rule) THEN Absent
    ELSE LET flat == FlattenExtends(rule, siblings)
         IN  IF flat = Absent THEN Absent
             ELSE IF Compiles(flat) THEN flat ELSE Absent

-----------------------------------------------------------------------------
(***************************************************************************)
(* Matching.                                                               *)
(***************************************************************************)

\* any, then all, then the conjunction of the other keys.
SpecMatches(spec, prog, args) ==
    LET matches[s \in Specs] ==
            IF "any" \in DOMAIN s
            THEN \E i \in DOMAIN s.any: matches[s.any[i]]
            ELSE IF "all" \in DOMAIN s
            THEN \A i \in DOMAIN s.all: matches[s.all[i]]
            ELSE /\ "command" \in DOMAIN s => s.command = prog
                 /\ "args_prefix" \in DOMAIN s => IsPrefix(s.args_prefix, args)
                 /\ "args_contain" \in DOMAIN s =>
                        s.args_contain \subseteq Range(args)
                 \* A regex stands for the words one of which it finds.
                 /\ "command_regex" \in DOMAIN s =>
                        s.command_regex \cap (Range(args) \cup {prog}) # {}
    IN  matches[spec]

RuleMatchesArgv(rule, argv) ==
    rule.match # Absent
        /\ SpecMatches(rule.match, Basename(Head(argv)), Tail(argv))

\* The first of the loaded rules that matches; NoFile when none does.
FirstMatch(rules, argv) ==
    LET hits == {i \in DOMAIN rules: RuleMatchesArgv(rules[i].rule, argv)}
    IN  IF hits = {} THEN NoFile ELSE rules[Min(hits)]

-----------------------------------------------------------------------------
(***************************************************************************)
(* The walk: `want' is "all" for load_all and "one", with an id, for       *)
(* resolve.                                                                *)
(***************************************************************************)
Begin(l, want, id) ==
    [l EXCEPT !.want = want, !.id = id, !.layers = Layers(l), !.rules = <<>>,
              !.failed = FALSE, !.listing = {}, !.dir = Absent]

\* resolve ends with the first hit or error, load_all with the last layer.
Finished(l) ==
    /\ l.want # "nothing"
    /\ l.content = Absent
    /\ \/ l.layers = <<>> /\ l.listing = {}
       \/ l.want = "one" /\ (l.failed \/ l.rules # <<>>)

\* read_dir of the next layer; the binary's rules need no directory.
OpenLayer ==
    /\ loader.want # "nothing" /\ ~Finished(loader)
    /\ loader.layers # <<>> /\ loader.listing = {}
    /\ loader.content = Absent
    /\ LET dir == Head(loader.layers)
       IN  loader' = [loader EXCEPT
                        !.layers = Tail(@), !.dir = dir,
                        !.listing = {n \in DOMAIN RulesIn(dir):
                                        RulesIn(dir)[n] # NoFile}]
    /\ UNCHANGED <<files, edits>>

\* The listing is what read_dir has yet to give, in the order of the names.
NextEntry == Min(loader.listing)

\* Mutant: resolve takes the first file there is.
ReadEntryUnprobed ==
    /\ loader.listing # {} /\ loader.content = Absent
    /\ ~Finished(loader)
    /\ LET n == NextEntry
           rule == RulesIn(loader.dir)[n]
       IN  loader' = IF rule = NoFile
                     THEN [loader EXCEPT !.listing = @ \ {n}, !.failed = TRUE]
                     ELSE [loader EXCEPT !.content = rule]
    /\ UNCHANGED <<files, edits>>

\* Mutant: an entry that is gone is tried again.
ReadEntryAgain ==
    /\ loader.listing # {} /\ loader.content = Absent
    /\ ~Finished(loader)
    /\ LET n == NextEntry
           rule == RulesIn(loader.dir)[n]
       IN  IF rule = NoFile
           THEN loader' = [loader EXCEPT !.failed = ~@]
           ELSE IF loader.want = "one" /\ loader.id # ShallowProbeId(rule)
           THEN loader' = [loader EXCEPT !.listing = @ \ {n}]
           ELSE loader' = [loader EXCEPT !.content = rule]
    /\ UNCHANGED <<files, edits>>

\* read_to_string of the next entry.  An entry removed since the listing is
\* an error; resolve passes over a file that does not probe to its id.
ReadEntry ==
    /\ loader.listing # {} /\ loader.content = Absent
    /\ ~Finished(loader)
    /\ LET n == NextEntry
           rule == RulesIn(loader.dir)[n]
       IN  IF rule = NoFile
           THEN loader' = [loader EXCEPT !.listing = @ \ {n}, !.failed = TRUE]
           ELSE IF loader.want = "one" /\ loader.id # ShallowProbeId(rule)
           THEN loader' = [loader EXCEPT !.listing = @ \ {n}]
           ELSE loader' = [loader EXCEPT !.content = rule]
    /\ UNCHANGED <<files, edits>>

Mtime(dir, n) == IF dir = BundledDir THEN 0 ELSE files[dir][n].mtime

\* Mutant: the key is the file's name in whatever directory.
CachedByName(dir, n) ==
    {c \in loader.cache: c.name = n /\ c.mtime = Mtime(dir, n)}

Cached(dir, n) ==
    {c \in loader.cache: c.dir = dir /\ c.name = n
                            /\ c.mtime = Mtime(dir, n)}

\* parse_flatten_compile of what was read: the cache is asked with the mtime
\* the file has now, and filled with it.  Bundled rules are not cached.
CompileEntry ==
    /\ loader.content # Absent
    /\ LET dir == loader.dir
           n == NextEntry
           gone == dir # BundledDir /\ files[dir][n].rule = NoFile
           hits == IF gone \/ dir = BundledDir THEN {} ELSE Cached(dir, n)
           flat == IF hits # {} THEN (CHOOSE c \in hits: TRUE).rule
                   ELSE Load(loader.content, RulesIn(dir))
           done == [loader EXCEPT !.content = Absent, !.listing = @ \ {n}]
       IN  IF flat = Absent THEN loader' = [done EXCEPT !.failed = TRUE]
           ELSE loader' =
                   [done EXCEPT
                      !.rules = Append(@, [source |-> dir, rule |-> flat]),
                      !.cache = IF gone \/ dir = BundledDir \/ hits # {} THEN @
                                ELSE @ \cup {[dir |-> dir, name |-> n,
                                              mtime |-> Mtime(dir, n),
                                              rule |-> flat]}]
    /\ UNCHANGED <<files, edits>>

Walk == OpenLayer \/ ReadEntry \/ CompileEntry

\* Somebody writes, replaces or removes a rule file.
EditRule ==
    /\ edits < MaxEdits
    /\ edits' = edits + 1
    /\ \E dir \in RuleDirs, n \in Names,
          rule \in Contents \cup {NoFile}:
            /\ files[dir][n].rule # rule
            /\ files' = [files EXCEPT ![dir][n] =
                            [rule |-> rule, mtime |-> edits + 1]]
    /\ UNCHANGED loader
=============================================================================
