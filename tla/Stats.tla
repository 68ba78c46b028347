-------------------------------- MODULE Stats --------------------------------
(***************************************************************************)
(* `lacon stats` (commands/stats.rs, tracking/query.rs) beside the         *)
(* recording processes of Tracker and the readers of Explain: what a run   *)
(* writes into its invocations row, the five aggregate queries of a        *)
(* report, each in a read transaction of its own, and the rollup of the    *)
(* project rows under the repository each directory belongs to.            *)
(*                                                                         *)
(* A path is the sequence of its components from the root.  An optional    *)
(* filter is a set with at most one element.  Wording, order and capping   *)
(* of the rows and the average keep ratio are left out.                    *)
(***************************************************************************)
EXTENDS Explain, Integers, FiniteSetsExt, SequencesExt

CONSTANTS
    Histories,   \* the commands the runs may have been started for:
                 \* functions from Runs to Command
    Requests,    \* what `lacon stats` is asked: [project, rule, since]
    Cwd,         \* the directory it is started from
    Disk,        \* path -> what is there: [is |-> "dir"] or a file
    TempRoots,   \* ephemeral_prefixes()
    Flags,       \* the words that start with "-"
    BypassFloor, \* HAVING COUNT(*) > 5
    Repository   \* the key each directory ought to be counted under

VARIABLES
    history,     \* the commands of this behaviour's runs
    report       \* Readers -> what each one's report says so far

svars == <<history, report>>
all == <<vars, rvars, svars>>

-----------------------------------------------------------------------------
(***************************************************************************)
(* What a run records.                                                     *)
(***************************************************************************)

(* argv is the program's path and its arguments, rule the set with the id of the rule
   it runs under, if any. *)
IsCommand(c) ==
    /\ Len(c.argv) > 0
    /\ c.bypassed => c.rule # {}       \* run_unmatched records bypassed = 0
    /\ c.raw \in Nat /\ c.kept \in Nat
    /\ c.project \in DOMAIN Repository

ASSUME StatsAssumption ==
    /\ \A h \in Histories : DOMAIN h = Runs /\ \A r \in Runs : IsCommand(h[r])
    /\ \A q \in Requests : \A v, w \in q.since : v \in Nat /\ v = w

(* normalize *)
Normalize(argv) ==
    <<Last(argv[1])>> \o
    (IF Len(argv) > 1 /\ argv[2] \notin Flags THEN <<argv[2]>> ELSE <<>>)

(* byte_counts: only the runner that filters counts; run_bypassed and
   run_unmatched let the child write to the inherited stdout. *)
Counted(c) == c.rule # {} /\ ~c.bypassed
RawBytes(c) == IF Counted(c) THEN c.raw ELSE 0
FilteredBytes(c) == IF Counted(c) THEN c.kept ELSE 0

(* The runner captures for a config that stores, and only where it filters. *)
CapturesAsRun == \A r \in Runs : cfg[r].captured <=> cfg[r].store /\ Counted(history[r])

-----------------------------------------------------------------------------
(***************************************************************************)
(* The project key.                                                        *)
(***************************************************************************)

IsFile(path) == path \in DOMAIN Disk /\ Disk[path].is = "file"
IsDir(path) == path \in DOMAIN Disk /\ Disk[path].is = "dir"

(* lexical_join: ".." takes a component off, without looking at the disk. *)
LexicalJoin(base, value) ==
    FoldLeft(LAMBDA out, c : IF c # ".." THEN Append(out, c)
                             ELSE IF out = <<>> THEN out ELSE Front(out),
             <<>>, IF value.absolute THEN value.path ELSE base \o value.path)

(* normalize_project: std::path::absolute drops "." but keeps "..". *)
NormalizeProject(p) ==
    SelectSeq(IF p.absolute THEN p.path ELSE Cwd \o p.path, LAMBDA c : c # ".")

IsEphemeral(path) == \E root \in TempRoots : IsPrefix(root, path)

IsBare(gitDir) ==
    LET config == Append(gitDir, "config") IN IsFile(config) /\ Disk[config].bare

(* The ancestor whose `.git` decides: a directory, or a file with a gitdir
   line; a malformed gitlink does not end the walk. *)
Decides(dir) ==
    LET dotGit == Append(dir, ".git") IN
    \/ IsDir(dotGit)
    \/ IsFile(dotGit) /\ Disk[dotGit].gitdir # {}

(* The main .git directory: one hop by gitdir, one by commondir. *)
MainGit(dir) ==
    LET dotGit == Append(dir, ".git") IN
    IF IsDir(dotGit) THEN dotGit ELSE
    LET admin == LexicalJoin(dir, CHOOSE v \in Disk[dotGit].gitdir : TRUE)
        common == Append(admin, "commondir")
    IN IF IsFile(common) THEN LexicalJoin(admin, Disk[common].text) ELSE admin

(* resolve_repo_root: the root, if any. *)
RepoRoot(path) ==
    LET at == {n \in 0..Len(path) : Decides(SubSeq(path, 1, n))} IN
    IF at = {} THEN {} ELSE
    LET main == MainGit(SubSeq(path, 1, Max(at)))
    IN IF IsBare(main) \/ main = <<>> THEN {} ELSE {Front(main)}

Ephemeral == <<"(ephemeral)">>

CanonicalKey(path) ==
    IF IsEphemeral(path) THEN Ephemeral
    ELSE IF RepoRoot(path) = {} THEN path
    ELSE CHOOSE root \in RepoRoot(path) : TRUE

-----------------------------------------------------------------------------
(***************************************************************************)
(* The queries, over the rows the request's WHERE clause leaves.           *)
(***************************************************************************)

(* GROUP BY: one row per key, made from the group's rows. *)
GroupBy(rows, key(_), made(_, _)) ==
    {made(k, {i \in rows : key(i) = k}) : k \in {key(i) : i \in rows}}

Of(i) == history[i.run]

(* WHERE ts >= cutoff AND project_path = ? *)
Rows(x) ==
    {i \in invs :
        /\ \A t \in report[x].cutoff : i.ts >= t
        /\ \A p \in report[x].request.project : Of(i).project = NormalizeProject(p)}

NotBypassed(rows) == {i \in rows : ~Of(i).bypassed}
OfRule(rows, rule) == {i \in rows : \A r \in rule : Of(i).rule = {r}}

Sums(rows) ==
    [runs |-> Cardinality(rows),
     raw |-> SumFunction([i \in rows |-> RawBytes(Of(i))]),
     kept |-> SumFunction([i \in rows |-> FilteredBytes(Of(i))]),
     saved |-> SumFunction([i \in rows |-> RawBytes(Of(i)) - FilteredBytes(Of(i))])]

(* project_savings, filtered_project_savings *)
ProjectSavings(rows) ==
    GroupBy(NotBypassed(rows), LAMBDA i : Of(i).project,
            LAMBDA k, group : [key |-> k, sums |-> Sums(group)])

(* Mutant: a second path of a repository replaces the first. *)
RollupOverwrites(savings) ==
    GroupBy(savings, LAMBDA s : CanonicalKey(s.key),
            LAMBDA k, group : [key |-> k, sums |-> (CHOOSE s \in group : TRUE).sums])

(* rollup_project_savings *)
Rollup(savings) ==
    GroupBy(savings, LAMBDA s : CanonicalKey(s.key),
            LAMBDA k, group :
                [key |-> k,
                 sums |-> [f \in {"runs", "raw", "kept", "saved"} |->
                              SumFunction([s \in group |-> s.sums[f]])]])

(* overall_totals, filtered_overall_totals *)
OverallTotals(rows) == Sums(NotBypassed(rows))

(* unmatched_offenders, filtered_unmatched_offenders *)
UnmatchedOffenders(rows) ==
    GroupBy({i \in NotBypassed(rows) : Of(i).rule = {}},
            LAMBDA i : Normalize(Of(i).argv),
            LAMBDA k, group : [command |-> k, runs |-> Cardinality(group),
                               raw |-> Sums(group).raw])

(* Mutant: bypassed = 0 is forgotten. *)
FilteredOffendersBypassed(rows, rule) ==
    GroupBy({i \in OfRule(rows, rule) : Of(i).rule # {}},
            LAMBDA i : <<Normalize(Of(i).argv), Of(i).rule>>,
            LAMBDA k, group : [command |-> k[1], rule |-> k[2],
                               runs |-> Cardinality(group), kept |-> Sums(group).kept])

(* filtered_offenders, filtered_filtered_offenders *)
FilteredOffenders(rows, rule) ==
    GroupBy({i \in NotBypassed(OfRule(rows, rule)) : Of(i).rule # {}},
            LAMBDA i : <<Normalize(Of(i).argv), Of(i).rule>>,
            LAMBDA k, group : [command |-> k[1], rule |-> k[2],
                               runs |-> Cardinality(group), kept |-> Sums(group).kept])

(* bypass_rate, filtered_bypass_rate *)
BypassRate(rows, rule) ==
    {r \in GroupBy({i \in OfRule(rows, rule) : Of(i).rule # {}},
                   LAMBDA i : Of(i).rule,
                   LAMBDA k, group :
                       [rule |-> k, total |-> Cardinality(group),
                        bypassed |-> Cardinality(group \ NotBypassed(group))]) :
        r.total > BypassFloor}

-----------------------------------------------------------------------------
NoSums == [runs |-> 0, raw |-> 0, kept |-> 0, saved |-> 0]
NoReport == [request |-> [project |-> {}, rule |-> {}, since |-> {}],
             cutoff |-> {}, before |-> {}, savings |-> {}, totals |-> NoSums,
             unmatched |-> {}, filtered |-> {}, bypass |-> {}]

StatsInit ==
    /\ ExplainInit
    /\ history \in Histories
    /\ CapturesAsRun
    /\ report = [x \in Readers |-> NoReport]

(* Tracker::open creates the file before its first commit makes the tables: while
   there are none, the file may be there or not. *)
FileFound == version > 0 \/ \E r \in Runs : pc[r] # "running"
FileAbsent == version = 0 /\ \A r \in Runs : pc[r] \notin {"migrate", "migrating"}

(* execute, up to the first query: the cutoff from one look at the clock, and
   an absent file is an empty report.  `before` is no state of the program: it
   keeps what was recorded when the report began. *)
BeginReport(x) ==
    /\ reader[x] = "idle"
    /\ \E q \in Requests :
          report' = [report EXCEPT ![x] =
              [@ EXCEPT !.request = q,
                        !.cutoff = {clock - w : w \in q.since},
                        !.before = {i.run : i \in invs}]]
    /\ \/ FileFound /\ reader' = [reader EXCEPT ![x] = "savings"]
       \/ FileAbsent /\ reader' = [reader EXCEPT ![x] = "empty"]
    /\ UNCHANGED <<vars, row, shown, shownAt, history>>

(* A query that is the reader's turn, and where it goes on. *)
Query(x, section, answer, next) ==
    /\ reader[x] = section
    /\ version = TARGET_VERSION
    /\ report' = [report EXCEPT ![x] = [@ EXCEPT ![section] = answer]]
    /\ reader' = [reader EXCEPT ![x] = next]
    /\ UNCHANGED <<vars, row, shown, history>>

ReadSavings(x) ==
    /\ Query(x, "savings", Rollup(ProjectSavings(Rows(x))), "totals")
    /\ UNCHANGED shownAt
ReadTotals(x) ==
    /\ Query(x, "totals", OverallTotals(Rows(x)), "unmatched")
    /\ UNCHANGED shownAt
ReadUnmatched(x) ==
    /\ Query(x, "unmatched", UnmatchedOffenders(Rows(x)), "filtered")
    /\ UNCHANGED shownAt
ReadFiltered(x) ==
    /\ Query(x, "filtered", FilteredOffenders(Rows(x), report[x].request.rule), "bypass")
    /\ UNCHANGED shownAt
ReadBypass(x) ==
    /\ Query(x, "bypass", BypassRate(Rows(x), report[x].request.rule), "reported")
    /\ shownAt' = [shownAt EXCEPT ![x] = clock]

(* A file without tables, which a first run is about to migrate: exit 1. *)
NoSuchTable(x) ==
    /\ reader[x] = "savings"
    /\ version = 0
    /\ reader' = [reader EXCEPT ![x] = "failed"]
    /\ UNCHANGED <<vars, row, shown, shownAt, svars>>

Report(x) ==
    \/ BeginReport(x)
    \/ ReadSavings(x) \/ ReadTotals(x)
    \/ ReadUnmatched(x) \/ ReadFiltered(x) \/ ReadBypass(x)
    \/ NoSuchTable(x)

StatsNext ==
    \/ ExplainNext /\ UNCHANGED svars
    \/ \E x \in Readers : Report(x)

StatsSpec == StatsInit /\ [][StatsNext]_all

(* As in Tracker: the scheduler runs every process that has begun to record. *)
StatsFairSpec ==
    /\ StatsSpec
    /\ \A p \in Runs : WF_all(Step(p) /\ UNCHANGED <<rvars, svars>>)

-----------------------------------------------------------------------------
(***************************************************************************)
(* Properties                                                              *)
(***************************************************************************)

Measure == [runs : Nat, raw : Nat, kept : Nat, saved : Int]

(* Types. *)
StatsTypeOK ==
    /\ ExplainTypeOK
    /\ history \in Histories
    /\ \A x \in Readers :
          LET p == report[x] IN
          /\ p.request \in Requests \cup {NoReport.request}
          /\ p.before \subseteq Runs
          /\ \A s \in p.savings : s.sums \in Measure
          /\ p.totals \in Measure
          /\ \A o \in p.unmatched \cup p.filtered : o.runs \in Nat \ {0}
          /\ \A b \in p.bypass : b.bypassed \in 0..b.total

(* What a user who knows the runs S themselves would write into each section. *)
Wrote(S) ==
    LET filtered == {r \in S : Counted(history[r])}
        raw == SumFunction([r \in filtered |-> history[r].raw])
        kept == SumFunction([r \in filtered |-> history[r].kept])
    IN [runs |-> Cardinality(S), raw |-> raw, kept |-> kept, saved |-> raw - kept]

TrueSavings(S) ==
    {[key |-> Repository[history[r].project],
      sums |-> Wrote({q \in S : Repository[history[q].project] =
                                    Repository[history[r].project]})] : r \in S}

SameCommand(q, r) == Normalize(history[q].argv) = Normalize(history[r].argv)
TrueUnmatched(S) ==
    LET U == {r \in S : history[r].rule = {}} IN
    {[command |-> Normalize(history[r].argv),
      runs |-> Wrote({q \in U : SameCommand(q, r)}).runs,
      raw |-> Wrote({q \in U : SameCommand(q, r)}).raw] : r \in U}

TrueFiltered(S) ==
    LET Same(r) == {q \in S : SameCommand(q, r) /\ history[q].rule = history[r].rule} IN
    {[command |-> Normalize(history[r].argv), rule |-> history[r].rule,
      runs |-> Wrote(Same(r)).runs, kept |-> Wrote(Same(r)).kept] :
        r \in {q \in S : history[q].rule # {}}}

TrueBypass(S) ==
    LET Same(r) == {q \in S : history[q].rule = history[r].rule} IN
    {[rule |-> history[r].rule, total |-> Cardinality(Same(r)),
      bypassed |-> Cardinality({q \in Same(r) : history[q].bypassed})] :
        r \in {q \in S : history[q].rule # {} /\ Cardinality(Same(q)) > BypassFloor}}

(* The runs a report is about, the ones it must not miss. *)
Done == {r \in Runs : pc[r] = "done"}
InScope(x) ==
    {r \in Done :
        /\ report[x].request.since # {} => now[r] >= Max(report[x].cutoff)
        /\ \A p \in report[x].request.project : history[r].project = NormalizeProject(p)}
ByRule(x, S) == {r \in S : \A k \in report[x].request.rule : history[r].rule = {k}}
Unbypassed(S) == {r \in S : ~history[r].bypassed}
Due(x) == {r \in InScope(x) \cap report[x].before : shownAt[x] <= now[r] + LeastInv}

KeyedByRepository ==
    \A path \in DOMAIN Repository : CanonicalKey(path) = Repository[path]

(* `lacon stats` counts every run that was recorded when the report began and
   is still inside its retention window, none twice and none that is not in
   the request's scope, under the repository the run's directory belongs to -
   whatever is recorded and pruned between the five reads of a report.  --rule
   narrows the rule sections only. *)
ReportIsTrue ==
    /\ KeyedByRepository
    /\ \A x \in Readers : reader[x] = "reported" =>
           LET p == report[x]
               Holds(section, True(_)) ==
                   \E S \in SUBSET InScope(x) : Due(x) \subseteq S /\ section = True(S)
           IN
           /\ Holds(p.savings, LAMBDA S : TrueSavings(Unbypassed(S)))
           /\ Holds(p.totals, LAMBDA S : Wrote(Unbypassed(S)))
           /\ Holds(p.unmatched, LAMBDA S : TrueUnmatched(Unbypassed(S)))
           /\ Holds(p.filtered, LAMBDA S : TrueFiltered(ByRule(x, Unbypassed(S))))
           /\ Holds(p.bypass, LAMBDA S : TrueBypass(ByRule(x, S)))

RunsOf(rows) == SumFunction([s \in rows |-> s.runs])

(* The sections of one report fit together although they are read one after
   the other: while no run leaves the history, what a section counts the next
   one counts too, and a report during which nothing is recorded adds up. *)
SectionsAgree ==
    \A x \in Readers :
        LET p == report[x]
            byProject == SumFunction([s \in p.savings |-> s.sums.runs])
            byCommand == RunsOf(p.unmatched) + RunsOf(p.filtered)
        IN  /\ reader[x] = "reported" /\ p.request.rule = {}
            /\ \A r \in Done : shownAt[x] <= now[r] + LeastInv
            => /\ byProject <= p.totals.runs /\ p.totals.runs <= byCommand
               /\ Done = p.before =>
                     /\ byProject = byCommand
                     /\ SumFunction([s \in p.savings |-> s.sums.raw]) = p.totals.raw

=============================================================================
