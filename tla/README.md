# A TLA+ model of lacon

lacon filters the output of the shell commands a coding assistant runs.  A hook
(`lacon-claude-hook`) rewrites a command into `lacon run --rule <id> -- <argv>`;
`lacon run` executes it, collects its merged output, passes it through the rule's
pipeline, prints the result, and records the run in one SQLite file that
`lacon stats`, `lacon explain` and `lacon doctor` read.  There is no daemon: all
concurrency is between processes that share files, and between the three threads
of one `lacon run` and the processes around it.

This directory holds the specifications, the TLC configurations that check them,
and the TLAPS proofs.  `PROJECT.json` lists the runs, what each definition
models (`map`), the hazards, the findings and the theorems.

## 1. Inventory

Paths are below `src/crates/`.

| Component | State it keeps | Operations | Talks to | What makes it correct |
|---|---|---|---|---|
| **Wrapper runtime** `lacon-core/src/runtime/mod.rs`, `lacon-cli/src/commands/run.rs` | child, pipe, reader thread, channel, `raw_buffer`, signal watcher, `stop_flag` | `Runner::run`, `run_bypassed`, `filter_bytes`, `install_signal_forwarder`, `run_unmatched` | the kernel; pipeline; tracker | output complete and in order; exit code the child's; signals reach the child and nobody else; it ends |
| **Tracker** `lacon-core/src/tracking/{mod,migrations,prune,record}.rs` | the tables `invocations`, `raw_outputs`, `lacon_meta`; `user_version` | `open` (migrate, prune when due), `record` (two inserts) | other `lacon run`s through SQLite | a run recorded once, with its own output; retention; nothing lost without a fault |
| **Privacy marker** `tracking/privacy.rs` | one marker file per config layer | `warn_once_if_needed` | other `lacon run`s through the file system | one notice per layer; no raw byte without the layer's marker |
| **`explain`** `tracking/query.rs`, `lacon-cli/src/commands/explain.rs` | none (read-only connection) | `fetch_invocation`, `fetch_raw_output` | the same database | what is shown belongs to the id asked for |
| **`stats`** `lacon-cli/src/commands/stats.rs`, `tracking/{query,normalize}.rs` | none | five aggregate queries, project key, rollup | the same database; `.git` entries | every run counted once, under its repository; the sections agree |
| **Pipeline** `lacon-core/src/pipeline/mod.rs` | one state per stage | `Pipeline::run`: step every line through the stages, then flush stage by stage | stages, Starlark | streaming equals the definition of each stage; `keep_regex` lines survive; size bound |
| **Stages** `pipeline/stages.rs` | head/tail rings, counters, windows | `step`, `flush` for each kind | - | as above; bounds and off-by-ones |
| **Rule loader** `rules/loader.rs` | parsed-rule cache keyed by path and mtime | `resolve`, `load_all`, `match_argv_via_load_all`, `extends` flattening | three layers of files, edited at any time | shadowing; what match found, lookup by id finds; the walk ends |
| **Rewrite** `rules/rewrite.rs` | - | `apply_rewrite` | hook | argument list otherwise unchanged |
| **Config** `config/mod.rs` | - | `load_layered` | run, hook, doctor | project over user over default |
| **Adapter hook** `lacon-adapter-claudecode/src/lib.rs` | - (one JSON in, one out) | `run_hook`: bypass, split, match, wrap, rewrite | loader; the shell; the later `lacon run` | the shell reads the same list of commands; bypass and interactive programs leave it alone |
| **Chain splitter, quoting, TUI list** `chain.rs`, `quote.rs`, `tui.rs` | scanner state | `split_chain`, `is_wrap_safe`, `argv_for_resolution`, `quote_for_shell`, `is_tui` | hook | cut only where the shell cuts; rejoining gives the command back |
| **`init`** `lacon-cli/src/commands/init.rs` | settings.json, LACON.md, CLAUDE.md | `install_scope` | doctor, an editor, a second init | what is the user's stays; idempotent |
| **`doctor`** `lacon-cli/src/commands/doctor.rs` | - | `scope_hook_present`, `check_scope`, machine checks | the files of init | accepts what init completes, reports what it left half done |
| **Starlark host** `starlark_host/mod.rs` | - | `post_process` with a time and size limit | pipeline | returns lines or an error |
| Schema, bundled rules, validate, CLI parsing, errors, benches, test emitter, scripts | - | data and pure string functions | - | covered by their own tests |

### Behaviours that are hard

* *Check then act across processes.*  `migrate` reads `user_version` before its
  transaction; `prune_if_due` reads `last_pruned_ts` before its own; the marker is
  a race for `create_new`; `explain` reads two rows in two transactions, `stats`
  five aggregates in five.
* *Two statements that belong together.*  The raw output and the invocation are
  inserted by two autocommit statements; a prune, another insert (rowids are
  reused), the 200 ms busy timeout or a kill comes between them.
* *A clock read once.*  A process goes by the time it read when it began, however
  long it waited since; `last_pruned_ts` therefore moves both ways.
* *Pipes and threads.*  A child blocked on a full pipe, writers that keep the
  reader from EOF, a descendant that outlives the child, a reader that fails.
* *Signals* before the forwarder is installed, while the child exits, after it was
  reaped.
* *Errors after the fact*: a script that raises once the child is done.
* *Streaming*: stages that hold lines back until the flush, and whose last lines
  must still pass the later stages.
* *Two parsers of one language.*  The splitter, the tokenizer and the quoter stand
  in for a shell that reads the result by its own rules.
* *The same lookup twice.*  The hook matches a rule by argv; `lacon run` looks it up
  by id, later, from the directory it is started in, over files that may have been
  edited; the loader lists a directory and then opens what it listed.
* *Files with two owners.*  `init` reads, changes and writes files the user, another
  `init` and the assistant write too: one of them by a rename, two by truncation.

## 2. Modules

| Module | What it is | Extends |
|---|---|---|
| `Ledger` | abstract specification: what the history promises its readers | |
| `Tracker` | `record_invocation`, `Tracker::open`, `migrate`, `prune_if_due`, `record` and the marker, one action per SQLite statement or file operation, any number of processes; refines `Ledger` | `Ledger` by `INSTANCE` |
| `Explain` | `lacon explain` beside the recording processes | `Tracker` |
| `Stats` | `lacon stats` beside both: rows, queries, project key, rollup | `Explain` |
| `Runtime` | `Runner::run`: threads, child, pipe, signals | |
| `Stages` | the ten primitives: `step` and `flush` of each, as operators on a stage record | |
| `Pipeline` | `extends` merge, compilation, `keep_regex` merge, a stream through the stages; and what each primitive promises of a whole stream | `Stages` |
| `Chain` | the hook's reading of a command: splitter, wrap-safety, tokenizer, quoter, bypass, interactive programs, `apply_rewrite` | |
| `Shell` | the shell as a reference: where a list falls apart into commands, and the words of one | `Chain` |
| `Loader` | rule files in three layers, the walk over them, `extends`, the cache, match and lookup | `Chain` |
| `Hook` | one Bash call: the hook, then the shell, then every `lacon run` in it | `Loader`, `Shell` |
| `Setup` | `lacon init` (any number), `lacon doctor` and the user on two scopes | |
| `TrackerProofs`, `ExplainProofs`, `PipelineProofs`, `SetupProofs` | TLAPS proofs | the module each is named for |
| `RuntimeProofs` | TLAPS proofs, among them that no output is lost between child and pipeline | `Runtime` |
| `StatsProofs` | TLAPS proofs, with the theory of sums they rest on | `Stats`, `TrackerProofs` |
| `HookProofs` | TLAPS proofs about a call: the splitter, the loader, the texts the hook writes | `Hook` |
| `Folding` | induction, and what `FoldLeft` computes for any operator: lemmas the proofs about bytes, lines, stages, hooks, rules and sums instantiate | |
| `MCTracker`, `MCExplain`, `MCRuntime`, `MCPipeline`, `MCHook`, `MCSetup` | small instances for TLC | |

Definitions commented *Mutant* are plausible bugs: put in the place of the
definition after them they violate a property, which shows that the property can
fail.

### Tracker

A process is at a label `pc[p]`: `open` (PRAGMAs, version check), `migrate` /
`migrating` (before and inside `BEGIN IMMEDIATE`), `throttle` (reads
`last_pruned_ts`), `reanchor` (clock-skew branch), `prune` / `pruning` (before and
inside the prune's transaction), `marker`, `notice`, `raw` and `inv` (the two
inserts), then `done`, `lost` (an error was logged and swallowed) or `dead`
(killed).  A transaction is two actions: the first takes the write lock, the
second has its effects and commits; other processes read, and fail to write,
in between.  The labels fall exactly where another process can get in.

SQLite itself is external and modelled by what it does for this code: one writer,
rollback on error and on crash, rowid = largest in use + 1 (no AUTOINCREMENT),
`ON DELETE SET NULL`, the foreign key checked at insert.

`Fail` is any error of a tracker call, the expiry of `busy_timeout(200)` included,
`Crash` is a kill; `faults` counts both.  A process that loses the race for the
schema ends as `raced`, without a fault.  The config of a run is drawn in `Init`: valid
or not (`BrokenConfigs`), storing or not, captured or not (a bypassed or unmatched run
captures nothing).  A config that does not load is `Config::default()` as a whole.

`Ledger` sees the two tables joined: an entry is a run, its time and whose output a
reader would find behind it (`Tracker!EntryOf`).  `Ledger!Record` adds an entry
once with its own output or none; `Ledger!Expire` removes an entry, or strips its
output, only beyond the shortest window any run may use.

### Explain and Stats

`explain` is two actions per reader, one per read transaction, between any steps of
`Tracker`.  A `stats` report is `BeginReport` (the cutoff from one look at the clock;
no file is an empty report) and five reads, each an aggregate over the rows there
are then; a file whose tables are not made yet ends it with an error
(`NoSuchTable`).  `history` gives each run its command, which never changes, so that
a row is its run and a query a sum over runs.  The project key is modelled as the
code computes it: lexical paths, the walk up to the `.git` that decides, a gitlink,
one `commondir`, bare repositories, temporary roots.  `Repository` is the reference,
given by the instance: the repository each directory belongs to as git sees it.

### Runtime

The three threads with one action per blocking call, over a byte-level pipe with a
capacity, `BufReader` chunks, `read_until`, the line cap, the unbounded channel.
The child writes a plan of bytes chosen in `Init`, may fork a descendant (`heir`)
that keeps stdout, may handle or die of a signal.  `written` is what was ever
written to the pipe, and the reference against which the collected lines are
checked (`IsLinesOf` defines the lines of a stream without reference to buffers).
A signal before the forwarder kills lacon (`main = "killed"`) and leaves the child;
one after it is forwarded at the next poll; one after the watcher is gone has no
effect, as signal-hook's handler stays installed.

### Stages and Pipeline

A stage is a record with the configuration and the mutable state of its `enum Stage`
variant; `Step(s, line)` gives the stage afterwards and the lines it emits, `Flush(s)`
the same for the end of the stream.  A regex is the set of texts it matches, a
replacement the function it computes, a marker a text with a number; widths include
the newline.  `Pipeline` is sequential: `Feed` takes one line through every stage,
`FlushStage` flushes one stage and takes what it owed through the later ones.

`Promised` is the reference: `Batch` says for each primitive, without any state,
which positions of the whole stream survive and where a marker stands (the longest
suffix that fits, the positions within a window of a match, the runs longer than
`max_kept`), applied to the entries of the rule file in turn.  It does not mention
rings, counters, the merge of `keep_regex` or the flush.  Not in the model: a
replacement that rewrites a marker, the digits in a marker's width.

### Chain, Shell, Loader and Hook

A command is a sequence of pieces: every byte a scanner tells apart is a piece of
its own, a run of inert bytes is one word piece.  `SplitChain` is the scanner with
all fields of `SplitState`, including heredocs and its own idea of `$((`; `IsWrapSafe`
is the allowlist; `ArgvForResolution` and `QuoteForShell` take words apart and put
them together.  `Shell` is external and is written from what a shell does, as a
stack of open constructs rather than as counters, so that the two can disagree; the
cases where the code's documents do not claim agreement (comments, `$'...'`, brackets
that cross, an incomplete command) are named in `Unusual` and excused nowhere else.
The delimiter of a heredoc is read by the splitter's own `ScanHeredocOpener` in both, so
that a delimiter the splitter misreads is out of the comparison's sight.

A rule file is a record with what its YAML is good for (unreadable, unknown key, bad
stage, good), its id, parent, match predicate and rewrite block.  `FlattenExtends` climbs
from a rule to its ancestors and merges on the way, where the code recurs and merges
on the way back; either way the nearest ancestor that has a key wins, and the ids
visited are the same.  `Specs` is the set of match predicates with their nested parts.  The loader's walk has
one action for the directory listing, one for each read and one for each parse with
its look at the mtime, because an edit can come between any two.  The code looks at the
mtime twice, to ask the cache (`loader.rs:263`) and to fill it (`loader.rs:289`): an edit
between the two leaves what one before both does, the old content under the new
mtime.  `resolve` stops at
the first hit or error, `load_all` goes on, and the hook passes a segment on when
anything failed.

`Hook` is one call: `Decide` (another tool, bypass, interactive segment, or split),
then per segment verbatim or `BeginMatch` / walk / `RenderMatched`, then `Reassemble`;
then the shell runs the commands it reads from the result, `cd` moves it, `&&` and
`||` go by the status, and each wrapped command is a process with an empty cache that
looks its id up from the directory it is in.  `Edit` changes rule files throughout.

### Setup

An init visits its scopes, project first; in each: skeleton, read settings, rename
the new ones into place, truncate and write `LACON.md`, read, truncate and write
`CLAUDE.md`.  `Stop` is an I/O error or a kill at any of these.  The doctor reads
file by file; what it checks of the machine no init writes, and is one step.
`mine` is what the user last put into the files, `lost` the files where somebody
came between a read and the write that went by it, `whole` the scopes that an init
has completed and nobody disturbed since: history variables, for the properties only.

## 3. Runs

| Run | Bounds | What it shows |
|---|---|---|
| `tracker` | 3 processes, clock 1..3, day 1, windows 2/1 and defaults 1/1, stall <= 1, one fault, first use | the invariants and the refinement of `Ledger`, with configs that do not load |
| `explain` | 2 processes, 1 reader, clock 1..3, windows 1/0 and defaults 2/1, no stall, one fault, first use; 2 histories of commands, 2 requests (none, and `--project ./src --rule pkg --since`) | what explain shows inside the window is the run's own; a report counts every run once under its repository; its sections agree; every recording ends |
| `runtime` | pipe 2, buffer 2, line cap 2, plans of up to 3 bytes, a descendant, 2 signals, read and script errors | output, outcome, signals, termination |
| `pipeline` | parent of at most 1 stage, child of at most 2, the implicit cap after them; 18 entries over all ten primitives; streams of up to 5 lines of 3 texts | streaming equals the reference; memory and output bounds |
| `hook` | some 50 commands alone and in chains of two with six operators, any three active bytes in a row inside or around a chain; 12 rule trees of two entries per directory; one edit at any moment | the properties of `Hook` |
| `setup` | 2 inits (one asked on the terminal, one with `--project`), the doctor, 3 disks, 4 machines, one mishap: an edit, an error or a kill | the properties of `Setup` |
| `tracker_first_use`, `tracker_config`, `runtime_exit` | as small as the counterexample needs | findings 1, 2, 3 |
| `hook_cwd`, `hook_extends`, `hook_braces` | those of `hook` | findings 4, 5, 6 |

*What the properties of `hook` say.*  Taking a command apart and rejoining it changes
nothing (`RejoinsExactly`); every cut is one the shell makes (`CutsAreSeparators`); the
shell reads from the answer the same list with the same operators, each command as it
was or wrapped around the argv it would have built (`ShellReadsTheSame`); one
interactive program leaves the whole line alone (`InteractiveLeftAlone`), and so does a
leading `LACON_DISABLE=1`, bare or in one pair of quotes, with nothing but plain
assignments before it, while one in an argument or a later command is not taken for one
(`EscapeHatchHonoured`); no rule of a higher layer matched what
the chosen one did (`HigherLayerWins`); a wrapped command runs unless somebody edited
or the shell moved (`LostOnlyByMoving`), under the rule that matched unless an id is
used twice (`RunsTheMatchedRule`); a loaded rule was on disk in that layer at some
time (`NoInventedRule`); and every step leaves less to do (`CallEnds`).

*What two of the other runs do not say.*  `OutputCapped` bounds what `max_bytes` lets through by
its cap and allows one marker beyond it, the last line, with the bytes dropped; it does not
bound the two together (*Known limits*, Pipeline).  `OwnLinesKept` and `ForeignHooksKept` hold
but for the moments named in `lost`: an init that stops between its own truncation of
`CLAUDE.md` and the write, another that reads the file just then, the user's save between an
init's read and its write.  In those the lines or hooks are lost in the code too.

*Why the bounds are enough.*  Three processes are one that is between its inserts,
one that prunes and one that takes the freed rowid or moves `last_pruned_ts` back;
the theorems of section 5 cover any number.  Clock 1..3 with day 1 lets rows pass
both windows and two prunes happen.  `explain` needs a reader, a pruner and an
inserter that reuses the rowid; with windows 1 and 0 both tables are pruned while it
reads; one layer and no stall keep it within reach, as the second layer only matters
to the marker and the stall is in `tracker`.  Its two histories put the runs of one
command into one repository by two paths, and an unmatched beside a bypassed one.  In
`runtime` a plan of three bytes overfills the
pipe, the buffer and the cap of two; a line of cap, of cap and newline, and of
more than the cap all occur.  In `pipeline` five lines hold two matches with
overlapping and with separate windows, runs longer than every `max_kept`, and
reach every cap; three stages let what one owes at the end be held back or dropped
by the next and capped by the last.  In `hook` two segments meet at every operator,
three bytes open, escape and close every construct the scanner counts, and an edit
reaches the listing, the read, the mtime and the second lookup; a chain of `extends`
has three rules, a cycle, a missing and a broken parent.  In `setup` two inits on one
scope interleave at every file operation.  `CHECK_DEADLOCK FALSE` where all processes
finish, or the clock at its bound stops the model; `hook` and `setup` have an explicit
end instead (`Over`) and are checked for deadlock.

*Fairness.*  `RecordingEnds` (`StatsFairSpec`): weak fairness of each process's own
steps, nothing about readers, faults, kills or when a run begins; a write is enabled
while the lock is free, and every transaction is finite.  `RunEnds` and
`SignalReachesChild` (`FairHeirSpec`): weak fairness of the threads, of the child (it
writes and exits unless its plan sleeps) and of the descendant.  A thread
that is runnable is scheduled, and a `poll` loop comes round: the kernel's
scheduler justifies no more and no less.  `CallEnds` needs none: it is a variant, an
action property, together with the deadlock check.

## 4. Findings

1. **First use** (`tracker_first_use`).  Two first runs both read `user_version = 0`
   outside the transaction; the second replays `CREATE TABLE` over the first's
   schema and loses its row.
2. **Broken config prunes** (`tracker_config`).  A run whose config fails validation
   prunes everybody's rows by the default windows.
3. **Exit code** (`runtime_exit`).  A script error or a closed stdout turns the exit
   code into 1; such a run is not recorded either.
4. **A command that is not run** (`hook_cwd`).  In `cd sub && cargo test` the wrapper
   looks its rule up from `sub`; a project rule is not found there, `lacon run` ends
   with 1 and the command is never started.
5. **Parents of another layer** (`hook_extends`).  The prefix of `bundled/...` is
   dropped and the parent is looked for beside the child only; the documented rule
   does not load, and with it the hook wraps nothing.
6. **Braces** (`hook_braces`).  `'{a,t}'` comes out of the quoter as `{a,t}`, which the
   shell expands.

### Known limits

Met while modelling; unless said otherwise they contradict no document, or one whose
wording leaves room, and none has a run of its own.

*History.*  Beyond its window `explain` may show another run's output, when a prune and
an insert reuse the rowid between its two reads (`explain.rs:90`); `ExplainFresh`
confines it to that.  A NULL link stands for "never stored" and "stored and
pruned", and explain says "was disabled" for both (`explain.rs:76`, `:81`).  With
`raw_outputs_days = 0`, which the config accepts, a prune may strand or misattribute
the raw row of a run between its two inserts: the theorems assume it away (`Prompt`).

*Statistics.*  Runs without a rule and bypassed ones inherit stdout and are recorded
with zero bytes, so the section of commands with no rule never shows any (the
tests insert rows the program does not write, `tests/cli_stats.rs:157`).
`lacon run` without a rule records `bypassed = 0` whatever `LACON_DISABLE` is.
`normalize_project` keeps `..`, though its comment says otherwise.  A submodule has no
`commondir` and is keyed by `.git/modules` of its superproject.  A run
without a project path is keyed by a walk from the directory `stats` is started in.
On a file that a first run is about to migrate `stats` fails.  The five reads are five
transactions: sections disagree when a row expires in between (`SectionsAgree`).

*Run.*  lacon waits for EOF, hence for any descendant that keeps the pipe, though its
child is dead (`runtime/mod.rs:310`; `docs/open-questions.md:37`).  A signal between
`spawn` and `install_signal_forwarder` kills lacon and leaves the child; between
`child.wait()` and the join of the watcher a signal goes to a pid that may belong
to somebody else by then (`NoLateSignal` bounds the window to that).

*Pipeline.*  `docs/specs/config-schema.md:71` says that "the engine never returns more than
this many bytes from a pipeline", and that is not so.  The marker comes on top of the cap
(`stages.rs:460-465`; `docs/primitive-reference.md:374` has it appended, and its example
with `max_bytes: 200` prints five lines of 34 bytes and a marker of 43); a
rule's own `max_bytes` may exceed the default; and `post_process` runs after the cap and may
grow the output again (`pipeline/mod.rs:120-125` says so).  `OutputCapped` states what holds:
the lines let through stay within the cap, and only the marker comes after them.
`max_bytes` "must be the last stage" (`docs/primitive-reference.md`), but
nothing enforces it, and a rule that extends one with a `max_bytes` puts its stages
after it.  "Multiple `keep_regex` stages are OR'd together" (same file) only when they
follow each other; `StreamEqualsBatch` states it as `pipeline/mod.rs:12` does.

*Hook.*  The splitter knows no comments: an apostrophe in one opens a quote
(`chain.rs:195`).  It does not see an operator inside `"$(...)"`, takes `$((1<<2))` for a
heredoc, and brackets that cross end in more cuts than the shell makes.  With an
assignment or a reserved word in front (`A=1 cargo t`, `time cargo t`) a rule with
`command_regex` may match, and the wrapper then makes it the program
(`chain.rs:418-420`; `Excused`).  The scan for `LACON_DISABLE=1` splits at blanks, strips one pair of quotes and stops at the first
word that is no assignment (`lib.rs:91-148`): `LACON_DISABLE=\1`, `LACON_DISABLE=''1`,
`time LACON_DISABLE=1 ls` and `A='x y' LACON_DISABLE=1 ls` are not recognised, nor is one
after an assignment from a substitution with blanks in it, and the
other segments of such a line are wrapped.  The other way round, `A='x LACON_DISABLE=1 ' ls` is
taken for a bypass although the shell assigns only `A`; `lib.rs:142-145` says that divergences
end in no bypass, but of the unquoting alone.  All are among the commands of the
run, outside the conditions of `EscapeHatchHonoured`.  The rule's
id is put into the wrapper unquoted.  `apply_rewrite` is not idempotent.
Double quotes nested in a substitution inside double quotes flip the scanner's quote
state, so that an apostrophe after them may end up outside a quote and an operator inside
one may cut (`"$(ls "it's")" 'y);cargo t;z'`).  An escaped interactive command (`\vim`) is not
recognised, and a command in which the user spells `lacon run --rule x` himself is run under
a rule no segment matched.  The run's commands, which have three active bytes in a row, stay
below these.

*Rules.*  A file whose `command_regex` does not compile loads (`loader.rs:366-369`).
Duplicate ids make `lacon run` use another rule than the one that matched.  The cache's
key is the mtime looked up after the content was read, so that old content may be kept
under a new mtime, and the child's alone, so that edits of a parent go unseen by a
process that has the child (`loader.rs:263`); each process lives for one call, which
bounds it.

*Setup.*  `LACON.md` and `CLAUDE.md` are written without a rename, and the user's lines
are gone if init stops in between; what the user saves between an init's read and its
write or rename is gone as well (`OwnLinesKept` and `ForeignHooksKept` say when).  Init
stops at the first scope that fails.  The doctor accepts an empty `LACON.md`, and passes over a
`settings.json` that does not parse although it has a check for it (`doctor.rs:51-52`
against `:237-245`).  The hook's error log may create the data directory with the mode
of the umask before the tracker does with 0700.

## 5. Proofs

For every set of runs, layers, windows, faults, inits, files, sizes of pipe, buffer and
line, plans of bytes and signals, rules and streams, disks, histories and requests, command lines and rule trees:

| Theorem | States | Assumes |
|---|---|---|
| `TypeCorrect` | `[]TypeOK` | - |
| `LinkedRawIsOwnAlways` | `[]LinkedRawIsOwn` | `Prompt` |
| `RetentionAlways` | `[]RetentionEnforced` | `Prompt` |
| `LostOnlyToFaultAlways` | `[]LostOnlyToFault` | `Prompt` |
| `OrphanOnlyAfterFaultAlways` | `[]OrphanOnlyAfterFault` | `Prompt`, raw outputs kept no longer than invocations |
| `NoticeOnceAlways` | `[]NoticeOnce` | - |
| `ImplementsLedger` | `Spec => LedgerSpec` | `Prompt` |
| `ExplainFreshAlways` | `ExplainSpec => []ExplainFresh` | `Prompt` |
| `RuntimeTypeCorrect` | `[]RuntimeTypeOK` | - |
| `OutcomeOfChildAlways` | `[]OutcomeOfChild` | - |
| `NoLateSignalAlways` | `NoLateSignal` | - |
| `OutputIntactAlways` | `[]OutputIntact` | - |
| `StatsTypeCorrect` | `[]StatsTypeOK` | - |
| `ReportIsTrueAlways` | `StatsSpec => []ReportIsTrue` | `KeyedByRepository` |
| `SectionsAgreeAlways` | `StatsSpec => []SectionsAgree` | `KeyedByRepository` |
| `PipelineTypeCorrect` | `[]PipelineTypeOK` | - |
| `StateBoundedAlways` | `[]StateBounded` | - |
| `OutputCappedAlways` | `[]OutputCapped` | - |
| `StreamEqualsBatchAlways` | `[]StreamEqualsBatch` | - |
| `SetupTypeCorrect` | `[]SetupTypeOK` | - |
| `OwnLinesKeptAlways` | `[]OwnLinesKept` | - |
| `HalfInstallNeverPassedOver` | `[]HalfInstalledIsReported` | - |
| `InitPassesDoctor` | `[]DoctorAcceptsInit` | - |
| `OneHookAlways` | `[]OneHook` | - |
| `ForeignHooksKeptAlways` | `[]ForeignHooksKept` | - |
| `ReRunWritesTheSameAlways` | `[]ReRunWritesTheSame` | - |
| `HookTypeCorrect` | `[]HookTypeOK` | - |
| `RejoinsExactlyAlways` | `[]RejoinsExactly` | - |
| `CallEndsAlways` | `CallEnds` | - |
| `NoInventedRuleAlways` | `[]NoInventedRule` | - |
| `HigherLayerWinsAlways` | `[]HigherLayerWins` | - |

Besides what the table names they use the assumptions on the constants that the
modules state, which TLC evaluates: the disks an init may find and the commands of
their hooks (`DisksAssumption`, `CommandsAssumption`), the rules a file can spell and the
widths of lines (`RulesAssumption`, `TextAssumption`), what a run records and what a
request asks (`StatsAssumption`), what a rule file can spell and what the assistant may
send (`LoaderAssumption`, `CallsAssumption`: a command is any sequence of pieces, a tree
any content in any entry), and the like.

**Tracker.**  `Prompt` says that no process is late by more than the shortest window:
the time between reading the clock and the last insert is at most
`raw_outputs_days`.  It is needed: with a window of 0, or a process
suspended for days between its two inserts, a prune takes its raw row, another run
reuses the rowid, and the invocation is linked to a foreign output.
The inductive invariant is `TableInv == TypeOK /\ ClockInv /\ RowInv /\ LinkInv /\
WindowInv`.  `LinkedRawIsOwn` alone is not inductive: the step that inserts an
invocation needs the raw row of the process to be still there and still its own
(`LinkInv`), which a prune by another process preserves only because that
process's clock reading is at most `MaxStall` away (`ClockInv`) and rows carry the
time and id of their run (`RowInv`).  `RetentionEnforced` needs that a process
about to move `last_pruned_ts` back read a value that covers every row
(`WindowInv`).  Each action is one step of the proof; those that touch no row
share `QuietStep`.  The privacy theorem has its own invariant, `MarkerInv`; what it shows is one notice at most and
no raw byte without the marker, not that the notice is out before the first raw byte: a loser of
the race may store before the winner has printed.  The
refinement uses that under `TableInv` what a reader joins is the run's own
(`OutputIsOwn`).

**Explain.**  `FreshInv == TableInv /\ CaptureInv /\ ReaderInv`.  `ReaderInv` says of a
reader between its two reads that, as long as the run's output is inside its window,
the raw row under the rowid it holds is there and is that run's; `RawStays` is the
reason: no step removes or renames a raw row inside its window, so the rowid cannot
have been given away.  `CaptureInv` ties links to what was captured.

**Stats.**  `SumFunction` chooses the order in which it adds, so the first part of the
module shows that there is one sum (`TotalAdd`, `TotalImage`, `TotalParts`: adding an
element, renaming, adding group by group).  The second shows that each query over a set of
rows, at one moment, answers what the user would of the runs of these rows, the rollup
by repository included (`AnswersAreTrue`); that needs `KeyedByRepository`, which says that
`canonical_key` gives each directory on the disk the repository git would, and which
the run evaluates on its disk: the known limits name the layouts where it fails.  The
third is about time.
`HistoryInv`: a recorded run has one row, with its time, and has it while its window
lasts - whoever prunes, and however late, so `Prompt` is not needed here.  `ReportInv`
says of a report under way that there is for each section already read a set of runs that
the section is the truth about: none outside the request, every one that was there when
the report began and is still in its window, and every one of an earlier section that is.
`ReportIsTrue` alone says nothing before the last of the five reads, so it is not
inductive; nor is that the section was true when it was read, as the rows have gone
since.  `SectionsFit` then needs only that the sets grow from section to section.

**Runtime.**  `PhaseInv` says what the place of the main thread tells of the child and of
the watcher; with it, that a child that has ended keeps its status is enough for
`OutcomeOfChild` and `NoLateSignal`.  `OutputIntact` speaks of the end of a run only, and
its invariant of every moment: `QueueInv` follows each byte written (those counted are
in lines, then come the line being collected, the `BufReader`'s buffer and the pipe),
`LinesInv` says that the lines, collected and still in the channel, are the lines of
the bytes counted, and that these end with a newline unless there is nothing under way
and nobody left to write (`Drained`, which is stable); `ClosedInv` that a reader at its
EOF has drained everything.  `AddLine` is the step of the argument that has nothing to
do with threads: a stream that ends with a newline, and to which a piece with no newline
but its last byte is added, has one line more, the one that `LineOf` makes of the piece,
cut or whole.

**Pipeline.**  `PipelineInv` types each stage with bounds of its own (`Stage`), and says
of a stage that is still to be flushed that the bytes it counted are those of the lines
it holds: the counter alone bounds nothing.  `StepOutcome` and `FlushOutcome` are its cases,
one for each primitive; `ThroughResult` takes them through the list of stages, which is a
fold over a fold (a line may become many), and `MergeType` through the merge of `keep_regex`
at compile time.  `CapHolds` relates the output to what the last `max_bytes` has counted,
and, once that stage is flushed, splits it into what was let through and what the flush
added, so that the cap holds at every moment and the marker is all that exceeds it.

*Stream and batch.*  `StreamEqualsBatch` speaks of the end of a run; its invariant of every
moment, `StreamInv`, says that the stages still to be flushed and the output are where the
stream that reaches them would have taken them, had it come in one piece: a line fed extends
that stream, a flush hands the next stage the rest of it (`ThroughConcat` and its like: a fold
over a stream of two parts is the fold of the parts).  So at the end the output is `WholeAll`
of the compiled stages, each given all that the one before it emits (`DoneOutput`).  The
second step is about one primitive at a time: `WholeDedupe`, `WholeTail` and their
like show that what a stage makes of a stream in one piece, its flush included, is the
definition by positions that `Batch` promises of it, with the state of the stage after any
prefix as the induction hypothesis (`StreamRelation`): the length of the current run and what
it still owes, the tail that fits, the distance to the last match.  The third is the compiler:
`MergeHolds` follows the merge of `keep_regex` through the entries of a rule, the patterns
pending being those of the run that is open (`Gathered`), until an entry of another kind or the
end releases them as one stage (`MergeEnds`); `WholeIsPromised` adds the implicit cap.

**Setup.**  The type invariant needs `FillInv`, that the file an init has truncated is
still a sequence of lines when it writes.  `LinesInv`: an init about to write holds the user's lines, unless `lost` says
otherwise.  `HalfInv`: what the doctor has noted of a scope that nobody touches is
true of the disk.  `InitPassesDoctor` is about the scopes in which no init
is at work when the doctor begins and nobody writes until it is done; of the others it says
nothing.  It chains four: what an active init has written so
far is there (`WrittenInv`), a whole scope has all of it (`WholeInv`), nobody is at work
in a scope the doctor still trusts (`StillInv`), and the doctor's notes about it are clean
(`AcceptInv`).

`OneHook` rests on the form of what an init writes, `Canonical`: one group with lacon's
hook, the last, and no other mention of it; `InstallLaconHook` gives every settings that form
(induction over its groups and their hooks, through `Folding`) and changes none that has
it, which is also why a re-run writes the same.  `ForeignInv`: the user's hooks are on the
disk and in the settings every init is about to rename over it.  `ReRunWritesTheSame` needs
of `CLAUDE.md` that two inits at once would write one and the same text, which may
for a moment not be there, one having truncated the file to write it: `SettledInv`.

**Hook.**  `HookInv` has four parts: where the hook and the shell are in the command
(`ControlOK`: the segments are those of the splitter, what is rendered is text, the list the
shell reads is fixed once it starts), whose loader is at work and that it holds nothing
between two walks (`HolderOK`), and what files and a loader may hold (`FilesOK`,
`LoaderOK`).  The types alone are not inductive: that a lookup ends with a rule needs the
content read to be a rule, which needs the listing to name entries of the directory that is
open, also after an edit.

*Splitter.*  `SplitInv` holds after every position: the segments so far, with their spans,
are the command up to the start of the current one.  It says nothing of quotes or brackets,
and need not: whatever the scanner believes, `SegmentExact` (blanks before an operator go to
its span, those after it too) loses no byte, also where a heredoc or an operator
takes the scanner past the position it is asked about next.  `SplitExact` is the fold of it.

*Origins.*  `OriginsOK` carries `NoInventedRule` through the places a rule passes: the content
in hand, the cache, the loaded, the chosen.  Climbing the `extends` chain keeps the id of the
child (`ClimbInv`), and what was on disk only grows (`KnownGrows`), so an edit disturbs nothing.

*Layers.*  `HigherLayerWins` speaks of the chosen rules, its invariant `LayersOK` of the walk: the
layers still to open are a suffix of the three (`Place`), the loaded rules are sorted by layer,
and every entry of an opened layer is yet to be read, loaded as what it is now, or has failed the
walk (`Complete`).  The cache may stand in for a parse because under `edits = 0` what it holds is
what a parse would give now (`CacheIsNow`).  `FirstMatch` takes the first that matches, hence none
of a higher layer does (`FirstWins`).

*Ending.*  The rank is the stage, the commands left in it, and the walk: `2 * widest + 2` for
each unopened layer, 2 for each listed entry, 1 while nothing is read.  A listing opened costs
less than its layer was worth (`OpenLayerLess`), a read or a parse at least one (`EntryLess`), and a
walk begins below the `6 * widest + 8` of a command not begun (`BeginLess`).

*Induction over data* is done in first order, as the library's induction theorems take an
operator the provers cannot instantiate: to show a statement for every number, subset or
sequence, the set of those it holds of is shown to be closed (`SetInduction`,
`SeqInduction` in `Folding`; `FiniteInduction` in `StatsProofs`).

*Only model-checked.*  Liveness (`RecordingEnds`, `RunEnds`, `SignalReachesChild`), which the
prover does not cover.  Of `Hook`, the properties that compare the splitter with the
shell (`CutsAreSeparators`, `ShellReadsTheSame`, `InteractiveLeftAlone`,
`EscapeHatchHonoured`) or need of a command that it does not spell a wrapper itself
(`LostOnlyByMoving`, `RunsTheMatchedRule`).  These are not theorems: they hold of the commands of
the run and fail for others, as *Known limits* says, and a condition under which they hold of
every command would restate the splitter.

## 6. Not modelled

* *Rule schema*: what the fields of a stage may hold is `StageSpec` in `Pipeline`; its
  other structs are data.
* *Bundled rules, CLI parsing, error enums, test emitter, benches, scripts*: data,
  derive macros and tools.
* *`validate`*: a batch of checks over one file, no state.  The syntax checks of a rule
  and the field-by-field merge of its other blocks are, in `Loader`, only whether the
  file parses and compiles.
* *Starlark's own semantics*: external; output or error in `Runtime`.
* *Config*: what a run gets from it, not the TOML.
* *`filter_bytes`* (explain's replay): one call of the pipeline on bytes at rest.
* *Stats*: rendering, order, the cap on rows, the average keep ratio, the parse of
  `--since`, the probe of `health.rs`; `suspected_regressions`, which nothing writes.
* *Clock changes backwards*: the skew branch is reached by interleaving.
* *File-system permissions and a refusal of WAL mode* are inside `Fail` in `Tracker` and
  inside `Stop` in `Setup`.
