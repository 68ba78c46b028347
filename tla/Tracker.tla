------------------------------- MODULE Tracker -------------------------------
(***************************************************************************)
(* The tracking side of `lacon run` (crates/lacon-core/src/tracking and    *)
(* commands/run.rs, record_invocation).  There is no daemon: every         *)
(* `lacon run` is a process of its own that, once its filtered output is   *)
(* on stdout, opens the one SQLite file of the user, migrates and prunes   *)
(* it when that is due, and adds its rows.  Several sessions run at once,  *)
(* so every step below can interleave with every step of another process,  *)
(* and a process can fail or be killed between any two of them.            *)
(*                                                                         *)
(* SQLite is modelled by what it does for this code: one writer at a time  *)
(* (`lock`), a transaction's writes visible only at its commit and undone  *)
(* by a crash, a statement outside a transaction atomic on its own, a      *)
(* busy handler that gives up after 200 ms, rowids one above the largest   *)
(* in use, foreign keys enforced with ON DELETE SET NULL.                  *)
(***************************************************************************)
EXTENDS Naturals, FiniteSets

CONSTANTS
    Runs,       \* `lacon run` processes; each records at most one invocation
    Layers,     \* where the privacy marker lives: project dirs, user config dir
    NULL,       \* nobody holds SQLite's write lock
    Day,        \* 24 h in clock ticks (PRUNE_THROTTLE_MS = ONE_DAY_MS)
    InvDays,    \* the user's retention.invocations_days
    RawDays,    \* the user's retention.raw_outputs_days
    DefaultInvDays, DefaultRawDays,  \* Config::default()
    StartTime,  \* the clock when the model starts
    MaxTime,    \* bound: the clock stops here
    MaxStall,   \* longest time a process spends between reading the clock and
                \* its last insert
    MaxFaults,  \* bound: I/O errors, busy timeouts and kills, over all the processes
    BrokenConfigs, \* TRUE: a project's config.yaml may fail validation
    FirstUse    \* TRUE: the database file may not exist yet

ASSUME TrackerAssumption ==
    /\ Day \in Nat \ {0}
    /\ InvDays \in Nat /\ RawDays \in Nat
    /\ DefaultInvDays \in Nat /\ DefaultRawDays \in Nat
    /\ StartTime \in Nat /\ MaxTime \in Nat
    /\ MaxStall \in Nat /\ MaxFaults \in Nat
    /\ BrokenConfigs \in BOOLEAN /\ FirstUse \in BOOLEAN
    /\ IsFiniteSet(Runs)
    /\ NULL \notin Runs

VARIABLES
    clock,       \* wall clock
    version,     \* PRAGMA user_version; 1 once the tables exist
    lastPruned,  \* lacon_meta.last_pruned_ts
    invs,        \* table invocations: [run, ts, raw]
    raws,        \* table raw_outputs: [id, run, ts]
    acked,       \* the layers whose marker file exists
    notices,     \* how often the privacy notice was printed for a layer
    lock,        \* the process inside a write transaction, or NULL
    pc,          \* where each process is
    cfg,         \* its resolved config: [valid, store, captured, layer]
    now,         \* the time it read when it began to record
    rawId,       \* the id of the raw_outputs row it inserted
    faults       \* faults so far

vars == <<clock, version, lastPruned, invs, raws, acked, notices, lock, pc,
          cfg, now, rawId, faults>>
db   == <<version, lastPruned, invs, raws>>

TARGET_VERSION == 1
NoRaw == 0                          \* raw_output_id NULL
RawIds == 1..Cardinality(Runs)      \* enough: each process inserts one row

Finished == {"done", "lost", "raced", "dead"}
Labels == {"running", "open", "migrate", "migrating", "throttle", "reanchor",
           "prune", "pruning", "marker", "notice", "raw", "inv"} \cup Finished

(* What resolve_config gives a run.  A config that does not load is replaced as
   a whole by Config::default(), which stores nothing; captured says that the
   run matched a rule and was not bypassed, so the runner kept its raw bytes. *)
Config == {c \in [valid : BOOLEAN, store : BOOLEAN, captured : BOOLEAN, layer : Layers] :
              /\ c.valid \/ BrokenConfigs
              /\ c.store => c.valid
              /\ c.captured => c.store}

(* The retention windows a run prunes by, in clock ticks, and their bounds. *)
InvWindow(p) == (IF cfg[p].valid THEN InvDays ELSE DefaultInvDays) * Day
RawWindow(p) == (IF cfg[p].valid THEN RawDays ELSE DefaultRawDays) * Day

Lesser(m, n) == IF n < m THEN n ELSE m
Greater(m, n) == IF n < m THEN m ELSE n
LeastInv == Lesser(InvDays * Day, IF BrokenConfigs THEN DefaultInvDays * Day ELSE InvDays * Day)
LeastRaw == Lesser(RawDays * Day, IF BrokenConfigs THEN DefaultRawDays * Day ELSE RawDays * Day)
MostInv == Greater(InvDays * Day, IF BrokenConfigs THEN DefaultInvDays * Day ELSE InvDays * Day)
MostRaw == Greater(RawDays * Day, IF BrokenConfigs THEN DefaultRawDays * Day ELSE RawDays * Day)

Invocation == [run : Runs, ts : Nat, raw : Nat]
RawOutput == [id : Nat, run : Runs, ts : Nat]

TypeOK ==
    /\ clock \in Nat
    /\ version \in 0..TARGET_VERSION
    /\ lastPruned \in Nat
    /\ invs \subseteq Invocation
    /\ raws \subseteq RawOutput
    /\ acked \subseteq Layers
    /\ notices \in [Layers -> Nat]
    /\ lock \in Runs \cup {NULL}
    /\ pc \in [Runs -> Labels]
    /\ cfg \in [Runs -> Config]
    /\ now \in [Runs -> Nat]
    /\ rawId \in [Runs -> Nat]
    /\ faults \in Nat

-----------------------------------------------------------------------------
(* The machine starts with no database, or with one that was migrated and
   last pruned some time ago and whose old rows are of no interest. *)
Init ==
    /\ clock = StartTime
    /\ \/ version = 0 /\ lastPruned = 0 /\ FirstUse
       \/ version = TARGET_VERSION /\ lastPruned \in 0..StartTime
    /\ invs = {} /\ raws = {}
    /\ acked = {} /\ notices = [l \in Layers |-> 0]
    /\ lock = NULL
    /\ pc = [p \in Runs |-> "running"]
    /\ cfg \in [Runs -> Config]
    /\ now = [p \in Runs |-> 0]
    /\ rawId = [p \in Runs |-> NoRaw]
    /\ faults = 0

Goto(p, l) == pc' = [pc EXCEPT ![p] = l]
InFlight(p) == pc[p] \notin Finished \cup {"running"}

(* Time passes, but no process dawdles for longer than MaxStall. *)
Tick ==
    /\ clock < MaxTime
    /\ \A p \in Runs : InFlight(p) => clock + 1 <= now[p] + MaxStall
    /\ clock' = clock + 1
    /\ UNCHANGED <<db, acked, notices, lock, pc, cfg, now, rawId, faults>>

-----------------------------------------------------------------------------
(* record_invocation: the filtered output is out; read the clock, once. *)
Begin(p) ==
    /\ pc[p] = "running"
    /\ now' = [now EXCEPT ![p] = clock]
    /\ Goto(p, "open")
    /\ UNCHANGED <<clock, db, acked, notices, lock, cfg, rawId, faults>>

(* Tracker::open up to the version check of migrate(), which is outside any
   transaction: at "migrate" a process goes by a version it read as 0. *)
Open(p) ==
    /\ pc[p] = "open"
    /\ Goto(p, IF version >= TARGET_VERSION THEN "throttle" ELSE "migrate")
    /\ UNCHANGED <<clock, db, acked, notices, lock, cfg, now, rawId, faults>>

(* BEGIN IMMEDIATE *)
BeginMigrate(p) ==
    /\ pc[p] = "migrate"
    /\ lock = NULL
    /\ lock' = p
    /\ Goto(p, "migrating")
    /\ UNCHANGED <<clock, db, acked, notices, cfg, now, rawId, faults>>

(* The DDL runs when the version read before the transaction was 0.  CREATE
   TABLE has no IF NOT EXISTS: over an existing schema it is an error, the
   transaction rolls back and the open fails. *)
CommitMigrate(p) ==
    /\ pc[p] = "migrating"
    /\ lock' = NULL
    /\ \/ /\ version = 0
          /\ version' = TARGET_VERSION
          /\ lastPruned' = 0
          /\ Goto(p, "throttle")
       \/ /\ version # 0
          /\ Goto(p, "raced")
          /\ UNCHANGED <<version, lastPruned>>
    /\ UNCHANGED <<clock, invs, raws, acked, notices, cfg, now, rawId, faults>>

(* prune_if_due: last_pruned_ts is read outside the transaction that prunes. *)
Throttle(p) ==
    /\ pc[p] = "throttle"
    /\ \/ lastPruned > now[p] /\ Goto(p, "reanchor")
       \/ lastPruned <= now[p] /\ now[p] < lastPruned + Day /\ Goto(p, "marker")
       \/ lastPruned + Day <= now[p] /\ Goto(p, "prune")
    /\ UNCHANGED <<clock, db, acked, notices, lock, cfg, now, rawId, faults>>

(* The clock-skew branch: write last_pruned_ts, delete nothing. *)
Reanchor(p) ==
    /\ pc[p] = "reanchor"
    /\ lock = NULL
    /\ lastPruned' = now[p]
    /\ Goto(p, "marker")
    /\ UNCHANGED <<clock, version, invs, raws, acked, notices, lock, cfg, now,
                   rawId, faults>>

(* The transaction is deferred: its first DELETE takes the write lock. *)
BeginPrune(p) ==
    /\ pc[p] = "prune"
    /\ lock = NULL
    /\ lock' = p
    /\ Goto(p, "pruning")
    /\ UNCHANGED <<clock, db, acked, notices, cfg, now, rawId, faults>>

(* Mutants: one tick too long; the boundary on the wrong side. *)
KeptTooLong(rows, window, t) == {r \in rows : t <= r.ts + window + 1}
KeptStrictly(rows, window, t) == {r \in rows : t < r.ts + window}

(* DELETE ... WHERE ts < now - window: what a prune at time t keeps. *)
Kept(rows, window, t) == {r \in rows : t <= r.ts + window}

(* Mutants: PRAGMA foreign_keys is off; the link is cleared to no number. *)
SetNullOff(i, left) == i
SetNullUntyped(i, left) ==
    [i EXCEPT !.raw = IF \E r \in left : r.id = i.raw THEN i.raw ELSE NULL]

(* ON DELETE SET NULL *)
SetNull(i, left) ==
    [i EXCEPT !.raw = IF \E r \in left : r.id = i.raw THEN i.raw ELSE NoRaw]

(* Mutant: the cutoffs of the two tables are swapped. *)
CommitPruneSwapped(p) ==
    /\ pc[p] = "pruning"
    /\ lock' = NULL
    /\ raws' = Kept(raws, InvWindow(p), now[p])
    /\ invs' = {SetNull(i, raws') : i \in Kept(invs, RawWindow(p), now[p])}
    /\ lastPruned' = now[p]
    /\ Goto(p, "marker")
    /\ UNCHANGED <<clock, version, acked, notices, cfg, now, rawId, faults>>

CommitPrune(p) ==
    /\ pc[p] = "pruning"
    /\ lock' = NULL
    /\ raws' = Kept(raws, RawWindow(p), now[p])
    /\ invs' = {SetNull(i, raws') : i \in Kept(invs, InvWindow(p), now[p])}
    /\ lastPruned' = now[p]
    /\ Goto(p, "marker")
    /\ UNCHANGED <<clock, version, acked, notices, cfg, now, rawId, faults>>

-----------------------------------------------------------------------------
(* Mutant: the marker is opened with create, which also opens an existing one. *)
MarkerNotExclusive(p) ==
    /\ pc[p] = "marker"
    /\ IF cfg[p].store THEN acked' = acked \cup {cfg[p].layer} /\ Goto(p, "notice")
                       ELSE Goto(p, "raw") /\ UNCHANGED acked
    /\ UNCHANGED <<clock, db, notices, lock, cfg, now, rawId, faults>>

(* Tracker::record.  The marker file is created with create_new, the notice
   is printed only by the process that created it, and comes after. *)
Marker(p) ==
    /\ pc[p] = "marker"
    /\ \/ /\ cfg[p].store /\ cfg[p].layer \notin acked
          /\ acked' = acked \cup {cfg[p].layer}
          /\ Goto(p, "notice")
       \/ /\ ~cfg[p].store \/ cfg[p].layer \in acked
          /\ Goto(p, "raw")
          /\ UNCHANGED acked
    /\ UNCHANGED <<clock, db, notices, lock, cfg, now, rawId, faults>>

Notice(p) ==
    /\ pc[p] = "notice"
    /\ notices' = [notices EXCEPT ![cfg[p].layer] = @ + 1]
    /\ Goto(p, "raw")
    /\ UNCHANGED <<clock, db, acked, lock, cfg, now, rawId, faults>>

(* The rowid SQLite gives to a new row: one above the largest in use. *)
IsNextId(id, rows) ==
    /\ \A r \in rows : r.id < id
    /\ id = 1 \/ \E r \in rows : r.id + 1 = id

(* insert_raw_output, a statement of its own: both the config and the runner
   must have kept the bytes. *)
InsertRaw(p) ==
    /\ pc[p] = "raw"
    /\ \/ /\ cfg[p].store /\ cfg[p].captured
          /\ lock = NULL
          /\ \E id \in RawIds :
                /\ IsNextId(id, raws)
                /\ raws' = raws \cup {[id |-> id, run |-> p, ts |-> now[p]]}
                /\ rawId' = [rawId EXCEPT ![p] = id]
       \/ ~(cfg[p].store /\ cfg[p].captured) /\ UNCHANGED <<raws, rawId>>
    /\ Goto(p, "inv")
    /\ UNCHANGED <<clock, version, lastPruned, invs, acked, notices, lock, cfg,
                   now, faults>>

(* insert_invocation, another statement of its own.  The foreign key is
   checked: a raw row that is gone by now makes the insert fail. *)
InsertInvocation(p) ==
    /\ pc[p] = "inv"
    /\ lock = NULL
    /\ \/ /\ rawId[p] = NoRaw \/ \E r \in raws : r.id = rawId[p]
          /\ invs' = invs \cup {[run |-> p, ts |-> now[p], raw |-> rawId[p]]}
          /\ Goto(p, "done")
       \/ /\ rawId[p] # NoRaw /\ \A r \in raws : r.id # rawId[p]
          /\ Goto(p, "lost")
          /\ UNCHANGED invs
    /\ UNCHANGED <<clock, version, lastPruned, raws, acked, notices, lock, cfg,
                   now, rawId, faults>>

-----------------------------------------------------------------------------
(* Mutant: an error path that leaves the transaction open. *)
ReleaseNever(p) == UNCHANGED lock

Release(p) == lock' = IF lock = p THEN NULL ELSE lock

(* An error of a tracker call (a lock not had in 200 ms, disk, permissions, WAL
   refused, marker not creatable): logged, swallowed, an open transaction rolls
   back.  The re-anchor and the notice do not look at their result, and a
   last_pruned_ts that cannot be read is taken for 0. *)
Fail(p) ==
    /\ InFlight(p)
    /\ faults < MaxFaults
    /\ faults' = faults + 1
    /\ Release(p)
    /\ Goto(p, CASE pc[p] = "reanchor" -> "marker"
                 [] pc[p] = "notice" -> "raw"
                 [] pc[p] = "throttle" -> IF now[p] < Day THEN "marker" ELSE "prune"
                 [] OTHER -> "lost")
    /\ UNCHANGED <<clock, db, acked, notices, cfg, now, rawId>>

(* The process is killed. *)
Crash(p) ==
    /\ InFlight(p)
    /\ faults < MaxFaults
    /\ faults' = faults + 1
    /\ Release(p)
    /\ Goto(p, "dead")
    /\ UNCHANGED <<clock, db, acked, notices, cfg, now, rawId>>

Step(p) ==
    \/ Open(p)
    \/ BeginMigrate(p) \/ CommitMigrate(p)
    \/ Throttle(p) \/ Reanchor(p) \/ BeginPrune(p) \/ CommitPrune(p)
    \/ Marker(p) \/ Notice(p) \/ InsertRaw(p) \/ InsertInvocation(p)

Next == \/ Tick
        \/ \E p \in Runs : Begin(p) \/ Step(p) \/ Fail(p) \/ Crash(p)

Spec == Init /\ [][Next]_vars

(* The scheduler runs every process that has begun to record, and a write gets
   the lock when it is free; when the child of a run ends and whether a call
   fails or a process is killed is nobody's duty. *)
FairSpec == Spec /\ \A p \in Runs : WF_vars(Step(p))

-----------------------------------------------------------------------------
(***************************************************************************)
(* Properties                                                              *)
(***************************************************************************)

(* A non-NULL raw_output_id names an existing raw_outputs row, and that row
   holds the output of the same run: neither a prune between the two inserts
   of a run nor the reuse of a rowid attaches the output of another command. *)
LinkedRawIsOwn ==
    \A i \in invs : i.raw # NoRaw =>
        \E r \in raws : r.id = i.raw /\ r.run = i.run

(* Retention works in spite of the throttle, of the unlocked read of
   last_pruned_ts and of last_pruned_ts moving backwards when an older
   process overwrites it: no row is ever beyond the longest window in use as
   of the last prune that the database admits to. *)
RetentionEnforced ==
    /\ \A i \in invs : lastPruned <= i.ts + MostInv
    /\ \A r \in raws : lastPruned <= r.ts + MostRaw

(* Raw bytes nobody can reach by an invocation are what a fault leaves behind
   between the two inserts, or belong to a run that is between them; a prune
   never strands any. *)
OrphanOnlyAfterFault ==
    \A r \in raws : \/ \E i \in invs : i.raw = r.id
                    \/ pc[r.run] \in {"inv", "lost", "dead"}

(* The privacy contract: the notice of a layer is printed at most once however
   many processes race for it, no raw byte is stored for a layer that has no
   marker, and once one is stored the notice is out or, unless something
   failed, about to be.  It need not be out first: a process that lost the race
   stores while the winner has yet to print. *)
NoticeOnce ==
    \A l \in Layers :
        /\ notices[l] <= 1
        /\ (\E r \in raws : cfg[r.run].layer = l) =>
              /\ l \in acked
              /\ \/ notices[l] = 1
                 \/ faults > 0
                 \/ \E q \in Runs : pc[q] = "notice" /\ cfg[q].layer = l

(* A process that has a schema to write to loses its row only to a failed call
   or a busy timeout: the foreign key never rejects its own insert, whatever
   was pruned since it inserted the raw output. *)
LostOnlyToFault == \A p \in Runs : pc[p] = "lost" => faults > 0

(* ADR 0011: "WAL mode handles concurrent writes from multiple `lacon` processes
   safely": while nothing fails, no process loses its row. *)
LostOnlyEverToFault == \A p \in Runs : pc[p] \in {"lost", "raced"} => faults > 0

(* Whatever the lock, the prune and the other processes do, a process that
   begins to record comes to an end: the hook's caller is not left waiting. *)
RecordingEnds == \A p \in Runs : pc[p] = "open" ~> pc[p] \in Finished

(* config-schema.md:67: retention is the user's, "because the SQLite database is
   shared across all of a user's projects": no run, in whatever project, takes
   an invocation away before the user's own window is over. *)
UserRetentionHonoured ==
    [][\A i \in invs : \/ \E j \in invs' : j.run = i.run
                       \/ i.ts + InvDays * Day < clock]_vars

(* The output a reader finds behind an invocation. *)
OutputOf(i) ==
    IF i.raw # NoRaw /\ \E r \in raws : r.id = i.raw
      THEN (CHOOSE r \in raws : r.id = i.raw).run
      ELSE NULL

(* The tables, read the way a reader joins them, are a Ledger. *)
EntryOf(i) == [run |-> i.run, ts |-> i.ts, output |-> OutputOf(i)]
Entries == {EntryOf(i) : i \in invs}
Recorded == {p \in Runs : pc[p] = "done"}

L == INSTANCE Ledger WITH entries <- Entries, recorded <- Recorded,
                          InvAge <- LeastInv, RawAge <- LeastRaw
LedgerSpec == L!Spec

=============================================================================
