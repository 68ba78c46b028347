------------------------------- MODULE Explain -------------------------------
(***************************************************************************)
(* `lacon explain <id>` beside the `lacon run` processes of Tracker:       *)
(* commands/explain.rs opens the database read-only and asks it two        *)
(* questions, each in a read transaction of its own - the invocation row,  *)
(* then the raw_outputs row that it names.  WAL readers neither wait for   *)
(* the write lock nor hold it, so writers run between the two.             *)
(***************************************************************************)
EXTENDS Tracker

CONSTANT Readers     \* `lacon explain` processes

VARIABLES reader,    \* Readers -> "idle", "row" (has the row) or "end";
                     \* the labels of `lacon stats` are in Stats
          row,       \* the invocation each one read
          shown,     \* what it told its user
          shownAt    \* and when

rvars == <<reader, row, shown, shownAt>>

(* The answers other than the output of some run. *)
Messages == {"nothing", "was disabled", "no longer available"}

(* Where a reader that runs `lacon stats` instead can be: see Stats. *)
ReportLabels == {"savings", "totals", "unmatched", "filtered", "bypass",
                 "reported", "empty", "failed"}

NoRow == [run |-> NULL, ts |-> 0, raw |-> NoRaw]

ExplainTypeOK ==
    /\ reader \in [Readers -> {"idle", "row", "end"} \cup ReportLabels]
    /\ row \in [Readers -> Invocation \cup {NoRow}]
    /\ shown \in [Readers -> Runs \cup Messages]
    /\ shownAt \in [Readers -> Nat]

ExplainInit ==
    /\ Init
    /\ reader = [x \in Readers |-> "idle"]
    /\ row = [x \in Readers |-> NoRow]
    /\ shown = [x \in Readers |-> "nothing"]
    /\ shownAt = [x \in Readers |-> 0]

Say(x, what) ==
    /\ shown' = [shown EXCEPT ![x] = what]
    /\ shownAt' = [shownAt EXCEPT ![x] = clock]
    /\ reader' = [reader EXCEPT ![x] = "end"]

(* fetch_invocation, and the answer when raw_output_id is NULL.  The user asks
   for any id; the ids of rows that are gone need no step. *)
FetchInvocation(x) ==
    /\ reader[x] = "idle"
    /\ \E i \in invs :
          /\ row' = [row EXCEPT ![x] = i]
          /\ \/ i.raw = NoRaw /\ Say(x, "was disabled")
             \/ /\ i.raw # NoRaw
                /\ reader' = [reader EXCEPT ![x] = "row"]
                /\ UNCHANGED <<shown, shownAt>>
    /\ UNCHANGED vars

(* Mutants: a row that is gone is taken for an empty one; the newest row
   instead of the one asked for. *)
FetchRawOutputEmpty(x) ==
    /\ reader[x] = "row"
    /\ \/ \E r \in raws : r.id = row[x].raw /\ Say(x, r.run)
       \/ (\A r \in raws : r.id # row[x].raw) /\ Say(x, NULL)
    /\ UNCHANGED <<row, vars>>
FetchRawOutputLatest(x) ==
    /\ reader[x] = "row"
    /\ \/ \E r \in raws : (\A s \in raws : s.id <= r.id) /\ Say(x, r.run)
       \/ raws = {} /\ Say(x, "no longer available")
    /\ UNCHANGED <<row, vars>>

(* fetch_raw_output *)
FetchRawOutput(x) ==
    /\ reader[x] = "row"
    /\ \/ \E r \in raws : r.id = row[x].raw /\ Say(x, r.run)
       \/ (\A r \in raws : r.id # row[x].raw) /\ Say(x, "no longer available")
    /\ UNCHANGED <<row, vars>>

ExplainNext ==
    \/ Next /\ UNCHANGED rvars
    \/ \E x \in Readers : FetchInvocation(x) \/ FetchRawOutput(x)

ExplainSpec == ExplainInit /\ [][ExplainNext]_<<vars, rvars>>

ExplainFairSpec ==
    /\ ExplainSpec
    /\ \A p \in Runs : WF_<<vars, rvars>>(Step(p) /\ UNCHANGED rvars)

-----------------------------------------------------------------------------
(* While the raw output of a captured run is inside its retention window,
   explain shows it, and shows that of no other run, whatever is inserted and
   pruned between its two reads; of a run that was not captured it never shows
   any output. *)
ExplainFresh ==
    \A x \in Readers : reader[x] = "end" =>
        LET r == row[x].run IN
        /\ ~cfg[r].captured => shown[x] = "was disabled"
        /\ cfg[r].captured /\ shownAt[x] <= row[x].ts + LeastRaw
              => shown[x] = r

=============================================================================
