---------------------------- MODULE ExplainProofs ----------------------------
(***************************************************************************)
(* Proofs about Explain, for any number of processes and of readers, on    *)
(* top of the invariant of the tables (TrackerProofs).                     *)
(***************************************************************************)
EXTENDS Explain, TrackerProofs

(* A step of the recording side, or of a reader. *)
LEMMA ExplainCases ==
    ASSUME [ExplainNext]_<<vars, rvars>>
    PROVE  \/ [Next]_vars /\ UNCHANGED rvars
           \/ \E x \in Readers : FetchInvocation(x)
           \/ \E x \in Readers : FetchRawOutput(x)
BY DEF ExplainNext, rvars

LEMMA TablesAlways == ASSUME Prompt PROVE ExplainSpec => []TableInv
<1>1. ExplainInit => TableInv
  BY TableInit DEF ExplainInit
<1>2. ASSUME TableInv, [ExplainNext]_<<vars, rvars>>
      PROVE  TableInv'
  <2>1. [Next]_vars
    BY <1>2, ExplainCases DEF FetchInvocation, FetchRawOutput
  <2> QED
    BY <1>2, <2>1, TableStep
<1> QED
  BY <1>1, <1>2, PTL DEF ExplainSpec

-----------------------------------------------------------------------------
(***************************************************************************)
(* What holds of the recorded rows.                                        *)
(***************************************************************************)

(* The output of a captured run is linked while it is in its window, and a run
   that was not captured links to none. *)
CaptureInv ==
    /\ \A p \in Runs : pc[p] = "inv" => (cfg[p].captured <=> rawId[p] # NoRaw)
    /\ \A i \in invs :
          /\ ~cfg[i.run].captured => i.raw = NoRaw
          /\ cfg[i.run].captured /\ clock <= i.ts + LeastRaw => i.raw # NoRaw

(* A stored output leaves the table only after its window, and the config of a
   run does not change. *)
LEMMA RawStays ==
    ASSUME TableInv, [Next]_vars
    PROVE  /\ clock <= clock' /\ cfg' = cfg
           /\ \A r \in raws : r \in raws' \/ r.ts + LeastRaw < clock'
<1> USE WindowsNat DEF TypeOK, Goto, db
<1> TypeOK
  BY DEF TableInv
<1>1. CASE UNCHANGED vars
  BY <1>1 DEF vars
<1>2. CASE Tick
  BY <1>2 DEF Tick
<1>3. ASSUME NEW p \in Runs,
             \/ Begin(p) \/ Open(p) \/ BeginMigrate(p) \/ CommitMigrate(p)
             \/ Throttle(p) \/ Reanchor(p) \/ BeginPrune(p) \/ Marker(p)
             \/ Notice(p) \/ InsertInvocation(p) \/ Fail(p) \/ Crash(p)
      PROVE  clock' = clock /\ cfg' = cfg /\ raws' = raws
  BY <1>3 DEF Begin, Open, BeginMigrate, CommitMigrate, Throttle, Reanchor,
              BeginPrune, Marker, Notice, InsertInvocation, Fail, Crash
<1>4. ASSUME NEW p \in Runs, InsertRaw(p)
      PROVE  clock' = clock /\ cfg' = cfg /\ raws \subseteq raws'
  BY <1>4 DEF InsertRaw
<1>5. ASSUME NEW p \in Runs, CommitPrune(p)
      PROVE  /\ clock' = clock /\ cfg' = cfg
             /\ \A r \in raws : r \in raws' \/ r.ts + LeastRaw < clock'
  <2>1. now[p] <= clock
    BY <1>5 DEF CommitPrune, TableInv, ClockInv
  <2>2. \A r \in raws : r \in raws' \/ r.ts + RawWindow(p) < now[p]
    BY <1>5, WindowOf DEF CommitPrune, Kept, RawOutput
  <2> QED
    BY <1>5, <2>1, <2>2, WindowOf DEF CommitPrune, RawOutput
<1> QED
  BY NextCases, <1>1, <1>2, <1>3, <1>4, <1>5

LEMMA CaptureStep ==
    ASSUME Prompt, TableInv, CaptureInv, [Next]_vars
    PROVE  CaptureInv'
<1> USE WindowsNat DEF TypeOK, Goto, db, Invocation
<1> TypeOK /\ TypeOK'
  BY TypeStep DEF TableInv
<1>1. CASE UNCHANGED vars
  BY <1>1 DEF vars, CaptureInv
<1>2. CASE Tick
  BY <1>2 DEF Tick, CaptureInv
<1>3. ASSUME NEW p \in Runs,
             \/ Begin(p) \/ Open(p) \/ BeginMigrate(p) \/ CommitMigrate(p)
             \/ Throttle(p) \/ Reanchor(p) \/ BeginPrune(p) \/ Marker(p)
             \/ Notice(p) \/ Fail(p) \/ Crash(p)
      PROVE  CaptureInv'
  <2>1. /\ UNCHANGED <<clock, cfg, rawId, invs>>
        /\ \A q \in Runs : pc'[q] = "inv" => pc[q] = "inv"
    BY <1>3 DEF Begin, Open, BeginMigrate, CommitMigrate, Throttle, Reanchor,
                BeginPrune, Marker, Notice, Fail, Crash
  <2> QED
    BY <2>1 DEF CaptureInv
<1>4. ASSUME NEW p \in Runs, InsertRaw(p) PROVE CaptureInv'
  <2>1. rawId[p] = NoRaw
    BY <1>4 DEF InsertRaw, TableInv, RowInv, AtInsert, Finished
  <2>2. cfg[p].captured => cfg[p].store
    BY DEF Config
  <2>3. cfg[p].captured <=> rawId'[p] # NoRaw
    BY <1>4, <2>1, <2>2 DEF InsertRaw, RawIds, NoRaw
  <2>4. \A q \in Runs : q # p => pc'[q] = pc[q] /\ rawId'[q] = rawId[q]
    BY <1>4 DEF InsertRaw
  <2>5. UNCHANGED <<clock, cfg, invs>>
    BY <1>4 DEF InsertRaw
  <2> QED
    BY <2>3, <2>4, <2>5 DEF CaptureInv
<1>5. ASSUME NEW p \in Runs, InsertInvocation(p) PROVE CaptureInv'
  <2>1. cfg[p].captured <=> rawId[p] # NoRaw
    BY <1>5 DEF InsertInvocation, CaptureInv
  <2>2. \A q \in Runs : pc'[q] = "inv" => pc[q] = "inv"
    BY <1>5 DEF InsertInvocation
  <2>3. /\ UNCHANGED <<clock, cfg, rawId>>
        /\ invs' \subseteq invs \cup {[run |-> p, ts |-> now[p], raw |-> rawId[p]]}
    BY <1>5 DEF InsertInvocation
  <2> QED
    BY <2>1, <2>2, <2>3 DEF CaptureInv
<1>6. ASSUME NEW p \in Runs, CommitPrune(p) PROVE CaptureInv'
  <2>1. \A q \in Runs : pc'[q] = "inv" => pc[q] = "inv"
    BY <1>6 DEF CommitPrune
  <2>2. UNCHANGED <<clock, cfg, rawId>>
    BY <1>6 DEF CommitPrune
  <2>3. SUFFICES ASSUME NEW j \in invs'
                 PROVE  /\ ~cfg[j.run].captured => j.raw = NoRaw
                        /\ cfg[j.run].captured /\ clock <= j.ts + LeastRaw
                              => j.raw # NoRaw
    BY <2>1, <2>2 DEF CaptureInv
  <2>4. PICK i \in invs : j = SetNull(i, raws')
    BY <1>6 DEF CommitPrune, Kept
  <2>5. /\ j.run = i.run /\ j.ts = i.ts
        /\ j.raw = IF \E r \in raws' : r.id = i.raw THEN i.raw ELSE NoRaw
    BY <2>4 DEF SetNull
  <2>6. i.raw = NoRaw => j.raw = NoRaw
    BY <2>5
  <2>7. ASSUME i.raw # NoRaw, clock <= i.ts + LeastRaw PROVE j.raw = i.raw
    <3>1. PICK r \in raws : r.id = i.raw /\ r.run = i.run
      BY <2>7 DEF TableInv, LinkInv, LinkedRawIsOwn
    <3>2. r.ts = i.ts
      BY <3>1 DEF TableInv, RowInv
    <3>3. r \in raws'
      BY <2>2, <2>7, <3>2, RawStays DEF RawOutput
    <3> QED
      BY <2>5, <3>1, <3>3
  <2> QED
    BY <2>5, <2>6, <2>7 DEF CaptureInv
<1> QED
  BY NextCases, <1>1, <1>2, <1>3, <1>4, <1>5, <1>6

-----------------------------------------------------------------------------
(***************************************************************************)
(* What a reader holds between its two reads.                              *)
(***************************************************************************)

ReaderInv ==
    /\ ExplainTypeOK
    /\ \A x \in Readers : reader[x] = "row" =>
          /\ row[x] \in Invocation
          /\ cfg[row[x].run].captured
          /\ clock <= row[x].ts + LeastRaw =>
                \E r \in raws : r.id = row[x].raw /\ r.run = row[x].run
                                 /\ r.ts = row[x].ts
    /\ ExplainFresh

FreshInv == TableInv /\ CaptureInv /\ ReaderInv

LEMMA FreshInit == ExplainInit => FreshInv
<1> SUFFICES ASSUME ExplainInit PROVE FreshInv
  OBVIOUS
<1>1. TableInv
  BY TableInit DEF ExplainInit
<1>2. CaptureInv
  BY DEF ExplainInit, Init, CaptureInv
<1>3. ReaderInv
  BY DEF ExplainInit, ReaderInv, ExplainTypeOK, ExplainFresh, Messages
<1> QED
  BY <1>1, <1>2, <1>3 DEF FreshInv

LEMMA FreshStep ==
    ASSUME Prompt, FreshInv, [ExplainNext]_<<vars, rvars>>
    PROVE  FreshInv'
<1> USE WindowsNat DEF FreshInv
<1> TypeOK
  BY DEF TableInv
<1>1. CASE [Next]_vars /\ UNCHANGED rvars
  <2>1. TableInv' /\ CaptureInv'
    BY <1>1, TableStep, CaptureStep
  <2>2. /\ clock <= clock' /\ cfg' = cfg
        /\ \A r \in raws : r \in raws' \/ r.ts + LeastRaw < clock'
    BY <1>1, RawStays
  <2>3. ExplainTypeOK' /\ ExplainFresh'
    BY <1>1, <2>2 DEF ReaderInv, ExplainTypeOK, ExplainFresh, rvars
  <2>4. ASSUME NEW x \in Readers, reader'[x] = "row"
        PROVE  /\ row'[x] \in Invocation
               /\ cfg'[row'[x].run].captured
               /\ clock' <= row'[x].ts + LeastRaw =>
                     \E r \in raws' : r.id = row'[x].raw /\ r.run = row'[x].run
                                       /\ r.ts = row'[x].ts
    <3>1. row' = row /\ reader[x] = "row"
      BY <1>1, <2>4 DEF rvars
    <3>2. row[x] \in Invocation /\ cfg[row[x].run].captured
      BY <3>1 DEF ReaderInv
    <3>3. ASSUME clock' <= row[x].ts + LeastRaw
          PROVE  \E r \in raws' : r.id = row[x].raw /\ r.run = row[x].run
                                   /\ r.ts = row[x].ts
      <4>1. clock \in Nat /\ clock' \in Nat /\ row[x].ts \in Nat
        BY <2>1, <3>2 DEF TableInv, TypeOK, Invocation
      <4>2. clock <= row[x].ts + LeastRaw
        BY <2>2, <3>3, <4>1
      <4>3. PICK r \in raws : r.id = row[x].raw /\ r.run = row[x].run
                              /\ r.ts = row[x].ts
        BY <3>1, <4>2 DEF ReaderInv
      <4>4. r \in raws'
        BY <2>2, <3>3, <4>1, <4>3
      <4> QED
        BY <4>3, <4>4
    <3> QED
      BY <2>2, <3>1, <3>2, <3>3
  <2> QED
    BY <2>1, <2>3, <2>4 DEF ReaderInv
<1>2. ASSUME NEW x \in Readers, FetchInvocation(x) PROVE FreshInv'
  <2>1. UNCHANGED vars
    BY <1>2 DEF FetchInvocation
  <2>2. TableInv' /\ CaptureInv'
    BY <2>1 DEF vars, TableInv, TypeOK, ClockInv, RowInv, LinkInv, WindowInv, InFlight,
                LinkedRawIsOwn, RetentionEnforced, CaptureInv
  <2>3. PICK i \in invs :
            /\ row' = [row EXCEPT ![x] = i]
            /\ \/ i.raw = NoRaw /\ Say(x, "was disabled")
               \/ /\ i.raw # NoRaw
                  /\ reader' = [reader EXCEPT ![x] = "row"]
                  /\ UNCHANGED <<shown, shownAt>>
    BY <1>2 DEF FetchInvocation
  <2>4. i \in Invocation
    BY DEF TypeOK
  <2>5. ExplainTypeOK'
    <3>1. row' \in [Readers -> Invocation \cup {NoRow}]
      BY <2>3, <2>4 DEF ReaderInv, ExplainTypeOK
    <3>2. clock' = clock /\ clock \in Nat
      BY <2>1 DEF vars, TypeOK
    <3>3. CASE Say(x, "was disabled")
      BY <3>1, <3>2, <3>3 DEF ReaderInv, ExplainTypeOK, Say, Messages
    <3>4. CASE reader' = [reader EXCEPT ![x] = "row"] /\ UNCHANGED <<shown, shownAt>>
      BY <3>1, <3>4 DEF ReaderInv, ExplainTypeOK
    <3> QED
      BY <2>3, <3>3, <3>4
  <2>6. \A y \in Readers : y # x =>
            /\ reader'[y] = reader[y] /\ row'[y] = row[y]
            /\ shown'[y] = shown[y] /\ shownAt'[y] = shownAt[y]
    BY <2>3 DEF ReaderInv, ExplainTypeOK, Say
  <2>7. row'[x] = i
    BY <2>3 DEF ReaderInv, ExplainTypeOK
  <2>8. CASE i.raw = NoRaw /\ Say(x, "was disabled")
    <3>1. /\ reader'[x] = "end" /\ shown'[x] = "was disabled" /\ shownAt'[x] = clock
      BY <2>8 DEF Say, ReaderInv, ExplainTypeOK
    <3>2. ~(cfg[i.run].captured /\ clock <= i.ts + LeastRaw)
      BY <2>8 DEF CaptureInv
    <3>3. ExplainFresh'
      BY <2>1, <2>6, <2>7, <3>1, <3>2, ZenonT(60) DEF vars, ReaderInv, ExplainFresh
    <3>4. \A y \in Readers : reader'[y] = "row" =>
              y # x /\ reader[y] = "row" /\ row'[y] = row[y]
      BY <2>6, <3>1
    <3>5. cfg' = cfg /\ clock' = clock /\ raws' = raws
      BY <2>1 DEF vars
    <3>6. ReaderInv'
      BY <2>5, <3>3, <3>4, <3>5 DEF ReaderInv
    <3> QED
      BY <2>2, <3>6
  <2>9. CASE /\ i.raw # NoRaw
             /\ reader' = [reader EXCEPT ![x] = "row"]
             /\ UNCHANGED <<shown, shownAt>>
    <3>1. reader'[x] = "row"
      BY <2>9 DEF ReaderInv, ExplainTypeOK
    <3>2. cfg[i.run].captured
      BY <2>9 DEF CaptureInv
    <3>3. \E r \in raws : r.id = i.raw /\ r.run = i.run /\ r.ts = i.ts
      BY <2>9 DEF TableInv, LinkInv, LinkedRawIsOwn, RowInv
    <3>4. ExplainFresh'
      BY <2>1, <2>6, <3>1, ZenonT(60) DEF vars, ReaderInv, ExplainFresh
    <3> QED
      BY <2>1, <2>2, <2>4, <2>5, <2>6, <2>7, <3>1, <3>2, <3>3, <3>4 DEF vars, ReaderInv
  <2> QED
    BY <2>3, <2>8, <2>9
<1>3. ASSUME NEW x \in Readers, FetchRawOutput(x) PROVE FreshInv'
  <2>1. UNCHANGED <<vars, row>> /\ reader[x] = "row"
    BY <1>3 DEF FetchRawOutput
  <2>2. TableInv' /\ CaptureInv'
    BY <2>1 DEF vars, TableInv, TypeOK, ClockInv, RowInv, LinkInv, WindowInv, InFlight,
                LinkedRawIsOwn, RetentionEnforced, CaptureInv
  <2>3. PICK what \in Runs \cup {"no longer available"} :
            /\ Say(x, what)
            /\ \/ \E r \in raws : r.id = row[x].raw /\ what = r.run
               \/ \A r \in raws : r.id # row[x].raw
    BY <1>3 DEF FetchRawOutput, TypeOK, RawOutput
  <2>4. ExplainTypeOK'
    BY <2>1, <2>3 DEF ReaderInv, ExplainTypeOK, Say, Messages, TypeOK, vars
  <2>5. \A y \in Readers : y # x =>
            /\ reader'[y] = reader[y] /\ shown'[y] = shown[y] /\ shownAt'[y] = shownAt[y]
    BY <2>3 DEF ReaderInv, ExplainTypeOK, Say
  <2>6. reader'[x] = "end" /\ shown'[x] = what /\ shownAt'[x] = clock
    BY <2>3 DEF ReaderInv, ExplainTypeOK, Say
  <2>7. cfg[row[x].run].captured
    BY <2>1 DEF ReaderInv
  <2>8. ASSUME clock <= row[x].ts + LeastRaw PROVE what = row[x].run
    <3>1. PICK r \in raws : r.id = row[x].raw /\ r.run = row[x].run
      BY <2>1, <2>8 DEF ReaderInv
    <3>2. PICK s \in raws : s.id = row[x].raw /\ what = s.run
      BY <2>3, <3>1
    <3>3. r = s
      BY <3>1, <3>2 DEF TableInv, RowInv
    <3> QED
      BY <3>1, <3>2, <3>3
  <2>9. ExplainFresh'
    <3>1. cfg' = cfg /\ clock' = clock /\ row' = row
      BY <2>1 DEF vars
    <3>2. ASSUME NEW y \in Readers, reader'[y] = "end", y # x
          PROVE  LET r == row[y].run IN
                 /\ ~cfg[r].captured => shown'[y] = "was disabled"
                 /\ cfg[r].captured /\ shownAt'[y] <= row[y].ts + LeastRaw
                       => shown'[y] = r
      BY <2>5, <3>2 DEF ReaderInv, ExplainFresh
    <3> QED
      BY <2>6, <2>7, <2>8, <3>1, <3>2 DEF ExplainFresh
  <2> QED
    BY <2>1, <2>2, <2>4, <2>5, <2>6, <2>9 DEF vars, ReaderInv
<1> QED
  BY ExplainCases, <1>1, <1>2, <1>3

(* `lacon explain` shows the output of a captured run, and of no other, while
   that output is inside its retention window - whatever is inserted, pruned
   and given the same rowid between its two reads - and shows none for a run
   that was not captured. *)
THEOREM ExplainFreshAlways == ASSUME Prompt PROVE ExplainSpec => []ExplainFresh
<1>1. FreshInv /\ [ExplainNext]_<<vars, rvars>> => FreshInv'
  BY FreshStep
<1>2. FreshInv => ExplainFresh
  BY DEF FreshInv, ReaderInv
<1> QED
  BY FreshInit, <1>1, <1>2, PTL DEF ExplainSpec
=============================================================================
