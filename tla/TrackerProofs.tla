---------------------------- MODULE TrackerProofs ----------------------------
(***************************************************************************)
(* Proofs about Tracker, for any number of processes, any retention and    *)
(* any number of faults.                                                   *)
(***************************************************************************)
EXTENDS Tracker, TLAPS

LEMMA DaysNat == /\ InvDays * Day \in Nat /\ DefaultInvDays * Day \in Nat
                 /\ RawDays * Day \in Nat /\ DefaultRawDays * Day \in Nat
BY TrackerAssumption

LEMMA WindowsNat == /\ LeastInv \in Nat /\ MostInv \in Nat /\ LeastInv <= MostInv
                    /\ LeastRaw \in Nat /\ MostRaw \in Nat /\ LeastRaw <= MostRaw
BY DaysNat DEF LeastInv, LeastRaw, MostInv, MostRaw, Lesser, Greater

(* The windows of a run are between the bounds. *)
LEMMA WindowOf ==
    ASSUME TypeOK, NEW p \in Runs
    PROVE  /\ InvWindow(p) \in Nat /\ LeastInv <= InvWindow(p) /\ InvWindow(p) <= MostInv
           /\ RawWindow(p) \in Nat /\ LeastRaw <= RawWindow(p) /\ RawWindow(p) <= MostRaw
<1>1. cfg[p].valid \/ BrokenConfigs
  BY DEF TypeOK, Config
<1>2. /\ InvWindow(p) = IF cfg[p].valid THEN InvDays * Day ELSE DefaultInvDays * Day
      /\ RawWindow(p) = IF cfg[p].valid THEN RawDays * Day ELSE DefaultRawDays * Day
  BY DEF InvWindow, RawWindow
<1> QED
  BY <1>1, <1>2, DaysNat DEF LeastInv, LeastRaw, MostInv, MostRaw, Lesser, Greater

(* Each action of one process, by name. *)
LEMMA NextCases ==
    ASSUME [Next]_vars
    PROVE  \/ UNCHANGED vars
           \/ Tick
           \/ \E p \in Runs :
                 \/ Begin(p) \/ Open(p) \/ BeginMigrate(p) \/ CommitMigrate(p)
                 \/ Throttle(p) \/ Reanchor(p) \/ BeginPrune(p) \/ CommitPrune(p)
                 \/ Marker(p) \/ Notice(p) \/ InsertRaw(p) \/ InsertInvocation(p)
                 \/ Fail(p) \/ Crash(p)
BY Zenon DEF Next, Step

LEMMA TypeInit == Init => TypeOK
BY TrackerAssumption DEF Init, TypeOK, Labels, Finished, TARGET_VERSION, NoRaw

LEMMA TypeStep ==
    ASSUME TypeOK, [Next]_vars
    PROVE  TypeOK'
<1> USE TrackerAssumption, WindowsNat DEF TypeOK, Labels, Finished, Goto, db
<1>1. CASE UNCHANGED vars
  BY <1>1 DEF vars
<1>2. CASE Tick
  BY <1>2 DEF Tick
<1>3. ASSUME NEW p \in Runs, Begin(p) PROVE TypeOK'
  BY <1>3 DEF Begin
<1>4. ASSUME NEW p \in Runs, Open(p) PROVE TypeOK'
  BY <1>4 DEF Open
<1>5. ASSUME NEW p \in Runs, BeginMigrate(p) PROVE TypeOK'
  BY <1>5 DEF BeginMigrate
<1>6. ASSUME NEW p \in Runs, CommitMigrate(p) PROVE TypeOK'
  BY <1>6 DEF CommitMigrate, TARGET_VERSION
<1>7. ASSUME NEW p \in Runs, Throttle(p) PROVE TypeOK'
  BY <1>7 DEF Throttle
<1>8. ASSUME NEW p \in Runs, Reanchor(p) PROVE TypeOK'
  BY <1>8 DEF Reanchor
<1>9. ASSUME NEW p \in Runs, BeginPrune(p) PROVE TypeOK'
  BY <1>9 DEF BeginPrune
<1>10. ASSUME NEW p \in Runs, CommitPrune(p) PROVE TypeOK'
  <2>1. raws' \subseteq RawOutput
    BY <1>10 DEF CommitPrune, Kept
  <2>2. \A i \in Invocation : SetNull(i, raws') \in Invocation
    BY DEF SetNull, Invocation, NoRaw
  <2>3. invs' \subseteq Invocation
    <3>1. invs' = {SetNull(i, raws') : i \in Kept(invs, InvWindow(p), now[p])}
      BY <1>10 DEF CommitPrune
    <3> QED
      BY <2>2, <3>1 DEF Kept
  <2> QED
    BY <1>10, <2>1, <2>3 DEF CommitPrune
<1>11. ASSUME NEW p \in Runs, Marker(p) PROVE TypeOK'
  <2>1. cfg[p].layer \in Layers
    BY DEF Config
  <2> QED
    BY <1>11, <2>1 DEF Marker
<1>12. ASSUME NEW p \in Runs, Notice(p) PROVE TypeOK'
  <2>1. cfg[p].layer \in Layers
    BY DEF Config
  <2>2. notices' \in [Layers -> Nat]
    BY <1>12, <2>1 DEF Notice
  <2> QED
    BY <1>12, <2>2 DEF Notice
<1>13. ASSUME NEW p \in Runs, InsertRaw(p) PROVE TypeOK'
  <2>1. CASE \E id \in RawIds :
              /\ raws' = raws \cup {[id |-> id, run |-> p, ts |-> now[p]]}
              /\ rawId' = [rawId EXCEPT ![p] = id]
    <3>1. PICK id \in RawIds :
              /\ raws' = raws \cup {[id |-> id, run |-> p, ts |-> now[p]]}
              /\ rawId' = [rawId EXCEPT ![p] = id]
      BY <2>1
    <3>2. id \in Nat
      BY DEF RawIds
    <3> QED
      BY <1>13, <3>1, <3>2 DEF InsertRaw, RawOutput
  <2>2. CASE UNCHANGED <<raws, rawId>>
    BY <1>13, <2>2 DEF InsertRaw
  <2> QED
    BY <1>13, <2>1, <2>2 DEF InsertRaw
<1>14. ASSUME NEW p \in Runs, InsertInvocation(p) PROVE TypeOK'
  BY <1>14 DEF InsertInvocation, Invocation
<1>15. ASSUME NEW p \in Runs, Fail(p) PROVE TypeOK'
  BY <1>15 DEF Fail, Release
<1>16. ASSUME NEW p \in Runs, Crash(p) PROVE TypeOK'
  BY <1>16 DEF Crash, Release
<1> QED
  BY NextCases, <1>1, <1>2, <1>3, <1>4, <1>5, <1>6, <1>7, <1>8, <1>9, <1>10,
     <1>11, <1>12, <1>13, <1>14, <1>15, <1>16

(* The variables keep their types: in particular a rowid, a timestamp and a
   link are numbers, and every row belongs to a run. *)
THEOREM TypeCorrect == Spec => []TypeOK
<1>1. TypeOK /\ [Next]_vars => TypeOK'
  BY TypeStep
<1> QED
  BY TypeInit, <1>1, PTL DEF Spec

-----------------------------------------------------------------------------
(***************************************************************************)
(* The inductive invariant behind the properties of the two tables.        *)
(***************************************************************************)

(* A process that is late by no more than the shortest retention window: the
   assumption under which the code's own rows are safe from the prunes of the
   others.  raw_outputs_days = 0 is legal in the config, and breaks it. *)
Prompt == MaxStall <= LeastRaw /\ MaxStall <= LeastInv

AtInsert == {"inv"} \cup Finished

ClockInv ==
    /\ lastPruned <= clock
    /\ \A p \in Runs : pc[p] # "running" => now[p] <= clock
    /\ \A p \in Runs : InFlight(p) => clock <= now[p] + MaxStall

(* Rowids are keys, and the rows of a run carry its time and its id. *)
RowInv ==
    /\ \A r, s \in raws : r.id = s.id => r = s
    /\ \A r \in raws : /\ r.ts = now[r.run]
                       /\ r.id = rawId[r.run]
                       /\ r.id # NoRaw
                       /\ pc[r.run] \in AtInsert
    /\ \A i \in invs : i.ts = now[i.run] /\ pc[i.run] = "done"
    /\ \A p \in Runs : pc[p] \notin AtInsert => rawId[p] = NoRaw

(* The raw row of a run that is about to insert its invocation is there. *)
LinkInv ==
    /\ LinkedRawIsOwn
    /\ \A p \in Runs : pc[p] = "inv" /\ rawId[p] # NoRaw =>
          \E r \in raws : r.id = rawId[p] /\ r.run = p

(* A process on its way to move last_pruned_ts back read a value that is in
   force for every row, the ones inserted since then included. *)
WindowInv ==
    /\ RetentionEnforced
    /\ \A p \in Runs : pc[p] = "reanchor" =>
          /\ \A i \in invs : now[p] <= i.ts + MostInv
          /\ \A r \in raws : now[p] <= r.ts + MostRaw

TableInv == TypeOK /\ ClockInv /\ RowInv /\ LinkInv /\ WindowInv

LEMMA TableInit == Init => TableInv
BY TrackerAssumption, WindowsNat, TypeInit
   DEF Init, TableInv, TypeOK, ClockInv, RowInv, LinkInv, WindowInv, InFlight,
       AtInsert, Finished, LinkedRawIsOwn, RetentionEnforced, TARGET_VERSION

(* A step that moves one process on and touches no row: what every step but
   Begin, the writes and the clock comes to, faults included. *)
LEMMA QuietStep ==
    ASSUME TableInv, TypeOK', NEW p \in Runs, NEW l \in Labels,
           UNCHANGED <<clock, lastPruned, invs, raws, now, rawId>>,
           pc' = [pc EXCEPT ![p] = l],
           InFlight(p), l # "running",
           pc[p] = "inv" => l \in {"lost", "dead"},
           l = "inv" => rawId[p] = NoRaw,
           l = "reanchor" => now[p] < lastPruned
    PROVE  TableInv'
<1> USE WindowsNat DEF TypeOK, InFlight, AtInsert, Finished
<1>1. ClockInv'
  BY DEF TableInv, ClockInv
<1>2. RowInv'
  BY DEF TableInv, RowInv
<1>3. LinkInv'
  BY DEF TableInv, RowInv, LinkInv, LinkedRawIsOwn
<1>4. WindowInv'
  <2>1. RetentionEnforced'
    BY DEF TableInv, WindowInv, RetentionEnforced
  <2>2. ASSUME NEW q \in Runs, pc'[q] = "reanchor"
        PROVE  /\ \A i \in invs : now[q] <= i.ts + MostInv
               /\ \A r \in raws : now[q] <= r.ts + MostRaw
    <3>1. CASE q # p
      BY <2>2, <3>1 DEF TableInv, WindowInv
    <3>2. CASE q = p
      <4>1. now[p] < lastPruned
        BY <2>2, <3>2
      <4> QED
        BY <3>2, <4>1 DEF TableInv, WindowInv, RetentionEnforced, Invocation, RawOutput
    <3> QED
      BY <3>1, <3>2
  <2> QED
    BY <2>1, <2>2 DEF WindowInv
<1> QED
  BY <1>1, <1>2, <1>3, <1>4 DEF TableInv

LEMMA TableStep ==
    ASSUME Prompt, TableInv, [Next]_vars
    PROVE  TableInv'
<1> TypeOK /\ TypeOK'
  BY TypeStep DEF TableInv
<1> USE TrackerAssumption, WindowsNat DEF TypeOK
<1>1. CASE UNCHANGED vars
  BY <1>1 DEF vars, TableInv, ClockInv, RowInv, LinkInv, WindowInv, InFlight,
              LinkedRawIsOwn, RetentionEnforced
<1>2. CASE Tick
  BY <1>2 DEF Tick, db, TableInv, ClockInv, RowInv, LinkInv, WindowInv, InFlight,
              LinkedRawIsOwn, RetentionEnforced
<1>3. ASSUME NEW p \in Runs, Begin(p) PROVE TableInv'
  <2> USE <1>3 DEF Begin, Goto, db, InFlight, AtInsert, Finished
  <2>1. \A r \in raws : r.run # p
    BY DEF TableInv, RowInv
  <2>2. \A i \in invs : i.run # p
    BY DEF TableInv, RowInv
  <2>3. ClockInv'
    BY DEF TableInv, ClockInv
  <2>4. RowInv'
    BY <2>1, <2>2 DEF TableInv, RowInv, RawOutput, Invocation
  <2>5. LinkInv'
    BY DEF TableInv, LinkInv, LinkedRawIsOwn
  <2>6. WindowInv'
    BY DEF TableInv, WindowInv, RetentionEnforced
  <2> QED
    BY <2>3, <2>4, <2>5, <2>6 DEF TableInv
<1>4. ASSUME NEW p \in Runs, Open(p) PROVE TableInv'
  BY <1>4, QuietStep DEF Open, Goto, db, Labels, InFlight, Finished
<1>5. ASSUME NEW p \in Runs, BeginMigrate(p) PROVE TableInv'
  BY <1>5, QuietStep DEF BeginMigrate, Goto, db, Labels, InFlight, Finished
<1>6. ASSUME NEW p \in Runs, CommitMigrate(p) PROVE TableInv'
  <2>1. CASE version = 0
    <3> USE <1>6, <2>1 DEF CommitMigrate, Goto, InFlight, AtInsert, Finished
    <3>1. ClockInv'
      BY DEF TableInv, ClockInv
    <3>2. RowInv'
      <4>1. \A q \in Runs : q # p => pc'[q] = pc[q]
        OBVIOUS
      <4>2. \A r \in raws : r.run # p /\ r.run \in Runs
        BY DEF TableInv, RowInv, RawOutput
      <4>3. \A i \in invs : i.run # p /\ i.run \in Runs
        BY DEF TableInv, RowInv, Invocation
      <4> QED
        BY <4>1, <4>2, <4>3 DEF TableInv, RowInv
    <3>3. LinkInv'
      BY DEF TableInv, LinkInv, LinkedRawIsOwn
    <3>4. WindowInv'
      BY DEF TableInv, WindowInv, RetentionEnforced, Invocation, RawOutput
    <3> QED
      BY <3>1, <3>2, <3>3, <3>4 DEF TableInv
  <2>2. CASE version # 0
    BY <1>6, <2>2, QuietStep DEF CommitMigrate, Goto, Labels, InFlight, Finished
  <2> QED
    BY <2>1, <2>2
<1>7. ASSUME NEW p \in Runs, Throttle(p) PROVE TableInv'
  <2>1. CASE lastPruned > now[p] /\ Goto(p, "reanchor")
    BY <1>7, <2>1, QuietStep DEF Throttle, Goto, db, Labels, InFlight, Finished
  <2>2. CASE Goto(p, "marker")
    BY <1>7, <2>2, QuietStep DEF Throttle, Goto, db, Labels, InFlight, Finished
  <2>3. CASE Goto(p, "prune")
    BY <1>7, <2>3, QuietStep DEF Throttle, Goto, db, Labels, InFlight, Finished
  <2> QED
    BY <1>7, <2>1, <2>2, <2>3 DEF Throttle
<1>8. ASSUME NEW p \in Runs, Reanchor(p) PROVE TableInv'
  <2> USE <1>8 DEF Reanchor, Goto, InFlight, AtInsert, Finished
  <2>1. ClockInv'
    BY DEF TableInv, ClockInv
  <2>2. RowInv'
    BY DEF TableInv, RowInv
  <2>3. LinkInv'
    BY DEF TableInv, LinkInv, LinkedRawIsOwn
  <2>4. WindowInv'
    BY DEF TableInv, WindowInv, RetentionEnforced
  <2> QED
    BY <2>1, <2>2, <2>3, <2>4 DEF TableInv
<1>9. ASSUME NEW p \in Runs, BeginPrune(p) PROVE TableInv'
  BY <1>9, QuietStep DEF BeginPrune, Goto, db, Labels, InFlight, Finished
<1>10. ASSUME NEW p \in Runs, CommitPrune(p) PROVE TableInv'
  <2> USE <1>10, WindowOf DEF CommitPrune, Goto, InFlight, AtInsert, Finished
  <2>1. raws' \subseteq raws /\ \A r \in raws : r \in raws' <=> now[p] <= r.ts + RawWindow(p)
    BY DEF Kept
  <2>2. \A j \in invs' : \E i \in invs :
            /\ j.run = i.run /\ j.ts = i.ts
            /\ now[p] <= i.ts + InvWindow(p)
            /\ j.raw # NoRaw => j.raw = i.raw /\ \E r \in raws' : r.id = j.raw
    BY DEF Kept, SetNull, Invocation
  <2>3. ClockInv'
    BY DEF TableInv, ClockInv
  <2>4. RowInv'
    <3>1. \A r \in raws' : /\ r.ts = now'[r.run] /\ r.id = rawId'[r.run]
                           /\ r.id # NoRaw /\ pc'[r.run] \in AtInsert
      BY <2>1 DEF TableInv, RowInv, RawOutput
    <3>2. \A j \in invs' : j.ts = now'[j.run] /\ pc'[j.run] = "done"
      BY <2>2 DEF TableInv, RowInv, Invocation
    <3>3. \A q \in Runs : pc'[q] \notin AtInsert => rawId'[q] = NoRaw
      BY DEF TableInv, RowInv
    <3>4. \A r, s \in raws' : r.id = s.id => r = s
      BY <2>1 DEF TableInv, RowInv
    <3> QED
      BY <3>1, <3>2, <3>3, <3>4 DEF RowInv
  <2>5. LinkedRawIsOwn'
    <3> SUFFICES ASSUME NEW j \in invs', j.raw # NoRaw
                 PROVE  \E r \in raws' : r.id = j.raw /\ r.run = j.run
      BY DEF LinkedRawIsOwn
    <3>1. PICK i \in invs : j.run = i.run /\ j.raw = i.raw
      BY <2>2
    <3>2. PICK r \in raws' : r.id = j.raw
      BY <2>2
    <3>3. PICK s \in raws : s.id = i.raw /\ s.run = i.run
      BY <3>1 DEF TableInv, LinkInv, LinkedRawIsOwn
    <3>4. r = s
      BY <2>1, <3>1, <3>2, <3>3 DEF TableInv, RowInv
    <3> QED
      BY <3>1, <3>2, <3>3, <3>4
  <2>6. LinkInv'
    <3> SUFFICES ASSUME NEW q \in Runs, pc'[q] = "inv", rawId'[q] # NoRaw
                 PROVE  \E r \in raws' : r.id = rawId'[q] /\ r.run = q
      BY <2>5 DEF LinkInv
    <3>1. pc[q] = "inv"
      OBVIOUS
    <3>2. PICK r \in raws : r.id = rawId[q] /\ r.run = q
      BY <3>1 DEF TableInv, LinkInv
    <3>3. now[p] <= clock /\ clock <= now[q] + MaxStall
      BY <3>1 DEF TableInv, ClockInv
    <3>4. now[p] <= r.ts + RawWindow(p)
      BY <3>2, <3>3 DEF TableInv, RowInv, RawOutput, Prompt
    <3> QED
      BY <2>1, <3>2, <3>4
  <2>7. WindowInv'
    <3>1. RetentionEnforced'
      <4>1. \A j \in invs' : now[p] <= j.ts + MostInv
        BY <2>2 DEF Invocation
      <4>2. \A r \in raws' : now[p] <= r.ts + MostRaw
        BY <2>1 DEF RawOutput
      <4> QED
        BY <4>1, <4>2 DEF RetentionEnforced
    <3>2. \A q \in Runs : pc'[q] = "reanchor" => pc[q] = "reanchor" /\ now'[q] = now[q]
      OBVIOUS
    <3> QED
      BY <2>1, <2>2, <3>1, <3>2 DEF TableInv, WindowInv
  <2> QED
    BY <2>3, <2>4, <2>6, <2>7 DEF TableInv
<1>11. ASSUME NEW p \in Runs, Marker(p) PROVE TableInv'
  BY <1>11, QuietStep DEF Marker, Goto, db, Labels, InFlight, Finished
<1>12. ASSUME NEW p \in Runs, Notice(p) PROVE TableInv'
  BY <1>12, QuietStep DEF Notice, Goto, db, Labels, InFlight, Finished
<1>13. ASSUME NEW p \in Runs, InsertRaw(p) PROVE TableInv'
  <2> USE <1>13 DEF InsertRaw, Goto, InFlight, AtInsert, Finished
  <2>1. rawId[p] = NoRaw
    BY DEF TableInv, RowInv
  <2>2. CASE UNCHANGED <<raws, rawId>>
    BY <2>1, <2>2, QuietStep DEF Labels
  <2>3. CASE \E id \in RawIds : IsNextId(id, raws)
                 /\ raws' = raws \cup {[id |-> id, run |-> p, ts |-> now[p]]}
                 /\ rawId' = [rawId EXCEPT ![p] = id]
    <3>1. PICK id \in RawIds : IsNextId(id, raws)
                 /\ raws' = raws \cup {[id |-> id, run |-> p, ts |-> now[p]]}
                 /\ rawId' = [rawId EXCEPT ![p] = id]
      BY <2>3
    <3> DEFINE new == [id |-> id, run |-> p, ts |-> now[p]]
    <3>2. id \in Nat /\ id # NoRaw /\ \A r \in raws : r.id < id
      BY <3>1 DEF RawIds, IsNextId, NoRaw
    <3>3. \A r \in raws : r.id # id /\ r.run # p
      BY <3>2 DEF TableInv, RowInv, RawOutput
    <3>4. ClockInv'
      BY DEF TableInv, ClockInv
    <3>5. RowInv'
      <4>1. \A r, s \in raws' : r.id = s.id => r = s
        BY <3>1, <3>3 DEF TableInv, RowInv
      <4>2. \A r \in raws' : /\ r.ts = now'[r.run] /\ r.id = rawId'[r.run]
                             /\ r.id # NoRaw /\ pc'[r.run] \in AtInsert
        BY <3>1, <3>2, <3>3 DEF TableInv, RowInv, RawOutput
      <4>3. \A i \in invs' : i.ts = now'[i.run] /\ pc'[i.run] = "done"
        BY DEF TableInv, RowInv, Invocation
      <4>4. \A q \in Runs : pc'[q] \notin AtInsert => rawId'[q] = NoRaw
        BY <3>1 DEF TableInv, RowInv
      <4> QED
        BY <4>1, <4>2, <4>3, <4>4 DEF RowInv
    <3>6. LinkInv'
      <4>1. LinkedRawIsOwn'
        BY <3>1 DEF TableInv, LinkInv, LinkedRawIsOwn
      <4>2. \A q \in Runs : pc'[q] = "inv" /\ rawId'[q] # NoRaw =>
                \E r \in raws' : r.id = rawId'[q] /\ r.run = q
        <5> SUFFICES ASSUME NEW q \in Runs, pc'[q] = "inv", rawId'[q] # NoRaw
                     PROVE  \E r \in raws' : r.id = rawId'[q] /\ r.run = q
          OBVIOUS
        <5>1. CASE q = p
          <6>1. new \in raws' /\ new.id = rawId'[q] /\ new.run = q
            BY <3>1, <5>1
          <6> QED
            BY <6>1
        <5>2. CASE q # p
          <6>1. pc[q] = "inv" /\ rawId'[q] = rawId[q]
            BY <3>1, <5>2
          <6> QED
            BY <3>1, <6>1 DEF TableInv, LinkInv
        <5> QED
          BY <5>1, <5>2
      <4> QED
        BY <4>1, <4>2 DEF LinkInv
    <3>7. WindowInv'
      <4>1. lastPruned <= now[p] + MostRaw
        BY DEF TableInv, ClockInv, Prompt
      <4>2. \A q \in Runs : pc'[q] = "reanchor" => now[q] <= now[p] + MostRaw
        BY DEF TableInv, ClockInv, Prompt
      <4> QED
        BY <3>1, <4>1, <4>2 DEF TableInv, WindowInv, RetentionEnforced
    <3> QED
      BY <3>4, <3>5, <3>6, <3>7 DEF TableInv
  <2> QED
    BY <2>2, <2>3
<1>14. ASSUME NEW p \in Runs, InsertInvocation(p) PROVE TableInv'
  <2>1. CASE Goto(p, "done") /\ invs' = invs \cup {[run |-> p, ts |-> now[p], raw |-> rawId[p]]}
    <3> USE <1>14, <2>1 DEF InsertInvocation, Goto, InFlight, AtInsert, Finished
    <3>1. ClockInv'
      BY DEF TableInv, ClockInv
    <3>2. RowInv'
      BY DEF TableInv, RowInv, RawOutput, Invocation
    <3>3. LinkInv'
      BY DEF TableInv, LinkInv, LinkedRawIsOwn
    <3>4. WindowInv'
      <4>1. lastPruned <= now[p] + MostInv
        BY DEF TableInv, ClockInv, Prompt
      <4>2. \A q \in Runs : pc'[q] = "reanchor" => now[q] <= now[p] + MostInv
        BY DEF TableInv, ClockInv, Prompt
      <4> QED
        BY <4>1, <4>2 DEF TableInv, WindowInv, RetentionEnforced
    <3> QED
      BY <3>1, <3>2, <3>3, <3>4 DEF TableInv
  <2>2. CASE Goto(p, "lost") /\ UNCHANGED invs
    BY <1>14, <2>2, QuietStep DEF InsertInvocation, Goto, Labels, InFlight, Finished
  <2> QED
    BY <1>14, <2>1, <2>2 DEF InsertInvocation
<1>15. ASSUME NEW p \in Runs, Fail(p) PROVE TableInv'
  BY <1>15, QuietStep DEF Fail, Goto, db, Labels, InFlight, Finished
<1>16. ASSUME NEW p \in Runs, Crash(p) PROVE TableInv'
  BY <1>16, QuietStep DEF Crash, Goto, db, Labels, InFlight, Finished
<1> QED
  BY NextCases, <1>1, <1>2, <1>3, <1>4, <1>5, <1>6, <1>7, <1>8, <1>9, <1>10,
     <1>11, <1>12, <1>13, <1>14, <1>15, <1>16

LEMMA TableAlways == ASSUME Prompt PROVE Spec => []TableInv
<1>1. TableInv /\ [Next]_vars => TableInv'
  BY TableStep
<1> QED
  BY TableInit, <1>1, PTL DEF Spec

(* A process that is prompt never finds the output of another run behind its
   raw_output_id, and no prune or rowid reuse puts it there later. *)
THEOREM LinkedRawIsOwnAlways == ASSUME Prompt PROVE Spec => []LinkedRawIsOwn
<1>1. TableInv => LinkedRawIsOwn
  BY DEF TableInv, LinkInv
<1> QED
  BY TableAlways, <1>1, PTL

(* No row outlives its window as of the last prune the database admits to. *)
THEOREM RetentionAlways == ASSUME Prompt PROVE Spec => []RetentionEnforced
<1>1. TableInv => RetentionEnforced
  BY DEF TableInv, WindowInv
<1> QED
  BY TableAlways, <1>1, PTL

-----------------------------------------------------------------------------
LEMMA LostStep ==
    ASSUME TableInv, LostOnlyToFault, [Next]_vars
    PROVE  LostOnlyToFault'
<1> USE TrackerAssumption DEF TypeOK, TableInv, LostOnlyToFault, Goto, db
<1>1. CASE UNCHANGED vars \/ Tick
  BY <1>1 DEF vars, Tick
<1>2. ASSUME NEW p \in Runs, Begin(p) \/ Open(p) \/ BeginMigrate(p) \/ CommitMigrate(p)
      PROVE  LostOnlyToFault'
  BY <1>2 DEF Begin, Open, BeginMigrate, CommitMigrate
<1>3. ASSUME NEW p \in Runs, Throttle(p) \/ Reanchor(p) \/ BeginPrune(p) \/ CommitPrune(p)
      PROVE  LostOnlyToFault'
  BY <1>3 DEF Throttle, Reanchor, BeginPrune, CommitPrune
<1>4. ASSUME NEW p \in Runs, Marker(p) \/ Notice(p) \/ InsertRaw(p)
      PROVE  LostOnlyToFault'
  BY <1>4 DEF Marker, Notice, InsertRaw
<1>5. ASSUME NEW p \in Runs, InsertInvocation(p) PROVE LostOnlyToFault'
  <2>1. Goto(p, "done")
    BY <1>5 DEF InsertInvocation, LinkInv
  <2> QED
    BY <1>5, <2>1 DEF InsertInvocation
<1>6. ASSUME NEW p \in Runs, Fail(p) \/ Crash(p) PROVE LostOnlyToFault'
  BY <1>6 DEF Fail, Crash
<1> QED
  BY NextCases, <1>1, <1>2, <1>3, <1>4, <1>5, <1>6

(* The recording of a prompt process that has a schema fails only if something
   around it does: the foreign key never rejects its own row. *)
THEOREM LostOnlyToFaultAlways == ASSUME Prompt PROVE Spec => []LostOnlyToFault
<1>1. Init => LostOnlyToFault
  BY DEF Init, LostOnlyToFault
<1>2. TableInv /\ LostOnlyToFault /\ [Next]_vars => LostOnlyToFault'
  BY LostStep
<1> QED
  BY TableAlways, <1>1, <1>2, PTL DEF Spec

-----------------------------------------------------------------------------
(* The config and its defaults keep raw outputs no longer than invocations. *)
RawKeptShorter == /\ RawDays * Day <= InvDays * Day
                  /\ DefaultRawDays * Day <= DefaultInvDays * Day

LEMMA OrphanStep ==
    ASSUME Prompt, RawKeptShorter, TableInv, OrphanOnlyAfterFault, [Next]_vars
    PROVE  OrphanOnlyAfterFault'
<1> USE WindowsNat DEF TypeOK, TableInv, OrphanOnlyAfterFault, Goto, db
<1>1. CASE UNCHANGED vars \/ Tick
  BY <1>1 DEF vars, Tick
<1>2. ASSUME NEW p \in Runs, NEW l \in Labels, Goto(p, l),
             UNCHANGED <<invs, raws>>,
             pc[p] = "inv" => l \in {"lost", "dead"},
             InFlight(p) \/ pc[p] = "running"
      PROVE  OrphanOnlyAfterFault'
  BY <1>2 DEF RowInv, AtInsert, Finished, RawOutput, InFlight
<1>3. ASSUME NEW p \in Runs,
             \/ Begin(p) \/ Open(p) \/ BeginMigrate(p) \/ CommitMigrate(p)
             \/ Throttle(p) \/ Reanchor(p) \/ BeginPrune(p) \/ Marker(p)
             \/ Notice(p)
      PROVE  OrphanOnlyAfterFault'
  <2>1. /\ UNCHANGED <<invs, raws>>
        /\ InFlight(p) \/ pc[p] = "running"
        /\ pc[p] # "inv"
        /\ \E l \in Labels : Goto(p, l)
    BY <1>3 DEF Begin, Open, BeginMigrate, CommitMigrate, Throttle, Reanchor,
                BeginPrune, Marker, Notice, Labels, InFlight, Finished
  <2> QED
    BY <2>1, <1>2
<1>4. ASSUME NEW p \in Runs, Fail(p) \/ Crash(p)
      PROVE  OrphanOnlyAfterFault'
  <2>1. /\ UNCHANGED <<invs, raws>>
        /\ InFlight(p)
        /\ \E l \in Labels : Goto(p, l) /\ (pc[p] = "inv" => l \in {"lost", "dead"})
    BY <1>4 DEF Fail, Crash, Labels, InFlight, Finished
  <2> QED
    BY <2>1, <1>2
<1>5. ASSUME NEW p \in Runs, CommitPrune(p) PROVE OrphanOnlyAfterFault'
  <2> USE <1>5 DEF CommitPrune
  <2> SUFFICES ASSUME NEW r \in raws', pc'[r.run] \notin {"inv", "lost", "dead"}
               PROVE  \E j \in invs' : j.raw = r.id
    OBVIOUS
  <2>1. r \in raws /\ now[p] <= r.ts + RawWindow(p)
    BY DEF Kept
  <2>2. pc[r.run] \notin {"inv", "lost", "dead"}
    BY <2>1 DEF RawOutput
  <2>3. PICK i \in invs : i.raw = r.id
    BY <2>1, <2>2
  <2>4. PICK s \in raws : s.id = i.raw /\ s.run = i.run
    BY <2>1, <2>3 DEF RowInv, LinkInv, LinkedRawIsOwn
  <2>5. i.run = r.run
    BY <2>1, <2>3, <2>4 DEF RowInv
  <2>6. i.ts = r.ts
    BY <2>1, <2>5 DEF RowInv
  <2>0. /\ RawWindow(p) \in Nat /\ InvWindow(p) \in Nat
        /\ RawWindow(p) <= InvWindow(p)
    <3>1. /\ RawWindow(p) \in Nat /\ InvWindow(p) \in Nat
      BY WindowOf
    <3>2. /\ InvWindow(p) = IF cfg[p].valid THEN InvDays * Day ELSE DefaultInvDays * Day
          /\ RawWindow(p) = IF cfg[p].valid THEN RawDays * Day ELSE DefaultRawDays * Day
      BY DEF InvWindow, RawWindow
    <3> QED
      BY <3>1, <3>2, DaysNat DEF RawKeptShorter
  <2>7. i \in Kept(invs, InvWindow(p), now[p])
    BY <2>0, <2>1, <2>6 DEF Kept, RawOutput, Invocation
  <2>8. SetNull(i, raws').raw = r.id
    BY <2>3 DEF SetNull, Invocation
  <2> QED
    BY <2>7, <2>8
<1>6. ASSUME NEW p \in Runs, InsertRaw(p) PROVE OrphanOnlyAfterFault'
  BY <1>6 DEF InsertRaw, RawOutput
<1>7. ASSUME NEW p \in Runs, InsertInvocation(p) PROVE OrphanOnlyAfterFault'
  <2>1. CASE Goto(p, "lost") /\ UNCHANGED invs
    BY <1>7, <2>1, <1>2 DEF InsertInvocation, Labels, Finished, InFlight
  <2>2. CASE /\ Goto(p, "done")
             /\ invs' = invs \cup {[run |-> p, ts |-> now[p], raw |-> rawId[p]]}
    <3> DEFINE new == [run |-> p, ts |-> now[p], raw |-> rawId[p]]
    <3> SUFFICES ASSUME NEW r \in raws, pc'[r.run] \notin {"inv", "lost", "dead"}
                 PROVE  \E j \in invs' : j.raw = r.id
      BY <1>7, <2>2 DEF InsertInvocation
    <3>1. CASE r.run = p
      <4>1. new.raw = r.id /\ new \in invs'
        BY <2>2, <3>1 DEF RowInv
      <4> QED
        BY <4>1
    <3>2. CASE r.run # p
      BY <2>2, <3>2 DEF RawOutput
    <3> QED
      BY <3>1, <3>2
  <2> QED
    BY <1>7, <2>1, <2>2 DEF InsertInvocation
<1> QED
  BY NextCases, <1>1, <1>3, <1>4, <1>5, <1>6, <1>7

(* Where raw outputs are kept no longer than invocations, raw bytes without an
   invocation are only what a fault between the two inserts leaves. *)
THEOREM OrphanOnlyAfterFaultAlways ==
    ASSUME Prompt, RawKeptShorter
    PROVE  Spec => []OrphanOnlyAfterFault
<1>1. Init => OrphanOnlyAfterFault
  BY DEF Init, OrphanOnlyAfterFault
<1>2. TableInv /\ OrphanOnlyAfterFault /\ [Next]_vars => OrphanOnlyAfterFault'
  BY OrphanStep
<1> QED
  BY TableAlways, <1>1, <1>2, PTL DEF Spec

-----------------------------------------------------------------------------
(* The marker of a layer has one creator, and it alone owes the notice. *)
MarkerInv ==
    /\ \A l \in Layers : l \notin acked => notices[l] = 0
    /\ \A p \in Runs : pc[p] = "notice" =>
          cfg[p].layer \in acked /\ notices[cfg[p].layer] = 0
    /\ \A p, q \in Runs :
          pc[p] = "notice" /\ pc[q] = "notice" /\ cfg[p].layer = cfg[q].layer
             => p = q
    /\ \A p \in Runs : pc[p] = "raw" /\ cfg[p].store => cfg[p].layer \in acked
    /\ \A r \in raws : cfg[r.run].layer \in acked
    /\ \A l \in acked : \/ notices[l] = 1
                        \/ faults > 0
                        \/ \E q \in Runs : pc[q] = "notice" /\ cfg[q].layer = l
    /\ \A l \in Layers : notices[l] <= 1

LEMMA MarkerImplies == TypeOK /\ MarkerInv => NoticeOnce
BY DEF TypeOK, MarkerInv, NoticeOnce

LEMMA MarkerInit == Init => MarkerInv
BY DEF Init, MarkerInv

LEMMA MarkerStep ==
    ASSUME TypeOK, MarkerInv, [Next]_vars
    PROVE  MarkerInv'
<1> TypeOK'
  BY TypeStep
<1> USE TrackerAssumption DEF TypeOK, Goto, db
<1>1. CASE UNCHANGED vars \/ Tick
  BY <1>1 DEF vars, Tick, MarkerInv
<1>2. ASSUME NEW p \in Runs, NEW l \in Labels, Goto(p, l), pc[p] # "notice",
             l \notin {"notice", "raw"}, raws' \subseteq raws,
             UNCHANGED <<acked, notices, cfg>>, faults' >= faults
      PROVE  MarkerInv'
  BY <1>2 DEF MarkerInv
<1>3. ASSUME NEW p \in Runs,
             \/ Begin(p) \/ Open(p) \/ BeginMigrate(p) \/ CommitMigrate(p)
             \/ Throttle(p) \/ Reanchor(p) \/ BeginPrune(p) \/ CommitPrune(p)
             \/ InsertInvocation(p)
      PROVE  MarkerInv'
  <2>1. /\ pc[p] # "notice" /\ raws' \subseteq raws /\ faults' = faults
        /\ UNCHANGED <<acked, notices, cfg>>
        /\ \E l \in Labels : Goto(p, l) /\ l \notin {"notice", "raw"}
    BY <1>3 DEF Begin, Open, BeginMigrate, CommitMigrate, Throttle, Reanchor,
                BeginPrune, CommitPrune, Kept, InsertInvocation,
                Labels, Finished
  <2>2. faults' >= faults
    BY <2>1
  <2> QED
    BY <2>1, <2>2, <1>2
<1>4. ASSUME NEW p \in Runs, Marker(p) PROVE MarkerInv'
  <2>1. cfg[p].layer \in Layers
    BY DEF Config
  <2>2. CASE Goto(p, "notice")
    BY <1>4, <2>1, <2>2 DEF Marker, MarkerInv
  <2>3. CASE Goto(p, "raw") /\ UNCHANGED acked
    BY <1>4, <2>1, <2>3 DEF Marker, MarkerInv
  <2> QED
    BY <1>4, <2>2, <2>3 DEF Marker
<1>5. ASSUME NEW p \in Runs, Notice(p) PROVE MarkerInv'
  <2> DEFINE l == cfg[p].layer
  <2>1. l \in Layers
    BY DEF Config
  <2>2. l \in acked /\ notices[l] = 0 /\ pc'[p] = "raw"
    BY <1>5 DEF Notice, MarkerInv
  <2>3. notices' = [notices EXCEPT ![l] = 1]
    BY <1>5, <2>1, <2>2 DEF Notice
  <2>4. \A q \in Runs : q # p => /\ pc'[q] = pc[q]
                                 /\ pc[q] = "notice" => cfg[q].layer # l
    BY <1>5, <2>2 DEF Notice, MarkerInv
  <2>5. UNCHANGED <<acked, cfg, raws, faults>>
    BY <1>5 DEF Notice
  <2> HIDE DEF l
  <2>6. \A k \in acked : \/ notices'[k] = 1
                         \/ faults > 0
                         \/ \E q \in Runs : pc'[q] = "notice" /\ cfg[q].layer = k
    BY <1>5, <2>1, <2>2, <2>3, <2>4 DEF MarkerInv, l
  <2> QED
    BY <2>1, <2>2, <2>3, <2>4, <2>5, <2>6 DEF MarkerInv, Config, l
<1>6. ASSUME NEW p \in Runs, InsertRaw(p) PROVE MarkerInv'
  BY <1>6 DEF InsertRaw, MarkerInv
<1>7. ASSUME NEW p \in Runs, Fail(p) \/ Crash(p) PROVE MarkerInv'
  <2>1. faults' > 0 /\ UNCHANGED <<acked, notices, cfg, raws>>
    BY <1>7 DEF Fail, Crash
  <2>2. PICK l \in Labels : /\ Goto(p, l)
                            /\ l # "notice"
                            /\ l = "raw" => pc[p] = "notice"
    BY <1>7 DEF Fail, Crash, Labels, Finished
  <2> QED
    BY <2>1, <2>2 DEF MarkerInv
<1> QED
  BY NextCases, <1>1, <1>3, <1>4, <1>5, <1>6, <1>7

(* However many first runs race for the marker, the notice of a layer is
   printed at most once; no raw byte is stored for a layer without its marker;
   and once one is, the notice is out, or the process that won the race is about
   to print it, or something failed.  A loser of the race may store before the
   winner has printed (privacy.rs:73). *)
THEOREM NoticeOnceAlways == Spec => []NoticeOnce
<1>1. TypeOK /\ MarkerInv /\ [Next]_vars => MarkerInv'
  BY MarkerStep
<1> QED
  BY TypeCorrect, MarkerInit, MarkerImplies, <1>1, PTL DEF Spec

-----------------------------------------------------------------------------
(***************************************************************************)
(* The tables implement the Ledger.                                        *)
(***************************************************************************)

(* What a reader finds behind an invocation, once its link is its own. *)
LEMMA OutputIsOwn ==
    ASSUME TableInv, NEW i \in invs
    PROVE  OutputOf(i) = IF i.raw = NoRaw THEN NULL ELSE i.run
<1>1. CASE i.raw = NoRaw
  BY <1>1 DEF OutputOf
<1>2. CASE i.raw # NoRaw
  <2>1. PICK r \in raws : r.id = i.raw /\ r.run = i.run
    BY <1>2 DEF TableInv, LinkInv, LinkedRawIsOwn
  <2>2. \A s \in raws : s.id = i.raw => s = r
    BY <2>1 DEF TableInv, RowInv
  <2>3. (CHOOSE s \in raws : s.id = i.raw) = r
    BY <2>1, <2>2
  <2> QED
    BY <1>2, <2>1, <2>3 DEF OutputOf
<1> QED
  BY <1>1, <1>2

Mapped(i) == [run |-> i.run, ts |-> i.ts,
              output |-> IF i.raw = NoRaw THEN NULL ELSE i.run]

LEMMA EntriesMapped == TableInv => Entries = {Mapped(i) : i \in invs}
<1> SUFFICES ASSUME TableInv PROVE Entries = {Mapped(i) : i \in invs}
  OBVIOUS
<1>1. \A i \in invs : EntryOf(i) = Mapped(i)
  BY OutputIsOwn DEF EntryOf, Mapped
<1> QED
  BY <1>1 DEF Entries

LEMMA LedgerInit == Init => L!Init
BY TrackerAssumption DEF Init, L!Init, Entries, Recorded

LEMMA LedgerStep ==
    ASSUME TableInv, TableInv', [Next]_vars
    PROVE  [L!Next]_(L!vars)
<1> USE TrackerAssumption, WindowsNat DEF TypeOK, TableInv
<1>1. Entries = {Mapped(i) : i \in invs} /\ Entries' = {Mapped(i) : i \in invs'}
  <2>1. TableInv' => (Entries = {Mapped(i) : i \in invs})'
    BY EntriesMapped, PTL
  <2> QED
    BY EntriesMapped, <2>1 DEF Mapped
<1>2. CASE UNCHANGED vars
  BY <1>1, <1>2 DEF vars, L!vars, Recorded
<1>3. CASE Tick
  <2>1. clock' > clock /\ UNCHANGED <<Entries, Recorded>>
    BY <1>1, <1>3 DEF Tick, db, Recorded
  <2> QED
    BY <2>1 DEF L!Next, L!Advance
<1>4. ASSUME NEW p \in Runs, NEW l, Goto(p, l), pc[p] # "done", l # "done",
             UNCHANGED <<clock, invs>>
      PROVE  UNCHANGED L!vars
  BY <1>1, <1>4 DEF L!vars, Recorded, Goto
<1>5. ASSUME NEW p \in Runs,
             \/ Begin(p) \/ Open(p) \/ BeginMigrate(p) \/ CommitMigrate(p)
             \/ Throttle(p) \/ Reanchor(p) \/ BeginPrune(p) \/ Marker(p)
             \/ Notice(p) \/ InsertRaw(p) \/ Fail(p) \/ Crash(p)
      PROVE  UNCHANGED L!vars
  <2>1. /\ pc[p] # "done" /\ UNCHANGED <<clock, invs>>
        /\ \E l \in Labels : Goto(p, l) /\ l # "done"
    BY <1>5 DEF Begin, Open, BeginMigrate, CommitMigrate, Throttle, Reanchor,
                BeginPrune, Marker, Notice, InsertRaw, Fail, Crash,
                Labels, Finished, InFlight, db
  <2> QED
    BY <2>1, <1>4
<1>6. ASSUME NEW p \in Runs, CommitPrune(p) PROVE L!Next
  <2> USE <1>6, WindowOf DEF CommitPrune
  <2>1. now[p] <= clock
    BY DEF ClockInv
  <2>2. \A i \in invs :
           \/ SetNull(i, raws') \in invs' /\ SetNull(i, raws') = i
           \/ /\ SetNull(i, raws') \in invs'
              /\ SetNull(i, raws') = [i EXCEPT !.raw = NoRaw]
              /\ i.ts + LeastRaw < clock
           \/ i.ts + LeastInv < clock
    <3> SUFFICES ASSUME NEW i \in invs, ~(i.ts + LeastInv < clock)
                 PROVE  /\ SetNull(i, raws') \in invs'
                        /\ \/ SetNull(i, raws') = i
                           \/ /\ SetNull(i, raws') = [i EXCEPT !.raw = NoRaw]
                              /\ i.ts + LeastRaw < clock
      OBVIOUS
    <3>1. SetNull(i, raws') \in invs'
      <4>1. i \in Kept(invs, InvWindow(p), now[p])
        BY <2>1 DEF Kept, Invocation
      <4> QED
        BY <4>1
    <3>2. CASE i.raw = NoRaw \/ \E r \in raws' : r.id = i.raw
      BY <3>1, <3>2 DEF SetNull, Invocation, NoRaw
    <3>3. CASE i.raw # NoRaw /\ ~\E r \in raws' : r.id = i.raw
      <4>1. PICK r \in raws : r.id = i.raw /\ r.run = i.run
        BY <3>3 DEF LinkInv, LinkedRawIsOwn
      <4>2. r.ts = i.ts
        BY <4>1 DEF RowInv
      <4>3. ~(now[p] <= r.ts + RawWindow(p))
        BY <3>3, <4>1 DEF Kept
      <4>4. i.ts + LeastRaw < clock
        BY <2>1, <4>2, <4>3 DEF Invocation
      <4> QED
        BY <3>1, <3>3, <4>4 DEF SetNull
    <3> QED
      BY <3>2, <3>3, <3>1
  <2>3. \A e \in Entries :
           \/ e \in Entries'
           \/ L!Older(e.ts, LeastRaw) /\ L!Stripped(e) \in Entries'
           \/ L!Older(e.ts, LeastInv)
    <3> SUFFICES ASSUME NEW e \in Entries
                 PROVE  \/ e \in Entries'
                        \/ L!Older(e.ts, LeastRaw) /\ L!Stripped(e) \in Entries'
                        \/ L!Older(e.ts, LeastInv)
      OBVIOUS
    <3>0. PICK i \in invs : e = Mapped(i)
      BY <1>1
    <3>a. e.ts = i.ts
      BY <3>0 DEF Mapped
    <3>1. CASE SetNull(i, raws') \in invs' /\ SetNull(i, raws') = i
      BY <1>1, <3>0, <3>1
    <3>2. CASE /\ SetNull(i, raws') \in invs'
               /\ SetNull(i, raws') = [i EXCEPT !.raw = NoRaw]
               /\ i.ts + LeastRaw < clock
      <4>1. Mapped([i EXCEPT !.raw = NoRaw]) = L!Stripped(Mapped(i))
        BY DEF Mapped, L!Stripped, Invocation
      <4> QED
        BY <1>1, <3>0, <3>a, <3>2, <4>1 DEF L!Older
    <3>3. CASE i.ts + LeastInv < clock
      BY <3>a, <3>3 DEF L!Older
    <3> QED
      BY <2>2, <3>1, <3>2, <3>3
  <2>4. \A f \in Entries' : \E e \in Entries : f = e \/ f = L!Stripped(e)
    <3> SUFFICES ASSUME NEW j \in invs'
                 PROVE  \E e \in Entries : Mapped(j) = e \/ Mapped(j) = L!Stripped(e)
      BY <1>1
    <3>1. PICK i \in invs : j = SetNull(i, raws')
      BY DEF Kept
    <3>2. Mapped(j) = Mapped(i) \/ Mapped(j) = L!Stripped(Mapped(i))
      BY <3>1 DEF SetNull, Mapped, L!Stripped, Invocation
    <3> QED
      BY <1>1, <3>2
  <2>5. UNCHANGED <<clock, Recorded>>
    BY DEF Goto, Recorded
  <2> QED
    BY <2>3, <2>4, <2>5 DEF L!Next, L!Expire
<1>7. ASSUME NEW p \in Runs, InsertInvocation(p) PROVE [L!Next]_(L!vars)
  <2>1. CASE Goto(p, "lost") /\ UNCHANGED invs
    BY <1>7, <2>1, <1>4 DEF InsertInvocation
  <2>2. CASE /\ Goto(p, "done")
             /\ invs' = invs \cup {[run |-> p, ts |-> now[p], raw |-> rawId[p]]}
    <3> DEFINE new == [run |-> p, ts |-> now[p], raw |-> rawId[p]]
    <3>1. p \notin Recorded /\ Recorded' = Recorded \cup {p} /\ UNCHANGED clock
      BY <1>7, <2>2 DEF InsertInvocation, Recorded, Goto
    <3>2. now[p] \in 0..clock
      BY <1>7 DEF InsertInvocation, ClockInv
    <3>3. Mapped(new).output \in {NULL, p}
      BY DEF Mapped
    <3>4. Mapped(new) = [run |-> p, ts |-> now[p], output |-> Mapped(new).output]
      BY DEF Mapped
    <3>5. Entries' = Entries \cup {Mapped(new)}
      BY <1>1, <2>2
    <3> HIDE DEF new
    <3> QED
      BY <3>1, <3>2, <3>3, <3>4, <3>5 DEF L!Next, L!Record
  <2> QED
    BY <1>7, <2>1, <2>2 DEF InsertInvocation
<1> QED
  BY NextCases, <1>2, <1>3, <1>5, <1>6, <1>7 DEF L!Next

(* What SQLite, the throttle, the prune and the interleaved processes do to
   the two tables is, to a reader, the abstract Ledger: every run recorded at
   most once with its own output, nothing expired before its window. *)
THEOREM ImplementsLedger == ASSUME Prompt PROVE Spec => LedgerSpec
<1>1. TableInv /\ TableInv' /\ [Next]_vars => [L!Next]_(L!vars)
  BY LedgerStep
<1> QED
  BY TableAlways, LedgerInit, <1>1, PTL DEF Spec, LedgerSpec, L!Spec

=============================================================================
