------------------------------- MODULE Ledger -------------------------------
(***************************************************************************)
(* What the history database promises its readers (`lacon stats`, `lacon   *)
(* explain`), without saying how SQLite, the migrations, the prune or the  *)
(* `lacon run` processes that share the file achieve it:                   *)
(*                                                                         *)
(*   - a finished `lacon run` appears at most once, with the time at which *)
(*     it was recorded;                                                    *)
(*   - the raw output attached to an entry is the one of that very run;    *)
(*   - an entry goes away, or loses its raw output, only when it is older  *)
(*     than its retention window.                                          *)
(*                                                                         *)
(* The module Tracker implements this one (see Tracker!LedgerSpec).        *)
(***************************************************************************)
EXTENDS Naturals

CONSTANTS Runs,        \* the `lacon run` processes
          NULL,        \* no raw output
          InvAge,      \* age, in clock ticks, at which an entry may go
          RawAge       \* age at which its raw output may go

VARIABLES clock,       \* wall clock of the machine
          entries,     \* the visible rows: [run, ts, output]
          recorded     \* the runs that were recorded, ever

vars == <<clock, entries, recorded>>

Entry == [run : Runs, ts : Nat, output : Runs \cup {NULL}]

Init == /\ clock \in Nat
        /\ entries = {}
        /\ recorded = {}

Older(ts, window) == ts + window < clock

Advance == /\ clock' > clock
           /\ UNCHANGED <<entries, recorded>>

(* A run is added once; what it carries is its own output or nothing. *)
Record(r) ==
    /\ r \notin recorded
    /\ recorded' = recorded \cup {r}
    /\ \E t \in 0..clock, o \in {NULL, r} :
          entries' = entries \cup {[run |-> r, ts |-> t, output |-> o]}
    /\ UNCHANGED clock

Stripped(e) == [e EXCEPT !.output = NULL]

(* Old entries go, old outputs go, everything else stays as it is. *)
Expire ==
    /\ \A e \in entries : \/ e \in entries'
                          \/ Older(e.ts, RawAge) /\ Stripped(e) \in entries'
                          \/ Older(e.ts, InvAge)
    /\ \A f \in entries' : \E e \in entries : f = e \/ f = Stripped(e)
    /\ UNCHANGED <<clock, recorded>>

Next == Advance \/ Expire \/ \E r \in Runs : Record(r)

Spec == Init /\ [][Next]_vars
=============================================================================
