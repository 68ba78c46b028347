------------------------------ MODULE MCTracker ------------------------------
(* Tracker on a small instance: see README.md for the bounds. *)
EXTENDS Tracker, TLC

Symmetry == Permutations(Runs)
=============================================================================
