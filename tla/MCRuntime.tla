------------------------------ MODULE MCRuntime ------------------------------
(* Runtime on a small instance: see README.md for the bounds. *)
EXTENDS Runtime

(* Everything of up to n bytes. *)
UpTo(n) == UNION {[1..k -> {"a", "nl"}] : k \in 0..n}

(* One more than the pipe holds: a line too long, one of just the cap, a last
   line without its newline. *)
MCPlans == UpTo(1) \cup {<<"a", "a", "a">>, <<"a", "a", "nl">>, <<"a", "nl", "a">>,
                       <<"sleep">>}
MCHeirPlans == {<<>>, <<"a">>}

(* SIGTERM *)
MCSignals == {15}
=============================================================================
