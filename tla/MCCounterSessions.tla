-------------------------- MODULE MCCounterSessions -------------------------
(* CounterSessions for TLC: the connections are interchangeable. *)
EXTENDS CounterSessions, TLC

Symmetry == Permutations(Counter)
=============================================================================
