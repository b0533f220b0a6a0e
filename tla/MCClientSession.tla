-------------------------- MODULE MCClientSession ---------------------------
(***************************************************************************)
(* ClientSession for TLC: one counter measures several intervals, another  *)
(* of the same process is started at most and shares its fate.             *)
(***************************************************************************)
EXTENDS ClientSession

CONSTANTS c1, c2

MCCounters == {c1, c2}
MCIntervals == [c \in MCCounters |-> IF c = c1 THEN 2 ELSE 0]
============================================================================
