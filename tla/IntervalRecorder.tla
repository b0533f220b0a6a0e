-------------------------- MODULE IntervalRecorder --------------------------
(***************************************************************************)
(* What a counter promises the program that measures with it, calls taken  *)
(* as instantaneous: the intervals between start or continue and stop are  *)
(* recorded one after the other, start begins anew, a counter that records *)
(* can be neither read nor closed, and what was read is everything         *)
(* recorded so far.  A counter can be lost at any moment.                  *)
(***************************************************************************)
EXTENDS Naturals, Sequences

CONSTANT Counters

VARIABLES
    now,       \* the clock
    mode,      \* of each counter
    sets,      \* the intervals recorded, the last one open while recording
    fetched    \* the intervals last read

vars == <<now, mode, sets, fetched>>

Init ==
    /\ now \in Nat
    /\ mode = [c \in Counters |-> "none"]
    /\ sets = [c \in Counters |-> <<>>]
    /\ fetched = [c \in Counters |-> <<>>]

Tick == now' > now /\ UNCHANGED <<mode, sets, fetched>>

Move(c, from, to) == mode[c] = from /\ mode' = [mode EXCEPT ![c] = to]

Create(c) == Move(c, "none", "inactive") /\ UNCHANGED <<now, sets, fetched>>

Opened == [first |-> now, second |-> 0]

Start(c) ==
    /\ Move(c, "inactive", "active")
    /\ sets' = [sets EXCEPT ![c] = <<Opened>>]
    /\ UNCHANGED <<now, fetched>>

Continue(c) ==
    /\ Move(c, "inactive", "active")
    /\ sets' = [sets EXCEPT ![c] = Append(@, Opened)]
    /\ UNCHANGED <<now, fetched>>

Stop(c) ==
    /\ Move(c, "active", "inactive")
    /\ sets' = [sets EXCEPT ![c][Len(sets[c])].second = now]
    /\ UNCHANGED <<now, fetched>>

Get(c) ==
    /\ mode[c] = "inactive"
    /\ fetched' = [fetched EXCEPT ![c] = sets[c]]
    /\ UNCHANGED <<now, mode, sets>>

Finalize(c) == Move(c, "inactive", "closed") /\ UNCHANGED <<now, sets, fetched>>

Lose ==
    /\ \E S \in SUBSET {c \in Counters : mode[c] \in {"inactive", "active"}} :
          mode' = [c \in Counters |-> IF c \in S THEN "lost" ELSE mode[c]]
    /\ UNCHANGED <<now, sets, fetched>>

Next ==
    \/ Tick \/ Lose
    \/ \E c \in Counters :
          Create(c) \/ Start(c) \/ Continue(c) \/ Stop(c) \/ Get(c) \/ Finalize(c)

Spec == Init /\ [][Next]_vars
============================================================================
