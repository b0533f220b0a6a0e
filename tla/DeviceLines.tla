---------------------------- MODULE DeviceLines ----------------------------
(***************************************************************************)
(* The part of a Device that its Counters share (server/device.hpp,        *)
(* server/device.cpp): the Lines with their two reference counts and their *)
(* buffered samples, counter_lock, counter_map, and the consumer loop of   *)
(* Device::run, which appends every sample it pops to the lines that are   *)
(* active.                                                                 *)
(*                                                                         *)
(* Samples are numbered in the order in which the consumer pops them, so   *)
(* the content of a buffer tells which samples it holds.  The consumer     *)
(* takes no lock: each access it makes to a line is a step of its own.     *)
(***************************************************************************)
EXTENDS Integers, Sequences, FiniteSets

CONSTANTS
    NumLines,    \* _n_lines: the lines of the device are 0 .. NumLines - 1
    MaxSamples,  \* bound: samples popped in a behaviour
    Counter,     \* the connections that create a Counter
    NoCounter    \* nobody owns counter_lock

ASSUME DeviceAssumption ==
    /\ NumLines \in Nat
    /\ MaxSamples \in Nat
    /\ IsFiniteSet(Counter)
    /\ NoCounter \notin Counter

Line == 0 .. NumLines - 1

\* What a slot of a buffer holds that was allocated and never written.
Garbage == 0

VARIABLES
    enabled,      \* Line::_enabled
    active,       \* Line::_active
    data,         \* Line::data
    lock,         \* owner of Device::counter_lock
    counter_map,  \* the keys of Device::counter_map
    popped,       \* number of the sample in Device::run's _sample
    pending,      \* the lines push_back_data has not visited yet
    cpc,          \* where the consumer is in push_back_data
    oldSize       \* the size loaded by the vector::push_back under way, else 0

lineVars == <<enabled, active, data>>
consumerVars == <<popped, pending, cpc, oldSize>>
deviceVars == <<lineVars, lock, counter_map, consumerVars>>

----------------------------------------------------------------------------
\* Line's operations, on the value of one field of one line.

\* (A bug to test the properties with: the count taken for a flag.)
FlagUp(n) == 1
FlagDown(n) == 0

\* (A bug: both the caller and the callee count down, without the test.)
DownTwice(n) == n - 2

enable(n) == n + 1
disable(n) == IF n > 0 THEN n - 1 ELSE 0
activate(n) == n + 1
deactivate(n) == IF n > 0 THEN n - 1 ELSE 0

clear_data(s) == <<>>

(***************************************************************************)
(* vector::push_back(obj) as its store, made with the size it loaded       *)
(* before: resize to oldSize + 1, then write the last element.  Slots      *)
(* beyond the present end come up unwritten: that only happens when the    *)
(* buffer was cleared between the load and the store.                      *)
(***************************************************************************)
push_back(s, n, obj) ==
    [i \in 1 .. n + 1 |->
        IF i = n + 1 THEN obj ELSE IF i <= Len(s) THEN s[i] ELSE Garbage]

\* l is the next element of S in the order of a std::map or of `lines'.
IsFirst(l, S) == l \in S /\ \A k \in S : l <= k

----------------------------------------------------------------------------
DeviceInit ==
    /\ enabled = [l \in Line |-> 0]
    /\ active = [l \in Line |-> 0]
    /\ data = [l \in Line |-> <<>>]
    /\ lock = NoCounter
    /\ counter_map = {}
    /\ popped = 0
    /\ pending = {}
    /\ cpc = "visit"
    /\ oldSize = 0

\* data_queue.pop(_sample), then push_back_data(_sample) starts its loop.
Pop ==
    /\ cpc = "visit" /\ pending = {}
    /\ popped < MaxSamples
    /\ popped' = popped + 1
    /\ pending' = Line
    /\ UNCHANGED <<lineVars, lock, counter_map, cpc, oldSize>>

\* if ( l.second->is_active() ), for the next line.
VisitLine(l) ==
    /\ cpc = "visit" /\ IsFirst(l, pending)
    /\ IF active[l] > 0
       THEN cpc' = "load" /\ UNCHANGED pending
       ELSE pending' = pending \ {l} /\ UNCHANGED cpc
    /\ UNCHANGED <<lineVars, lock, counter_map, popped, oldSize>>

\* vector::push_back reads the size of the buffer ...
LoadSize(l) ==
    /\ cpc = "load" /\ IsFirst(l, pending)
    /\ oldSize' = Len(data[l])
    /\ cpc' = "store"
    /\ UNCHANGED <<lineVars, lock, counter_map, popped, pending>>

\* ... and writes the new size and the element.
StoreElement(l) ==
    /\ cpc = "store" /\ IsFirst(l, pending)
    /\ data' = [data EXCEPT ![l] = push_back(data[l], oldSize, popped)]
    /\ pending' = pending \ {l}
    /\ cpc' = "visit"
    /\ oldSize' = 0
    /\ UNCHANGED <<enabled, active, lock, counter_map, popped>>

Consumer ==
    \/ Pop
    \/ \E l \in Line : VisitLine(l) \/ LoadSize(l) \/ StoreElement(l)
============================================================================
