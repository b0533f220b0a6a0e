----------------------------- MODULE GetReply ------------------------------
(***************************************************************************)
(* The reply to a get: Counter::get (server/counter.cpp) cuts, strides and *)
(* lays out the slices of the recorded sets.  ClientPrint adds what the    *)
(* client makes of it.                                                     *)
(*                                                                         *)
(* A sample is the pair <<line, index in that line's buffer>>.  An element *)
(* of watts is the set of samples added into it: one for a line's own      *)
(* series, one per line in aggregate mode, none for a 0 that was never     *)
(* added to.                                                               *)
(***************************************************************************)
EXTENDS Integers, Sequences, FiniteSets, FiniteSetsExt

CONSTANTS
    MaxLines,     \* bound: lines of the counter
    MaxSets,      \* bound: sets recorded
    Lengths,      \* bound: numbers of samples a line may have in a set
    MaxInterval   \* bound: stride in device samples

ASSUME GetReplyAssumption ==
    /\ MaxLines \in Nat \ {0} /\ MaxSets \in Nat
    /\ Lengths \subseteq Nat /\ MaxInterval \in Nat \ {0}

VARIABLES
    interval,    \* Counter::interval
    aggregate,   \* Counter::aggregate
    nlines,      \* Counter::lines.size(); the lines are 1 .. nlines here
    sets,        \* Counter::sets, all closed
    watts_sets,  \* the reply
    watts,
    se_idx,      \* the set that a loop of get() is at, from 1
    line,        \* the line that its inner loop is at
    phase        \* "record", "sizes", "copy", "sent" ("stream", "printed" in ClientPrint)

counter_vars == <<interval, aggregate, nlines, sets>>
reply_vars == <<watts_sets, watts, se_idx, line>>

lines == 1 .. nlines

----------------------------------------------------------------------------
\* Counter::get.

Length(se, l) == se.second[l] - se.first[l]

\* (A bug: the first line speaks for all of them.)
FrontLen(se) == Length(se, 1) \div interval

\* ceil( int / int ): the quotient is an integer before it is rounded.
min_len(se) == Min({Length(se, l) \div interval : l \in lines})

\* Offset at which the copy of line l ends, counted from its begin.
Limit(se, l) == Min({Length(se, l), min_len(se)})

\* copy_if: of the elements before the limit, every interval-th.
CopyLine(se, l) ==
    [k \in 1 .. (Limit(se, l) + interval - 1) \div interval |->
        {<<l, se.first[l] + (k - 1) * interval>>}]

\* The aggregate loop's turns for line l: it leaves when the index, moving by
\* interval, equals the limit, or after min_len turns.
Turns(se, l) ==
    IF Limit(se, l) % interval = 0 THEN Min({Limit(se, l) \div interval, min_len(se)})
    ELSE min_len(se)

SumLine(se) ==
    [k \in 1 .. min_len(se) |->
        {<<l, se.first[l] + (k - 1) * interval>> : l \in {x \in lines : k <= Turns(se, x)}}]

----------------------------------------------------------------------------
Init ==
    /\ interval \in 1 .. MaxInterval
    /\ aggregate \in BOOLEAN
    /\ nlines \in 1 .. MaxLines
    /\ sets = <<>> /\ watts_sets = <<>> /\ watts = <<>>
    /\ se_idx = 0 /\ line = 0 /\ phase = "record"

\* A start() and a stop(): the lines' slices may differ in length, and other
\* sessions may have filled the buffers in between.
RecordSet ==
    /\ phase = "record" /\ Len(sets) < MaxSets
    /\ \E len \in [lines -> Lengths] :
          LET begin == [l \in lines |->
                  IF sets = <<>> THEN 0 ELSE sets[Len(sets)].second[l] + 1]
          IN  sets' = Append(sets, [first |-> begin,
                                    second |-> [l \in lines |-> begin[l] + len[l]]])
    /\ UNCHANGED <<interval, aggregate, nlines, reply_vars, phase>>

\* vector<int> watts_sets(1, 0)
Get ==
    /\ phase = "record" /\ phase' = "sizes"
    /\ watts_sets' = <<0>> /\ watts' = <<>>
    /\ se_idx' = 1 /\ line' = 1
    /\ UNCHANGED counter_vars

\* The loop over the sets: where each begins, and the end of the last one.
PushSize ==
    /\ phase = "sizes" /\ se_idx <= Len(sets)
    /\ watts_sets' = Append(watts_sets, min_len(sets[se_idx]) + watts_sets[Len(watts_sets)])
    /\ se_idx' = se_idx + 1
    /\ UNCHANGED <<counter_vars, watts, line, phase>>

StartCopy ==
    /\ phase = "sizes" /\ se_idx > Len(sets)
    /\ phase' = "copy" /\ se_idx' = 1
    /\ UNCHANGED <<counter_vars, watts_sets, watts, line>>

\* Set by set; within a set, line by line unless they are summed.
CopySum ==
    /\ phase = "copy" /\ aggregate /\ se_idx <= Len(sets)
    /\ watts' = watts \o SumLine(sets[se_idx])
    /\ se_idx' = se_idx + 1
    /\ UNCHANGED <<counter_vars, watts_sets, line, phase>>

CopyOneLine ==
    /\ phase = "copy" /\ ~aggregate /\ se_idx <= Len(sets)
    /\ watts' = watts \o CopyLine(sets[se_idx], line)
    /\ IF line < nlines THEN line' = line + 1 /\ se_idx' = se_idx
       ELSE line' = 1 /\ se_idx' = se_idx + 1
    /\ UNCHANGED <<counter_vars, watts_sets, phase>>

Send ==
    /\ phase = "copy" /\ se_idx > Len(sets)
    /\ phase' = "sent"
    /\ UNCHANGED <<counter_vars, reply_vars>>

----------------------------------------------------------------------------
InSlice(x, se) == se.first[x[1]] <= x[2] /\ x[2] < se.second[x[1]]

\* Where the reply holds samples of line l in set i, and how often.
Holding(i, l) == {k \in DOMAIN watts : \E x \in watts[k] : x[1] = l /\ InSlice(x, sets[i])}
Contribution(i, l) == Cardinality(Holding(i, l))

(***************************************************************************)
(* "every line contributes the same number of samples to the reply"        *)
(* (Counter::get): the lines of a set stay aligned when the thread that    *)
(* read their sizes was overtaken by the consumer.                         *)
(***************************************************************************)
LinesContributeEqually ==
    phase \in {"sent", "stream", "printed"} =>
        \A i \in 1 .. Len(sets) : \A l \in lines : Contribution(i, l) = Contribution(i, 1)
============================================================================
