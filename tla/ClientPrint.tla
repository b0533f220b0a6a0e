---------------------------- MODULE ClientPrint -----------------------------
(***************************************************************************)
(* What the client makes of the reply of GetReply: the pm_print_data_*     *)
(* functions, pm_calculate_energy and pm_get_and_print_data_paraver, each  *)
(* of which finds the samples of a set and a line in watts by itself.      *)
(*                                                                         *)
(* A printout is a sequence of the sets printed, each with the cells       *)
(* <<label, element>> printed for its samples (for                         *)
(* pm_get_and_print_data_paraver, the rows only).                          *)
(* Label is the number of the line's bit in the counter's mask, Sum for    *)
(* an aggregate.  Columns of sums over the cells of a row, and the times   *)
(* the rows are printed with, are left out.                                *)
(***************************************************************************)
EXTENDS GetReply

CONSTANT Bits   \* bound: the bits that a mask may have

ASSUME ClientPrintAssumption == Bits \subseteq 0 .. 127 /\ Cardinality(Bits) >= MaxLines

VARIABLES
    mask,            \* pm_counter.lines: its first nlines bits are device lines
    printed,         \* the printout
    read,            \* pm_get_and_print_data_paraver: elements of watts received,
    read_from_line,  \* ... of the line it takes them for,
    current_line,    \* that line, from 0,
    stream           \* its arguments, the range it prints, and what it printed

stream_vars == <<read, read_from_line, current_line, stream>>

vars == <<counter_vars, reply_vars, phase, mask, printed, stream_vars>>

Sum == 1000           \* the label of an aggregate
Unset == 2000         \* an element of ind_lines that was never assigned
Outside == {<<0, 0>>} \* read beyond the end of watts

----------------------------------------------------------------------------
\* What the printing functions share, word for word.

\* The number of sets: watts_sets_size - 1.
nsets == Len(watts_sets) - 1

\* watts[i]
energy_watts(i) == IF i + 1 \in DOMAIN watts THEN watts[i + 1] ELSE Outside

\* watts_sets[i]
ini(s) == watts_sets[s + 1]
fin(s) == watts_sets[s + 2]

\* The distance between two lines' series, taken over all sets.
Spacing == watts_sets[Len(watts_sets)] - watts_sets[1]

\* The early return; set = nsets slips through.
Refused(set) == set > nsets \/ set < -1

\* The sets printed, init .. last - 1.
Selected(set) == IF set = -1 THEN [k \in 1 .. nsets |-> k - 1] ELSE <<set>>

\* Bits are met in increasing order: the place of one among the bits of a
\* mask, and the one at a place.
Rank(b, m) == Cardinality({x \in m : x <= b})
Nth(m, j) == CHOOSE b \in m : Rank(b, m) = j

\* LINE_AND, and the loop that counts the lines to print.
p_lines(pm) == pm \cap mask
n_lines_print(pm) == Min({Cardinality(p_lines(pm)), nlines})

\* The counter's lines met by that loop, which ends with the last line that
\* may be printed.
n_lines_counter(pm) ==
    IF Cardinality(p_lines(pm)) < nlines THEN Cardinality(mask)
    ELSE Rank(Nth(p_lines(pm), nlines), mask)

\* (A bug: the position among the printed lines, not among the counter's.)
CompactColumns(pm) ==
    [j \in 1 .. n_lines_print(pm) |->
        LET b == Nth(p_lines(pm), j)
        IN  IF Rank(b, mask) <= nlines THEN [ind_print |-> j - 1, ind_lines |-> b]
            ELSE [ind_print |-> 0, ind_lines |-> Unset]]

\* ind_print and ind_lines; the loop that assigns them ends after the
\* counter's first nlines bits, and elements it does not reach stay unset.
Columns(pm) ==
    [j \in 1 .. n_lines_print(pm) |->
        LET b == Nth(p_lines(pm), j)
        IN  IF Rank(b, mask) <= nlines THEN [ind_print |-> Rank(b, mask) - 1, ind_lines |-> b]
            ELSE [ind_print |-> 0, ind_lines |-> Unset]]

\* A printout of the selected sets: for each, one row per sample, whose
\* cells cells(s, k) gives.
Table(selected, cells(_, _)) ==
    [x \in DOMAIN selected |->
        [set |-> selected[x],
         rows |-> [k \in 1 .. fin(selected[x]) - ini(selected[x]) |-> cells(selected[x], k - 1)]]]

\* The cells of a row when position(s, k, c) is where column c is looked for.
Cells(pm, s, k, position(_, _, _)) ==
    IF aggregate THEN <<<<Sum, energy_watts(ini(s) + k)>>>>
    ELSE LET columns == Columns(pm)
         IN  [j \in DOMAIN columns |->
                 <<columns[j].ind_lines, energy_watts(position(s, k, columns[j].ind_print))>>]

----------------------------------------------------------------------------
\* The printers: what they print for a valid set.

\* A line's series is looked for behind those of the lines before it.
LineMajor(s, k, column) == ini(s) + k + Spacing * column

pm_print_data_csv(set, pm) ==
    Table(Selected(set), LAMBDA s, k : Cells(pm, s, k, LineMajor))

pm_print_data_stdout(set, pm) ==
    Table(Selected(set), LAMBDA s, k : Cells(pm, s, k, LineMajor))

pm_print_data_otf(set, pm) ==
    Table(Selected(set), LAMBDA s, k : Cells(pm, s, k, LineMajor))

pm_print_data_paraver(set, pm) ==
    Table(Selected(set), LAMBDA s, k : Cells(pm, s, k, LineMajor))

\* Set by set, and within a set line by line; offset counts from the first
\* set that is printed.
pm_print_data_text(set, pm) ==
    LET offset(s) == n_lines_counter(pm) * (ini(s) - ini(Selected(set)[1]))
        Position(s, k, column) == offset(s) + k + (fin(s) - ini(s)) * column
    IN  Table(Selected(set), LAMBDA s, k : Cells(pm, s, k, Position))

\* In the two printers of processor states 0 stands for all sets.
SelectedStates(set) == IF set = 0 THEN Selected(-1) ELSE <<set>>

\* (A bug: the number of states of a processor is off by one.)
StateOfThree(bit) == [cpu |-> bit \div 3, state |-> bit % 3]

\* Four lines per processor, one for each state.
StateOf(bit) == [cpu |-> bit \div 4, state |-> bit % 4]

StateCell(s, k, column) ==
    <<StateOf(column.ind_lines), energy_watts(LineMajor(s, k, column.ind_print))>>

pm_print_data_paraver_pstates(set, pm) ==
    Table(SelectedStates(set), LAMBDA s, k :
        [j \in DOMAIN Columns(pm) |-> StateCell(s, k, Columns(pm)[j])])

\* A sample's value matters to one printer only: some are zero.
IsZero(element) == \A x \in element : x[2] % 2 = 0

\* Unless the states are printed separately, zeros are left out.
pm_print_data_paraver_cstates(set, pm, separate) ==
    Table(SelectedStates(set), LAMBDA s, k :
        [j \in {c \in DOMAIN Columns(pm) : separate \/ ~IsZero(StateCell(s, k, Columns(pm)[c])[2])} |->
            StateCell(s, k, Columns(pm)[j])])

\* (A bug: the first sample is not added.)
SamplesFromSecond(s, column) ==
    [k \in 1 .. fin(s) - ini(s) - 1 |-> energy_watts(LineMajor(s, k, column))]

\* The samples of a set that pm_calculate_energy adds up for a column.
Samples(s, column) ==
    [k \in 1 .. fin(s) - ini(s) |-> energy_watts(LineMajor(s, k - 1, column))]

\* What calloc(0, ...) may give for the accumulators of the lines: room that
\* is zero, room that is not, or none, and the sums damage the heap.
Heaps(pm) == IF ~aggregate /\ n_lines_print(pm) > 0 THEN {"zero", "junk", "damaged"} ELSE {"zero"}

\* One row per set with its lines' averages, the last set's only in aggregate
\* mode.  The accumulators are not reset: earlier says of how many sets
\* before it an average still holds a part, and junk whether it also holds
\* what was in the memory.
pm_calculate_energy(set, pm, heap) ==
    LET columns == Columns(pm)
        selected == Selected(set)
        Average(x) ==
            [set |-> selected[x], earlier |-> x - 1, junk |-> heap # "zero",
             cells |-> IF aggregate THEN <<<<Sum, Samples(selected[x], 0)>>>>
                       ELSE [j \in DOMAIN columns |->
                                <<columns[j].ind_lines, Samples(selected[x], columns[j].ind_print)>>]]
    IN  IF ~aggregate THEN [x \in DOMAIN selected |-> Average(x)]
        ELSE IF selected = <<>> THEN
            <<[set |-> Unset, earlier |-> 0, junk |-> FALSE, cells |-> <<>>]>>
        ELSE <<Average(Len(selected))>>

----------------------------------------------------------------------------
PrintInit ==
    /\ Init
    /\ mask \in {m \in SUBSET Bits : Cardinality(m) >= nlines}
    /\ printed = [format |-> "none"]
    /\ read = 0 /\ read_from_line = 0 /\ current_line = 0 /\ stream = <<>>

Record == RecordSet /\ UNCHANGED <<mask, printed, stream_vars>>

GetData ==
    /\ Get \/ PushSize \/ StartCopy \/ CopySum \/ CopyOneLine \/ Send
    /\ UNCHANGED <<mask, printed, stream_vars>>

\* What a call leaves: the rows, unless it returned -1 or what it did is
\* undefined (it read a beginning or an end beside watts_sets, or wrote where
\* it had no memory).
Outcome(format, set, pm, defined, rows) ==
    /\ phase = "sent" /\ phase' = "printed"
    /\ printed' =
          IF Refused(set) THEN
              [format |-> format, set |-> set, lines |-> pm, result |-> "refused", rows |-> <<>>]
          ELSE
              [format |-> format, set |-> set, lines |-> pm,
               result |-> IF defined THEN "done" ELSE "undefined",
               rows |-> IF defined THEN rows ELSE <<>>]
    /\ UNCHANGED <<counter_vars, reply_vars, mask, stream_vars>>

\* Arguments of a call.  An aggregate counter's lines are not looked
\* at, except by the printers of states, which do not know of aggregates.
SetArguments == -2 .. MaxSets + 1
LineArguments == IF aggregate THEN {{}} ELSE SUBSET mask

Defined(set) == set < nsets
DefinedStates(set) == set # -1 /\ (set = 0 \/ set < nsets)

Prints(format, rows(_, _)) ==
    \E set \in SetArguments, pm \in LineArguments :
        Outcome(format, set, pm, Defined(set), rows(set, pm))

PrintCsv == Prints("csv", pm_print_data_csv)
PrintStdout == Prints("stdout", pm_print_data_stdout)
PrintText == Prints("text", pm_print_data_text)
PrintOtf == Prints("otf", pm_print_data_otf)
PrintParaver == Prints("paraver", pm_print_data_paraver)

CalculateEnergy ==
    \E set \in SetArguments, pm \in LineArguments : \E heap \in Heaps(pm) :
        Outcome("energy", set, pm, Defined(set) /\ heap # "damaged",
                pm_calculate_energy(set, pm, heap))

PrintPstates ==
    \E set \in SetArguments, pm \in SUBSET mask :
        Outcome("pstates", set, pm, DefinedStates(set),
                pm_print_data_paraver_pstates(set, pm))

PrintCstates ==
    \E set \in SetArguments, pm \in SUBSET mask, separate \in BOOLEAN :
        Outcome("cstates", set, pm, DefinedStates(set),
                pm_print_data_paraver_cstates(set, pm, separate))

----------------------------------------------------------------------------
\* pm_get_and_print_data_paraver prints while it receives: when it has the
\* sizes and watts_sets, all of watts is still in the connection.

\* The range printed; the end of a set that is not there is what lies behind
\* watts_sets.
StreamBegin(set) == IF set = -1 THEN ini(0) ELSE ini(set)
StreamEnds(set) ==
    IF set = -1 THEN {watts_sets[Len(watts_sets)]}
    ELSE IF Defined(set) THEN {fin(set)} ELSE 0 .. Len(watts) + 1

\* The set is looked at after the header was received: the early return
\* leaves watts where it is.
GetAndPrint ==
    /\ phase = "sent"
    /\ read' = 0 /\ read_from_line' = 0 /\ current_line' = 0
    /\ \E set \in SetArguments, pm \in LineArguments :
          \/ /\ Refused(set) /\ phase' = "printed"
             /\ printed' = [format |-> "stream", set |-> set, lines |-> pm,
                            result |-> "refused", rows |-> <<>>]
             /\ UNCHANGED stream
          \/ /\ ~Refused(set) /\ phase' = "stream"
             /\ \E end \in StreamEnds(set) :
                   stream' = [set |-> set, lines |-> pm, ini |-> StreamBegin(set),
                              fin |-> end, rows |-> <<>>]
             /\ UNCHANGED printed
    /\ UNCHANGED <<counter_vars, reply_vars, mask>>

\* (A bug: <= in the inner loop's condition.)
OneMoreOfLine == read_from_line <= Spacing

\* The inner loop's condition: every line is taken to be as long as all sets.
MoreOfLine == read_from_line < Spacing

\* The outer loop's condition, looked at between lines.
MoreToRead == read < Len(watts)

\* The call is about to receive an element.
Receiving ==
    /\ phase = "stream"
    /\ IF aggregate THEN MoreToRead ELSE MoreOfLine /\ (read_from_line = 0 => MoreToRead)

\* What is printed for element number n, counted from 1, of watts.
StreamRow(n) ==
    LET columns == Columns(stream.lines)
        current_line_pos == {j \in DOMAIN columns : columns[j].ind_print = current_line}
        print_current_line == aggregate \/ current_line_pos # {}
        label == IF aggregate THEN Sum ELSE columns[Min(current_line_pos)].ind_lines
    IN  IF print_current_line /\ n >= stream.ini /\ n < stream.fin
        THEN <<<<<<label, energy_watts(n - 1)>>>>>> ELSE <<>>

\* recv waits for ever for an element the server does not send.
StreamElement ==
    /\ Receiving /\ read + 1 \in DOMAIN watts
    /\ read' = read + 1
    /\ read_from_line' = IF aggregate THEN 0 ELSE read_from_line + 1
    /\ stream' = [stream EXCEPT !.rows = @ \o StreamRow(read + 1)]
    /\ UNCHANGED <<counter_vars, reply_vars, phase, mask, printed, current_line>>

\* A recv without MSG_WAITALL that gets a part of an element ends the program.
StreamExits ==
    /\ Receiving /\ read + 1 \in DOMAIN watts
    /\ phase' = "printed"
    /\ printed' = [format |-> "stream", set |-> stream.set, lines |-> stream.lines,
                   result |-> "exited", rows |-> stream.rows]
    /\ UNCHANGED <<counter_vars, reply_vars, mask, stream_vars>>

StreamLineEnds ==
    /\ phase = "stream" /\ ~aggregate /\ ~MoreOfLine
    /\ read_from_line = 0 => MoreToRead
    /\ current_line' = current_line + 1 /\ read_from_line' = 0
    /\ UNCHANGED <<counter_vars, reply_vars, phase, mask, printed, read, stream>>

StreamReturns ==
    /\ phase = "stream" /\ read_from_line = 0 /\ ~MoreToRead
    /\ phase' = "printed"
    /\ printed' = [format |-> "stream", set |-> stream.set, lines |-> stream.lines,
                   result |-> "done", rows |-> stream.rows]
    /\ UNCHANGED <<counter_vars, reply_vars, mask, stream_vars>>

Next ==
    \/ Record \/ GetData
    \/ PrintCsv \/ PrintStdout \/ PrintText \/ PrintOtf \/ PrintParaver
    \/ PrintPstates \/ PrintCstates \/ CalculateEnergy
    \/ GetAndPrint \/ StreamElement \/ StreamExits \/ StreamLineEnds \/ StreamReturns

Spec == PrintInit /\ [][Next]_vars

----------------------------------------------------------------------------
\* The samples every line of a set has.
Common(se) == Min({Length(se, l) : l \in lines})

\* Sample k, from 0, of line l in set s as recorded.
Recorded(s, l, k) == <<l, sets[s + 1].first[l] + k>>

\* What a table of the sets says when every line's samples are in it.
Truth(selected, pm) ==
    [x \in DOMAIN selected |->
        [set |-> selected[x],
         rows |-> [k \in 1 .. Common(sets[selected[x] + 1]) |->
             IF aggregate THEN <<<<Sum, {Recorded(selected[x], l, k - 1) : l \in lines}>>>>
             ELSE [j \in 1 .. Cardinality(pm) |->
                      <<Nth(pm, j), {Recorded(selected[x], Rank(Nth(pm, j), mask), k - 1)}>>]]]]

\* A table was printed of a reply at the device's own frequency.
FullRateTable(formats) ==
    /\ phase = "printed" /\ printed.result = "done" /\ interval = 1
    /\ printed.format \in formats

LineMajorFormats == {"csv", "stdout", "otf", "paraver"}

\* The lines selected are lines of the device.
OfDevice(pm) == \A b \in pm : Rank(b, mask) <= nlines

\* Here the comments and the code of the functions disagree: the comments
\* take 0 for all sets, the code for the first.
SetInDispute(set) == set = 0 /\ nsets > 1

Exact == printed.rows = Truth(Selected(printed.set), IF aggregate THEN {} ELSE printed.lines)

(***************************************************************************)
(* At the device's own frequency, and unless 0 is asked for of several     *)
(* sets, these tables are exact: nothing is lost, repeated or taken from   *)
(* another line or set.  An aggregate counter's client prints, set by set, *)
(* the sum over the lines of simultaneous positions of the recorded        *)
(* slices.  With one line or one set each selected line's samples stand    *)
(* under that line's number, however the mask is scattered.                *)
(* pm_print_data_text, whose running offset follows the layout get()       *)
(* produces, also finds every line of every set when it prints all of      *)
(* them.  In the other cases the tables are not exact: line by line with   *)
(* several lines and sets, a single later set as text, resampled data.     *)
(***************************************************************************)
TablesExact ==
    /\ FullRateTable(LineMajorFormats \cup {"text"}) /\ aggregate /\ ~SetInDispute(printed.set)
       => Exact
    /\ /\ FullRateTable(LineMajorFormats) /\ ~aggregate /\ OfDevice(printed.lines)
       /\ nlines = 1 \/ nsets = 1
       /\ ~SetInDispute(printed.set)
       => Exact
    /\ /\ FullRateTable({"text"}) /\ ~aggregate /\ printed.set = -1
       /\ Cardinality(mask) = nlines
       => Exact

(***************************************************************************)
(* The state printers' events name the line their sample comes from: four  *)
(* states to a processor.                                                  *)
(***************************************************************************)
StatesNameTheirLine ==
    /\ FullRateTable({"cstates", "pstates"}) /\ ~aggregate /\ OfDevice(printed.lines)
    /\ nlines = 1 \/ nsets = 1
    => \A t \in DOMAIN printed.rows : \A k \in DOMAIN printed.rows[t].rows :
           \A j \in DOMAIN printed.rows[t].rows[k] :
               LET cell == printed.rows[t].rows[k][j]
               IN  \A x \in cell[2] :
                      x # <<0, 0>> /\ Nth(mask, x[1]) = 4 * cell[1].cpu + cell[1].state

(***************************************************************************)
(* Asked for a single set, pm_calculate_energy adds every sample the lines *)
(* of the set have, once, and none of another set.  Of an aggregate        *)
(* counter that sum is all that is averaged; of single lines it comes on   *)
(* top of what their accumulators held, which the code does not determine. *)
(***************************************************************************)
EnergyOfOneSet ==
    /\ FullRateTable({"energy"}) /\ printed.set # -1 /\ ~SetInDispute(printed.set)
    /\ OfDevice(printed.lines)
    /\ aggregate \/ nlines = 1 \/ nsets = 1
    => LET row == printed.rows[1]
           truth == Truth(<<printed.set>>, printed.lines)[1].rows
       IN  /\ row.set = printed.set /\ row.earlier = 0 /\ (aggregate => ~row.junk)
           /\ \A j \in DOMAIN row.cells :
                 row.cells[j][2] = [k \in DOMAIN truth |-> truth[k][j][2]]

(***************************************************************************)
(* pm_get_and_print_data_paraver, whose two loops count elements and lines *)
(* by themselves, receives at the device's own frequency exactly what      *)
(* get() sends: whenever it waits for an element there is one, and when it *)
(* returns 1 it has taken them all.  When it refuses the set it has taken  *)
(* none, and the whole of watts is left for the next call on the           *)
(* connection to take for its own reply.                                   *)
(***************************************************************************)
StreamConsumed ==
    interval = 1 =>
        /\ Receiving => read < Len(watts)
        /\ phase = "printed" /\ printed.format = "stream" =>
              /\ printed.result = "done" => read = Len(watts)
              /\ printed.result = "refused" => read = 0
============================================================================
