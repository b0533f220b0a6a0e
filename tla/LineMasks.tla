----------------------------- MODULE LineMasks ------------------------------
(***************************************************************************)
(* From the text that names lines to the lines a session records:          *)
(* pm_set_lines (client/pm_set_lines.c) scans a text such as "0-3,7" into  *)
(* an array of line numbers and a bit mask (client/line.h), the mask       *)
(* travels with the request, and Counter::set_lines (server/counter.cpp)   *)
(* takes from it the lines that its device has.                            *)
(*                                                                         *)
(* A text is a sequence of tokens: the numbers the scan cuts out (of up to *)
(* three digits; two in a row stand for a longer run of digits), Dash,     *)
(* Comma, and Other for a character that is none of these.                 *)
(***************************************************************************)
EXTENDS Integers, Sequences

CONSTANTS
    NBits,      \* bits of a line_t and length of lineas (128 in the code)
    NumLines,   \* lines of the device
    Numbers,    \* bound: the numbers in texts
    MaxTokens   \* bound: tokens in a text

ASSUME LineMasksAssumption ==
    NBits \in Nat /\ NumLines \in Nat /\ Numbers \subseteq Nat /\ MaxTokens \in Nat

Dash == -1
Comma == -2
Other == -3
Unset == -4      \* a value that is no line's

VARIABLES
    text, p,     \* lines_string; how far it is scanned
    l, sep,      \* the last number, the last separator
    lineas,      \* the lines found, in the order found
    stage,       \* "check", "scan", "fill", "made", "served"; "error", "overrun"
    i,           \* the loop variable of "fill", and the bit that "made" is at
    mask,        \* the line_t
    lines        \* Counter::lines

scan_vars == <<p, l, sep, lineas>>
vars == <<text, scan_vars, stage, i, mask, lines>>

----------------------------------------------------------------------------
\* line.h, on masks seen as the sets of their bits.
LINE_CLR_ALL == {}
LINE_SET_ALL == 0 .. NBits - 1

LINE_SET(line, m) == IF line \in LINE_SET_ALL THEN m \cup {line} ELSE m
LINE_ISSET(line, m) == line \in LINE_SET_ALL /\ line \in m

----------------------------------------------------------------------------
Texts ==
    (UNION {[1 .. n -> Numbers \cup {Dash, Comma}] : n \in 0 .. MaxTokens}) \cup
    {<<n, s, Other>> : n \in Numbers, s \in {Dash, Comma}}

Init ==
    /\ text \in Texts
    /\ l \in {Unset, 0}   \* never initialised
    /\ p = 1 /\ sep = Comma /\ lineas = <<>>
    /\ stage = "check" /\ i = 0 /\ mask = LINE_CLR_ALL /\ lines = <<>>

\* The token at a place, Unset beyond the end.
At(j) == IF j \in DOMAIN text THEN text[j] ELSE Unset

IsNumber(j) == At(j) \in Nat

\* The first loop: every character is a digit, a dash or a comma.
CheckText ==
    /\ stage = "check"
    /\ stage' = IF \E j \in DOMAIN text : text[j] = Other THEN "error" ELSE "scan"
    /\ UNCHANGED <<text, scan_vars, i, mask, lines>>

\* Elements added at lineas[indice]; there is no check of indice.
Add(new) ==
    /\ lineas' = lineas \o new
    /\ stage' = IF Len(lineas \o new) > NBits THEN "overrun" ELSE "scan"

\* (A bug: every number is added at once.)
ScanNumberAdds ==
    /\ stage = "scan" /\ IsNumber(p)
    /\ l' = text[p] /\ p' = p + 1
    /\ Add(<<text[p]>>)
    /\ UNCHANGED <<text, sep, i, mask, lines>>

\* A number is kept; it is added now only if the text ends with it.
ScanNumber ==
    /\ stage = "scan" /\ IsNumber(p)
    /\ l' = text[p] /\ p' = p + 1
    /\ Add(IF p = Len(text) THEN <<text[p]>> ELSE <<>>)
    /\ UNCHANGED <<text, sep, i, mask, lines>>

\* (A bug: the last line of a range is left out.)
HalfOpenRange(from, to) == [k \in 1 .. to - from |-> from + k - 1]

\* for(i=l; i<=l1; i++)
FullRange(from, to) == [k \in 1 .. to - from + 1 |-> from + k - 1]

ScanRange ==
    /\ stage = "scan" /\ At(p) = Dash /\ IsNumber(p + 1)
    /\ sep' = Dash /\ p' = p + 2
    /\ Add(FullRange(l, At(p + 1)))
    /\ UNCHANGED <<text, l, i, mask, lines>>

ScanBadRange ==
    /\ stage = "scan" /\ At(p) = Dash /\ ~IsNumber(p + 1)
    /\ sep' = Dash /\ stage' = "error"
    /\ UNCHANGED <<text, p, l, lineas, i, mask, lines>>

\* (A bug: a range's separator is not put back.)
KeepSeparator == sep

\* The separator after a comma that ended a range.
ResetSeparator == Comma

\* A comma ends a range, which is added already, or a single number.
ScanComma ==
    /\ stage = "scan" /\ At(p) = Comma
    /\ p' = p + 1
    /\ \/ sep = Dash /\ sep' = ResetSeparator /\ Add(<<>>)
       \/ sep = Comma /\ sep' = Comma /\ Add(<<l>>)
    /\ UNCHANGED <<text, l, i, mask, lines>>

\* The end of the text: LINE_CLR_ALL, and the loop over lineas begins.
ClearMask ==
    /\ stage = "scan" /\ p > Len(text)
    /\ mask' = LINE_CLR_ALL /\ i' = 1
    /\ stage' = "fill"
    /\ UNCHANGED <<text, scan_vars, lines>>

\* A bit is set; numbers that are no bit of the mask are ignored.
FillMask ==
    /\ stage = "fill" /\ i <= Len(lineas)
    /\ mask' = LINE_SET(lineas[i], mask) /\ i' = i + 1
    /\ UNCHANGED <<text, scan_vars, stage, lines>>

\* pm_set_lines returns; the mask goes to the server with the request.
SendMask ==
    /\ stage = "fill" /\ i > Len(lineas)
    /\ stage' = "made" /\ i' = 0
    /\ UNCHANGED <<text, scan_vars, mask, lines>>

\* Counter::set_lines goes through the bytes and bits of the mask received.
SetLines ==
    /\ stage = "made" /\ i < NBits
    /\ lines' = IF LINE_ISSET(i, mask) /\ i < NumLines THEN Append(lines, i) ELSE lines
    /\ i' = i + 1
    /\ UNCHANGED <<text, scan_vars, stage, mask>>

LinesSet ==
    /\ stage = "made" /\ i = NBits
    /\ stage' = "served"
    /\ UNCHANGED <<text, scan_vars, i, mask, lines>>

Next ==
    \/ CheckText \/ ScanNumber \/ ScanRange \/ ScanBadRange \/ ScanComma
    \/ ClearMask \/ FillMask \/ SendMask \/ SetLines \/ LinesSet

Spec == Init /\ [][Next]_vars

----------------------------------------------------------------------------
\* Items separated by commas, each a number or an increasing range.
WellFormed ==
    \A j \in DOMAIN text :
        /\ text[j] \in Nat => ~IsNumber(j + 1)
        /\ text[j] = Comma => IsNumber(j - 1)
        /\ text[j] = Dash => /\ IsNumber(j - 1) /\ IsNumber(j + 1)
                             /\ At(j - 1) <= At(j + 1)
                             /\ At(j - 2) # Dash
        /\ text[j] # Other

\* An item is known by its dash or its only number.
Single(j) == IsNumber(j) /\ At(j - 1) # Dash /\ At(j + 1) # Dash
Items == {j \in DOMAIN text : Single(j) \/ text[j] = Dash}
ItemLines(j) == IF text[j] = Dash THEN At(j - 1) .. At(j + 1) ELSE {At(j)}

\* The lines that the text names.
Named == UNION {ItemLines(j) : j \in Items}
NamedOnce == \A j, k \in Items : j # k => ItemLines(j) \cap ItemLines(k) = {}

(***************************************************************************)
(* pm_set_lines sets exactly the bits that a well-formed text names, as    *)
(* far as a mask has them, whatever its mixture of numbers and ranges, and *)
(* does not refuse such a text.                                            *)
(***************************************************************************)
MaskIsWhatTheTextNames ==
    WellFormed =>
        /\ stage # "error"
        /\ stage \in {"made", "served"} => mask = Named \cap LINE_SET_ALL

(***************************************************************************)
(* The array of lines is large enough for every well-formed text that      *)
(* names no line twice and none beyond the mask: indice is never checked.  *)
(***************************************************************************)
NoOverrun ==
    WellFormed /\ Named \subseteq LINE_SET_ALL /\ NamedOnce => stage # "overrun"

(***************************************************************************)
(* The session records the lines the text names that the device has, in    *)
(* increasing order: the order in which clients match data with lines.     *)
(***************************************************************************)
SessionRecordsNamedLines ==
    WellFormed /\ stage = "served" =>
        /\ {lines[k] : k \in DOMAIN lines} = {n \in Named : n < NumLines /\ n < NBits}
        /\ \A k \in 1 .. Len(lines) - 1 : lines[k] < lines[k + 1]
============================================================================
