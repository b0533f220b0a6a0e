-------------------------- MODULE LineMasksProofs ---------------------------
(***************************************************************************)
(* pm_set_lines and Counter::set_lines select the lines that a text names, *)
(* for texts of any length, masks of any size and any device.              *)
(***************************************************************************)
EXTENDS LineMasks, SequenceTheorems, FiniteSetTheorems, TLAPS

Elements(s) == {s[k] : k \in DOMAIN s}
Distinct(s) == \A j, k \in 1 .. Len(s) : s[j] = s[k] => j = k

TypeInv ==
    /\ text \in Seq(Int) /\ p \in Nat \ {0} /\ l \in Int /\ sep \in {Dash, Comma}
    /\ lineas \in Seq(Int) /\ i \in Nat /\ mask \subseteq LINE_SET_ALL /\ lines \in Seq(Nat)
    /\ stage \in {"check", "scan", "fill", "made", "served", "error", "overrun"}

\* The items that are in lineas when the scan is at q: a single number is
\* added with the comma after it, or at once at the end of the text.
IsDone(j, q) ==
    \/ At(j) = Dash /\ j < q
    \/ Single(j) /\ j + 1 < q
    \/ Single(j) /\ j = Len(text) /\ j < q

Done(q) == {j \in Items : IsDone(j, q)}

LinesOf(D) == UNION {ItemLines(j) : j \in D}

\* What the scanner's l, sep and lineas mean.
Scanned(q, last, separator, found) ==
    /\ q <= Len(text) + 1 /\ At(q - 1) # Dash
    /\ separator = IF IsNumber(q - 1) /\ At(q - 2) = Dash THEN Dash ELSE Comma
    /\ IsNumber(q - 1) /\ At(q - 2) # Dash => last = At(q - 1)
    /\ Elements(found) = LinesOf(Done(q))
    /\ NamedOnce => Distinct(found)

ScanInv == WellFormed /\ stage \in {"check", "scan"} => Scanned(p, l, sep, lineas)

StartInv ==
    /\ stage = "check" => p = 1
    /\ stage \notin {"made", "served"} => lines = <<>>
    /\ WellFormed => stage # "error"

FillInv ==
    WellFormed /\ stage = "fill" =>
        /\ Elements(lineas) = Named /\ i \in 1 .. Len(lineas) + 1
        /\ mask = {lineas[k] : k \in 1 .. i - 1} \cap LINE_SET_ALL

MadeInv == WellFormed /\ stage \in {"made", "served"} => mask = Named \cap LINE_SET_ALL

\* The bits below i have been looked at, in order.
LinesInv ==
    stage \in {"made", "served"} =>
        /\ i <= NBits
        /\ stage = "served" => i = NBits
        /\ Elements(lines) = {n \in mask : n < NumLines /\ n < i}
        /\ \A k \in 1 .. Len(lines) - 1 : lines[k] < lines[k + 1]

(***************************************************************************)
(* The inductive invariant: lineas has the lines of the items scanned so   *)
(* far, where l and sep tell whether the number just read is an item that  *)
(* is still to be added (ScanInv).                                         *)
(***************************************************************************)
Inv ==
    /\ TypeInv /\ ScanInv /\ StartInv /\ FillInv /\ MadeInv /\ LinesInv
    /\ NoOverrun

----------------------------------------------------------------------------
\* Appending one sequence to another, as Add does.
LEMMA ConcatElements ==
    ASSUME NEW s \in Seq(Int), NEW t \in Seq(Int)
    PROVE  /\ s \o t \in Seq(Int) /\ Elements(s \o t) = Elements(s) \cup Elements(t)
           /\ Distinct(s) /\ Distinct(t) /\ Elements(s) \cap Elements(t) = {} => Distinct(s \o t)
<1> DEFINE r == s \o t
           n == Len(s)
           m == Len(t)
<1>1. /\ r \in Seq(Int) /\ Len(r) = n + m
      /\ \A k \in 1 .. n + m : r[k] = IF k <= n THEN s[k] ELSE t[k - n]
  BY ConcatProperties
<1>2. n \in Nat /\ m \in Nat /\ DOMAIN s = 1 .. n /\ DOMAIN t = 1 .. m /\ DOMAIN r = 1 .. n + m
  BY <1>1, LenProperties
<1>3. \A k \in 1 .. n + m : r[k] = IF k <= n THEN s[k] ELSE t[k - n]
  BY <1>1
<1> HIDE DEF r, n, m
<1>4. \A k \in 1 .. n : k \in DOMAIN r /\ r[k] = s[k]
  BY <1>2, <1>3
<1>5. \A k \in 1 .. m : k + n \in DOMAIN r /\ r[k + n] = t[k]
  <2> SUFFICES ASSUME NEW k \in 1 .. m PROVE k + n \in DOMAIN r /\ r[k + n] = t[k]
    OBVIOUS
  <2>1. k + n \in 1 .. n + m /\ ~(k + n <= n) /\ k + n - n = k
    BY <1>2
  <2> QED BY <1>2, <1>3, <2>1
<1>6. \A k \in DOMAIN r : k \in 1 .. n \/ (k - n \in 1 .. m /\ k = (k - n) + n)
  BY <1>2
<1>7. Elements(r) = Elements(s) \cup Elements(t)
  <2>1. ASSUME NEW k \in DOMAIN r PROVE r[k] \in Elements(s) \cup Elements(t)
    <3>1. CASE k \in 1 .. n
      BY <1>2, <1>4, <3>1 DEF Elements
    <3>2. CASE k - n \in 1 .. m /\ k = (k - n) + n
      <4>1. r[k] = t[k - n]
        BY <1>5, <3>2
      <4> QED BY <1>2, <3>2, <4>1 DEF Elements
    <3> QED BY <1>6, <3>1, <3>2
  <2>2. ASSUME NEW k \in DOMAIN s PROVE s[k] \in Elements(r)
    BY <1>2, <1>4 DEF Elements
  <2>3. ASSUME NEW k \in DOMAIN t PROVE t[k] \in Elements(r)
    BY <1>2, <1>5 DEF Elements
  <2> QED BY <2>1, <2>2, <2>3 DEF Elements
<1>8. ASSUME Distinct(s), Distinct(t), Elements(s) \cap Elements(t) = {},
             NEW j \in DOMAIN r, NEW k \in DOMAIN r, r[j] = r[k]
      PROVE  j = k
  <2>1. CASE j \in 1 .. n /\ k \in 1 .. n
    BY <1>4, <1>8, <2>1 DEF Distinct, n
  <2>2. CASE j - n \in 1 .. m /\ j = (j - n) + n /\ k - n \in 1 .. m /\ k = (k - n) + n
    <3>1. t[j - n] = t[k - n]
      BY <1>5, <1>8, <2>2
    <3>2. j - n = k - n
      BY <1>8, <2>2, <3>1 DEF Distinct, m
    <3> QED BY <2>2, <3>2
  <2>3. ASSUME NEW a \in 1 .. n, NEW b \in 1 .. m PROVE r[a] # r[b + n]
    BY <1>2, <1>4, <1>5, <1>8 DEF Elements
  <2> QED BY <1>6, <1>8, <2>1, <2>2, <2>3
<1>9. Distinct(s) /\ Distinct(t) /\ Elements(s) \cap Elements(t) = {} => Distinct(r)
  BY <1>1, <1>2, <1>8 DEF Distinct
<1> QED BY <1>1, <1>7, <1>9 DEF r

\* lineas cannot have more elements than the mask has bits, if they are bits
\* of the mask and none is there twice.
LEMMA DistinctBound ==
    ASSUME NEW s \in Seq(Int), Distinct(s), Elements(s) \subseteq LINE_SET_ALL
    PROVE  Len(s) <= NBits
<1>1. DOMAIN s = 1 .. Len(s) /\ Len(s) \in Nat /\ s \in [1 .. Len(s) -> Int]
  BY LenProperties
<1>2. \A k \in 1 .. Len(s) : s[k] \in LINE_SET_ALL
  BY <1>1 DEF Elements
<1>3. s \in [1 .. Len(s) -> LINE_SET_ALL]
  BY <1>1, <1>2
<1>4. s \in Injection(1 .. Len(s), LINE_SET_ALL)
  BY <1>1, <1>3, Zenon DEF Injection, IsInjective, Distinct
<1>5. NBits \in Nat
  BY LineMasksAssumption
<1>6. IsFiniteSet(LINE_SET_ALL) /\ Cardinality(LINE_SET_ALL) = NBits
  <2>1. 0 \in Int /\ NBits - 1 \in Int
    BY <1>5
  <2>2. /\ IsFiniteSet(0 .. NBits - 1)
        /\ Cardinality(0 .. NBits - 1) = IF 0 > NBits - 1 THEN 0 ELSE NBits - 1 - 0 + 1
    BY <2>1, FS_Interval
  <2> QED BY <1>5, <2>2 DEF LINE_SET_ALL
<1>7. Cardinality(1 .. Len(s)) = Len(s)
  <2>1. 1 \in Int /\ Len(s) \in Int
    BY <1>1
  <2>2. Cardinality(1 .. Len(s)) = IF 1 > Len(s) THEN 0 ELSE Len(s) - 1 + 1
    BY <2>1, FS_Interval
  <2> QED BY <1>1, <2>2
<1>8. Cardinality(1 .. Len(s)) <= Cardinality(LINE_SET_ALL)
  BY <1>4, <1>6, FS_Injection
<1> QED BY <1>6, <1>7, <1>8

\* The loop over a range adds its lines, each once.
LEMMA RangeElements ==
    ASSUME NEW a \in Int, NEW b \in Int
    PROVE  /\ FullRange(a, b) \in Seq(Int) /\ Distinct(FullRange(a, b))
           /\ a <= b => Elements(FullRange(a, b)) = a .. b
<1> DEFINE r == FullRange(a, b)
<1>0. r = [k \in 1 .. b - a + 1 |-> a + k - 1]
  BY DEF FullRange
<1>1. CASE a <= b
  <2>1. b - a + 1 \in Nat /\ r \in [1 .. b - a + 1 -> Int]
    BY <1>0, <1>1
  <2>2. r \in Seq(Int) /\ Len(r) = b - a + 1 /\ DOMAIN r = 1 .. b - a + 1
    BY <2>1
  <2>3. Distinct(r)
    <3>1. \A k \in 1 .. b - a + 1 : r[k] = a + k - 1
      BY <1>0
    <3> HIDE DEF r
    <3> QED BY <2>1, <2>2, <3>1 DEF Distinct
  <2>4. ASSUME NEW n \in a .. b PROVE n \in Elements(r)
    <3>1. n - a + 1 \in DOMAIN r /\ r[n - a + 1] = n
      BY <1>0, <1>1, <2>2, <2>4
    <3> QED BY <3>1 DEF Elements
  <2>5. ASSUME NEW k \in DOMAIN r PROVE r[k] \in a .. b
    BY <1>0, <1>1, <2>2, <2>5
  <2>6. Elements(r) = a .. b
    BY <2>4, <2>5 DEF Elements
  <2> QED BY <2>2, <2>3, <2>6
<1>2. CASE a > b
  <2>1. 1 .. b - a + 1 = 1 .. 0
    BY <1>2
  <2>2. r = <<>>
    <3>1. r \in [1 .. 0 -> Int]
      BY <1>0, <2>1
    <3>2. r \in Seq(Int) /\ Len(r) = 0
      BY <3>1
    <3> QED BY <3>2, EmptySeq
  <2> QED BY <1>2, <2>2 DEF Distinct
<1> QED BY <1>1, <1>2

----------------------------------------------------------------------------
\* The token at a place, for texts of any length.
LEMMA Tokens ==
    ASSUME TypeInv, NEW j \in Int
    PROVE  /\ Len(text) \in Nat /\ DOMAIN text = 1 .. Len(text) /\ At(j) \in Int
           /\ j \in 1 .. Len(text) => At(j) = text[j]
           /\ j \notin 1 .. Len(text) => At(j) = Unset
           /\ At(j) # Unset => j \in 1 .. Len(text)
           /\ IsNumber(j) => j \in 1 .. Len(text) /\ At(j) # Dash /\ At(j) # Comma
<1>1. text \in Seq(Int) /\ Len(text) \in Nat /\ DOMAIN text = 1 .. Len(text)
  BY LenProperties DEF TypeInv
<1>2. ASSUME j \in 1 .. Len(text) PROVE text[j] \in Int
  BY <1>1, <1>2
<1> QED BY <1>1, <1>2 DEF At, IsNumber, Unset, Dash, Comma

\* What follows what in a text of items.
LEMMA Neighbours ==
    ASSUME TypeInv, WellFormed, NEW j \in Int
    PROVE  /\ IsNumber(j) => ~IsNumber(j + 1)
           /\ At(j) = Comma => IsNumber(j - 1)
           /\ At(j) = Dash => /\ IsNumber(j - 1) /\ IsNumber(j + 1)
                              /\ At(j - 1) <= At(j + 1) /\ At(j - 2) # Dash
           /\ At(j) # Other
<1>1. CASE j \in 1 .. Len(text)
  <2>1. At(j) = text[j] /\ j \in DOMAIN text
    BY <1>1, Tokens
  <2> QED BY <2>1 DEF WellFormed, IsNumber
<1>2. CASE j \notin 1 .. Len(text)
  <2>1. At(j) = Unset
    BY <1>2, Tokens
  <2> QED BY <2>1 DEF IsNumber, Unset, Dash, Comma, Other
<1> QED BY <1>1, <1>2

\* The items that have been added, in terms of the tokens.
LEMMA DoneItems ==
    ASSUME TypeInv, NEW j \in Int, NEW q \in Int
    PROVE  /\ Done(q) \subseteq Items /\ Items \subseteq 1 .. Len(text) /\ Items \subseteq Int
           /\ j \in Items <=> Single(j) \/ At(j) = Dash
           /\ Single(j) => At(j) # Dash /\ ItemLines(j) = {At(j)}
           /\ At(j) = Dash => ItemLines(j) = At(j - 1) .. At(j + 1)
           /\ j \in Done(q) <=> IsDone(j, q)
<1>1. /\ Len(text) \in Nat /\ DOMAIN text = 1 .. Len(text)
      /\ j \in 1 .. Len(text) => At(j) = text[j]
      /\ At(j) # Unset => j \in 1 .. Len(text)
      /\ IsNumber(j) => j \in 1 .. Len(text) /\ At(j) # Dash
  BY Tokens
<1>2. Single(j) => j \in 1 .. Len(text) /\ At(j) # Dash
  BY <1>1 DEF Single
<1>3. At(j) = Dash => j \in 1 .. Len(text)
  BY <1>1 DEF Dash, Unset
<1>4. j \in Items <=> Single(j) \/ At(j) = Dash
  BY <1>1, <1>2, <1>3 DEF Items
<1>5. /\ Single(j) => ItemLines(j) = {At(j)}
      /\ At(j) = Dash => ItemLines(j) = At(j - 1) .. At(j + 1)
  BY <1>1, <1>2, <1>3 DEF ItemLines
<1>6. j \in Done(q) <=> IsDone(j, q)
  BY <1>4 DEF Done, IsDone
<1>7. Done(q) \subseteq Items /\ Items \subseteq 1 .. Len(text)
  BY <1>1 DEF Done, Items
<1>8. Items \subseteq Int
  BY <1>1, <1>7
<1> QED BY <1>2, <1>4, <1>5, <1>6, <1>7, <1>8

\* A number that ends the text is an item, done with it; after any other
\* number nothing more is done.
LEMMA NumberDone ==
    ASSUME TypeInv, WellFormed, NEW q \in Int, IsNumber(q), At(q - 1) # Dash
    PROVE  /\ q = Len(text) => /\ q \in Items /\ q \notin Done(q) /\ ItemLines(q) = {At(q)}
                              /\ Done(q + 1) = Done(q) \cup {q}
           /\ q # Len(text) => Done(q + 1) = Done(q)
<1>1. /\ Len(text) \in Nat /\ q \in 1 .. Len(text) /\ At(q) # Dash
      /\ ~IsNumber(q - 1) /\ q + 1 \in Int /\ q - 1 \in Int
  <2>1. IsNumber(q - 1) => ~IsNumber((q - 1) + 1)
    BY Neighbours
  <2>2. (q - 1) + 1 = q
    OBVIOUS
  <2> QED BY <2>1, <2>2, Tokens
<1>2. ~Single(q - 1)
  BY <1>1 DEF Single
<1>3. ASSUME q = Len(text) PROVE Single(q)
  <2>1. At(q + 1) = Unset
    BY <1>1, <1>3, Tokens
  <2> QED BY <2>1 DEF Single, Unset, Dash
<1>4. ASSUME NEW j \in Int
      PROVE  j \in Done(q + 1) <=> j \in Done(q) \/ (j = q /\ q = Len(text))
  <2>1. (j \in Done(q) <=> IsDone(j, q)) /\ (j \in Done(q + 1) <=> IsDone(j, q + 1))
    BY <1>1, DoneItems
  <2>3. CASE j = q
    BY <1>1, <1>3, <2>1, <2>3 DEF IsDone
  <2>4. CASE j = q - 1
    BY <1>1, <1>2, <2>1, <2>4 DEF IsDone
  <2>5. CASE j # q /\ j # q - 1
    BY <1>1, <2>1, <2>5 DEF IsDone
  <2> QED BY <2>3, <2>4, <2>5
<1>5. Done(q) \subseteq Int /\ Done(q + 1) \subseteq Int
  BY <1>1, DoneItems
<1>6. q \notin Done(q)
  BY <1>1, DoneItems DEF IsDone
<1>7. q = Len(text) => q \in Items /\ ItemLines(q) = {At(q)}
  BY <1>3, DoneItems
<1> QED BY <1>4, <1>5, <1>6, <1>7

\* With a dash and the number after it, the range is done.
LEMMA RangeDone ==
    ASSUME TypeInv, WellFormed, NEW q \in Int, At(q) = Dash
    PROVE  /\ q \in Items /\ q \notin Done(q) /\ ItemLines(q) = At(q - 1) .. At(q + 1)
           /\ Done(q + 2) = Done(q) \cup {q}
<1>1. Len(text) \in Nat /\ q - 1 \in Int /\ q + 1 \in Int /\ q + 2 \in Int
  BY Tokens
<1>2. IsNumber(q + 1) /\ At(q + 1) # Dash
  BY <1>1, Neighbours, Tokens
<1>3. ~Single(q) /\ ~Single(q - 1) /\ ~Single(q + 1)
  <2>1. ~Single(q)
    BY DoneItems
  <2>2. (q - 1) + 1 = q /\ (q + 1) - 1 = q
    OBVIOUS
  <2>3. ~Single(q - 1) /\ ~Single(q + 1)
    BY <2>2 DEF Single
  <2> QED BY <2>1, <2>3
<1>4. ASSUME NEW j \in Int
      PROVE  j \in Done(q + 2) <=> j \in Done(q) \/ j = q
  <2>1. (j \in Done(q) <=> IsDone(j, q)) /\ (j \in Done(q + 2) <=> IsDone(j, q + 2))
    BY <1>1, DoneItems
  <2>2. CASE j = q
    BY <1>1, <2>1, <2>2 DEF IsDone
  <2>3. CASE j = q - 1
    BY <1>1, <1>3, <2>1, <2>3 DEF IsDone
  <2>4. CASE j = q + 1
    BY <1>1, <1>2, <1>3, <2>1, <2>4 DEF IsDone
  <2>5. CASE j # q /\ j # q - 1 /\ j # q + 1
    BY <1>1, <2>1, <2>5 DEF IsDone
  <2> QED BY <2>2, <2>3, <2>4, <2>5
<1>5. Done(q) \subseteq Int /\ Done(q + 2) \subseteq Int
  BY <1>1, DoneItems
<1>6. q \notin Done(q)
  BY <1>3, DoneItems DEF IsDone
<1>7. q \in Items /\ ItemLines(q) = At(q - 1) .. At(q + 1)
  BY DoneItems
<1> QED BY <1>4, <1>5, <1>6, <1>7

\* A comma does the number before it, unless a range did it already.
LEMMA CommaDone ==
    ASSUME TypeInv, WellFormed, NEW q \in Int, At(q) = Comma
    PROVE  /\ At(q - 2) # Dash =>
                 /\ q - 1 \in Items /\ q - 1 \notin Done(q) /\ ItemLines(q - 1) = {At(q - 1)}
                 /\ Done(q + 1) = Done(q) \cup {q - 1}
           /\ At(q - 2) = Dash => Done(q + 1) = Done(q)
<1>1. /\ Len(text) \in Nat /\ q - 1 \in Int /\ q + 1 \in Int /\ q - 2 \in Int
      /\ (q - 1) - 1 = q - 2 /\ (q - 1) + 1 = q
  BY Tokens
<1>2. IsNumber(q - 1) /\ At(q) # Dash /\ ~IsNumber(q)
  <2>1. IsNumber(q - 1)
    BY Neighbours
  <2> QED BY <2>1 DEF IsNumber, Comma, Dash
<1>3. q \in 1 .. Len(text) /\ At(q - 1) # Dash
  <2>1. At(q) # Unset
    BY DEF Comma, Unset
  <2> QED BY <1>1, <1>2, <2>1, Tokens
<1>4. ~Single(q) /\ (Single(q - 1) <=> At(q - 2) # Dash)
  BY <1>1, <1>2 DEF Single
<1>5. ASSUME NEW j \in Int
      PROVE  j \in Done(q + 1) <=> j \in Done(q) \/ (j = q - 1 /\ Single(q - 1))
  <2>1. (j \in Done(q) <=> IsDone(j, q)) /\ (j \in Done(q + 1) <=> IsDone(j, q + 1))
    BY <1>1, DoneItems
  <2>2. CASE j = q
    BY <1>1, <1>2, <1>4, <2>1, <2>2 DEF IsDone
  <2>3. CASE j = q - 1
    BY <1>1, <1>3, <2>1, <2>3 DEF IsDone
  <2>4. CASE j # q /\ j # q - 1
    BY <1>1, <2>1, <2>4 DEF IsDone
  <2> QED BY <2>2, <2>3, <2>4
<1>6. Done(q) \subseteq Int /\ Done(q + 1) \subseteq Int
  BY <1>1, DoneItems
<1>7. q - 1 \notin Done(q)
  BY <1>1, <1>3, DoneItems DEF IsDone
<1>8. Single(q - 1) => q - 1 \in Items /\ ItemLines(q - 1) = {At(q - 1)}
  BY <1>1, DoneItems
<1> QED BY <1>1, <1>4, <1>5, <1>6, <1>7, <1>8

\* At the end of the text everything is done.
LEMMA EndDone ==
    ASSUME TypeInv, NEW q \in Int, q > Len(text)
    PROVE  Done(q) = Items
<1>1. ASSUME NEW j \in Items PROVE IsDone(j, q)
  <2>1. j \in 1 .. Len(text) /\ j \in Int /\ Len(text) \in Nat
    BY DoneItems, Tokens
  <2>2. Single(j) \/ At(j) = Dash
    BY <2>1, DoneItems
  <2> QED BY <2>1, <2>2 DEF IsDone
<1> QED BY <1>1 DEF Done

\* An item's lines join those of the items before it; none is there twice if
\* the text names none twice.
LEMMA AddItem ==
    ASSUME TypeInv, NEW new \in Seq(Int), NEW D, D \subseteq Items, NEW j \in Items, j \notin D,
           Elements(lineas) = LinesOf(D), Elements(new) = ItemLines(j), Distinct(new)
    PROVE  /\ lineas \o new \in Seq(Int) /\ Elements(lineas \o new) = LinesOf(D \cup {j})
           /\ NamedOnce /\ Distinct(lineas) => Distinct(lineas \o new)
<1>1. lineas \in Seq(Int)
  BY DEF TypeInv
<1>2. /\ lineas \o new \in Seq(Int) /\ Elements(lineas \o new) = Elements(lineas) \cup Elements(new)
      /\ Distinct(lineas) /\ Distinct(new) /\ Elements(lineas) \cap Elements(new) = {}
           => Distinct(lineas \o new)
  BY <1>1, ConcatElements
<1>3. LinesOf(D \cup {j}) = LinesOf(D) \cup ItemLines(j)
  BY DEF LinesOf
<1>4. NamedOnce => LinesOf(D) \cap ItemLines(j) = {}
  BY DEF NamedOnce, LinesOf
<1> QED BY <1>2, <1>3, <1>4

----------------------------------------------------------------------------
\* No step changes the text, nor what it names.
LEMMA SameText ==
    ASSUME text' = text
    PROVE  /\ WellFormed' = WellFormed /\ NamedOnce' = NamedOnce /\ Named' = Named
           /\ LinesOf(Done(p))' = LinesOf(Done(p'))
           /\ At(p - 1)' = At(p' - 1) /\ At(p - 2)' = At(p' - 2)
<1>1. WellFormed' = WellFormed
  BY DEF WellFormed, IsNumber, At
<1>2. Items' = Items
  BY DEF Items, Single, IsNumber, At
<1>3. NamedOnce' = NamedOnce
  BY <1>2 DEF NamedOnce, ItemLines, At
<1>4. Named' = Named
  BY <1>2 DEF Named, ItemLines, At
<1>5. Done(p)' = Done(p')
  BY <1>2 DEF Done, IsDone, Single, IsNumber, At
<1>6. LinesOf(Done(p))' = LinesOf(Done(p'))
  BY <1>5 DEF LinesOf, ItemLines, At
<1>7. At(p - 1)' = At(p' - 1) /\ At(p - 2)' = At(p' - 2)
  BY DEF At
<1> QED BY <1>1, <1>3, <1>4, <1>6, <1>7

\* What has been found is named, so it fits the array if the names do.
LEMMA FoundFits ==
    ASSUME TypeInv, NEW q \in Int, NEW found \in Seq(Int), Elements(found) = LinesOf(Done(q)),
           Named \subseteq LINE_SET_ALL, Distinct(found)
    PROVE  Len(found) <= NBits
<1>1. Done(q) \subseteq Items
  BY DEF Done
<1>2. Elements(found) \subseteq LINE_SET_ALL
  BY <1>1 DEF LinesOf, Named
<1> QED BY <1>2, DistinctBound

\* A step of the scan keeps the invariant if its variables still mean what
\* Scanned says.
LEMMA ScanStep ==
    ASSUME Inv, stage = "scan", NEW new \in Seq(Int), Add(new),
           UNCHANGED <<text, i, mask, lines>>,
           p' \in Nat \ {0}, l' \in Int, sep' \in {Dash, Comma},
           WellFormed => Scanned(p', l', sep', lineas \o new)
    PROVE  Inv'
<1>1. /\ text' = text /\ lines' = lines /\ i' = i /\ mask' = mask
      /\ lineas' = lineas \o new
      /\ stage' = IF Len(lineas \o new) > NBits THEN "overrun" ELSE "scan"
  BY DEF Add
<1>2. stage' \in {"scan", "overrun"}
  BY <1>1
<1>3. TypeInv /\ lineas \in Seq(Int) /\ lineas \o new \in Seq(Int)
  BY ConcatElements DEF Inv, TypeInv
<1>4. TypeInv'
  BY <1>1, <1>2, <1>3 DEF TypeInv
<1>5. ScanInv'
  <2>1. SUFFICES ASSUME WellFormed PROVE Scanned(p, l, sep, lineas)'
    BY <1>1, SameText DEF ScanInv
  <2>2. Scanned(p', l', sep', lineas')
    BY <1>1, <2>1
  <2>3. /\ NamedOnce' = NamedOnce /\ LinesOf(Done(p))' = LinesOf(Done(p'))
        /\ At(p - 1)' = At(p' - 1) /\ At(p - 2)' = At(p' - 2)
    BY <1>1, SameText
  <2> QED BY <1>1, <2>2, <2>3 DEF Scanned, IsNumber
<1>6. StartInv'
  BY <1>1, <1>2 DEF Inv, StartInv
<1>7. FillInv' /\ MadeInv' /\ LinesInv'
  BY <1>2 DEF FillInv, MadeInv, LinesInv
<1>8. NoOverrun'
  <2>1. SUFFICES ASSUME WellFormed, Named \subseteq LINE_SET_ALL, NamedOnce
                 PROVE  stage' # "overrun"
    BY <1>1, SameText DEF NoOverrun, LINE_SET_ALL
  <2>2. Elements(lineas \o new) = LinesOf(Done(p')) /\ Distinct(lineas \o new)
    BY <2>1 DEF Scanned
  <2>3. Len(lineas \o new) <= NBits
    <3>1. p' \in Int
      OBVIOUS
    <3> QED BY <1>3, <2>1, <2>2, <3>1, FoundFits
  <2>4. NBits \in Nat /\ Len(lineas \o new) \in Nat
    BY <1>3, LenProperties, LineMasksAssumption
  <2> QED BY <1>1, <2>3, <2>4
<1> QED BY <1>4, <1>5, <1>6, <1>7, <1>8 DEF Inv

----------------------------------------------------------------------------
\* CheckText leaves the scan at its start, and refuses no text of items.
LEMMA CheckTextStep ==
    ASSUME Inv, CheckText
    PROVE  Inv'
<1>1. /\ text' = text /\ p' = p /\ l' = l /\ sep' = sep /\ lineas' = lineas
      /\ i' = i /\ mask' = mask /\ lines' = lines /\ stage = "check"
      /\ stage' = IF \E j \in DOMAIN text : text[j] = Other THEN "error" ELSE "scan"
  BY DEF CheckText, scan_vars
<1>2. stage' \in {"error", "scan"} /\ (WellFormed => stage' = "scan")
  BY <1>1 DEF WellFormed
<1>3. TypeInv'
  BY <1>1, <1>2 DEF Inv, TypeInv
<1>4. ScanInv'
  <2>1. SUFFICES ASSUME WellFormed PROVE Scanned(p, l, sep, lineas)'
    BY <1>1, SameText DEF ScanInv
  <2>2. Scanned(p', l', sep', lineas')
    BY <1>1, <2>1 DEF Inv, ScanInv
  <2>3. /\ NamedOnce' = NamedOnce /\ LinesOf(Done(p))' = LinesOf(Done(p'))
        /\ At(p - 1)' = At(p' - 1) /\ At(p - 2)' = At(p' - 2)
    BY <1>1, SameText
  <2> QED BY <1>1, <2>2, <2>3 DEF Scanned, IsNumber
<1>5. StartInv'
  BY <1>1, <1>2, SameText DEF Inv, StartInv
<1>6. FillInv' /\ MadeInv' /\ LinesInv' /\ NoOverrun'
  BY <1>2 DEF FillInv, MadeInv, LinesInv, NoOverrun
<1> QED BY <1>3, <1>4, <1>5, <1>6 DEF Inv

\* After a number that does not end a range, l is that number.
LEMMA ScanNumberStep ==
    ASSUME Inv, ScanNumber
    PROVE  Inv'
<1> DEFINE new == IF p = Len(text) THEN <<text[p]>> ELSE <<>>
<1>1. /\ stage = "scan" /\ IsNumber(p) /\ p' = p + 1 /\ l' = text[p] /\ sep' = sep
      /\ Add(new) /\ UNCHANGED <<text, i, mask, lines>>
  BY DEF ScanNumber
<1>2. TypeInv /\ p \in Nat \ {0} /\ sep \in {Dash, Comma} /\ lineas \in Seq(Int)
  BY DEF Inv, TypeInv
<1>3. /\ Len(text) \in Nat /\ p \in 1 .. Len(text) /\ At(p) = text[p] /\ At(p) \in Int
      /\ At(p) # Dash
  BY <1>1, <1>2, Tokens
<1>4. new \in Seq(Int)
  BY <1>3
<1>5. ASSUME WellFormed PROVE Scanned(p', l', sep', lineas \o new)
  <2>1. Scanned(p, l, sep, lineas)
    BY <1>1, <1>5 DEF Inv, ScanInv
  <2>2. At(p - 1) # Dash /\ Elements(lineas) = LinesOf(Done(p)) /\ (NamedOnce => Distinct(lineas))
    BY <2>1 DEF Scanned
  <2>3. sep = Comma
    <3>1. IsNumber(p - 1) => ~IsNumber((p - 1) + 1)
      BY <1>2, <1>5, Neighbours
    <3>2. (p - 1) + 1 = p
      BY <1>2
    <3> QED BY <1>1, <2>1, <3>1, <3>2 DEF Scanned
  <2>4. /\ Elements(lineas \o new) = LinesOf(Done(p + 1))
        /\ NamedOnce => Distinct(lineas \o new)
    <3>1. CASE p = Len(text)
      <4>1. /\ p \in Items /\ p \notin Done(p) /\ ItemLines(p) = {At(p)}
            /\ Done(p + 1) = Done(p) \cup {p}
        BY <1>1, <1>2, <1>5, <2>2, <3>1, NumberDone
      <4>2. new = <<At(p)>>
        BY <1>3, <3>1
      <4>3. Elements(new) = {At(p)} /\ Distinct(new)
        BY <1>3, <4>2 DEF Elements, Distinct
      <4>4. Done(p) \subseteq Items
        BY DEF Done
      <4> HIDE DEF new
      <4>5. Elements(new) = ItemLines(p)
        BY <4>1, <4>3
      <4>6. /\ Elements(lineas \o new) = LinesOf(Done(p) \cup {p})
            /\ NamedOnce /\ Distinct(lineas) => Distinct(lineas \o new)
        <5>1. /\ TypeInv /\ Elements(lineas) = LinesOf(Done(p)) /\ Distinct(new)
              /\ p \in Items /\ p \notin Done(p)
          BY <1>2, <2>2, <4>1, <4>3
        <5> QED BY <1>4, <4>4, <4>5, <5>1, AddItem
      <4> QED BY <2>2, <4>1, <4>6
    <3>2. CASE p # Len(text)
      <4>1. Done(p + 1) = Done(p)
        BY <1>1, <1>2, <1>5, <2>2, <3>2, NumberDone
      <4>2. lineas \o new = lineas
        BY <1>2, <3>2, ConcatEmptySeq
      <4> HIDE DEF new
      <4> QED BY <2>2, <4>1, <4>2
    <3> QED BY <3>1, <3>2
  <2>5. (p + 1) - 1 = p /\ (p + 1) - 2 = p - 1 /\ p + 1 <= Len(text) + 1
    BY <1>2, <1>3
  <2> HIDE DEF new
  <2> QED BY <1>1, <1>3, <2>2, <2>3, <2>4, <2>5 DEF Scanned
<1>6. p' \in Nat \ {0} /\ l' \in Int /\ sep' \in {Dash, Comma}
  BY <1>1, <1>2, <1>3
<1> HIDE DEF new
<1> QED BY <1>1, <1>4, <1>5, <1>6, ScanStep

\* After a dash and a number, the range has been added and sep says so.
LEMMA ScanRangeStep ==
    ASSUME Inv, ScanRange
    PROVE  Inv'
<1> DEFINE new == FullRange(l, At(p + 1))
<1>1. /\ stage = "scan" /\ At(p) = Dash /\ IsNumber(p + 1) /\ p' = p + 2 /\ l' = l
      /\ sep' = Dash /\ Add(new) /\ UNCHANGED <<text, i, mask, lines>>
  BY DEF ScanRange
<1>2. TypeInv /\ p \in Nat \ {0} /\ l \in Int /\ lineas \in Seq(Int) /\ p + 1 \in Int
  BY DEF Inv, TypeInv
<1>3. Len(text) \in Nat /\ p + 1 \in 1 .. Len(text) /\ At(p + 1) \in Int /\ At(p + 1) # Dash
  BY <1>1, <1>2, Tokens
<1>4. /\ new \in Seq(Int) /\ Distinct(new)
      /\ l <= At(p + 1) => Elements(new) = l .. At(p + 1)
  BY <1>2, <1>3, RangeElements
<1> HIDE DEF new
<1>5. ASSUME WellFormed PROVE Scanned(p', l', sep', lineas \o new)
  <2>1. Scanned(p, l, sep, lineas)
    BY <1>1, <1>5 DEF Inv, ScanInv
  <2>2. Elements(lineas) = LinesOf(Done(p)) /\ (NamedOnce => Distinct(lineas))
    BY <2>1 DEF Scanned
  <2>3. IsNumber(p - 1) /\ At(p - 1) <= At(p + 1) /\ At(p - 2) # Dash
    BY <1>1, <1>2, <1>5, Neighbours
  <2>4. l = At(p - 1)
    BY <2>1, <2>3 DEF Scanned
  <2>5. /\ p \in Items /\ p \notin Done(p) /\ ItemLines(p) = At(p - 1) .. At(p + 1)
        /\ Done(p + 2) = Done(p) \cup {p}
    BY <1>1, <1>2, <1>5, RangeDone
  <2>6. Done(p) \subseteq Items
    BY DEF Done
  <2>7. Elements(new) = ItemLines(p)
    BY <1>4, <2>3, <2>4, <2>5
  <2>8. /\ Elements(lineas \o new) = LinesOf(Done(p + 2))
        /\ NamedOnce => Distinct(lineas \o new)
    BY <1>2, <1>4, <2>2, <2>5, <2>6, <2>7, AddItem
  <2>9. (p + 2) - 1 = p + 1 /\ (p + 2) - 2 = p /\ p + 2 <= Len(text) + 1
    BY <1>2, <1>3
  <2> QED BY <1>1, <1>3, <2>8, <2>9 DEF Scanned
<1>6. p' \in Nat \ {0} /\ l' \in Int /\ sep' \in {Dash, Comma}
  BY <1>1, <1>2
<1> QED BY <1>1, <1>4, <1>5, <1>6, ScanStep

\* No text of items has a dash without a number after it.
LEMMA ScanBadRangeStep ==
    ASSUME Inv, ScanBadRange
    PROVE  Inv'
<1>1. /\ At(p) = Dash /\ ~IsNumber(p + 1) /\ text' = text /\ p' = p /\ l' = l /\ sep' = Dash
      /\ lineas' = lineas /\ i' = i /\ mask' = mask /\ lines' = lines
      /\ stage = "scan" /\ stage' = "error"
  BY DEF ScanBadRange
<1>2. ~WellFormed
  <2>1. TypeInv /\ p \in Int
    BY DEF Inv, TypeInv
  <2> QED BY <1>1, <2>1, Neighbours
<1>3. ~WellFormed'
  BY <1>1, <1>2, SameText
<1>4. TypeInv'
  BY <1>1 DEF Inv, TypeInv
<1> QED BY <1>1, <1>3, <1>4
        DEF Inv, ScanInv, StartInv, FillInv, MadeInv, LinesInv, NoOverrun

\* A comma adds the number before it, unless sep says that a range did.
LEMMA ScanCommaStep ==
    ASSUME Inv, ScanComma
    PROVE  Inv'
<1> DEFINE new == IF sep = Dash THEN <<>> ELSE <<l>>
<1>1. TypeInv /\ p \in Nat \ {0} /\ l \in Int /\ lineas \in Seq(Int) /\ sep \in {Dash, Comma}
  BY DEF Inv, TypeInv
<1>2. /\ stage = "scan" /\ At(p) = Comma /\ p' = p + 1 /\ l' = l
      /\ sep' = Comma /\ Add(new) /\ UNCHANGED <<text, i, mask, lines>>
  BY <1>1 DEF ScanComma, ResetSeparator, Dash, Comma
<1>3. Len(text) \in Nat /\ p \in 1 .. Len(text) /\ At(p) # Dash /\ ~IsNumber(p)
  <2>1. At(p) # Dash /\ ~IsNumber(p) /\ At(p) # Unset
    BY <1>2 DEF Dash, Comma, Unset, IsNumber
  <2> QED BY <1>1, <2>1, Tokens
<1>4. new \in Seq(Int)
  BY <1>1
<1>5. ASSUME WellFormed PROVE Scanned(p', l', sep', lineas \o new)
  <2>1. Scanned(p, l, sep, lineas)
    BY <1>2, <1>5 DEF Inv, ScanInv
  <2>2. Elements(lineas) = LinesOf(Done(p)) /\ (NamedOnce => Distinct(lineas))
    BY <2>1 DEF Scanned
  <2>3. IsNumber(p - 1)
    BY <1>2, <1>1, <1>5, Neighbours
  <2>4. /\ Elements(lineas \o new) = LinesOf(Done(p + 1))
        /\ NamedOnce => Distinct(lineas \o new)
    <3>1. CASE At(p - 2) # Dash
      <4>1. /\ p - 1 \in Items /\ p - 1 \notin Done(p) /\ ItemLines(p - 1) = {At(p - 1)}
            /\ Done(p + 1) = Done(p) \cup {p - 1}
        BY <1>2, <1>1, <1>5, <3>1, CommaDone
      <4>2. l = At(p - 1) /\ sep = Comma
        BY <2>1, <2>3, <3>1 DEF Scanned
      <4>3. new = <<At(p - 1)>>
        BY <4>2 DEF Comma, Dash
      <4>4. Elements(new) = {At(p - 1)} /\ Distinct(new)
        BY <1>1, <4>2, <4>3 DEF Elements, Distinct
      <4>5. Done(p) \subseteq Items
        BY DEF Done
      <4> HIDE DEF new
      <4>6. Elements(new) = ItemLines(p - 1)
        BY <4>1, <4>4
      <4> QED BY <1>1, <1>4, <2>2, <4>1, <4>4, <4>5, <4>6, AddItem
    <3>2. CASE At(p - 2) = Dash
      <4>1. Done(p + 1) = Done(p)
        BY <1>2, <1>1, <1>5, <3>2, CommaDone
      <4>2. sep = Dash
        BY <2>1, <2>3, <3>2 DEF Scanned
      <4>3. lineas \o new = lineas
        BY <1>1, <4>2, ConcatEmptySeq
      <4> HIDE DEF new
      <4> QED BY <2>2, <4>1, <4>3
    <3> QED BY <3>1, <3>2
  <2>5. (p + 1) - 1 = p /\ (p + 1) - 2 = p - 1 /\ p + 1 <= Len(text) + 1
    BY <1>1, <1>3
  <2> HIDE DEF new
  <2> QED BY <1>2, <1>3, <2>4, <2>5 DEF Scanned
<1>6. p' \in Nat \ {0} /\ l' \in Int /\ sep' \in {Dash, Comma}
  BY <1>2, <1>1
<1> HIDE DEF new
<1> QED BY <1>2, <1>4, <1>5, <1>6, ScanStep

----------------------------------------------------------------------------
\* At the end of the text lineas has every line named, and the mask none.
LEMMA ClearMaskStep ==
    ASSUME Inv, ClearMask
    PROVE  Inv'
<1>1. /\ text' = text /\ p' = p /\ l' = l /\ sep' = sep /\ lineas' = lineas
      /\ i' = 1 /\ mask' = {} /\ lines' = lines /\ p > Len(text)
      /\ stage = "scan" /\ stage' = "fill"
  BY DEF ClearMask, scan_vars, LINE_CLR_ALL
<1>2. TypeInv /\ p \in Int /\ lineas \in Seq(Int)
  BY DEF Inv, TypeInv
<1>3. TypeInv'
  BY <1>1 DEF Inv, TypeInv
<1>4. FillInv'
  <2>1. SUFFICES ASSUME WellFormed
                 PROVE  /\ Elements(lineas) = Named /\ 1 \in 1 .. Len(lineas) + 1
                        /\ {} = {lineas[k] : k \in 1 .. 1 - 1} \cap LINE_SET_ALL
    BY <1>1, SameText DEF FillInv, LINE_SET_ALL
  <2>2. Elements(lineas) = LinesOf(Done(p))
    BY <1>1, <2>1 DEF Inv, ScanInv, Scanned
  <2>3. Elements(lineas) = Named
    BY <1>1, <1>2, <2>2, EndDone DEF LinesOf, Named
  <2>4. 1 \in 1 .. Len(lineas) + 1
    BY <1>2, LenProperties
  <2>5. 1 .. 1 - 1 = {}
    OBVIOUS
  <2> QED BY <2>3, <2>4, <2>5
<1> QED BY <1>1, <1>3, <1>4 DEF Inv, ScanInv, StartInv, MadeInv, LinesInv, NoOverrun

\* A pass of the loop over lineas.
LEMMA FillMaskStep ==
    ASSUME Inv, FillMask
    PROVE  Inv'
<1>1. /\ text' = text /\ p' = p /\ l' = l /\ sep' = sep /\ lineas' = lineas
      /\ i' = i + 1 /\ mask' = LINE_SET(lineas[i], mask) /\ lines' = lines
      /\ i <= Len(lineas) /\ stage = "fill" /\ stage' = "fill"
  BY DEF FillMask, scan_vars
<1>2. i \in Nat /\ mask \subseteq LINE_SET_ALL /\ lineas \in Seq(Int) /\ Len(lineas) \in Nat
  BY LenProperties DEF Inv, TypeInv
<1>3. mask' = mask \cup ({lineas[i]} \cap LINE_SET_ALL)
  BY <1>1 DEF LINE_SET
<1>4. TypeInv'
  <2>1. mask' \subseteq LINE_SET_ALL
    BY <1>2, <1>3
  <2> QED BY <1>1, <1>2, <2>1 DEF Inv, TypeInv
<1>5. FillInv'
  <2>1. SUFFICES ASSUME WellFormed
                 PROVE  /\ Elements(lineas') = Named /\ i' \in 1 .. Len(lineas') + 1
                        /\ mask' = {lineas'[k] : k \in 1 .. i' - 1} \cap LINE_SET_ALL
    BY <1>1, SameText DEF FillInv
  <2>2. /\ Elements(lineas) = Named /\ i \in 1 .. Len(lineas) + 1
        /\ mask = {lineas[k] : k \in 1 .. i - 1} \cap LINE_SET_ALL
    BY <1>1, <2>1 DEF Inv, FillInv
  <2>3. i + 1 \in 1 .. Len(lineas) + 1
    BY <1>1, <1>2, <2>2
  <2>4. 1 .. i' - 1 = (1 .. i - 1) \cup {i}
    BY <1>1, <1>2, <2>2
  <2>5. mask' = {lineas[k] : k \in (1 .. i - 1) \cup {i}} \cap LINE_SET_ALL
    BY <1>3, <2>2
  <2> QED BY <1>1, <2>2, <2>3, <2>4, <2>5
<1> QED BY <1>1, <1>4, <1>5 DEF Inv, ScanInv, StartInv, MadeInv, LinesInv, NoOverrun

\* The loop has been through lineas: the mask has every line named.
LEMMA SendMaskStep ==
    ASSUME Inv, SendMask
    PROVE  Inv'
<1>1. /\ text' = text /\ p' = p /\ l' = l /\ sep' = sep /\ lineas' = lineas
      /\ i' = 0 /\ mask' = mask /\ lines' = lines
      /\ i > Len(lineas) /\ stage = "fill" /\ stage' = "made"
  BY DEF SendMask, scan_vars
<1>2. /\ i \in Nat /\ lineas \in Seq(Int) /\ Len(lineas) \in Nat /\ DOMAIN lineas = 1 .. Len(lineas)
      /\ mask \subseteq LINE_SET_ALL /\ lines = <<>>
  BY <1>1, LenProperties DEF Inv, TypeInv, StartInv
<1>3. TypeInv'
  BY <1>1 DEF Inv, TypeInv
<1>4. MadeInv'
  <2>1. SUFFICES ASSUME WellFormed PROVE mask = Named \cap LINE_SET_ALL
    BY <1>1, SameText DEF MadeInv, LINE_SET_ALL
  <2>2. /\ Elements(lineas) = Named /\ i \in 1 .. Len(lineas) + 1
        /\ mask = {lineas[k] : k \in 1 .. i - 1} \cap LINE_SET_ALL
    BY <1>1, <2>1 DEF Inv, FillInv
  <2>3. 1 .. i - 1 = DOMAIN lineas
    BY <1>1, <1>2, <2>2
  <2> QED BY <2>2, <2>3 DEF Elements
<1>5. LinesInv'
  <2>1. Elements(<<>>) = {} /\ Len(<<>>) = 0
    BY DEF Elements
  <2>2. {n \in mask : n < NumLines /\ n < 0} = {}
    <3>1. \A n \in mask : ~(n < 0)
      BY <1>2, LineMasksAssumption DEF LINE_SET_ALL
    <3> QED BY <3>1
  <2> QED BY <1>1, <1>2, <2>1, <2>2, LineMasksAssumption DEF LinesInv
<1> QED BY <1>1, <1>3, <1>4, <1>5 DEF Inv, ScanInv, StartInv, FillInv, NoOverrun

\* A pass of the loop over the mask: every line taken before is smaller.
LEMMA SetLinesStep ==
    ASSUME Inv, SetLines
    PROVE  Inv'
<1>1. /\ text' = text /\ p' = p /\ l' = l /\ sep' = sep /\ lineas' = lineas
      /\ i' = i + 1 /\ mask' = mask /\ i < NBits /\ stage = "made" /\ stage' = "made"
      /\ lines' = IF LINE_ISSET(i, mask) /\ i < NumLines THEN Append(lines, i) ELSE lines
  BY DEF SetLines, scan_vars
<1>2. /\ i \in Nat /\ NBits \in Nat /\ NumLines \in Nat /\ mask \subseteq LINE_SET_ALL
      /\ lines \in Seq(Nat) /\ Len(lines) \in Nat /\ DOMAIN lines = 1 .. Len(lines)
  BY LenProperties, LineMasksAssumption DEF Inv, TypeInv
<1>3. TypeInv'
  BY <1>1, <1>2 DEF Inv, TypeInv
<1>4. /\ Elements(lines) = {n \in mask : n < NumLines /\ n < i}
      /\ \A k \in 1 .. Len(lines) - 1 : lines[k] < lines[k + 1]
  BY <1>1 DEF Inv, LinesInv
<1>5. /\ Elements(lines') = {n \in mask : n < NumLines /\ n < i + 1}
      /\ \A k \in 1 .. Len(lines') - 1 : lines'[k] < lines'[k + 1]
  <2>0. \A n \in mask : n \in Nat /\ (n < i + 1 <=> n < i \/ n = i)
    BY <1>2 DEF LINE_SET_ALL
  <2>1. CASE i \in mask /\ i < NumLines
    <3> DEFINE r == lines'
               n == Len(lines)
    <3>1. r = Append(lines, i)
      BY <1>1, <1>2, <2>1 DEF LINE_ISSET
    <3>2. /\ Len(r) = n + 1 /\ r[n + 1] = i /\ DOMAIN r = 1 .. n + 1
          /\ \A k \in 1 .. n : r[k] = lines[k]
      BY <1>2, <3>1, AppendProperties
    <3>3. n \in Nat /\ DOMAIN lines = 1 .. n
      BY <1>2
    <3>4. \A k \in 1 .. n - 1 : lines[k] < lines[k + 1]
      BY <1>4
    <3>5. \A k \in 1 .. n : lines[k] < i
      BY <1>4, <3>3 DEF Elements
    <3> HIDE DEF r, n
    <3>6. 1 .. n + 1 = (1 .. n) \cup {n + 1}
      BY <3>3
    <3>7. Elements(r) = Elements(lines) \cup {i}
      BY <3>2, <3>3, <3>6 DEF Elements
    <3>8. Elements(r) = {x \in mask : x < NumLines /\ x < i + 1}
      BY <1>4, <2>0, <2>1, <3>7
    <3>9. ASSUME NEW k \in 1 .. Len(r) - 1 PROVE r[k] < r[k + 1]
      <4>1. k \in 1 .. n
        BY <3>2, <3>3, <3>9
      <4>2. CASE k = n
        BY <3>2, <3>5, <4>1, <4>2
      <4>3. CASE k # n
        <5>1. k \in 1 .. n - 1 /\ k + 1 \in 1 .. n
          BY <3>3, <4>1, <4>3
        <5> QED BY <3>2, <3>4, <4>1, <5>1
      <4> QED BY <4>2, <4>3
    <3> QED BY <3>8, <3>9 DEF r
  <2>2. CASE ~(i \in mask /\ i < NumLines)
    <3>1. lines' = lines
      BY <1>1, <2>2 DEF LINE_ISSET
    <3>2. {n \in mask : n < NumLines /\ n < i + 1} = {n \in mask : n < NumLines /\ n < i}
      BY <2>0, <2>2
    <3> QED BY <1>4, <3>1, <3>2
  <2> QED BY <2>1, <2>2
<1>6. LinesInv'
  BY <1>1, <1>2, <1>5 DEF LinesInv
<1>7. MadeInv'
  BY <1>1, SameText DEF Inv, MadeInv, LINE_SET_ALL
<1> QED BY <1>1, <1>3, <1>6, <1>7 DEF Inv, ScanInv, StartInv, FillInv, NoOverrun

\* set_lines returns.
LEMMA LinesSetStep ==
    ASSUME Inv, LinesSet
    PROVE  Inv'
<1>1. /\ text' = text /\ p' = p /\ l' = l /\ sep' = sep /\ lineas' = lineas
      /\ i' = i /\ mask' = mask /\ lines' = lines /\ i = NBits /\ stage = "made"
      /\ stage' = "served"
  BY DEF LinesSet, scan_vars
<1>2. TypeInv'
  BY <1>1 DEF Inv, TypeInv
<1>3. MadeInv'
  BY <1>1, SameText DEF Inv, MadeInv, LINE_SET_ALL
<1>4. LinesInv'
  BY <1>1 DEF Inv, LinesInv
<1> QED BY <1>1, <1>2, <1>3, <1>4 DEF Inv, ScanInv, StartInv, FillInv, NoOverrun

\* Steps that change nothing.
LEMMA StutterStep ==
    ASSUME Inv, UNCHANGED vars
    PROVE  Inv'
<1>1. /\ text' = text /\ p' = p /\ l' = l /\ sep' = sep /\ lineas' = lineas
      /\ i' = i /\ mask' = mask /\ lines' = lines /\ stage' = stage
  BY DEF vars, scan_vars
<1>2. TypeInv'
  BY <1>1 DEF Inv, TypeInv
<1>3. ScanInv'
  <2>1. SUFFICES ASSUME WellFormed, stage \in {"check", "scan"}
                 PROVE  Scanned(p, l, sep, lineas)'
    BY <1>1, SameText DEF ScanInv
  <2>2. Scanned(p', l', sep', lineas')
    BY <1>1, <2>1 DEF Inv, ScanInv
  <2>3. /\ NamedOnce' = NamedOnce /\ LinesOf(Done(p))' = LinesOf(Done(p'))
        /\ At(p - 1)' = At(p' - 1) /\ At(p - 2)' = At(p' - 2)
    BY <1>1, SameText
  <2> QED BY <1>1, <2>2, <2>3 DEF Scanned, IsNumber
<1>4. StartInv'
  BY <1>1, SameText DEF Inv, StartInv
<1>5. FillInv'
  BY <1>1, SameText DEF Inv, FillInv, LINE_SET_ALL
<1>6. MadeInv'
  BY <1>1, SameText DEF Inv, MadeInv, LINE_SET_ALL
<1>7. LinesInv'
  BY <1>1 DEF Inv, LinesInv
<1>8. NoOverrun'
  BY <1>1, SameText DEF Inv, NoOverrun, LINE_SET_ALL
<1> QED BY <1>2, <1>3, <1>4, <1>5, <1>6, <1>7, <1>8 DEF Inv

\* The initial states: nothing scanned, and l without a value.
LEMMA InitInv == Init => Inv
<1> SUFFICES ASSUME Init PROVE Inv
  OBVIOUS
<1>1. /\ text \in Texts /\ l \in {Unset, 0} /\ p = 1 /\ sep = Comma /\ lineas = <<>>
      /\ stage = "check" /\ i = 0 /\ mask = {} /\ lines = <<>>
  BY DEF Init, LINE_CLR_ALL
<1>2. text \in Seq(Int)
  <2>1. Numbers \cup {Dash, Comma} \subseteq Int /\ Numbers \subseteq Int
    BY LineMasksAssumption DEF Dash, Comma
  <2>2. ASSUME NEW n \in 0 .. MaxTokens, text \in [1 .. n -> Numbers \cup {Dash, Comma}]
        PROVE  text \in Seq(Int)
    <3>1. n \in Nat /\ text \in [1 .. n -> Int]
      BY <2>1, <2>2, LineMasksAssumption
    <3> QED BY <3>1
  <2>3. ASSUME NEW n \in Numbers, NEW s \in {Dash, Comma}, text = <<n, s, Other>>
        PROVE  text \in Seq(Int)
    BY <2>1, <2>3 DEF Dash, Comma, Other
  <2>4. \/ \E n \in 0 .. MaxTokens : text \in [1 .. n -> Numbers \cup {Dash, Comma}]
        \/ \E n \in Numbers, s \in {Dash, Comma} : text = <<n, s, Other>>
    BY <1>1 DEF Texts
  <2> QED BY <2>2, <2>3, <2>4
<1>3. TypeInv
  BY <1>1, <1>2 DEF TypeInv, Unset, Comma
<1>4. Scanned(p, l, sep, lineas)
  <2>1. /\ Len(text) \in Nat /\ At(0) = Unset
        /\ Unset # Dash /\ Unset \notin Nat /\ p - 1 = 0
    BY <1>1, <1>3, Tokens DEF Unset, Dash
  <2>2. Done(1) = {}
    <3>1. ASSUME NEW j \in Items PROVE ~IsDone(j, 1)
      <4>1. j \in 1 .. Len(text) /\ Len(text) \in Nat
        BY <1>3, <2>1, DoneItems
      <4> QED BY <4>1 DEF IsDone
    <3> QED BY <3>1 DEF Done
  <2>3. Elements(lineas) = {} /\ Distinct(lineas) /\ LinesOf({}) = {}
    BY <1>1 DEF Elements, Distinct, LinesOf
  <2>4. At(p - 1) # Dash /\ ~IsNumber(p - 1) /\ p <= Len(text) + 1
    BY <1>1, <2>1 DEF IsNumber
  <2>5. Elements(lineas) = LinesOf(Done(p))
    BY <1>1, <2>2, <2>3
  <2> QED BY <1>1, <2>3, <2>4, <2>5 DEF Scanned
<1>5. ScanInv
  BY <1>4 DEF ScanInv
<1> QED BY <1>1, <1>3, <1>5 DEF Inv, StartInv, FillInv, MadeInv, LinesInv, NoOverrun

\* Every step keeps the invariant.
LEMMA InvStep ==
    ASSUME Inv, [Next]_vars
    PROVE  Inv'
BY CheckTextStep, ScanNumberStep, ScanRangeStep, ScanBadRangeStep, ScanCommaStep, ClearMaskStep,
   FillMaskStep, SendMaskStep, SetLinesStep, LinesSetStep, StutterStep DEF Next

----------------------------------------------------------------------------
(***************************************************************************)
(* In every reachable state of pm_set_lines and Counter::set_lines, what   *)
(* has been scanned is what l, sep and lineas say.                         *)
(***************************************************************************)
THEOREM Invariance == Spec => []Inv
<1>1. Inv /\ [Next]_vars => Inv'
  BY InvStep
<1> QED BY <1>1, InitInv, PTL DEF Spec

(***************************************************************************)
(* pm_set_lines accepts every well-formed text and sets exactly the bits   *)
(* that it names, however many items it has and however wide the mask is.  *)
(***************************************************************************)
THEOREM MaskExact == Spec => []MaskIsWhatTheTextNames
<1>1. Inv => MaskIsWhatTheTextNames
  BY DEF Inv, StartInv, MadeInv, MaskIsWhatTheTextNames
<1> QED BY <1>1, Invariance, PTL

(***************************************************************************)
(* lineas, whose index is never checked, is long enough for every          *)
(* well-formed text that names lines of the mask, none of them twice.      *)
(***************************************************************************)
THEOREM ArrayLargeEnough == Spec => []NoOverrun
<1>1. Inv => NoOverrun
  BY DEF Inv
<1> QED BY <1>1, Invariance, PTL

(***************************************************************************)
(* Counter::set_lines takes the lines named that its device has, in        *)
(* increasing order, for every device and every width of the mask.         *)
(***************************************************************************)
THEOREM SessionLinesExact == Spec => []SessionRecordsNamedLines
<1>1. Inv => SessionRecordsNamedLines
  <2> SUFFICES ASSUME Inv, WellFormed, stage = "served"
               PROVE  /\ {lines[k] : k \in DOMAIN lines} = {n \in Named : n < NumLines /\ n < NBits}
                      /\ \A k \in 1 .. Len(lines) - 1 : lines[k] < lines[k + 1]
    BY DEF SessionRecordsNamedLines
  <2>1. /\ Elements(lines) = {n \in mask : n < NumLines /\ n < NBits}
        /\ \A k \in 1 .. Len(lines) - 1 : lines[k] < lines[k + 1]
    BY DEF Inv, LinesInv
  <2>2. mask = Named \cap LINE_SET_ALL
    BY DEF Inv, MadeInv
  <2>3. Named \subseteq Nat
    <3>1. ASSUME NEW j \in Items PROVE ItemLines(j) \subseteq Nat
      <4>1. TypeInv /\ j \in Int
        BY DoneItems DEF Inv
      <4>2. CASE Single(j)
        BY <4>1, <4>2, DoneItems DEF Single, IsNumber
      <4>3. CASE At(j) = Dash
        <5>1. At(j - 1) \in Nat /\ At(j + 1) \in Nat
          BY <4>1, <4>3, Neighbours DEF IsNumber
        <5> QED BY <4>1, <4>3, <5>1, DoneItems
      <4> QED BY <3>1, <4>1, <4>2, <4>3, DoneItems
    <3> QED BY <3>1 DEF Named
  <2>4. ASSUME NEW n \in Named, n < NBits PROVE n \in LINE_SET_ALL
    BY <2>3, <2>4, LineMasksAssumption DEF LINE_SET_ALL
  <2> QED BY <2>1, <2>2, <2>4 DEF Elements
<1> QED BY <1>1, Invariance, PTL

=============================================================================
