------------------------- MODULE ClientPrintProofs --------------------------
(***************************************************************************)
(* The reply of Counter::get has the layout that the client's printing     *)
(* functions look for, for any number of sets, lines and samples.          *)
(***************************************************************************)
EXTENDS ClientPrint, SequenceTheorems, FiniteSetTheorems, WellFoundedInduction, TLAPS

Copying == phase \in {"copy", "sent", "stream", "printed"}

TypeInv ==
    /\ interval \in Nat \ {0} /\ aggregate \in BOOLEAN /\ nlines \in Nat \ {0}
    /\ sets \in Seq([first : [lines -> Nat], second : [lines -> Nat]])
    /\ watts_sets \in Seq(Nat) /\ watts \in Seq(SUBSET (Nat \X Nat))
    /\ se_idx \in Nat /\ line \in Nat
    /\ phase \in {"record", "sizes", "copy", "sent", "stream", "printed"}
    /\ mask \subseteq Bits /\ Cardinality(mask) >= nlines

\* The slices of a line follow each other in its buffer.
SetsInv ==
    \A l \in lines :
        /\ \A i \in 1 .. Len(sets) : sets[i].first[l] <= sets[i].second[l]
        /\ \A i, j \in 1 .. Len(sets) : i < j => sets[i].second[l] < sets[j].first[l]

\* How far the loops of get() are.
LoopInv ==
    /\ phase = "sizes" => se_idx \in 1 .. Len(sets) + 1 /\ Len(watts_sets) = se_idx
    /\ Copying => se_idx \in 1 .. Len(sets) + 1 /\ Len(watts_sets) = Len(sets) + 1
    /\ phase \in {"sent", "stream", "printed"} => se_idx = Len(sets) + 1
    /\ phase = "sizes" => watts = <<>> /\ line = 1
    /\ Copying => line \in lines
    /\ Copying /\ (aggregate \/ se_idx = Len(sets) + 1) => line = 1

\* watts_sets adds up the lengths of the sets.
SizesInv ==
    phase # "record" =>
        /\ Len(watts_sets) >= 1 /\ watts_sets[1] = 0
        /\ \A i \in 1 .. Len(watts_sets) - 1 :
              watts_sets[i + 1] = min_len(sets[i]) + watts_sets[i]

\* The sum of the lines' samples at one position of a set.
SumAt(se, k, over) == {<<l, se.first[l] + k - 1>> : l \in over}

\* Where the sums of a set are in the reply, at full rate.
SumInv ==
    Copying /\ aggregate /\ interval = 1 =>
        /\ Len(watts) = watts_sets[se_idx]
        /\ \A s \in 1 .. se_idx - 1 : \A k \in 1 .. min_len(sets[s]) :
              /\ watts_sets[s] + k \in DOMAIN watts
              /\ watts[watts_sets[s] + k] = SumAt(sets[s], k, lines)

Copied(s, m) == s < se_idx \/ (s = se_idx /\ m < line)

\* Where a line's series of a set begins in the reply, at full rate.
Start(s, m) == nlines * watts_sets[s] + (IF m = 1 THEN 0 ELSE (m - 1) * min_len(sets[s]))

LineInv ==
    Copying /\ ~aggregate /\ interval = 1 =>
        /\ Len(watts) = Start(se_idx, line)
        /\ \A s \in 1 .. Len(sets), m \in lines : Copied(s, m) =>
              \A k \in 1 .. min_len(sets[s]) :
                  /\ Start(s, m) + k \in DOMAIN watts
                  /\ watts[Start(s, m) + k] = {<<m, sets[s].first[m] + k - 1>>}

\* What a line contributes to the reply, at any rate.
Share(se) == (min_len(se) + interval - 1) \div interval

\* The elements of w that hold samples of line l in a set.
HoldingIn(w, se, l) == {k \in DOMAIN w : \E x \in w[k] : x[1] = l /\ InSlice(x, se)}

ShareInv ==
    Copying =>
        \A s \in 1 .. Len(sets), m \in lines :
            IF aggregate THEN Holding(s, m) = Holding(s, 1)
            ELSE IF Copied(s, m) THEN Cardinality(Holding(s, m)) = Share(sets[s])
            ELSE Holding(s, m) = {}

(***************************************************************************)
(* The inductive invariant: what get() has copied so far lies where        *)
(* watts_sets and the lines' lengths say (SumInv, LineInv), and every line *)
(* has its share of it (ShareInv), which needs that no sample lies in two  *)
(* slices (SetsInv).                                                       *)
(***************************************************************************)
Inv == TypeInv /\ SetsInv /\ LoopInv /\ SizesInv /\ SumInv /\ LineInv /\ ShareInv

----------------------------------------------------------------------------
\* std::min over numbers that are there.
LEMMA MinIsLeast ==
    ASSUME NEW S, S \subseteq Nat, S # {}
    PROVE  Min(S) \in S /\ \A y \in S : Min(S) <= y
<1>1. IsWellFoundedOn(OpToRel(<, Nat), Nat)
  BY NatLessThanWellFounded
<1>2. PICK x \in S : \A y \in S : ~(<<y, x>> \in OpToRel(<, Nat))
  BY <1>1, WFMin
<1>3. \A y \in S : ~(y < x)
  BY <1>2 DEF OpToRel
<1>4. \A y \in S : x <= y
  BY <1>3
<1> QED BY <1>4 DEF Min

\* The integer division of get().
LEMMA Division ==
    ASSUME NEW a \in Nat, NEW b \in Nat \ {0}
    PROVE  a \div b \in Nat /\ b * (a \div b) <= a /\ a < b * (a \div b) + b
OBVIOUS

\* The lengths of a recorded set.
LEMMA SetLengths ==
    ASSUME TypeInv, SetsInv, NEW i \in 1 .. Len(sets)
    PROVE  /\ min_len(sets[i]) \in Nat /\ 1 \in lines
           /\ \A l \in lines :
                 /\ l \in Nat /\ sets[i].first[l] \in Nat /\ sets[i].second[l] \in Nat
                 /\ Length(sets[i], l) \in Nat
                 /\ interval * min_len(sets[i]) <= Length(sets[i], l)
                 /\ Limit(sets[i], l) = min_len(sets[i])
           /\ interval = 1 => min_len(sets[i]) = Common(sets[i])
<1> DEFINE se == sets[i]
           M == min_len(se)
<1>1. se \in [first : [lines -> Nat], second : [lines -> Nat]]
  BY ElementOfSeq DEF TypeInv
<1>2. interval \in Nat \ {0} /\ nlines \in Nat \ {0} /\ 1 \in lines /\ lines \subseteq Nat
  BY DEF TypeInv, lines
<1>3. \A l \in lines : /\ se.first[l] \in Nat /\ se.second[l] \in Nat
                       /\ se.first[l] <= se.second[l]
  BY <1>1 DEF SetsInv
<1> HIDE DEF se
<1>4. \A l \in lines : Length(se, l) \in Nat
  BY <1>3 DEF Length
<1>5. \A l \in lines : Length(se, l) \div interval \in Nat
  BY <1>2, <1>4, Division
<1>6. /\ M \in {Length(se, l) \div interval : l \in lines}
      /\ \A l \in lines : M <= Length(se, l) \div interval
  <2> DEFINE S == {Length(se, l) \div interval : l \in lines}
  <2>1. S \subseteq Nat /\ S # {}
    BY <1>2, <1>5
  <2>2. Min(S) \in S /\ \A y \in S : Min(S) <= y
    BY <2>1, MinIsLeast
  <2>3. M = Min(S)
    BY DEF min_len
  <2> QED BY <2>2, <2>3
<1>7. M \in Nat
  BY <1>5, <1>6
<1> HIDE DEF M
<1>8. ASSUME NEW l \in lines
      PROVE  interval * M <= Length(se, l) /\ Limit(se, l) = M
  <2> DEFINE n == Length(se, l)
             q == n \div interval
  <2>1. n \in Nat /\ q \in Nat /\ interval * q <= n /\ M <= q
    BY <1>2, <1>4, <1>6, Division
  <2> HIDE DEF q
  <2>2. interval * M <= interval * q /\ interval * M \in Nat
    BY <1>2, <1>7, <2>1
  <2>3. interval * M <= n
    BY <1>2, <1>7, <2>1, <2>2
  <2>4. M <= interval * M
    BY <1>2, <1>7
  <2>5. M <= n
    BY <1>7, <2>1, <2>2, <2>3, <2>4
  <2>6. Limit(se, l) = Min({n, M})
    BY DEF Limit, M
  <2> HIDE DEF n
  <2>7. Min({n, M}) \in {n, M} /\ \A y \in {n, M} : Min({n, M}) <= y
    BY <1>7, <2>1, MinIsLeast
  <2>8. Min({n, M}) = M
    BY <1>7, <2>1, <2>5, <2>7
  <2> QED BY <2>3, <2>6, <2>8 DEF n
<1>9. ASSUME interval = 1 PROVE M = Common(se)
  <2>1. \A l \in lines : Length(se, l) \div interval = Length(se, l)
    BY <1>4, <1>9
  <2>2. {Length(se, l) \div interval : l \in lines} = {Length(se, l) : l \in lines}
    BY <2>1
  <2> QED BY <2>2 DEF M, min_len, Common
<1> QED BY <1>2, <1>3, <1>4, <1>7, <1>8, <1>9 DEF se, M

\* What copy_if appends for a line: its share, all of it from the slice.
LEMMA Series ==
    ASSUME TypeInv, SetsInv, NEW i \in 1 .. Len(sets), NEW l \in lines
    PROVE  /\ Share(sets[i]) \in Nat /\ (interval = 1 => Share(sets[i]) = min_len(sets[i]))
           /\ CopyLine(sets[i], l) \in Seq(SUBSET (Nat \X Nat))
           /\ Len(CopyLine(sets[i], l)) = Share(sets[i])
           /\ \A k \in 1 .. Share(sets[i]) :
                 /\ CopyLine(sets[i], l)[k] = {<<l, sets[i].first[l] + (k - 1) * interval>>}
                 /\ sets[i].first[l] + (k - 1) * interval \in Nat
                 /\ sets[i].first[l] <= sets[i].first[l] + (k - 1) * interval
                 /\ sets[i].first[l] + (k - 1) * interval < sets[i].second[l]
<1> DEFINE M == min_len(sets[i])
           n == Share(sets[i])
           a == sets[i].first[l]
           r == CopyLine(sets[i], l)
<1>1. /\ M \in Nat /\ l \in Nat /\ a \in Nat /\ sets[i].second[l] \in Nat
      /\ interval * M <= Length(sets[i], l) /\ Limit(sets[i], l) = M
  BY SetLengths
<1>2. interval \in Nat \ {0}
  BY DEF TypeInv
<1>3. n = (M + interval - 1) \div interval
  BY DEF Share
<1>4. r = [k \in 1 .. n |-> {<<l, a + (k - 1) * interval>>}]
  BY <1>1 DEF CopyLine, Share
<1>5. sets[i].second[l] = a + Length(sets[i], l)
  BY <1>1 DEF Length
<1> HIDE DEF M, n, a, r
<1>6. n \in Nat /\ interval * n <= M + interval - 1
  <2>1. M + interval - 1 \in Nat
    BY <1>1, <1>2
  <2> QED BY <1>2, <1>3, <2>1, Division
<1>7. ASSUME interval = 1 PROVE n = M
  BY <1>1, <1>3, <1>7
<1>8. ASSUME NEW k \in 1 .. n
      PROVE  /\ a + (k - 1) * interval \in Nat /\ a <= a + (k - 1) * interval
             /\ a + (k - 1) * interval < sets[i].second[l]
  <2>1. interval * k <= interval * n
    BY <1>2, <1>6
  <2>2. (k - 1) * interval = interval * k - interval /\ (k - 1) * interval \in Nat
    BY <1>2, <1>6
  <2>3. M <= interval * M /\ interval * M \in Nat /\ interval * n \in Nat /\ interval * k \in Nat
    BY <1>1, <1>2, <1>6
  <2>4. Length(sets[i], l) \in Int
    BY <1>1 DEF Length, a
  <2> DEFINE d == (k - 1) * interval
             e == Length(sets[i], l)
             x == interval * M
             y == interval * n
             z == interval * k
             b == sets[i].second[l]
  <2>5. /\ d = z - interval /\ d \in Nat /\ z <= y /\ y <= M + interval - 1 /\ M <= x /\ x <= e
        /\ x \in Nat /\ y \in Nat /\ z \in Nat /\ e \in Int /\ b = a + e
    BY <1>1, <1>5, <1>6, <2>1, <2>2, <2>3, <2>4
  <2> HIDE DEF d, e, x, y, z, b
  <2>6. a + d \in Nat /\ a <= a + d /\ a + d < b
    BY <1>1, <1>2, <2>5
  <2> QED BY <2>6 DEF d, b
<1>9. ASSUME NEW k \in 1 .. n PROVE {<<l, a + (k - 1) * interval>>} \in SUBSET (Nat \X Nat)
  BY <1>1, <1>8
<1>10. r \in [1 .. n -> SUBSET (Nat \X Nat)]
  BY <1>4, <1>9
<1>11. r \in Seq(SUBSET (Nat \X Nat)) /\ Len(r) = n
  BY <1>6, <1>10
<1> QED BY <1>4, <1>6, <1>7, <1>8, <1>11 DEF M, n, a, r

\* What the aggregate loop leaves in sum_line: every line has the same turns.
LEMMA Sums ==
    ASSUME TypeInv, SetsInv, NEW i \in 1 .. Len(sets)
    PROVE  /\ SumLine(sets[i]) \in Seq(SUBSET (Nat \X Nat))
           /\ Len(SumLine(sets[i])) = min_len(sets[i])
           /\ \A k \in 1 .. min_len(sets[i]), l \in lines :
                 /\ sets[i].first[l] + (k - 1) * interval \in Nat
                 /\ sets[i].first[l] <= sets[i].first[l] + (k - 1) * interval
                 /\ sets[i].first[l] + (k - 1) * interval < sets[i].second[l]
           /\ \E n \in Nat :
                 /\ interval = 1 => n = min_len(sets[i])
                 /\ \A k \in 1 .. min_len(sets[i]) :
                       SumLine(sets[i])[k] = IF k <= n THEN {<<l, sets[i].first[l] + (k - 1) * interval>> : l \in lines}
                                             ELSE {}
<1> DEFINE se == sets[i]
           M == min_len(se)
           r == SumLine(se)
           n == IF M % interval = 0 THEN Min({M \div interval, M}) ELSE M
<1>1. M \in Nat /\ 1 \in lines /\ interval \in Nat \ {0}
  BY SetLengths DEF TypeInv
<1>2. \A l \in lines : /\ l \in Nat /\ se.first[l] \in Nat /\ se.second[l] \in Nat
                       /\ interval * M <= Length(se, l) /\ Limit(se, l) = M
  BY SetLengths
<1>3. \A l \in lines : Turns(se, l) = n
  BY <1>2 DEF Turns
<1>4. r = [k \in 1 .. M |-> {<<l, se.first[l] + (k - 1) * interval>> : l \in {x \in lines : k <= Turns(se, x)}}]
  BY DEF SumLine
<1> HIDE DEF se, M, r
<1>5. n \in Nat /\ (interval = 1 => n = M)
  <2>1. M \div interval \in Nat
    BY <1>1, Division
  <2>2. Min({M \div interval, M}) \in {M \div interval, M}
    BY <1>1, <2>1, MinIsLeast
  <2>3. interval = 1 => M \div interval = M
    BY <1>1
  <2> QED BY <1>1, <2>1, <2>2, <2>3
<1> HIDE DEF n
<1>6. ASSUME NEW k \in 1 .. M, NEW l \in lines
      PROVE  /\ se.first[l] + (k - 1) * interval \in Nat
             /\ se.first[l] <= se.first[l] + (k - 1) * interval
             /\ se.first[l] + (k - 1) * interval < se.second[l]
  <2>1. interval * k <= interval * M
    BY <1>1
  <2>2. (k - 1) * interval = interval * k - interval /\ (k - 1) * interval \in Nat
    BY <1>1
  <2>3. se.second[l] = se.first[l] + Length(se, l) /\ Length(se, l) \in Int
    BY <1>2 DEF Length
  <2> DEFINE d == (k - 1) * interval
             e == Length(se, l)
             y == interval * M
             z == interval * k
             a == se.first[l]
             b == se.second[l]
  <2>4. /\ d = z - interval /\ d \in Nat /\ z <= y /\ y <= e /\ y \in Int /\ z \in Int /\ e \in Int
        /\ a \in Nat /\ b = a + e
    BY <1>1, <1>2, <2>1, <2>2, <2>3
  <2> HIDE DEF d, e, y, z, a, b
  <2>5. a + d \in Nat /\ a <= a + d /\ a + d < b
    BY <1>1, <2>4
  <2> QED BY <2>5 DEF a, b, d
<1>7. ASSUME NEW k \in 1 .. M
      PROVE  r[k] = IF k <= n THEN {<<l, se.first[l] + (k - 1) * interval>> : l \in lines} ELSE {}
  <2>1. r[k] = {<<l, se.first[l] + (k - 1) * interval>> : l \in {x \in lines : k <= Turns(se, x)}}
    BY <1>4
  <2>2. {x \in lines : k <= Turns(se, x)} = IF k <= n THEN lines ELSE {}
    BY <1>3
  <2> QED BY <2>1, <2>2
<1>8. ASSUME NEW k \in 1 .. M PROVE r[k] \in SUBSET (Nat \X Nat)
  <2>1. \A l \in lines : <<l, se.first[l] + (k - 1) * interval>> \in Nat \X Nat
    BY <1>2, <1>6
  <2>2. CASE k <= n
    <3>1. r[k] = {<<l, se.first[l] + (k - 1) * interval>> : l \in lines}
      BY <1>7, <2>2
    <3> QED BY <2>1, <3>1
  <2>3. CASE ~(k <= n)
    <3>1. r[k] = {}
      BY <1>7, <2>3
    <3> QED BY <3>1
  <2> QED BY <2>2, <2>3
<1>9. r \in [1 .. M -> SUBSET (Nat \X Nat)]
  BY <1>4, <1>8
<1>10. r \in Seq(SUBSET (Nat \X Nat)) /\ Len(r) = M
  BY <1>1, <1>9
<1> QED BY <1>5, <1>6, <1>7, <1>10 DEF se, M, r

\* What an append to watts adds to the elements that hold a line's samples.
LEMMA HoldingMore ==
    ASSUME NEW w \in Seq(SUBSET (Nat \X Nat)), NEW new \in Seq(SUBSET (Nat \X Nat)),
           NEW se, NEW l
    PROVE  HoldingIn(w \o new, se, l) =
               HoldingIn(w, se, l) \cup {Len(w) + k : k \in HoldingIn(new, se, l)}
<1> DEFINE n == Len(w)
           Has(e) == \E x \in e : x[1] = l /\ InSlice(x, se)
<1>1. /\ n \in Nat /\ DOMAIN w = 1 .. n /\ Len(new) \in Nat /\ DOMAIN new = 1 .. Len(new)
      /\ DOMAIN (w \o new) = 1 .. n + Len(new)
  BY ConcatProperties, LenProperties
<1>2. \A k \in 1 .. n : (w \o new)[k] = w[k]
  BY <1>1, ConcatProperties
<1>3. \A k \in 1 .. Len(new) : (w \o new)[n + k] = new[k] /\ n + k \in 1 .. n + Len(new)
  BY <1>1, ConcatProperties
<1>4. HoldingIn(w \o new, se, l) = {k \in DOMAIN (w \o new) : Has((w \o new)[k])}
  BY DEF HoldingIn
<1>5. /\ HoldingIn(w, se, l) = {k \in 1 .. n : Has(w[k])}
      /\ HoldingIn(new, se, l) = {k \in DOMAIN new : Has(new[k])}
  BY <1>1 DEF HoldingIn
<1>6. \A k \in 1 .. n + Len(new) : k \in 1 .. n \/ (k - n \in 1 .. Len(new) /\ k = n + (k - n))
  BY <1>1
<1> HIDE DEF n, Has
<1>7. {k \in DOMAIN (w \o new) : Has((w \o new)[k])}
        = {k \in 1 .. n : Has(w[k])} \cup {n + k : k \in {j \in DOMAIN new : Has(new[j])}}
  <2>1. ASSUME NEW k \in 1 .. n + Len(new), Has((w \o new)[k])
        PROVE  k \in {j \in 1 .. n : Has(w[j])} \cup {n + j : j \in {x \in DOMAIN new : Has(new[x])}}
    <3>1. CASE k \in 1 .. n
      BY <1>2, <2>1, <3>1
    <3>2. CASE k - n \in 1 .. Len(new) /\ k = n + (k - n)
      <4>1. (w \o new)[k] = new[k - n]
        BY <1>3, <3>2
      <4>2. k - n \in {x \in DOMAIN new : Has(new[x])}
        BY <1>1, <2>1, <3>2, <4>1
      <4> QED BY <3>2, <4>2
    <3> QED BY <1>6, <3>1, <3>2
  <2>2. ASSUME NEW k \in 1 .. n, Has(w[k])
        PROVE  k \in 1 .. n + Len(new) /\ Has((w \o new)[k])
    BY <1>1, <1>2, <2>2
  <2>3. ASSUME NEW k \in DOMAIN new, Has(new[k])
        PROVE  n + k \in 1 .. n + Len(new) /\ Has((w \o new)[n + k])
    BY <1>1, <1>3, <2>3
  <2> QED BY <1>1, <2>1, <2>2, <2>3
<1> QED BY <1>4, <1>5, <1>7 DEF n

----------------------------------------------------------------------------
\* A recorded set begins behind the one before it.
LEMMA RecordStep ==
    ASSUME Inv, Record
    PROVE  Inv'
<1> DEFINE R == [first : [lines -> Nat], second : [lines -> Nat]]
           n == Len(sets)
           begin == [l \in lines |-> IF sets = <<>> THEN 0 ELSE sets[Len(sets)].second[l] + 1]
<1>1. PICK len \in [lines -> Lengths] :
          sets' = Append(sets, [first |-> begin, second |-> [l \in lines |-> begin[l] + len[l]]])
  BY DEF Record, RecordSet
<1> DEFINE se == [first |-> begin, second |-> [l \in lines |-> begin[l] + len[l]]]
<1>2. /\ phase = "record" /\ phase' = "record" /\ interval' = interval /\ aggregate' = aggregate
      /\ nlines' = nlines /\ watts_sets' = watts_sets /\ watts' = watts /\ se_idx' = se_idx
      /\ line' = line /\ mask' = mask /\ lines' = lines
  BY DEF Record, RecordSet, reply_vars, lines
<1>3. sets \in Seq(R) /\ n \in Nat /\ DOMAIN sets = 1 .. n
  BY LenProperties DEF Inv, TypeInv
<1>4. \A i \in 1 .. n : sets[i] \in R
  BY <1>3, ElementOfSeq
<1>5. \A l \in lines : begin[l] \in Nat /\ len[l] \in Nat
  <2> SUFFICES ASSUME NEW l \in lines PROVE begin[l] \in Nat /\ len[l] \in Nat
    OBVIOUS
  <2>1. len[l] \in Nat
    BY GetReplyAssumption
  <2>2. CASE sets = <<>>
    BY <2>1, <2>2
  <2>3. CASE sets # <<>>
    <3>1. n \in 1 .. n
      BY <1>3, <2>3, EmptySeq
    <3>2. sets[n].second[l] \in Nat
      BY <1>4, <3>1
    <3> QED BY <2>1, <2>3, <3>2
  <2> QED BY <2>2, <2>3
<1>6. /\ \A l \in lines : /\ se.first[l] \in Nat /\ se.second[l] \in Nat
                          /\ se.first[l] <= se.second[l]
      /\ se \in R
  <2>1. begin \in [lines -> Nat]
    BY <1>5
  <2> HIDE DEF begin
  <2>2. [l \in lines |-> begin[l] + len[l]] \in [lines -> Nat]
    BY <1>5
  <2> QED BY <1>5, <2>1, <2>2
<1>7. ASSUME NEW l \in lines, NEW i \in 1 .. n PROVE sets[i].second[l] < se.first[l]
  <2>1. sets # <<>> /\ n \in 1 .. n
    BY <1>3, <1>7, EmptySeq
  <2>2. se.first[l] = sets[n].second[l] + 1
    BY <2>1
  <2>3. /\ sets[i].second[l] \in Nat /\ sets[n].second[l] \in Nat /\ sets[n].first[l] \in Nat
        /\ sets[n].first[l] <= sets[n].second[l]
        /\ i < n => sets[i].second[l] < sets[n].first[l]
    BY <1>4, <2>1 DEF Inv, SetsInv
  <2> HIDE DEF se
  <2>4. CASE i = n
    BY <2>2, <2>3, <2>4
  <2>5. CASE i < n
    BY <2>2, <2>3, <2>5
  <2> QED BY <1>3, <2>4, <2>5
<1> HIDE DEF R, se, begin
<1>8. /\ sets' \in Seq(R) /\ Len(sets') = n + 1 /\ sets'[n + 1] = se
      /\ \A i \in 1 .. n : sets'[i] = sets[i]
  BY <1>1, <1>3, <1>6, AppendProperties DEF se
<1>9. TypeInv'
  BY <1>2, <1>8 DEF Inv, TypeInv, R
<1>10. SetsInv'
  <2> SUFFICES ASSUME NEW l \in lines
               PROVE  /\ \A i \in 1 .. n + 1 : sets'[i].first[l] <= sets'[i].second[l]
                      /\ \A i, j \in 1 .. n + 1 : i < j => sets'[i].second[l] < sets'[j].first[l]
    BY <1>2, <1>8 DEF SetsInv
  <2>1. /\ \A i \in 1 .. n : sets[i].first[l] <= sets[i].second[l]
        /\ \A i, j \in 1 .. n : i < j => sets[i].second[l] < sets[j].first[l]
    BY DEF Inv, SetsInv
  <2>2. ASSUME NEW i \in 1 .. n + 1 PROVE sets'[i].first[l] <= sets'[i].second[l]
    <3>1. CASE i = n + 1
      BY <1>6, <1>8, <3>1
    <3>2. CASE i \in 1 .. n
      BY <1>8, <2>1, <3>2
    <3> QED BY <1>3, <3>1, <3>2
  <2>3. ASSUME NEW i \in 1 .. n + 1, NEW j \in 1 .. n + 1, i < j
        PROVE  sets'[i].second[l] < sets'[j].first[l]
    <3>1. i \in 1 .. n
      BY <1>3, <2>3
    <3>2. CASE j = n + 1
      BY <1>7, <1>8, <3>1, <3>2
    <3>3. CASE j \in 1 .. n
      BY <1>8, <2>1, <2>3, <3>1, <3>3
    <3> QED BY <1>3, <3>2, <3>3
  <2> QED BY <2>2, <2>3
<1> QED BY <1>2, <1>9, <1>10 DEF Inv, LoopInv, SizesInv, SumInv, LineInv, ShareInv, Copying

\* get() begins with one element in watts_sets.
LEMMA GetStep ==
    ASSUME Inv, Get, UNCHANGED <<mask, printed>>
    PROVE  Inv'
<1>1. /\ interval' = interval /\ aggregate' = aggregate /\ nlines' = nlines /\ sets' = sets
      /\ phase' = "sizes" /\ watts_sets' = <<0>> /\ watts' = <<>> /\ se_idx' = 1 /\ line' = 1
      /\ mask' = mask /\ lines' = lines
  BY DEF Get, counter_vars, lines
<1>2. Len(sets) \in Nat
  BY LenProperties DEF Inv, TypeInv
<1>3. TypeInv'
  BY <1>1 DEF Inv, TypeInv
<1>4. SetsInv'
  BY <1>1 DEF Inv, SetsInv
<1>5. LoopInv'
  BY <1>1, <1>2 DEF LoopInv, Copying
<1>6. SizesInv'
  BY <1>1 DEF SizesInv
<1> QED BY <1>1, <1>3, <1>4, <1>5, <1>6 DEF Inv, SumInv, LineInv, ShareInv, Copying

\* A pass of the loop that adds up the lengths.
LEMMA PushSizeStep ==
    ASSUME Inv, PushSize, UNCHANGED <<mask, printed>>
    PROVE  Inv'
<1> DEFINE n == Len(watts_sets)
           m == min_len(sets[se_idx])
<1>1. /\ interval' = interval /\ aggregate' = aggregate /\ nlines' = nlines /\ sets' = sets
      /\ phase = "sizes" /\ phase' = "sizes" /\ se_idx <= Len(sets)
      /\ watts_sets' = Append(watts_sets, m + watts_sets[n])
      /\ watts' = watts /\ se_idx' = se_idx + 1 /\ line' = line
      /\ mask' = mask /\ lines' = lines
  BY DEF PushSize, counter_vars, lines
<1>2. Len(sets) \in Nat /\ watts_sets \in Seq(Nat) /\ n \in Nat
  BY LenProperties DEF Inv, TypeInv
<1>3. n = se_idx /\ n \in 1 .. Len(sets) /\ watts = <<>> /\ line = 1
  BY <1>1, <1>2 DEF Inv, LoopInv
<1>4. m \in Nat
  BY <1>3, SetLengths DEF Inv
<1>5. watts_sets[n] \in Nat
  BY <1>2, <1>3, ElementOfSeq
<1> HIDE DEF n, m
<1>6. /\ watts_sets' \in Seq(Nat) /\ Len(watts_sets') = n + 1
      /\ watts_sets'[n + 1] = m + watts_sets[n]
      /\ \A i \in 1 .. n : watts_sets'[i] = watts_sets[i]
  BY <1>1, <1>2, <1>4, <1>5, AppendProperties DEF n
<1>7. TypeInv'
  BY <1>1, <1>6 DEF Inv, TypeInv
<1>8. SetsInv'
  BY <1>1 DEF Inv, SetsInv
<1>9. LoopInv'
  BY <1>1, <1>2, <1>3, <1>6 DEF LoopInv, Copying
<1>10. SizesInv'
  <2> SUFFICES /\ Len(watts_sets') >= 1 /\ watts_sets'[1] = 0
               /\ \A i \in 1 .. Len(watts_sets') - 1 :
                     watts_sets'[i + 1] = min_len(sets[i]) + watts_sets'[i]
    BY <1>1 DEF SizesInv, min_len, Length, lines
  <2>1. /\ n >= 1 /\ watts_sets[1] = 0
        /\ \A i \in 1 .. n - 1 : watts_sets[i + 1] = min_len(sets[i]) + watts_sets[i]
    BY <1>1 DEF Inv, SizesInv, n
  <2>2. ASSUME NEW i \in 1 .. n PROVE watts_sets'[i + 1] = min_len(sets[i]) + watts_sets'[i]
    <3>1. CASE i = n
      BY <1>3, <1>6, <3>1 DEF m
    <3>2. CASE i # n
      <4>1. i \in 1 .. n - 1 /\ i + 1 \in 1 .. n
        BY <1>3, <3>2
      <4> QED BY <1>6, <2>1, <4>1
    <3> QED BY <3>1, <3>2
  <2> QED BY <1>2, <1>3, <1>6, <2>1, <2>2
<1> QED BY <1>1, <1>7, <1>8, <1>9, <1>10 DEF Inv, SumInv, LineInv, ShareInv, Copying

\* The second loop begins with an empty reply.
LEMMA StartCopyStep ==
    ASSUME Inv, StartCopy, UNCHANGED <<mask, printed>>
    PROVE  Inv'
<1>1. /\ interval' = interval /\ aggregate' = aggregate /\ nlines' = nlines /\ sets' = sets
      /\ phase = "sizes" /\ phase' = "copy" /\ se_idx > Len(sets)
      /\ watts_sets' = watts_sets /\ watts' = watts /\ se_idx' = 1 /\ line' = line
      /\ mask' = mask /\ lines' = lines
  BY DEF StartCopy, counter_vars, lines
<1>2. Len(sets) \in Nat /\ nlines \in Nat \ {0} /\ se_idx \in Nat
  BY LenProperties DEF Inv, TypeInv
<1>3. watts = <<>> /\ line = 1 /\ Len(watts_sets) = Len(sets) + 1 /\ 1 \in lines
  BY <1>1, <1>2 DEF Inv, LoopInv, lines
<1>4. TypeInv'
  BY <1>1 DEF Inv, TypeInv
<1>5. SetsInv'
  BY <1>1 DEF Inv, SetsInv
<1>6. LoopInv'
  BY <1>1, <1>2, <1>3 DEF LoopInv, Copying
<1>7. SizesInv'
  <2> SUFFICES /\ Len(watts_sets) >= 1 /\ watts_sets[1] = 0
               /\ \A i \in 1 .. Len(watts_sets) - 1 :
                     watts_sets[i + 1] = min_len(sets[i]) + watts_sets[i]
    BY <1>1 DEF SizesInv, min_len, Length, lines
  <2> QED BY <1>1 DEF Inv, SizesInv
<1>8. watts_sets[1] = 0 /\ Len(watts) = 0 /\ DOMAIN watts = {}
  BY <1>1, <1>3 DEF Inv, SizesInv
<1>9. SumInv'
  BY <1>1, <1>8 DEF SumInv
<1>10. \A s \in 1 .. Len(sets), m \in lines : ~(s < 1 \/ (s = 1 /\ m < 1))
  BY DEF lines
<1>11. LineInv'
  BY <1>1, <1>2, <1>3, <1>8, <1>10 DEF LineInv, Start, Copied
<1>12. ShareInv'
  BY <1>1, <1>3, <1>8, <1>10 DEF ShareInv, Holding, Copied
<1> QED BY <1>4, <1>5, <1>6, <1>7, <1>9, <1>11, <1>12 DEF Inv

\* No sample lies in two slices of its line.
LEMMA OneSlice ==
    ASSUME TypeInv, SetsInv, NEW i \in 1 .. Len(sets), NEW j \in 1 .. Len(sets), NEW l \in lines,
           NEW y \in Nat, sets[i].first[l] <= y, y < sets[i].second[l]
    PROVE  InSlice(<<l, y>>, sets[j]) <=> j = i
<1>1. Len(sets) \in Nat
  BY LenProperties DEF TypeInv
<1>2. /\ sets[i].first[l] \in Nat /\ sets[i].second[l] \in Nat
      /\ sets[j].first[l] \in Nat /\ sets[j].second[l] \in Nat
  BY SetLengths
<1>3. /\ i < j => sets[i].second[l] < sets[j].first[l]
      /\ j < i => sets[j].second[l] < sets[i].first[l]
  BY DEF SetsInv
<1>4. InSlice(<<l, y>>, sets[j]) <=> sets[j].first[l] <= y /\ y < sets[j].second[l]
  BY DEF InSlice
<1>5. CASE j = i
  BY <1>4, <1>5
<1>6. CASE i < j
  BY <1>2, <1>3, <1>4, <1>6
<1>7. CASE j < i
  BY <1>2, <1>3, <1>4, <1>7
<1> QED BY <1>1, <1>5, <1>6, <1>7

\* A set's sums follow those of the sets before it.
LEMMA CopySumStep ==
    ASSUME Inv, CopySum, UNCHANGED <<mask, printed>>
    PROVE  Inv'
<1> DEFINE s == se_idx
           M == min_len(sets[s])
           r == SumLine(sets[s])
           n == Len(watts)
<1>1. /\ interval' = interval /\ aggregate' = aggregate /\ nlines' = nlines /\ sets' = sets
      /\ phase = "copy" /\ phase' = "copy" /\ s <= Len(sets) /\ aggregate
      /\ watts_sets' = watts_sets /\ watts' = watts \o r /\ se_idx' = s + 1 /\ line' = line
      /\ mask' = mask /\ lines' = lines
  BY DEF CopySum, counter_vars, lines
<1>2. /\ Len(sets) \in Nat /\ nlines \in Nat \ {0} /\ watts_sets \in Seq(Nat)
      /\ watts \in Seq(SUBSET (Nat \X Nat)) /\ n \in Nat /\ DOMAIN watts = 1 .. n
  BY LenProperties DEF Inv, TypeInv
<1>3. /\ s \in 1 .. Len(sets) /\ Len(watts_sets) = Len(sets) + 1 /\ line = 1 /\ 1 \in lines
  BY <1>1, <1>2 DEF Inv, LoopInv, Copying, lines
<1>4. TypeInv /\ SetsInv
  BY DEF Inv
<1>5. M \in Nat /\ r \in Seq(SUBSET (Nat \X Nat)) /\ Len(r) = M
  BY <1>3, <1>4, SetLengths, Sums
<1>6. /\ watts' \in Seq(SUBSET (Nat \X Nat)) /\ Len(watts') = n + M /\ DOMAIN watts' = 1 .. n + M
      /\ \A k \in 1 .. n : watts'[k] = watts[k]
      /\ \A k \in 1 .. M : watts'[n + k] = r[k]
  <2> HIDE DEF n, M, r
  <2>1. /\ watts \o r \in Seq(SUBSET (Nat \X Nat)) /\ Len(watts \o r) = n + M
        /\ \A k \in 1 .. n + M : (watts \o r)[k] = IF k <= n THEN watts[k] ELSE r[k - n]
    BY <1>2, <1>5, ConcatProperties DEF n
  <2>2. \A k \in 1 .. n : (watts \o r)[k] = watts[k]
    BY <1>2, <1>5, <2>1
  <2>3. \A k \in 1 .. M : (watts \o r)[n + k] = r[k]
    <3> SUFFICES ASSUME NEW k \in 1 .. M PROVE (watts \o r)[n + k] = r[k]
      OBVIOUS
    <3>1. n + k \in 1 .. n + M /\ ~(n + k <= n) /\ (n + k) - n = k
      BY <1>2, <1>5
    <3> QED BY <2>1, <3>1
  <2> QED BY <1>1, <1>2, <1>5, <2>1, <2>2, <2>3, LenProperties
<1>7. TypeInv'
  BY <1>1, <1>2, <1>3, <1>6 DEF Inv, TypeInv
<1>8. SetsInv'
  BY <1>1 DEF Inv, SetsInv
<1>9. LoopInv'
  BY <1>1, <1>2, <1>3 DEF LoopInv, Copying
<1>10. /\ Len(watts_sets) >= 1 /\ watts_sets[1] = 0
       /\ \A i \in 1 .. Len(watts_sets) - 1 : watts_sets[i + 1] = min_len(sets[i]) + watts_sets[i]
  BY <1>1 DEF Inv, SizesInv
<1>11. SizesInv'
  <2> SUFFICES /\ Len(watts_sets) >= 1 /\ watts_sets[1] = 0
               /\ \A i \in 1 .. Len(watts_sets) - 1 :
                     watts_sets[i + 1] = min_len(sets[i]) + watts_sets[i]
    BY <1>1 DEF SizesInv, min_len, Length, lines
  <2> QED BY <1>10
<1>12. watts_sets[s + 1] = M + watts_sets[s] /\ watts_sets[s] \in Nat
  BY <1>2, <1>3, <1>10, ElementOfSeq
<1>13. SumInv'
  <2> SUFFICES ASSUME interval = 1
               PROVE  /\ Len(watts') = watts_sets[s + 1]
                      /\ \A t \in 1 .. s : \A k \in 1 .. min_len(sets[t]) :
                            /\ watts_sets[t] + k \in DOMAIN watts'
                            /\ watts'[watts_sets[t] + k] = SumAt(sets[t], k, lines)
    <3>1. s \in Nat /\ s + 1 - 1 = s
      BY <1>2, <1>3
    <3> HIDE DEF s, r, M, n
    <3>2. \A t \in 1 .. s : min_len(sets[t])' = min_len(sets[t])
      BY <1>1 DEF min_len, Length
    <3>3. se_idx' - 1 = s
      BY <1>1, <3>1
    <3> QED BY <1>1, <3>2, <3>3 DEF SumInv
  <2>1. watts_sets[s] = n
    BY <1>1 DEF Inv, SumInv, Copying
  <2>2. ASSUME NEW t \in 1 .. s, NEW k \in 1 .. min_len(sets[t])
        PROVE  /\ watts_sets[t] + k \in DOMAIN watts'
               /\ watts'[watts_sets[t] + k] = SumAt(sets[t], k, lines)
    <3>1. CASE t = s
      <4>1. k \in 1 .. M
        BY <3>1
      <4>2. r[k] = {<<l, sets[s].first[l] + (k - 1) * interval>> : l \in lines}
        <5>1. PICK u \in Nat :
                  /\ interval = 1 => u = M
                  /\ \A j \in 1 .. M :
                        r[j] = IF j <= u THEN {<<l, sets[s].first[l] + (j - 1) * interval>> : l \in lines}
                               ELSE {}
          BY <1>3, <1>4, Sums
        <5> HIDE DEF r, M
        <5>2. k <= u
          BY <1>5, <4>1, <5>1
        <5> QED BY <4>1, <5>1, <5>2
      <4>3. \A l \in lines : sets[s].first[l] + (k - 1) * interval = sets[s].first[l] + k - 1
        <5>1. k \in Nat /\ \A l \in lines : sets[s].first[l] \in Nat
          BY <1>3, <1>4, <1>5, <4>1, SetLengths
        <5> QED BY <5>1
      <4>4. r[k] = SumAt(sets[s], k, lines)
        BY <4>2, <4>3 DEF SumAt
      <4> HIDE DEF n, M
      <4>5. n + k \in 1 .. n + M
        BY <1>2, <1>5, <4>1
      <4> QED BY <1>6, <2>1, <3>1, <4>1, <4>4, <4>5
    <3>2. CASE t # s
      <4>1. t \in 1 .. s - 1
        BY <1>3, <3>2
      <4>2. /\ watts_sets[t] + k \in 1 .. n
            /\ watts[watts_sets[t] + k] = SumAt(sets[t], k, lines)
        BY <1>1, <1>2, <4>1 DEF Inv, SumInv, Copying
      <4> HIDE DEF n, M
      <4>3. watts_sets[t] + k \in 1 .. n + M
        BY <1>2, <1>5, <4>2
      <4> QED BY <1>6, <4>2, <4>3
    <3> QED BY <3>1, <3>2
  <2>3. Len(watts') = watts_sets[s + 1]
    BY <1>2, <1>5, <1>6, <1>12, <2>1
  <2> QED BY <2>2, <2>3
<1>14. LineInv'
  BY <1>1 DEF LineInv
<1>15. ShareInv'
  <2> SUFFICES ASSUME NEW t \in 1 .. Len(sets), NEW m \in lines
               PROVE  HoldingIn(watts', sets[t], m) = HoldingIn(watts', sets[t], 1)
    BY <1>1 DEF ShareInv, Holding, HoldingIn, InSlice
  <2>1. HoldingIn(watts, sets[t], m) = HoldingIn(watts, sets[t], 1)
    BY <1>1 DEF Inv, ShareInv, Copying, Holding, HoldingIn
  <2> DEFINE new(q) == HoldingIn(r, sets[t], q)
  <2>2. ASSUME NEW q \in lines
        PROVE  HoldingIn(watts', sets[t], q) = HoldingIn(watts, sets[t], q) \cup {n + k : k \in new(q)}
    <3> HIDE DEF r
    <3> QED BY <1>1, <1>2, <1>5, HoldingMore
  <2>3. PICK u \in Nat : \A k \in 1 .. M :
            r[k] = IF k <= u THEN {<<l, sets[s].first[l] + (k - 1) * interval>> : l \in lines}
                   ELSE {}
    BY <1>3, <1>4, Sums
  <2>4. ASSUME NEW q \in lines PROVE new(q) = {j \in 1 .. M : j <= u /\ t = s}
    <3>1. ASSUME NEW j \in 1 .. M
          PROVE  (\E x \in r[j] : x[1] = q /\ InSlice(x, sets[t])) <=> (j <= u /\ t = s)
      <4> DEFINE y == sets[s].first[q] + (j - 1) * interval
      <4>1. y \in Nat /\ sets[s].first[q] <= y /\ y < sets[s].second[q]
        BY <1>3, <1>4, Sums
      <4>2. InSlice(<<q, y>>, sets[t]) <=> t = s
        BY <1>3, <1>4, <4>1, OneSlice
      <4>3. CASE j <= u
        <5>1. r[j] = {<<l, sets[s].first[l] + (j - 1) * interval>> : l \in lines}
          BY <2>3, <4>3
        <5>2. \A x \in r[j] : x[1] = q => x = <<q, y>>
          BY <5>1
        <5>3. <<q, y>> \in r[j] /\ <<q, y>>[1] = q
          BY <5>1
        <5> HIDE DEF y, r
        <5> QED BY <4>2, <4>3, <5>2, <5>3
      <4>4. CASE ~(j <= u)
        <5>1. r[j] = {}
          BY <2>3, <4>4
        <5> QED BY <4>4, <5>1
      <4> QED BY <4>3, <4>4
    <3>2. DOMAIN r = 1 .. M
      BY <1>5, LenProperties
    <3> HIDE DEF r, M
    <3> QED BY <3>1, <3>2 DEF HoldingIn
  <2>5. new(m) = new(1)
    BY <1>3, <2>4
  <2> HIDE DEF new
  <2> QED BY <1>3, <2>1, <2>2, <2>5
<1> QED BY <1>7, <1>8, <1>9, <1>11, <1>13, <1>14, <1>15 DEF Inv

\* A line's series follows the series before it.
LEMMA CopyOneLineStep ==
    ASSUME Inv, CopyOneLine, UNCHANGED <<mask, printed>>
    PROVE  Inv'
<1> DEFINE s == se_idx
           m == line
           S == Share(sets[s])
           r == CopyLine(sets[s], m)
           n == Len(watts)
<1>1. /\ interval' = interval /\ aggregate' = aggregate /\ nlines' = nlines /\ sets' = sets
      /\ phase = "copy" /\ phase' = "copy" /\ s <= Len(sets) /\ ~aggregate
      /\ watts_sets' = watts_sets /\ watts' = watts \o r
      /\ mask' = mask /\ lines' = lines
  BY DEF CopyOneLine, counter_vars, lines
<1>2. /\ m < nlines => line' = m + 1 /\ se_idx' = s
      /\ ~(m < nlines) => line' = 1 /\ se_idx' = s + 1
  BY DEF CopyOneLine
<1>3. /\ Len(sets) \in Nat /\ nlines \in Nat \ {0} /\ interval \in Nat \ {0} /\ watts_sets \in Seq(Nat)
      /\ watts \in Seq(SUBSET (Nat \X Nat)) /\ n \in Nat /\ DOMAIN watts = 1 .. n
  BY LenProperties DEF Inv, TypeInv
<1>4. /\ s \in 1 .. Len(sets) /\ m \in lines /\ m \in 1 .. nlines /\ Len(watts_sets) = Len(sets) + 1
  BY <1>1, <1>3 DEF Inv, LoopInv, Copying, lines
<1>5. TypeInv /\ SetsInv
  BY DEF Inv
<1>6. S \in Nat /\ r \in Seq(SUBSET (Nat \X Nat)) /\ Len(r) = S
  BY <1>4, <1>5, Series
<1>7. /\ watts' \in Seq(SUBSET (Nat \X Nat)) /\ Len(watts') = n + S /\ DOMAIN watts' = 1 .. n + S
      /\ \A k \in 1 .. n : watts'[k] = watts[k]
      /\ \A k \in 1 .. S : watts'[n + k] = r[k]
  <2> HIDE DEF n, S, r
  <2>1. /\ watts \o r \in Seq(SUBSET (Nat \X Nat)) /\ Len(watts \o r) = n + S
        /\ \A k \in 1 .. n + S : (watts \o r)[k] = IF k <= n THEN watts[k] ELSE r[k - n]
    BY <1>3, <1>6, ConcatProperties DEF n
  <2>2. \A k \in 1 .. n : (watts \o r)[k] = watts[k]
    BY <1>3, <1>6, <2>1
  <2>3. \A k \in 1 .. S : (watts \o r)[n + k] = r[k]
    <3> SUFFICES ASSUME NEW k \in 1 .. S PROVE (watts \o r)[n + k] = r[k]
      OBVIOUS
    <3>1. n + k \in 1 .. n + S /\ ~(n + k <= n) /\ (n + k) - n = k
      BY <1>3, <1>6
    <3> QED BY <2>1, <3>1
  <2> QED BY <1>1, <1>3, <1>6, <2>1, <2>2, <2>3, LenProperties
<1>8. /\ line' \in lines /\ se_idx' \in 1 .. Len(sets) + 1 /\ line' \in Nat /\ se_idx' \in Nat
      /\ se_idx' = Len(sets) + 1 => line' = 1
  <2>1. CASE m < nlines
    BY <1>2, <1>3, <1>4, <2>1 DEF lines
  <2>2. CASE ~(m < nlines)
    BY <1>2, <1>3, <1>4, <2>2 DEF lines
  <2> QED BY <2>1, <2>2
<1>9. TypeInv'
  BY <1>1, <1>7, <1>8 DEF Inv, TypeInv
<1>10. SetsInv'
  BY <1>1 DEF Inv, SetsInv
<1>11. LoopInv'
  BY <1>1, <1>3, <1>4, <1>8 DEF LoopInv, Copying
<1>12. /\ Len(watts_sets) >= 1 /\ watts_sets[1] = 0
       /\ \A i \in 1 .. Len(watts_sets) - 1 : watts_sets[i + 1] = min_len(sets[i]) + watts_sets[i]
  BY <1>1 DEF Inv, SizesInv
<1>13. SizesInv'
  <2> SUFFICES /\ Len(watts_sets) >= 1 /\ watts_sets[1] = 0
               /\ \A i \in 1 .. Len(watts_sets) - 1 :
                     watts_sets[i + 1] = min_len(sets[i]) + watts_sets[i]
    BY <1>1 DEF SizesInv, min_len, Length, lines
  <2> QED BY <1>12
<1>14. SumInv'
  BY <1>1 DEF SumInv
<1>15. \A t \in 1 .. Len(sets), q \in lines : Copied(t, q)' <=> Copied(t, q) \/ (t = s /\ q = m)
  <2> SUFFICES ASSUME NEW t \in 1 .. Len(sets), NEW q \in 1 .. nlines
               PROVE  t < se_idx' \/ (t = se_idx' /\ q < line')
                        <=> t < s \/ (t = s /\ q < m) \/ (t = s /\ q = m)
    BY DEF Copied, lines
  <2>1. CASE m < nlines
    BY <1>2, <1>3, <1>4, <2>1
  <2>2. CASE ~(m < nlines)
    BY <1>2, <1>3, <1>4, <2>2
  <2> QED BY <2>1, <2>2
<1>16. LineInv'
  <2> DEFINE M == min_len(sets[s])
             W == watts_sets[s]
  <2>1. M \in Nat /\ W \in Nat /\ watts_sets[s + 1] = M + W
    BY <1>3, <1>4, <1>5, <1>12, SetLengths, ElementOfSeq, SMTT(30)
  <2> SUFFICES ASSUME interval = 1
               PROVE  /\ Len(watts') = Start(se_idx', line')
                      /\ \A t \in 1 .. Len(sets), q \in lines : Copied(t, q) \/ (t = s /\ q = m) =>
                            \A k \in 1 .. min_len(sets[t]) :
                                /\ Start(t, q) + k \in DOMAIN watts'
                                /\ watts'[Start(t, q) + k] = {<<q, sets[t].first[q] + k - 1>>}
    <3>1. Start(se_idx, line)' = Start(se_idx', line')
      BY <1>1 DEF Start, min_len, Length
    <3>2. \A t \in 1 .. Len(sets) : min_len(sets[t])' = min_len(sets[t])
      BY <1>1 DEF min_len, Length
    <3>3. \A t \in 1 .. Len(sets), q \in lines : Start(t, q)' = Start(t, q)
      BY <1>1, <3>2 DEF Start
    <3> QED BY <1>1, <1>15, <3>1, <3>2, <3>3 DEF LineInv
  <2>2. n = Start(s, m) /\ S = M
    BY <1>1, <1>4, <1>5, Series DEF Inv, LineInv, Copying
  <2>3. Len(watts') = Start(se_idx', line')
    <3> DEFINE a == nlines * W
               b == (m - 1) * M
    <3>1. Start(s, m) = a + (IF m = 1 THEN 0 ELSE b)
      BY DEF Start
    <3>2. m + 1 # 1 /\ m + 1 - 1 = m /\ Start(s, m + 1) = a + m * M
      <4> DEFINE e == m + 1
      <4>1. m + 1 # 1 /\ m + 1 - 1 = m /\ e # 1 /\ e - 1 = m
        BY <1>3, <1>4
      <4> HIDE DEF e
      <4>2. Start(s, e) = a + (IF e = 1 THEN 0 ELSE (e - 1) * M)
        BY DEF Start
      <4> HIDE DEF a, m, M
      <4>3. Start(s, e) = a + m * M
        BY <4>1, <4>2
      <4> QED BY <4>1, <4>3 DEF e
    <3>3. Start(s + 1, 1) = nlines * (M + W)
      <4>1. Start(s + 1, 1) = nlines * watts_sets[s + 1] + 0
        BY DEF Start
      <4> HIDE DEF M, W
      <4>2. nlines * (M + W) + 0 = nlines * (M + W)
        BY <1>3, <2>1
      <4> QED BY <2>1, <4>1, <4>2
    <3> HIDE DEF M, W, n, S, s, m
    <3>4. a \in Nat /\ b \in Nat /\ m * M \in Nat /\ b + M = m * M /\ (m = 1 => b = 0)
      <4>1. m \in Nat \ {0}
        BY <1>3, <1>4
      <4> QED BY <1>3, <2>1, <4>1
    <3>5. a + (IF m = 1 THEN 0 ELSE b) = a + b
      BY <3>4
    <3> DEFINE c == m * M
    <3>6. n + S = a + c
      <4>1. n = a + b /\ S = M /\ a \in Nat /\ b \in Nat /\ M \in Nat /\ c \in Nat /\ b + M = c
        BY <2>1, <2>2, <3>1, <3>4, <3>5
      <4> HIDE DEF a, b, c
      <4> QED BY <4>1
    <3>7. CASE m < nlines
      BY <1>2, <1>7, <3>2, <3>6, <3>7
    <3>8. CASE ~(m < nlines)
      <4>1. m = nlines
        BY <1>3, <1>4, <3>8
      <4>2. nlines * (M + W) = a + c
        BY <1>3, <2>1, <4>1
      <4> HIDE DEF a, c
      <4> QED BY <1>2, <1>7, <3>3, <3>6, <3>8, <4>2
    <3> QED BY <3>7, <3>8
  <2>4. ASSUME NEW t \in 1 .. Len(sets), NEW q \in lines, Copied(t, q) \/ (t = s /\ q = m),
               NEW k \in 1 .. min_len(sets[t])
        PROVE  /\ Start(t, q) + k \in DOMAIN watts'
               /\ watts'[Start(t, q) + k] = {<<q, sets[t].first[q] + k - 1>>}
    <3>1. CASE Copied(t, q)
      <4>1. /\ Start(t, q) + k \in 1 .. n
            /\ watts[Start(t, q) + k] = {<<q, sets[t].first[q] + k - 1>>}
        BY <1>1, <1>3, <3>1 DEF Inv, LineInv, Copying
      <4> HIDE DEF n, S
      <4>2. Start(t, q) + k \in 1 .. n + S
        BY <1>3, <1>6, <4>1
      <4> QED BY <1>7, <4>1, <4>2
    <3>2. CASE t = s /\ q = m
      <4>1. k \in 1 .. S
        BY <2>2, <3>2
      <4>2. r[k] = {<<m, sets[s].first[m] + (k - 1) * interval>>}
        BY <1>4, <1>5, <4>1, Series, SMTT(30)
      <4>3. sets[s].first[m] + (k - 1) * interval = sets[s].first[m] + k - 1
        <5>1. sets[s].first[m] \in Nat
          BY <1>4, <1>5, SetLengths
        <5> DEFINE f == sets[s].first[m]
        <5> HIDE DEF f, S
        <5>2. k \in Nat
          BY <1>6, <4>1
        <5>3. f \in Nat
          BY <5>1 DEF f
        <5>4. f + (k - 1) * interval = f + k - 1
          BY <5>2, <5>3
        <5> QED BY <5>4 DEF f
      <4> HIDE DEF n, S, r
      <4>4. n + k \in 1 .. n + S
        BY <1>3, <1>6, <4>1
      <4> QED BY <1>7, <2>2, <3>2, <4>1, <4>2, <4>3, <4>4
    <3> QED BY <2>4, <3>1, <3>2
  <2> QED BY <2>3, <2>4
<1>17. ShareInv'
  <2> SUFFICES ASSUME NEW t \in 1 .. Len(sets), NEW q \in lines
               PROVE  IF Copied(t, q)' THEN Cardinality(HoldingIn(watts', sets[t], q)) = Share(sets[t])
                      ELSE HoldingIn(watts', sets[t], q) = {}
    <3>1. \A t \in 1 .. Len(sets) : Share(sets[t])' = Share(sets[t])
      BY <1>1 DEF Share, min_len, Length
    <3>2. \A t \in 1 .. Len(sets), q \in lines : Holding(t, q)' = HoldingIn(watts', sets[t], q)
      BY <1>1 DEF Holding, HoldingIn, InSlice
    <3> QED BY <1>1, <3>1, <3>2 DEF ShareInv
  <2>1. /\ Copied(t, q) => Cardinality(HoldingIn(watts, sets[t], q)) = Share(sets[t])
        /\ ~Copied(t, q) => HoldingIn(watts, sets[t], q) = {}
    BY <1>1 DEF Inv, ShareInv, Copying, Holding, HoldingIn
  <2> DEFINE new == HoldingIn(r, sets[t], q)
  <2>2. HoldingIn(watts', sets[t], q) = HoldingIn(watts, sets[t], q) \cup {n + k : k \in new}
    <3> HIDE DEF r
    <3> QED BY <1>1, <1>3, <1>6, HoldingMore
  <2>3. DOMAIN r = 1 .. S
    BY <1>6, LenProperties
  <2>4. ASSUME NEW k \in 1 .. S
        PROVE  (\E x \in r[k] : x[1] = q /\ InSlice(x, sets[t])) <=> (t = s /\ q = m)
    <3> DEFINE y == sets[s].first[m] + (k - 1) * interval
    <3>1. /\ y \in Nat /\ sets[s].first[m] <= y /\ y < sets[s].second[m]
          /\ r[k] = {<<m, y>>}
      BY <1>4, <1>5, Series
    <3>2. InSlice(<<m, y>>, sets[t]) <=> t = s
      BY <1>4, <1>5, <3>1, OneSlice, SMTT(30)
    <3> HIDE DEF y, r
    <3> QED BY <3>1, <3>2
  <2>5. CASE t = s /\ q = m
    <3>1. new = 1 .. S
      <4> HIDE DEF r, S
      <4> QED BY <2>3, <2>4, <2>5 DEF HoldingIn
    <3>2. ~Copied(t, q) /\ Copied(t, q)'
      BY <1>3, <1>4, <1>15, <2>5 DEF Copied
    <3>3. HoldingIn(watts', sets[t], q) = {n + k : k \in 1 .. S}
      BY <2>1, <2>2, <3>1, <3>2
    <3> HIDE DEF n, S, r, new
    <3>4. {n + k : k \in 1 .. S} = (n + 1) .. (n + S)
      <4>1. \A j \in (n + 1) .. (n + S) : j - n \in 1 .. S /\ j = n + (j - n)
        BY <1>3, <1>6
      <4>2. \A k \in 1 .. S : n + k \in (n + 1) .. (n + S)
        BY <1>3, <1>6
      <4> QED BY <4>1, <4>2
    <3>5. Cardinality((n + 1) .. (n + S)) = S
      <4>1. /\ n + 1 \in Int /\ n + S \in Int /\ ((n + 1 > n + S) => S = 0)
            /\ (n + S) - (n + 1) + 1 = S
        BY <1>3, <1>6
      <4> QED BY <4>1, FS_Interval
    <3> QED BY <2>5, <3>2, <3>3, <3>4, <3>5 DEF S
  <2>6. CASE ~(t = s /\ q = m)
    <3>1. new = {}
      <4> HIDE DEF r, S
      <4> QED BY <2>3, <2>4, <2>6 DEF HoldingIn
    <3>2. Copied(t, q)' <=> Copied(t, q)
      BY <1>15, <2>6
    <3> HIDE DEF n, S, r, new
    <3>3. HoldingIn(watts', sets[t], q) = HoldingIn(watts, sets[t], q)
      BY <2>2, <3>1
    <3> QED BY <2>1, <3>2, <3>3
  <2> QED BY <2>5, <2>6
<1> QED BY <1>9, <1>10, <1>11, <1>13, <1>14, <1>16, <1>17 DEF Inv

\* A step that leaves the counter and the reply alone after the copy.
LEMMA ReplyKept ==
    ASSUME Inv, UNCHANGED <<counter_vars, reply_vars, mask>>, Copying,
           \/ phase' = phase \/ (phase' = "sent" /\ se_idx > Len(sets))
           \/ phase \in {"sent", "stream"} /\ phase' \in {"stream", "printed"}
    PROVE  Inv'
<1>1. /\ interval' = interval /\ aggregate' = aggregate /\ nlines' = nlines /\ sets' = sets
      /\ watts_sets' = watts_sets /\ watts' = watts /\ se_idx' = se_idx /\ line' = line
      /\ mask' = mask /\ lines' = lines
  BY DEF counter_vars, reply_vars, lines
<1>2. Copying' /\ phase' \in {"copy", "sent", "stream", "printed"}
  BY DEF Copying
<1>3. Len(sets) \in Nat /\ se_idx \in 1 .. Len(sets) + 1
  BY LenProperties DEF Inv, TypeInv, LoopInv
<1>4. \A t \in 1 .. Len(sets) : min_len(sets[t])' = min_len(sets[t])
  BY <1>1 DEF min_len, Length
<1>5. TypeInv'
  BY <1>1, <1>2 DEF Inv, TypeInv
<1>6. SetsInv'
  BY <1>1 DEF Inv, SetsInv
<1>7. LoopInv'
  <2>1. phase' \in {"sent", "stream", "printed"} => se_idx = Len(sets) + 1
    BY <1>3 DEF Inv, LoopInv
  <2>2. Len(watts_sets) = Len(sets) + 1 /\ line \in lines
    BY DEF Inv, LoopInv
  <2>3. aggregate \/ se_idx = Len(sets) + 1 => line = 1
    BY DEF Inv, LoopInv
  <2> QED BY <1>1, <1>2, <1>3, <2>1, <2>2, <2>3 DEF LoopInv
<1>8. SizesInv'
  <2> SUFFICES /\ Len(watts_sets) >= 1 /\ watts_sets[1] = 0
               /\ \A i \in 1 .. Len(watts_sets) - 1 :
                     watts_sets[i + 1] = min_len(sets[i]) + watts_sets[i]
    BY <1>1 DEF SizesInv, min_len, Length, lines
  <2> QED BY DEF Inv, SizesInv, Copying
<1>9. SumInv'
  <2>1. \A t \in 1 .. se_idx - 1 : min_len(sets[t])' = min_len(sets[t])
    BY <1>3, <1>4
  <2> QED BY <1>1, <2>1 DEF Inv, SumInv
<1>10. LineInv'
  <2>1. Start(se_idx, line)' = Start(se_idx, line)
    BY <1>1 DEF Start, min_len, Length
  <2>2. \A t \in 1 .. Len(sets), q \in lines : Start(t, q)' = Start(t, q)
    BY <1>1, <1>4 DEF Start
  <2>3. \A t \in 1 .. Len(sets), q \in lines : Copied(t, q)' = Copied(t, q)
    BY <1>1 DEF Copied
  <2> QED BY <1>1, <1>4, <2>1, <2>2, <2>3 DEF Inv, LineInv
<1>11. ShareInv'
  <2>1. \A t \in 1 .. Len(sets) : Share(sets[t])' = Share(sets[t])
    BY <1>1, <1>4 DEF Share
  <2>2. \A t \in 1 .. Len(sets), q \in lines : Holding(t, q)' = Holding(t, q)
    BY <1>1 DEF Holding, InSlice
  <2>3. \A t \in 1 .. Len(sets) : Holding(t, 1)' = Holding(t, 1)
    BY <1>1 DEF Holding, InSlice
  <2>4. \A t \in 1 .. Len(sets), q \in lines : Copied(t, q)' = Copied(t, q)
    BY <1>1 DEF Copied
  <2> QED BY <1>1, <2>1, <2>2, <2>3, <2>4 DEF Inv, ShareInv
<1> QED BY <1>5, <1>6, <1>7, <1>8, <1>9, <1>10, <1>11 DEF Inv

\* Nothing is recorded or received yet.
LEMMA InitInv ==
    ASSUME PrintInit
    PROVE  Inv
<1>1. /\ interval \in Nat \ {0} /\ aggregate \in BOOLEAN /\ nlines \in Nat \ {0}
      /\ sets = <<>> /\ watts_sets = <<>> /\ watts = <<>> /\ se_idx = 0 /\ line = 0
      /\ phase = "record" /\ mask \subseteq Bits /\ Cardinality(mask) >= nlines
  BY GetReplyAssumption DEF PrintInit, Init
<1>2. TypeInv
  BY <1>1 DEF TypeInv
<1>3. SetsInv
  BY <1>1 DEF SetsInv
<1> QED BY <1>1, <1>2, <1>3 DEF Inv, LoopInv, SizesInv, SumInv, LineInv, ShareInv, Copying

\* A step that prints.
PrintAny ==
    \/ PrintCsv \/ PrintStdout \/ PrintText \/ PrintOtf \/ PrintParaver
    \/ PrintPstates \/ PrintCstates \/ CalculateEnergy

\* A step of pm_get_and_print_data_paraver.
StreamAny == GetAndPrint \/ StreamElement \/ StreamExits \/ StreamLineEnds \/ StreamReturns

\* Printing takes the reply as it is.
LEMMA PrintFrame ==
    ASSUME PrintAny
    PROVE  /\ phase = "sent" /\ phase' = "printed"
           /\ UNCHANGED <<counter_vars, reply_vars, mask, stream_vars>>
BY DEF PrintAny, PrintCsv, PrintStdout, PrintText, PrintOtf, PrintParaver, PrintPstates,
       PrintCstates, CalculateEnergy, Prints, Outcome

\* So does printing while receiving.
LEMMA StreamFrame ==
    ASSUME StreamAny
    PROVE  /\ phase \in {"sent", "stream"} /\ phase' \in {"stream", "printed"}
           /\ UNCHANGED <<counter_vars, reply_vars, mask>>
           /\ phase' = "printed" => printed'.format = "stream"
<1>1. CASE GetAndPrint
  BY <1>1 DEF GetAndPrint
<1>2. CASE StreamElement
  BY <1>2 DEF StreamElement, Receiving
<1>3. CASE StreamExits
  BY <1>3 DEF StreamExits, Receiving
<1>4. CASE StreamLineEnds
  BY <1>4 DEF StreamLineEnds
<1>5. CASE StreamReturns
  BY <1>5 DEF StreamReturns
<1> QED BY <1>1, <1>2, <1>3, <1>4, <1>5 DEF StreamAny

\* Every step keeps the invariant.
LEMMA InvStep ==
    ASSUME Inv, [Next]_vars
    PROVE  Inv'
<1>1. CASE Record
  BY <1>1, RecordStep
<1>2. CASE GetData
  <2>1. UNCHANGED <<mask, printed>>
    BY <1>2 DEF GetData
  <2>2. CASE Get
    BY <2>1, <2>2, GetStep
  <2>3. CASE PushSize
    BY <2>1, <2>3, PushSizeStep
  <2>4. CASE StartCopy
    BY <2>1, <2>4, StartCopyStep
  <2>5. CASE CopySum
    BY <2>1, <2>5, CopySumStep
  <2>6. CASE CopyOneLine
    BY <2>1, <2>6, CopyOneLineStep
  <2>7. CASE Send
    <3>1. /\ phase = "copy" /\ phase' = "sent" /\ se_idx > Len(sets)
          /\ UNCHANGED <<counter_vars, reply_vars, mask>>
      BY <2>1, <2>7 DEF Send
    <3>2. Copying
      BY <3>1 DEF Copying
    <3> QED BY <3>1, <3>2, ReplyKept
  <2> QED BY <1>2, <2>2, <2>3, <2>4, <2>5, <2>6, <2>7 DEF GetData
<1>3. CASE PrintAny
  <2>1. Copying
    BY <1>3, PrintFrame DEF Copying
  <2> QED BY <1>3, <2>1, PrintFrame, ReplyKept
<1>4. CASE StreamAny
  <2>1. Copying
    BY <1>4, StreamFrame DEF Copying
  <2> QED BY <1>4, <2>1, StreamFrame, ReplyKept
<1>5. CASE UNCHANGED vars
  <2>1. UNCHANGED <<counter_vars, reply_vars, mask>> /\ phase' = phase
    BY <1>5 DEF vars
  <2>2. CASE Copying
    BY <2>1, <2>2, ReplyKept
  <2>3. CASE ~Copying
    <3>1. /\ interval' = interval /\ aggregate' = aggregate /\ nlines' = nlines /\ sets' = sets
          /\ watts_sets' = watts_sets /\ watts' = watts /\ se_idx' = se_idx /\ line' = line
          /\ mask' = mask /\ lines' = lines
      BY <2>1 DEF counter_vars, reply_vars, lines
    <3>2. ~Copying'
      BY <2>1, <2>3 DEF Copying
    <3>3. TypeInv'
      BY <2>1, <3>1 DEF Inv, TypeInv
    <3>4. SetsInv'
      BY <3>1 DEF Inv, SetsInv
    <3>5. LoopInv'
      BY <2>1, <2>3, <3>1, <3>2 DEF Inv, LoopInv, Copying
    <3>6. SizesInv'
      <4> SUFFICES ASSUME phase # "record"
                   PROVE  /\ Len(watts_sets) >= 1 /\ watts_sets[1] = 0
                          /\ \A i \in 1 .. Len(watts_sets) - 1 :
                                watts_sets[i + 1] = min_len(sets[i]) + watts_sets[i]
        BY <2>1, <3>1 DEF SizesInv, min_len, Length, lines
      <4> QED BY DEF Inv, SizesInv
    <3> QED BY <3>2, <3>3, <3>4, <3>5, <3>6 DEF Inv, SumInv, LineInv, ShareInv
  <2> QED BY <2>2, <2>3
<1> QED BY <1>1, <1>2, <1>3, <1>4, <1>5 DEF Next, PrintAny, StreamAny

(***************************************************************************)
(* Whatever was recorded and however far get() is, the part of the reply   *)
(* it has built has its layout.                                            *)
(***************************************************************************)
THEOREM ReplyLayout == Spec => []Inv
<1>1. PrintInit => Inv
  BY InitInv
<1>2. Inv /\ [Next]_vars => Inv'
  BY InvStep
<1> QED BY <1>1, <1>2, PTL DEF Spec

(***************************************************************************)
(* Counter::get sends as many samples of a line in a set as of every other *)
(* line, whatever the lines' own lengths and the stride are.               *)
(***************************************************************************)
THEOREM LinesAligned == Spec => []LinesContributeEqually
<1>1. Inv => LinesContributeEqually
  <2> SUFFICES ASSUME Inv, phase \in {"sent", "stream", "printed"}, NEW i \in 1 .. Len(sets), NEW l \in lines
               PROVE  Contribution(i, l) = Contribution(i, 1)
    BY DEF LinesContributeEqually
  <2>1. Copying /\ se_idx = Len(sets) + 1 /\ Len(sets) \in Nat /\ 1 \in lines
    BY LenProperties DEF Copying, Inv, LoopInv, TypeInv, lines
  <2>2. Copied(i, l) /\ Copied(i, 1)
    BY <2>1 DEF Copied
  <2>3. CASE aggregate
    <3>1. Holding(i, l) = Holding(i, 1)
      BY <2>1, <2>3 DEF Inv, ShareInv
    <3> QED BY <3>1 DEF Contribution
  <2>4. CASE ~aggregate
    <3>1. /\ Cardinality(Holding(i, l)) = Share(sets[i])
          /\ Cardinality(Holding(i, 1)) = Share(sets[i])
      BY <2>1, <2>2, <2>4 DEF Inv, ShareInv
    <3> QED BY <3>1 DEF Contribution
  <2> QED BY <2>3, <2>4
<1> QED BY <1>1, ReplyLayout, PTL

----------------------------------------------------------------------------
\* The places of a mask's bits are 1 .. their number, each taken once.
LEMMA Ranks ==
    ASSUME NEW S, S \subseteq Nat, IsFiniteSet(S)
    PROVE  /\ Cardinality(S) \in Nat
           /\ \A b \in S : Rank(b, S) \in 1 .. Cardinality(S) /\ Nth(S, Rank(b, S)) = b
           /\ \A j \in 1 .. Cardinality(S) : Nth(S, j) \in S /\ Rank(Nth(S, j), S) = j
           /\ \A b, c \in S : Rank(b, S) = Rank(c, S) => b = c
<1> DEFINE N == Cardinality(S)
           T(b) == {x \in S : x <= b}
           f == [b \in S |-> Rank(b, S)]
<1>1. N \in Nat
  BY FS_CardinalityType
<1>2. \A b \in S : /\ IsFiniteSet(T(b)) /\ Cardinality(T(b)) \in Nat
                   /\ Cardinality(T(b)) <= N /\ Rank(b, S) = Cardinality(T(b))
  <2> SUFFICES ASSUME NEW b \in S
               PROVE  /\ IsFiniteSet(T(b)) /\ Cardinality(T(b)) \in Nat
                      /\ Cardinality(T(b)) <= N /\ Rank(b, S) = Cardinality(T(b))
    OBVIOUS
  <2>1. T(b) \in SUBSET S
    OBVIOUS
  <2>2. Rank(b, S) = Cardinality(T(b))
    BY DEF Rank
  <2> HIDE DEF T
  <2>3. IsFiniteSet(T(b)) /\ Cardinality(T(b)) <= N
    BY <2>1, FS_Subset
  <2> QED BY <2>2, <2>3, FS_CardinalityType
<1>3. \A b \in S : Rank(b, S) \in 1 .. N
  <2> SUFFICES ASSUME NEW b \in S PROVE Rank(b, S) \in 1 .. N
    OBVIOUS
  <2>1. b \in T(b)
    OBVIOUS
  <2>2. T(b) # {}
    BY <2>1
  <2> HIDE DEF T
  <2>3. Cardinality(T(b)) # 0
    BY <1>2, <2>2, FS_EmptySet
  <2> QED BY <1>1, <1>2, <2>3
<1>4. ASSUME NEW b \in S, NEW c \in S, b < c PROVE Rank(b, S) < Rank(c, S)
  <2>1. T(b) \in SUBSET T(c)
    <3>1. \A x \in S : x \in Nat /\ (x <= b => x <= c)
      BY <1>4
    <3> QED BY <3>1
  <2>2. c \in T(c) /\ c \notin T(b)
    BY <1>4
  <2>3. T(c) # T(b)
    BY <2>2
  <2> HIDE DEF T
  <2>4. Cardinality(T(b)) <= Cardinality(T(c)) /\ Cardinality(T(c)) # Cardinality(T(b))
    BY <1>2, <2>1, <2>3, FS_Subset
  <2> QED BY <1>2, <2>4
<1>5. ASSUME NEW b \in S, NEW c \in S, Rank(b, S) = Rank(c, S) PROVE b = c
  <2>1. Rank(b, S) \in Nat /\ Rank(c, S) \in Nat
    BY <1>2
  <2>2. ~(b < c) /\ ~(c < b)
    BY <1>4, <1>5, <2>1
  <2>3. b \in Nat /\ c \in Nat
    OBVIOUS
  <2> QED BY <2>2, <2>3
<1>6. f \in Injection(S, 1 .. N)
  <2>1. f \in [S -> 1 .. N]
    BY <1>3
  <2>2. \A b, c \in S : f[b] = f[c] => b = c
    BY <1>5
  <2> QED BY <2>1, <2>2 DEF Injection, IsInjective
<1>7. IsFiniteSet(1 .. N) /\ Cardinality(1 .. N) = N
  <2> HIDE DEF N
  <2>1. (1 > N => N = 0) /\ N - 1 + 1 = N
    BY <1>1
  <2> QED BY <1>1, <2>1, FS_Interval
<1>8. f \in Surjection(S, 1 .. N)
  <2> HIDE DEF f
  <2> QED BY <1>6, <1>7, FS_Injection
<1>9. ASSUME NEW j \in 1 .. N PROVE Nth(S, j) \in S /\ Rank(Nth(S, j), S) = j
  <2>1. \E b \in S : f[b] = j
    BY <1>8 DEF Surjection
  <2>2. \E b \in S : Rank(b, S) = j
    BY <2>1
  <2> QED BY <2>2 DEF Nth
<1>10. ASSUME NEW b \in S PROVE Nth(S, Rank(b, S)) = b
  BY <1>3, <1>5, <1>9
<1> QED BY <1>1, <1>3, <1>5, <1>9, <1>10

\* The lines of a counter and those chosen among them are masks of 128 bits.
LEMMA MaskRanks ==
    ASSUME TypeInv, NEW pm, pm \subseteq mask
    PROVE  /\ pm \subseteq Nat /\ IsFiniteSet(pm) /\ IsFiniteSet(mask) /\ mask \subseteq Nat
           /\ Cardinality(pm) \in Nat /\ Cardinality(mask) \in Nat
           /\ Cardinality(pm) <= Cardinality(mask)
           /\ p_lines(pm) = pm
<1> DEFINE top == 127
<1>1. top \in Nat /\ mask \subseteq 0 .. top
  BY ClientPrintAssumption DEF TypeInv
<1> HIDE DEF top
<1>2. mask \subseteq Nat /\ IsFiniteSet(mask)
  <2>1. IsFiniteSet(0 .. top)
    BY <1>1, FS_Interval
  <2>2. IsFiniteSet(mask)
    BY <1>1, <2>1, FS_Subset
  <2> QED BY <1>1, <2>2
<1>3. pm \subseteq Nat /\ IsFiniteSet(pm) /\ Cardinality(pm) <= Cardinality(mask)
  BY <1>2, FS_Subset
<1> QED BY <1>2, <1>3, FS_CardinalityType DEF p_lines

\* Lines of the device among the counter's are no more than it has.
LEMMA FewLines ==
    ASSUME TypeInv, NEW pm, pm \subseteq mask, OfDevice(pm)
    PROVE  Cardinality(pm) <= nlines /\ n_lines_print(pm) = Cardinality(pm)
<1> DEFINE f == [b \in pm |-> Rank(b, mask)]
<1>1. nlines \in Nat \ {0}
  BY DEF TypeInv
<1>2. \A b \in pm : Rank(b, mask) \in 1 .. nlines
  <2>1. \A b \in pm : Rank(b, mask) \in 1 .. Cardinality(mask) /\ Rank(b, mask) <= nlines
    BY MaskRanks, Ranks DEF OfDevice
  <2> QED BY <1>1, <2>1, MaskRanks
<1>3. \A b, c \in pm : Rank(b, mask) = Rank(c, mask) => b = c
  BY MaskRanks, Ranks
<1>4. f \in Injection(pm, 1 .. nlines)
  BY <1>2, <1>3 DEF Injection, IsInjective
<1>5. IsFiniteSet(1 .. nlines) /\ Cardinality(1 .. nlines) = nlines
  BY <1>1, FS_Interval
<1> HIDE DEF f
<1>6. Cardinality(pm) <= nlines
  BY <1>4, <1>5, FS_Injection
<1> DEFINE N == Cardinality(pm)
<1>7. N \in Nat
  BY MaskRanks
<1>8. n_lines_print(pm) = Min({N, nlines})
  BY MaskRanks DEF n_lines_print
<1> HIDE DEF N
<1>9. Min({N, nlines}) \in {N, nlines} /\ Min({N, nlines}) <= N
  BY <1>1, <1>7, MinIsLeast
<1>10. Min({N, nlines}) = N
  BY <1>1, <1>6, <1>7, <1>9 DEF N
<1> QED BY <1>6, <1>8, <1>10 DEF N

\* The columns of a table: the lines chosen, each with its place in the mask.
LEMMA ColumnsOfLines ==
    ASSUME TypeInv, NEW pm, pm \subseteq mask, OfDevice(pm)
    PROVE  /\ Columns(pm) = [j \in 1 .. Cardinality(pm) |->
                 [ind_print |-> Rank(Nth(pm, j), mask) - 1, ind_lines |-> Nth(pm, j)]]
           /\ \A j \in 1 .. Cardinality(pm) :
                 /\ Nth(pm, j) \in mask /\ Rank(Nth(pm, j), mask) \in lines
                 /\ Nth(mask, Rank(Nth(pm, j), mask)) = Nth(pm, j)
<1>1. n_lines_print(pm) = Cardinality(pm) /\ p_lines(pm) = pm
  BY FewLines, MaskRanks
<1>2. ASSUME NEW j \in 1 .. Cardinality(pm)
      PROVE  /\ Nth(pm, j) \in mask /\ Rank(Nth(pm, j), mask) \in 1 .. nlines
             /\ Rank(Nth(pm, j), mask) <= nlines
             /\ Nth(mask, Rank(Nth(pm, j), mask)) = Nth(pm, j)
  <2>1. Nth(pm, j) \in pm
    BY MaskRanks, Ranks
  <2>2. Rank(Nth(pm, j), mask) <= nlines
    BY <2>1 DEF OfDevice
  <2>3. /\ Rank(Nth(pm, j), mask) \in 1 .. Cardinality(mask)
        /\ Nth(mask, Rank(Nth(pm, j), mask)) = Nth(pm, j)
    BY <2>1, MaskRanks, Ranks
  <2>4. Rank(Nth(pm, j), mask) \in Nat /\ 1 <= Rank(Nth(pm, j), mask) /\ nlines \in Nat
    BY <2>3, MaskRanks DEF TypeInv
  <2> QED BY <2>1, <2>2, <2>3, <2>4
<1>3. Columns(pm) = [j \in 1 .. Cardinality(pm) |->
                 [ind_print |-> Rank(Nth(pm, j), mask) - 1, ind_lines |-> Nth(pm, j)]]
  BY <1>1, <1>2 DEF Columns
<1> QED BY <1>2, <1>3 DEF lines

----------------------------------------------------------------------------
\* The beginning and the end of a set in a reply at full rate.
LEMMA SetBounds ==
    ASSUME Inv, Copying, interval = 1, NEW s \in 0 .. nsets - 1
    PROVE  /\ nsets = Len(sets) /\ nsets \in Nat /\ s + 1 \in 1 .. Len(sets) /\ s \in Nat
           /\ ini(s) = watts_sets[s + 1] /\ ini(s) \in Nat /\ fin(s) \in Nat
           /\ fin(s) - ini(s) = min_len(sets[s + 1]) /\ fin(s) - ini(s) = Common(sets[s + 1])
           /\ fin(s) - ini(s) \in Nat /\ fin(s) = fin(s) - ini(s) + ini(s)
           /\ ini(0) = 0
<1>1. /\ Len(sets) \in Nat /\ Len(watts_sets) = Len(sets) + 1 /\ watts_sets \in Seq(Nat)
      /\ TypeInv /\ SetsInv
  BY LenProperties DEF Inv, TypeInv, LoopInv
<1>2. nsets = Len(sets) /\ s + 1 \in 1 .. Len(sets) /\ s \in Nat /\ s + 2 = s + 1 + 1
  BY <1>1 DEF nsets
<1>3. /\ watts_sets[1] = 0
      /\ \A i \in 1 .. Len(sets) : watts_sets[i + 1] = min_len(sets[i]) + watts_sets[i]
  BY <1>1 DEF Inv, SizesInv, Copying
<1>4. min_len(sets[s + 1]) \in Nat /\ min_len(sets[s + 1]) = Common(sets[s + 1])
  BY <1>1, <1>2, SetLengths
<1>5. watts_sets[s + 1] \in Nat
  BY <1>1, <1>2, ElementOfSeq
<1>6. watts_sets[s + 2] = min_len(sets[s + 1]) + watts_sets[s + 1]
  BY <1>2, <1>3
<1>7. ini(s) = watts_sets[s + 1] /\ fin(s) = watts_sets[s + 2] /\ ini(0) = 0
  BY <1>3 DEF ini, fin
<1> DEFINE M == min_len(sets[s + 1])
<1>8. M \in Nat /\ ini(s) \in Nat /\ fin(s) = M + ini(s)
  BY <1>4, <1>5, <1>6, <1>7
<1> HIDE DEF M
<1>9. fin(s) \in Nat /\ fin(s) - ini(s) = M /\ fin(s) = M + ini(s)
  BY <1>8
<1> QED BY <1>1, <1>2, <1>4, <1>7, <1>8, <1>9 DEF M

\* The element at a position of the sums is the sum at that position.
LEMMA SumFound ==
    ASSUME Inv, Copying, interval = 1, aggregate, se_idx = Len(sets) + 1,
           NEW s \in 0 .. nsets - 1, NEW k \in 1 .. Common(sets[s + 1])
    PROVE  energy_watts(ini(s) + (k - 1)) = {Recorded(s, l, k - 1) : l \in lines}
<1>1. /\ s + 1 \in 1 .. Len(sets) /\ ini(s) = watts_sets[s + 1] /\ ini(s) \in Nat
      /\ min_len(sets[s + 1]) = Common(sets[s + 1]) /\ min_len(sets[s + 1]) \in Nat
      /\ Len(sets) \in Nat
  BY SetBounds
<1>2. k \in Nat /\ ini(s) + (k - 1) + 1 = ini(s) + k /\ s + 1 \in 1 .. se_idx - 1
  BY <1>1
<1>3. /\ watts_sets[s + 1] + k \in DOMAIN watts
      /\ watts[watts_sets[s + 1] + k] = SumAt(sets[s + 1], k, lines)
  BY <1>1, <1>2 DEF Inv, SumInv
<1>4. energy_watts(ini(s) + (k - 1)) = SumAt(sets[s + 1], k, lines)
  BY <1>1, <1>2, <1>3 DEF energy_watts
<1>5. \A l \in lines : <<l, sets[s + 1].first[l] + k - 1>> = Recorded(s, l, k - 1)
  <2>1. \A l \in lines : sets[s + 1].first[l] \in Nat
    BY <1>1, SetLengths DEF Inv
  <2>2. \A l \in lines : sets[s + 1].first[l] + k - 1 = sets[s + 1].first[l] + (k - 1)
    BY <1>2, <2>1
  <2> QED BY <2>2 DEF Recorded
<1> QED BY <1>4, <1>5 DEF SumAt

\* The element at a position of a line's series is that line's sample.
LEMMA LineFound ==
    ASSUME Inv, Copying, interval = 1, ~aggregate, se_idx = Len(sets) + 1,
           NEW s \in 0 .. nsets - 1, NEW k \in 1 .. Common(sets[s + 1]), NEW m \in lines
    PROVE  energy_watts(Start(s + 1, m) + (k - 1)) = {Recorded(s, m, k - 1)}
<1>1. /\ s + 1 \in 1 .. Len(sets) /\ watts_sets[s + 1] \in Nat
      /\ min_len(sets[s + 1]) = Common(sets[s + 1]) /\ min_len(sets[s + 1]) \in Nat
      /\ Len(sets) \in Nat
  BY SetBounds
<1>2. m \in Nat \ {0} /\ nlines \in Nat /\ k \in Nat
  BY <1>1 DEF Inv, TypeInv, lines
<1>3. Copied(s + 1, m)
  BY <1>1 DEF Copied
<1>4. /\ Start(s + 1, m) + k \in DOMAIN watts
      /\ watts[Start(s + 1, m) + k] = {<<m, sets[s + 1].first[m] + k - 1>>}
  BY <1>1, <1>3 DEF Inv, LineInv
<1>5. Start(s + 1, m) \in Nat
  <2> DEFINE W == watts_sets[s + 1]
             M == min_len(sets[s + 1])
  <2>1. Start(s + 1, m) = nlines * W + (IF m = 1 THEN 0 ELSE (m - 1) * M)
    BY DEF Start
  <2>2. W \in Nat /\ M \in Nat
    BY <1>1
  <2> HIDE DEF W, M
  <2>3. nlines * W \in Nat /\ (m - 1) * M \in Nat
    BY <1>2, <2>2
  <2> QED BY <2>1, <2>3
<1>6. Start(s + 1, m) + (k - 1) + 1 = Start(s + 1, m) + k
  BY <1>2, <1>5
<1>7. <<m, sets[s + 1].first[m] + k - 1>> = Recorded(s, m, k - 1)
  <2>1. sets[s + 1].first[m] \in Nat
    BY <1>1, SetLengths DEF Inv
  <2>2. sets[s + 1].first[m] + k - 1 = sets[s + 1].first[m] + (k - 1)
    BY <1>2, <2>1
  <2> QED BY <2>2 DEF Recorded
<1> QED BY <1>4, <1>6, <1>7 DEF energy_watts

\* With one line or one set the spacing over all sets is the right one.
LEMMA LineMajorStart ==
    ASSUME Inv, Copying, interval = 1, nlines = 1 \/ nsets = 1,
           NEW s \in 0 .. nsets - 1, NEW k \in Nat, NEW m \in lines
    PROVE  LineMajor(s, k, m - 1) = Start(s + 1, m) + k
<1> DEFINE W == watts_sets[s + 1]
           M == min_len(sets[s + 1])
<1>1. /\ s + 1 \in 1 .. Len(sets) /\ ini(s) = W /\ W \in Nat /\ M \in Nat
      /\ nsets = Len(sets) /\ ini(0) = 0 /\ fin(s) \in Nat /\ s \in Nat /\ fin(s) - ini(s) = M
      /\ Len(watts_sets) = Len(sets) + 1 /\ Len(sets) \in Nat
  <2>1. Len(watts_sets) = Len(sets) + 1
    BY DEF Inv, LoopInv
  <2> QED BY <2>1, SetBounds
<1>2. m \in 1 .. nlines /\ m \in Nat /\ nlines \in Nat \ {0}
  BY DEF Inv, TypeInv, lines
<1>3. Start(s + 1, m) = nlines * W + (IF m = 1 THEN 0 ELSE (m - 1) * M)
  BY DEF Start
<1>4. LineMajor(s, k, m - 1) = W + k + Spacing * (m - 1)
  BY <1>1 DEF LineMajor
<1>5. Spacing \in Int
  <2>1. watts_sets \in Seq(Nat) /\ Len(watts_sets) \in 1 .. Len(watts_sets) /\ 1 \in 1 .. Len(watts_sets)
    BY <1>1 DEF Inv, TypeInv
  <2>2. watts_sets[Len(watts_sets)] \in Nat /\ watts_sets[1] \in Nat
    BY <2>1, ElementOfSeq
  <2> QED BY <2>2 DEF Spacing
<1>6. nsets = 1 => s = 0 /\ W = 0 /\ Spacing = M
  <2> SUFFICES ASSUME nsets = 1 PROVE s = 0 /\ W = 0 /\ Spacing = M
    OBVIOUS
  <2>1. s = 0 /\ Len(watts_sets) = 2
    <3> DEFINE n == Len(sets)
    <3>1. n = 1 /\ s + 1 \in 1 .. n /\ s \in Nat /\ Len(watts_sets) = n + 1
      BY <1>1
    <3> HIDE DEF n
    <3> QED BY <3>1
  <2>2. ini(0) = watts_sets[1] /\ fin(0) = watts_sets[2]
    BY DEF ini, fin
  <2>3. Spacing = fin(0) - ini(0)
    BY <2>1, <2>2 DEF Spacing
  <2> QED BY <1>1, <2>1, <2>3
<1> HIDE DEF W, M
<1>7. CASE nlines = 1
  <2>1. m = 1
    BY <1>2, <1>7
  <2>2. Spacing * (m - 1) = 0 /\ nlines * W = W
    BY <1>1, <1>5, <1>7, <2>1
  <2> QED BY <1>1, <1>3, <1>4, <2>1, <2>2
<1>8. CASE nsets = 1
  <2>1. nlines * W = 0 /\ W = 0 /\ Spacing = M
    BY <1>2, <1>6, <1>8
  <2> DEFINE d == (m - 1) * M
  <2>2. Spacing * (m - 1) = d /\ d \in Nat /\ (m = 1 => d = 0)
    BY <1>1, <1>2, <2>1
  <2> HIDE DEF d
  <2>3. LineMajor(s, k, m - 1) = W + k + d /\ Start(s + 1, m) = nlines * W + d
    BY <1>3, <1>4, <2>1, <2>2 DEF d
  <2> QED BY <2>1, <2>2, <2>3
<1> QED BY <1>7, <1>8

\* A valid argument selects recorded sets.
LEMMA SelectedSets ==
    ASSUME Inv, Copying, NEW set \in Int, ~Refused(set), Defined(set)
    PROVE  \A x \in DOMAIN Selected(set) : Selected(set)[x] \in 0 .. nsets - 1
<1>1. nsets \in Nat
  <2>1. Len(sets) \in Nat /\ Len(watts_sets) = Len(sets) + 1
    BY LenProperties DEF Inv, TypeInv, LoopInv
  <2> QED BY <2>1 DEF nsets
<1>2. CASE set = -1
  <2>1. Selected(set) = [k \in 1 .. nsets |-> k - 1]
    BY <1>2 DEF Selected
  <2> QED BY <1>1, <2>1
<1>3. CASE set # -1
  <2>1. Selected(set) = <<set>>
    BY <1>3 DEF Selected
  <2>2. set \in 0 .. nsets - 1
    BY <1>1, <1>3 DEF Refused, Defined
  <2> QED BY <2>1, <2>2
<1> QED BY <1>2, <1>3

\* A row of a table that is exact, and one of a printer that looks for the
\* lines one behind the other.
TrueRow(pm, s, k) ==
    IF aggregate THEN <<<<Sum, {Recorded(s, l, k - 1) : l \in lines}>>>>
    ELSE [j \in 1 .. Cardinality(pm) |->
             <<Nth(pm, j), {Recorded(s, Rank(Nth(pm, j), mask), k - 1)}>>]

LineMajorRow(pm, s, k) == Cells(pm, s, k - 1, LineMajor)

\* Such a row is exact: every cell holds its own line's sample.
LEMMA LineMajorRows ==
    ASSUME Inv, Copying, interval = 1, se_idx = Len(sets) + 1,
           NEW pm, aggregate \/ (pm \subseteq mask /\ OfDevice(pm) /\ (nlines = 1 \/ nsets = 1)),
           NEW s \in 0 .. nsets - 1, NEW k \in 1 .. Common(sets[s + 1])
    PROVE  LineMajorRow(pm, s, k) = TrueRow(IF aggregate THEN {} ELSE pm, s, k)
<1>1. k \in Nat \ {0} /\ k - 1 \in Nat
  BY SetBounds
<1>2. CASE aggregate
  <2>1. energy_watts(ini(s) + (k - 1)) = {Recorded(s, l, k - 1) : l \in lines}
    BY <1>2, SumFound
  <2>2. LineMajorRow(pm, s, k) = <<<<Sum, energy_watts(ini(s) + (k - 1))>>>>
    BY <1>2 DEF LineMajorRow, Cells
  <2>3. TrueRow({}, s, k) = <<<<Sum, {Recorded(s, l, k - 1) : l \in lines}>>>>
    BY <1>2 DEF TrueRow
  <2> QED BY <1>2, <2>1, <2>2, <2>3
<1>3. CASE ~aggregate
  <2>1. pm \subseteq mask /\ OfDevice(pm) /\ (nlines = 1 \/ nsets = 1) /\ TypeInv
    BY <1>3 DEF Inv
  <2> DEFINE N == Cardinality(pm)
             Line(j) == Rank(Nth(pm, j), mask)
  <2>2. Columns(pm) = [j \in 1 .. N |-> [ind_print |-> Line(j) - 1, ind_lines |-> Nth(pm, j)]]
    BY <2>1, ColumnsOfLines
  <2>3. LineMajorRow(pm, s, k) = [j \in DOMAIN Columns(pm) |->
            <<Columns(pm)[j].ind_lines, energy_watts(LineMajor(s, k - 1, Columns(pm)[j].ind_print))>>]
    BY <1>3 DEF LineMajorRow, Cells
  <2>4. ASSUME NEW j \in 1 .. N
        PROVE  energy_watts(LineMajor(s, k - 1, Line(j) - 1)) = {Recorded(s, Line(j), k - 1)}
    <3>1. Line(j) \in lines
      BY <2>1, ColumnsOfLines
    <3> HIDE DEF Line
    <3>2. LineMajor(s, k - 1, Line(j) - 1) = Start(s + 1, Line(j)) + (k - 1)
      BY <1>1, <2>1, <3>1, LineMajorStart
    <3> QED BY <1>3, <3>1, <3>2, LineFound
  <2>5. TrueRow(pm, s, k) = [j \in 1 .. N |-> <<Nth(pm, j), {Recorded(s, Line(j), k - 1)}>>]
    BY <1>3 DEF TrueRow
  <2> HIDE DEF N, Line
  <2>6. LineMajorRow(pm, s, k) = [j \in 1 .. N |-> <<Nth(pm, j), {Recorded(s, Line(j), k - 1)}>>]
    <3>1. DOMAIN Columns(pm) = 1 .. N
      BY <2>2
    <3>2. \A j \in 1 .. N : Columns(pm)[j].ind_lines = Nth(pm, j) /\ Columns(pm)[j].ind_print = Line(j) - 1
      BY <2>2
    <3> QED BY <2>3, <2>4, <3>1, <3>2
  <2> QED BY <1>3, <2>5, <2>6
<1> QED BY <1>2, <1>3

\* The four printers that look for the lines one behind the other.
LEMMA LineMajorTables ==
    ASSUME Inv, Copying, interval = 1, se_idx = Len(sets) + 1,
           NEW set \in Int, ~Refused(set), Defined(set),
           NEW pm, aggregate \/ (pm \subseteq mask /\ OfDevice(pm) /\ (nlines = 1 \/ nsets = 1))
    PROVE  pm_print_data_csv(set, pm) = Truth(Selected(set), IF aggregate THEN {} ELSE pm)
<1> DEFINE sel == Selected(set)
           lp == IF aggregate THEN {} ELSE pm
<1>1. pm_print_data_csv(set, pm) =
          [x \in DOMAIN sel |->
              [set |-> sel[x],
               rows |-> [k \in 1 .. fin(sel[x]) - ini(sel[x]) |-> LineMajorRow(pm, sel[x], k)]]]
  BY DEF pm_print_data_csv, Table, LineMajorRow
<1>2. Truth(sel, lp) =
          [x \in DOMAIN sel |->
              [set |-> sel[x],
               rows |-> [k \in 1 .. Common(sets[sel[x] + 1]) |-> TrueRow(lp, sel[x], k)]]]
  BY DEF Truth, TrueRow
<1>3. ASSUME NEW x \in DOMAIN sel
      PROVE  [k \in 1 .. fin(sel[x]) - ini(sel[x]) |-> LineMajorRow(pm, sel[x], k)]
                = [k \in 1 .. Common(sets[sel[x] + 1]) |-> TrueRow(lp, sel[x], k)]
  <2>1. sel[x] \in 0 .. nsets - 1
    BY SelectedSets
  <2> HIDE DEF sel
  <2>2. fin(sel[x]) - ini(sel[x]) = Common(sets[sel[x] + 1])
    BY <2>1, SetBounds
  <2>3. \A k \in 1 .. Common(sets[sel[x] + 1]) : LineMajorRow(pm, sel[x], k) = TrueRow(lp, sel[x], k)
    BY <2>1, LineMajorRows
  <2> HIDE DEF lp
  <2> QED BY <2>2, <2>3
<1> HIDE DEF sel, lp
<1>4. pm_print_data_csv(set, pm) = Truth(sel, lp)
  BY <1>1, <1>2, <1>3
<1> QED BY <1>4 DEF sel, lp

\* Where pm_print_data_text looks for a sample, and a row of its table.
TextPosition(set, pm, s, k, column) ==
    n_lines_counter(pm) * (ini(s) - ini(Selected(set)[1])) + k + (fin(s) - ini(s)) * column

TextRow(set, pm, s, k) ==
    IF aggregate THEN <<<<Sum, energy_watts(ini(s) + (k - 1))>>>>
    ELSE [j \in DOMAIN Columns(pm) |->
             <<Columns(pm)[j].ind_lines,
               energy_watts(TextPosition(set, pm, s, k - 1, Columns(pm)[j].ind_print))>>]

\* When the counter has no lines but the device's, all of them are counted.
LEMMA AllLinesCounted ==
    ASSUME TypeInv, NEW pm, pm \subseteq mask, Cardinality(mask) = nlines
    PROVE  n_lines_counter(pm) = nlines /\ OfDevice(pm)
<1>1. /\ p_lines(pm) = pm /\ Cardinality(pm) \in Nat /\ Cardinality(pm) <= Cardinality(mask)
      /\ IsFiniteSet(mask) /\ mask \subseteq Nat /\ nlines \in Nat \ {0}
  BY MaskRanks DEF TypeInv
<1>2. OfDevice(pm)
  <2>1. \A b \in mask : Rank(b, mask) \in 1 .. Cardinality(mask)
    BY <1>1, Ranks
  <2> QED BY <1>1, <2>1 DEF OfDevice
<1>3. CASE Cardinality(pm) < nlines
  BY <1>1, <1>2, <1>3 DEF n_lines_counter
<1>4. CASE ~(Cardinality(pm) < nlines)
  <2>1. Cardinality(mask) = Cardinality(pm)
    BY <1>1, <1>4
  <2>2. pm = mask
    BY <1>1, <2>1, FS_Subset
  <2>3. Rank(Nth(mask, nlines), mask) = nlines
    <3>1. nlines \in 1 .. Cardinality(mask)
      BY <1>1
    <3> QED BY <1>1, <3>1, Ranks
  <2> QED BY <1>1, <1>2, <1>4, <2>2, <2>3 DEF n_lines_counter
<1> QED BY <1>3, <1>4

\* The running offset of pm_print_data_text follows the layout of get().
LEMMA TextStart ==
    ASSUME Inv, Copying, interval = 1, NEW pm, pm \subseteq mask, Cardinality(mask) = nlines,
           NEW s \in 0 .. nsets - 1, NEW k \in Nat, NEW m \in lines
    PROVE  TextPosition(-1, pm, s, k, m - 1) = Start(s + 1, m) + k
<1> DEFINE W == watts_sets[s + 1]
           M == min_len(sets[s + 1])
<1>1. /\ ini(s) = W /\ W \in Nat /\ M \in Nat /\ fin(s) - ini(s) = M /\ ini(0) = 0
      /\ nsets \in Nat
  BY SetBounds
<1>2. m \in Nat \ {0} /\ nlines \in Nat \ {0}
  BY DEF Inv, TypeInv, lines
<1>3. Selected(-1)[1] = 0
  <2>1. 1 \in 1 .. nsets
    BY <1>1
  <2> QED BY <2>1 DEF Selected
<1>4. n_lines_counter(pm) = nlines
  BY AllLinesCounted DEF Inv
<1>5. Start(s + 1, m) = nlines * W + (IF m = 1 THEN 0 ELSE (m - 1) * M)
  BY DEF Start
<1>6. TextPosition(-1, pm, s, k, m - 1) = nlines * (W - 0) + k + M * (m - 1)
  BY <1>1, <1>3, <1>4 DEF TextPosition
<1> HIDE DEF W, M
<1> DEFINE a == nlines * W
           d == (m - 1) * M
<1>7. /\ nlines * (W - 0) = a /\ M * (m - 1) = d /\ a \in Nat /\ d \in Nat /\ (m = 1 => d = 0)
  BY <1>1, <1>2
<1>8. TextPosition(-1, pm, s, k, m - 1) = a + k + d
  BY <1>6, <1>7
<1> HIDE DEF a
<1>9. Start(s + 1, m) = a + d
  <2>1. CASE m = 1
    BY <1>5, <1>7, <2>1 DEF a
  <2>2. CASE m # 1
    BY <1>5, <2>2 DEF a
  <2> QED BY <2>1, <2>2
<1> HIDE DEF d
<1> QED BY <1>7, <1>8, <1>9

\* Its rows are exact for sums, and for lines when it prints every set.
LEMMA TextRows ==
    ASSUME Inv, Copying, interval = 1, se_idx = Len(sets) + 1, NEW set, NEW pm,
           aggregate \/ (set = -1 /\ pm \subseteq mask /\ Cardinality(mask) = nlines),
           NEW s \in 0 .. nsets - 1, NEW k \in 1 .. Common(sets[s + 1])
    PROVE  TextRow(set, pm, s, k) = TrueRow(IF aggregate THEN {} ELSE pm, s, k)
<1>1. k \in Nat \ {0} /\ k - 1 \in Nat
  BY SetBounds
<1>2. CASE aggregate
  <2>1. energy_watts(ini(s) + (k - 1)) = {Recorded(s, l, k - 1) : l \in lines}
    BY <1>2, SumFound
  <2>2. TextRow(set, pm, s, k) = <<<<Sum, energy_watts(ini(s) + (k - 1))>>>>
    BY <1>2 DEF TextRow
  <2>3. TrueRow({}, s, k) = <<<<Sum, {Recorded(s, l, k - 1) : l \in lines}>>>>
    BY <1>2 DEF TrueRow
  <2> QED BY <1>2, <2>1, <2>2, <2>3
<1>3. CASE ~aggregate
  <2>1. set = -1 /\ pm \subseteq mask /\ Cardinality(mask) = nlines /\ TypeInv
    BY <1>3 DEF Inv
  <2>2. OfDevice(pm)
    BY <2>1, AllLinesCounted
  <2> DEFINE N == Cardinality(pm)
             Line(j) == Rank(Nth(pm, j), mask)
  <2>3. Columns(pm) = [j \in 1 .. N |-> [ind_print |-> Line(j) - 1, ind_lines |-> Nth(pm, j)]]
    BY <2>1, <2>2, ColumnsOfLines
  <2>4. TextRow(set, pm, s, k) = [j \in DOMAIN Columns(pm) |->
            <<Columns(pm)[j].ind_lines,
              energy_watts(TextPosition(-1, pm, s, k - 1, Columns(pm)[j].ind_print))>>]
    BY <1>3, <2>1 DEF TextRow
  <2>5. ASSUME NEW j \in 1 .. N
        PROVE  energy_watts(TextPosition(-1, pm, s, k - 1, Line(j) - 1)) = {Recorded(s, Line(j), k - 1)}
    <3>1. Line(j) \in lines
      BY <2>1, <2>2, ColumnsOfLines
    <3> HIDE DEF Line
    <3>2. TextPosition(-1, pm, s, k - 1, Line(j) - 1) = Start(s + 1, Line(j)) + (k - 1)
      BY <1>1, <2>1, <3>1, TextStart
    <3> QED BY <1>3, <3>1, <3>2, LineFound
  <2>6. TrueRow(pm, s, k) = [j \in 1 .. N |-> <<Nth(pm, j), {Recorded(s, Line(j), k - 1)}>>]
    BY <1>3 DEF TrueRow
  <2> HIDE DEF N, Line
  <2>7. TextRow(set, pm, s, k) = [j \in 1 .. N |-> <<Nth(pm, j), {Recorded(s, Line(j), k - 1)}>>]
    <3>1. DOMAIN Columns(pm) = 1 .. N
      BY <2>3
    <3>2. \A j \in 1 .. N : Columns(pm)[j].ind_lines = Nth(pm, j) /\ Columns(pm)[j].ind_print = Line(j) - 1
      BY <2>3
    <3> QED BY <2>4, <2>5, <3>1, <3>2
  <2> QED BY <1>3, <2>6, <2>7
<1> QED BY <1>2, <1>3

\* pm_print_data_text.
LEMMA TextTable ==
    ASSUME Inv, Copying, interval = 1, se_idx = Len(sets) + 1,
           NEW set \in Int, ~Refused(set), Defined(set),
           NEW pm, aggregate \/ (set = -1 /\ pm \subseteq mask /\ Cardinality(mask) = nlines)
    PROVE  pm_print_data_text(set, pm) = Truth(Selected(set), IF aggregate THEN {} ELSE pm)
<1> DEFINE sel == Selected(set)
           lp == IF aggregate THEN {} ELSE pm
<1>1. pm_print_data_text(set, pm) =
          [x \in DOMAIN sel |->
              [set |-> sel[x],
               rows |-> [k \in 1 .. fin(sel[x]) - ini(sel[x]) |-> TextRow(set, pm, sel[x], k)]]]
  BY DEF pm_print_data_text, Table, Cells, TextRow, TextPosition
<1>2. Truth(sel, lp) =
          [x \in DOMAIN sel |->
              [set |-> sel[x],
               rows |-> [k \in 1 .. Common(sets[sel[x] + 1]) |-> TrueRow(lp, sel[x], k)]]]
  BY DEF Truth, TrueRow
<1>3. ASSUME NEW x \in DOMAIN sel
      PROVE  [k \in 1 .. fin(sel[x]) - ini(sel[x]) |-> TextRow(set, pm, sel[x], k)]
                = [k \in 1 .. Common(sets[sel[x] + 1]) |-> TrueRow(lp, sel[x], k)]
  <2>1. sel[x] \in 0 .. nsets - 1
    BY SelectedSets
  <2> HIDE DEF sel
  <2>2. fin(sel[x]) - ini(sel[x]) = Common(sets[sel[x] + 1])
    BY <2>1, SetBounds
  <2>3. \A k \in 1 .. Common(sets[sel[x] + 1]) : TextRow(set, pm, sel[x], k) = TrueRow(lp, sel[x], k)
    BY <2>1, TextRows
  <2> HIDE DEF lp
  <2> QED BY <2>2, <2>3
<1> HIDE DEF sel, lp
<1>4. pm_print_data_text(set, pm) = Truth(sel, lp)
  BY <1>1, <1>2, <1>3
<1> QED BY <1>4 DEF sel, lp

\* Printing leaves what the tables are compared with.
LEMMA TruthKept ==
    ASSUME NEW set, NEW pm, UNCHANGED <<counter_vars, reply_vars, mask>>,
           printed'.set = set, printed'.lines = pm
    PROVE  /\ Truth(Selected(printed.set), IF aggregate THEN {} ELSE printed.lines)'
                = Truth(Selected(set), IF aggregate THEN {} ELSE pm)
           /\ Truth(<<printed.set>>, printed.lines)' = Truth(<<set>>, pm)
           /\ OfDevice(printed.lines)' = OfDevice(pm)
           /\ nsets' = nsets
<1>1. /\ interval' = interval /\ aggregate' = aggregate /\ nlines' = nlines /\ sets' = sets
      /\ watts_sets' = watts_sets /\ watts' = watts /\ mask' = mask /\ lines' = lines
  BY DEF counter_vars, reply_vars, lines
<1>2. nsets' = nsets
  BY <1>1 DEF nsets
<1>3. OfDevice(printed.lines)' = OfDevice(pm)
  BY <1>1 DEF OfDevice
<1>4. Truth(Selected(printed.set), IF aggregate THEN {} ELSE printed.lines)'
                = Truth(Selected(set), IF aggregate THEN {} ELSE pm)
  BY <1>1, <1>2 DEF Truth, Selected, Common, Length, Recorded
<1>5. Truth(<<printed.set>>, printed.lines)' = Truth(<<set>>, pm)
  BY <1>1, <1>2 DEF Truth, Common, Length, Recorded
<1> QED BY <1>2, <1>3, <1>4, <1>5

\* So does a step that changes nothing.
LEMMA PropertiesKept ==
    ASSUME UNCHANGED vars
    PROVE  /\ TablesExact' = TablesExact /\ StatesNameTheirLine' = StatesNameTheirLine
           /\ EnergyOfOneSet' = EnergyOfOneSet
<1>1. /\ interval' = interval /\ aggregate' = aggregate /\ nlines' = nlines /\ sets' = sets
      /\ watts_sets' = watts_sets /\ watts' = watts /\ mask' = mask /\ lines' = lines
      /\ phase' = phase /\ printed' = printed
  BY DEF counter_vars, reply_vars, lines, vars
<1>2. nsets' = nsets
  BY <1>1 DEF nsets
<1>3. TablesExact' = TablesExact
  BY <1>1, <1>2 DEF TablesExact, Exact, SetInDispute, FullRateTable, Truth, Selected, Common, Length,
                       Recorded, OfDevice
<1>4. StatesNameTheirLine' = StatesNameTheirLine
  BY <1>1, <1>2 DEF StatesNameTheirLine, FullRateTable, OfDevice
<1>5. EnergyOfOneSet' = EnergyOfOneSet
  BY <1>1, <1>2 DEF EnergyOfOneSet, SetInDispute, FullRateTable, Truth, Common, Length, Recorded,
                       OfDevice
<1> QED BY <1>3, <1>4, <1>5

\* What is left of a call that printed sets.
Left(format, set, pm, rows) ==
    /\ printed'.format = format /\ printed'.set = set /\ printed'.lines = pm
    /\ printed'.result = "done" => ~Refused(set) /\ printed'.rows = rows

\* The calls whose table is a matrix of rows and columns.
LEMMA TableCalls ==
    ASSUME PrintCsv \/ PrintStdout \/ PrintText \/ PrintOtf \/ PrintParaver
    PROVE  \E set \in SetArguments, pm \in LineArguments, format \in LineMajorFormats \cup {"text"} :
              /\ printed'.result = "done" => Defined(set)
              /\ Left(format, set, pm, IF format = "text" THEN pm_print_data_text(set, pm)
                                       ELSE pm_print_data_csv(set, pm))
<1>1. \A set \in SetArguments, pm \in LineArguments :
          /\ pm_print_data_stdout(set, pm) = pm_print_data_csv(set, pm)
          /\ pm_print_data_otf(set, pm) = pm_print_data_csv(set, pm)
          /\ pm_print_data_paraver(set, pm) = pm_print_data_csv(set, pm)
  BY DEF pm_print_data_csv, pm_print_data_stdout, pm_print_data_otf, pm_print_data_paraver, Table,
         Cells
<1>2. CASE PrintCsv
  BY <1>2 DEF PrintCsv, Prints, Outcome, Left, LineMajorFormats
<1>3. CASE PrintStdout
  BY <1>1, <1>3 DEF PrintStdout, Prints, Outcome, Left, LineMajorFormats
<1>4. CASE PrintOtf
  BY <1>1, <1>4 DEF PrintOtf, Prints, Outcome, Left, LineMajorFormats
<1>5. CASE PrintParaver
  BY <1>1, <1>5 DEF PrintParaver, Prints, Outcome, Left, LineMajorFormats
<1>6. CASE PrintText
  BY <1>6 DEF PrintText, Prints, Outcome, Left, LineMajorFormats
<1> QED BY <1>2, <1>3, <1>4, <1>5, <1>6

\* The other calls.
LEMMA OtherCalls ==
    /\ PrintPstates => \E set \in SetArguments, pm \in SUBSET mask :
          /\ printed'.result = "done" => DefinedStates(set)
          /\ Left("pstates", set, pm, pm_print_data_paraver_pstates(set, pm))
    /\ PrintCstates => \E set \in SetArguments, pm \in SUBSET mask, separate \in BOOLEAN :
          /\ printed'.result = "done" => DefinedStates(set)
          /\ Left("cstates", set, pm, pm_print_data_paraver_cstates(set, pm, separate))
    /\ CalculateEnergy => \E set \in SetArguments, pm \in LineArguments : \E heap \in Heaps(pm) :
          /\ printed'.result = "done" => Defined(set)
          /\ Left("energy", set, pm, pm_calculate_energy(set, pm, heap))
<1>1. ASSUME PrintPstates
      PROVE  \E set \in SetArguments, pm \in SUBSET mask :
                /\ printed'.result = "done" => DefinedStates(set)
                /\ Left("pstates", set, pm, pm_print_data_paraver_pstates(set, pm))
  BY <1>1 DEF PrintPstates, Outcome, Left
<1>2. ASSUME PrintCstates
      PROVE  \E set \in SetArguments, pm \in SUBSET mask, separate \in BOOLEAN :
                /\ printed'.result = "done" => DefinedStates(set)
                /\ Left("cstates", set, pm, pm_print_data_paraver_cstates(set, pm, separate))
  BY <1>2 DEF PrintCstates, Outcome, Left
<1>3. ASSUME CalculateEnergy
      PROVE  \E set \in SetArguments, pm \in LineArguments : \E heap \in Heaps(pm) :
                /\ printed'.result = "done" => Defined(set)
                /\ Left("energy", set, pm, pm_calculate_energy(set, pm, heap))
  BY <1>3 DEF CalculateEnergy, Outcome, Left
<1> QED BY <1>1, <1>2, <1>3

\* Every call prints one format.
LEMMA Formats ==
    /\ PrintPstates => printed'.format = "pstates"
    /\ PrintCstates => printed'.format = "cstates"
    /\ CalculateEnergy => printed'.format = "energy"
    /\ PrintCsv \/ PrintStdout \/ PrintText \/ PrintOtf \/ PrintParaver =>
           printed'.format \in {"csv", "stdout", "otf", "paraver", "text"}
<1>1. PrintPstates => printed'.format = "pstates"
  BY OtherCalls DEF Left
<1>2. PrintCstates => printed'.format = "cstates"
  BY OtherCalls DEF Left
<1>3. CalculateEnergy => printed'.format = "energy"
  BY OtherCalls DEF Left
<1>4. PrintCsv \/ PrintStdout \/ PrintText \/ PrintOtf \/ PrintParaver =>
           printed'.format \in {"csv", "stdout", "otf", "paraver", "text"}
  BY TableCalls DEF Left, LineMajorFormats
<1> QED BY <1>1, <1>2, <1>3, <1>4

\* Before the printing nothing is claimed.
LEMMA NotPrinted ==
    ASSUME Record \/ GetData
    PROVE  phase' # "printed"
BY DEF Record, RecordSet, GetData, Get, PushSize, StartCopy, CopySum, CopyOneLine, Send

\* What a printing function finds.
LEMMA WhatIsSent ==
    ASSUME Inv, PrintAny
    PROVE  /\ Copying /\ se_idx = Len(sets) + 1 /\ phase' = "printed"
           /\ UNCHANGED <<counter_vars, reply_vars, mask>>
           /\ interval' = interval /\ aggregate' = aggregate /\ nlines' = nlines /\ mask' = mask
           /\ SetArguments \subseteq Int
           /\ \A pm \in LineArguments : pm \subseteq mask /\ (aggregate => pm = {})
<1>1. Copying /\ se_idx = Len(sets) + 1
  BY PrintFrame DEF Copying, Inv, LoopInv
<1>2. SetArguments \subseteq Int
  BY GetReplyAssumption DEF SetArguments
<1>3. \A pm \in LineArguments : pm \subseteq mask /\ (aggregate => pm = {})
  BY DEF LineArguments
<1> QED BY <1>1, <1>2, <1>3, PrintFrame DEF counter_vars, reply_vars

\* The tables of rows and columns.
LEMMA TablesStep ==
    ASSUME Inv, PrintCsv \/ PrintStdout \/ PrintText \/ PrintOtf \/ PrintParaver
    PROVE  TablesExact'
<1>1. PrintAny
  BY DEF PrintAny
<1>2. PICK set \in SetArguments, pm \in LineArguments, format \in LineMajorFormats \cup {"text"} :
          /\ printed'.result = "done" => Defined(set)
          /\ Left(format, set, pm, IF format = "text" THEN pm_print_data_text(set, pm)
                                   ELSE pm_print_data_csv(set, pm))
  BY TableCalls
<1>3. /\ printed'.format = format /\ printed'.set = set /\ printed'.lines = pm
      /\ printed'.result = "done" =>
            /\ ~Refused(set) /\ Defined(set)
            /\ format = "text" => printed'.rows = pm_print_data_text(set, pm)
            /\ format # "text" => printed'.rows = pm_print_data_csv(set, pm)
  BY <1>2 DEF Left
<1>4. /\ Copying /\ se_idx = Len(sets) + 1 /\ set \in Int /\ pm \subseteq mask
      /\ interval' = interval /\ aggregate' = aggregate /\ nlines' = nlines /\ mask' = mask
  BY <1>1, WhatIsSent
<1> DEFINE truth == Truth(Selected(set), IF aggregate THEN {} ELSE pm)
<1>5. /\ Truth(Selected(printed.set), IF aggregate THEN {} ELSE printed.lines)' = truth
      /\ OfDevice(printed.lines)' = OfDevice(pm) /\ nsets' = nsets
  BY <1>1, <1>3, WhatIsSent, TruthKept
<1>6. ASSUME printed'.result = "done", interval = 1, aggregate PROVE printed'.rows = truth
  <2>1. CASE format = "text"
    BY <1>3, <1>4, <1>6, <2>1, TextTable
  <2>2. CASE format # "text"
    BY <1>3, <1>4, <1>6, <2>2, LineMajorTables
  <2> QED BY <2>1, <2>2
<1>7. ASSUME printed'.result = "done", interval = 1, ~aggregate, format # "text",
             OfDevice(pm), nlines = 1 \/ nsets = 1
      PROVE  printed'.rows = truth
  BY <1>3, <1>4, <1>7, LineMajorTables
<1>8. ASSUME printed'.result = "done", interval = 1, ~aggregate, format = "text", set = -1,
             Cardinality(mask) = nlines
      PROVE  printed'.rows = truth
  BY <1>3, <1>4, <1>8, TextTable
<1> HIDE DEF truth
<1>9. "text" \notin LineMajorFormats
  BY DEF LineMajorFormats
<1> QED BY <1>3, <1>4, <1>5, <1>6, <1>7, <1>8, <1>9 DEF TablesExact, Exact, FullRateTable

(***************************************************************************)
(* At the device's own frequency the printed tables are exact, for every   *)
(* mask, every number of sets and lines and every length of theirs: the    *)
(* csv, stdout, otf and paraver printers' for sums and when there is one   *)
(* line or one set, pm_print_data_text's for sums and when it prints all   *)
(* sets.                                                                   *)
(***************************************************************************)
THEOREM TablesCorrect == Spec => []TablesExact
<1>1. PrintInit => TablesExact
  BY DEF PrintInit, Init, TablesExact, FullRateTable
<1>2. Inv /\ TablesExact /\ [Next]_vars => TablesExact'
  <2> SUFFICES ASSUME Inv, TablesExact, [Next]_vars PROVE TablesExact'
    OBVIOUS
  <2>1. CASE Record \/ GetData
    BY <2>1, NotPrinted DEF TablesExact, FullRateTable
  <2>2. CASE PrintCsv \/ PrintStdout \/ PrintText \/ PrintOtf \/ PrintParaver
    BY <2>2, TablesStep
  <2>3. CASE PrintPstates \/ PrintCstates \/ CalculateEnergy
    <3>1. printed'.format \in {"pstates", "cstates", "energy"}
      BY <2>3, Formats
    <3> QED BY <3>1 DEF TablesExact, FullRateTable, LineMajorFormats
  <2>4. CASE StreamAny
    BY <2>4, StreamFrame DEF TablesExact, FullRateTable, LineMajorFormats
  <2>5. CASE UNCHANGED vars
    BY <2>5, PropertiesKept
  <2> QED BY <2>1, <2>2, <2>3, <2>4, <2>5 DEF Next, StreamAny
<1> QED BY <1>1, <1>2, ReplyLayout, PTL DEF Spec

----------------------------------------------------------------------------
\* A state's event and the sample in it are of one line.
LEMMA StateCells ==
    ASSUME Inv, Copying, interval = 1, ~aggregate, se_idx = Len(sets) + 1,
           NEW pm, pm \subseteq mask, OfDevice(pm), nlines = 1 \/ nsets = 1,
           NEW s \in 0 .. nsets - 1, NEW k \in 1 .. fin(s) - ini(s), NEW j \in DOMAIN Columns(pm),
           NEW x \in StateCell(s, k - 1, Columns(pm)[j])[2]
    PROVE  /\ x # <<0, 0>>
           /\ Nth(mask, x[1]) = 4 * StateCell(s, k - 1, Columns(pm)[j])[1].cpu
                                  + StateCell(s, k - 1, Columns(pm)[j])[1].state
<1> DEFINE b == Nth(pm, j)
           m == Rank(b, mask)
           c == Columns(pm)[j]
<1>1. fin(s) - ini(s) = Common(sets[s + 1]) /\ fin(s) - ini(s) \in Nat
  BY SetBounds
<1>2. k \in 1 .. Common(sets[s + 1]) /\ k - 1 \in Nat
  BY <1>1
<1>3. TypeInv
  BY DEF Inv
<1>4. /\ j \in 1 .. Cardinality(pm) /\ c.ind_print = m - 1 /\ c.ind_lines = b
      /\ b \in mask /\ m \in lines /\ Nth(mask, m) = b
  <2>1. Columns(pm) = [i \in 1 .. Cardinality(pm) |->
            [ind_print |-> Rank(Nth(pm, i), mask) - 1, ind_lines |-> Nth(pm, i)]]
    BY <1>3, ColumnsOfLines
  <2>2. j \in 1 .. Cardinality(pm)
    BY <2>1
  <2>3. c = [ind_print |-> m - 1, ind_lines |-> b]
    BY <2>1, <2>2
  <2>4. b \in mask /\ m \in lines /\ Nth(mask, m) = b
    BY <1>3, <2>2, ColumnsOfLines
  <2> HIDE DEF b, m, c
  <2> QED BY <2>2, <2>3, <2>4
<1>5. b \in Nat /\ m \in Nat /\ m # 0
  BY <1>3, <1>4, MaskRanks, SMTT(30) DEF lines, TypeInv
<1> HIDE DEF b, m, c
<1>6. energy_watts(LineMajor(s, k - 1, c.ind_print)) = {Recorded(s, m, k - 1)}
  <2>1. LineMajor(s, k - 1, m - 1) = Start(s + 1, m) + (k - 1)
    BY <1>2, <1>4, LineMajorStart
  <2> QED BY <1>2, <1>4, <2>1, LineFound
<1>7. /\ StateCell(s, k - 1, c)[2] = {Recorded(s, m, k - 1)}
      /\ StateCell(s, k - 1, c)[1].cpu = b \div 4 /\ StateCell(s, k - 1, c)[1].state = b % 4
  BY <1>4, <1>6 DEF StateCell, StateOf
<1>8. 4 * (b \div 4) + (b % 4) = b
  BY <1>5
<1>9. x = Recorded(s, m, k - 1)
  BY <1>7 DEF c
<1>10. x[1] = m
  BY <1>9 DEF Recorded
<1>11. x # <<0, 0>>
  BY <1>5, <1>10
<1>12. Nth(mask, x[1]) = 4 * StateCell(s, k - 1, c)[1].cpu + StateCell(s, k - 1, c)[1].state
  BY <1>4, <1>7, <1>8, <1>10
<1> QED BY <1>11, <1>12 DEF c

\* 0 stands for all sets in the printers of states.
LEMMA SelectedStateSets ==
    ASSUME Inv, Copying, NEW set \in Int, ~Refused(set), DefinedStates(set)
    PROVE  \A x \in DOMAIN SelectedStates(set) : SelectedStates(set)[x] \in 0 .. nsets - 1
<1>1. nsets \in Nat
  <2>1. Len(sets) \in Nat /\ Len(watts_sets) = Len(sets) + 1
    BY LenProperties DEF Inv, TypeInv, LoopInv
  <2> QED BY <2>1 DEF nsets
<1>2. CASE set = 0
  <2>1. SelectedStates(set) = [k \in 1 .. nsets |-> k - 1]
    BY <1>2 DEF SelectedStates, Selected
  <2> QED BY <1>1, <2>1
<1>3. CASE set # 0
  <2>1. SelectedStates(set) = <<set>>
    BY <1>3 DEF SelectedStates
  <2>2. set \in 0 .. nsets - 1
    BY <1>1, <1>3 DEF Refused, DefinedStates
  <2> QED BY <2>1, <2>2
<1> QED BY <1>2, <1>3

\* The tables of the two printers of states: every cell is a state's event.
LEMMA StateTables ==
    ASSUME NEW set, NEW pm, NEW rows,
           rows = pm_print_data_paraver_pstates(set, pm)
             \/ \E separate \in BOOLEAN : rows = pm_print_data_paraver_cstates(set, pm, separate)
    PROVE  LET sel == SelectedStates(set)
           IN  /\ DOMAIN rows = DOMAIN sel
               /\ \A t \in DOMAIN sel :
                     /\ DOMAIN rows[t].rows = 1 .. fin(sel[t]) - ini(sel[t])
                     /\ \A k \in 1 .. fin(sel[t]) - ini(sel[t]) : \A j \in DOMAIN rows[t].rows[k] :
                           /\ j \in DOMAIN Columns(pm)
                           /\ rows[t].rows[k][j] = StateCell(sel[t], k - 1, Columns(pm)[j])
<1> DEFINE sel == SelectedStates(set)
<1>1. CASE rows = pm_print_data_paraver_pstates(set, pm)
  <2>1. rows = [t \in DOMAIN sel |->
                   [set |-> sel[t],
                    rows |-> [k \in 1 .. fin(sel[t]) - ini(sel[t]) |->
                        [j \in DOMAIN Columns(pm) |-> StateCell(sel[t], k - 1, Columns(pm)[j])]]]]
    BY <1>1 DEF pm_print_data_paraver_pstates, Table
  <2> HIDE DEF sel
  <2> SUFFICES /\ DOMAIN rows = DOMAIN sel
               /\ \A t \in DOMAIN sel :
                     /\ DOMAIN rows[t].rows = 1 .. fin(sel[t]) - ini(sel[t])
                     /\ \A k \in 1 .. fin(sel[t]) - ini(sel[t]) : \A j \in DOMAIN rows[t].rows[k] :
                           /\ j \in DOMAIN Columns(pm)
                           /\ rows[t].rows[k][j] = StateCell(sel[t], k - 1, Columns(pm)[j])
    BY DEF sel
  <2> QED BY <2>1
<1>2. CASE \E separate \in BOOLEAN : rows = pm_print_data_paraver_cstates(set, pm, separate)
  <2>1. PICK separate \in BOOLEAN : rows = pm_print_data_paraver_cstates(set, pm, separate)
    BY <1>2
  <2> DEFINE chosen(s, k) == {c \in DOMAIN Columns(pm) :
                                 separate \/ ~IsZero(StateCell(s, k, Columns(pm)[c])[2])}
  <2>2. rows = [t \in DOMAIN sel |->
                   [set |-> sel[t],
                    rows |-> [k \in 1 .. fin(sel[t]) - ini(sel[t]) |->
                        [j \in chosen(sel[t], k - 1) |-> StateCell(sel[t], k - 1, Columns(pm)[j])]]]]
    BY <2>1 DEF pm_print_data_paraver_cstates, Table
  <2>3. \A t, k : chosen(t, k) \subseteq DOMAIN Columns(pm)
    OBVIOUS
  <2> HIDE DEF sel, chosen
  <2> SUFFICES /\ DOMAIN rows = DOMAIN sel
               /\ \A t \in DOMAIN sel :
                     /\ DOMAIN rows[t].rows = 1 .. fin(sel[t]) - ini(sel[t])
                     /\ \A k \in 1 .. fin(sel[t]) - ini(sel[t]) : \A j \in DOMAIN rows[t].rows[k] :
                           /\ j \in DOMAIN Columns(pm)
                           /\ rows[t].rows[k][j] = StateCell(sel[t], k - 1, Columns(pm)[j])
    BY DEF sel
  <2> QED BY <2>2, <2>3
<1> QED BY <1>1, <1>2

\* The printers of states.
LEMMA StatesStep ==
    ASSUME Inv, PrintPstates \/ PrintCstates
    PROVE  StatesNameTheirLine'
<1>1. PrintAny
  BY DEF PrintAny
<1> DEFINE rows == printed'.rows
<1>2. PICK set \in SetArguments, pm \in SUBSET mask :
          /\ printed'.lines = pm /\ printed'.set = set
          /\ printed'.result = "done" =>
                /\ DefinedStates(set) /\ ~Refused(set)
                /\ rows = pm_print_data_paraver_pstates(set, pm)
                     \/ \E separate \in BOOLEAN : rows = pm_print_data_paraver_cstates(set, pm, separate)
  <2>1. CASE PrintPstates
    BY <2>1, OtherCalls DEF Left
  <2>2. CASE PrintCstates
    BY <2>2, OtherCalls DEF Left
  <2> QED BY <2>1, <2>2
<1>3. /\ Copying /\ se_idx = Len(sets) + 1 /\ set \in Int /\ pm \subseteq mask
      /\ interval' = interval /\ aggregate' = aggregate /\ nlines' = nlines /\ mask' = mask
  BY <1>1, WhatIsSent
<1>4. OfDevice(printed.lines)' = OfDevice(pm) /\ nsets' = nsets
  BY <1>1, <1>2, WhatIsSent, TruthKept
<1> DEFINE sel == SelectedStates(set)
<1>5. ASSUME printed'.result = "done"
      PROVE  /\ DOMAIN rows = DOMAIN sel
             /\ \A t \in DOMAIN sel :
                   /\ DOMAIN rows[t].rows = 1 .. fin(sel[t]) - ini(sel[t])
                   /\ \A k \in 1 .. fin(sel[t]) - ini(sel[t]) : \A j \in DOMAIN rows[t].rows[k] :
                         /\ j \in DOMAIN Columns(pm)
                         /\ rows[t].rows[k][j] = StateCell(sel[t], k - 1, Columns(pm)[j])
  <2> HIDE DEF rows
  <2> QED BY <1>2, <1>5, StateTables
<1>6. ASSUME printed'.result = "done", interval = 1, ~aggregate, OfDevice(pm), nlines = 1 \/ nsets = 1,
             NEW t \in DOMAIN rows, NEW k \in DOMAIN rows[t].rows, NEW j \in DOMAIN rows[t].rows[k],
             NEW x \in rows[t].rows[k][j][2]
      PROVE  /\ x # <<0, 0>>
             /\ Nth(mask, x[1]) = 4 * rows[t].rows[k][j][1].cpu + rows[t].rows[k][j][1].state
  <2>1. sel[t] \in 0 .. nsets - 1
    BY <1>2, <1>3, <1>5, <1>6, SelectedStateSets
  <2> HIDE DEF sel
  <2>2. /\ k \in 1 .. fin(sel[t]) - ini(sel[t]) /\ j \in DOMAIN Columns(pm)
        /\ rows[t].rows[k][j] = StateCell(sel[t], k - 1, Columns(pm)[j])
    BY <1>5, <1>6
  <2>3. x \in StateCell(sel[t], k - 1, Columns(pm)[j])[2]
    BY <2>2
  <2>4. /\ x # <<0, 0>>
        /\ Nth(mask, x[1]) = 4 * StateCell(sel[t], k - 1, Columns(pm)[j])[1].cpu
                               + StateCell(sel[t], k - 1, Columns(pm)[j])[1].state
    BY <1>3, <1>6, <2>1, <2>2, <2>3, StateCells
  <2> QED BY <2>2, <2>4
<1> HIDE DEF sel
<1> QED BY <1>2, <1>3, <1>4, <1>6 DEF StatesNameTheirLine, FullRateTable

(***************************************************************************)
(* Every event of the printers of processor states names the line its      *)
(* sample was read on, four states to a processor, for every mask.         *)
(***************************************************************************)
THEOREM StatesCorrect == Spec => []StatesNameTheirLine
<1>1. PrintInit => StatesNameTheirLine
  BY DEF PrintInit, Init, StatesNameTheirLine, FullRateTable
<1>2. Inv /\ StatesNameTheirLine /\ [Next]_vars => StatesNameTheirLine'
  <2> SUFFICES ASSUME Inv, StatesNameTheirLine, [Next]_vars PROVE StatesNameTheirLine'
    OBVIOUS
  <2>1. CASE Record \/ GetData
    BY <2>1, NotPrinted DEF StatesNameTheirLine, FullRateTable
  <2>2. CASE PrintPstates \/ PrintCstates
    BY <2>2, StatesStep
  <2>3. CASE CalculateEnergy \/ PrintCsv \/ PrintStdout \/ PrintText \/ PrintOtf \/ PrintParaver
    <3>1. printed'.format \in {"energy", "csv", "stdout", "otf", "paraver", "text"}
      BY <2>3, Formats
    <3> QED BY <3>1 DEF StatesNameTheirLine, FullRateTable
  <2>4. CASE StreamAny
    BY <2>4, StreamFrame DEF StatesNameTheirLine, FullRateTable
  <2>5. CASE UNCHANGED vars
    BY <2>5, PropertiesKept
  <2> QED BY <2>1, <2>2, <2>3, <2>4, <2>5 DEF Next, StreamAny
<1> QED BY <1>1, <1>2, ReplyLayout, PTL DEF Spec

----------------------------------------------------------------------------
\* The spacing is the end of the last set.
LEMMA SpacingIsLast ==
    ASSUME Inv, Copying
    PROVE  Spacing = watts_sets[Len(sets) + 1] /\ Spacing \in Nat
<1>1. /\ Len(sets) \in Nat /\ Len(watts_sets) = Len(sets) + 1 /\ watts_sets \in Seq(Nat)
      /\ watts_sets[1] = 0
  BY LenProperties DEF Inv, TypeInv, LoopInv, SizesInv, Copying
<1>2. watts_sets[Len(sets) + 1] \in Nat
  BY <1>1, ElementOfSeq
<1> QED BY <1>1, <1>2 DEF Spacing

\* The samples added up for a column are those of its row, one after the other.
LEMMA SamplesOfColumn ==
    ASSUME Inv, Copying, interval = 1, se_idx = Len(sets) + 1, NEW s \in 0 .. nsets - 1
    PROVE  /\ aggregate =>
                 Samples(s, 0) = [k \in 1 .. Common(sets[s + 1]) |-> {Recorded(s, l, k - 1) : l \in lines}]
           /\ ~aggregate /\ (nlines = 1 \/ nsets = 1) => \A m \in lines :
                 Samples(s, m - 1) = [k \in 1 .. Common(sets[s + 1]) |-> {Recorded(s, m, k - 1)}]
<1>1. /\ fin(s) - ini(s) = Common(sets[s + 1]) /\ ini(s) \in Nat /\ fin(s) - ini(s) \in Nat
  BY SetBounds
<1>2. ASSUME aggregate
      PROVE  Samples(s, 0) = [k \in 1 .. Common(sets[s + 1]) |-> {Recorded(s, l, k - 1) : l \in lines}]
  <2>1. ASSUME NEW k \in 1 .. Common(sets[s + 1])
        PROVE  energy_watts(LineMajor(s, k - 1, 0)) = {Recorded(s, l, k - 1) : l \in lines}
    <3>1. LineMajor(s, k - 1, 0) = ini(s) + (k - 1)
      <4>1. k \in Nat /\ Spacing \in Nat
        BY <1>1, SpacingIsLast
      <4> QED BY <1>1, <4>1 DEF LineMajor
    <3> QED BY <1>2, <3>1, SumFound
  <2> QED BY <1>1, <2>1 DEF Samples
<1>3. ASSUME ~aggregate, nlines = 1 \/ nsets = 1, NEW m \in lines
      PROVE  Samples(s, m - 1) = [k \in 1 .. Common(sets[s + 1]) |-> {Recorded(s, m, k - 1)}]
  <2>1. ASSUME NEW k \in 1 .. Common(sets[s + 1])
        PROVE  energy_watts(LineMajor(s, k - 1, m - 1)) = {Recorded(s, m, k - 1)}
    <3>1. k - 1 \in Nat
      BY <1>1
    <3>2. LineMajor(s, k - 1, m - 1) = Start(s + 1, m) + (k - 1)
      BY <1>3, <3>1, LineMajorStart
    <3> QED BY <1>3, <3>2, LineFound
  <2> QED BY <1>1, <2>1 DEF Samples
<1> QED BY <1>2, <1>3

\* The only row that pm_calculate_energy prints for one set.
LEMMA EnergyRow ==
    ASSUME NEW set, set # -1, NEW pm, NEW heap
    PROVE  LET row == pm_calculate_energy(set, pm, heap)[1]
           IN  /\ row.set = set /\ row.earlier = 0 /\ (heap = "zero" => ~row.junk)
               /\ row.cells = IF aggregate THEN <<<<Sum, Samples(set, 0)>>>>
                              ELSE [j \in DOMAIN Columns(pm) |->
                                       <<Columns(pm)[j].ind_lines,
                                         Samples(set, Columns(pm)[j].ind_print)>>]
<1> DEFINE row == [set |-> set, earlier |-> 0, junk |-> heap # "zero",
                   cells |-> IF aggregate THEN <<<<Sum, Samples(set, 0)>>>>
                             ELSE [j \in DOMAIN Columns(pm) |->
                                      <<Columns(pm)[j].ind_lines, Samples(set, Columns(pm)[j].ind_print)>>]]
           Average(x) == [set |-> <<set>>[x], earlier |-> x - 1, junk |-> heap # "zero",
                          cells |-> IF aggregate THEN <<<<Sum, Samples(<<set>>[x], 0)>>>>
                                    ELSE [j \in DOMAIN Columns(pm) |->
                                        <<Columns(pm)[j].ind_lines,
                                          Samples(<<set>>[x], Columns(pm)[j].ind_print)>>]]
<1>1. Selected(set) = <<set>> /\ <<set>> # <<>> /\ DOMAIN <<set>> = {1} /\ Len(<<set>>) = 1
  BY DEF Selected
<1>2. Average(1) = row
  <2>1. <<set>>[1] = set /\ 1 - 1 = 0
    OBVIOUS
  <2> QED BY <2>1
<1>3. ASSUME ~aggregate PROVE pm_calculate_energy(set, pm, heap)[1] = row
  <2>1. pm_calculate_energy(set, pm, heap) = [x \in DOMAIN <<set>> |-> Average(x)]
    BY <1>1, <1>3 DEF pm_calculate_energy
  <2> HIDE DEF Average, row
  <2>2. pm_calculate_energy(set, pm, heap)[1] = Average(1)
    BY <1>1, <2>1
  <2>3. pm_calculate_energy(set, pm, heap)[1] = row
    BY <1>2, <2>2
  <2> QED BY <2>3
<1>4. ASSUME aggregate PROVE pm_calculate_energy(set, pm, heap)[1] = row
  <2>1. pm_calculate_energy(set, pm, heap) = <<Average(1)>>
    BY <1>1, <1>4 DEF pm_calculate_energy
  <2> HIDE DEF Average, row
  <2>2. pm_calculate_energy(set, pm, heap)[1] = row
    BY <1>2, <2>1
  <2> QED BY <2>2
<1>5. pm_calculate_energy(set, pm, heap)[1] = row
  BY <1>3, <1>4
<1>6. /\ row.set = set /\ row.earlier = 0 /\ row.junk = (heap # "zero")
      /\ row.cells = IF aggregate THEN <<<<Sum, Samples(set, 0)>>>>
                     ELSE [j \in DOMAIN Columns(pm) |->
                              <<Columns(pm)[j].ind_lines, Samples(set, Columns(pm)[j].ind_print)>>]
  OBVIOUS
<1>7. heap = "zero" => ~row.junk
  BY <1>6
<1> HIDE DEF row
<1> QED BY <1>5, <1>6, <1>7

\* pm_calculate_energy for one set.
LEMMA EnergyStep ==
    ASSUME Inv, CalculateEnergy
    PROVE  EnergyOfOneSet'
<1>1. PrintAny
  BY DEF PrintAny
<1>2. PICK set \in SetArguments, pm \in LineArguments : \E heap \in Heaps(pm) :
          /\ printed'.result = "done" => Defined(set)
          /\ Left("energy", set, pm, pm_calculate_energy(set, pm, heap))
  BY OtherCalls
<1>3. PICK heap \in Heaps(pm) :
          /\ printed'.result = "done" => Defined(set)
          /\ Left("energy", set, pm, pm_calculate_energy(set, pm, heap))
  BY <1>2
<1>4. aggregate => heap = "zero"
  BY DEF Heaps
<1>5. /\ printed'.set = set /\ printed'.lines = pm
      /\ printed'.result = "done" =>
            ~Refused(set) /\ Defined(set) /\ printed'.rows = pm_calculate_energy(set, pm, heap)
  BY <1>3 DEF Left
<1>6. /\ Copying /\ se_idx = Len(sets) + 1 /\ set \in Int /\ pm \subseteq mask /\ TypeInv
      /\ interval' = interval /\ aggregate' = aggregate /\ nlines' = nlines /\ mask' = mask
  BY <1>1, WhatIsSent DEF Inv
<1>7. /\ Truth(<<printed.set>>, printed.lines)' = Truth(<<set>>, pm)
      /\ OfDevice(printed.lines)' = OfDevice(pm) /\ nsets' = nsets
  BY <1>1, <1>5, WhatIsSent, TruthKept
<1> DEFINE row == printed'.rows[1]
           truth == Truth(<<set>>, pm)[1].rows
<1>8. ASSUME printed'.result = "done", interval = 1, set # -1, OfDevice(pm),
             aggregate \/ nlines = 1 \/ nsets = 1
      PROVE  /\ row.set = set /\ row.earlier = 0 /\ (aggregate => ~row.junk)
             /\ \A j \in DOMAIN row.cells : row.cells[j][2] = [k \in DOMAIN truth |-> truth[k][j][2]]
  <2> DEFINE C == Common(sets[set + 1])
  <2>1. set \in 0 .. nsets - 1
    <3>1. Selected(set) = <<set>> /\ 1 \in DOMAIN <<set>> /\ <<set>>[1] = set
      BY <1>8 DEF Selected
    <3> QED BY <1>5, <1>6, <1>8, <3>1, SelectedSets
  <2>2. /\ row.set = set /\ row.earlier = 0 /\ (heap = "zero" => ~row.junk)
        /\ row.cells = IF aggregate THEN <<<<Sum, Samples(set, 0)>>>>
                       ELSE [j \in DOMAIN Columns(pm) |->
                                <<Columns(pm)[j].ind_lines, Samples(set, Columns(pm)[j].ind_print)>>]
    <3>1. row = pm_calculate_energy(set, pm, heap)[1]
      BY <1>5, <1>8
    <3> HIDE DEF row
    <3> QED BY <1>8, <3>1, EnergyRow
  <2>3. truth = [k \in 1 .. C |-> TrueRow(pm, set, k)]
    <3> DEFINE one == <<set>>
               F(y) == [set |-> y, rows |-> [k \in 1 .. Common(sets[y + 1]) |-> TrueRow(pm, y, k)]]
    <3>1. Truth(one, pm) = [x \in DOMAIN one |-> F(one[x])]
      BY DEF Truth, TrueRow
    <3>2. 1 \in DOMAIN one /\ one[1] = set
      OBVIOUS
    <3> HIDE DEF F, one
    <3>3. Truth(one, pm)[1] = F(set)
      BY <3>1, <3>2
    <3>4. truth = F(set).rows
      BY <3>3 DEF one
    <3> QED BY <3>4 DEF F
  <2> HIDE DEF row, truth
  <2>4. row.set = set /\ row.earlier = 0 /\ (aggregate => ~row.junk)
    BY <1>4, <2>2
  <2>5. CASE aggregate
    <3>1. row.cells = <<<<Sum, Samples(set, 0)>>>>
      BY <2>2, <2>5
    <3>2. Samples(set, 0) = [k \in 1 .. C |-> {Recorded(set, l, k - 1) : l \in lines}]
      BY <1>6, <1>8, <2>1, <2>5, SamplesOfColumn
    <3>3. \A k \in 1 .. C : truth[k] = <<<<Sum, {Recorded(set, l, k - 1) : l \in lines}>>>>
      BY <2>3, <2>5 DEF TrueRow
    <3> HIDE DEF C
    <3>4. DOMAIN truth = 1 .. C
      BY <2>3
    <3>5. \A k \in 1 .. C : truth[k][1][2] = {Recorded(set, l, k - 1) : l \in lines}
      BY <3>3
    <3>6. Samples(set, 0) = [k \in DOMAIN truth |-> truth[k][1][2]]
      BY <3>2, <3>4, <3>5
    <3>7. DOMAIN row.cells = {1} /\ row.cells[1][2] = Samples(set, 0)
      BY <3>1
    <3> QED BY <2>4, <3>6, <3>7
  <2>6. CASE ~aggregate
    <3> DEFINE N == Cardinality(pm)
               Line(j) == Rank(Nth(pm, j), mask)
    <3>1. Columns(pm) = [j \in 1 .. N |-> [ind_print |-> Line(j) - 1, ind_lines |-> Nth(pm, j)]]
      BY <1>6, <1>8, ColumnsOfLines
    <3>2. \A j \in 1 .. N : Line(j) \in lines
      BY <1>6, <1>8, ColumnsOfLines
    <3>3. row.cells = [j \in DOMAIN Columns(pm) |->
                          <<Columns(pm)[j].ind_lines, Samples(set, Columns(pm)[j].ind_print)>>]
      BY <2>2, <2>6
    <3>4. \A k \in 1 .. C : truth[k] = [j \in 1 .. N |-> <<Nth(pm, j), {Recorded(set, Line(j), k - 1)}>>]
      BY <2>3, <2>6 DEF TrueRow
    <3>5. DOMAIN truth = 1 .. C
      BY <2>3
    <3> HIDE DEF N, Line
    <3>6. /\ DOMAIN row.cells = 1 .. N
          /\ \A j \in 1 .. N : row.cells[j][2] = Samples(set, Line(j) - 1)
      BY <3>1, <3>3
    <3>7. \A j \in 1 .. N : Samples(set, Line(j) - 1) = [k \in 1 .. C |-> {Recorded(set, Line(j), k - 1)}]
      BY <1>6, <1>8, <2>1, <2>6, <3>2, SamplesOfColumn
    <3> HIDE DEF C
    <3>8. \A j \in 1 .. N : \A k \in 1 .. C : truth[k][j][2] = {Recorded(set, Line(j), k - 1)}
      <4> SUFFICES ASSUME NEW j \in 1 .. N, NEW k \in 1 .. C
                   PROVE  truth[k][j][2] = {Recorded(set, Line(j), k - 1)}
        OBVIOUS
      <4>1. truth[k][j] = <<Nth(pm, j), {Recorded(set, Line(j), k - 1)}>>
        BY <3>4
      <4> QED BY <4>1
    <3>9. \A j \in 1 .. N : row.cells[j][2] = [k \in DOMAIN truth |-> truth[k][j][2]]
      BY <3>5, <3>6, <3>7, <3>8
    <3> QED BY <2>4, <3>6, <3>9
  <2> QED BY <2>5, <2>6
<1>9. Truth(<<printed.set>>, printed.lines)'[1].rows = truth
  BY <1>7
<1> HIDE DEF row, truth
<1>10. EnergyOfOneSet' <=>
          (/\ FullRateTable({"energy"})' /\ printed'.set # -1 /\ ~SetInDispute(printed.set)'
           /\ OfDevice(printed.lines)' /\ (aggregate' \/ nlines' = 1 \/ nsets' = 1)
           => /\ row.set = printed'.set /\ row.earlier = 0 /\ (aggregate' => ~row.junk)
              /\ \A j \in DOMAIN row.cells : row.cells[j][2] = [k \in DOMAIN truth |-> truth[k][j][2]])
  BY <1>9 DEF EnergyOfOneSet, row
<1> QED BY <1>5, <1>6, <1>7, <1>8, <1>10 DEF FullRateTable

(***************************************************************************)
(* The average of one set that pm_calculate_energy prints takes every      *)
(* sample that the lines of the set have in common, once, and no other.    *)
(***************************************************************************)
THEOREM EnergyCorrect == Spec => []EnergyOfOneSet
<1>1. PrintInit => EnergyOfOneSet
  BY DEF PrintInit, Init, EnergyOfOneSet, FullRateTable
<1>2. Inv /\ EnergyOfOneSet /\ [Next]_vars => EnergyOfOneSet'
  <2> SUFFICES ASSUME Inv, EnergyOfOneSet, [Next]_vars PROVE EnergyOfOneSet'
    OBVIOUS
  <2>1. CASE Record \/ GetData
    BY <2>1, NotPrinted DEF EnergyOfOneSet, FullRateTable
  <2>2. CASE CalculateEnergy
    BY <2>2, EnergyStep
  <2>3. CASE \/ PrintPstates \/ PrintCstates
             \/ PrintCsv \/ PrintStdout \/ PrintText \/ PrintOtf \/ PrintParaver
    <3>1. printed'.format \in {"pstates", "cstates", "csv", "stdout", "otf", "paraver", "text"}
      BY <2>3, Formats
    <3> QED BY <3>1 DEF EnergyOfOneSet, FullRateTable
  <2>4. CASE StreamAny
    BY <2>4, StreamFrame DEF EnergyOfOneSet, FullRateTable
  <2>5. CASE UNCHANGED vars
    BY <2>5, PropertiesKept
  <2> QED BY <2>1, <2>2, <2>3, <2>4, <2>5 DEF Next, StreamAny
<1> QED BY <1>1, <1>2, ReplyLayout, PTL DEF Spec

----------------------------------------------------------------------------
\* What get() sends is a whole number of the lines the client counts.
LEMMA WholeLines ==
    ASSUME Inv, Copying, interval = 1, ~aggregate, se_idx = Len(sets) + 1
    PROVE  Len(watts) = nlines * Spacing
<1>1. Spacing = watts_sets[Len(sets) + 1] /\ Spacing \in Nat /\ nlines \in Nat \ {0}
  BY SpacingIsLast DEF Inv, TypeInv
<1>2. Len(watts) = Start(se_idx, line) /\ line = 1
  BY DEF Inv, LineInv, LoopInv
<1>3. Len(watts) = nlines * Spacing + 0
  BY <1>1, <1>2 DEF Start
<1> QED BY <1>1, <1>3

(***************************************************************************)
(* How far the loops of pm_get_and_print_data_paraver are: what it has     *)
(* read is whole lines and the part of the current one.                    *)
(***************************************************************************)
StreamInv ==
    /\ read \in Nat /\ read_from_line \in Nat /\ current_line \in Nat
    /\ phase = "stream" /\ aggregate => read_from_line = 0
    /\ phase = "stream" /\ interval = 1 => read <= Len(watts)
    /\ phase = "stream" /\ interval = 1 /\ ~aggregate =>
          read = current_line * Spacing + read_from_line /\ read_from_line <= Spacing

\* In the middle of a line there is more of it.
LEMMA LineIsThere ==
    ASSUME NEW n \in Nat, NEW S \in Nat, NEW c \in Nat, NEW r \in Nat,
           c * S + r <= n * S, 0 < r, r < S
    PROVE  c * S + r < n * S
<1>1. ~(c >= n)
  <2> SUFFICES ASSUME c >= n PROVE FALSE
    OBVIOUS
  <2>1. c * S >= n * S /\ c * S \in Nat /\ n * S \in Nat
    OBVIOUS
  <2> QED BY <2>1
<1>2. (c + 1) * S <= n * S
  BY <1>1
<1>3. (c + 1) * S = c * S + S /\ c * S \in Nat /\ n * S \in Nat
  OBVIOUS
<1> QED BY <1>2, <1>3

\* The element that the client waits for is sent.
LEMMA ElementIsThere ==
    ASSUME Inv, StreamInv, interval = 1, Receiving
    PROVE  read < Len(watts)
<1>1. Copying /\ phase = "stream" /\ se_idx = Len(sets) + 1 /\ Spacing \in Nat /\ nlines \in Nat
  <2>1. phase = "stream"
    BY DEF Receiving
  <2>2. Copying /\ se_idx = Len(sets) + 1 /\ nlines \in Nat
    BY <2>1 DEF Copying, Inv, LoopInv, TypeInv
  <2> QED BY <2>1, <2>2, SpacingIsLast
<1>2. CASE aggregate \/ read_from_line = 0
  BY <1>2 DEF Receiving, MoreToRead
<1>3. CASE ~aggregate /\ read_from_line # 0
  <2>1. Len(watts) = nlines * Spacing
    BY <1>1, <1>3, WholeLines
  <2>2. /\ read = current_line * Spacing + read_from_line /\ read <= Len(watts)
        /\ current_line \in Nat /\ read_from_line \in Nat
    BY <1>1, <1>3 DEF StreamInv
  <2>3. read_from_line < Spacing
    BY <1>3 DEF Receiving, MoreOfLine
  <2>4. current_line * Spacing + read_from_line < nlines * Spacing
    <3>1. current_line * Spacing + read_from_line <= nlines * Spacing
      BY <2>1, <2>2
    <3>2. 0 < read_from_line
      BY <1>3, <2>2
    <3> QED BY <1>1, <2>2, <2>3, <3>1, <3>2, LineIsThere
  <2> QED BY <2>1, <2>2, <2>4
<1> QED BY <1>2, <1>3

\* Every step keeps the count of lines and elements.
LEMMA StreamInvStep ==
    ASSUME Inv, StreamInv, [Next]_vars
    PROVE  StreamInv'
<1>1. CASE Record \/ GetData
  <2>1. UNCHANGED stream_vars /\ phase' # "stream"
    BY <1>1 DEF Record, RecordSet, GetData, Get, PushSize, StartCopy, CopySum, CopyOneLine, Send
  <2> QED BY <2>1 DEF StreamInv, stream_vars
<1>2. CASE PrintAny
  <2>1. UNCHANGED stream_vars /\ phase' # "stream"
    BY <1>2, PrintFrame
  <2> QED BY <2>1 DEF StreamInv, stream_vars
<1>3. ASSUME StreamAny
      PROVE  /\ interval' = interval /\ aggregate' = aggregate /\ watts' = watts
             /\ Spacing' = Spacing /\ Spacing \in Nat /\ Len(watts) \in Nat
  <2>1. Copying
    BY <1>3, StreamFrame DEF Copying
  <2>2. UNCHANGED <<counter_vars, reply_vars>>
    BY <1>3, StreamFrame
  <2> QED BY <2>1, <2>2, SpacingIsLast, LenProperties DEF counter_vars, reply_vars, Spacing, Inv, TypeInv
<1>4. CASE GetAndPrint
  <2>1. read' = 0 /\ read_from_line' = 0 /\ current_line' = 0
    BY <1>4 DEF GetAndPrint
  <2>2. 0 * Spacing + 0 = 0
    BY <1>3, <1>4 DEF StreamAny
  <2> QED BY <1>3, <1>4, <2>1, <2>2 DEF StreamInv, StreamAny
<1>5. CASE StreamElement
  <2>1. /\ phase = "stream" /\ phase' = "stream" /\ read' = read + 1 /\ current_line' = current_line
        /\ read_from_line' = IF aggregate THEN 0 ELSE read_from_line + 1
        /\ read + 1 \in DOMAIN watts /\ (~aggregate => read_from_line < Spacing)
    BY <1>5 DEF StreamElement, Receiving, MoreOfLine
  <2>2. read + 1 <= Len(watts)
    BY <2>1 DEF Inv, TypeInv
  <2>3. /\ read \in Nat /\ read_from_line \in Nat /\ current_line \in Nat
        /\ interval = 1 /\ ~aggregate => read = current_line * Spacing + read_from_line
    BY <2>1 DEF StreamInv
  <2>4. current_line * Spacing \in Nat
    BY <1>3, <1>5, <2>3 DEF StreamAny
  <2> DEFINE p == current_line * Spacing
  <2>5. p' = p
    BY <1>3, <1>5, <2>1 DEF StreamAny
  <2> HIDE DEF p
  <2>6. interval = 1 /\ ~aggregate => read + 1 = p + (read_from_line + 1) /\ read_from_line + 1 <= Spacing
    BY <1>3, <1>5, <2>1, <2>3, <2>4 DEF StreamAny, p
  <2>7. read' \in Nat /\ read_from_line' \in Nat /\ current_line' \in Nat
    BY <2>1, <2>3
  <2>8. aggregate' => read_from_line' = 0
    BY <1>3, <1>5, <2>1 DEF StreamAny
  <2>9. (read <= Len(watts))'
    BY <1>3, <1>5, <2>1, <2>2 DEF StreamAny
  <2>10. interval' = 1 /\ ~aggregate' => read' = p' + read_from_line' /\ read_from_line' <= Spacing'
    BY <1>3, <1>5, <2>1, <2>5, <2>6 DEF StreamAny
  <2> QED BY <2>7, <2>8, <2>9, <2>10 DEF StreamInv, p
<1>6. CASE StreamExits \/ StreamReturns
  <2>1. UNCHANGED stream_vars /\ phase' = "printed"
    BY <1>6 DEF StreamExits, StreamReturns
  <2> QED BY <2>1 DEF StreamInv, stream_vars
<1>7. CASE StreamLineEnds
  <2>1. /\ phase = "stream" /\ phase' = "stream" /\ read' = read /\ current_line' = current_line + 1
        /\ read_from_line' = 0 /\ ~aggregate /\ ~(read_from_line < Spacing)
    BY <1>7 DEF StreamLineEnds, MoreOfLine
  <2>2. /\ read \in Nat /\ read_from_line \in Nat /\ current_line \in Nat
        /\ interval = 1 => /\ read = current_line * Spacing + read_from_line
                           /\ read_from_line <= Spacing /\ read <= Len(watts)
    BY <2>1 DEF StreamInv
  <2>3. (current_line + 1) * Spacing = current_line * Spacing + Spacing /\ current_line * Spacing \in Nat
    BY <1>3, <1>7, <2>2 DEF StreamAny
  <2>4. interval = 1 => read_from_line = Spacing
    BY <1>3, <1>7, <2>1, <2>2 DEF StreamAny
  <2>5. interval = 1 => read = (current_line + 1) * Spacing + 0
    BY <1>3, <1>7, <2>2, <2>3, <2>4 DEF StreamAny
  <2> QED BY <1>3, <1>7, <2>1, <2>2, <2>5 DEF StreamInv, StreamAny
<1>8. CASE UNCHANGED vars
  BY <1>8 DEF vars, counter_vars, reply_vars, stream_vars, StreamInv, Spacing
<1> QED BY <1>1, <1>2, <1>4, <1>5, <1>6, <1>7, <1>8 DEF Next, PrintAny

\* What a call has taken when it returns.
Taken ==
    phase = "printed" /\ printed.format = "stream" /\ interval = 1 =>
        /\ printed.result = "done" => read = Len(watts)
        /\ printed.result = "refused" => read = 0

LEMMA TakenStep ==
    ASSUME Inv, StreamInv, Taken, [Next]_vars
    PROVE  Taken'
<1>1. CASE Record \/ GetData
  BY <1>1, NotPrinted DEF Taken
<1>2. CASE PrintAny
  <2>1. printed'.format \in {"pstates", "cstates", "energy", "csv", "stdout", "otf", "paraver", "text"}
    BY <1>2, Formats DEF PrintAny
  <2> QED BY <2>1 DEF Taken
<1>3. CASE GetAndPrint
  <2>1. read' = 0 /\ (phase' = "printed" => printed'.result = "refused")
    BY <1>3 DEF GetAndPrint
  <2> QED BY <2>1 DEF Taken
<1>4. CASE StreamElement \/ StreamLineEnds
  <2>1. phase' = "stream"
    BY <1>4 DEF StreamElement, StreamLineEnds, Receiving
  <2> QED BY <2>1 DEF Taken
<1>5. CASE StreamExits
  <2>1. printed'.result = "exited"
    BY <1>5 DEF StreamExits
  <2> QED BY <2>1 DEF Taken
<1>6. CASE StreamReturns
  <2>1. /\ phase = "stream" /\ ~(read < Len(watts)) /\ printed'.result = "done" /\ read' = read
        /\ UNCHANGED <<counter_vars, reply_vars>>
    BY <1>6 DEF StreamReturns, MoreToRead, stream_vars
  <2>2. interval' = interval /\ watts' = watts
    BY <2>1 DEF counter_vars, reply_vars
  <2>3. read \in Nat /\ Len(watts) \in Nat /\ (interval = 1 => read <= Len(watts))
    BY <2>1, LenProperties DEF StreamInv, Inv, TypeInv
  <2> QED BY <2>1, <2>2, <2>3 DEF Taken
<1>7. CASE UNCHANGED vars
  BY <1>7 DEF vars, counter_vars, reply_vars, stream_vars, Taken
<1> QED BY <1>1, <1>2, <1>3, <1>4, <1>5, <1>6, <1>7 DEF Next, PrintAny

(***************************************************************************)
(* pm_get_and_print_data_paraver receives exactly what get() sends at the  *)
(* device's own frequency, for any number of sets, lines and samples: it   *)
(* never waits for an element that is not sent, takes them all when it     *)
(* returns 1, and none when it refuses the set.                            *)
(***************************************************************************)
THEOREM StreamComplete == Spec => []StreamConsumed
<1>1. PrintInit => StreamInv /\ Taken
  BY DEF PrintInit, Init, StreamInv, Taken
<1>2. Inv /\ StreamInv /\ Taken /\ [Next]_vars => StreamInv' /\ Taken'
  BY StreamInvStep, TakenStep
<1>3. Inv /\ StreamInv /\ Taken => StreamConsumed
  BY ElementIsThere DEF StreamConsumed, Taken
<1> QED BY <1>1, <1>2, <1>3, ReplyLayout, PTL DEF Spec

=============================================================================
