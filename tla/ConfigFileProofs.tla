-------------------------- MODULE ConfigFileProofs --------------------------
(***************************************************************************)
(* What Server::parse_configfile leaves in device_map, for any file, any   *)
(* drivers and any names.                                                  *)
(***************************************************************************)
EXTENDS ConfigFile, SequenceTheorems, FiniteSetTheorems, TLAPS

All == getMemberNames(Devices, Names)
IsSeq(s) == \E S : s \in Seq(S)
Numbers(d) == {d.lines[k].number : k \in DOMAIN d.lines}

Complete(d) ==
    /\ Len(d.lines) = NumLines[d.type]
    /\ Numbers(d) = 0 .. NumLines[d.type] - 1

\* device_map holds the first devices of the file, each with all its lines.
MapInv ==
    /\ IsSeq(device_map) /\ Len(device_map) <= Len(All)
    /\ \A i \in 1 .. Len(device_map) : device_map[i].name = All[i] /\ Complete(device_map[i])

\* Before the devices are read nothing is wrong, and nothing is there.
StartInv ==
    /\ phase \in {"main", "parse", "refused", "device", "line", "run", "returned", "serving"}
    /\ phase \in {"main", "parse", "refused"} => device_map = <<>>
    /\ phase \in {"main", "parse", "device", "line"} => ~error

\* The devices not yet read are the file's others, after the one being read.
Reading == IF phase = "line" THEN 1 ELSE 0
TodoInv ==
    phase \in {"device", "line"} =>
        /\ IsSeq(todo) /\ Len(device_map) + Reading + Len(todo) = Len(All)
        /\ \A i \in 1 .. Len(todo) : todo[i] = All[Len(device_map) + Reading + i]
        /\ phase = "line" => dev.name = All[Len(device_map) + 1]

\* The device being read: the lines it has got have numbers of their own.
DevInv ==
    phase = "line" =>
        /\ DOMAIN dev = {"name", "type", "computer", "lines"}
        /\ dev.type \in DOMAIN NumLines /\ Size = NumLines[dev.type]
        /\ IsSeq(dev.lines) /\ IsSeq(todo_lines) /\ Len(dev.lines) + Len(todo_lines) = Size
        /\ Numbers(dev) \subseteq 0 .. Size - 1
        /\ IsFiniteSet(Numbers(dev)) /\ Cardinality(Numbers(dev)) = Len(dev.lines)

\* Reading ended early exactly when a mistake was reported.
EndInv ==
    /\ phase \in {"run", "serving"} => device_map = <<>> \/ (error <=> Len(device_map) < Len(All))
    /\ phase = "serving" => device_map # <<>>

(***************************************************************************)
(* The inductive invariant: the devices served, the one being read and the *)
(* ones to come are the file's, in order (MapInv, TodoInv); a device's     *)
(* lines are as many as their numbers, all below their final count, so     *)
(* that the last one fills the last gap (DevInv).                          *)
(***************************************************************************)
Inv == MapInv /\ StartInv /\ TodoInv /\ DevInv /\ EndInv

----------------------------------------------------------------------------
\* Sequences of any elements, as the loops over JSON members have them.
LEMMA LenAny ==
    ASSUME NEW s, IsSeq(s)
    PROVE  Len(s) \in Nat /\ DOMAIN s = 1 .. Len(s) /\ (Len(s) = 0 <=> s = <<>>)
<1>1. PICK S : s \in Seq(S)
  BY DEF IsSeq
<1> QED BY <1>1, LenProperties, EmptySeq

\* A step of a loop that fills a sequence.
LEMMA AppendAny ==
    ASSUME NEW s, IsSeq(s), NEW e
    PROVE  /\ IsSeq(Append(s, e)) /\ Len(Append(s, e)) = Len(s) + 1 /\ Append(s, e) # <<>>
           /\ \A i \in 1 .. Len(s) : Append(s, e)[i] = s[i]
           /\ Append(s, e)[Len(s) + 1] = e
<1>1. PICK S : s \in Seq(S)
  BY DEF IsSeq
<1>2. s \in Seq(S \cup {e}) /\ e \in S \cup {e}
  BY <1>1, SeqMonotonic
<1> QED BY <1>2, AppendProperties DEF IsSeq

\* A step of a loop that walks one.
LEMMA TailAny ==
    ASSUME NEW s, IsSeq(s), s # <<>>
    PROVE  /\ IsSeq(Tail(s)) /\ Len(s) \in Nat \ {0} /\ Len(Tail(s)) = Len(s) - 1
           /\ \A i \in 1 .. Len(s) - 1 : Tail(s)[i] = s[i + 1]
           /\ Head(s) = s[1]
<1>1. PICK S : s \in Seq(S)
  BY DEF IsSeq
<1>2. Len(s) \in Nat \ {0}
  BY <1>1, LenProperties, EmptySeq
<1>3. Tail(s) \in Seq(S) /\ Len(Tail(s)) = Len(s) - 1 /\ \A i \in 1 .. Len(Tail(s)) : Tail(s)[i] = s[i + 1]
  BY <1>1, HeadTailProperties
<1>4. Head(s) = s[1]
  OBVIOUS
<1> QED BY <1>2, <1>3, <1>4 DEF IsSeq

\* The names of an object's members are a sequence.
LEMMA NamesAny == ASSUME NEW v PROVE IsSeq(getMemberNames(v, Names))
<1> DEFINE places == {i \in DOMAIN Names : Names[i] \in DOMAIN v.members}
           n == Cardinality(places)
           f == [k \in 1 .. n |-> Names[Position(places, k)]]
<1>1. n \in Nat
  <2>1. DOMAIN Names = 1 .. Len(Names) /\ Len(Names) \in Nat
    BY ConfigFileAssumption, LenProperties
  <2>2. IsFiniteSet(1 .. Len(Names)) /\ places \subseteq 1 .. Len(Names)
    BY <2>1, FS_Interval
  <2> HIDE DEF places
  <2> QED BY <2>2, FS_Subset, FS_CardinalityType
<1>2. getMemberNames(v, Names) = IF isNull(v) THEN <<>> ELSE f
  BY DEF getMemberNames
<1> DEFINE S == {f[k] : k \in 1 .. n}
<1>3. f \in [1 .. n -> S]
  OBVIOUS
<1> HIDE DEF n, f, S
<1>4. f \in Seq(S)
  BY <1>1, <1>3
<1>5. <<>> \in Seq(S)
  OBVIOUS
<1> QED BY <1>2, <1>4, <1>5 DEF IsSeq

\* The file does not change while it is read.
LEMMA ConfFixed ==
    ASSUME [Next]_vars
    PROVE  conf' = conf /\ All' = All /\ Devices' = Devices
<1>1. conf' = conf
  BY DEF Next, ReadOption, main, ParseHead, NextDevice, NextLine, InsertDevice, ParseEnds, run,
         Stopped, Throw, vars
<1> QED BY <1>1 DEF All, Devices

----------------------------------------------------------------------------
\* What a step leaves in device_map stays as it is.
LEMMA SameMap ==
    ASSUME MapInv, device_map' = device_map, All' = All
    PROVE  MapInv'
BY DEF MapInv

\* An exception leaves the devices read so far, and only them.
LEMMA ThrowStep ==
    ASSUME Inv, Throw, device_map = <<>> \/ Len(device_map) < Len(All)
    PROVE  Inv'
<1>1. /\ device_map' = device_map /\ All' = All /\ phase' = "run" /\ error' = TRUE
  BY DEF Throw, device_vars, All, Devices
<1>2. MapInv'
  BY <1>1, SameMap DEF Inv
<1>3. StartInv' /\ TodoInv' /\ DevInv'
  BY <1>1 DEF StartInv, TodoInv, DevInv
<1>4. EndInv'
  BY <1>1 DEF EndInv
<1> QED BY <1>2, <1>3, <1>4 DEF Inv

\* The devices of the file are what is to be read.
LEMMA ParseHeadStep ==
    ASSUME Inv, ParseHead
    PROVE  Inv'
<1>1. CASE ~HeadOk
  BY <1>1, ThrowStep DEF ParseHead, Inv, StartInv
<1>2. CASE HeadOk
  <2>1. /\ device_map' = device_map /\ All' = All /\ phase' = "device" /\ error' = error
        /\ todo' = All /\ phase = "parse"
    BY <1>2 DEF ParseHead, All, Devices
  <2>2. MapInv'
    BY <2>1, SameMap DEF Inv
  <2>3. device_map = <<>> /\ ~error
    BY <2>1 DEF Inv, StartInv
  <2>4. StartInv' /\ DevInv' /\ EndInv'
    BY <2>1, <2>3 DEF StartInv, DevInv, EndInv
  <2>5. IsSeq(All) /\ Len(All) \in Nat /\ Len(device_map) = 0
    BY <2>3, NamesAny, LenAny DEF All
  <2>6. TodoInv'
    BY <2>1, <2>5 DEF TodoInv, Reading
  <2> QED BY <2>2, <2>4, <2>6 DEF Inv
<1> QED BY <1>1, <1>2

\* The device whose turn it is becomes the one being read, without lines.
LEMMA NextDeviceStep ==
    ASSUME Inv, NextDevice
    PROVE  Inv'
<1> DEFINE d == Member(Devices, Head(todo))
           t == asString(Member(d, "type"))
<1>0. phase = "device" /\ todo # <<>>
  BY DEF NextDevice
<1>1. /\ IsSeq(todo) /\ Len(device_map) + Len(todo) = Len(All) /\ Len(device_map) \in Nat
      /\ \A i \in 1 .. Len(todo) : todo[i] = All[Len(device_map) + i]
  BY <1>0, LenAny DEF Inv, TodoInv, Reading, MapInv
<1>2. /\ IsSeq(Tail(todo)) /\ Len(todo) \in Nat \ {0} /\ Len(Tail(todo)) = Len(todo) - 1
      /\ \A i \in 1 .. Len(todo) - 1 : Tail(todo)[i] = todo[i + 1]
      /\ Head(todo) = todo[1]
  BY <1>0, <1>1, TailAny
<1>3. CASE ~DeviceOk(d)
  <2>1. Throw
    BY <1>3 DEF NextDevice
  <2> QED BY <1>1, <1>2, <2>1, ThrowStep
<1>4. CASE DeviceOk(d)
  <2>1. /\ dev' = [create_device(t, Head(todo)) EXCEPT !.computer = ComputerOf(d)]
        /\ todo_lines' = getMemberNames(Member(d, "lines"), Names)
        /\ todo' = Tail(todo) /\ phase' = "line" /\ conf' = conf /\ device_map' = device_map
        /\ error' = error
    BY <1>4 DEF NextDevice
  <2>2. All' = All /\ Devices' = Devices
    BY <2>1 DEF All, Devices
  <2>3. t \in DOMAIN NumLines /\ Len(getMemberNames(Member(d, "lines"), Names)) = NumLines[t]
    BY <1>4 DEF DeviceOk, create_device
  <2>4. create_device(t, Head(todo)) =
            [name |-> Head(todo), type |-> t, computer |-> "Unknown", lines |-> <<>>]
    BY <2>3 DEF create_device
  <2>5. dev' = [name |-> Head(todo), type |-> t, computer |-> ComputerOf(d), lines |-> <<>>]
    <3> DEFINE c == ComputerOf(d)
    <3> HIDE DEF c, t
    <3> QED BY <2>1, <2>4 DEF c
  <2>6. /\ DOMAIN dev' = {"name", "type", "computer", "lines"}
        /\ dev'.name = Head(todo) /\ dev'.type = t /\ dev'.lines = <<>>
    BY <2>5
  <2>7. MapInv'
    BY <2>1, <2>2, SameMap DEF Inv
  <2>8. StartInv' /\ EndInv'
    BY <1>0, <2>1 DEF Inv, StartInv, EndInv
  <2>9. TodoInv'
    <3>1. Len(device_map') + Reading' + Len(todo') = Len(All')
      BY <1>1, <1>2, <2>1, <2>2 DEF Reading
    <3>2. ASSUME NEW i \in 1 .. Len(todo')
          PROVE  todo'[i] = All[Len(device_map) + 1 + i]
      <4>1. i \in 1 .. Len(todo) - 1 /\ i + 1 \in 1 .. Len(todo)
        BY <1>2, <2>1, <3>2
      <4>2. todo'[i] = todo[i + 1]
        BY <1>2, <2>1, <4>1
      <4>3. todo[i + 1] = All[Len(device_map) + (i + 1)]
        BY <1>1, <4>1
      <4>4. Len(device_map) + (i + 1) = Len(device_map) + 1 + i
        BY <1>1, <4>1
      <4> QED BY <4>2, <4>3, <4>4
    <3>3. dev'.name = All[Len(device_map) + 1]
      BY <1>1, <1>2, <2>6
    <3>4. Reading' = 1
      BY <2>1 DEF Reading
    <3> QED BY <1>2, <2>1, <2>2, <3>1, <3>2, <3>3, <3>4 DEF TodoInv
  <2>10. DevInv'
    <3>1. Size' = NumLines[t] /\ Size' = Len(todo_lines')
      BY <2>1, <2>2, <2>3, <2>6 DEF Size
    <3>2. IsSeq(todo_lines') /\ Len(todo_lines') \in Nat
      BY <2>1, NamesAny, LenAny
    <3>3. IsSeq(dev'.lines) /\ Len(dev'.lines) = 0 /\ DOMAIN dev'.lines = {}
      <4>1. IsSeq(<<>>)
        BY DEF IsSeq
      <4> QED BY <2>6, <4>1
    <3>4. Numbers(dev') = {}
      BY <3>3 DEF Numbers
    <3>5. IsFiniteSet({}) /\ Cardinality({}) = 0
      BY FS_EmptySet
    <3> QED BY <2>3, <2>6, <3>1, <3>2, <3>3, <3>4, <3>5 DEF DevInv
  <2> QED BY <2>7, <2>8, <2>9, <2>10 DEF Inv
<1> QED BY <1>3, <1>4

\* A line is registered under a number that none of the earlier ones has.
LEMMA NextLineStep ==
    ASSUME Inv, NextLine
    PROVE  Inv'
<1> DEFINE n == asInt(Member(Line, "number"))
           new == register_line(n, asString(MetricOf(Line)), ComputerOf(Line))
<1>0. phase = "line" /\ todo_lines # <<>>
  BY DEF NextLine
<1>1. /\ DOMAIN dev = {"name", "type", "computer", "lines"}
      /\ dev.type \in DOMAIN NumLines /\ Size = NumLines[dev.type]
      /\ IsSeq(dev.lines) /\ IsSeq(todo_lines) /\ Len(dev.lines) + Len(todo_lines) = Size
      /\ Numbers(dev) \subseteq 0 .. Size - 1
      /\ IsFiniteSet(Numbers(dev)) /\ Cardinality(Numbers(dev)) = Len(dev.lines)
  BY <1>0 DEF Inv, DevInv
<1>2. CASE ~LineOk(Line)
  <2>1. Throw
    BY <1>2 DEF NextLine
  <2>2. IsSeq(todo) /\ IsSeq(device_map) /\ Len(device_map) + 1 + Len(todo) = Len(All)
    BY <1>0 DEF Inv, TodoInv, Reading, MapInv
  <2>3. Len(device_map) < Len(All)
    BY <2>2, LenAny
  <2> QED BY <2>1, <2>3, ThrowStep
<1>3. CASE LineOk(Line)
  <2>1. /\ dev' = [dev EXCEPT !.lines = Append(@, new)]
        /\ todo_lines' = Tail(todo_lines) /\ phase' = "line" /\ conf' = conf
        /\ device_map' = device_map /\ error' = error /\ todo' = todo
    BY <1>0, <1>3 DEF NextLine
  <2>2. All' = All /\ Devices' = Devices
    BY <2>1 DEF All, Devices
  <2>3. n \in 0 .. Size - 1 /\ n \notin Numbers(dev)
    BY <1>3 DEF LineOk, Numbers
  <2>4. new.number = n
    BY DEF register_line
  <2> HIDE DEF n, new
  <2>5. /\ DOMAIN dev' = {"name", "type", "computer", "lines"}
        /\ dev'.name = dev.name /\ dev'.type = dev.type /\ dev'.lines = Append(dev.lines, new)
    BY <1>1, <2>1
  <2>6. MapInv'
    BY <2>1, <2>2, SameMap DEF Inv
  <2>7. StartInv' /\ EndInv'
    BY <1>0, <2>1 DEF Inv, StartInv, EndInv
  <2>8. TodoInv'
    BY <1>0, <2>1, <2>2, <2>5 DEF Inv, TodoInv, Reading
  <2>9. DevInv'
    <3>1. Size' = Size
      BY <2>2, <2>5 DEF Size
    <3>2. /\ IsSeq(dev'.lines) /\ Len(dev'.lines) = Len(dev.lines) + 1
          /\ \A i \in 1 .. Len(dev.lines) : dev'.lines[i] = dev.lines[i]
          /\ dev'.lines[Len(dev.lines) + 1] = new
      BY <1>1, <2>5, AppendAny
    <3>3. /\ DOMAIN dev.lines = 1 .. Len(dev.lines) /\ Len(dev.lines) \in Nat
          /\ DOMAIN dev'.lines = 1 .. Len(dev'.lines)
      BY <1>1, <3>2, LenAny
    <3>4. Numbers(dev') = Numbers(dev) \cup {n}
      <4>1. ASSUME NEW x \in Numbers(dev') PROVE x \in Numbers(dev) \cup {n}
        BY <4>1, <2>4, <3>2, <3>3 DEF Numbers
      <4>2. ASSUME NEW x \in Numbers(dev) PROVE x \in Numbers(dev')
        BY <4>2, <3>2, <3>3 DEF Numbers
      <4>3. n \in Numbers(dev')
        BY <2>4, <3>2, <3>3 DEF Numbers
      <4> QED BY <4>1, <4>2, <4>3
    <3>5. /\ IsFiniteSet(Numbers(dev')) /\ Cardinality(Numbers(dev')) = Len(dev.lines) + 1
      <4> DEFINE N == Numbers(dev)
      <4>1. IsFiniteSet(N \cup {n}) /\ Cardinality(N \cup {n}) = Cardinality(N) + 1
        <5> HIDE DEF N
        <5>1. IsFiniteSet(N) /\ n \notin N
          BY <1>1, <2>3 DEF N
        <5> QED BY <5>1, FS_AddElement
      <4> QED BY <1>1, <3>4, <4>1
    <3>6. Numbers(dev') \subseteq 0 .. Size - 1
      BY <1>1, <2>3, <3>4
    <3>7. /\ IsSeq(todo_lines') /\ Len(dev'.lines) + Len(todo_lines') = Size
      <4>1. IsSeq(Tail(todo_lines)) /\ Len(todo_lines) \in Nat \ {0} /\ Len(Tail(todo_lines)) = Len(todo_lines) - 1
        BY <1>0, <1>1, TailAny
      <4> QED BY <1>1, <2>1, <3>2, <3>3, <4>1
    <3> QED BY <1>1, <2>5, <3>1, <3>2, <3>5, <3>6, <3>7 DEF DevInv
  <2> QED BY <2>6, <2>7, <2>8, <2>9 DEF Inv
<1> QED BY <1>2, <1>3

\* With the last line the numbers are all that there are: as many as lines,
\* and all below their count.
LEMMA AllNumbers ==
    ASSUME Inv, phase = "line", todo_lines = <<>>
    PROVE  Complete(dev)
<1>1. /\ dev.type \in DOMAIN NumLines /\ Size = NumLines[dev.type]
      /\ IsSeq(dev.lines) /\ Len(dev.lines) + Len(todo_lines) = Size
      /\ Numbers(dev) \subseteq 0 .. Size - 1
      /\ Cardinality(Numbers(dev)) = Len(dev.lines)
  BY DEF Inv, DevInv
<1>2. Len(dev.lines) = Size /\ Size \in Nat
  BY <1>1, LenAny
<1>3. IsFiniteSet(0 .. Size - 1) /\ Cardinality(0 .. Size - 1) = Size
  <2>1. 0 \in Int /\ Size - 1 \in Int
    BY <1>2
  <2>2. /\ IsFiniteSet(0 .. Size - 1)
        /\ Cardinality(0 .. Size - 1) = IF 0 > Size - 1 THEN 0 ELSE Size - 1 - 0 + 1
    BY <2>1, FS_Interval
  <2> QED BY <1>2, <2>2
<1>4. Numbers(dev) = 0 .. Size - 1
  BY <1>1, <1>2, <1>3, FS_Subset
<1> QED BY <1>1, <1>2, <1>4 DEF Complete

\* A device is inserted with all its lines, in the place the file gives it.
LEMMA InsertDeviceStep ==
    ASSUME Inv, InsertDevice
    PROVE  Inv'
<1>1. /\ phase = "line" /\ todo_lines = <<>> /\ device_map' = Append(device_map, dev)
      /\ phase' = "device" /\ conf' = conf /\ todo' = todo /\ error' = error
  BY DEF InsertDevice
<1>2. All' = All
  BY <1>1 DEF All, Devices
<1>3. /\ IsSeq(device_map) /\ IsSeq(todo) /\ Len(device_map) + 1 + Len(todo) = Len(All)
      /\ \A i \in 1 .. Len(todo) : todo[i] = All[Len(device_map) + 1 + i]
      /\ dev.name = All[Len(device_map) + 1]
  BY <1>1 DEF Inv, TodoInv, Reading, MapInv
<1>4. Len(device_map) \in Nat /\ Len(todo) \in Nat
  BY <1>3, LenAny
<1>5. /\ IsSeq(device_map') /\ Len(device_map') = Len(device_map) + 1
      /\ \A i \in 1 .. Len(device_map) : device_map'[i] = device_map[i]
      /\ device_map'[Len(device_map) + 1] = dev
  BY <1>1, <1>3, AppendAny
<1>6. MapInv'
  <2>1. ASSUME NEW i \in 1 .. Len(device_map')
        PROVE  device_map'[i].name = All[i] /\ Complete(device_map'[i])
    <3>1. CASE i \in 1 .. Len(device_map)
      BY <1>5, <3>1 DEF Inv, MapInv
    <3>2. CASE i = Len(device_map) + 1
      BY <1>1, <1>3, <1>5, <3>2, AllNumbers
    <3> QED BY <1>4, <1>5, <2>1, <3>1, <3>2
  <2>2. Len(device_map') <= Len(All')
    BY <1>2, <1>3, <1>4, <1>5
  <2> QED BY <1>2, <1>5, <2>1, <2>2 DEF MapInv
<1>7. StartInv' /\ DevInv' /\ EndInv'
  BY <1>1 DEF Inv, StartInv, DevInv, EndInv
<1>8. TodoInv'
  <2>1. Reading' = 0
    BY <1>1 DEF Reading
  <2>2. Len(device_map') + Reading' = Len(device_map) + 1
    BY <1>4, <1>5, <2>1
  <2> QED BY <1>1, <1>2, <1>3, <2>2 DEF TodoInv
<1> QED BY <1>6, <1>7, <1>8 DEF Inv

\* Reading ends without an exception when no device is left.
LEMMA ParseEndsStep ==
    ASSUME Inv, ParseEnds
    PROVE  Inv'
<1>1. CASE device_map = <<>>
  BY <1>1, ThrowStep DEF ParseEnds
<1>2. CASE device_map # <<>>
  <2>1. /\ phase = "device" /\ todo = <<>> /\ phase' = "run" /\ device_map' = device_map
        /\ All' = All /\ error' = error
    BY <1>2 DEF ParseEnds, device_vars, All, Devices
  <2>2. /\ IsSeq(device_map) /\ Len(device_map) + 0 + Len(todo) = Len(All) /\ ~error
    BY <2>1 DEF Inv, TodoInv, Reading, MapInv, StartInv
  <2>3. ~(Len(device_map) < Len(All))
    BY <2>1, <2>2, LenAny
  <2>4. EndInv'
    BY <2>1, <2>2, <2>3 DEF EndInv
  <2>5. StartInv' /\ TodoInv' /\ DevInv'
    BY <2>1 DEF StartInv, TodoInv, DevInv
  <2>6. MapInv'
    BY <2>1, SameMap DEF Inv
  <2> QED BY <2>4, <2>5, <2>6 DEF Inv
<1> QED BY <1>1, <1>2

\* Main's own steps touch neither the file nor the devices.
LEMMA MainStep ==
    ASSUME Inv, ReadOption \/ main
    PROVE  Inv'
<1>1. /\ phase = "main" /\ phase' \in {"main", "parse", "refused"}
      /\ device_map' = device_map /\ All' = All /\ error' = error
  <2>1. CASE ReadOption
    BY <2>1 DEF ReadOption, device_vars, All, Devices
  <2>2. CASE main
    BY <2>2 DEF main, device_vars, All, Devices
  <2> QED BY <2>1, <2>2
<1>2. MapInv'
  BY <1>1, SameMap DEF Inv
<1>3. StartInv' /\ TodoInv' /\ DevInv' /\ EndInv'
  BY <1>1 DEF Inv, StartInv, TodoInv, DevInv, EndInv
<1> QED BY <1>2, <1>3 DEF Inv

\* The server serves what it has, and returns when that is nothing.
LEMMA RunStep ==
    ASSUME Inv, run
    PROVE  Inv'
<1>1. /\ phase = "run" /\ phase' = IF device_map = <<>> THEN "returned" ELSE "serving"
      /\ device_map' = device_map /\ All' = All /\ error' = error
  BY DEF run, device_vars, All, Devices
<1>2. MapInv'
  BY <1>1, SameMap DEF Inv
<1>3. StartInv' /\ TodoInv' /\ DevInv'
  BY <1>1 DEF Inv, StartInv, TodoInv, DevInv
<1>4. EndInv'
  BY <1>1 DEF Inv, EndInv
<1> QED BY <1>2, <1>3, <1>4 DEF Inv

\* Nothing changes: the process stopped, or another step of the world.
LEMMA StutterStep ==
    ASSUME Inv, UNCHANGED vars
    PROVE  Inv'
<1>1. /\ phase' = phase /\ device_map' = device_map /\ conf' = conf /\ error' = error
      /\ todo' = todo /\ dev' = dev /\ todo_lines' = todo_lines
  BY DEF vars, device_vars
<1>2. All' = All /\ Size' = Size
  BY <1>1 DEF All, Devices, Size
<1>3. MapInv'
  BY <1>1, <1>2, SameMap DEF Inv
<1>4. StartInv' /\ EndInv'
  BY <1>1, <1>2 DEF Inv, StartInv, EndInv
<1>5. TodoInv'
  BY <1>1, <1>2 DEF Inv, TodoInv, Reading
<1>6. DevInv'
  BY <1>1, <1>2 DEF Inv, DevInv, Numbers
<1> QED BY <1>3, <1>4, <1>5, <1>6 DEF Inv

----------------------------------------------------------------------------
\* A process that just started has read nothing.
LEMMA InitInv == Init => Inv
<1> SUFFICES ASSUME Init PROVE Inv
  OBVIOUS
<1>1. phase = "main" /\ device_map = <<>> /\ ~error
  BY DEF Init
<1>2. IsSeq(device_map) /\ Len(device_map) = 0
  BY <1>1 DEF IsSeq
<1>3. Len(All) \in Nat
  BY NamesAny, LenAny DEF All
<1>4. MapInv
  BY <1>2, <1>3 DEF MapInv
<1> QED BY <1>1, <1>4 DEF Inv, StartInv, TodoInv, DevInv, EndInv

\* Every step of the process keeps the invariant.
LEMMA InvStep == Inv /\ [Next]_vars => Inv'
<1> SUFFICES ASSUME Inv, [Next]_vars PROVE Inv'
  OBVIOUS
<1>1. CASE ReadOption \/ main
  BY <1>1, MainStep
<1>2. CASE ParseHead
  BY <1>2, ParseHeadStep
<1>3. CASE NextDevice
  BY <1>3, NextDeviceStep
<1>4. CASE NextLine
  BY <1>4, NextLineStep
<1>5. CASE InsertDevice
  BY <1>5, InsertDeviceStep
<1>6. CASE ParseEnds
  BY <1>6, ParseEndsStep
<1>7. CASE run
  BY <1>7, RunStep
<1>8. CASE Stopped \/ UNCHANGED vars
  BY <1>8, StutterStep DEF Stopped
<1> QED BY <1>1, <1>2, <1>3, <1>4, <1>5, <1>6, <1>7, <1>8 DEF Next

\* What parse_configfile has read is at every moment a prefix of the file.
THEOREM Invariance == Spec => []Inv
BY InitInv, InvStep, PTL DEF Spec

\* For any file, any drivers and any command line: a device that is served
\* has each of its driver's lines exactly once.
THEOREM LinesComplete == Spec => []ServedDevicesHaveAllLines
<1>1. Inv => ServedDevicesHaveAllLines
  <2> SUFFICES ASSUME Inv, NEW i \in DOMAIN device_map
               PROVE  Complete(device_map[i])
    BY DEF ServedDevicesHaveAllLines, Complete, Numbers
  <2>1. DOMAIN device_map = 1 .. Len(device_map)
    BY LenAny DEF Inv, MapInv
  <2> QED BY <2>1 DEF Inv, MapInv
<1> QED BY <1>1, Invariance, PTL

\* For any file: the server serves its devices in order up to the first
\* mistake, and all of them exactly when it reported none.
THEOREM PrefixServed == Spec => []ServesUpToFirstMistake
<1>1. Inv => ServesUpToFirstMistake
  <2> SUFFICES ASSUME Inv, phase = "serving"
               PROVE  /\ [i \in DOMAIN device_map |-> device_map[i].name] = SubSeq(All, 1, Len(device_map))
                      /\ error <=> Len(device_map) < Len(All)
    BY DEF ServesUpToFirstMistake, All
  <2>1. error <=> Len(device_map) < Len(All)
    BY DEF Inv, EndInv
  <2>2. /\ Len(device_map) \in Nat /\ DOMAIN device_map = 1 .. Len(device_map)
        /\ Len(device_map) <= Len(All)
        /\ \A i \in 1 .. Len(device_map) : device_map[i].name = All[i]
    BY LenAny DEF Inv, MapInv
  <2>3. PICK S : All \in Seq(S)
    BY NamesAny DEF All, IsSeq
  <2>4. SubSeq(All, 1, Len(device_map)) = [i \in 1 .. Len(device_map) |-> All[i]]
    BY <2>2, <2>3, SubSeqRestrict DEF Restrict
  <2> QED BY <2>1, <2>2, <2>4
<1> QED BY <1>1, Invariance, PTL

=============================================================================
