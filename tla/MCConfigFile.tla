---------------------------- MODULE MCConfigFile ----------------------------
(* Files with up to two devices, of a driver with two lines or of one with  *)
(* one line, right and wrong in every way that is checked.                  *)
EXTENDS ConfigFile

MCNames == <<"a", "b", "l0", "l1", "pc">>
MCNumLines == [LMG |-> 2, WattsUp |-> 1]

Numbers == {Null, IntValue(0), IntValue(1), IntValue(2), IntValue(-1), StringValue("x")}
LineWith(n, metric) ==
    ObjectValue([number |-> n, metric |-> metric, computer |-> StringValue("pc")])
SomeLines ==
    {LineWith(n, StringValue("power")) : n \in Numbers}
    \union {LineWith(IntValue(1), m) : m \in {StringValue("odd"), Null, IntValue(3)}}
    \union {IntValue(4), ObjectValue([voltage |-> StringValue("x")])}
LineSets ==
    {Null, IntValue(0)} \union {ObjectValue([l0 |-> x]) : x \in SomeLines}
    \union {ObjectValue([l0 |-> x, l1 |-> y]) : x, y \in SomeLines}
SomeDevices ==
    {ObjectValue([type |-> StringValue(t), lines |-> l]) : t \in {"LMG", "WattsUp"}, l \in LineSets}
    \union {ObjectValue([type |-> StringValue("none"), lines |-> Null]),
            ObjectValue([type |-> ArrayValue(<<>>)]),
            ObjectValue([type |-> StringValue("WattsUp"), computer |-> ArrayValue(<<>>),
                         lines |-> ObjectValue([l0 |-> LineWith(Null, Null)])]),
            IntValue(1)}
Good == ObjectValue([type |-> StringValue("WattsUp"), computer |-> StringValue("gone"),
                     lines |-> ObjectValue([l0 |-> LineWith(Null, Null)])])
With(devices) ==
    ObjectValue([devices |-> devices, computers |-> ObjectValue([pc |-> ObjectValue(<<>>)])])
MCFiles ==
    {Throws, Null, IntValue(1), With(Null), With(IntValue(1)),
     ObjectValue([server_port |-> StringValue("x")]),
     ObjectValue([computers |-> IntValue(1)]),
     ObjectValue([computers |-> ObjectValue([pc |-> IntValue(1)])])}
    \union {With(ObjectValue([a |-> x])) : x \in SomeDevices}
    \union {With(ObjectValue([a |-> x, b |-> Good])) : x \in SomeDevices}
    \union {With(ObjectValue([a |-> Good, b |-> x])) : x \in SomeDevices}
=============================================================================
