----------------------------- MODULE ConfigFile -----------------------------
(***************************************************************************)
(* How the server starts: main reads the options, Server::parse_configfile *)
(* turns the JSON value of the file into device_map, Server::run serves    *)
(* what it finds there.  Any exception ends the reading and is reported,   *)
(* but the devices already in device_map stay and are served.              *)
(*                                                                         *)
(* The text of the file is read by JsonReader; here it is a value, or      *)
(* Throws when the reader refused it.                                      *)
(***************************************************************************)
EXTENDS JsonValue, FiniteSets

CONSTANTS
    Files,     \* the values that configuration files hold
    Names,     \* device, line and computer names in the order of std::map
    NumLines,  \* NumLines[t]: the lines of driver type t; its domain: the registered types
    MaxArgs    \* bound: options on the command line

ASSUME ConfigFileAssumption ==
    /\ Names \in Seq(STRING) /\ MaxArgs \in Nat
    /\ \A t \in DOMAIN NumLines : NumLines[t] \in Nat

\* Options as getopt_long sees them: "--daemonize" is none that it knows.
Options == {"-d", "--damonize", "--daemonize", "-c", "--configfile"}

VARIABLES
    phase,      \* where the process is
    args,       \* options not yet read
    configfile, daemonize,
    conf,       \* the value of the file
    computers,  \* computers_map's names
    todo,       \* the devices not yet read
    dev,        \* the device being read: name, type, lines registered so far
    todo_lines, \* its lines not yet read
    device_map,
    error       \* the exception was caught

option_vars == <<args, configfile, daemonize>>
device_vars == <<computers, todo, dev, todo_lines, device_map>>
vars == <<phase, option_vars, conf, device_vars, error>>

NoDevice == [name |-> "", type |-> "", computer |-> "Unknown", lines |-> <<>>]

Init ==
    /\ phase = "main"
    /\ \E n \in 0 .. MaxArgs : args \in [1 .. n -> Options]
    /\ configfile = FALSE /\ daemonize = FALSE
    /\ conf \in Files
    /\ computers = {} /\ todo = <<>> /\ dev = NoDevice /\ todo_lines = <<>>
    /\ device_map = <<>> /\ error = FALSE

----------------------------------------------------------------------------
\* main

ReadOption ==
    /\ phase = "main" /\ args # <<>>
    /\ args' = Tail(args)
    /\ daemonize' = (daemonize \/ Head(args) \in {"-d", "--damonize"})
    /\ configfile' = (configfile \/ Head(args) \in {"-c", "--configfile"})
    /\ phase' = IF Head(args) = "--daemonize" THEN "refused" ELSE "main"
    /\ UNCHANGED <<conf, device_vars, error>>

\* A file that cannot be opened ends main.
main ==
    /\ phase = "main" /\ args = <<>>
    /\ phase' \in IF configfile THEN {"parse", "refused"} ELSE {"refused"}
    /\ UNCHANGED <<option_vars, conf, device_vars, error>>

----------------------------------------------------------------------------
\* Server::parse_configfile

\* catch (exception& e)
Throw ==
    /\ error' = TRUE /\ phase' = "run"
    /\ UNCHANGED <<option_vars, conf, device_vars>>

Devices == Member(conf, "devices")
Computers == Member(conf, "computers")

\* The first members: addresses and computers.
HeadOk ==
    /\ HasMembers(conf)
    /\ IsStringLike(get(conf, "server_ip", Null)) /\ IsIntLike(get(conf, "server_port", Null))
    /\ HasMembers(Computers) /\ HasMembers(Devices)
    /\ ~isNull(Computers) => \A c \in DOMAIN Computers.members :
          IsStringLike(Member(Member(Computers, c), "ip"))

ParseHead ==
    /\ phase = "parse"
    /\ IF ~HeadOk THEN Throw
       ELSE /\ computers' = {getMemberNames(Computers, Names)[i] :
                                i \in DOMAIN getMemberNames(Computers, Names)}
            /\ todo' = getMemberNames(Devices, Names)
            /\ phase' = "device"
            /\ UNCHANGED <<option_vars, conf, dev, todo_lines, device_map, error>>

\* Device::create_device: nothing for a type that no driver registered.
create_device(type, name) ==
    IF type \in DOMAIN NumLines
    THEN [name |-> name, type |-> type, computer |-> "Unknown", lines |-> <<>>]
    ELSE NoDevice

\* A computer that is not in computers_map is Computer().
ComputerOf(v) ==
    IF Member(v, "computer").type = "string" /\ Member(v, "computer").string \in computers
    THEN Member(v, "computer").string ELSE "Unknown"

\* The names that asString accepts, where the code asks for one.
ComputerOk(v) == IsStringLike(Member(v, "computer"))

\* The checks of a device before its lines are read.
DeviceOk(d) ==
    /\ HasMembers(d) /\ IsStringLike(Member(d, "type")) /\ IsStringLike(Member(d, "url"))
    /\ create_device(asString(Member(d, "type")), "") # NoDevice
    /\ Member(d, "lines").type = "object"
    /\ Len(getMemberNames(Member(d, "lines"), Names)) = NumLines[asString(Member(d, "type"))]
    /\ ComputerOk(d)

\* (A bug: a wrong device is reported and left out, and reading goes on.)
SkipsBadDevice ==
    /\ phase = "device" /\ todo # <<>>
    /\ LET d == Member(Devices, Head(todo))
       IN  /\ IF ~DeviceOk(d)
              THEN error' = TRUE /\ UNCHANGED <<phase, dev, todo_lines>>
              ELSE /\ dev' = create_device(asString(Member(d, "type")), Head(todo))
                   /\ todo_lines' = getMemberNames(Member(d, "lines"), Names)
                   /\ phase' = "line" /\ UNCHANGED error
           /\ todo' = Tail(todo)
    /\ UNCHANGED <<option_vars, conf, computers, device_map>>

NextDevice ==
    /\ phase = "device" /\ todo # <<>>
    /\ LET d == Member(Devices, Head(todo))
       IN  IF ~DeviceOk(d) THEN Throw
           ELSE /\ dev' = [create_device(asString(Member(d, "type")), Head(todo))
                              EXCEPT !.computer = ComputerOf(d)]
                /\ todo_lines' = getMemberNames(Member(d, "lines"), Names)
                /\ todo' = Tail(todo) /\ phase' = "line"
                /\ UNCHANGED <<option_vars, conf, computers, device_map, error>>

Line == Member(Member(Member(Devices, dev.name), "lines"), Head(todo_lines))

\* check_lines is as long as the lines object, which DeviceOk compared.
Size == Len(getMemberNames(Member(Member(Devices, dev.name), "lines"), Names))

\* (A bug: the number may be that of an earlier line.)
NumberInRange(l) ==
    /\ HasMembers(l) /\ IsIntLike(Member(l, "number"))
    /\ asInt(Member(l, "number")) \in 0 .. Size - 1

MetricOf(l) == get(l, "metric", StringValue("default"))

\* A number of its own in range, and values of the right types.
LineOk(l) ==
    /\ HasMembers(l) /\ IsIntLike(Member(l, "number"))
    /\ asInt(Member(l, "number")) \in 0 .. Size - 1
    /\ asInt(Member(l, "number")) \notin {dev.lines[i].number : i \in DOMAIN dev.lines}
    /\ ComputerOk(l) /\ IsStringLike(Member(l, "description")) /\ IsStringLike(MetricOf(l))
    /\ \A key \in {"voltage", "offset", "slope"} : IsFloatLike(get(l, key, IntValue(0)))

Metrics == {"voltage", "shunt_voltage", "current", "power", "temperature", "default"}

\* Device::register_line: a metric that it does not know is the default one.
register_line(number, metric, computer) ==
    [number |-> number, computer |-> computer,
     metric |-> IF metric \in Metrics THEN metric ELSE "default"]

NextLine ==
    /\ phase = "line" /\ todo_lines # <<>>
    /\ IF ~LineOk(Line) THEN Throw
       ELSE /\ dev' = [dev EXCEPT !.lines = Append(@,
                           register_line(asInt(Member(Line, "number")),
                                         asString(MetricOf(Line)),
                                         ComputerOf(Line)))]
            /\ todo_lines' = Tail(todo_lines)
            /\ UNCHANGED <<phase, option_vars, conf, computers, todo, device_map, error>>

\* device_map[dn] = dev
InsertDevice ==
    /\ phase = "line" /\ todo_lines = <<>>
    /\ device_map' = Append(device_map, dev)
    /\ phase' = "device"
    /\ UNCHANGED <<option_vars, conf, computers, todo, dev, todo_lines, error>>

ParseEnds ==
    /\ phase = "device" /\ todo = <<>>
    /\ IF device_map = <<>> THEN Throw
       ELSE phase' = "run" /\ UNCHANGED <<option_vars, conf, device_vars, error>>

----------------------------------------------------------------------------
\* Server::run returns at once when there is nothing to serve.
run ==
    /\ phase = "run"
    /\ phase' = IF device_map = <<>> THEN "returned" ELSE "serving"
    /\ UNCHANGED <<option_vars, conf, device_vars, error>>

Stopped == phase \in {"refused", "returned", "serving"} /\ UNCHANGED vars

Next ==
    \/ ReadOption \/ main
    \/ ParseHead \/ NextDevice \/ NextLine \/ InsertDevice \/ ParseEnds
    \/ run \/ Stopped

Spec == Init /\ [][Next]_vars

----------------------------------------------------------------------------
\* Properties.

\* A device that is served has each of the lines of its driver exactly once,
\* as the drivers (get_lines().at(i)) and the sessions (lines[l]) take for
\* granted, whatever mistakes the file has.
ServedDevicesHaveAllLines ==
    phase = "serving" =>
        \A i \in DOMAIN device_map :
            LET d == device_map[i] IN
            /\ Len(d.lines) = NumLines[d.type]
            /\ {d.lines[k].number : k \in DOMAIN d.lines} = 0 .. NumLines[d.type] - 1

\* What is served is what the file has, in order, up to its first mistake; a
\* server that reported no mistake serves every device of the file, and one
\* that reported some serves at least one device fewer.
ServesUpToFirstMistake ==
    phase = "serving" =>
        LET all == getMemberNames(Devices, Names) IN
        /\ [i \in DOMAIN device_map |-> device_map[i].name] = SubSeq(all, 1, Len(device_map))
        /\ error <=> Len(device_map) < Len(all)
=============================================================================
