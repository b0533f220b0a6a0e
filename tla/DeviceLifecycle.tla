-------------------------- MODULE DeviceLifecycle --------------------------
(***************************************************************************)
(* The life of the server process (Server::run, server/server.cpp) and of  *)
(* its Devices (server/device.cpp): main starts the devices one after the  *)
(* other and waits for each to deliver a first sample, serves clients      *)
(* until a signal arrives, then stops the devices and drops them.  Each    *)
(* device has a thread, Device::run, that spawns the driver's sampling     *)
(* loop on a second thread and drains data_queue.                          *)
(*                                                                         *)
(* Connections run on detached threads.  They look a device up in          *)
(* device_map without a lock and keep a shared_ptr to it, or walk the map; *)
(* nothing stops them when main clears the map.  A look-up that meets the  *)
(* clear reads freed nodes: it may still come out with any device that was *)
(* configured, find nothing, or crash the process.                         *)
(*                                                                         *)
(* A wait_for returns when it is notified, after 15 seconds, or for no     *)
(* reason; the notification may come before the wait and be lost.  So the  *)
(* return of a wait is a step that may happen at any time, and no          *)
(* notification is modelled.                                               *)
(***************************************************************************)
EXTENDS Integers, FiniteSets

CONSTANTS
    NumDevices,  \* the devices are 1 .. NumDevices, in device_map's order
    Session,     \* connections that will use a device
    Capacity,    \* capacity of data_queue (10000 in the code)
    Stalling     \* devices whose driver may block in a read for ever

ASSUME LifecycleAssumption ==
    /\ NumDevices \in Nat \ {0} /\ Capacity \in Nat \ {0}
    /\ Stalling \subseteq 1 .. NumDevices

Device == 1 .. NumDevices

VARIABLES
    daemon,      \* Server::_daemonize
    mpc,         \* where main is
    cur,         \* the device main is busy with
    device_map,  \* the devices in Server::device_map
    working,     \* Device::_working
    running,     \* Device::_running
    tpc,         \* where the_thread is in Device::run
    rpc,         \* where read_thr is in the driver's loop
    queue,       \* length of data_queue
    life,        \* alive, joining (in ~Device) or destroyed
    spc,         \* where a connection's thread is: idle, lookup, found, using
    uses         \* the device it has found or holds, or 0

mainVars == <<daemon, mpc, cur, device_map>>
threadVars == <<working, running, tpc, rpc, queue>>
connVars == <<spc, uses>>
vars == <<mainVars, threadVars, life, connVars>>

\* The process is there.
Up == mpc \notin {"done", "exited", "crashed"}

\* Somebody else than the map holds the device: a connection's Counter, or
\* its copy in the device's own counter_map.
Holds(s, d) == spc[s] = "using" /\ uses[s] = d
InUse(d) == \E s \in Session : Holds(s, d)

Init ==
    /\ daemon \in BOOLEAN
    /\ mpc = "start" /\ cur = 1
    /\ device_map = Device
    /\ working = [d \in Device |-> FALSE]
    /\ running = [d \in Device |-> TRUE]
    /\ tpc = [d \in Device |-> "none"]
    /\ rpc = [d \in Device |-> "none"]
    /\ queue = [d \in Device |-> 0]
    /\ life = [d \in Device |-> "alive"]
    /\ spc = [s \in Session |-> "idle"]
    /\ uses = [s \in Session |-> 0]

----------------------------------------------------------------------------
\* The driver's loop, on read_thr.

\* (A bug: the driver does not look at _running.)
DriverLoopsOn(d) ==
    /\ rpc[d] = "loop"
    /\ rpc' = [rpc EXCEPT ![d] = "read"]
    /\ UNCHANGED <<mainVars, working, running, tpc, queue, life, connVars>>

\* while ( is_running() ): the loop goes on to the next read, or ends.
DriverLoops(d) ==
    /\ rpc[d] = "loop"
    /\ rpc' = [rpc EXCEPT ![d] = IF running[d] THEN "read" ELSE "ended"]
    /\ UNCHANGED <<mainVars, working, running, tpc, queue, life, connVars>>

\* (A bug: the queue grows past its capacity.)
DriverOverfills(d) ==
    /\ rpc[d] = "read"
    /\ queue' = [queue EXCEPT ![d] = @ + 1]
    /\ rpc' = [rpc EXCEPT ![d] = "loop"]
    /\ UNCHANGED <<mainVars, working, running, tpc, life, connVars>>

\* yield(sample): a full data_queue drops the sample.
DriverYields(d) ==
    /\ rpc[d] = "read"
    /\ queue' = [queue EXCEPT ![d] = IF @ < Capacity THEN @ + 1 ELSE @]
    /\ rpc' = [rpc EXCEPT ![d] = "loop"]
    /\ UNCHANGED <<mainVars, working, running, tpc, life, connVars>>

\* The meter sent something that is not a sample.
DriverSkips(d) ==
    /\ rpc[d] = "read"
    /\ rpc' = [rpc EXCEPT ![d] = "loop"]
    /\ UNCHANGED <<mainVars, working, running, tpc, queue, life, connVars>>

\* The driver throws while opening or reading: run() catches it on read_thr,
\* and the device's thread goes on without.
DriverThrows(d) ==
    /\ rpc[d] \in {"loop", "read"}
    /\ rpc' = [rpc EXCEPT ![d] = "ended"]
    /\ UNCHANGED <<mainVars, working, running, tpc, queue, life, connVars>>

----------------------------------------------------------------------------
\* Device::run, on the_thread.

SpawnDriver(d) ==
    /\ tpc[d] = "spawn"
    /\ tpc' = [tpc EXCEPT ![d] = "drain"]
    /\ rpc' = [rpc EXCEPT ![d] = "loop"]
    /\ UNCHANGED <<mainVars, working, running, queue, life, connVars>>

\* Pop a sample and push it back to the lines; the first one shows that the
\* device works.
Drain(d) ==
    /\ tpc[d] = "drain" /\ running[d] /\ queue[d] > 0
    /\ queue' = [queue EXCEPT ![d] = @ - 1]
    /\ working' = [working EXCEPT ![d] = TRUE]
    /\ UNCHANGED <<mainVars, running, tpc, rpc, life, connVars>>

LeaveLoop(d) ==
    /\ tpc[d] = "drain" /\ ~running[d]
    /\ tpc' = [tpc EXCEPT ![d] = "join"]
    /\ UNCHANGED <<mainVars, working, running, rpc, queue, life, connVars>>

\* (A bug: the driver's thread is detached.)
DetachDriver(d) ==
    /\ tpc[d] = "join"
    /\ tpc' = [tpc EXCEPT ![d] = "ended"]
    /\ UNCHANGED <<mainVars, working, running, rpc, queue, life, connVars>>

\* read_thr.join(), and run() returns.
JoinDriver(d) ==
    /\ tpc[d] = "join" /\ rpc[d] = "ended"
    /\ tpc' = [tpc EXCEPT ![d] = "ended"]
    /\ UNCHANGED <<mainVars, working, running, rpc, queue, life, connVars>>

----------------------------------------------------------------------------
\* The end of a Device.

\* (A bug: a device dies with the map.)
ReleaseMap(d, others) ==
    /\ life' = [life EXCEPT ![d] = "joining"]
    /\ running' = [running EXCEPT ![d] = FALSE]

\* A holder lets go of d; the last one runs ~Device, which clears _running
\* and joins the_thread.
Release(d, others) ==
    IF others THEN UNCHANGED <<life, running>>
    ELSE /\ life' = [life EXCEPT ![d] = "joining"]
         /\ running' = [running EXCEPT ![d] = FALSE]

\* The join is over: the members of the Device are destroyed.  A fork left
\* the thread behind in the parent: joining it may do anything.
Joined(d) ==
    /\ life[d] = "joining" /\ tpc[d] \in {"ended", "lost"}
    /\ life' = [life EXCEPT ![d] = "destroyed"]
    /\ UNCHANGED <<mainVars, threadVars, connVars>>

----------------------------------------------------------------------------
\* Connections (Server::connection): a Counter, or an Info request.

Move(s, loc, d) ==
    /\ spc' = [spc EXCEPT ![s] = loc]
    /\ uses' = [uses EXCEPT ![s] = d]

\* The io_service accepts a client and starts a thread for it.
Accept(s) ==
    /\ mpc = "serve" /\ spc[s] = "idle"
    /\ Move(s, "lookup", 0)
    /\ UNCHANGED <<mainVars, threadVars, life>>

\* main is in device_map.clear().  The map's header still leads to the nodes
\* that are freed already.
Clearing == mpc \in {"clear", "join"}

\* The thread's look-up, or its walk, comes to the node of device d.
Find(s, d) ==
    /\ spc[s] = "lookup" /\ (d \in device_map \/ Clearing)
    /\ Move(s, "found", d)
    /\ UNCHANGED <<mainVars, threadVars, life>>

\* The request names no device of the map, or the client is gone.
NotFound(s) ==
    /\ spc[s] = "lookup"
    /\ Move(s, "idle", 0)
    /\ UNCHANGED <<mainVars, threadVars, life>>

\* Counter::dev, or the copy get_device returns.
Hold(s) ==
    /\ spc[s] = "found"
    /\ Move(s, "using", uses[s])
    /\ UNCHANGED <<mainVars, threadVars, life>>

\* list_devices and cmd_status use the map's own pointer: they go on to the
\* next node, or end.
Leave(s) ==
    /\ spc[s] = "found"
    /\ \E loc \in {"lookup", "idle"} : Move(s, loc, 0)
    /\ UNCHANGED <<mainVars, threadVars, life>>

\* The session is over.  A pointer to a device that is dying already has
\* nothing to count down.
LetGo(s) ==
    /\ spc[s] = "using"
    /\ Move(s, "idle", 0)
    /\ IF life[uses[s]] = "alive"
       THEN Release(uses[s], uses[s] \in device_map
                             \/ \E r \in Session \ {s} : Holds(r, uses[s]))
       ELSE UNCHANGED <<life, running>>
    /\ UNCHANGED <<mainVars, working, tpc, rpc, queue>>

\* The thread is about to read freed memory.
Dangling(s) ==
    \/ spc[s] = "lookup" /\ Clearing /\ device_map # Device
    \/ spc[s] = "found" /\ uses[s] \notin device_map
    \/ spc[s] = "using" /\ life[uses[s]] # "alive"

Crash(s) ==
    /\ Dangling(s)
    /\ mpc' = "crashed"
    /\ UNCHANGED <<daemon, cur, device_map, threadVars, life, connVars>>

----------------------------------------------------------------------------
\* start_devices.

StartDevice ==
    /\ mpc = "start"
    /\ tpc' = [tpc EXCEPT ![cur] = "spawn"]
    /\ mpc' = "startWait"
    /\ UNCHANGED <<daemon, cur, device_map, working, running, rpc,
                   queue, life, connVars>>

\* Main goes on to the next device at loc, or to what follows the loop.
NextDevice(loc, after) ==
    IF cur < NumDevices THEN mpc' = loc /\ cur' = cur + 1
    ELSE mpc' = after /\ cur' = 1

\* start_cv.wait_for returned and the device is working.
DeviceStarted ==
    /\ mpc = "startWait" /\ working[cur]
    /\ NextDevice("start", "listen")
    /\ UNCHANGED <<daemon, device_map, threadVars, life, connVars>>

\* (A bug: main goes on without the device.)
SkipDevice ==
    /\ mpc = "startWait" /\ ~working[cur]
    /\ NextDevice("start", "listen")
    /\ UNCHANGED <<daemon, device_map, threadVars, life, connVars>>

\* (A bug: the wait has no timeout, and only the first sample ends it.)
WaitOn ==
    /\ mpc = "startWait" /\ ~working[cur]
    /\ UNCHANGED vars

\* It returned and the device is not working: the process exits.
StartFails ==
    /\ mpc = "startWait" /\ ~working[cur]
    /\ running' = [running EXCEPT ![cur] = FALSE]
    /\ mpc' = "exited"
    /\ UNCHANGED <<daemon, cur, device_map, working, tpc, rpc, queue,
                   life, connVars>>

----------------------------------------------------------------------------
\* start_connection.

\* The acceptor listens, and the io_service runs.
Listen ==
    /\ mpc = "listen" /\ ~daemon
    /\ mpc' = "serve"
    /\ UNCHANGED <<daemon, cur, device_map, threadVars, life, connVars>>

\* The address is in use, or (before its first fork) daemonize fails: an
\* exception leads to stop_devices.
ListenFails ==
    /\ mpc = "listen"
    /\ mpc' = "stop"
    /\ UNCHANGED <<daemon, cur, device_map, threadVars, life, connVars>>

\* daemonize forks: the child, which is the server from now on, has only the
\* thread that called fork.  It serves, unless daemonize fails later on.
Fork ==
    /\ mpc = "listen" /\ daemon
    /\ tpc' = [d \in Device |-> "lost"]
    /\ rpc' = [d \in Device |-> "lost"]
    /\ mpc' \in {"serve", "stop"}
    /\ UNCHANGED <<daemon, cur, device_map, working, running, queue,
                   life, connVars>>

\* SIGINT or SIGTERM stops the io_service; stop_connection, then stop_devices.
Signal ==
    /\ mpc = "serve"
    /\ mpc' = "stop"
    /\ UNCHANGED <<daemon, cur, device_map, threadVars, life, connVars>>

----------------------------------------------------------------------------
\* stop_devices.

StopDevice ==
    /\ mpc = "stop"
    /\ IF working[cur]
       THEN /\ running' = [running EXCEPT ![cur] = FALSE]
            /\ mpc' = "stopWait" /\ UNCHANGED cur
       ELSE NextDevice("stop", "clear") /\ UNCHANGED running
    /\ UNCHANGED <<daemon, device_map, working, tpc, rpc, queue, life, connVars>>

\* stop_cv.wait_for returned.  What is printed then depends on is_running(),
\* which stop() has cleared: it is OK whether the thread has ended or not.
DeviceStopped ==
    /\ mpc = "stopWait"
    /\ NextDevice("stop", "clear")
    /\ UNCHANGED <<daemon, device_map, threadVars, life, connVars>>

\* device_map.clear() drops one element after the other, and waits for the
\* destructor where it held the last reference.
DropDevice(d) ==
    /\ mpc = "clear" /\ d \in device_map
    /\ device_map' = device_map \ {d}
    /\ Release(d, InUse(d))
    /\ cur' = d
    /\ mpc' = IF InUse(d) THEN "clear" ELSE "join"
    /\ UNCHANGED <<daemon, working, tpc, rpc, queue, connVars>>

DeviceDropped ==
    /\ mpc = "join" /\ life[cur] = "destroyed"
    /\ mpc' = "clear"
    /\ UNCHANGED <<daemon, cur, device_map, threadVars, life, connVars>>

\* Server::run returns, and main does.
Return ==
    /\ mpc = "clear" /\ device_map = {}
    /\ mpc' = "done"
    /\ UNCHANGED <<daemon, cur, device_map, threadVars, life, connVars>>

----------------------------------------------------------------------------
Main ==
    \/ StartDevice \/ DeviceStarted \/ StartFails
    \/ Listen \/ ListenFails \/ Fork
    \/ StopDevice \/ DeviceStopped
    \/ (\E d \in Device : DropDevice(d)) \/ DeviceDropped \/ Return

Driver(d) == DriverLoops(d) \/ DriverYields(d) \/ DriverSkips(d) \/ DriverThrows(d)

Run(d) == SpawnDriver(d) \/ Drain(d) \/ LeaveLoop(d) \/ JoinDriver(d)

Connection(s) ==
    \/ Accept(s) \/ (\E d \in Device : Find(s, d)) \/ NotFound(s)
    \/ Hold(s) \/ Leave(s) \/ LetGo(s) \/ Crash(s)

Next ==
    /\ Up
    /\ \/ Main \/ Signal
       \/ \E d \in Device : Driver(d) \/ Run(d) \/ Joined(d)
       \/ \E s \in Session : Connection(s)

Spec == Init /\ [][Next]_vars

(***************************************************************************)
(* The scheduler runs main and every thread of a device, the join of a     *)
(* thread that ended returns, and a driver's read comes back unless its    *)
(* meter has fallen silent.  No signal need ever arrive, and no client     *)
(* need ever leave.                                                        *)
(***************************************************************************)
Fairness ==
    /\ WF_vars(Up /\ Main)
    /\ \A d \in Device : WF_vars(Up /\ Run(d))
    /\ \A d \in Device : WF_vars(Up /\ tpc[d] # "lost" /\ Joined(d))
    /\ \A d \in Device \ Stalling : WF_vars(Up /\ Driver(d))

FairSpec == Spec /\ Fairness

----------------------------------------------------------------------------
TypeOK ==
    /\ daemon \in BOOLEAN
    /\ mpc \in {"start", "startWait", "listen", "serve", "stop", "stopWait",
                "clear", "join", "done", "exited", "crashed"}
    /\ cur \in Device
    /\ device_map \subseteq Device
    /\ working \in [Device -> BOOLEAN] /\ running \in [Device -> BOOLEAN]
    /\ tpc \in [Device -> {"none", "spawn", "drain", "join", "ended", "lost"}]
    /\ rpc \in [Device -> {"none", "loop", "read", "ended", "lost"}]
    /\ queue \in [Device -> 0 .. Capacity]
    /\ life \in [Device -> {"alive", "joining", "destroyed"}]
    /\ spc \in [Session -> {"idle", "lookup", "found", "using"}]
    /\ uses \in [Session -> Device \cup {0}]
    /\ \A s \in Session : uses[s] # 0 <=> spc[s] \in {"found", "using"}

(***************************************************************************)
(* Clients are served only when every device has delivered a sample,       *)
(* however the waits of start_devices end.                                 *)
(***************************************************************************)
ServesOnlyWorkingDevices ==
    mpc \notin {"start", "startWait", "exited", "crashed"} => \A d \in Device : working[d]

(***************************************************************************)
(* ~Device and Device::run join in the right order: when the members of a  *)
(* Device are destroyed, neither its thread nor its driver's, which both   *)
(* use them, is running.                                                   *)
(***************************************************************************)
NoThreadOutlivesDevice ==
    \A d \in Device : life[d] = "destroyed" =>
        tpc[d] \in {"ended", "lost"} /\ rpc[d] \in {"ended", "lost"}

(***************************************************************************)
(* A device never begins to die in a connection's hands: whenever the      *)
(* connection looked it up, while device_map is cleared too, ~Device does  *)
(* not run as long as the connection holds a pointer to the live device.   *)
(***************************************************************************)
ConnectionKeepsDevice ==
    [][\A s \in Session, d \in Device :
          Holds(s, d) /\ Holds(s, d)' /\ life[d] = "alive" => life'[d] = "alive"]_vars

(***************************************************************************)
(* Starting comes to an end, with the server listening or the process      *)
(* gone, although a driver may never deliver anything.                     *)
(***************************************************************************)
StartupDecides == mpc = "start" ~> mpc \in {"listen", "exited"}

(***************************************************************************)
(* After a signal the process comes to its end, whatever its clients do,   *)
(* unless it joins a driver that is blocked in a read for ever, or a       *)
(* thread that a fork left behind.  (A look-up during the clear may end it *)
(* with a crash.)                                                          *)
(***************************************************************************)
ShutdownCompletes ==
    mpc = "stop" ~> \/ mpc \in {"done", "crashed"}
                    \/ mpc = "join" /\ (cur \in Stalling \/ tpc[cur] = "lost")

----------------------------------------------------------------------------
\* What the proofs need besides.

\* start_devices has got as far as cur with working devices only.
StartedSoFar ==
    mpc \in {"start", "startWait"} => \A d \in 1 .. cur - 1 : working[d]

\* The devices start_devices has not reached have no thread.
NotYetStarted ==
    \A d \in Device :
        \/ mpc = "start" /\ cur <= d
        \/ mpc = "startWait" /\ cur < d
        => tpc[d] = "none"

\* run() outlives the driver's loop, and both are lost together.
ThreadsNest ==
    \A d \in Device :
        /\ tpc[d] \in {"none", "spawn"} => rpc[d] = "none"
        /\ tpc[d] = "ended" => rpc[d] = "ended"
        /\ tpc[d] = "lost" => rpc[d] = "lost"
============================================================================
