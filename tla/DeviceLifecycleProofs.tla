----------------------- MODULE DeviceLifecycleProofs -----------------------
(***************************************************************************)
(* Safety of the life of the devices, for any number of devices and        *)
(* connections and any capacity of data_queue.                             *)
(***************************************************************************)
EXTENDS DeviceLifecycle, TLAPS

(***************************************************************************)
(* The inductive invariant.  A thread touches the members of its Device    *)
(* until it ends, so that destroyed devices have no thread rests on the    *)
(* order of the two joins (ThreadsNest), and that only working devices are *)
(* served rests on start_devices' progress (StartedSoFar).                 *)
(***************************************************************************)
Inv ==
    /\ TypeOK
    /\ StartedSoFar /\ ServesOnlyWorkingDevices
    /\ NotYetStarted /\ ThreadsNest /\ NoThreadOutlivesDevice

\* Server::Server leaves a state in which the invariant holds: no device has
\* a thread yet, and all are in the map.
LEMMA InitInv == Init => Inv
  BY LifecycleAssumption, SMT
     DEF Init, Inv, TypeOK, StartedSoFar, ServesOnlyWorkingDevices,
         NotYetStarted, ThreadsNest, NoThreadOutlivesDevice, Device

\* The step of NextDevice: a device is left behind or the loop ends.
LEMMA NextDeviceType ==
  ASSUME TypeOK, NEW loc, NEW after, NextDevice(loc, after)
  PROVE  /\ cur' \in Device
         /\ mpc' \in {loc, after}
         /\ mpc' = loc /\ mpc' # after => cur' = cur + 1
         /\ mpc' = after /\ mpc' # loc => cur = NumDevices
  BY LifecycleAssumption, SMT DEF NextDevice, TypeOK, Device

\* Type correctness is preserved by every step of main, of the devices'
\* threads and of the connections.
LEMMA TypeStep == TypeOK /\ [Next]_vars => TypeOK'
<1>1. SUFFICES ASSUME TypeOK, [Next]_vars PROVE TypeOK'
  OBVIOUS
<1> USE DEF connVars
<1>2. CASE UNCHANGED vars
  BY <1>1, <1>2 DEF vars, mainVars, threadVars, TypeOK
<1>3. CASE Main
  <2>1. CASE StartDevice BY <1>1, <2>1 DEF StartDevice, TypeOK
  <2>2. CASE DeviceStarted
    BY <1>1, <2>2, NextDeviceType DEF DeviceStarted, TypeOK, threadVars
  <2>3. CASE StartFails BY <1>1, <2>3 DEF StartFails, TypeOK
  <2>4. CASE Listen \/ ListenFails
    BY <1>1, <2>4 DEF Listen, ListenFails, TypeOK, threadVars
  <2>5. CASE Fork BY <1>1, <2>5 DEF Fork, TypeOK
  <2>6. CASE StopDevice BY <1>1, <2>6, NextDeviceType DEF StopDevice, TypeOK
  <2>7. CASE DeviceStopped
    BY <1>1, <2>7, NextDeviceType DEF DeviceStopped, TypeOK, threadVars
  <2>8. ASSUME NEW d \in Device, DropDevice(d) PROVE TypeOK'
    BY <1>1, <2>8 DEF DropDevice, Release, TypeOK
  <2>9. CASE DeviceDropped \/ Return
    BY <1>1, <2>9 DEF DeviceDropped, Return, TypeOK, threadVars
  <2> QED BY <1>3, <2>1, <2>2, <2>3, <2>4, <2>5, <2>6, <2>7, <2>8, <2>9 DEF Main
<1>4. CASE Signal BY <1>1, <1>4 DEF Signal, TypeOK, threadVars
<1>5. ASSUME NEW d \in Device, Driver(d) PROVE TypeOK'
  BY <1>1, <1>5, LifecycleAssumption
     DEF Driver, DriverLoops, DriverYields, DriverSkips, DriverThrows, TypeOK, mainVars
<1>6. ASSUME NEW d \in Device, Run(d) PROVE TypeOK'
  <2>1. CASE SpawnDriver(d) BY <1>1, <2>1 DEF SpawnDriver, TypeOK, mainVars
  <2>2. CASE Drain(d)
    <3>1. queue' \in [Device -> 0 .. Capacity]
      BY <1>1, <2>2, LifecycleAssumption DEF Drain, TypeOK
    <3> QED BY <1>1, <2>2, <3>1 DEF Drain, TypeOK, mainVars
  <2>3. CASE LeaveLoop(d) BY <1>1, <2>3 DEF LeaveLoop, TypeOK, mainVars
  <2>4. CASE JoinDriver(d) BY <1>1, <2>4 DEF JoinDriver, TypeOK, mainVars
  <2> QED BY <1>6, <2>1, <2>2, <2>3, <2>4 DEF Run
<1>7. ASSUME NEW d \in Device, Joined(d) PROVE TypeOK'
  BY <1>1, <1>7 DEF Joined, TypeOK, mainVars, threadVars
<1>8. ASSUME NEW s \in Session, Connection(s) PROVE TypeOK'
  <2> USE <1>1 DEF Move, TypeOK, mainVars, threadVars
  <2>z. 0 \notin Device
    BY DEF Device
  <2>1. ASSUME NEW d \in Device, Find(s, d) PROVE TypeOK'
    BY <2>1, <2>z DEF Find
  <2>2. CASE LetGo(s)
    <3>1. life' \in [Device -> {"alive", "joining", "destroyed"}] /\ running' \in [Device -> BOOLEAN]
      <4>1. \/ life' = life /\ running' = running
            \/ /\ life' = [life EXCEPT ![uses[s]] = "joining"]
               /\ running' = [running EXCEPT ![uses[s]] = FALSE]
        BY <2>2 DEF LetGo, Release
      <4> QED BY <4>1
    <3> QED BY <2>2, <3>1 DEF LetGo
  <2>3. CASE Accept(s) \/ NotFound(s)
    BY <2>3 DEF Accept, NotFound
  <2>4. CASE Hold(s)
    BY <2>4 DEF Hold
  <2>5. CASE Leave(s)
    BY <2>5 DEF Leave
  <2>6. CASE Crash(s)
    BY <2>6 DEF Crash, connVars
  <2> QED BY <1>8, <2>1, <2>2, <2>3, <2>4, <2>5, <2>6 DEF Connection
<1> QED BY <1>1, <1>2, <1>3, <1>4, <1>5, <1>6, <1>7, <1>8 DEF Next

----------------------------------------------------------------------------
\* start_devices moves on from a device only when it is working, and no step
\* makes a device stop working: once main listens, all of them work.
LEMMA StartStep ==
  TypeOK /\ StartedSoFar /\ ServesOnlyWorkingDevices /\ [Next]_vars
    => StartedSoFar' /\ ServesOnlyWorkingDevices'
<1>1. SUFFICES ASSUME TypeOK, StartedSoFar, ServesOnlyWorkingDevices, [Next]_vars
               PROVE  StartedSoFar' /\ ServesOnlyWorkingDevices'
  OBVIOUS
<1> USE <1>1 DEF StartedSoFar, ServesOnlyWorkingDevices
<1>2. CASE UNCHANGED <<mpc, cur>> /\ \A d \in Device : working[d] => working'[d]
  <2>1. cur \in 1 .. NumDevices /\ NumDevices \in Nat
    BY LifecycleAssumption DEF TypeOK, Device
  <2>2. \A d \in 1 .. cur - 1 : d \in Device
    BY <2>1 DEF Device
  <2> QED BY <1>2, <2>2
<1>3. CASE UNCHANGED vars
  BY <1>2, <1>3 DEF vars, mainVars, threadVars
<1>4. CASE Main
  <2>1. CASE StartDevice BY <2>1 DEF StartDevice
  <2>2. CASE DeviceStarted
    <3>1. cur \in 1 .. NumDevices /\ NumDevices \in Nat
      BY LifecycleAssumption DEF TypeOK, Device
    <3>2. CASE cur < NumDevices
      <4>1. mpc' = "start" /\ cur' = cur + 1 /\ working' = working
        BY <2>2, <3>2 DEF DeviceStarted, NextDevice, threadVars
      <4>2. \A d \in 1 .. cur : working[d]
        BY <2>2, <3>1 DEF DeviceStarted
      <4> QED BY <3>1, <4>1, <4>2
    <3>3. CASE ~(cur < NumDevices)
      <4>1. mpc' = "listen" /\ cur = NumDevices /\ working' = working
        BY <2>2, <3>1, <3>3 DEF DeviceStarted, NextDevice, threadVars
      <4>2. \A d \in Device : working[d]
        BY <2>2, <3>1, <4>1 DEF DeviceStarted, Device
      <4> QED BY <4>1, <4>2
    <3> QED BY <3>2, <3>3
  <2>3. CASE StartFails BY <2>3 DEF StartFails
  <2>4. CASE Listen \/ ListenFails BY <2>4 DEF Listen, ListenFails, threadVars
  <2>5. CASE Fork BY <2>5 DEF Fork
  <2>6. CASE StopDevice BY <2>6, NextDeviceType DEF StopDevice
  <2>7. CASE DeviceStopped BY <2>7, NextDeviceType DEF DeviceStopped, threadVars
  <2>8. ASSUME NEW d \in Device, DropDevice(d)
        PROVE  StartedSoFar' /\ ServesOnlyWorkingDevices'
    BY <2>8 DEF DropDevice
  <2>9. CASE DeviceDropped \/ Return
    BY <2>9 DEF DeviceDropped, Return, threadVars
  <2> QED BY <1>4, <2>1, <2>2, <2>3, <2>4, <2>5, <2>6, <2>7, <2>8, <2>9 DEF Main
<1>5. CASE Signal BY <1>5 DEF Signal, threadVars
<1>6. ASSUME NEW d \in Device, Driver(d)
      PROVE  StartedSoFar' /\ ServesOnlyWorkingDevices'
  BY <1>2, <1>6 DEF Driver, DriverLoops, DriverYields, DriverSkips, DriverThrows, mainVars
<1>7. ASSUME NEW d \in Device, Run(d)
      PROVE  StartedSoFar' /\ ServesOnlyWorkingDevices'
  <2>1. CASE Drain(d) BY <1>2, <2>1 DEF Drain, mainVars, TypeOK
  <2>2. CASE SpawnDriver(d) \/ LeaveLoop(d) \/ JoinDriver(d)
    BY <1>2, <2>2 DEF SpawnDriver, LeaveLoop, JoinDriver, mainVars
  <2> QED BY <1>7, <2>1, <2>2 DEF Run
<1>8. ASSUME NEW d \in Device, Joined(d)
      PROVE  StartedSoFar' /\ ServesOnlyWorkingDevices'
  BY <1>2, <1>8 DEF Joined, mainVars, threadVars
<1>9. ASSUME NEW s \in Session, Connection(s)
      PROVE  StartedSoFar' /\ ServesOnlyWorkingDevices'
  <2>1. CASE Crash(s)
    BY <2>1 DEF Crash
  <2>2. CASE ~Crash(s)
    BY <1>2, <1>9, <2>2
       DEF Connection, Accept, Find, NotFound, Hold, Leave, LetGo, mainVars, threadVars
  <2> QED BY <2>1, <2>2
<1> QED BY <1>1, <1>3, <1>4, <1>5, <1>6, <1>7, <1>8, <1>9 DEF Next

\* A holder's device is not destroyed by whoever else lets go of it: the map's
\* clear and the other connections see that it is in use.
LEMMA HoldStep ==
  ASSUME TypeOK, [Next]_vars, NEW s \in Session, NEW d \in Device,
         Holds(s, d), Holds(s, d)', life[d] = "alive"
  PROVE  life'[d] = "alive"
<1>1. CASE UNCHANGED life
  BY <1>1
<1>2. ASSUME NEW e \in Device, DropDevice(e) PROVE life'[d] = "alive"
  <2>1. CASE e = d
    BY <1>1, <1>2, <2>1 DEF DropDevice, Release, InUse
  <2>2. CASE e # d
    BY <1>2, <2>2 DEF DropDevice, Release, TypeOK
  <2> QED BY <2>1, <2>2
<1>3. ASSUME NEW r \in Session, LetGo(r) PROVE life'[d] = "alive"
  <2>1. r # s
    BY <1>3 DEF LetGo, Move, Holds, TypeOK
  <2>2. CASE uses[r] = d
    BY <1>1, <1>3, <2>1, <2>2 DEF LetGo, Release
  <2>3. CASE uses[r] # d
    BY <1>3, <2>3 DEF LetGo, Release, TypeOK
  <2> QED BY <2>2, <2>3
<1>4. ASSUME NEW e \in Device, Joined(e) PROVE life'[d] = "alive"
  BY <1>4 DEF Joined, TypeOK
<1>5. CASE ~(\/ \E e \in Device : DropDevice(e) \/ Joined(e)
             \/ \E r \in Session : LetGo(r))
  BY <1>1, <1>5
     DEF Next, vars, Main, StartDevice, DeviceStarted, StartFails, Listen, ListenFails,
         Fork, StopDevice, DeviceStopped, DeviceDropped, Return, Signal,
         Driver, DriverLoops, DriverYields, DriverSkips, DriverThrows,
         Run, SpawnDriver, Drain, LeaveLoop, JoinDriver,
         Connection, Accept, Find, NotFound, Hold, Leave, Crash
<1> QED BY <1>2, <1>3, <1>4, <1>5

\* Device::run joins the driver before it returns, and ~Device joins run().
LEMMA ThreadStep ==
  TypeOK /\ NotYetStarted /\ ThreadsNest /\ NoThreadOutlivesDevice /\ [Next]_vars
    => NotYetStarted' /\ ThreadsNest' /\ NoThreadOutlivesDevice'
<1>1. SUFFICES ASSUME TypeOK, NotYetStarted, ThreadsNest, NoThreadOutlivesDevice, [Next]_vars
               PROVE  NotYetStarted' /\ ThreadsNest' /\ NoThreadOutlivesDevice'
  OBVIOUS
<1> USE <1>1 DEF NotYetStarted, ThreadsNest, NoThreadOutlivesDevice
<1>2. CASE /\ UNCHANGED <<mpc, cur, tpc, rpc>>
           /\ \A d \in Device : life'[d] = "destroyed" => life[d] = "destroyed"
  BY <1>2
<1>3. CASE UNCHANGED vars
  BY <1>2, <1>3 DEF vars, mainVars, threadVars
<1>4. CASE Main
  <2>1. CASE StartDevice BY <2>1 DEF StartDevice, TypeOK, Device
  <2>2. CASE Fork BY <2>2 DEF Fork
  <2>3. ASSUME NEW d \in Device, DropDevice(d)
        PROVE  NotYetStarted' /\ ThreadsNest' /\ NoThreadOutlivesDevice'
    <3>1. \A e \in Device : life'[e] = "destroyed" => life[e] = "destroyed"
      BY <2>3 DEF DropDevice, Release, TypeOK
    <3> QED BY <2>3, <3>1 DEF DropDevice
  <2>4. CASE DeviceStarted
    <3>1. UNCHANGED <<tpc, rpc, life>>
      BY <2>4 DEF DeviceStarted, threadVars
    <3>2. CASE cur < NumDevices
      <4>1. mpc = "startWait" /\ mpc' = "start" /\ cur' = cur + 1
        BY <2>4, <3>2 DEF DeviceStarted, NextDevice
      <4> QED BY <3>1, <4>1, LifecycleAssumption DEF TypeOK, Device
    <3>3. CASE ~(cur < NumDevices)
      <4>1. mpc' = "listen"
        BY <2>4, <3>3 DEF DeviceStarted, NextDevice
      <4> QED BY <3>1, <4>1
    <3> QED BY <3>2, <3>3
  <2>5. CASE StopDevice \/ DeviceStopped
    BY <2>5, NextDeviceType DEF StopDevice, DeviceStopped, threadVars
  <2>6. CASE StartFails \/ Listen \/ ListenFails \/ DeviceDropped \/ Return
    BY <2>6
       DEF StartFails, Listen, ListenFails, DeviceDropped, Return, threadVars
  <2> QED BY <1>4, <2>1, <2>2, <2>3, <2>4, <2>5, <2>6 DEF Main
<1>5. CASE Signal BY <1>5 DEF Signal, threadVars
<1>6. ASSUME NEW d \in Device, Driver(d)
      PROVE  NotYetStarted' /\ ThreadsNest' /\ NoThreadOutlivesDevice'
  BY <1>6
     DEF Driver, DriverLoops, DriverYields, DriverSkips, DriverThrows, TypeOK, mainVars
<1>7. ASSUME NEW d \in Device, Run(d)
      PROVE  NotYetStarted' /\ ThreadsNest' /\ NoThreadOutlivesDevice'
  BY <1>7
     DEF Run, SpawnDriver, Drain, LeaveLoop, JoinDriver, TypeOK, mainVars
<1>8. ASSUME NEW d \in Device, Joined(d)
      PROVE  NotYetStarted' /\ ThreadsNest' /\ NoThreadOutlivesDevice'
  BY <1>8 DEF Joined, mainVars, threadVars, TypeOK
<1>9. ASSUME NEW s \in Session, Connection(s)
      PROVE  NotYetStarted' /\ ThreadsNest' /\ NoThreadOutlivesDevice'
  <2>1. CASE Crash(s)
    BY <2>1 DEF Crash, threadVars
  <2>2. CASE ~Crash(s)
    BY <1>2, <1>9, <2>2
       DEF Connection, Accept, Find, NotFound, Hold, Leave, LetGo, Release, mainVars, threadVars, TypeOK
  <2> QED BY <2>1, <2>2
<1> QED BY <1>1, <1>3, <1>4, <1>5, <1>6, <1>7, <1>8, <1>9 DEF Next

----------------------------------------------------------------------------
\* Every step of the server preserves the invariant.
LEMMA InvStep == Inv /\ [Next]_vars => Inv'
  BY TypeStep, StartStep, ThreadStep DEF Inv

\* The invariant holds in every state the server can reach.
THEOREM Invariance == Spec => []Inv
  BY InitInv, InvStep, PTL DEF Spec

\* Main, the devices' threads and the connections keep their types; a full
\* data_queue never holds more than its capacity.
THEOREM TypeCorrect == Spec => []TypeOK
<1>1. Inv => TypeOK BY DEF Inv
<1> QED BY <1>1, Invariance, PTL

\* Server::run listens only when all devices of the configuration work,
\* whichever way the waits of start_devices end.
THEOREM ServesOnlyWorking == Spec => []ServesOnlyWorkingDevices
<1>1. Inv => ServesOnlyWorkingDevices BY DEF Inv
<1> QED BY <1>1, Invariance, PTL

\* ~Device never destroys members that Device::run or the driver still use.
THEOREM ThreadsEndFirst == Spec => []NoThreadOutlivesDevice
<1>1. Inv => NoThreadOutlivesDevice BY DEF Inv
<1> QED BY <1>1, Invariance, PTL

\* stop_devices, and whoever else lets go, never runs ~Device on a live
\* device that a connection holds, whenever the connection got hold of it.
THEOREM DeviceStaysForConnection == Spec => ConnectionKeepsDevice
<1>1. TypeOK /\ [Next]_vars =>
        \A s \in Session, d \in Device :
          Holds(s, d) /\ Holds(s, d)' /\ life[d] = "alive" => life'[d] = "alive"
  BY HoldStep
<1> QED BY <1>1, TypeCorrect, PTL DEF Spec, ConnectionKeepsDevice
============================================================================
