-------------------------- MODULE CounterSessions --------------------------
(***************************************************************************)
(* The Counters of one Device (server/counter.hpp, server/counter.cpp).    *)
(* Each client connection runs one Counter on a thread of its own: the     *)
(* constructor reads the request and registers with the device, run()      *)
(* serves START, CONTINUE, STOP, GET and FINALIZE until the session ends,  *)
(* and the destructor deregisters.  The threads share the lines of         *)
(* DeviceLines with each other and with the device's consumer.             *)
(*                                                                         *)
(* A client may vanish at any time.  From then on a receive throws, and a  *)
(* send may still be accepted by the kernel or throw.                      *)
(***************************************************************************)
EXTENDS DeviceLines

CONSTANTS
    MaxSets,   \* bound: sets a session accumulates with CONTINUE
    Fickle     \* the connections whose client may vanish

ASSUME SessionAssumption == MaxSets \in Nat /\ Fickle \subseteq Counter

VARIABLES
    nextid,      \* Counter::nextid, a plain static int
    alive,       \* the client has not hung up
    pc,          \* where the connection's thread is
    op,          \* the Operation being served, else OTHER
    id,          \* Counter::id
    lines,       \* Counter::lines, as a set: set_lines fills it in order
    registered,  \* Counter::registered
    running,     \* Counter::running
    status,      \* Counter::status
    sets,        \* Counter::sets; closed says whether second is initialized
    sizes,       \* Counter::sizes while get_lines_sizes' result is in use
    todo,        \* the lines the thread's present loop has not reached yet
    begun        \* history: the sample the consumer was at, line by line, when
                 \* get_lines_sizes read the begin of the latest set

threadVars == <<alive, pc, op, todo>>
counterVars == <<nextid, id, lines, registered, running, status, sets, sizes,
                 begun>>
vars == <<deviceVars, threadVars, counterVars>>

Operation == {"START", "CONTINUE", "STOP", "GET", "FINALIZE", "OTHER"}

Offsets == [Line -> Nat]
Set == [first : Offsets, closed : BOOLEAN, second : Offsets]
NoOffsets == [l \in Line |-> 0]

(***************************************************************************)
(* new .. greet are the constructor, catchCreate its handler; serve ..     *)
(* error are run(), catchRun its handler; dtor and disable are the         *)
(* destructor.  A thread ends gone, or leaked when it ended without        *)
(* running deregister_counter's loop over the lines it may have enabled.   *)
(***************************************************************************)
Location ==
    {"new", "incr", "create", "register", "enable", "greet", "catchCreate",
     "serve", "dispatch", "activate", "deactivate", "sizes", "get",
     "success", "error", "catchRun", "dtor", "disable", "gone", "leaked"}

\* Places where the thread owns counter_lock.
Critical == {"enable", "activate", "deactivate", "disable"}

\* Places inside run(): the session is registered and holds its lines.
Session ==
    {"serve", "dispatch", "activate", "deactivate", "sizes", "get",
     "success", "error", "catchRun"}

----------------------------------------------------------------------------
Goto(c, loc) == pc' = [pc EXCEPT ![c] = loc]

\* The thread takes counter_lock and starts a loop over its lines at loc.
LockAndLoop(c, loc) ==
    /\ lock = NoCounter
    /\ lock' = c
    /\ todo' = [todo EXCEPT ![c] = lines[c]]
    /\ Goto(c, loc)

\* (A bug: the lock is not released.)
NoUnlock == UNCHANGED lock

Unlock == lock' = NoCounter

\* The loop's next iteration is about line l.
Iterate(c, l) ==
    /\ IsFirst(l, todo[c])
    /\ todo' = [todo EXCEPT ![c] = @ \ {l}]

LoopDone(c) == todo[c] = {}

\* The thread ends and its Counter's members are destroyed.  lines and
\* status stay, to tell what the Counter left behind in the device.
End(c, loc) ==
    /\ Goto(c, loc)
    /\ sets' = [sets EXCEPT ![c] = <<>>]
    /\ UNCHANGED <<nextid, id, lines, registered, running, status, sizes, begun>>

\* A handler's send of ERROR: after it returns, the destructor runs; if it
\* throws, the exception leaves the constructor and the destructor does not.
SendErrorOrLeak(c) ==
    /\ \/ Goto(c, "dtor") /\ UNCHANGED counterVars
       \/ ~alive[c] /\ End(c, "leaked")
    /\ UNCHANGED <<deviceVars, alive, op, todo>>

----------------------------------------------------------------------------
Init ==
    /\ DeviceInit
    /\ nextid = 0
    /\ alive = [c \in Counter |-> TRUE]
    /\ pc = [c \in Counter |-> "new"]
    /\ op = [c \in Counter |-> "OTHER"]
    /\ id = [c \in Counter |-> 0]
    /\ lines = [c \in Counter |-> {}]
    /\ registered = [c \in Counter |-> FALSE]
    /\ running = [c \in Counter |-> TRUE]
    /\ status = [c \in Counter |-> "INACTIVE"]
    /\ sets = [c \in Counter |-> <<>>]
    /\ sizes = [c \in Counter |-> NoOffsets]
    /\ todo = [c \in Counter |-> {}]
    /\ begun = [c \in Counter |-> NoOffsets]

\* The client closes its connection, or dies.
Hangup(c) ==
    /\ c \in Fickle /\ alive[c] /\ pc[c] \notin {"gone", "leaked"}
    /\ alive' = [alive EXCEPT ![c] = FALSE]
    /\ UNCHANGED <<deviceVars, pc, op, todo, counterVars>>

----------------------------------------------------------------------------
\* The constructor.

\* id = ++nextid on a plain int that all connection threads share: a read ...
LoadNextId(c) ==
    /\ pc[c] = "new"
    /\ id' = [id EXCEPT ![c] = nextid]
    /\ Goto(c, "incr")
    /\ UNCHANGED <<deviceVars, alive, op, todo, nextid, lines, registered,
                   running, status, sets, sizes, begun>>

\* ... and a write.
StoreNextId(c) ==
    /\ pc[c] = "incr"
    /\ id' = [id EXCEPT ![c] = @ + 1]
    /\ nextid' = id[c] + 1
    /\ Goto(c, "create")
    /\ UNCHANGED <<deviceVars, alive, op, todo, lines, registered, running,
                   status, sets, sizes, begun>>

\* The request arrives whole and names this device, a frequency it can do
\* and the lines S.
ReceiveRequest(c) ==
    /\ pc[c] = "create" /\ alive[c]
    /\ \E S \in SUBSET Line : lines' = [lines EXCEPT ![c] = S]
    /\ Goto(c, "register")
    /\ UNCHANGED <<deviceVars, alive, op, todo, nextid, id, registered,
                   running, status, sets, sizes, begun>>

\* The device is unknown, or the frequency is too high for it.
RefuseRequest(c) ==
    /\ pc[c] = "create" /\ alive[c]
    /\ Goto(c, "catchCreate")
    /\ UNCHANGED <<deviceVars, alive, op, todo, counterVars>>

\* A receive throws.
RequestFails(c) ==
    /\ pc[c] = "create" /\ ~alive[c]
    /\ Goto(c, "catchCreate")
    /\ UNCHANGED <<deviceVars, alive, op, todo, counterVars>>

\* register_counter: insert into counter_map under the lock, then enable.
Register(c) ==
    /\ pc[c] = "register"
    /\ LockAndLoop(c, "enable")
    /\ counter_map' = counter_map \cup {id[c]}
    /\ UNCHANGED <<lineVars, consumerVars, alive, op, counterVars>>

EnableLine(c, l) ==
    /\ pc[c] = "enable"
    /\ Iterate(c, l)
    /\ enabled' = [enabled EXCEPT ![l] = enable(@)]
    /\ UNCHANGED <<active, data, lock, counter_map, consumerVars, alive, pc,
                   op, counterVars>>

Registered(c) ==
    /\ pc[c] = "enable" /\ LoopDone(c)
    /\ Unlock
    /\ registered' = [registered EXCEPT ![c] = TRUE]
    /\ Goto(c, "greet")
    /\ UNCHANGED <<lineVars, counter_map, consumerVars, alive, op, todo,
                   nextid, id, lines, running, status, sets, sizes, begun>>

\* send SUCCESS and log the peer's address: with the client gone, either
\* may throw.
Greet(c) ==
    /\ pc[c] = "greet"
    /\ Goto(c, "serve") \/ (~alive[c] /\ Goto(c, "catchCreate"))
    /\ UNCHANGED <<deviceVars, alive, op, todo, counterVars>>

CatchCreate(c) == pc[c] = "catchCreate" /\ SendErrorOrLeak(c)

----------------------------------------------------------------------------
\* run() and the operations of a session.

Receive(c, o) ==
    /\ pc[c] = "serve" /\ running[c] /\ alive[c]
    /\ o = "CONTINUE" => Len(sets[c]) < MaxSets
    /\ op' = [op EXCEPT ![c] = o]
    /\ Goto(c, "dispatch")
    /\ UNCHANGED <<deviceVars, alive, todo, counterVars>>

\* (A bug: the exception is dropped, and run() tries again.)
ReceiveAgain(c) ==
    /\ pc[c] = "serve" /\ running[c] /\ ~alive[c]
    /\ UNCHANGED vars

ReceiveFails(c) ==
    /\ pc[c] = "serve" /\ running[c] /\ ~alive[c]
    /\ Goto(c, "catchRun")
    /\ UNCHANGED <<deviceVars, alive, op, todo, counterVars>>

\* The loop of run() ends; the temporary Counter is destroyed.
LeaveRun(c) ==
    /\ pc[c] = "serve" /\ ~running[c]
    /\ Goto(c, "dtor")
    /\ UNCHANGED <<deviceVars, alive, op, todo, counterVars>>

\* (A bug: CONTINUE is taken whatever the status.)
NeedsLess(o, s) ==
    \/ o \in {"START", "GET", "FINALIZE"} /\ s = "INACTIVE"
    \/ o = "STOP" /\ s = "ACTIVE"
    \/ o = "CONTINUE"

\* The status an operation needs; an opcode run() does not know has none.
Needs(o, s) ==
    \/ o \in {"START", "CONTINUE", "GET", "FINALIZE"} /\ s = "INACTIVE"
    \/ o = "STOP" /\ s = "ACTIVE"

\* The operation does not fit the status: it replies ERROR, nothing else.
Reject(c) ==
    /\ pc[c] = "dispatch" /\ ~Needs(op[c], status[c])
    /\ Goto(c, "error")
    /\ UNCHANGED <<deviceVars, alive, op, todo, counterVars>>

Accepts(c, ops) == pc[c] = "dispatch" /\ op[c] \in ops /\ Needs(op[c], status[c])

\* start() and restart() call start_counter: activate the lines, locked.
StartCounter(c) ==
    /\ Accepts(c, {"START", "CONTINUE"})
    /\ LockAndLoop(c, "activate")
    /\ UNCHANGED <<lineVars, counter_map, consumerVars, alive, op, counterVars>>

ActivateLine(c, l) ==
    /\ pc[c] = "activate"
    /\ Iterate(c, l)
    /\ active' = [active EXCEPT ![l] = activate(@)]
    /\ UNCHANGED <<enabled, data, lock, counter_map, consumerVars, alive, pc,
                   op, counterVars>>

\* stop() calls stop_counter: deactivate the lines, locked.
StopCounter(c) ==
    /\ Accepts(c, {"STOP"})
    /\ LockAndLoop(c, "deactivate")
    /\ UNCHANGED <<lineVars, counter_map, consumerVars, alive, op, counterVars>>

DeactivateLine(c, l) ==
    /\ pc[c] = "deactivate"
    /\ Iterate(c, l)
    /\ active' = [active EXCEPT ![l] = deactivate(@)]
    /\ UNCHANGED <<enabled, data, lock, counter_map, consumerVars, alive, pc,
                   op, counterVars>>

\* After the unlock the status changes; sizes is clear and about to be filled.
ChangeStatus(c) ==
    /\ pc[c] \in {"activate", "deactivate"} /\ LoopDone(c)
    /\ Unlock
    /\ status' = [status EXCEPT ![c] =
                     IF pc[c] = "activate" THEN "ACTIVE" ELSE "INACTIVE"]
    /\ todo' = [todo EXCEPT ![c] = lines[c]]
    /\ Goto(c, "sizes")
    /\ UNCHANGED <<lineVars, counter_map, consumerVars, alive, op, nextid, id,
                   lines, registered, running, sets, sizes, begun>>

\* The sample the consumer handled last on line l.
Latest(l) == IF l \in pending THEN popped - 1 ELSE popped

\* get_lines_sizes reads one size after the other, without the lock.
ReadSize(c, l) ==
    /\ pc[c] = "sizes"
    /\ Iterate(c, l)
    /\ sizes' = [sizes EXCEPT ![c][l] = Len(data[l])]
    /\ begun' = IF op[c] = "STOP" THEN begun ELSE [begun EXCEPT ![c][l] = Latest(l)]
    /\ UNCHANGED <<deviceVars, alive, pc, op, nextid, id, lines, registered,
                   running, status, sets>>

OpenedSet(begin) == [first |-> begin, closed |-> FALSE, second |-> NoOffsets]
ClosedSet(s, end) == [s EXCEPT !.closed = TRUE, !.second = end]

\* The sets an operation leaves: start() begins afresh, restart() appends,
\* stop() closes the last one.
SetsAfter(o, ss, now) ==
    CASE o = "START" -> <<OpenedSet(now)>>
      [] o = "CONTINUE" -> Append(ss, OpenedSet(now))
      [] o = "STOP" -> [ss EXCEPT ![Len(ss)] = ClosedSet(@, now)]

RecordSet(c) ==
    /\ pc[c] = "sizes" /\ LoopDone(c)
    /\ sets' = [sets EXCEPT ![c] = SetsAfter(op[c], @, sizes[c])]
    /\ sizes' = [sizes EXCEPT ![c] = NoOffsets]
    /\ Goto(c, "success")
    /\ UNCHANGED <<deviceVars, alive, op, todo, nextid, id, lines, registered,
                   running, status, begun>>

\* get() reads the slices of its sets out of the buffers, then sends them.
Get(c) ==
    /\ Accepts(c, {"GET"})
    /\ Goto(c, "get")
    /\ UNCHANGED <<deviceVars, alive, op, todo, counterVars>>

Finalize(c) ==
    /\ Accepts(c, {"FINALIZE"})
    /\ running' = [running EXCEPT ![c] = FALSE]
    /\ Goto(c, "success")
    /\ UNCHANGED <<deviceVars, alive, op, todo, nextid, id, lines, registered,
                   status, sets, sizes, begun>>

Reply(c) ==
    /\ pc[c] \in {"get", "success", "error"}
    /\ Goto(c, "serve") \/ (~alive[c] /\ Goto(c, "catchRun"))
    /\ op' = [op EXCEPT ![c] = "OTHER"]
    /\ UNCHANGED <<deviceVars, alive, todo, counterVars>>

\* run() is called by the constructor: its handler is inside it too.
CatchRun(c) == pc[c] = "catchRun" /\ SendErrorOrLeak(c)

----------------------------------------------------------------------------
\* The destructor.

SkipDeregister(c) ==
    /\ pc[c] = "dtor" /\ ~registered[c]
    /\ End(c, "gone")
    /\ UNCHANGED <<deviceVars, alive, op, todo>>

Deregister(c) ==
    /\ pc[c] = "dtor" /\ registered[c]
    /\ id[c] \in counter_map
    /\ LockAndLoop(c, "disable")
    /\ UNCHANGED <<lineVars, counter_map, consumerVars, alive, op, counterVars>>

\* counter_map has no such id: deregister_counter does nothing.
DeregisterUnknown(c) ==
    /\ pc[c] = "dtor" /\ registered[c]
    /\ lock = NoCounter /\ id[c] \notin counter_map
    /\ End(c, "leaked")
    /\ UNCHANGED <<deviceVars, alive, op, todo>>

\* (A bug: the data goes with the first Counter that leaves.)
DisableLineAndClear(c, l) ==
    /\ pc[c] = "disable"
    /\ Iterate(c, l)
    /\ enabled' = [enabled EXCEPT ![l] = disable(@)]
    /\ data' = [data EXCEPT ![l] = clear_data(@)]
    /\ UNCHANGED <<active, lock, counter_map, consumerVars, alive, pc, op,
                   counterVars>>

DisableLine(c, l) ==
    /\ pc[c] = "disable"
    /\ Iterate(c, l)
    /\ enabled' = [enabled EXCEPT ![l] = disable(@)]
    /\ data' = [data EXCEPT ![l] = IF enabled'[l] > 0 THEN @ ELSE clear_data(@)]
    /\ UNCHANGED <<active, lock, counter_map, consumerVars, alive, pc, op,
                   counterVars>>

Deregistered(c) ==
    /\ pc[c] = "disable" /\ LoopDone(c)
    /\ Unlock
    /\ counter_map' = counter_map \ {id[c]}
    /\ End(c, "gone")
    /\ UNCHANGED <<lineVars, consumerVars, alive, op, todo>>

----------------------------------------------------------------------------
\* The steps that need the client to send something.
AwaitsClient(c) ==
    \/ ReceiveRequest(c) \/ RefuseRequest(c)
    \/ \E o \in Operation : Receive(c, o)

Construct(c) ==
    \/ LoadNextId(c) \/ StoreNextId(c) \/ RequestFails(c)
    \/ Register(c) \/ Registered(c) \/ Greet(c) \/ CatchCreate(c)

Serve(c) ==
    \/ ReceiveFails(c) \/ LeaveRun(c) \/ Reject(c)
    \/ StartCounter(c) \/ StopCounter(c) \/ ChangeStatus(c) \/ RecordSet(c)
    \/ Get(c) \/ Finalize(c) \/ Reply(c) \/ CatchRun(c)

Destroy(c) ==
    \/ SkipDeregister(c) \/ Deregister(c) \/ DeregisterUnknown(c)
    \/ Deregistered(c)

LoopStep(c, l) ==
    \/ EnableLine(c, l) \/ ActivateLine(c, l) \/ DeactivateLine(c, l)
    \/ ReadSize(c, l) \/ DisableLine(c, l)

\* The steps a connection's thread takes by itself.
Thread(c) ==
    \/ Construct(c) \/ Serve(c) \/ Destroy(c)
    \/ \E l \in Line : LoopStep(c, l)

Next ==
    \/ Consumer /\ UNCHANGED <<threadVars, counterVars>>
    \/ \E c \in Counter : Thread(c) \/ AwaitsClient(c) \/ Hangup(c)

Spec == Init /\ [][Next]_vars

\* The steps that take counter_lock.
TakesLock(c) ==
    \/ Register(c) \/ StartCounter(c) \/ StopCounter(c)
    \/ Deregister(c) \/ DeregisterUnknown(c)

(***************************************************************************)
(* The scheduler runs every connection thread, and counter_lock does not   *)
(* pass by a waiting thread for ever: between two acquisitions by the same *)
(* thread lies a round trip to its client.  Nothing obliges a client to    *)
(* send, or to hang up.                                                    *)
(***************************************************************************)
Fairness ==
    \A c \in Counter : WF_vars(Thread(c)) /\ SF_vars(TakesLock(c))

FairSpec == Spec /\ Fairness

----------------------------------------------------------------------------
TypeOK ==
    /\ enabled \in [Line -> Nat] /\ active \in [Line -> Nat]
    /\ data \in [Line -> Seq(0 .. MaxSamples)]
    /\ lock \in Counter \cup {NoCounter}
    /\ counter_map \subseteq Nat
    /\ popped \in 0 .. MaxSamples
    /\ pending \subseteq Line
    /\ cpc \in {"visit", "load", "store"}
    /\ oldSize \in Nat
    /\ nextid \in Nat /\ id \in [Counter -> Nat]
    /\ alive \in [Counter -> BOOLEAN]
    /\ pc \in [Counter -> Location]
    /\ op \in [Counter -> Operation]
    /\ lines \in [Counter -> SUBSET Line] /\ todo \in [Counter -> SUBSET Line]
    /\ registered \in [Counter -> BOOLEAN] /\ running \in [Counter -> BOOLEAN]
    /\ status \in [Counter -> {"INACTIVE", "ACTIVE"}]
    /\ sets \in [Counter -> Seq(Set)]
    /\ sizes \in [Counter -> Offsets]
    /\ begun \in [Counter -> [Line -> Int]]

\* The lines c has enabled and not disabled.
Holding(c) ==
    CASE pc[c] = "enable" -> lines[c] \ todo[c]
      [] pc[c] = "disable" -> todo[c]
      [] pc[c] = "gone" -> {}
      [] OTHER -> IF registered[c] THEN lines[c] ELSE {}

\* The lines c has activated and not deactivated.
Activating(c) ==
    CASE pc[c] = "activate" -> lines[c] \ todo[c]
      [] pc[c] = "deactivate" -> todo[c]
      [] OTHER -> IF status[c] = "ACTIVE" THEN lines[c] ELSE {}

(***************************************************************************)
(* Line::enable and Line::disable keep an exact count of the Counters that *)
(* hold the line, whatever the threads interleave, whoever vanishes, and   *)
(* even when two Counters got the same id.                                 *)
(***************************************************************************)
EnabledCount ==
    \A l \in Line : enabled[l] = Cardinality({c \in Counter : l \in Holding(c)})

(***************************************************************************)
(* Line::activate and Line::deactivate keep an exact count of the Counters *)
(* that started and did not stop: one session's stop never ends another    *)
(* session's recording on the line they share.                             *)
(***************************************************************************)
ActiveCount ==
    \A l \in Line : active[l] = Cardinality({c \in Counter : l \in Activating(c)})

\* s lies within the buffers of lines L.
InBuffer(s, L) ==
    \A l \in L :
        /\ s.first[l] <= Len(data[l])
        /\ s.closed => s.first[l] <= s.second[l] /\ s.second[l] <= Len(data[l])

(***************************************************************************)
(* The offsets a session recorded stay valid as long as it can ask for     *)
(* them: get() never forms an iterator outside a buffer, although other    *)
(* sessions come, stop and deregister (which clears buffers) meanwhile.    *)
(***************************************************************************)
SlicesInBuffer ==
    \A c \in Counter : pc[c] \in Session =>
        \A i \in 1 .. Len(sets[c]) : InBuffer(sets[c][i], lines[c])

(***************************************************************************)
(* Between operations, exactly the last set of an ACTIVE session is open:  *)
(* stop() finds a set to close, and get(), which runs only when INACTIVE,  *)
(* never reads the end of a set that has none.                             *)
(***************************************************************************)
OpenSetIffActive ==
    \A c \in Counter : pc[c] \in Session \ {"sizes"} =>
        /\ status[c] = "ACTIVE" => sets[c] # <<>>
        /\ \A i \in 1 .. Len(sets[c]) :
              sets[c][i].closed <=> ~(status[c] = "ACTIVE" /\ i = Len(sets[c]))

\* From offset b on, buf holds exactly the samples from + 1 .. last, in order.
\* Before them come at most slots that were never written (see push_back).
HoldsSamples(buf, b, from, last) ==
    /\ from <= last
    /\ b + (last - from) <= Len(buf)
    /\ \A i \in b + 1 .. Len(buf) :
          buf[i] = IF Len(buf) - i < last - from THEN last - (Len(buf) - i)
                                                 ELSE Garbage

(***************************************************************************)
(* While a session is recording, its lines receive every sample: from the  *)
(* begin of its set to the end of the buffer lie the samples the consumer  *)
(* handled since that begin was read, all of them and no others, from the  *)
(* very first to the latest, whatever the other sessions on those lines    *)
(* start, stop and clear.                                                  *)
(***************************************************************************)
RecordingMissesNoSample ==
    \A c \in Counter :
        pc[c] \in Session \ {"sizes", "deactivate"} /\ status[c] = "ACTIVE" =>
            \A l \in lines[c] :
                HoldsSamples(data[l], sets[c][Len(sets[c])].first[l],
                             begun[c][l], Latest(l))

(***************************************************************************)
(* A buffer that some session holds before and after a step keeps its      *)
(* content: samples are only appended.  clear_data reaches a buffer only   *)
(* when its last holder goes.                                              *)
(***************************************************************************)
HeldDataOnlyGrows ==
    [][\A c \in Counter : \A l \in Holding(c) \cap Holding(c)' :
          /\ Len(data[l]) <= Len(data'[l])
          /\ \A i \in 1 .. Len(data[l]) : data'[l][i] = data[l][i]]_vars

Ended(c) == pc[c] \in {"gone", "leaked"}

(***************************************************************************)
(* counter_lock never keeps a request waiting for ever: every operation    *)
(* run() received is answered, or the session ends.                        *)
(***************************************************************************)
EveryRequestAnswered ==
    \A c \in Counter : pc[c] = "dispatch" ~> pc[c] = "serve" \/ Ended(c)

(***************************************************************************)
(* A session does not outlive its client: once the connection is closed,   *)
(* the thread leaves run() and ends, whatever it was doing.                *)
(***************************************************************************)
SessionEndsAfterHangup ==
    \A c \in Counter : ~alive[c] ~> Ended(c)

----------------------------------------------------------------------------
(***************************************************************************)
(* What the proofs need besides: where a thread is tells whether it owns   *)
(* counter_lock and is registered, which operation it serves, and that its *)
(* session has recorded nothing yet.                                       *)
(***************************************************************************)
Before == {"new", "incr", "create", "register", "enable"}

ControlOf(c) ==
    /\ pc[c] \in Critical <=> lock = c
    /\ pc[c] \in {"new", "incr", "create"} => lines[c] = {}
    /\ pc[c] \in Before => ~registered[c]
    /\ pc[c] \in Session \cup {"greet", "disable"} => registered[c]
    /\ pc[c] \in Before \cup {"greet", "catchCreate"} =>
          sets[c] = <<>> /\ status[c] = "INACTIVE"
    /\ pc[c] = "activate" =>
          op[c] \in {"START", "CONTINUE"} /\ status[c] = "INACTIVE"
    /\ pc[c] = "deactivate" => op[c] = "STOP" /\ status[c] = "ACTIVE"
    /\ pc[c] = "sizes" =>
          \/ op[c] \in {"START", "CONTINUE"} /\ status[c] = "ACTIVE"
          \/ op[c] = "STOP" /\ status[c] = "INACTIVE"
    /\ pc[c] = "get" => status[c] = "INACTIVE"
    /\ todo[c] \subseteq lines[c]

Control == \A c \in Counter : ControlOf(c)

\* A size the consumer loaded is not below the size of its line's buffer:
\* nobody else appends.
LoadedSizeBounds ==
    cpc = "store" => \A l \in Line : IsFirst(l, pending) => Len(data[l]) <= oldSize

\* What a session has read of the sizes so far is within the buffers, and
\* for a stop() not before the begin of the set it will close.
SizesRead ==
    \A c \in Counter : pc[c] = "sizes" =>
        /\ \A l \in lines[c] \ todo[c] : sizes[c][l] <= Len(data[l])
        /\ op[c] = "STOP" =>
              /\ sets[c] # <<>>
              /\ \A l \in lines[c] \ todo[c] :
                    sets[c][Len(sets[c])].first[l] <= sizes[c][l]

\* The shape of the sets while sizes are read: all closed before a start, the
\* last one open before a stop.
SetsWhileReading ==
    \A c \in Counter : pc[c] = "sizes" =>
        \A i \in 1 .. Len(sets[c]) :
            sets[c][i].closed <=> ~(op[c] = "STOP" /\ i = Len(sets[c]))

----------------------------------------------------------------------------
(***************************************************************************)
(* A statement of the repository's comments that the code does not keep.   *)
(***************************************************************************)

\* The samples of a closed set, line by line.
Slice(s, l) == SubSeq(data[l], s.first[l] + 1, s.second[l])

ClosedSlices(c) ==
    {Slice(s, l) : s \in {sets[c][i] : i \in {j \in 1 .. Len(sets[c]) : sets[c][j].closed}},
                   l \in lines[c]}

\* counter.hpp, class Counter: a set holds the offsets "covering that
\* interval", from start() to stop().  Its samples are consecutive.
SliceCoversInterval ==
    \A c \in Counter : pc[c] = "get" => \A d \in ClosedSlices(c) :
        \A i \in 1 .. Len(d) - 1 : d[i] # Garbage => d[i + 1] = d[i] + 1
============================================================================
