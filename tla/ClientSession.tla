--------------------------- MODULE ClientSession ----------------------------
(***************************************************************************)
(* A program that measures with the client library (client/pm_*.c): one    *)
(* thread makes blocking calls on several counters, each with its own      *)
(* connection to a session thread of the server, and on short connections  *)
(* that ask about the devices.  A call writes a request and waits; on an   *)
(* error reply or a lost connection it ends the whole process (exit(1)).   *)
(*                                                                         *)
(* Both sides keep the intervals measured: the client stamps its clock in  *)
(* timing around its calls, the server's Counter keeps a set of offsets.   *)
(* A set is represented by the times at which the session handled the      *)
(* request that opened it and the one that closed it (0: not yet).         *)
(*                                                                         *)
(* The session's loops over the lines of the device, and the deaths of     *)
(* session threads, are in CounterSessions.                                *)
(***************************************************************************)
EXTENDS Integers, Sequences

CONSTANTS
    Counters,      \* the counter_t structures of the program
    Nobody,        \* no counter
    NDevices,      \* devices of the server, named 1 .. NDevices
    MaxTime,       \* bound: ticks of the clock
    MaxIntervals   \* bound: intervals of each counter (TIMELEN / 2 in the code)

ASSUME ClientSessionAssumption ==
    /\ Nobody \notin Counters
    /\ NDevices \in Nat /\ MaxTime \in Nat \ {0}
    /\ MaxIntervals \in [Counters -> Nat]

VARIABLES
    now,           \* what gettimeofday returns
    exited,        \* the client process called exit
    op, on,        \* the library call in progress, and its counter
    stage,         \* "idle"; "wait": for a counter's reply; "query": for fields
    sock,          \* pm_counter->sock
    num_lines,     \* pm_counter->num_lines
    next_timing,   \* measures->next_timing
    timing,        \* measures->timing, start and stop times in turn
    energy,        \* measures->energy: the sets received by the last get
    request,       \* on a counter's connection, and not yet read
    reply, reply_sets,
    server_up,
    session,       \* Server::connection, serving a counter
    dev,           \* the device a counter names
    status, sets,  \* Counter::status, Counter::sets
    asked,         \* the device a query names
    info,          \* the Info object: "none", "asked" or "answered"
    wire, got      \* the fields it sent, and those of them the client read

call_vars == <<exited, op, on, stage>>
handle_vars == <<sock, num_lines, next_timing, timing, energy>>
server_vars == <<server_up, session, dev, status, sets>>
channel_vars == <<request, reply, reply_sets>>
query_vars == <<asked, info, wire, got>>
vars == <<now, call_vars, handle_vars, server_vars, channel_vars, query_vars>>

Devices == 1 .. NDevices
Operations == {"START", "CONTINUE", "STOP", "GET", "FINALIZE"}
Index(c) == 0 .. 2 * MaxIntervals[c] + 1

Init ==
    /\ now = 1
    /\ exited = FALSE /\ op = "none" /\ on = Nobody /\ stage = "idle"
    /\ sock = [c \in Counters |-> "none"]
    /\ num_lines = [c \in Counters |-> 0]
    /\ next_timing = [c \in Counters |-> 0]
    /\ timing = [c \in Counters |-> [i \in Index(c) |-> 0]]
    /\ energy = [c \in Counters |-> <<>>]
    /\ request = [c \in Counters |-> "none"]
    /\ reply = [c \in Counters |-> "none"]
    /\ reply_sets = [c \in Counters |-> <<>>]
    /\ server_up = TRUE
    /\ session = [c \in Counters |-> "none"]
    /\ dev = [c \in Counters |-> 0]
    /\ status = [c \in Counters |-> "INACTIVE"]
    /\ sets = [c \in Counters |-> <<>>]
    /\ asked = 0 /\ info = "none" /\ wire = <<>> /\ got = <<>>

----------------------------------------------------------------------------
\* The client's side: calls.

\* The connection of a query is closed and its buffers are gone.
Forget == asked' = 0 /\ info' = "none" /\ wire' = <<>> /\ got' = <<>>

\* exit(1): the sockets are closed and the memory is gone with the process.
Exit ==
    /\ exited' = TRUE /\ op' = "none" /\ on' = Nobody /\ stage' = "idle"
    /\ sock' = [c \in Counters |-> IF sock[c] = "open" THEN "closed" ELSE sock[c]]
    /\ num_lines' = [c \in Counters |-> 0]
    /\ next_timing' = [c \in Counters |-> 0]
    /\ timing' = [c \in Counters |-> [i \in Index(c) |-> 0]]
    /\ Forget
    /\ UNCHANGED <<now, energy, server_vars, channel_vars>>

CanCall == ~exited /\ stage = "idle"

Begin(name, c, where) == CanCall /\ op' = name /\ on' = c /\ stage' = where /\ UNCHANGED exited

\* connect() fails in pm_create_counter, pm_get_device_info or pm_get_devices.
CannotConnect == CanCall /\ ~server_up /\ Exit

\* Up to the first recv; device 0 is one that the server does not have.
pm_create_counter(c) ==
    /\ sock[c] = "none" /\ server_up
    /\ Begin("CREATE", c, "wait")
    /\ sock' = [sock EXCEPT ![c] = "open"]
    /\ request' = [request EXCEPT ![c] = "CREATE"]
    /\ \E d \in 0 .. NDevices : dev' = [dev EXCEPT ![c] = d]
    /\ UNCHANGED <<now, num_lines, next_timing, timing, energy,
                   server_up, session, status, sets, reply, reply_sets, query_vars>>

\* The send of a call on counter c.
Send(c, name) ==
    /\ sock[c] = "open"
    /\ Begin(name, c, "wait")
    /\ request' = [request EXCEPT ![c] = name]

\* The bound on the intervals: timing holds TIMELEN values.
Room(c) == next_timing[c] < MaxIntervals[c]

pm_start_counter(c) ==
    /\ Send(c, "START")
    /\ UNCHANGED <<now, handle_vars, server_vars, reply, reply_sets, query_vars>>

pm_continue_counter(c) ==
    /\ Room(c) /\ Send(c, "CONTINUE")
    /\ UNCHANGED <<now, handle_vars, server_vars, reply, reply_sets, query_vars>>

\* (A bug: the reply is not waited for.)
StopWithoutWaiting(c) ==
    /\ Room(c) /\ CanCall /\ sock[c] = "open"
    /\ request' = [request EXCEPT ![c] = "STOP"]
    /\ timing' = [timing EXCEPT ![c][2 * next_timing[c] + 1] = now]
    /\ next_timing' = [next_timing EXCEPT ![c] = @ + 1]
    /\ UNCHANGED <<now, call_vars, sock, num_lines, energy,
                   server_vars, reply, reply_sets, query_vars>>

\* The interval is stamped and counted before the request is sent.
pm_stop_counter(c) ==
    /\ Room(c) /\ Send(c, "STOP")
    /\ timing' = [timing EXCEPT ![c][2 * next_timing[c] + 1] = now]
    /\ next_timing' = [next_timing EXCEPT ![c] = @ + 1]
    /\ UNCHANGED <<now, sock, num_lines, energy,
                   server_vars, reply, reply_sets, query_vars>>

pm_get_counter_data(c) ==
    /\ Send(c, "GET")
    /\ UNCHANGED <<now, handle_vars, server_vars, reply, reply_sets, query_vars>>

pm_finalize_counter(c) ==
    /\ Send(c, "FINALIZE")
    /\ UNCHANGED <<now, handle_vars, server_vars, reply, reply_sets, query_vars>>

----------------------------------------------------------------------------
\* The client's side: replies on a counter's connection.

Returned == op' = "none" /\ on' = Nobody /\ stage' = "idle" /\ UNCHANGED exited

Read(c, what) ==
    /\ stage = "wait" /\ on = c /\ reply[c] = what
    /\ reply' = [reply EXCEPT ![c] = "none"]
    /\ reply_sets' = [reply_sets EXCEPT ![c] = <<>>]
    /\ UNCHANGED <<now, request, server_vars>>

\* (A bug: an earlier measurement's intervals are kept.)
KeepTimings(c) == next_timing[c]

\* pm_start_counter after its recv: the first interval begins here.
FirstTiming(c) == 0

Started(c) ==
    /\ op = "START" /\ Read(c, "SUCCESS") /\ Returned
    /\ next_timing' = [next_timing EXCEPT ![c] = FirstTiming(c)]
    /\ timing' = [timing EXCEPT ![c][2 * FirstTiming(c)] = now]
    /\ UNCHANGED <<sock, num_lines, energy, query_vars>>

Continued(c) ==
    /\ op = "CONTINUE" /\ Read(c, "SUCCESS") /\ Returned
    /\ timing' = [timing EXCEPT ![c][2 * next_timing[c]] = now]
    /\ UNCHANGED <<sock, num_lines, next_timing, energy, query_vars>>

\* (A bug: the end of the interval is the time of the reply.)
StoppedStampsLate(c) ==
    /\ op = "STOP" /\ Read(c, "SUCCESS") /\ Returned
    /\ timing' = [timing EXCEPT ![c][2 * next_timing[c] - 1] = now]
    /\ UNCHANGED <<sock, num_lines, next_timing, energy, query_vars>>

Stopped(c) ==
    /\ op = "STOP" /\ Read(c, "SUCCESS") /\ Returned
    /\ UNCHANGED <<handle_vars, query_vars>>

Got(c) ==
    /\ op = "GET" /\ Read(c, "data") /\ Returned
    /\ energy' = [energy EXCEPT ![c] = reply_sets[c]]
    /\ UNCHANGED <<sock, num_lines, next_timing, timing, query_vars>>

Finalized(c) ==
    /\ op = "FINALIZE" /\ Read(c, "SUCCESS") /\ Returned
    /\ sock' = [sock EXCEPT ![c] = "closed"]
    /\ UNCHANGED <<num_lines, next_timing, timing, energy, query_vars>>

\* pm_create_counter asks about its device on a second connection.
Created(c) ==
    /\ op = "CREATE" /\ server_up
    /\ Read(c, "SUCCESS")
    /\ stage' = "query" /\ UNCHANGED <<exited, op, on>>
    /\ asked' = dev[c] /\ info' = "asked" /\ wire' = <<>> /\ got' = <<>>
    /\ UNCHANGED handle_vars

\* connect() fails there.
CreatedTooLate(c) ==
    /\ stage = "wait" /\ on = c /\ op = "CREATE" /\ reply[c] = "SUCCESS" /\ ~server_up
    /\ Exit

\* An error reply, or a connection closed with nothing more to read.
Refused(c) == stage = "wait" /\ on = c /\ reply[c] = "ERROR" /\ Exit
ConnectionLost(c) ==
    /\ stage = "wait" /\ on = c /\ reply[c] = "none"
    /\ session[c] # "serving" /\ (request[c] = "none" \/ ~server_up)
    /\ Exit

\* recv returned fewer bytes than a field has, or failed.
RecvFails == stage # "idle" /\ Exit

----------------------------------------------------------------------------
\* Queries about the devices: pm_get_device_info, pm_get_devices and Info.

pm_get_device_info ==
    /\ server_up /\ Begin("INFO_DEVICE", Nobody, "query")
    /\ asked' \in 0 .. NDevices
    /\ info' = "asked" /\ wire' = <<>> /\ got' = <<>>
    /\ UNCHANGED <<now, handle_vars, server_vars, channel_vars>>

pm_get_devices ==
    /\ server_up /\ Begin("LIST_DEVICES", Nobody, "query")
    /\ info' = "asked" /\ wire' = <<>> /\ got' = <<>>
    /\ UNCHANGED <<now, handle_vars, server_vars, channel_vars, asked>>

\* Frequencies and numbers of lines that tell the devices apart.
get_max_freq(d) == 1000 * d
get_num_lines(d) == 10 * d

\* send(string): the length, then the characters.  All names are one long.
SendString(d) == <<1, d>>

info_device(d) ==
    IF d \in Devices THEN <<get_max_freq(d), get_num_lines(d)>> \o SendString(d)
    ELSE <<-1>>

\* (A bug: one device too few is announced.)
ListCountsShort ==
    <<NDevices - 1>> \o [i \in 1 .. 2 * NDevices |-> SendString((i + 1) \div 2)[2 - (i % 2)]]

list_devices ==
    <<NDevices>> \o [i \in 1 .. 2 * NDevices |-> SendString((i + 1) \div 2)[2 - (i % 2)]]

\* Info::run, in a thread of its own.
InfoRun ==
    /\ server_up /\ info = "asked" /\ info' = "answered"
    /\ wire' = IF op = "LIST_DEVICES" THEN list_devices ELSE info_device(asked)
    /\ UNCHANGED <<now, call_vars, handle_vars, server_vars, channel_vars, asked, got>>

\* How many fields the client reads before it closes the connection.
Expected(fields) ==
    IF op = "LIST_DEVICES" THEN (IF fields = <<>> THEN 1 ELSE 1 + 2 * fields[1]) ELSE 4

\* A field that is an error code where a number is expected: the first of a
\* list, the first three about a device.
IsError(fields) ==
    /\ fields[Len(fields)] < 0
    /\ Len(fields) <= (IF op = "LIST_DEVICES" THEN 1 ELSE 3)

ReadField ==
    /\ stage = "query" /\ wire # <<>>
    /\ ~IsError(Append(got, Head(wire)))
    /\ got' = Append(got, Head(wire)) /\ wire' = Tail(wire)
    /\ UNCHANGED <<now, call_vars, handle_vars, server_vars, channel_vars, asked, info>>

ReadError == stage = "query" /\ wire # <<>> /\ IsError(Append(got, Head(wire))) /\ Exit

\* The peer closed the connection before all fields were read.
QueryLost ==
    /\ stage = "query" /\ wire = <<>> /\ (~server_up \/ info = "answered")
    /\ Len(got) < Expected(got)
    /\ Exit

\* The fields are stored; pm_create_counter fills in its counter_t.
QueryDone ==
    /\ stage = "query" /\ Len(got) = Expected(got)
    /\ Returned
    /\ num_lines' = IF op = "CREATE" THEN [num_lines EXCEPT ![on] = got[2]] ELSE num_lines
    /\ next_timing' = IF op = "CREATE" THEN [next_timing EXCEPT ![on] = 0] ELSE next_timing
    /\ energy' = IF op = "CREATE" THEN [energy EXCEPT ![on] = <<>>] ELSE energy
    /\ Forget
    /\ UNCHANGED <<now, sock, timing, server_vars, channel_vars>>

----------------------------------------------------------------------------
\* The server's side.

Answer(c, name, answer) ==
    /\ server_up /\ request[c] = name
    /\ request' = [request EXCEPT ![c] = "none"]
    /\ reply' = [reply EXCEPT ![c] = answer]
    /\ UNCHANGED <<now, call_vars, handle_vars, server_up, dev, query_vars>>

\* Counter::Counter; a frequency above the device's is refused as well.
Create(c) ==
    \/ /\ dev[c] \in Devices
       /\ Answer(c, "CREATE", "SUCCESS")
       /\ session' = [session EXCEPT ![c] = "serving"]
       /\ UNCHANGED <<status, sets, reply_sets>>
    \/ /\ Answer(c, "CREATE", "ERROR")
       /\ session' = [session EXCEPT ![c] = "refused"]
       /\ UNCHANGED <<status, sets, reply_sets>>

OpenSet == [first |-> now, second |-> 0]

Start(c) ==
    /\ session[c] = "serving" /\ status[c] = "INACTIVE"
    /\ Answer(c, "START", "SUCCESS")
    /\ status' = [status EXCEPT ![c] = "ACTIVE"]
    /\ sets' = [sets EXCEPT ![c] = <<OpenSet>>]
    /\ UNCHANGED <<session, reply_sets>>

Restart(c) ==
    /\ session[c] = "serving" /\ status[c] = "INACTIVE"
    /\ Answer(c, "CONTINUE", "SUCCESS")
    /\ status' = [status EXCEPT ![c] = "ACTIVE"]
    /\ sets' = [sets EXCEPT ![c] = Append(@, OpenSet)]
    /\ UNCHANGED <<session, reply_sets>>

Stop(c) ==
    /\ session[c] = "serving" /\ status[c] = "ACTIVE"
    /\ Answer(c, "STOP", "SUCCESS")
    /\ status' = [status EXCEPT ![c] = "INACTIVE"]
    /\ sets' = [sets EXCEPT ![c][Len(sets[c])].second = now]
    /\ UNCHANGED <<session, reply_sets>>

\* (A bug: a counter that still records is read.)
GetWhileActive(c) ==
    /\ session[c] = "serving"
    /\ Answer(c, "GET", "data")
    /\ reply_sets' = [reply_sets EXCEPT ![c] = sets[c]]
    /\ UNCHANGED <<session, status, sets>>

Get(c) ==
    /\ session[c] = "serving" /\ status[c] = "INACTIVE"
    /\ Answer(c, "GET", "data")
    /\ reply_sets' = [reply_sets EXCEPT ![c] = sets[c]]
    /\ UNCHANGED <<session, status, sets>>

\* (A bug: a counter that still records is closed.)
FinalizeWhileActive(c) ==
    /\ session[c] = "serving"
    /\ Answer(c, "FINALIZE", "SUCCESS")
    /\ session' = [session EXCEPT ![c] = "finalized"]
    /\ UNCHANGED <<status, sets, reply_sets>>

Finalize(c) ==
    /\ session[c] = "serving" /\ status[c] = "INACTIVE"
    /\ Answer(c, "FINALIZE", "SUCCESS")
    /\ session' = [session EXCEPT ![c] = "finalized"]
    /\ UNCHANGED <<status, sets, reply_sets>>

\* (A bug: a refused call is not answered.)
RejectSilently(c) ==
    /\ session[c] = "serving"
    /\ \/ status[c] = "ACTIVE" /\ \E name \in Operations \ {"STOP"} : Answer(c, name, "none")
       \/ status[c] = "INACTIVE" /\ Answer(c, "STOP", "none")
    /\ UNCHANGED <<session, status, sets, reply_sets>>

Reject(c) ==
    /\ session[c] = "serving"
    /\ \/ status[c] = "ACTIVE" /\ \E name \in Operations \ {"STOP"} : Answer(c, name, "ERROR")
       \/ status[c] = "INACTIVE" /\ Answer(c, "STOP", "ERROR")
    /\ UNCHANGED <<session, status, sets, reply_sets>>

\* The session's receive meets the end of a connection its client closed.
ReceiveFails(c) ==
    /\ session[c] = "serving" /\ sock[c] = "closed" /\ request[c] = "none"
    /\ session' = [session EXCEPT ![c] = "lost"]
    /\ UNCHANGED <<now, call_vars, handle_vars, channel_vars, query_vars,
                   server_up, dev, status, sets>>

\* The server process dies: its sessions and their connections with it, and
\* the end of an answer that was being sent.
ServerDies ==
    /\ server_up /\ server_up' = FALSE
    /\ session' = [c \in Counters |-> IF session[c] = "serving" THEN "lost" ELSE session[c]]
    /\ \E sent \in 0 .. Len(wire) : wire' = SubSeq(wire, 1, sent)
    /\ UNCHANGED <<now, call_vars, handle_vars, channel_vars, asked, info, got,
                   dev, status, sets>>

Tick ==
    /\ now < MaxTime /\ now' = now + 1
    /\ UNCHANGED <<call_vars, handle_vars, server_vars, channel_vars, query_vars>>

----------------------------------------------------------------------------
Calls(c) ==
    \/ pm_create_counter(c) \/ pm_start_counter(c) \/ pm_continue_counter(c)
    \/ pm_stop_counter(c) \/ pm_get_counter_data(c) \/ pm_finalize_counter(c)

Replies(c) ==
    \/ Started(c) \/ Continued(c) \/ Stopped(c) \/ Got(c) \/ Finalized(c)
    \/ Created(c) \/ CreatedTooLate(c) \/ Refused(c) \/ ConnectionLost(c)

Query == ReadField \/ ReadError \/ QueryLost \/ QueryDone

Session(c) ==
    \/ Create(c) \/ Start(c) \/ Restart(c) \/ Stop(c) \/ Get(c) \/ Finalize(c)
    \/ Reject(c) \/ ReceiveFails(c)

Next ==
    \/ \E c \in Counters : Calls(c) \/ Replies(c) \/ Session(c)
    \/ pm_get_device_info \/ pm_get_devices \/ Query \/ InfoRun
    \/ CannotConnect \/ RecvFails \/ ServerDies \/ Tick

\* The program's own calls are up to it; a thread that can run does.
Fairness ==
    /\ \A c \in Counters : WF_vars(Replies(c)) /\ WF_vars(Session(c))
    /\ WF_vars(Query) /\ WF_vars(InfoRun)

Spec == Init /\ [][Next]_vars

FairSpec == Spec /\ Fairness

----------------------------------------------------------------------------
Window == [first : 1 .. MaxTime, second : 0 .. MaxTime]

\* timing never overflows: every stamp is at an index it has.
StampsOK ==
    /\ next_timing \in [Counters -> Nat] /\ DOMAIN timing = Counters
    /\ \A c \in Counters :
          next_timing[c] <= MaxIntervals[c] /\ timing[c] \in [Index(c) -> 0 .. MaxTime]

TypeOK ==
    /\ now \in 1 .. MaxTime
    /\ exited \in BOOLEAN /\ server_up \in BOOLEAN
    /\ op \in Operations \cup {"none", "CREATE", "INFO_DEVICE", "LIST_DEVICES"}
    /\ on \in Counters \cup {Nobody} /\ stage \in {"idle", "wait", "query"}
    /\ sock \in [Counters -> {"none", "open", "closed"}]
    /\ num_lines \in [Counters -> Int] /\ dev \in [Counters -> 0 .. NDevices]
    /\ StampsOK
    /\ request \in [Counters -> Operations \cup {"none", "CREATE"}]
    /\ reply \in [Counters -> {"none", "SUCCESS", "ERROR", "data"}]
    /\ session \in [Counters -> {"none", "refused", "serving", "finalized", "lost"}]
    /\ status \in [Counters -> {"INACTIVE", "ACTIVE"}]
    /\ sets \in [Counters -> Seq(Window)]
    /\ reply_sets \in [Counters -> Seq(Window)]
    /\ energy \in [Counters -> Seq(Window)]
    /\ asked \in 0 .. NDevices /\ info \in {"none", "asked", "answered"}
    /\ wire \in Seq(Int) /\ got \in Seq(Int)

\* The client's thread is not inside a call on c.
Quiet(c) == ~exited /\ sock[c] = "open" /\ ~(stage # "idle" /\ on = c)

(***************************************************************************)
(* The two ends agree on what was recorded: outside its calls the client   *)
(* has stamped as many intervals as the session has closed sets, whatever  *)
(* mixture of starts, continues and stops it made (pm_stop_counter counts  *)
(* before it asks, pm_start_counter resets after it was answered).         *)
(***************************************************************************)
IntervalsMatchSets ==
    \A c \in Counters : Quiet(c) =>
        Len(sets[c]) = next_timing[c] + (IF status[c] = "ACTIVE" THEN 1 ELSE 0)

\* Interval i of the client, counted from 1, as timing holds it.
IntervalStart(c, i) == timing[c][2 * (i - 1)]
IntervalStop(c, i) == timing[c][2 * (i - 1) + 1]

(***************************************************************************)
(* The interval the client stamped lies within the set the server          *)
(* recorded under the same number: printing spreads the set's samples over *)
(* that interval, so no measured moment may be outside the recording.      *)
(***************************************************************************)
IntervalsWithinSets ==
    \A c \in Counters : Quiet(c) =>
        \A i \in 1 .. next_timing[c] :
            /\ sets[c][i].first <= IntervalStart(c, i)
            /\ IntervalStart(c, i) <= IntervalStop(c, i)
            /\ IntervalStop(c, i) <= sets[c][i].second

(***************************************************************************)
(* A get's reply is about closed sets only, one per interval the client    *)
(* stamped: get() dereferences the end of every set (se.second.get()).     *)
(***************************************************************************)
RepliesAreComplete ==
    \A c \in Counters : reply[c] = "data" =>
        /\ ~exited => Len(reply_sets[c]) = next_timing[c]
        /\ \A i \in 1 .. Len(reply_sets[c]) : reply_sets[c][i].second # 0

(***************************************************************************)
(* Requests and replies never get out of step on a connection: at most one *)
(* of the two is under way, and only while its call is waiting for it.     *)
(***************************************************************************)
InStep ==
    \A c \in Counters : ~exited /\ (request[c] # "none" \/ reply[c] # "none") =>
        /\ stage = "wait" /\ on = c
        /\ request[c] \in {"none", op}
        /\ request[c] = "none" \/ reply[c] = "none"

(***************************************************************************)
(* What a query stores is what the server has: the fields arrive in the    *)
(* order in which they are read, and no length is taken for a number of    *)
(* devices or of lines.  A usable counter knows its own device's lines.    *)
(***************************************************************************)
QueriesAnswered ==
    /\ stage = "query" /\ Len(got) = Expected(got) =>
          IF op = "LIST_DEVICES" THEN got[1] = NDevices /\ \A d \in Devices : got[2 * d + 1] = d
          ELSE got[2] = get_num_lines(asked) /\ got[4] = asked
    /\ \A c \in Counters : Quiet(c) => num_lines[c] = get_num_lines(dev[c])

(***************************************************************************)
(* Every call returns, or ends the process: the client never waits for a   *)
(* reply that will not come, whenever the server refuses, closes or dies.  *)
(***************************************************************************)
CallsReturn == (stage # "idle") ~> (stage = "idle")

----------------------------------------------------------------------------
\* The session as the abstract recorder sees it.
Mode(c) ==
    CASE session[c] \in {"none", "refused"} -> "none"
      [] session[c] = "serving" -> IF status[c] = "ACTIVE" THEN "active" ELSE "inactive"
      [] session[c] = "finalized" -> "closed"
      [] session[c] = "lost" -> "lost"

mode == [c \in Counters |-> Mode(c)]

\* Data on its way to the client counts as fetched.
fetched == [c \in Counters |-> IF reply[c] = "data" THEN reply_sets[c] ELSE energy[c]]

Recorder == INSTANCE IntervalRecorder
    WITH Counters <- Counters, now <- now, mode <- mode, sets <- sets, fetched <- fetched

(***************************************************************************)
(* The library and the server together implement IntervalRecorder: every   *)
(* call takes effect at once, when the session handles it, a refused call  *)
(* has no effect, and what a get delivers is what was recorded.            *)
(***************************************************************************)
ImplementsRecorder == Recorder!Spec
============================================================================
